---------------------------- MODULE Accounts_proofs ----------------------------
(***************************************************************************)
(* Proofs about Accounts: its inductive invariant, for any number of       *)
(* logins, challenges and reset links, the lockout, and that a login keeps *)
(* the promise of LoginLineage.                                            *)
(***************************************************************************)
EXTENDS Accounts, FiniteSetTheorems, WellFoundedInduction, TLAPS

(* What one transaction does to the sessions: none that was revoked or expired
   comes back, and what is live was live or is new. *)
LoginInv == LoginTypeOK /\ OneUsableToken /\ TurnsCounted
LoginStep ==
    /\ \A s \in Logins : login[s] # "unused" => login'[s] # "unused"
    /\ \A s \in Live' : s \in Live \/ login[s] = "unused"

-------------------------------------------------------------------------------
(* Revoking sessions. *)
LEMMA RevokeStep ==
    ASSUME LoginInv, NEW S, RevokeSessions(S)
    PROVE  /\ LoginInv' /\ LoginStep
           /\ Live' = Live \ S
  <1> USE DEF LoginInv, LoginTypeOK, RevokeSessions, RevokedLogins, TokensWithout,
              Unrevoked, Live
  <1>1. LoginTypeOK' /\ TurnsCounted'
    BY DEF TurnsCounted
  <1>2. OneUsableToken'
    <2> SUFFICES ASSUME NEW s \in Logins
                 PROVE  {t \in usable' : t.login = s} =
                            IF s \in Unrevoked' THEN {TokenOf(s, turns'[s])} ELSE {}
      BY DEF OneUsableToken
    <2>1. {t \in usable : t.login = s} =
              IF s \in Unrevoked THEN {TokenOf(s, turns[s])} ELSE {}
      BY DEF OneUsableToken
    <2>2. CASE s \in S \cap Unrevoked
      BY <2>1, <2>2
    <2>3. CASE s \notin S \cap Unrevoked
      <3>1. {t \in usable' : t.login = s} = {t \in usable : t.login = s}
        BY <2>3
      <3>2. (s \in Unrevoked') = (s \in Unrevoked)
        BY <2>3
      <3> QED  BY <3>1, <3>2, <2>1
    <2> QED  BY <2>2, <2>3
  <1>3. LoginStep /\ Live' = Live \ S
    BY DEF LoginStep
  <1> QED  BY <1>1, <1>2, <1>3

(* Opening a session, with the sessions that make room for it. *)
LEMMA CreateStep ==
    ASSUME LoginInv, NEW s \in Logins, CreateSession(s)
    PROVE  /\ LoginInv' /\ LoginStep
           /\ Live' = (Live \ Excess(Live \cup {s})) \cup {s}
           /\ login[s] = "unused" /\ turns' = [turns EXCEPT ![s] = 1]
  <1> DEFINE X == Excess(Live \cup {s})
  <1> USE DEF LoginInv, LoginTypeOK
  <1>1. /\ login[s] = "unused"
        /\ login' = [RevokedLogins(X) EXCEPT ![s] = "live"]
        /\ turns' = [turns EXCEPT ![s] = 1]
        /\ usable' = TokensWithout(X) \cup {TokenOf(s, 1)}
    BY DEF CreateSession
  <1> HIDE DEF X
  <1>2. TokenOf(s, 1) \in RefreshToken
    BY DEF TokenOf, RefreshToken
  <1>3. LoginTypeOK' /\ TurnsCounted'
    BY <1>1, <1>2 DEF TurnsCounted, RevokedLogins, TokensWithout, Unrevoked
  <1>4. OneUsableToken'
    <2> SUFFICES ASSUME NEW r \in Logins
                 PROVE  {t \in usable' : t.login = r} =
                            IF r \in Unrevoked' THEN {TokenOf(r, turns'[r])} ELSE {}
      BY DEF OneUsableToken
    <2>1. {t \in usable : t.login = r} =
              IF r \in Unrevoked THEN {TokenOf(r, turns[r])} ELSE {}
      BY DEF OneUsableToken
    <2>2. CASE r = s
      <3>1. {t \in usable : t.login = s} = {} /\ s \in Unrevoked'
        BY <1>1, <2>1, <2>2 DEF Unrevoked, RevokedLogins
      <3> QED  BY <1>1, <2>2, <3>1 DEF TokensWithout, TokenOf
    <2>3. CASE r # s /\ r \in X \cap Unrevoked
      <3>1. r \notin Unrevoked'
        BY <1>1, <2>3 DEF Unrevoked, RevokedLogins
      <3> QED  BY <1>1, <2>3, <3>1 DEF TokensWithout, TokenOf
    <2>4. CASE r # s /\ r \notin X \cap Unrevoked
      <3>1. {t \in usable' : t.login = r} = {t \in usable : t.login = r}
        BY <1>1, <2>4 DEF TokensWithout, TokenOf
      <3>2. (r \in Unrevoked') = (r \in Unrevoked) /\ turns'[r] = turns[r]
        BY <1>1, <2>4 DEF Unrevoked, RevokedLogins
      <3> QED  BY <3>1, <3>2, <2>1
    <2> QED  BY <2>2, <2>3, <2>4
  <1>5. LoginStep /\ Live' = (Live \ X) \cup {s}
    BY <1>1 DEF LoginStep, Live, RevokedLogins, Unrevoked
  <1> QED  BY <1>1, <1>3, <1>4, <1>5 DEF X

(* A refresh that rotates its token. *)
LEMMA RotateStep ==
    ASSUME LoginInv, NEW t \in RefreshToken, t.login \in Live, Rotate(t)
    PROVE  /\ LoginInv' /\ LoginStep
           /\ Live' = Live /\ login' = login
           /\ t = TokenOf(t.login, turns[t.login])
           /\ turns' = [turns EXCEPT ![t.login] = turns[t.login] + 1]
  <1> DEFINE s == t.login
             u == TokenOf(s, turns[s] + 1)
  <1> USE DEF LoginInv, LoginTypeOK
  <1>1. /\ t \in usable /\ login' = login
        /\ turns' = [turns EXCEPT ![s] = turns[s] + 1]
        /\ usable' = (usable \ {t}) \cup {u}
    BY DEF Rotate
  <1>2. s \in Logins /\ s \in Unrevoked /\ turns[s] \in Nat
    BY DEF RefreshToken, Live, Unrevoked
  <1>3. u \in RefreshToken /\ u.login = s
    BY <1>2 DEF TokenOf, RefreshToken
  <1>4. t = TokenOf(s, turns[s])
    BY <1>1, <1>2 DEF OneUsableToken
  <1> HIDE DEF u
  <1>5. LoginTypeOK' /\ TurnsCounted'
    BY <1>1, <1>2, <1>3 DEF TurnsCounted, Unrevoked
  <1>6. OneUsableToken'
    <2> SUFFICES ASSUME NEW r \in Logins
                 PROVE  {v \in usable' : v.login = r} =
                            IF r \in Unrevoked' THEN {TokenOf(r, turns'[r])} ELSE {}
      BY DEF OneUsableToken
    <2>1. {v \in usable : v.login = r} =
              IF r \in Unrevoked THEN {TokenOf(r, turns[r])} ELSE {}
      BY DEF OneUsableToken
    <2>2. Unrevoked' = Unrevoked
      BY <1>1 DEF Unrevoked
    <2>3. CASE r = s
      <3>1. {v \in usable' : v.login = s} = {u}
        BY <1>1, <1>2, <1>3, <1>4, <2>1, <2>3
      <3>2. u = TokenOf(s, turns'[s])
        BY <1>1, <1>2 DEF u
      <3> QED  BY <3>1, <3>2, <2>2, <2>3, <1>2
    <2>4. CASE r # s
      <3>1. {v \in usable' : v.login = r} = {v \in usable : v.login = r}
        BY <1>1, <1>3, <2>4
      <3>2. turns'[r] = turns[r]
        BY <1>1, <1>2, <2>4
      <3> QED  BY <3>1, <3>2, <2>1, <2>2
    <2> QED  BY <2>3, <2>4
  <1> QED  BY <1>1, <1>4, <1>5, <1>6 DEF LoginStep, Live

(* A session's lifetime ends. *)
LEMMA ExpireStep ==
    ASSUME LoginInv, NEW s \in Logins, SessionExpires(s)
    PROVE  LoginInv' /\ LoginStep /\ Live' = Live \ {s} /\ turns' = turns
  <1> USE DEF LoginInv, LoginTypeOK, SessionExpires
  <1>1. LoginTypeOK' /\ TurnsCounted' /\ Unrevoked' = Unrevoked
    BY DEF TurnsCounted, Unrevoked
  <1>2. OneUsableToken'
    BY <1>1 DEF OneUsableToken
  <1> QED  BY <1>1, <1>2 DEF LoginStep, Live

-------------------------------------------------------------------------------
(* What a step can do to the sessions. *)
LEMMA SessionSteps ==
    ASSUME Next
    PROVE  \/ UNCHANGED loginVars
           \/ \E S \in SUBSET Logins : RevokeSessions(S)
           \/ \E s \in Logins : CreateSession(s)
           \/ \E t \in RefreshToken : t.login \in Live /\ Rotate(t)
           \/ \E s \in Logins : SessionExpires(s)
  <1>1. ASSUME NEW q \in ownerReads, Owner(q)
        PROVE  UNCHANGED loginVars \/ \E S \in SUBSET Logins : RevokeSessions(S)
    BY <1>1 DEF Owner, EndLogin, ConfirmationFails, ChangeEmail, SetupSignedOut,
       DisableMfa, ChangePassword, Setup, ConfirmSetup, RegenerateCodes,
       RevokeCredentials, RevokeAllSessions, loginVars
  <1>2. ASSUME Tokens
        PROVE  \/ \E S \in SUBSET Logins : RevokeSessions(S)
               \/ \E t \in RefreshToken : t.login \in Live /\ Rotate(t)
    <2>1. ASSUME NEW s \in Logins, NEW n \in 1..MaxRefreshes + 1,
                 Refresh(TokenOf(s, n))
          PROVE  \/ RevokeSessions({s})
                 \/ TokenOf(s, n).login \in Live /\ Rotate(TokenOf(s, n))
      BY <2>1 DEF Refresh, RefreshReused, TokenOf
    <2>2. \A s \in Logins, n \in 1..MaxRefreshes + 1 : TokenOf(s, n) \in RefreshToken
      BY AccountAssumption DEF RefreshToken, TokenOf
    <2>3. ASSUME NEW r \in Resets, ResetPassword(r)
          PROVE  RevokeSessions(Logins)
      BY <2>3 DEF ResetPassword, RevokeAllSessions
    <2>4. \A s \in Logins : {s} \in SUBSET Logins
      OBVIOUS
    <2> QED  BY <1>2, <2>1, <2>2, <2>3, <2>4 DEF Tokens
  <1>3. ASSUME SignIn
        PROVE  UNCHANGED loginVars \/ \E s \in Logins : CreateSession(s)
    BY <1>3 DEF SignIn, LoginFails, LoginOpens, LoginChallenged, AnswerChallenge,
       MissChallenge, CompleteLogin, loginVars
  <1>4. ASSUME Mailed PROVE UNCHANGED loginVars
    BY <1>4 DEF Mailed, VerifyEmail, IssueReset, loginVars
  <1>5. ASSUME Deadline
        PROVE  UNCHANGED loginVars \/ \E s \in Logins : SessionExpires(s)
    BY <1>5 DEF Deadline, LoginExpires, ChallengeExpires, ResetExpires, LockoutPasses,
       SetupExpires, Tick, loginVars
  <1> QED  BY <1>1, <1>2, <1>3, <1>4, <1>5 DEF Next

(* The credentials change only together with the end of every session. *)
LEMMA CredentialSteps ==
    ASSUME Next
    PROVE  UNCHANGED <<password, secret, batches>> \/ RevokeSessions(Logins)
  <1>1. ASSUME NEW q \in ownerReads, Owner(q)
        PROVE  UNCHANGED <<password, secret, batches>> \/ RevokeSessions(Logins)
    BY <1>1 DEF Owner, EndLogin, ConfirmationFails, ChangeEmail, SetupSignedOut,
       DisableMfa, ChangePassword, Setup, ConfirmSetup, RegenerateCodes,
       RevokeCredentials, RevokeAllSessions, mfaVars
  <1>2. ASSUME Tokens
        PROVE  UNCHANGED <<password, secret, batches>> \/ RevokeSessions(Logins)
    BY <1>2 DEF Tokens, Refresh, ResetPassword, RevokeAllSessions, mfaVars
  <1>3. ASSUME SignIn PROVE UNCHANGED <<password, secret, batches>>
    BY <1>3 DEF SignIn, LoginFails, LoginOpens, LoginChallenged, AnswerChallenge,
       MissChallenge, mfaVars
  <1>4. ASSUME Mailed PROVE UNCHANGED <<password, secret, batches>>
    BY <1>4 DEF Mailed, VerifyEmail, IssueReset, mfaVars
  <1>5. ASSUME Deadline PROVE UNCHANGED <<password, secret, batches>>
    BY <1>5 DEF Deadline, LoginExpires, ChallengeExpires, ResetExpires, LockoutPasses,
       SetupExpires, Tick, mfaVars
  <1> QED  BY <1>1, <1>2, <1>3, <1>4, <1>5 DEF Next

LEMMA LoginPart ==
    ASSUME LoginInv, Next
    PROVE  LoginInv' /\ LoginStep
  <1>1. CASE UNCHANGED loginVars
    BY <1>1 DEF LoginInv, LoginTypeOK, OneUsableToken, TurnsCounted, Unrevoked,
       LoginStep, Live, loginVars
  <1>2. CASE \E S \in SUBSET Logins : RevokeSessions(S)
    BY <1>2, RevokeStep
  <1>3. CASE \E s \in Logins : CreateSession(s)
    BY <1>3, CreateStep
  <1>4. CASE \E t \in RefreshToken : t.login \in Live /\ Rotate(t)
    BY <1>4, RotateStep
  <1>5. CASE \E s \in Logins : SessionExpires(s)
    BY <1>5, ExpireStep
  <1> QED  BY <1>1, <1>2, <1>3, <1>4, <1>5, SessionSteps

(* Sessions outlive no change of the credentials. *)
LEMMA SessionsPart ==
    ASSUME LoginInv, TypeOK, ReadsAreCurrent, Next,
           \A s \in Live : origin[s] = Present
    PROVE  /\ ownerReads' \subseteq OwnerRead
           /\ ReadsAreCurrent'
           /\ \A s \in Live' : origin'[s] = Present'
  <1>1. LoginStep
    BY LoginPart
  <1>2. Live' # {} => Present' = Present /\ secret' = secret
    <2>1. CASE UNCHANGED <<password, secret, batches>>
      BY <2>1 DEF Present
    <2>2. CASE RevokeSessions(Logins)
      BY <2>2, RevokeStep DEF Live
    <2> QED  BY <2>1, <2>2, CredentialSteps
  <1>3. ownerReads' = ownerReads \cup Reads(Live', secret' # 0)
    BY DEF Next, Authenticated
  <1>4. Live' \subseteq Logins /\ \A s \in Live' : login'[s] # "unused"
    BY DEF Live
  <1>5. ownerReads' \subseteq OwnerRead
    <2>1. ASSUME NEW b \in BOOLEAN PROVE Reads(Live', b) \subseteq OwnerRead
      BY <1>4 DEF Reads, OwnerRead
    <2>2. Reads(Live', secret' # 0) \subseteq OwnerRead
      BY <2>1
    <2> QED  BY <1>3, <2>2 DEF TypeOK
  <1>6. ReadsAreCurrent'
    <2> SUFFICES ASSUME NEW q \in ownerReads'
                 PROVE  /\ login'[q.login] # "unused"
                        /\ q.login \in Live' => q.totp = (secret' # 0)
      BY DEF ReadsAreCurrent
    <2>1. CASE q \in ownerReads
      <3>1. q.login \in Logins /\ login[q.login] # "unused"
        BY <2>1 DEF ReadsAreCurrent, TypeOK, OwnerRead
      <3>2. q.login \in Live' => q.login \in Live
        BY <3>1, <1>1 DEF LoginStep
      <3> QED  BY <2>1, <3>1, <3>2, <1>1, <1>2 DEF ReadsAreCurrent, LoginStep
    <2>2. CASE q \in Reads(Live', secret' # 0)
      BY <2>2, <1>4 DEF Reads
    <2> QED  BY <1>3, <2>1, <2>2
  <1>7. ASSUME NEW s \in Live' PROVE origin'[s] = Present'
    BY <1>2, <1>4 DEF Next, Witnessed
  <1> QED  BY <1>5, <1>6, <1>7

-------------------------------------------------------------------------------
(* The second factor. *)
LEMMA WindowFacts ==
    ASSUME TypeOK, NEW k \in Nat \ {0}, NEW f \in Window(k)
    PROVE  f \in TotpCode /\ f.secret = k /\ f.step \in Nat /\ f.step > lastStep
  BY DEF TypeOK, Window, TotpCode

(* The codes in the state after a step that accepts one, against the secret and
   the batches of the state before. *)
CodesKept ==
    /\ spent' \subseteq TotpCode
    /\ redeemed' \subseteq RecoveryCode
    /\ reused' \in BOOLEAN /\ ~reused'
    /\ \A f \in spent' : f.secret <= secrets /\ f.secret # 0
    /\ \A f \in redeemed' : f.batch <= batches

LEMMA TotpAccepted ==
    ASSUME TypeOK, CodesBehind, UsedOnce, NEW k \in Nat \ {0}, k <= secrets,
           NEW f \in Window(k), AcceptTotp(f),
           \A g \in spent : g.secret = k => g.step <= lastStep
    PROVE  /\ CodesKept
           /\ redeemed' = redeemed
           /\ \A g \in spent' : g.secret = k => g.step <= f.step
           /\ \A g \in spent' : g.secret = k \/ g \in spent
  <1>1. f \in TotpCode /\ f.secret = k /\ f.step \in Nat /\ f.step > lastStep
    BY WindowFacts
  <1>2. f \notin spent
    BY <1>1 DEF TypeOK
  <1>3. spent' = spent \cup {f} /\ reused' = FALSE /\ UNCHANGED <<redeemed, followed>>
    BY <1>2 DEF AcceptTotp, UsedOnce, TypeOK
  <1>4. \A g \in spent : g.step \in Nat /\ g.secret \in Nat \ {0}
    BY DEF TypeOK, TotpCode
  <1>5. lastStep \in Int /\ secrets \in Nat
    BY DEF TypeOK
  <1>6. \A g \in spent' : g.secret = k => g.step <= f.step
    BY <1>1, <1>3, <1>4, <1>5
  <1>7. CodesKept
    BY <1>1, <1>3, <1>4 DEF CodesKept, TypeOK, CodesBehind
  <1> QED  BY <1>1, <1>3, <1>6, <1>7

LEMMA RecoveryAccepted ==
    ASSUME TypeOK, CodesBehind, UsedOnce, NEW f \in recovery, AcceptRecovery(f)
    PROVE  /\ CodesKept
           /\ spent' = spent
           /\ redeemed' = redeemed \cup {f}
  <1>1. spent' = spent /\ redeemed' = redeemed \cup {f} /\ reused' = FALSE
        /\ followed' = followed
    BY DEF AcceptRecovery, UsedOnce, TypeOK, CodesBehind
  <1>2. \A g \in spent : g.secret \in Nat \ {0}
    BY DEF TypeOK, TotpCode
  <1> QED  BY <1>1, <1>2 DEF CodesKept, TypeOK, CodesBehind

(* What one accepted factor leaves behind while the secret and the batch of
   recovery codes stay. *)
LEMMA FactorStep ==
    ASSUME TypeOK, SecretsInOrder, CodesBehind, UsedOnce, secret # 0, Factor
    PROVE  /\ CodesKept
           /\ lastStep' \in Nat \cup {-1}
           /\ recovery' \subseteq recovery
           /\ recovery' \cap redeemed' = {}
           /\ \A f \in spent' : f.secret = secret => f.step <= lastStep'
  <1>1. ASSUME NEW f \in Window(secret), AcceptTotp(f), lastStep' = f.step,
               UNCHANGED recovery
        PROVE  /\ CodesKept
               /\ lastStep' \in Nat \cup {-1}
               /\ recovery' \subseteq recovery
               /\ recovery' \cap redeemed' = {}
               /\ \A g \in spent' : g.secret = secret => g.step <= lastStep'
    <2>1. secret \in Nat \ {0} /\ secret <= secrets
      BY DEF TypeOK, SecretsInOrder
    <2>2. \A g \in spent : g.secret = secret => g.step <= lastStep
      BY DEF CodesBehind
    <2>3. /\ CodesKept /\ redeemed' = redeemed
          /\ \A g \in spent' : g.secret = secret => g.step <= f.step
      BY <1>1, <2>1, <2>2, TotpAccepted
    <2>4. f.step \in Nat
      BY <2>1, WindowFacts
    <2> QED  BY <1>1, <2>3, <2>4 DEF CodesBehind
  <1>2. ASSUME NEW f \in recovery, AcceptRecovery(f), recovery' = recovery \ {f},
               UNCHANGED lastStep
        PROVE  /\ CodesKept
               /\ lastStep' \in Nat \cup {-1}
               /\ recovery' \subseteq recovery
               /\ recovery' \cap redeemed' = {}
               /\ \A g \in spent' : g.secret = secret => g.step <= lastStep'
    BY <1>2, RecoveryAccepted DEF TypeOK, CodesBehind
  <1> QED  BY <1>1, <1>2 DEF Factor

LEMMA ConfirmedStep ==
    ASSUME TypeOK, SecretsInOrder, CodesBehind, UsedOnce, Confirmed
    PROVE  /\ CodesKept
           /\ lastStep' \in Nat \cup {-1}
           /\ recovery' \subseteq recovery
           /\ recovery' \cap redeemed' = {}
           /\ \A f \in spent' : f.secret = secret => f.step <= lastStep'
           /\ secret = 0 => lastStep' = lastStep /\ spent' = spent
           /\ secret = 0 => UNCHANGED factorVars
  <1>1. CASE secret = 0
    <2>1. UNCHANGED <<lastStep, recovery, spent, redeemed, followed, reused>>
      BY <1>1 DEF Confirmed, factorVars
    <2>2. \A g \in spent : g.secret \in Nat \ {0}
      BY DEF TypeOK, TotpCode
    <2> QED  BY <1>1, <2>1, <2>2 DEF CodesKept, TypeOK, CodesBehind, UsedOnce, factorVars
  <1>2. CASE secret # 0
    BY <1>2, FactorStep DEF Confirmed
  <1> QED  BY <1>1, <1>2

-------------------------------------------------------------------------------
(* The lockout. *)
LEMMA LockPart ==
    ASSUME TypeOK, Next
    PROVE  /\ failed' \in 0..MaxLoginAttempts
           /\ lock' \in {"null", "ahead", "behind"}
           /\ (lock' = "null") = (failed' < MaxLoginAttempts)
  <1> DEFINE Fine == /\ failed' \in 0..MaxLoginAttempts
                     /\ lock' \in {"null", "ahead", "behind"}
                     /\ (lock' = "null") = (failed' < MaxLoginAttempts)
  <1>1. MaxLoginAttempts \in Nat \ {0}
    BY AccountAssumption
  <1>2. LockoutChecked => Fine
    BY <1>1 DEF TypeOK, LockoutChecked, LockedOut, Failures
  <1>3. CountFailure => Fine
    BY <1>1 DEF TypeOK, CountFailure, LockedOut, Failures
  <1>4. UNCHANGED lockVars => Fine
    BY DEF TypeOK, lockVars
  <1>5. failed' = 0 /\ lock' = "null" => Fine
    BY <1>1
  <1>6. LockoutPasses => Fine
    BY DEF TypeOK, LockoutPasses
  <1> HIDE DEF Fine
  <1>7. ASSUME NEW q \in ownerReads, Owner(q) PROVE Fine
    BY <1>2, <1>3, <1>4, <1>7 DEF Owner, EndLogin, ConfirmationFails, ChangeEmail,
       SetupSignedOut, SetupConfirmed, DisableMfa, ChangePassword, Setup,
       ConfirmSetup, RegenerateCodes, Confirmed
  <1>8. Tokens => Fine
    BY <1>4, <1>5 DEF Tokens, Refresh, ResetPassword
  <1>9. SignIn => Fine
    BY <1>2, <1>3, <1>5 DEF SignIn, LoginFails, LoginOpens, LoginChallenged,
       AnswerChallenge, MissChallenge, CompleteLogin
  <1>10. Mailed => Fine
    BY <1>4 DEF Mailed, VerifyEmail, IssueReset
  <1>11. Deadline => Fine
    BY <1>4, <1>6 DEF Deadline, LoginExpires, ChallengeExpires, ResetExpires,
       SetupExpires, Tick
  <1>12. Fine
    BY <1>7, <1>8, <1>9, <1>10, <1>11 DEF Next
  <1> QED  BY <1>12 DEF Fine

(* What a step can do to the challenges and the reset links. *)
ChallengesInv ==
    /\ challenge \in [Challenges -> ChallengeRow]
    /\ \A c \in Challenges :
          challenge[c].state = "open" => challenge[c].password = password

ResetsInv ==
    /\ reset \in [Resets -> ResetRow]
    /\ followed \subseteq Resets
    /\ \A r \in followed : reset[r].state = "void"
    /\ OneOpenReset
    /\ \A r \in Resets : reset[r].state = "open" => reset[r].password = password

LEMMA ChallengesPart ==
    ASSUME TypeOK, CurrentCredentials, Next
    PROVE  ChallengesInv' /\ password' \in Nat
  <1>0. ChallengesInv /\ password \in Nat
    BY DEF TypeOK, CurrentCredentials, ChallengesInv
  <1> DEFINE Fine == ChallengesInv' /\ password' \in Nat
             Same == UNCHANGED <<challenge, password>>
  <1>1. Same => Fine
    BY <1>0 DEF ChallengesInv
  <1>2. challenge' = VoidedChallenges /\ password' \in Nat => Fine
    BY <1>0 DEF ChallengesInv, VoidedChallenges, ChallengeRow, TokenState
  <1>3. password' \in {password, password + 1} => password' \in Nat
    BY <1>0
  <1>4. ASSUME NEW c \in Challenges,
               LoginChallenged(c) \/ AnswerChallenge(c) \/ MissChallenge(c)
                   \/ ChallengeExpires(c)
        PROVE  Fine
    <2>1. password' = password
      BY <1>4 DEF LoginChallenged, AnswerChallenge, MissChallenge, ChallengeExpires
    <2>2. ASSUME NEW row \in ChallengeRow, challenge' = [challenge EXCEPT ![c] = row],
                 row.state = "open" => row.password = password
          PROVE  Fine
      BY <1>0, <2>1, <2>2 DEF ChallengesInv
    <2>3. CASE LoginChallenged(c)
      <3>1. [state |-> "open", attempts |-> 0, password |-> password] \in ChallengeRow
        BY <1>0 DEF ChallengeRow, TokenState
      <3> QED  BY <2>2, <2>3, <3>1 DEF LoginChallenged
    <2>4. CASE AnswerChallenge(c)
      <3> DEFINE missed == [challenge[c] EXCEPT !.attempts = @ + 1]
                 row == [missed EXCEPT !.state = "void"]
      <3>0. missed \in ChallengeRow
        BY <1>0 DEF ChallengesInv, ChallengeRow
      <3>1. row \in ChallengeRow /\ row.state = "void"
        BY <3>0 DEF ChallengeRow, TokenState
      <3>2. challenge' = [challenge EXCEPT ![c] = row]
        BY <1>0, <2>4 DEF AnswerChallenge, ChallengesInv
      <3> QED  BY <2>2, <3>1, <3>2
    <2>5. CASE MissChallenge(c)
      <3> DEFINE row == [challenge[c] EXCEPT !.attempts = @ + 1]
      <3>1. row \in ChallengeRow /\ row.state = challenge[c].state
            /\ row.password = challenge[c].password
        BY <1>0 DEF ChallengesInv, ChallengeRow
      <3>2. challenge' = [challenge EXCEPT ![c] = row]
        BY <1>0, <2>5 DEF MissChallenge, ChallengesInv
      <3> QED  BY <1>0, <2>2, <3>1, <3>2 DEF ChallengesInv
    <2>6. CASE ChallengeExpires(c)
      <3> DEFINE row == [challenge[c] EXCEPT !.state = "void"]
      <3>1. row \in ChallengeRow /\ row.state = "void"
        BY <1>0 DEF ChallengesInv, ChallengeRow, TokenState
      <3>2. challenge' = [challenge EXCEPT ![c] = row]
        BY <1>0, <2>6 DEF ChallengeExpires, ChallengesInv
      <3> QED  BY <2>2, <3>1, <3>2
    <2> QED  BY <1>4, <2>3, <2>4, <2>5, <2>6
  <1> HIDE DEF Fine
  <1>5. ASSUME NEW q \in ownerReads, Owner(q) PROVE Fine
    BY <1>0, <1>1, <1>2, <1>3, <1>5 DEF Owner, EndLogin, ConfirmationFails,
       ChangeEmail, SetupSignedOut, DisableMfa, ChangePassword, Setup, ConfirmSetup,
       RegenerateCodes, RevokeCredentials
  <1>6. Tokens => Fine
    BY <1>1, <1>2, <1>3 DEF Tokens, Refresh, ResetPassword
  <1>7. SignIn => Fine
    BY <1>1, <1>4 DEF SignIn, LoginFails, LoginOpens
  <1>8. Mailed => Fine
    BY <1>1 DEF Mailed, VerifyEmail, IssueReset
  <1>9. Deadline => Fine
    BY <1>1, <1>4 DEF Deadline, LoginExpires, LockoutPasses, ResetExpires,
       SetupExpires, Tick
  <1> QED  BY <1>5, <1>6, <1>7, <1>8, <1>9 DEF Next, Fine

LEMMA ResetsPart ==
    ASSUME TypeOK, CodesBehind, OneOpenReset, CurrentCredentials, Next
    PROVE  ResetsInv'
  <1>0. ResetsInv /\ password \in Nat
    BY DEF TypeOK, CodesBehind, CurrentCredentials, ResetsInv, OneOpenReset
  <1> DEFINE FollowedKept == followed' = followed
             Same == UNCHANGED <<reset, password>>
             Expired(r) == reset' = [reset EXCEPT ![r].state = "void"]
  <1>1. Same /\ FollowedKept => ResetsInv'
    BY <1>0 DEF ResetsInv, OneOpenReset
  <1>2. reset' = VoidedResets /\ FollowedKept => ResetsInv'
    BY <1>0 DEF ResetsInv, OneOpenReset, VoidedResets, ResetRow, TokenState
  <1>3. ASSUME NEW r \in Resets, IssueReset(r) PROVE ResetsInv'
    <2> DEFINE row == [state |-> "open", password |-> password]
    <2>1. row \in ResetRow /\ row.state = "open" /\ row.password = password
      BY <1>0 DEF ResetRow, TokenState
    <2>2. /\ VoidedResets \in [Resets -> ResetRow]
          /\ \A p \in followed : VoidedResets[p].state = "void"
          /\ \A p \in Resets : VoidedResets[p].state # "open"
      BY <1>0 DEF ResetsInv, OneOpenReset, VoidedResets, ResetRow, TokenState
    <2>3. reset' = [VoidedResets EXCEPT ![r] = row]
          /\ reset[r].state = "unissued" /\ password' = password /\ FollowedKept
      BY <1>3 DEF IssueReset, factorVars
    <2> HIDE DEF row
    <2>4. /\ reset' \in [Resets -> ResetRow]
          /\ reset'[r] = row
          /\ \A p \in Resets \ {r} : reset'[p] = VoidedResets[p]
      BY <2>1, <2>2, <2>3
    <2>5. r \notin followed
      BY <1>0, <2>3 DEF ResetsInv
    <2>6. followed' \subseteq Resets /\ \A p \in followed' : reset'[p].state = "void"
      BY <1>0, <2>2, <2>3, <2>4, <2>5 DEF ResetsInv
    <2>7. \A p \in Resets : reset'[p].state = "open" => p = r
      BY <2>2, <2>4
    <2>8. OneOpenReset'
      BY <2>7 DEF OneOpenReset
    <2>9. \A p \in Resets : reset'[p].state = "open" => reset'[p].password = password'
      BY <2>1, <2>3, <2>4, <2>7
    <2> QED  BY <2>4, <2>6, <2>8, <2>9 DEF ResetsInv
  <1>4. ASSUME NEW r \in Resets, Expired(r)
        PROVE  /\ reset' \in [Resets -> ResetRow]
               /\ reset'[r].state = "void"
               /\ \A p \in Resets \ {r} : reset'[p] = reset[p]
    <2> DEFINE row == [reset[r] EXCEPT !.state = "void"]
    <2>1. row \in ResetRow /\ row.state = "void"
      BY <1>0 DEF ResetsInv, OneOpenReset, ResetRow, TokenState
    <2>2. reset' = [reset EXCEPT ![r] = row]
      BY <1>0, <1>4 DEF ResetsInv, OneOpenReset
    <2> HIDE DEF row
    <2> QED  BY <1>0, <2>1, <2>2 DEF ResetsInv, OneOpenReset
  <1>5. ASSUME NEW r \in Resets, ResetExpires(r) PROVE ResetsInv'
    <2>1. Expired(r) /\ password' = password /\ FollowedKept
      BY <1>5 DEF ResetExpires, factorVars
    <2> QED  BY <1>0, <1>4, <2>1 DEF ResetsInv, OneOpenReset
  <1>6. ASSUME NEW r \in Resets, ResetPassword(r) PROVE ResetsInv'
    <2>1. Expired(r) /\ followed' = followed \cup {r} /\ reset[r].state = "open"
      BY <1>6 DEF ResetPassword, AcceptLink, ResetHolds
    <2> QED  BY <1>0, <1>4, <1>6, <2>1 DEF ResetsInv, OneOpenReset
  <1>7. ASSUME Confirmed PROVE FollowedKept
    BY <1>7 DEF Confirmed, Factor, AcceptTotp, AcceptRecovery, factorVars
  <1>8. UNCHANGED factorVars => FollowedKept
    BY DEF factorVars
  <1> HIDE DEF FollowedKept
  <1>9. ASSUME NEW q \in ownerReads, Owner(q) PROVE ResetsInv'
    <2>1. CASE ChangePassword(q)
      BY <1>2, <1>7, <2>1 DEF ChangePassword
    <2>2. CASE ~ChangePassword(q)
      <3>1. Same
        BY <1>9, <2>2 DEF Owner, EndLogin, ConfirmationFails, ChangeEmail,
           SetupSignedOut, DisableMfa, Setup, ConfirmSetup, RegenerateCodes
      <3>2. FollowedKept
        <4>1. CASE DisableMfa(q) \/ RegenerateCodes(q) \/ ConfirmSetup(q)
          BY <4>1 DEF DisableMfa, RegenerateCodes, ConfirmSetup, AcceptTotp,
             AcceptRecovery, FollowedKept
        <4>2. CASE \/ \E s \in Logins : EndLogin(q, s)
                   \/ ConfirmationFails(q) \/ ChangeEmail(q) \/ SetupSignedOut(q)
                   \/ Setup(q)
          BY <1>7, <1>8, <4>2 DEF EndLogin, ConfirmationFails, ChangeEmail,
             SetupSignedOut, Setup, SetupConfirmed
        <4> QED  BY <1>9, <2>2, <4>1, <4>2 DEF Owner
      <3> QED  BY <1>1, <3>1, <3>2
    <2> QED  BY <2>1, <2>2
  <1>10. Tokens => ResetsInv'
    BY <1>1, <1>6, <1>8 DEF Tokens, Refresh
  <1>11. SignIn => ResetsInv'
    <2>1. ASSUME SignIn PROVE Same /\ FollowedKept
      BY <1>8, <2>1 DEF SignIn, LoginFails, LoginOpens, LoginChallenged,
         AnswerChallenge, MissChallenge, Factor, AcceptTotp, AcceptRecovery,
         FollowedKept
    <2> QED  BY <1>1, <2>1
  <1>12. Mailed => ResetsInv'
    BY <1>2, <1>3, <1>8 DEF Mailed, VerifyEmail
  <1>13. Deadline => ResetsInv'
    BY <1>1, <1>5, <1>8 DEF Deadline, LoginExpires, LockoutPasses, ChallengeExpires,
       SetupExpires, Tick
  <1> QED  BY <1>9, <1>10, <1>11, <1>12, <1>13 DEF Next

-------------------------------------------------------------------------------
(* The codes, the secrets and the setup. *)
CodesInv ==
    /\ {secret, secrets, batches, step} \subseteq Nat
    /\ lastStep \in Nat \cup {-1}
    /\ recovery \subseteq RecoveryCode
    /\ setup \in SetupRow
    /\ spent \subseteq TotpCode
    /\ redeemed \subseteq RecoveryCode
    /\ reused \in BOOLEAN /\ ~reused
    /\ SecretsInOrder
    /\ \A f \in spent :
          /\ f.secret <= secrets
          /\ f.secret = secret => f.step <= lastStep
          /\ f.secret # setup.secret
    /\ \A f \in recovery \cup redeemed : f.batch <= batches
    /\ recovery \cap redeemed = {}
    /\ SetupProvesPassword

LEMMA CodesHold ==
    ASSUME TypeOK, SecretsInOrder, CodesBehind, UsedOnce, SetupProvesPassword
    PROVE  CodesInv
  BY DEF TypeOK, CodesBehind, UsedOnce, CodesInv

(* What a step may leave of the codes while the secrets stay. *)
FactorKept ==
    /\ CodesKept
    /\ lastStep' \in Nat \cup {-1}
    /\ recovery' \subseteq recovery
    /\ recovery' \cap redeemed' = {}
    /\ \A f \in spent' : f.secret = secret => f.step <= lastStep'
    /\ secret = 0 => lastStep' = lastStep /\ spent' = spent

LEMMA SetupType == NoSetup \in SetupRow
  BY DEF NoSetup, SetupRow

LEMMA SecretsStay ==
    ASSUME CodesInv, FactorKept, UNCHANGED mfaVars, setup' \in {setup, NoSetup},
           step' \in Nat
    PROVE  CodesInv'
  <1>1. secret' = secret /\ secrets' = secrets /\ batches' = batches
    BY DEF mfaVars
  <1>2. SetupProvesPassword' /\ setup' \in SetupRow
    BY SetupType DEF CodesInv, SetupProvesPassword
  <1>5. SecretsInOrder'
    <2>1. /\ secret' <= secrets'
          /\ secret' = 0 => lastStep' = -1
      BY <1>1 DEF CodesInv, FactorKept, SecretsInOrder
    <2>2. CASE setup' = NoSetup
      <3>1. NoSetup.secret <= secrets'
        BY <1>1 DEF CodesInv, NoSetup
      <3> QED  BY <2>1, <2>2, <3>1 DEF SecretsInOrder
    <2>3. CASE setup' = setup
      BY <1>1, <2>1, <2>3 DEF CodesInv, SecretsInOrder
    <2> QED  BY <2>2, <2>3
  <1>3. /\ recovery' \subseteq RecoveryCode /\ redeemed' \subseteq RecoveryCode
        /\ \A f \in recovery' \cup redeemed' : f.batch <= batches'
    BY <1>1 DEF CodesInv, FactorKept, CodesKept
  <1>4. ASSUME NEW f \in spent' PROVE f.secret # setup'.secret
    <2>1. CASE setup' = NoSetup
      BY <1>4, <2>1 DEF FactorKept, CodesKept, NoSetup
    <2>2. CASE setup' # NoSetup
      BY <1>4, <2>2 DEF CodesInv, FactorKept, SecretsInOrder
    <2> QED  BY <2>1, <2>2
  <1> QED  BY <1>1, <1>2, <1>5, <1>3, <1>4 DEF CodesInv, FactorKept, CodesKept

LEMMA FactorFacts ==
    ASSUME TypeOK, SecretsInOrder, CodesBehind, UsedOnce
    PROVE  /\ Confirmed => FactorKept
           /\ secret # 0 /\ Factor => FactorKept
           /\ UNCHANGED factorVars => FactorKept
  <1>1. Confirmed => FactorKept
    BY ConfirmedStep DEF FactorKept
  <1>2. secret # 0 /\ Factor => FactorKept
    BY FactorStep DEF FactorKept
  <1>3. ASSUME UNCHANGED factorVars PROVE FactorKept
    <2>1. UNCHANGED <<lastStep, recovery, spent, redeemed, reused>>
      BY <1>3 DEF factorVars
    <2>2. \A g \in spent : g.secret \in Nat \ {0}
      BY DEF TypeOK, TotpCode
    <2> QED  BY <2>1, <2>2 DEF FactorKept, CodesKept, TypeOK, CodesBehind, UsedOnce
  <1> QED  BY <1>1, <1>2, <1>3

(* A setup begins: its secret is new, and whoever asked for it is not excused
   from the password by a stale read. *)
LEMMA SetupStep ==
    ASSUME TypeOK, SecretsInOrder, CodesBehind, UsedOnce, SetupProvesPassword,
           ReadsAreCurrent, NEW q \in ownerReads, Setup(q)
    PROVE  CodesInv'
  <1> DEFINE row == [login |-> q.login, secret |-> secrets + 1, proved |-> TRUE]
  <1>1. CodesInv
    BY CodesHold
  <1>2. q.login \in Logins /\ q.totp = FALSE
    BY DEF Setup, StillSignedIn, ReadsAreCurrent, TypeOK, OwnerRead
  <1>3. /\ setup' = row /\ secret = 0 /\ Confirmed
        /\ secrets' = secrets + 1 /\ UNCHANGED <<secret, batches, step>>
    BY <1>2 DEF Setup, SetupConfirmed
  <1>4. FactorKept
    BY <1>3, FactorFacts
  <1>5. row \in SetupRow /\ row.secret = secrets + 1 /\ row.login = q.login /\ row.proved
    BY <1>1, <1>2 DEF SetupRow, CodesInv, Logins
  <1> HIDE DEF row
  <1>6. SecretsInOrder'
    BY <1>1, <1>2, <1>3, <1>4, <1>5 DEF CodesInv, FactorKept, SecretsInOrder
  <1>7. SetupProvesPassword'
    BY <1>3, <1>5 DEF SetupProvesPassword
  <1>8. \A f \in spent' : /\ f.secret <= secrets'
                          /\ f.secret = secret' => f.step <= lastStep'
                          /\ f.secret # setup'.secret
    <2> SUFFICES ASSUME NEW f \in spent'
                 PROVE  /\ f.secret <= secrets'
                        /\ f.secret = secret' => f.step <= lastStep'
                        /\ f.secret # setup'.secret
      OBVIOUS
    <2>1. f.secret \in Nat /\ f.secret <= secrets /\ secrets \in Nat
      BY <1>1, <1>4 DEF FactorKept, CodesKept, TotpCode, CodesInv
    <2> QED  BY <1>3, <1>4, <1>5, <2>1 DEF FactorKept
  <1> QED  BY <1>1, <1>3, <1>4, <1>5, <1>6, <1>7, <1>8 DEF CodesInv, FactorKept, CodesKept

LEMMA NewBatchFacts ==
    ASSUME CodesInv, CodesKept
    PROVE  /\ NewBatch \subseteq RecoveryCode
           /\ NewBatch \cap redeemed' = {}
           /\ \A f \in NewBatch \cup redeemed' : f.batch <= batches + 1
  <1>1. NewBatch \subseteq RecoveryCode /\ \A f \in NewBatch : f.batch = batches + 1
    BY DEF NewBatch, RecoveryCode, CodesInv
  <1>2. \A f \in redeemed' : f.batch \in Nat /\ f.batch <= batches
    BY DEF CodesKept, RecoveryCode
  <1>3. batches \in Nat
    BY DEF CodesInv
  <1> QED  BY <1>1, <1>2, <1>3

(* No code of a secret that waits in a setup was accepted before. *)
LEMMA ConfirmSetupStep ==
    ASSUME TypeOK, SecretsInOrder, CodesBehind, UsedOnce, SetupProvesPassword,
           NEW q \in ownerReads, ConfirmSetup(q)
    PROVE  CodesInv'
  <1> DEFINE k == setup.secret
  <1>1. CodesInv
    BY CodesHold
  <1>2. k \in Nat \ {0} /\ k <= secrets
    BY <1>1 DEF ConfirmSetup, CodesInv, SecretsInOrder, SetupRow
  <1>3. PICK f \in Window(k) : AcceptTotp(f) /\ lastStep' = f.step
    BY DEF ConfirmSetup
  <1>4. \A g \in spent : g.secret = k => g.step <= lastStep
    BY DEF CodesBehind
  <1>5. /\ CodesKept /\ redeemed' = redeemed
        /\ \A g \in spent' : g.secret = k => g.step <= f.step
    BY <1>2, <1>3, <1>4, TotpAccepted
  <1>6. f.step \in Nat
    BY <1>2, WindowFacts
  <1>7. /\ secret' = k /\ setup' = NoSetup /\ recovery' = NewBatch
        /\ batches' = batches + 1 /\ UNCHANGED <<secrets, step>>
    BY DEF ConfirmSetup, RevokeCredentials
  <1>8. NoSetup.secret = 0
    BY DEF NoSetup
  <1> HIDE DEF k
  <1>9. SecretsInOrder' /\ SetupProvesPassword'
    BY <1>1, <1>2, <1>7, <1>8 DEF SecretsInOrder, SetupProvesPassword, CodesInv
  <1>10. \A g \in spent' : /\ g.secret <= secrets'
                           /\ g.secret = secret' => g.step <= lastStep'
                           /\ g.secret # setup'.secret
    BY <1>3, <1>5, <1>7, <1>8 DEF CodesKept
  <1> QED  BY <1>1, <1>2, <1>3, <1>5, <1>6, <1>7, <1>9, <1>10, SetupType, NewBatchFacts
              DEF CodesInv, CodesKept

(* change_mfa, where the factor is spent whatever becomes of the codes. *)
LEMMA ChangeMfaStep ==
    ASSUME TypeOK, SecretsInOrder, CodesBehind, UsedOnce, SetupProvesPassword,
           NEW q \in ownerReads, DisableMfa(q) \/ RegenerateCodes(q)
    PROVE  CodesInv'
  <1>1. CodesInv
    BY CodesHold
  <1>2. secret # 0 /\ secret \in Nat /\ secret <= secrets
    BY <1>1 DEF CodesInv, SecretsInOrder, DisableMfa, RegenerateCodes
  <1>3. /\ CodesKept
        /\ RegenerateCodes(q) =>
              /\ lastStep' \in Nat \cup {-1}
              /\ \A g \in spent' : g.secret = secret => g.step <= lastStep'
    <2>1. ASSUME NEW f \in Window(secret), AcceptTotp(f)
          PROVE  /\ CodesKept
                 /\ f.step \in Nat
                 /\ \A g \in spent' : g.secret = secret => g.step <= f.step
      BY <1>2, <2>1, TotpAccepted, WindowFacts DEF CodesBehind
    <2>2. ASSUME NEW f \in recovery, AcceptRecovery(f)
          PROVE  CodesKept /\ spent' = spent
      BY <2>2, RecoveryAccepted
    <2>3. CASE DisableMfa(q) /\ ~RegenerateCodes(q)
      BY <2>1, <2>2, <2>3 DEF DisableMfa
    <2>4. CASE RegenerateCodes(q)
      <3>1. CASE \E f \in Window(secret) : AcceptTotp(f) /\ lastStep' = f.step
        BY <2>1, <3>1
      <3>2. CASE \E f \in recovery : AcceptRecovery(f) /\ UNCHANGED lastStep
        BY <1>1, <2>2, <3>2 DEF CodesInv
      <3> QED  BY <2>4, <3>1, <3>2 DEF RegenerateCodes
    <2> QED  BY <2>3, <2>4
  <1>4. setup' = NoSetup /\ NoSetup.secret = 0 /\ UNCHANGED <<secrets, step>>
    BY DEF DisableMfa, RegenerateCodes, RevokeCredentials, NoSetup
  <1>5. SetupProvesPassword' /\ setup' \in SetupRow
    BY <1>4, SetupType DEF SetupProvesPassword
  <1>6. \A g \in spent' : g.secret <= secrets' /\ g.secret # setup'.secret /\ g.secret # 0
    BY <1>3, <1>4 DEF CodesKept
  <1>7. CASE DisableMfa(q)
    <2>1. secret' = 0 /\ lastStep' = -1 /\ recovery' = {} /\ batches' = batches
      BY <1>7 DEF DisableMfa
    <2>2. SecretsInOrder'
      BY <1>1, <1>4, <2>1 DEF SecretsInOrder, CodesInv
    <2> QED  BY <1>1, <1>3, <1>4, <1>5, <1>6, <2>1, <2>2 DEF CodesInv, CodesKept
  <1>8. CASE RegenerateCodes(q)
    <2>1. secret' = secret /\ recovery' = NewBatch /\ batches' = batches + 1
      BY <1>8 DEF RegenerateCodes
    <2>2. SecretsInOrder'
      BY <1>1, <1>2, <1>4, <2>1 DEF SecretsInOrder, CodesInv
    <2> QED  BY <1>1, <1>3, <1>4, <1>5, <1>6, <1>8, <2>1, <2>2, NewBatchFacts
                DEF CodesInv, CodesKept
  <1> QED  BY <1>7, <1>8

LEMMA CodesPart ==
    ASSUME TypeOK, SecretsInOrder, CodesBehind, UsedOnce, SetupProvesPassword,
           ReadsAreCurrent, Next
    PROVE  CodesInv'
  <1>0. CodesInv
    BY CodesHold
  <1> DEFINE Stay == /\ UNCHANGED mfaVars
                     /\ setup' \in {setup, NoSetup}
                     /\ step' \in {step, step + 1}
  <1>1. ASSUME FactorKept, Stay PROVE CodesInv'
    BY <1>0, <1>1, SecretsStay DEF CodesInv
  <1>2. ASSUME Confirmed \/ UNCHANGED factorVars PROVE FactorKept
    BY <1>2, FactorFacts
  <1>3. ASSUME NEW q \in ownerReads, Owner(q) PROVE CodesInv'
    <2>1. CASE Setup(q)
      BY <2>1, SetupStep
    <2>2. CASE ConfirmSetup(q)
      BY <2>2, ConfirmSetupStep
    <2>3. CASE DisableMfa(q) \/ RegenerateCodes(q)
      BY <2>3, ChangeMfaStep
    <2>4. CASE \/ \E s \in Logins : EndLogin(q, s)
               \/ ConfirmationFails(q) \/ ChangeEmail(q) \/ SetupSignedOut(q)
               \/ ChangePassword(q)
      <3>1. Stay /\ (Confirmed \/ UNCHANGED factorVars)
        BY <2>4 DEF EndLogin, ConfirmationFails, ChangeEmail, SetupSignedOut,
           SetupConfirmed, ChangePassword, RevokeCredentials
      <3> QED  BY <1>1, <1>2, <3>1
    <2> QED  BY <1>3, <2>1, <2>2, <2>3, <2>4 DEF Owner
  <1>4. ASSUME Tokens PROVE CodesInv'
    <2>1. CASE \E s \in Logins, n \in 1..MaxRefreshes + 1 : Refresh(TokenOf(s, n))
      <3>1. Stay /\ UNCHANGED factorVars
        BY <2>1 DEF Refresh
      <3> QED  BY <1>1, <1>2, <3>1
    <2>2. ASSUME NEW r \in Resets, ResetPassword(r) PROVE CodesInv'
      <3>1. Stay /\ UNCHANGED <<lastStep, recovery, spent, redeemed>>
        BY <2>2 DEF ResetPassword, AcceptLink
      <3>2. reused' = FALSE
        BY <2>2 DEF ResetPassword, AcceptLink, ResetHolds, CodesBehind, UsedOnce, TypeOK
      <3>3. \A g \in spent : g.secret \in Nat \ {0}
        BY DEF TypeOK, TotpCode
      <3>4. FactorKept
        BY <3>1, <3>2, <3>3 DEF FactorKept, CodesKept, TypeOK, CodesBehind
      <3> QED  BY <1>1, <3>1, <3>4
    <2> QED  BY <1>4, <2>1, <2>2 DEF Tokens
  <1>5. ASSUME SignIn PROVE CodesInv'
    <2>1. Stay
      BY <1>5 DEF SignIn, LoginFails, LoginOpens, LoginChallenged, AnswerChallenge,
         MissChallenge
    <2>2. UNCHANGED factorVars \/ (secret # 0 /\ Factor)
      BY <1>5 DEF SignIn, LoginFails, LoginOpens, LoginChallenged, AnswerChallenge,
         MissChallenge, ChallengeHolds
    <2> QED  BY <1>1, <2>1, <2>2, FactorFacts
  <1>6. ASSUME Mailed PROVE CodesInv'
    <2>1. Stay /\ UNCHANGED factorVars
      BY <1>6 DEF Mailed, VerifyEmail, IssueReset
    <2> QED  BY <1>1, <1>2, <2>1
  <1>7. ASSUME Deadline PROVE CodesInv'
    <2>1. Stay /\ UNCHANGED factorVars
      BY <1>7 DEF Deadline, LoginExpires, LockoutPasses, ChallengeExpires,
         SetupExpires, ResetExpires, Tick
    <2> QED  BY <1>1, <1>2, <2>1
  <1> QED  BY <1>3, <1>4, <1>5, <1>6, <1>7 DEF Next

-------------------------------------------------------------------------------
(* The invariant. *)
LEMMA InitHolds == Init => AccountInv
  <1> SUFFICES ASSUME Init PROVE AccountInv
    OBVIOUS
  <1> USE LoginAssumption, AccountAssumption DEF Init, InitLogins
  <1>1. LoginTypeOK /\ OneUsableToken /\ TurnsCounted
    BY DEF LoginTypeOK, OneUsableToken, TurnsCounted, Unrevoked
  <1>2. /\ challenge \in [Challenges -> ChallengeRow]
        /\ reset \in [Resets -> ResetRow]
        /\ origin \in [Logins -> Credentials]
    BY DEF ChallengeRow, ResetRow, TokenState, Credentials, Nothing
  <1>3. TypeOK
    <2>1. MaxLoginAttempts \in Nat /\ 0 < MaxLoginAttempts
      OBVIOUS
    <2>2. failed \in 0..MaxLoginAttempts /\ (lock = "null") = (failed < MaxLoginAttempts)
      BY <2>1
    <2>3. lock \in {"null", "ahead", "behind"} /\ setup \in SetupRow
      BY SetupType
    <2> QED  BY <1>1, <1>2, <2>2, <2>3 DEF TypeOK
  <1>4. ReadsAreCurrent /\ SecretsInOrder /\ CodesBehind /\ OneOpenReset /\ UsedOnce
        /\ SetupProvesPassword
    BY <1>2 DEF ReadsAreCurrent, SecretsInOrder, CodesBehind, OneOpenReset, UsedOnce,
       SetupProvesPassword, NoSetup
  <1>5. CurrentCredentials
    BY DEF CurrentCredentials, Live
  <1> QED  BY <1>1, <1>3, <1>4, <1>5 DEF AccountInv

LEMMA StepHolds == AccountInv /\ [Next]_vars => AccountInv'
  <1> SUFFICES ASSUME AccountInv, [Next]_vars PROVE AccountInv'
    OBVIOUS
  <1>1. CASE UNCHANGED vars
    BY <1>1 DEF vars, loginVars, lockVars, factorVars, mfaVars, AccountInv, TypeOK,
       LoginTypeOK, OneUsableToken, TurnsCounted, ReadsAreCurrent, SecretsInOrder,
       CodesBehind, OneOpenReset, CurrentCredentials, UsedOnce, SetupProvesPassword,
       Unrevoked, Live, Present
  <1>2. CASE Next
    <2>1. LoginInv' /\ LoginStep
      BY <1>2, LoginPart DEF AccountInv, LoginInv, TypeOK
    <2>2. /\ ownerReads' \subseteq OwnerRead
          /\ ReadsAreCurrent'
          /\ \A s \in Live' : origin'[s] = Present'
      BY <1>2, SessionsPart DEF AccountInv, LoginInv, TypeOK, CurrentCredentials
    <2>3. /\ failed' \in 0..MaxLoginAttempts
          /\ lock' \in {"null", "ahead", "behind"}
          /\ (lock' = "null") = (failed' < MaxLoginAttempts)
      BY <1>2, LockPart DEF AccountInv
    <2>4. ChallengesInv' /\ password' \in Nat
      BY <1>2, ChallengesPart DEF AccountInv
    <2>5. ResetsInv'
      BY <1>2, ResetsPart DEF AccountInv
    <2>6. CodesInv'
      BY <1>2, CodesPart DEF AccountInv
    <2>7. origin' \in [Logins -> Credentials]
      <3>1. Present' \in Credentials /\ Nothing \in Credentials
        BY <2>4, <2>6 DEF Present, Nothing, Credentials, CodesInv
      <3>2. origin \in [Logins -> Credentials]
        BY DEF AccountInv, TypeOK
      <3> QED  BY <1>2, <3>1, <3>2 DEF Next, Witnessed
    <2>8. TypeOK'
      BY <2>1, <2>2, <2>3, <2>4, <2>5, <2>6, <2>7
         DEF TypeOK, LoginInv, ChallengesInv, ResetsInv, CodesInv
    <2>9. CurrentCredentials'
      BY <2>2, <2>4, <2>5 DEF CurrentCredentials, ChallengesInv, ResetsInv
    <2>10. CodesBehind'
      BY <2>5, <2>6 DEF CodesBehind, CodesInv, ResetsInv
    <2> QED  BY <2>1, <2>2, <2>5, <2>6, <2>8, <2>9, <2>10
                DEF AccountInv, LoginInv, CodesInv, ResetsInv, UsedOnce
  <1> QED  BY <1>1, <1>2

THEOREM AccountInvariant == Spec => []AccountInv
  <1>1. Init => AccountInv
    BY InitHolds
  <1>2. AccountInv /\ [Next]_vars => AccountInv'
    BY StepHolds
  <1> QED  BY <1>1, <1>2, PTL DEF Spec

(* The rows and what the requests have read of them are well formed. *)
THEOREM TypesHold == Spec => []TypeOK
  <1>1. AccountInv => TypeOK
    BY DEF AccountInv
  <1> QED  BY <1>1, AccountInvariant, PTL

(* A login is never continued on two chains of refresh tokens. *)
THEOREM OneTokenPerLogin == Spec => []OneUsableToken
  <1>1. AccountInv => OneUsableToken
    BY DEF AccountInv
  <1> QED  BY <1>1, AccountInvariant, PTL

(* No login, challenge or reset link outlives the credentials it was issued
   for. *)
THEOREM CredentialsAreCurrent == Spec => []CurrentCredentials
  <1>1. AccountInv => CurrentCredentials
    BY DEF AccountInv
  <1> QED  BY <1>1, AccountInvariant, PTL

(* No code and no reset link is accepted twice. *)
THEOREM NothingIsReused == Spec => []UsedOnce
  <1>1. AccountInv => UsedOnce
    BY DEF AccountInv
  <1> QED  BY <1>1, AccountInvariant, PTL

(* A setup that waits was begun with the password. *)
THEOREM SetupsAreProved == Spec => []SetupProvesPassword
  <1>1. AccountInv => SetupProvesPassword
    BY DEF AccountInv
  <1> QED  BY <1>1, AccountInvariant, PTL

-------------------------------------------------------------------------------
(* A second factor appears only with ConfirmSetup. *)
LEMMA EnablingStep ==
    ASSUME AccountInv, [Next]_vars, secret' \notin {0, secret}
    PROVE  setup.login \in Live
  <1>1. CASE \E q \in ownerReads : ConfirmSetup(q)
    BY <1>1 DEF ConfirmSetup, StillSignedIn
  <1>2. CASE ~\E q \in ownerReads : ConfirmSetup(q)
    <2>1. ASSUME NEW q \in ownerReads, Owner(q) PROVE secret' \in {0, secret}
      BY <1>2, <2>1 DEF Owner, EndLogin, ConfirmationFails, ChangeEmail,
         SetupSignedOut, DisableMfa, ChangePassword, Setup, RegenerateCodes, mfaVars
    <2>2. Tokens \/ SignIn \/ Mailed \/ Deadline => secret' = secret
      BY DEF Tokens, Refresh, ResetPassword, SignIn, LoginFails, LoginOpens,
         LoginChallenged, AnswerChallenge, MissChallenge, Mailed, VerifyEmail,
         IssueReset, Deadline, LoginExpires, ChallengeExpires, ResetExpires,
         LockoutPasses, SetupExpires, Tick, mfaVars
    <2>3. UNCHANGED vars => secret' = secret
      BY DEF vars, mfaVars
    <2> QED  BY <2>1, <2>2, <2>3 DEF Next
  <1> QED  BY <1>1, <1>2

(* A second factor is turned on by the login that began its setup, while that
   login is live. *)
THEOREM EnablingIsLive == Spec => EnabledByLiveLogin
  <1>1. AccountInv /\ [Next]_vars => [secret' \notin {0, secret} => setup.login \in Live]_vars
    BY EnablingStep
  <1> QED  BY <1>1, AccountInvariant, PTL DEF Spec, EnabledByLiveLogin

(* What a step can do during a lockout: a reset link ends it; otherwise the
   password and the lock stay, or the lockout passes. *)
LEMMA LockedStep ==
    ASSUME AccountInv, Next, LockedOut
    PROVE  /\ \A s \in Logins : login[s] = "unused" => login'[s] = "unused"
           /\ secret # 0 => UNCHANGED <<secret, batches, spent, redeemed>>
           /\ (lock' = "null") = (password' # password)
  <1> DEFINE Quiet == UNCHANGED login \/ \E S \in SUBSET Logins : RevokeSessions(S)
             Kept == secret # 0 => UNCHANGED <<secret, batches, spent, redeemed>>
             Waits == password' = password /\ lock' \in {"ahead", "behind"}
             Goal == /\ \A s \in Logins : login[s] = "unused" => login'[s] = "unused"
                     /\ Kept
                     /\ (lock' = "null") = (password' # password)
  <1>0. /\ lock = "ahead" /\ password \in Nat /\ ~Confirmed /\ ~CountFailure
        /\ ~LockoutChecked /\ login \in [Logins -> {"unused", "live", "expired", "revoked"}]
    BY DEF LockedOut, AccountInv, TypeOK, LoginTypeOK, Confirmed, CountFailure,
       LockoutChecked
  <1>1. ASSUME NEW S, RevokeSessions(S)
        PROVE  \A s \in Logins : login[s] = "unused" => login'[s] = "unused"
    BY <1>0, <1>1 DEF RevokeSessions, RevokedLogins, Unrevoked
  <1>2. ASSUME Quiet, Kept, Waits PROVE Goal
    BY <1>1, <1>2
  <1>3. ASSUME NEW r \in Resets, ResetPassword(r) PROVE Goal
    <2>1. RevokeSessions(Logins) /\ Kept
      BY <1>3 DEF ResetPassword, AcceptLink, mfaVars, RevokeAllSessions
    <2>2. lock' = "null" /\ password' = password + 1
      BY <1>3 DEF ResetPassword
    <2>3. (lock' = "null") = (password' # password)
      BY <1>0, <2>2
    <2> QED  BY <1>1, <2>1, <2>3
  <1> HIDE DEF Goal
  <1>4. ASSUME NEW q \in ownerReads, Owner(q) PROVE Goal
    <2>1. CASE \E s \in Logins : EndLogin(q, s)
      <3>1. Quiet /\ Kept /\ Waits
        BY <1>0, <2>1 DEF EndLogin, lockVars, factorVars, mfaVars, RevokeSessions,
           RevokedLogins, Unrevoked
      <3> QED  BY <1>2, <3>1
    <2>2. CASE Setup(q) \/ SetupSignedOut(q)
      <3>1. Quiet /\ Kept /\ Waits
        BY <1>0, <2>2 DEF Setup, SetupSignedOut, SetupConfirmed, loginVars, lockVars,
           factorVars
      <3> QED  BY <1>2, <3>1
    <2>3. CASE ConfirmSetup(q)
      <3>1. Quiet /\ Kept /\ Waits
        BY <1>0, <2>3 DEF ConfirmSetup, RevokeCredentials, RevokeAllSessions, lockVars
      <3> QED  BY <1>2, <3>1
    <2> QED  BY <1>0, <1>4, <2>1, <2>2, <2>3 DEF Owner, ConfirmationFails, ChangeEmail,
             DisableMfa, ChangePassword, RegenerateCodes
  <1>5. Tokens => Goal
    <2>1. ASSUME NEW t, Refresh(t) PROVE Goal
      <3>1. Kept /\ Waits
        BY <1>0, <2>1 DEF Refresh, lockVars, factorVars, mfaVars
      <3>2. Quiet \/ RevokeSessions({t.login})
        BY <2>1 DEF Refresh, Rotate, RefreshReused
      <3> QED  BY <1>1, <1>2, <3>1, <3>2 DEF Goal
    <2> QED  BY <1>3, <2>1 DEF Tokens
  <1>6. SignIn => Goal
    BY <1>0 DEF SignIn, LoginFails, LoginOpens, LoginChallenged, AnswerChallenge,
       MissChallenge, ChallengeHolds, LockedOut
  <1>7. ASSUME Mailed PROVE Goal
    <2>1. Quiet /\ Kept /\ Waits
      BY <1>0, <1>7 DEF Mailed, VerifyEmail, IssueReset, loginVars, lockVars, factorVars,
         mfaVars
    <2> QED  BY <1>2, <2>1
  <1>8. ASSUME Deadline PROVE Goal
    <2>1. Kept /\ Waits
      BY <1>0, <1>8 DEF Deadline, LoginExpires, ChallengeExpires, ResetExpires,
         LockoutPasses, SetupExpires, Tick, lockVars, factorVars, mfaVars
    <2>2. CASE \E s \in Logins : LoginExpires(s)
      <3>1. \A s \in Logins : login[s] = "unused" => login'[s] = "unused"
        BY <1>0, <2>2 DEF LoginExpires, SessionExpires
      <3>2. (lock' = "null") = (password' # password)
        BY <2>1
      <3> QED  BY <2>1, <3>1, <3>2 DEF Goal
    <2>3. CASE ~\E s \in Logins : LoginExpires(s)
      <3>1. UNCHANGED login
        BY <1>8, <2>3 DEF Deadline, ChallengeExpires, ResetExpires, LockoutPasses,
           SetupExpires, Tick, loginVars
      <3> QED  BY <1>2, <2>1, <3>1
    <2> QED  BY <2>2, <2>3
  <1>9. Goal
    BY <1>4, <1>5, <1>6, <1>7, <1>8 DEF Next
  <1> QED  BY <1>9 DEF Goal

(* A lockout stops every login and every use of the second factor, and only a
   reset link ends it early. *)
THEOREM LockoutsHold == Spec => LockoutHolds
  <1>1. AccountInv /\ [Next]_vars =>
            [LockedOut =>
                /\ \A s \in Logins : login[s] = "unused" => login'[s] = "unused"
                /\ secret # 0 => UNCHANGED <<secret, batches, spent, redeemed>>
                /\ (lock' = "null") = (password' # password)]_vars
    BY LockedStep
  <1> QED  BY <1>1, AccountInvariant, PTL DEF Spec, LockoutHolds

-------------------------------------------------------------------------------
(* The refinement: what an abstract login holds is the turn of its one usable
   token. *)
Opened == {s \in Logins : login[s] # "unused"}
Holder == [s \in Logins |->
              IF s \in Live THEN {t.turn : t \in {u \in usable : u.login = s}} ELSE {}]
Turn == [s \in Logins |-> IF s \in Live THEN {turns[s]} ELSE {}]

LEMMA HolderIsTurn == LoginInv => Holder = Turn
  <1> SUFFICES ASSUME LoginInv, NEW s \in Live
               PROVE  {t.turn : t \in {u \in usable : u.login = s}} = {turns[s]}
    BY DEF Holder, Turn, Live
  <1>1. {u \in usable : u.login = s} = {TokenOf(s, turns[s])}
    BY DEF LoginInv, OneUsableToken, Live, Unrevoked
  <1>2. TokenOf(s, turns[s]).turn = turns[s]
    BY DEF TokenOf
  <1>3. {t.turn : t \in {TokenOf(s, turns[s])}} = {TokenOf(s, turns[s]).turn}
    OBVIOUS
  <1> QED  BY <1>1, <1>2, <1>3

LEMMA LineageStep ==
    ASSUME LoginInv, LoginInv',
           \/ UNCHANGED loginVars
           \/ \E S \in SUBSET Logins : RevokeSessions(S)
           \/ \E s \in Logins : CreateSession(s)
           \/ \E t \in RefreshToken : t.login \in Live /\ Rotate(t)
           \/ \E s \in Logins : SessionExpires(s)
    PROVE  \/ Opened' = Opened /\ Holder' = Holder
           \/ \E S \in SUBSET Logins :
                 Opened' = Opened /\ Holder' = [s \in Logins |-> IF s \in S THEN {} ELSE Holder[s]]
           \/ \E s \in Logins :
                 /\ s \notin Opened /\ Opened' = Opened \cup {s}
                 /\ \E S \in SUBSET (Logins \ {s}) :
                       Holder' = [[r \in Logins |-> IF r \in S THEN {} ELSE Holder[r]]
                                     EXCEPT ![s] = {1}]
           \/ \E s \in Logins :
                 /\ \E n \in Holder[s] : Holder' = [Holder EXCEPT ![s] = {n + 1}]
                 /\ Opened' = Opened
  <1>1. Holder = Turn /\ Holder' = Turn'
    <2>1. (LoginInv => Holder = Turn)'
      BY HolderIsTurn, PTL
    <2> QED  BY <2>1, HolderIsTurn
  <1>2. CASE UNCHANGED loginVars
    BY <1>2 DEF loginVars, Opened, Holder, Live
  <1>3. ASSUME NEW S \in SUBSET Logins, RevokeSessions(S)
        PROVE  Opened' = Opened /\ Turn' = [s \in Logins |-> IF s \in S THEN {} ELSE Turn[s]]
    <2>1. Live' = Live \ S /\ turns' = turns
      BY <1>3, RevokeStep DEF RevokeSessions
    <2>2. Opened' = Opened
      BY <1>3 DEF RevokeSessions, RevokedLogins, Unrevoked, Opened, LoginInv, LoginTypeOK
    <2> QED  BY <2>1, <2>2 DEF Turn
  <1>4. ASSUME NEW s \in Logins, SessionExpires(s)
        PROVE  Opened' = Opened /\ Turn' = [r \in Logins |-> IF r \in {s} THEN {} ELSE Turn[r]]
    <2>1. Live' = Live \ {s} /\ turns' = turns
      BY <1>4, ExpireStep
    <2>2. Opened' = Opened
      BY <1>4 DEF SessionExpires, Opened, LoginInv, LoginTypeOK
    <2> QED  BY <2>1, <2>2 DEF Turn
  <1>5. ASSUME NEW s \in Logins, CreateSession(s)
        PROVE  /\ s \notin Opened /\ Opened' = Opened \cup {s}
               /\ \E S \in SUBSET (Logins \ {s}) :
                     Turn' = [[r \in Logins |-> IF r \in S THEN {} ELSE Turn[r]]
                                 EXCEPT ![s] = {1}]
    <2> DEFINE X == Excess(Live \cup {s})
               S == (X \cap Logins) \ {s}
    <2>1. /\ Live' = (Live \ X) \cup {s} /\ login[s] = "unused"
          /\ turns' = [turns EXCEPT ![s] = 1]
      BY <1>5, CreateStep
    <2>2. login' = [RevokedLogins(X) EXCEPT ![s] = "live"]
      BY <1>5 DEF CreateSession
    <2> HIDE DEF X
    <2>3. s \notin Opened /\ Opened' = Opened \cup {s}
      BY <2>1, <2>2 DEF Opened, RevokedLogins, Unrevoked, LoginInv, LoginTypeOK
    <2>4. Turn' = [[r \in Logins |-> IF r \in S THEN {} ELSE Turn[r]] EXCEPT ![s] = {1}]
      BY <2>1 DEF Turn, LoginInv, LoginTypeOK
    <2> QED  BY <2>3, <2>4
  <1>6. ASSUME NEW t \in RefreshToken, t.login \in Live, Rotate(t)
        PROVE  /\ t.login \in Logins /\ Opened' = Opened
               /\ turns[t.login] \in Turn[t.login]
               /\ Turn' = [Turn EXCEPT ![t.login] = {turns[t.login] + 1}]
    <2>1. /\ Live' = Live /\ login' = login
          /\ turns' = [turns EXCEPT ![t.login] = turns[t.login] + 1]
      BY <1>6, RotateStep
    <2>2. t.login \in Logins /\ t.login \in Live
      BY <1>6 DEF Live
    <2> QED  BY <2>1, <2>2 DEF Turn, Opened, LoginInv, LoginTypeOK
  <1> HIDE DEF Opened, Holder
  <1>7. CASE \E S \in SUBSET Logins : RevokeSessions(S)
    BY <1>1, <1>3, <1>7
  <1>8. CASE \E s \in Logins : SessionExpires(s)
    <2>1. PICK s \in Logins : SessionExpires(s)
      BY <1>8
    <2>2. {s} \in SUBSET Logins
      OBVIOUS
    <2> QED  BY <1>1, <1>4, <2>1, <2>2
  <1>9. CASE \E s \in Logins : CreateSession(s)
    BY <1>1, <1>5, <1>9
  <1>10. CASE \E t \in RefreshToken : t.login \in Live /\ Rotate(t)
    BY <1>1, <1>6, <1>10
  <1> QED  BY <1>2, <1>7, <1>8, <1>9, <1>10

(* Accounts implements LoginLineage. *)
THEOREM AccountsImplementLineage == Spec => ImplementsLineage
  <1>1. Init => Lineage!Init
    BY DEF Init, InitLogins, Lineage!Init, Live
  <1>2. AccountInv /\ AccountInv' /\ [Next]_vars => [Lineage!Next]_Lineage!vars
    <2> SUFFICES ASSUME AccountInv, AccountInv', [Next]_vars
                 PROVE  [Lineage!Next]_Lineage!vars
      OBVIOUS
    <2>1. LoginInv /\ LoginInv'
      BY DEF AccountInv, LoginInv, TypeOK
    <2>2. CASE UNCHANGED vars
      BY <2>2 DEF vars, loginVars, Lineage!vars, Live
    <2>3. CASE Next
      BY <2>1, <2>3, SessionSteps, LineageStep DEF Opened, Holder, Lineage!Next, Lineage!vars,
         Lineage!Open, Lineage!Continue, Lineage!End, Lineage!Ended
    <2> QED  BY <2>2, <2>3
  <1> QED  BY <1>1, <1>2, AccountInvariant, PTL DEF Spec, ImplementsLineage, Lineage!Spec

-------------------------------------------------------------------------------
(* The end of a login.  RemoteSessions takes it that a login of a console, once
   revoked, does not come back. *)

(* A login that expired or was revoked is not live again and is given no further
   refresh token, by no request that had read it while it was live. *)
LoginsEndForGood ==
    [][\A s \in Logins :
          login[s] \in {"expired", "revoked"} =>
              login'[s] \in {"expired", "revoked"} /\ turns'[s] = turns[s]]_vars

(* The step that changes the password, the second factor or its recovery codes
   leaves no login live: whoever holds the account's old credentials, or a login
   opened with them, is out with the change and not at the next check. *)
ChangesSignOut ==
    [][~ UNCHANGED <<password, secret, batches>> => Live' = {}]_vars

LEMMA EndedLoginStep ==
    ASSUME LoginInv, Next, NEW s \in Logins, login[s] \in {"expired", "revoked"}
    PROVE  login'[s] \in {"expired", "revoked"} /\ turns'[s] = turns[s]
  <1>1. CASE UNCHANGED loginVars
    BY <1>1 DEF loginVars
  <1>2. ASSUME NEW S \in SUBSET Logins, RevokeSessions(S)
        PROVE  login'[s] \in {"expired", "revoked"} /\ turns'[s] = turns[s]
    BY <1>2 DEF RevokeSessions, RevokedLogins, Unrevoked
  <1>3. ASSUME NEW r \in Logins, CreateSession(r)
        PROVE  login'[s] \in {"expired", "revoked"} /\ turns'[s] = turns[s]
    <2> DEFINE X == Excess(Live \cup {r})
    <2>1. /\ login[r] = "unused"
          /\ login' = [RevokedLogins(X) EXCEPT ![r] = "live"]
          /\ turns' = [turns EXCEPT ![r] = 1]
      BY <1>3 DEF CreateSession
    <2> HIDE DEF X
    <2>2. s # r /\ login'[s] = RevokedLogins(X)[s] /\ turns'[s] = turns[s]
      BY <2>1 DEF LoginInv, LoginTypeOK, RevokedLogins
    <2> QED  BY <2>2 DEF RevokedLogins, Unrevoked
  <1>4. ASSUME NEW t \in RefreshToken, t.login \in Live, Rotate(t)
        PROVE  login'[s] \in {"expired", "revoked"} /\ turns'[s] = turns[s]
    <2>1. login' = login /\ turns' = [turns EXCEPT ![t.login] = turns[t.login] + 1]
      BY <1>4, RotateStep
    <2>2. t.login # s
      BY <1>4 DEF Live
    <2> QED  BY <2>1, <2>2 DEF LoginInv, LoginTypeOK
  <1>5. ASSUME NEW r \in Logins, SessionExpires(r)
        PROVE  login'[s] \in {"expired", "revoked"} /\ turns'[s] = turns[s]
    BY <1>5 DEF SessionExpires, LoginInv, LoginTypeOK
  <1> QED  BY <1>1, <1>2, <1>3, <1>4, <1>5, SessionSteps

(* What ended stays ended, whatever requests are under way. *)
THEOREM LoginsStayEnded == Spec => LoginsEndForGood
  <1>1. ASSUME AccountInv, [Next]_vars, NEW s \in Logins,
               login[s] \in {"expired", "revoked"}
        PROVE  login'[s] \in {"expired", "revoked"} /\ turns'[s] = turns[s]
    <2>1. LoginInv
      BY <1>1 DEF AccountInv, LoginInv, TypeOK
    <2>2. CASE UNCHANGED vars
      BY <1>1, <2>2 DEF vars, loginVars
    <2> QED  BY <1>1, <2>1, <2>2, EndedLoginStep
  <1>2. AccountInv /\ [Next]_vars =>
          [\A s \in Logins :
              login[s] \in {"expired", "revoked"} =>
                  login'[s] \in {"expired", "revoked"} /\ turns'[s] = turns[s]]_vars
    BY <1>1
  <1> QED  BY <1>2, AccountInvariant, PTL DEF Spec, LoginsEndForGood

(* A change of the credentials and the end of the logins are one step. *)
THEOREM ChangesEndLogins == Spec => ChangesSignOut
  <1>1. ASSUME AccountInv, [Next]_vars, ~ UNCHANGED <<password, secret, batches>>
        PROVE  Live' = {}
    <2>1. LoginInv
      BY <1>1 DEF AccountInv, LoginInv, TypeOK
    <2>2. RevokeSessions(Logins)
      BY <1>1, CredentialSteps DEF vars, mfaVars
    <2>3. Live' = Live \ Logins
      BY <2>1, <2>2, RevokeStep
    <2> QED  BY <2>3 DEF Live
  <1>2. AccountInv /\ [Next]_vars =>
          [~ UNCHANGED <<password, secret, batches>> => Live' = {}]_vars
    BY <1>1
  <1> QED  BY <1>2, AccountInvariant, PTL DEF Spec, ChangesSignOut

-------------------------------------------------------------------------------
(* The limit of concurrent logins.  The least element of a finite set of
   numbers exists because strict inclusion is well founded on its subsets. *)
LEMMA LeastElement ==
    ASSUME NEW B \in SUBSET Int, IsFiniteSet(B), B # {}
    PROVE  \E m \in B : \A k \in B : m <= k
  <1> DEFINE Below(m) == {r \in B : r <= m}
             T == {Below(m) : m \in B}
             R == StrictSubsetOrdering(B)
  <1>1. IsWellFoundedOn(R, FiniteSubsetsOf(B))
    BY FS_StrictSubsetOrderingWellFounded
  <1>2. T \subseteq FiniteSubsetsOf(B) /\ T # {}
    <2>1. ASSUME NEW m \in B PROVE Below(m) \in FiniteSubsetsOf(B)
      <3>1. Below(m) \in SUBSET B
        OBVIOUS
      <3>2. IsFiniteSet(Below(m))
        BY <3>1, FS_Subset
      <3> HIDE DEF Below
      <3> QED  BY <3>1, <3>2 DEF FiniteSubsetsOf
    <2>2. T # {}
      OBVIOUS
    <2> HIDE DEF Below
    <2> QED  BY <2>1, <2>2
  <1> HIDE DEF R, T
  <1>3. PICK x \in T : \A y \in T : <<y, x>> \notin R
    BY <1>1, <1>2, WFMin
  <1> USE DEF R, T
  <1>4. PICK m \in B : x = Below(m)
    BY <1>3
  <1>5. ASSUME NEW k \in B, k < m PROVE FALSE
    <2>1. Below(k) \in T
      OBVIOUS
    <2>2. Below(k) \subseteq Below(m) /\ m \in Below(m) /\ m \notin Below(k)
      <3>1. k \in Int /\ m \in Int /\ \A r \in B : r \in Int
        OBVIOUS
      <3>2. \A r \in B : r <= k => r <= m
        BY <1>5, <3>1
      <3>3. m <= m /\ ~(m <= k)
        BY <1>5, <3>1
      <3> QED  BY <3>2, <3>3
    <2>3. Below(k) \in SUBSET B /\ Below(m) \in SUBSET B
      OBVIOUS
    <2> HIDE DEF Below
    <2>4. <<Below(k), x>> \in R
      BY <1>4, <2>2, <2>3 DEF StrictSubsetOrdering
    <2> QED  BY <1>3, <2>1, <2>4
  <1> QED  BY <1>5

LoginsInOrder ==
    \A r, s \in Logins : r < s /\ login[s] # "unused" => login[r] # "unused"

LEMMA OrderStep ==
    ASSUME LoginInv, LoginsInOrder, Next
    PROVE  LoginsInOrder'
  <1> USE DEF LoginsInOrder, LoginInv, LoginTypeOK
  <1>1. CASE UNCHANGED loginVars
    BY <1>1 DEF loginVars
  <1>2. ASSUME NEW S \in SUBSET Logins, RevokeSessions(S) PROVE LoginsInOrder'
    BY <1>2 DEF RevokeSessions, RevokedLogins, Unrevoked
  <1>3. ASSUME NEW s \in Logins, CreateSession(s) PROVE LoginsInOrder'
    BY <1>3 DEF CreateSession, RevokedLogins, Unrevoked
  <1>4. ASSUME NEW t \in RefreshToken, Rotate(t) PROVE LoginsInOrder'
    BY <1>4 DEF Rotate
  <1>5. ASSUME NEW s \in Logins, SessionExpires(s) PROVE LoginsInOrder'
    BY <1>5 DEF SessionExpires
  <1> QED  BY <1>1, <1>2, <1>3, <1>4, <1>5, SessionSteps

LEMMA LiveIsFinite == IsFiniteSet(Live) /\ Cardinality(Live) \in Nat
  <1>1. IsFiniteSet(Logins)
    BY LoginAssumption, FS_Interval DEF Logins
  <1>2. IsFiniteSet(Live)
    BY <1>1, FS_Subset DEF Live
  <1> QED  BY <1>2, FS_CardinalityType

(* What is left beside a new login are the newest of all. *)
LEMMA RoomIsMade ==
    ASSUME LoginInv, LoginsInOrder, NEW s \in Logins, CreateSession(s)
    PROVE  ConcurrentLimit'
  <1> DEFINE A == Live \cup {s}
             From(m) == {r \in A : r >= m}
  <1>1. Live' = (Live \ Excess(A)) \cup {s} /\ login[s] = "unused"
    BY CreateStep
  <1>2. IsFiniteSet(A) /\ A \subseteq Int /\ s \in A
    BY LiveIsFinite, FS_AddElement DEF Live, Logins
  <1>3. MaxConcurrent \in Nat \ {0}
    BY LoginAssumption
  <1>4. s \notin Excess(A)
    <2>1. From(s) = {s}
      BY <1>1 DEF LoginsInOrder, Live, Logins
    <2>2. Cardinality(From(s)) = 1
      BY <2>1, FS_Singleton
    <2> QED  BY <1>3, <2>2 DEF Excess
  <1>5. Live' = A \ Excess(A)
    BY <1>1, <1>4
  <1>6. \A m \in Live' : ~(Cardinality(From(m)) > MaxConcurrent)
    BY <1>5 DEF Excess
  <1> HIDE DEF A
  <1>7. IsFiniteSet(Live') /\ Live' \subseteq Int /\ Live' # {}
    BY <1>1, <1>2, <1>5, FS_Subset
  <1>8. PICK m \in Live' : \A k \in Live' : m <= k
    BY <1>7, LeastElement
  <1>9. Live' \subseteq From(m) /\ IsFiniteSet(From(m))
    BY <1>2, <1>5, <1>7, <1>8, FS_Subset
  <1>10. /\ Cardinality(Live') <= Cardinality(From(m))
         /\ Cardinality(From(m)) \in Nat /\ Cardinality(Live') \in Nat
    BY <1>7, <1>9, FS_Subset, FS_CardinalityType
  <1>11. ~(Cardinality(From(m)) > MaxConcurrent)
    BY <1>6, <1>8
  <1> HIDE DEF From
  <1> QED  BY <1>3, <1>10, <1>11 DEF ConcurrentLimit

LEMMA LimitStep ==
    ASSUME LoginInv, LoginsInOrder, ConcurrentLimit, Next
    PROVE  ConcurrentLimit'
  <1>1. ASSUME Live' \subseteq Live PROVE ConcurrentLimit'
    <2>1. Cardinality(Live') <= Cardinality(Live) /\ Cardinality(Live') \in Nat
      BY <1>1, LiveIsFinite, FS_Subset, FS_CardinalityType
    <2> QED  BY <2>1, LiveIsFinite, LoginAssumption DEF ConcurrentLimit
  <1>2. UNCHANGED loginVars => Live' \subseteq Live
    BY DEF loginVars, Live
  <1>3. ASSUME NEW S \in SUBSET Logins, RevokeSessions(S) PROVE Live' \subseteq Live
    BY <1>3, RevokeStep
  <1>4. ASSUME NEW t \in RefreshToken, t.login \in Live, Rotate(t) PROVE Live' \subseteq Live
    BY <1>4, RotateStep
  <1>5. ASSUME NEW s \in Logins, SessionExpires(s) PROVE Live' \subseteq Live
    BY <1>5, ExpireStep
  <1> QED  BY <1>1, <1>2, <1>3, <1>4, <1>5, RoomIsMade, SessionSteps

(* The account never has more live logins than the limit. *)
THEOREM LoginsAreLimited == Spec => []ConcurrentLimit
  <1>1. Init => LoginsInOrder /\ ConcurrentLimit
    <2>1. Init => Live = {}
      BY DEF Init, InitLogins, Live
    <2>2. Init => LoginsInOrder
      BY DEF Init, InitLogins, LoginsInOrder
    <2> QED  BY <2>1, <2>2, FS_EmptySet, LoginAssumption DEF ConcurrentLimit
  <1>2. AccountInv /\ LoginsInOrder /\ ConcurrentLimit /\ [Next]_vars
            => LoginsInOrder' /\ ConcurrentLimit'
    <2>1. AccountInv => LoginInv
      BY DEF AccountInv, LoginInv, TypeOK
    <2>2. UNCHANGED vars => (LoginsInOrder => LoginsInOrder')
                            /\ (ConcurrentLimit => ConcurrentLimit')
      BY DEF vars, loginVars, LoginsInOrder, ConcurrentLimit, Live
    <2> QED  BY <2>1, <2>2, OrderStep, LimitStep
  <1> QED  BY <1>1, <1>2, AccountInvariant, PTL DEF Spec
===============================================================================
