-------------------------------- MODULE Accounts --------------------------------
(***************************************************************************)
(* One account: its password, lockout, second factor and everything that   *)
(* is issued on their strength - login sessions, MFA challenges, a TOTP    *)
(* setup, recovery codes, reset links (AuthService, AccountService and the *)
(* routes in routes/auth.py and routes/account.py).                        *)
(*                                                                         *)
(* Every handler that changes the account takes the lock of its row        *)
(* (_lock_user) and commits, so what follows the lock is one step.  What   *)
(* it read before waiting for the lock is kept apart: `ownerReads' holds   *)
(* every pair of a login and a user row that get_current_user can have     *)
(* returned to a request that still waits, and a reset token can have been *)
(* read by such a request if it was ever open.                             *)
(*                                                                         *)
(* A password is known by its version, a TOTP secret by its number, a code *)
(* by the secret and the 30-second step it belongs to.  Which answer was   *)
(* delivered is not modelled: whoever holds a token may present it at any  *)
(* time, again or never.  A deadline is a step that may happen at any time.*)
(*                                                                         *)
(* A definition marked "Faulty" is used by no action.                      *)
(***************************************************************************)
EXTENDS LoginSessions

CONSTANTS
    Challenges,          \* ids of mfa_challenges
    Resets,              \* ids of password_reset_tokens
    MaxLoginAttempts,    \* settings.max_login_attempts
    ChallengeAttempts,   \* guesses one challenge allows (5 in the code)
    RecoveryCodes,       \* codes in a batch (10 in the code)
    MaxRefreshes,        \* bound on the refresh tokens that were replaced
    MaxChanges,          \* bound on passwords, secrets and batches of codes made
    MaxStep              \* bound on the 30-second steps that pass

ASSUME AccountAssumption ==
    /\ {MaxLoginAttempts, ChallengeAttempts} \subseteq Nat \ {0}
    /\ {MaxRefreshes, MaxChanges, MaxStep} \subseteq Nat

VARIABLES
    password,    \* users.password_hash
    failed,      \* users.failed_login_attempts
    lock,        \* users.locked_until: null, ahead of now, or behind it
    secret,      \* users.totp_secret, 0 when null
    lastStep,    \* users.totp_last_step
    recovery,    \* the rows of recovery_codes with used_at null
    batches,     \* batches of recovery codes made so far
    challenge,   \* rows of mfa_challenges, and the password each was issued for
    setup,       \* the row of mfa_setups
    secrets,     \* secrets made so far
    reset,       \* rows of password_reset_tokens, likewise
    step,        \* time.time() // 30
    ownerReads,  \* logins and user rows that owners' requests have read
    origin,      \* history: the credentials a live login was opened with
    spent,       \* history: the authenticator's codes that were accepted
    redeemed,    \* history: the recovery codes that were accepted
    followed,    \* history: the reset tokens that set a password
    reused       \* history: one of these was accepted again

lockVars == <<failed, lock>>
factorVars == <<lastStep, recovery, spent, redeemed, followed, reused>>
mfaVars == <<secret, secrets, batches>>
vars == <<loginVars, password, lockVars, factorVars, mfaVars, challenge, setup,
          reset, step, ownerReads, origin>>

-------------------------------------------------------------------------------
TotpCode == [secret : Nat \ {0}, step : Nat]
RecoveryCode == [batch : Nat \ {0}, number : RecoveryCodes]

Credentials == [password : Nat, secret : Nat, batch : Nat]
Nothing == [password |-> 0, secret |-> 0, batch |-> 0]
Present == [password |-> password, secret |-> secret, batch |-> batches]

TokenState == {"unissued", "open", "void"}
ChallengeRow == [state : TokenState, attempts : Nat, password : Nat]
ResetRow == [state : TokenState, password : Nat]
SetupRow == [login : Nat, secret : Nat, proved : BOOLEAN]
NoSetup == [login |-> 0, secret |-> 0, proved |-> FALSE]

OwnerRead == [login : Logins, totp : BOOLEAN]

TypeOK ==
    /\ LoginTypeOK
    /\ password \in Nat
    /\ failed \in 0..MaxLoginAttempts
    /\ lock \in {"null", "ahead", "behind"}
    /\ (lock = "null") = (failed < MaxLoginAttempts)
    /\ secret \in Nat
    /\ lastStep \in Nat \cup {-1}
    /\ recovery \subseteq RecoveryCode
    /\ batches \in Nat
    /\ challenge \in [Challenges -> ChallengeRow]
    /\ setup \in SetupRow
    /\ secrets \in Nat
    /\ reset \in [Resets -> ResetRow]
    /\ step \in Nat
    /\ ownerReads \subseteq OwnerRead
    /\ origin \in [Logins -> Credentials]
    /\ spent \subseteq TotpCode
    /\ redeemed \subseteq RecoveryCode
    /\ followed \subseteq Resets
    /\ reused \in BOOLEAN

(* An account as register leaves it, with a second factor still to be set up. *)
Init ==
    /\ InitLogins
    /\ password = 0
    /\ failed = 0
    /\ lock = "null"
    /\ secret = 0
    /\ lastStep = -1
    /\ recovery = {}
    /\ batches = 0
    /\ challenge = [c \in Challenges |->
                       [state |-> "unissued", attempts |-> 0, password |-> 0]]
    /\ setup = NoSetup
    /\ secrets = 0
    /\ reset = [r \in Resets |-> [state |-> "unissued", password |-> 0]]
    /\ step = 0
    /\ ownerReads = {}
    /\ origin = [s \in Logins |-> Nothing]
    /\ spent = {}
    /\ redeemed = {}
    /\ followed = {}
    /\ reused = FALSE

-------------------------------------------------------------------------------
(* _check_lockout for an account that is not locked out: the count starts
   again once the lockout has passed. *)
LockedOut == lock = "ahead"
Failures == IF lock = "behind" THEN 0 ELSE failed

LockoutChecked ==
    /\ ~LockedOut
    /\ failed' = Failures
    /\ lock' = "null"

(* _record_login_attempt of a failure that counts. *)
CountFailure ==
    /\ ~LockedOut
    /\ failed' = Failures + 1
    /\ lock' = IF Failures + 1 >= MaxLoginAttempts THEN "ahead" ELSE "null"

(* Faulty: the step of an accepted code is accepted again. *)
WindowInclusive(k) == {[secret |-> k, step |-> n] :
    n \in {m \in {step - 1, step, step + 1} \cap Nat : m >= lastStep}}

(* The codes of a secret that factor accepts now. *)
Window(k) == {[secret |-> k, step |-> n] :
                 n \in {m \in {step - 1, step, step + 1} : m > lastStep}}

AcceptTotp(f) ==
    /\ spent' = spent \cup {f}
    /\ reused' = (reused \/ f \in spent)
    /\ UNCHANGED <<redeemed, followed>>

AcceptRecovery(f) ==
    /\ redeemed' = redeemed \cup {f}
    /\ reused' = (reused \/ f \in redeemed)
    /\ UNCHANGED <<spent, followed>>

AcceptLink(r) ==
    /\ followed' = followed \cup {r}
    /\ reused' = (reused \/ r \in followed)
    /\ UNCHANGED <<spent, redeemed>>

(* factor with a factor it accepts. *)
Factor ==
    \/ \E f \in Window(secret) :
          /\ AcceptTotp(f)
          /\ lastStep' = f.step
          /\ UNCHANGED recovery
    \/ \E f \in recovery :
          /\ AcceptRecovery(f)
          /\ recovery' = recovery \ {f}
          /\ UNCHANGED lastStep

(* confirm_identity when it returns: the password was right and so was the
   second factor, where there is one. *)
Confirmed ==
    /\ LockoutChecked
    /\ IF secret = 0 THEN UNCHANGED factorVars ELSE Factor

-------------------------------------------------------------------------------
(* Faulty: challenges stay open. *)
ChallengesKept == challenge

VoidedChallenges == [c \in Challenges |->
    IF challenge[c].state = "open" THEN [challenge[c] EXCEPT !.state = "void"]
                                   ELSE challenge[c]]

VoidedResets == [r \in Resets |->
    IF reset[r].state = "open" THEN [reset[r] EXCEPT !.state = "void"] ELSE reset[r]]

(* Faulty: a setup that waits stays. *)
RevokeCredentialsKeepingSetup ==
    /\ RevokeAllSessions
    /\ challenge' = VoidedChallenges
    /\ UNCHANGED setup

RevokeCredentials ==
    /\ RevokeAllSessions
    /\ challenge' = VoidedChallenges
    /\ setup' = NoSetup

(* complete_login. *)
CompleteLogin ==
    \E s \in Logins :
        /\ CreateSession(s)
        /\ failed' = 0
        /\ lock' = "null"

NewBatch == {[batch |-> batches + 1, number |-> n] : n \in RecoveryCodes}

-------------------------------------------------------------------------------
(* Logging in.  A refusal that counts nothing changes no row modelled here. *)
LoginFails ==
    /\ CountFailure
    /\ UNCHANGED <<loginVars, password, factorVars, mfaVars, challenge, setup,
                   reset, step>>

LoginOpens ==
    /\ secret = 0
    /\ ~LockedOut
    /\ CompleteLogin
    /\ UNCHANGED <<password, factorVars, mfaVars, challenge, setup, reset, step>>

LoginChallenged(c) ==
    /\ secret # 0
    /\ LockoutChecked
    /\ challenge[c].state = "unissued"
    /\ challenge' = [challenge EXCEPT
           ![c] = [state |-> "open", attempts |-> 0, password |-> password]]
    /\ UNCHANGED <<loginVars, password, factorVars, mfaVars, setup, reset, step>>

(* Faulty: a guess is allowed while the account is locked out. *)
ChallengeHoldsIgnoringLockout(c) ==
    /\ challenge[c].state = "open"
    /\ challenge[c].attempts < ChallengeAttempts
    /\ secret # 0

(* The challenge, read again under the lock, can still be answered. *)
ChallengeHolds(c) ==
    /\ challenge[c].state = "open"
    /\ challenge[c].attempts < ChallengeAttempts
    /\ secret # 0
    /\ ~LockedOut

AnswerChallenge(c) ==
    /\ ChallengeHolds(c)
    /\ Factor
    /\ CompleteLogin
    /\ challenge' = [challenge EXCEPT ![c].attempts = @ + 1, ![c].state = "void"]
    /\ UNCHANGED <<password, mfaVars, setup, reset, step>>

MissChallenge(c) ==
    /\ ChallengeHolds(c)
    /\ CountFailure
    /\ challenge' = [challenge EXCEPT ![c].attempts = @ + 1]
    /\ UNCHANGED <<loginVars, password, factorVars, mfaVars, setup, reset, step>>

-------------------------------------------------------------------------------
(* What requests can read before they wait for the lock.  get_current_user:
   the login is live, and the user row tells whether the account has a second
   factor. *)
Reads(live, totp) == {[login |-> s, totp |-> totp] : s \in live}

(* The history of a live login. *)
Witnessed ==
    origin' = [s \in Logins |-> IF s \notin Live' THEN Nothing
                               ELSE IF s \in Live THEN origin[s] ELSE Present']

Authenticated == ownerReads' = ownerReads \cup Reads(Live', secret' # 0)

(* A request of an owner ends without a change of the rows when the new
   password or the code is refused, a lookup finds nothing, or the transaction
   is rolled back; such steps are left out.

   refresh: only a token of a live login is looked at. *)
Refresh(t) ==
    /\ t.login \in Live
    /\ Rotate(t) \/ RefreshReused(t)
    /\ UNCHANGED <<password, lockVars, factorVars, mfaVars, challenge, setup,
                   reset, step>>

(* logout with any refresh token of the account, and revoke_login: the login
   ends, whichever login asked for it. *)
EndLogin(q, s) ==
    /\ q \in ownerReads
    /\ s \in Unrevoked
    /\ RevokeSessions({s})
    /\ UNCHANGED <<password, lockVars, factorVars, mfaVars, challenge, setup,
                   reset, step>>

(* The password or the second factor of an owner's request is wrong. *)
ConfirmationFails(q) ==
    /\ q \in ownerReads
    /\ CountFailure
    /\ UNCHANGED <<loginVars, password, factorVars, mfaVars, challenge, setup,
                   reset, step>>

ChangePassword(q) ==
    /\ q \in ownerReads
    /\ Confirmed
    /\ password' = password + 1
    /\ RevokeCredentials
    /\ reset' = VoidedResets
    /\ UNCHANGED <<mfaVars, step>>

(* change_email: only the confirmation matters here; module EmailOutbox has
   the addresses. *)
ChangeEmail(q) ==
    /\ q \in ownerReads
    /\ Confirmed
    /\ UNCHANGED <<loginVars, password, mfaVars, challenge, setup, reset, step>>

VerifyEmail ==
    /\ reset' = VoidedResets
    /\ UNCHANGED <<loginVars, password, lockVars, factorVars, mfaVars, challenge,
                   setup, step>>

-------------------------------------------------------------------------------
(* setup asks for the password only when the user row it read, before it
   waited for the lock, had no second factor; that there is none now it reads
   again under the lock. *)
SetupConfirmed(q) ==
    IF q.totp THEN UNCHANGED <<lockVars, factorVars>> ELSE Confirmed

(* Faulty: the login is not validated again under the lock. *)
StillSignedInUnchecked(q) == TRUE

StillSignedIn(q) == q.login \in Live

Setup(q) ==
    /\ q \in ownerReads
    /\ secret = 0
    /\ SetupConfirmed(q)
    /\ StillSignedIn(q)
    /\ setup' = [login |-> q.login, secret |-> secrets + 1,
                 proved |-> ~q.totp]
    /\ secrets' = secrets + 1
    /\ UNCHANGED <<loginVars, password, secret, batches, challenge, reset, step>>

(* The login of the request has ended: the confirmation is committed all the
   same. *)
SetupSignedOut(q) ==
    /\ q \in ownerReads
    /\ secret = 0
    /\ SetupConfirmed(q)
    /\ ~StillSignedIn(q)
    /\ UNCHANGED <<loginVars, password, mfaVars, challenge, setup, reset, step>>

ConfirmSetup(q) ==
    /\ q \in ownerReads
    /\ StillSignedIn(q)
    /\ secret = 0
    /\ setup # NoSetup
    /\ setup.login = q.login
    /\ \E f \in Window(setup.secret) : AcceptTotp(f) /\ lastStep' = f.step
    /\ secret' = setup.secret
    /\ recovery' = NewBatch
    /\ batches' = batches + 1
    /\ RevokeCredentials
    /\ UNCHANGED <<password, lockVars, secrets, reset, step>>

(* change_mfa, to turn the second factor off or to replace the recovery codes.
   The factor that confirms it is spent, whatever becomes of the codes. *)
DisableMfa(q) ==
    /\ q \in ownerReads
    /\ secret # 0
    /\ LockoutChecked
    /\ \/ \E f \in Window(secret) : AcceptTotp(f)
       \/ \E f \in recovery : AcceptRecovery(f)
    /\ secret' = 0
    /\ lastStep' = -1
    /\ recovery' = {}
    /\ RevokeCredentials
    /\ UNCHANGED <<password, secrets, batches, reset, step>>

RegenerateCodes(q) ==
    /\ q \in ownerReads
    /\ secret # 0
    /\ LockoutChecked
    /\ \/ \E f \in Window(secret) : AcceptTotp(f) /\ lastStep' = f.step
       \/ \E f \in recovery : AcceptRecovery(f) /\ UNCHANGED lastStep
    /\ recovery' = NewBatch
    /\ batches' = batches + 1
    /\ RevokeCredentials
    /\ UNCHANGED <<password, secret, secrets, reset, step>>

-------------------------------------------------------------------------------
(* create_password_reset_token, called by the worker that mails the link. *)
IssueReset(r) ==
    /\ reset[r].state = "unissued"
    /\ reset' = [VoidedResets EXCEPT ![r] = [state |-> "open", password |-> password]]
    /\ UNCHANGED <<loginVars, password, lockVars, factorVars, mfaVars, challenge,
                   setup, step>>

(* Faulty: the token is not claimed again under the lock. *)
ResetHoldsAsRead(r) == reset[r].state # "unissued"

(* The compare-and-set of the reset token. *)
ResetHolds(r) == reset[r].state = "open"

(* reset_password; a TOTP setup that waits stays. *)
ResetPassword(r) ==
    /\ ResetHolds(r)
    /\ reset' = [reset EXCEPT ![r].state = "void"]
    /\ AcceptLink(r)
    /\ password' = password + 1
    /\ RevokeAllSessions
    /\ challenge' = VoidedChallenges
    /\ failed' = 0
    /\ lock' = "null"
    /\ UNCHANGED <<lastStep, recovery, mfaVars, setup, step>>

-------------------------------------------------------------------------------
(* Deadlines and the clock. *)
LoginExpires(s) ==
    /\ SessionExpires(s)
    /\ UNCHANGED <<password, lockVars, factorVars, mfaVars, challenge, setup, reset,
                   step>>

LockoutPasses ==
    /\ lock = "ahead"
    /\ lock' = "behind"
    /\ UNCHANGED <<loginVars, password, failed, factorVars, mfaVars, challenge, setup,
                   reset, step>>

ChallengeExpires(c) ==
    /\ challenge[c].state = "open"
    /\ challenge' = [challenge EXCEPT ![c].state = "void"]
    /\ UNCHANGED <<loginVars, password, lockVars, factorVars, mfaVars, setup, reset,
                   step>>

SetupExpires ==
    /\ setup # NoSetup
    /\ setup' = NoSetup
    /\ UNCHANGED <<loginVars, password, lockVars, factorVars, mfaVars, challenge, reset,
                   step>>

ResetExpires(r) ==
    /\ reset[r].state = "open"
    /\ reset' = [reset EXCEPT ![r].state = "void"]
    /\ UNCHANGED <<loginVars, password, lockVars, factorVars, mfaVars, challenge, setup,
                   step>>

Tick ==
    /\ step < MaxStep
    /\ step' = step + 1
    /\ UNCHANGED <<loginVars, password, lockVars, factorVars, mfaVars, challenge, setup,
                   reset>>

-------------------------------------------------------------------------------
(* The bounds are named in the guards here. *)
MayChange == password + secrets + batches < MaxChanges

Owner(q) ==
    \/ \E s \in Logins : EndLogin(q, s)
    \/ ConfirmationFails(q) \/ ChangeEmail(q) \/ SetupSignedOut(q) \/ DisableMfa(q)
    \/ /\ MayChange
       /\ ChangePassword(q) \/ Setup(q) \/ ConfirmSetup(q) \/ RegenerateCodes(q)

Refreshes == Cardinality({t \in Logins \X (2..MaxRefreshes + 2) : t[2] <= turns[t[1]]})

Tokens ==
    \/ \E s \in Logins, n \in 1..MaxRefreshes + 1 :
          /\ n <= turns[s]
          /\ Refresh(TokenOf(s, n))
          /\ Refreshes' <= MaxRefreshes
    \/ \E r \in Resets : MayChange /\ ResetPassword(r)

SignIn ==
    \/ LoginFails \/ LoginOpens
    \/ \E c \in Challenges : LoginChallenged(c) \/ AnswerChallenge(c) \/ MissChallenge(c)

Mailed == VerifyEmail \/ \E r \in Resets : IssueReset(r)

Deadline ==
    \/ \E s \in Logins : LoginExpires(s)
    \/ \E c \in Challenges : ChallengeExpires(c)
    \/ \E r \in Resets : ResetExpires(r)
    \/ LockoutPasses \/ SetupExpires \/ Tick

Next ==
    /\ (\E q \in ownerReads : Owner(q)) \/ Tokens \/ SignIn \/ Mailed \/ Deadline
    /\ Authenticated
    /\ Witnessed

Spec == Init /\ [][Next]_vars

-------------------------------------------------------------------------------
(* The rest of the inductive invariant.  What requests have read of a login
   that is live is what holds now; a setup waits only while there is no second
   factor, and no code of its secret was accepted; the codes that were accepted
   are behind the last step, and the recovery codes that are left are unused. *)
ReadsAreCurrent ==
    \A q \in ownerReads :
        /\ login[q.login] # "unused"
        /\ q.login \in Live => q.totp = (secret # 0)

SecretsInOrder ==
    /\ secret <= secrets
    /\ setup.secret <= secrets
    /\ secret = 0 => lastStep = -1
    /\ setup # NoSetup =>
          /\ secret = 0
          /\ setup.login \in Logins
          /\ setup.secret # 0

CodesBehind ==
    /\ \A f \in spent :
          /\ f.secret <= secrets
          /\ f.secret = secret => f.step <= lastStep
          /\ f.secret # setup.secret
    /\ \A f \in recovery \cup redeemed : f.batch <= batches
    /\ recovery \cap redeemed = {}
    /\ \A r \in followed : reset[r].state = "void"

(* A new reset link takes the place of the one before. *)
OneOpenReset == \A r, p \in Resets :
    reset[r].state = "open" /\ reset[p].state = "open" => r = p

(* What was issued before the password or the second factor changed is dead:
   a live login was opened with the credentials the account has now, and a
   challenge that can still be answered, or a reset link that still works, was
   issued for the present password, in whatever order logins, challenges,
   links and changes overlap. *)
CurrentCredentials ==
    /\ \A s \in Live : origin[s] = Present
    /\ \A c \in Challenges :
          challenge[c].state = "open" => challenge[c].password = password
    /\ \A r \in Resets : reset[r].state = "open" => reset[r].password = password

(* What is good for one use is used once: a code of the authenticator, also
   within the three steps in which it is valid and across secrets, a recovery
   code, and a reset link that two requests have read before either of them
   got the lock. *)
UsedOnce == ~reused

(* A setup that waits was begun with the password: the request that read the
   user row while the account still had a second factor, and so is not asked
   for the password, does not get as far as a setup. *)
SetupProvesPassword == setup # NoSetup => setup.proved

(* What the steps of the account keep together; module Accounts_proofs shows
   that it is inductive. *)
AccountInv ==
    /\ TypeOK
    /\ OneUsableToken
    /\ TurnsCounted
    /\ ReadsAreCurrent
    /\ SecretsInOrder
    /\ CodesBehind
    /\ OneOpenReset
    /\ CurrentCredentials
    /\ UsedOnce
    /\ SetupProvesPassword

(* A second factor is turned on only by the login that began its setup, and
   only while that login is live: a login that was revoked after its request
   was authenticated does not get to lock the owner out. *)
EnabledByLiveLogin ==
    [][secret' \notin {0, secret} => setup.login \in Live]_vars

(* While an account is locked out no login is opened, nothing is confirmed
   with its second factor, which stays as it is, and the lockout ends early
   only with a new password set by a reset link. *)
LockoutHolds ==
    [][LockedOut =>
          /\ \A s \in Logins : login[s] = "unused" => login'[s] = "unused"
          /\ secret # 0 => UNCHANGED <<secret, batches, spent, redeemed>>
          /\ (lock' = "null") = (password' # password)]_vars

(* A login keeps the promise of LoginLineage. *)
Lineage == INSTANCE LoginLineage WITH
    opened <- {s \in Logins : login[s] # "unused"},
    holder <- [s \in Logins |->
                  IF s \in Live THEN {t.turn : t \in {u \in usable : u.login = s}}
                                ELSE {}]

ImplementsLineage == Lineage!Spec
===============================================================================
