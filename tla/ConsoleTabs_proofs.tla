--------------------------- MODULE ConsoleTabs_proofs --------------------------
(***************************************************************************)
(* Proofs about ConsoleTabs, for any number of tabs and logins: a refresh  *)
(* token is where it can be presented at one place only, so that none is   *)
(* presented twice; tabs agree; what was removed stays away.               *)
(***************************************************************************)
EXTENDS ConsoleTabs, TLAPS

(* Tokens that were issued, and that the server would still renew unless its
   login is over or was given up. *)
Known == {x \in RefreshToken : login[x.login] # "unused" /\ x.turn <= turns[x.login]}
Fine == {x \in Known : x.login \in Live \ discarded => x \in usable}

(* The places from which a token can be presented: a request that somebody
   waits for, one that nobody waits for, the answer of one, the record. *)
TokensInv ==
    /\ late \subseteq Fine
    /\ rotation.stage \in {"posted", "busy"} =>
          /\ rotation.saved \in Fine /\ rotation.saved \notin late
          /\ stored.token = rotation.saved => stored.pending
    /\ rotation.stage = "answered" =>
          /\ rotation.answer \in Fine /\ rotation.answer \notin late
          /\ rotation.answer.login = rotation.saved.login
    /\ stored.token # NoToken /\ ~stored.pending =>
          stored.token \in Fine /\ stored.token \notin late

(* What is being revoked belongs to a login that was given up. *)
RevokingInv ==
    /\ \A x \in revoking : x.login \in discarded
    /\ rotation.stage = "discarding" =>
          rotation.answer \in RefreshToken /\ rotation.answer.login \in discarded
    /\ rotation.stage = "answered" => rotation.answer \in RefreshToken

TabsInv == TypeOK /\ TabsAgree /\ TokensInv /\ RevokingInv /\ NoReplay

-------------------------------------------------------------------------------
(* What the server's transactions do to the tokens it knows. *)
FineStays(X) == Fine \cap X \subseteq Fine'
Others(tok) == RefreshToken \ {tok}

LEMMA RevokeStep ==
    ASSUME LoginTypeOK, NEW S, RevokeSessions(S), discarded \subseteq discarded'
    PROVE  LoginTypeOK' /\ FineStays(RefreshToken)
  BY DEF LoginTypeOK, RevokeSessions, RevokedLogins, TokensWithout, Unrevoked, Live,
         FineStays, Fine, Known, RefreshToken

LEMMA NoStep ==
    ASSUME LoginTypeOK, UNCHANGED loginVars, discarded \subseteq discarded'
    PROVE  LoginTypeOK' /\ FineStays(RefreshToken)
  BY DEF LoginTypeOK, loginVars, Live, FineStays, Fine, Known

LEMMA CreateStep ==
    ASSUME LoginTypeOK, NEW s \in Logins, CreateSession(s), discarded \subseteq discarded'
    PROVE  /\ LoginTypeOK' /\ FineStays(RefreshToken)
           /\ login[s] = "unused"
           /\ TokenOf(s, 1) \in RefreshToken
           /\ TokenOf(s, 1) \in Fine' /\ TokenOf(s, 1) \notin Known
<1> DEFINE X == Excess(Live \cup {s})
<1>1. /\ login[s] = "unused"
      /\ login' = [RevokedLogins(X) EXCEPT ![s] = "live"]
      /\ turns' = [turns EXCEPT ![s] = 1]
      /\ usable' = TokensWithout(X) \cup {TokenOf(s, 1)}
  BY DEF CreateSession
<1> HIDE DEF X
<1>2. RevokedLogins(X) \in [Logins -> {"unused", "live", "expired", "revoked"}]
  BY DEF RevokedLogins, LoginTypeOK
<1>3. \A r \in Logins : r # s => login'[r] = RevokedLogins(X)[r] /\ turns'[r] = turns[r]
  BY <1>1, <1>2 DEF LoginTypeOK
<1>4. login'[s] = "live" /\ turns'[s] = 1
  BY <1>1, <1>2 DEF LoginTypeOK
<1>5. TokenOf(s, 1) \in RefreshToken
  BY DEF TokenOf, RefreshToken
<1>6. TokensWithout(X) \subseteq RefreshToken
  BY DEF TokensWithout, LoginTypeOK
<1>7. LoginTypeOK'
  BY <1>1, <1>2, <1>5, <1>6 DEF LoginTypeOK
<1>8. ASSUME NEW x \in RefreshToken, x \in Fine
      PROVE  x \in Fine'
  <2>1. x.login \in Logins /\ x.login # s
    BY <1>1, <1>8 DEF Fine, Known, RefreshToken
  <2>2. login'[x.login] = RevokedLogins(X)[x.login] /\ turns'[x.login] = turns[x.login]
    BY <1>3, <2>1
  <2>3. RevokedLogins(X)[x.login] # "unused"
    BY <1>8, <2>1 DEF Fine, Known, RevokedLogins
  <2>4. x \in Known'
    BY <1>8, <2>2, <2>3 DEF Fine, Known
  <2>5. ASSUME x.login \in Live' \ discarded'
        PROVE  x \in usable'
    <3>1. login'[x.login] = "live"
      BY <2>5 DEF Live
    <3>2. login[x.login] = "live" /\ x.login \notin X
      BY <2>1, <2>2, <3>1 DEF RevokedLogins, Unrevoked
    <3>3. x \in usable
      BY <1>8, <2>1, <2>5, <3>2 DEF Fine, Live
    <3> QED  BY <1>1, <3>2, <3>3 DEF TokensWithout
  <2> QED  BY <2>4, <2>5 DEF Fine
<1>9. TokenOf(s, 1) \in Fine'
  BY <1>1, <1>4, <1>5 DEF Fine, Known, TokenOf
<1>10. TokenOf(s, 1) \notin Known
  BY <1>1 DEF Known, TokenOf
<1> QED  BY <1>1, <1>5, <1>7, <1>8, <1>9, <1>10 DEF FineStays

LEMMA RotateStep ==
    ASSUME LoginTypeOK, NEW tok \in RefreshToken, Renews(tok), discarded \subseteq discarded'
    PROVE  /\ LoginTypeOK' /\ FineStays(Others(tok))
           /\ tok.login \in discarded => FineStays(RefreshToken)
           /\ \A x : x = Successor(tok) =>
                 x \in RefreshToken /\ x.login = tok.login /\ x \in Fine' /\ x \notin Known
<1> DEFINE s == tok.login
<1>1. /\ s \in Logins /\ login[s] = "live" /\ turns[s] \in Nat
      /\ login' = login
      /\ turns' = [turns EXCEPT ![s] = @ + 1]
      /\ usable' = (usable \ {tok}) \cup {Successor(tok)}
  BY DEF Renews, Rotate, Successor, Live, RefreshToken, LoginTypeOK
<1>2. /\ Successor(tok) \in RefreshToken /\ Successor(tok).login = s
      /\ Successor(tok).turn = turns[s] + 1
  BY <1>1 DEF Successor, TokenOf, RefreshToken
<1>3. LoginTypeOK'
  BY <1>1, <1>2 DEF LoginTypeOK
<1>4. /\ turns'[s] = turns[s] + 1
      /\ \A r \in Logins : turns'[r] \in Nat /\ turns[r] \in Nat /\ turns[r] <= turns'[r]
  BY <1>1 DEF LoginTypeOK
<1>5. ASSUME NEW x \in RefreshToken, x \in Fine
      PROVE  x \in Known'
  <2>1. x.login \in Logins /\ x.turn \in Nat
    BY DEF RefreshToken
  <2> QED  BY <1>1, <1>4, <1>5, <2>1 DEF Fine, Known
<1>6. FineStays(Others(tok))
  BY <1>1, <1>5 DEF FineStays, Fine, Others, Live
<1>7. ASSUME s \in discarded
      PROVE  FineStays(RefreshToken)
  BY <1>1, <1>5, <1>7 DEF FineStays, Fine, Live
<1>8. ASSUME NEW x, x = Successor(tok)
      PROVE  x \in Fine'
  BY <1>1, <1>2, <1>4, <1>8 DEF Fine, Known
<1>9. Successor(tok) \notin Known
  BY <1>1, <1>2 DEF Known
<1> QED  BY <1>2, <1>3, <1>6, <1>7, <1>8, <1>9

-------------------------------------------------------------------------------
LEMMA TokenFacts ==
    /\ NoToken \in Token /\ RefreshToken \subseteq Token
    /\ \A x \in Token : x.login = 0 <=> x = NoToken
    /\ NoToken \notin RefreshToken /\ NoToken.login = 0
    /\ \A x \in Token : x # NoToken => x \in RefreshToken
  BY LoginAssumption DEF Token, NoToken, RefreshToken, Logins

LEMMA SyncedFacts ==
    ASSUME TypeOK, NEW t \in Tabs
    PROVE  /\ Synced(t) \in Token
           /\ Synced(t) # NoToken => Synced(t).login = stored.token.login
           /\ Synced(t) # NoToken => Synced(t).login = token[t].login
  BY TokenFacts DEF TypeOK, Synced

(* Steps within the browser that leave the server and the requests to it alone,
   and may empty the record or give up what a refresh is at. *)
LEMMA LocalTokens ==
    ASSUME TabsInv, UNCHANGED <<loginVars, late, replayed>>,
           discarded \subseteq discarded', stored' \in {stored, Nothing},
           rotation' = rotation \/ rotation'.stage \in {"idle", "discarding"}
    PROVE  LoginTypeOK' /\ TokensInv' /\ NoReplay'
<1>1. LoginTypeOK' /\ FineStays(RefreshToken)
  BY NoStep DEF TabsInv, TypeOK
<1>2. \A x : x \in Fine => x \in Fine'
  BY <1>1 DEF FineStays, Fine, Known
<1>3. late' \subseteq Fine'
  BY <1>2 DEF TabsInv, TokensInv
<1>4. stored'.token # NoToken /\ ~stored'.pending =>
        stored'.token \in Fine' /\ stored'.token \notin late'
  <2>1. CASE stored' = Nothing
    BY <2>1 DEF Nothing, Record
  <2>2. CASE stored' = stored
    <3>1. stored.token # NoToken /\ ~stored.pending =>
             stored.token \in Fine /\ stored.token \notin late
      BY DEF TabsInv, TokensInv
    <3>2. stored'.token = stored.token /\ stored'.pending = stored.pending
      BY <2>2
    <3> QED  BY <1>2, <3>1, <3>2
  <2> QED  BY <2>1, <2>2
<1>5. ASSUME rotation' = rotation
      PROVE  /\ rotation'.stage \in {"posted", "busy"} =>
                   /\ rotation'.saved \in Fine' /\ rotation'.saved \notin late'
                   /\ stored'.token = rotation'.saved => stored'.pending
             /\ rotation'.stage = "answered" =>
                   /\ rotation'.answer \in Fine' /\ rotation'.answer \notin late'
                   /\ rotation'.answer.login = rotation'.saved.login
  <2>1. rotation.stage \in {"posted", "busy"} =>
           /\ rotation.saved \in Fine /\ rotation.saved \notin late
           /\ stored.token = rotation.saved => stored.pending
    BY DEF TabsInv, TokensInv
  <2>2. rotation.saved \in Fine => Nothing.token # rotation.saved
    BY TokenFacts DEF Fine, Known, Nothing, Record
  <2>3. rotation.stage = "answered" =>
           /\ rotation.answer \in Fine /\ rotation.answer \notin late
           /\ rotation.answer.login = rotation.saved.login
    BY DEF TabsInv, TokensInv
  <2>4. stored'.token = rotation.saved /\ Nothing.token # rotation.saved => stored' = stored
    OBVIOUS
  <2> QED  BY <1>2, <1>5, <2>1, <2>2, <2>3, <2>4
<1>6. NoReplay'
  BY DEF TabsInv, NoReplay
<1>7. CASE rotation' = rotation
  BY <1>1, <1>3, <1>4, <1>5, <1>6, <1>7 DEF TokensInv
<1>8. CASE rotation'.stage \in {"idle", "discarding"}
  BY <1>1, <1>3, <1>4, <1>6, <1>8 DEF TokensInv
<1> QED  BY <1>7, <1>8
(* What TypeOK says of the tabs alone. *)
TabTypes ==
    /\ token \in [Tabs -> Token] /\ waiting \in [Tabs -> Token]
    /\ refused \subseteq tabs
    /\ \A t \in Tabs :
          /\ token[t] # NoToken \/ signing[t] # {} => t \in tabs
          /\ token[t] # NoToken => "current" \notin signing[t]
          /\ waiting[t] # NoToken => waiting[t].login = token[t].login
          /\ t \in refused => token[t] # NoToken

LEMMA AdoptTypes ==
    ASSUME TypeOK, NEW t \in Tabs, Synced(t) # NoToken,
           token' = [token EXCEPT ![t] = Synced(t)],
           UNCHANGED <<tabs, signing, waiting>>, refused' \in {refused, refused \cup {t}}
    PROVE  TabTypes' /\ \A s \in Tabs : token'[s].login = token[s].login
<1>1. token' \in [Tabs -> Token] /\ \A s \in Tabs : token'[s].login = token[s].login
  BY SyncedFacts DEF TypeOK
<1>2. \A s \in Tabs : token'[s] = NoToken <=> token[s] = NoToken
  BY <1>1, TokenFacts DEF TypeOK
<1>3. token[t] # NoToken /\ t \in tabs
  BY SyncedFacts, TokenFacts DEF TypeOK
<1>4. /\ waiting \in [Tabs -> Token] /\ refused' \subseteq tabs
      /\ \A s \in Tabs :
            /\ token[s] # NoToken \/ signing[s] # {} => s \in tabs
            /\ token[s] # NoToken => "current" \notin signing[s]
            /\ waiting[s] # NoToken => waiting[s].login = token[s].login
            /\ s \in refused' => token[s] # NoToken
  BY <1>3 DEF TypeOK
<1> QED  BY <1>1, <1>2, <1>4 DEF TabTypes

LEMMA SyncTypes ==
    ASSUME TypeOK, NEW t \in Tabs, Sync(t), UNCHANGED <<tabs, signing>>
    PROVE  /\ TabTypes'
           /\ \A s \in Tabs :
                 token'[s].login = token[s].login \/ (s = t /\ Synced(t) = NoToken)
<1>1. CASE Synced(t) = NoToken
  BY <1>1, TokenFacts DEF TypeOK, TabTypes, Sync, Forget
<1>2. CASE Synced(t) # NoToken
  BY <1>2, AdoptTypes DEF Sync
<1> QED  BY <1>1, <1>2

-------------------------------------------------------------------------------
LEMMA OpenTabStep == ASSUME TabsInv, NEW t \in Tabs, OpenTab(t) PROVE TabsInv'
<1>1. LoginTypeOK' /\ TokensInv' /\ NoReplay'
  BY LocalTokens DEF OpenTab, shared, tab, lock, server
<1>2. RevokingInv'
  BY TokenFacts
  DEF TabsInv, RevokingInv, TypeOK, RefreshToken, OpenTab, shared, tab, lock, server
<1>3. TypeOK'
  BY <1>1, TokenFacts, SyncedFacts
  DEF TabsInv, TypeOK, OpenTab, shared, tab, lock, server
<1>4. TabsAgree'
  BY TokenFacts, SyncedFacts
  DEF TabsInv, TypeOK, TabsAgree, OpenTab, shared, tab, lock, server
<1> QED  BY <1>1, <1>2, <1>3, <1>4 DEF TabsInv

LEMMA SignInStep == ASSUME TabsInv, NEW t \in Tabs, SignIn(t) PROVE TabsInv'
<1>1. LoginTypeOK' /\ TokensInv' /\ NoReplay'
  BY LocalTokens
  DEF SignIn, ClearCredentials, Forget, NewEpoch, Store, shared, tab, lock, server
<1>2. RevokingInv'
  BY TokenFacts
  DEF TabsInv, RevokingInv, TypeOK, RefreshToken, SignIn, ClearCredentials, Forget,
      NewEpoch, Store, shared, tab, lock, server
<1>3. TypeOK'
  BY <1>1, TokenFacts, SyncedFacts
  DEF TabsInv, TypeOK, SignIn, ClearCredentials, Forget, NewEpoch, Store, Nothing, Record,
      shared, tab, lock, server
<1>4. TabsAgree'
  BY TokenFacts, SyncedFacts
  DEF TabsInv, TypeOK, TabsAgree, SignIn, ClearCredentials, Forget, NewEpoch, Store,
      Nothing, Record, shared, tab, lock, server
<1> QED  BY <1>1, <1>2, <1>3, <1>4 DEF TabsInv

LEMMA SignInFailsStep == ASSUME TabsInv, NEW t \in Tabs, SignInFails(t) PROVE TabsInv'
<1>1. LoginTypeOK' /\ TokensInv' /\ NoReplay'
  BY LocalTokens DEF SignInFails, shared, tab, lock, server
<1>2. RevokingInv'
  BY TokenFacts
  DEF TabsInv, RevokingInv, TypeOK, RefreshToken, SignInFails, shared, tab, lock, server
<1>3. TypeOK'
  BY <1>1, TokenFacts, SyncedFacts
  DEF TabsInv, TypeOK, SignInFails, shared, tab, lock, server
<1>4. TabsAgree'
  BY TokenFacts, SyncedFacts
  DEF TabsInv, TypeOK, TabsAgree, SignInFails, shared, tab, lock, server
<1> QED  BY <1>1, <1>2, <1>3, <1>4 DEF TabsInv

LEMMA LogoutStep == ASSUME TabsInv, NEW t \in Tabs, Logout(t) PROVE TabsInv'
<1>1. LoginTypeOK' /\ TokensInv' /\ NoReplay'
  BY LocalTokens
  DEF Logout, ClearCredentials, Forget, NewEpoch, Store, shared, tab, lock, server
<1>2. RevokingInv'
  BY TokenFacts
  DEF TabsInv, RevokingInv, TypeOK, RefreshToken, Logout, ClearCredentials, Forget,
      NewEpoch, Store, shared, tab, lock, server
<1>3. TypeOK'
  <2>1. token[t] \in RefreshToken /\ token[t].login \in Logins
    BY TokenFacts DEF TabsInv, TypeOK, Logout, RefreshToken
  <2> QED  BY <1>1, <2>1, TokenFacts DEF TabsInv, TypeOK, Logout, ClearCredentials, Forget, NewEpoch, Store, Nothing, Record, shared, tab, lock, server
<1>4. TabsAgree'
  BY TokenFacts, SyncedFacts
  DEF TabsInv, TypeOK, TabsAgree, Logout, ClearCredentials, Forget, NewEpoch, Store,
      Nothing, Record, shared, tab, lock, server
<1> QED  BY <1>1, <1>2, <1>3, <1>4 DEF TabsInv

LEMMA AutomaticSignOutStep == ASSUME TabsInv, NEW t \in Tabs, AutomaticSignOut(t) PROVE TabsInv'
<1>1. LoginTypeOK' /\ TokensInv' /\ NoReplay'
  BY LocalTokens
  DEF AutomaticSignOut, ClearCredentials, Forget, NewEpoch, Store, shared, tab, lock, server
<1>2. RevokingInv'
  BY TokenFacts
  DEF TabsInv, RevokingInv, TypeOK, RefreshToken, AutomaticSignOut, ClearCredentials,
      Forget, NewEpoch, Store, shared, tab, lock, server
<1>3. TypeOK'
  BY <1>1, TokenFacts, SyncedFacts
  DEF TabsInv, TypeOK, AutomaticSignOut, ClearCredentials, Forget, NewEpoch, Store, Nothing,
      Record, shared, tab, lock, server
<1>4. TabsAgree'
  BY TokenFacts, SyncedFacts
  DEF TabsInv, TypeOK, TabsAgree, AutomaticSignOut, ClearCredentials, Forget, NewEpoch,
      Store, Nothing, Record, shared, tab, lock, server
<1> QED  BY <1>1, <1>2, <1>3, <1>4 DEF TabsInv

LEMMA RefusalIgnoredStep == ASSUME TabsInv, NEW t \in Tabs, RefusalIgnored(t) PROVE TabsInv'
<1>1. LoginTypeOK' /\ TokensInv' /\ NoReplay'
  BY LocalTokens DEF RefusalIgnored, shared, tab, lock, server
<1>2. RevokingInv'
  BY TokenFacts
  DEF TabsInv, RevokingInv, TypeOK, RefreshToken, RefusalIgnored, shared, tab, lock, server
<1>3. TypeOK'
  BY <1>1, TokenFacts, SyncedFacts
  DEF TabsInv, TypeOK, RefusalIgnored, shared, tab, lock, server
<1>4. TabsAgree'
  BY TokenFacts, SyncedFacts
  DEF TabsInv, TypeOK, TabsAgree, RefusalIgnored, shared, tab, lock, server
<1> QED  BY <1>1, <1>2, <1>3, <1>4 DEF TabsInv

LEMMA StorageEventStep == ASSUME TabsInv, NEW t \in Tabs, StorageEvent(t) PROVE TabsInv'
<1>1. LoginTypeOK' /\ TokensInv' /\ NoReplay'
  BY LocalTokens DEF StorageEvent, Sync, Forget, NewEpoch, shared, tab, lock, server
<1>2. RevokingInv'
  BY TokenFacts
  DEF TabsInv, RevokingInv, TypeOK, RefreshToken, StorageEvent, Sync, Forget, NewEpoch,
      shared, tab, lock, server
<1>3. TypeOK'
  <2>1. /\ TabTypes'
        /\ \A s \in Tabs : token'[s].login = token[s].login \/ (s = t /\ Synced(t) = NoToken)
    BY SyncTypes DEF TabsInv, StorageEvent
  <2>2. /\ current' \in BOOLEAN /\ (current' => current)
        /\ Synced(t) = NoToken /\ current' => t \notin holder
    BY DEF TabsInv, TypeOK, StorageEvent, NewEpoch
  <2> QED  BY <1>1, <2>1, <2>2 DEF TabsInv, TypeOK, TabTypes, StorageEvent, server
<1>4. TabsAgree'
  BY TokenFacts, SyncedFacts
  DEF TabsInv, TypeOK, TabsAgree, StorageEvent, Sync, Forget, NewEpoch, shared, tab, lock,
      server
<1> QED  BY <1>1, <1>2, <1>3, <1>4 DEF TabsInv

LEMMA RefreshAuthStep == ASSUME TabsInv, NEW t \in Tabs, RefreshAuth(t) PROVE TabsInv'
<1>1. LoginTypeOK' /\ TokensInv' /\ NoReplay'
  BY LocalTokens DEF RefreshAuth, shared, tab, lock, server
<1>2. RevokingInv'
  BY TokenFacts
  DEF TabsInv, RevokingInv, TypeOK, RefreshToken, RefreshAuth, shared, tab, lock, server
<1>3. TypeOK'
  BY <1>1, TokenFacts, SyncedFacts
  DEF TabsInv, TypeOK, RefreshAuth, shared, tab, lock, server
<1>4. TabsAgree'
  BY TokenFacts, SyncedFacts
  DEF TabsInv, TypeOK, TabsAgree, RefreshAuth, shared, tab, lock, server
<1> QED  BY <1>1, <1>2, <1>3, <1>4 DEF TabsInv

LEMMA AdoptRotatedStep == ASSUME TabsInv, NEW t \in Tabs, AdoptRotated(t) PROVE TabsInv'
<1>1. LoginTypeOK' /\ TokensInv' /\ NoReplay'
  BY LocalTokens DEF AdoptRotated, Granted, SameLogin, shared, tab, lock, server
<1>2. RevokingInv'
  BY TokenFacts
  DEF TabsInv, RevokingInv, TypeOK, RefreshToken, AdoptRotated, Granted, SameLogin, shared,
      tab, lock, server
<1>3. TypeOK'
  BY <1>1, TokenFacts, SyncedFacts
  DEF TabsInv, TypeOK, AdoptRotated, Granted, SameLogin, shared, tab, lock, server
<1>4. TabsAgree'
  BY TokenFacts, SyncedFacts
  DEF TabsInv, TypeOK, TabsAgree, AdoptRotated, Granted, SameLogin, shared, tab, lock,
      server
<1> QED  BY <1>1, <1>2, <1>3, <1>4 DEF TabsInv

LEMMA RefreshDeniedStep == ASSUME TabsInv, NEW t \in Tabs, RefreshDenied(t) PROVE TabsInv'
<1>1. LoginTypeOK' /\ TokensInv' /\ NoReplay'
  BY LocalTokens DEF RefreshDenied, Granted, SameLogin, Forget, shared, tab, lock, server
<1>2. RevokingInv'
  BY TokenFacts
  DEF TabsInv, RevokingInv, TypeOK, RefreshToken, RefreshDenied, Granted, SameLogin, Forget,
      shared, tab, lock, server
<1>3. TypeOK'
  BY <1>1, TokenFacts, SyncedFacts
  DEF TabsInv, TypeOK, RefreshDenied, Granted, SameLogin, Forget, shared, tab, lock, server
<1>4. TabsAgree'
  BY TokenFacts, SyncedFacts
  DEF TabsInv, TypeOK, TabsAgree, RefreshDenied, Granted, SameLogin, Forget, shared, tab,
      lock, server
<1> QED  BY <1>1, <1>2, <1>3, <1>4 DEF TabsInv

LEMMA SupersededStep == ASSUME TabsInv, NEW t \in Tabs, Superseded(t) PROVE TabsInv'
<1>1. LoginTypeOK' /\ TokensInv' /\ NoReplay'
  BY LocalTokens DEF Superseded, Sync, Forget, shared, tab, lock, server
<1>2. RevokingInv'
  BY TokenFacts
  DEF TabsInv, RevokingInv, TypeOK, RefreshToken, Superseded, Sync, Forget, shared, tab,
      lock, server
<1>3. TypeOK'
  <2>1. rotation.answer.login \in Logins
    BY DEF TabsInv, RevokingInv, Superseded, RefreshToken
  <2>2. TabTypes'
    <3>1. CASE current
      BY <3>1, SyncTypes DEF TabsInv, Superseded
    <3>2. CASE ~current
      BY <3>2 DEF TabsInv, TypeOK, TabTypes, Superseded
    <3> QED  BY <3>1, <3>2
  <2>3. /\ rotation' \in [saved : Token, stage : Stage, answer : Token]
        /\ rotation'.stage = "discarding" /\ holder # {} /\ current' = FALSE
        /\ discarded' \subseteq Logins
    BY <2>1 DEF TabsInv, TypeOK, Superseded, Stage
  <2> QED  BY <1>1, <2>2, <2>3 DEF TabsInv, TypeOK, TabTypes, Superseded, shared, server
<1>4. TabsAgree'
  BY TokenFacts, SyncedFacts
  DEF TabsInv, TypeOK, TabsAgree, Superseded, Sync, Forget, shared, tab, lock, server
<1> QED  BY <1>1, <1>2, <1>3, <1>4 DEF TabsInv

LEMMA AbandonTokens ==
    ASSUME TabsInv, UNCHANGED <<loginVars, stored, discarded, replayed>>,
           rotation'.stage = "idle", late' = late \cup Given("posted")
    PROVE  LoginTypeOK' /\ TokensInv' /\ NoReplay'
<1>1. LoginTypeOK' /\ Fine \subseteq Fine'
  BY NoStep DEF TabsInv, TypeOK, FineStays, Fine, Known
<1>2. late' \subseteq Fine
  BY DEF TabsInv, TokensInv, Given
<1>3. stored.token # NoToken /\ ~stored.pending =>
         stored.token \in Fine /\ stored.token \notin late'
  BY DEF TabsInv, TokensInv, Given
<1> QED  BY <1>1, <1>2, <1>3 DEF TokensInv, TabsInv, NoReplay

LEMMA CloseTabStep == ASSUME TabsInv, NEW t \in Tabs, CloseTab(t) PROVE TabsInv'
<1>1. LoginTypeOK' /\ TokensInv' /\ NoReplay'
  <2>1. CASE t \in holder
    BY <2>1, AbandonTokens DEF CloseTab, Idle
  <2>2. CASE t \notin holder
    BY <2>2, LocalTokens DEF CloseTab, lock
  <2> QED  BY <2>1, <2>2
<1>2. RevokingInv'
  BY DEF TabsInv, RevokingInv, CloseTab, Idle, lock
<1>3. late' \subseteq RefreshToken
  BY <1>1 DEF TokensInv, Fine, Known
<1>4. TypeOK'
  <2>1. TabTypes' /\ signing' \in [Tabs -> SUBSET {"current", "stale"}] /\ news' \subseteq tabs'
    BY TokenFacts DEF TabsInv, TypeOK, TabTypes, CloseTab, Forget
  <2>2. CASE t \in holder
    <3>1. /\ holder' = {} /\ current' = FALSE /\ tabs' \subseteq Tabs
          /\ rotation' \in [saved : Token, stage : Stage, answer : Token]
          /\ rotation'.stage = "idle"
      BY <2>2, TokenFacts DEF TabsInv, TypeOK, CloseTab, Idle, Stage
    <3>2. UNCHANGED <<stored, revoking, replayed, discarded>>
      BY DEF CloseTab
    <3> QED  BY <1>1, <1>3, <2>1, <3>1, <3>2 DEF TabsInv, TypeOK, TabTypes
  <2>3. CASE t \notin holder
    BY <1>1, <1>3, <2>3, TokenFacts DEF TabsInv, TypeOK, CloseTab, Forget, lock
  <2> QED  BY <2>2, <2>3
<1>5. TabsAgree'
  BY TokenFacts DEF TabsInv, TypeOK, TabsAgree, CloseTab, Forget
<1> QED  BY <1>1, <1>2, <1>4, <1>5 DEF TabsInv

LEMMA UnconfirmedStep == ASSUME TabsInv, NEW t \in Tabs, Unconfirmed(t) PROVE TabsInv'
<1>1. LoginTypeOK' /\ TokensInv' /\ NoReplay'
  BY AbandonTokens DEF Unconfirmed, Release, Idle, shared
<1>2. RevokingInv'
  BY DEF TabsInv, RevokingInv, Unconfirmed, Release, Idle
<1>3. late' \subseteq RefreshToken
  BY <1>1 DEF TokensInv, Fine, Known
<1>4. TabTypes'
  <2>1. CASE Synced(t) = NoToken
    BY <2>1, TokenFacts DEF TabsInv, TypeOK, TabTypes, Unconfirmed, Forget
  <2>2. CASE Synced(t) # NoToken
    BY <2>2, AdoptTypes DEF TabsInv, Unconfirmed
  <2> QED  BY <2>1, <2>2
<1>5. TypeOK'
  BY <1>1, <1>3, <1>4, TokenFacts
  DEF TabsInv, TypeOK, TabTypes, Unconfirmed, Release, Idle, Stage, shared
<1>6. TabsAgree'
  BY TokenFacts, SyncedFacts DEF TabsInv, TypeOK, TabsAgree, Unconfirmed, Forget, shared
<1> QED  BY <1>1, <1>2, <1>5, <1>6 DEF TabsInv

LEMMA PostStep == ASSUME TabsInv, NEW t \in Tabs, Post(t) PROVE TabsInv'
<1>1. LoginTypeOK' /\ Fine \subseteq Fine'
  BY NoStep DEF TabsInv, TypeOK, FineStays, Fine, Known, Post, server
<1>2. stored.token = waiting[t] /\ stored.token # NoToken /\ ~stored.pending
  BY DEF Post, Granted, MayPost, Record
<1>3. /\ stored' = Record(stored.token, TRUE)
      /\ rotation' = [saved |-> stored.token, stage |-> "posted", answer |-> NoToken]
      /\ UNCHANGED server
  BY DEF Post, Store
<1>4. stored.token \in Fine /\ stored.token \notin late /\ late \subseteq Fine
  BY <1>2 DEF TabsInv, TokensInv
<1>5. TokensInv' /\ NoReplay'
  BY <1>1, <1>3, <1>4 DEF TabsInv, TokensInv, NoReplay, Record, server
<1>6. RevokingInv'
  BY <1>3 DEF TabsInv, RevokingInv, Post, server
<1>7. token[t].login = stored.token.login /\ t \in tabs
  BY <1>2, TokenFacts DEF TabsInv, TypeOK
<1>8. TypeOK'
  BY <1>1, <1>2, <1>7, TokenFacts DEF TabsInv, TypeOK, Post, Store, Record, Stage, server
<1>9. TabsAgree'
  BY DEF TabsInv, TypeOK, TabsAgree, Post, Store, Record
<1> QED  BY <1>1, <1>5, <1>6, <1>8, <1>9 DEF TabsInv

LEMMA RenewedStep == ASSUME TabsInv, NEW t \in Tabs, Renewed(t) PROVE TabsInv'
<1>1. LoginTypeOK' /\ Fine \subseteq Fine'
  BY NoStep DEF TabsInv, TypeOK, FineStays, Fine, Known, Renewed, server
<1>2. /\ rotation.answer \in Fine /\ rotation.answer \notin late /\ late \subseteq Fine
      /\ rotation.answer.login = rotation.saved.login
  BY DEF TabsInv, TokensInv, Renewed
<1>3. stored' = Record(rotation.answer, FALSE) /\ rotation' = Idle /\ UNCHANGED server
  BY DEF Renewed, Store, Release
<1>4. TokensInv' /\ NoReplay'
  BY <1>1, <1>2, <1>3 DEF TabsInv, TokensInv, NoReplay, Record, Idle, server
<1>5. RevokingInv'
  BY <1>3 DEF TabsInv, RevokingInv, Renewed, Idle, server
<1>6. /\ rotation.answer \in RefreshToken /\ t \in tabs
      /\ token[t].login = rotation.answer.login /\ stored.token.login = rotation.answer.login
      /\ token[t] # NoToken
  BY <1>2, TokenFacts DEF TabsInv, TypeOK, Renewed, Installable, Fine, Known
<1>7. TypeOK'
  BY <1>1, <1>6, TokenFacts
  DEF TabsInv, TypeOK, Renewed, Release, Store, Record, Idle, Stage, server
<1>8. TabsAgree'
  BY <1>6 DEF TabsInv, TypeOK, TabsAgree, Renewed, Store, Record
<1> QED  BY <1>1, <1>4, <1>5, <1>7, <1>8 DEF TabsInv

LEMMA RefreshBusyStep == ASSUME TabsInv, NEW t \in Tabs, RefreshBusy(t) PROVE TabsInv'
<1>1. LoginTypeOK' /\ Fine \subseteq Fine'
  BY NoStep DEF TabsInv, TypeOK, FineStays, Fine, Known, RefreshBusy, server
<1>2. rotation.saved \in Fine /\ rotation.saved \notin late /\ late \subseteq Fine
  BY DEF TabsInv, TokensInv, RefreshBusy
<1>3. /\ stored' = IF stored.token = rotation.saved THEN Record(stored.token, FALSE) ELSE stored
      /\ rotation' = Idle /\ UNCHANGED server
  BY DEF RefreshBusy, Store, Release, shared
<1>4. stored'.token # NoToken /\ ~stored'.pending =>
         stored'.token \in Fine /\ stored'.token \notin late
  BY <1>2, <1>3 DEF TabsInv, TokensInv, Record
<1>5. TokensInv' /\ NoReplay'
  BY <1>1, <1>2, <1>3, <1>4 DEF TabsInv, TokensInv, NoReplay, Idle, server
<1>6. RevokingInv'
  BY <1>3 DEF TabsInv, RevokingInv, RefreshBusy, Idle, server
<1>7. TypeOK'
  <2>1. stored' \in [token : Token, pending : BOOLEAN] /\ news' \subseteq tabs
    BY <1>3 DEF TabsInv, TypeOK, RefreshBusy, Store, Record, shared
  <2> QED  BY <1>1, <2>1, TokenFacts
           DEF TabsInv, TypeOK, RefreshBusy, Release, Idle, Stage, server, tab
<1>8. TabsAgree'
  BY DEF TabsInv, TypeOK, TabsAgree, RefreshBusy, Store, Record, shared, tab
<1> QED  BY <1>1, <1>5, <1>6, <1>7, <1>8 DEF TabsInv

-------------------------------------------------------------------------------
(* Steps of the server: at most the tokens in gone lose what makes them fine,
   and nothing else waits for those. *)
LEMMA ServerTokens ==
    ASSUME TabsInv, LoginTypeOK', NEW gone, Fine \ gone \subseteq Fine',
           late' \subseteq late \ gone, gone \subseteq late, UNCHANGED stored,
           rotation' = rotation \/ rotation'.stage \in {"idle", "discarding"}
    PROVE  TokensInv'
<1>1. late' \subseteq Fine'
  BY DEF TabsInv, TokensInv
<1>2. stored'.token # NoToken /\ ~stored'.pending =>
         stored'.token \in Fine' /\ stored'.token \notin late'
  BY DEF TabsInv, TokensInv
<1>3. CASE rotation' = rotation
  BY <1>1, <1>2, <1>3 DEF TabsInv, TokensInv
<1>4. CASE rotation'.stage \in {"idle", "discarding"}
  BY <1>1, <1>2, <1>4 DEF TokensInv
<1> QED  BY <1>3, <1>4

(* Whatever the server does with a token that is fine, or of a login that was
   given up, it has not been presented before. *)
LEMMA Outcomes ==
    ASSUME TabsInv, NEW tok \in RefreshToken,
           tok \in Fine \/ tok.login \in discarded, UNCHANGED discarded,
           \/ Renews(tok) /\ UNCHANGED replayed
           \/ Burns(tok)
           \/ Refuses(tok) /\ UNCHANGED replayed
           \/ Revokes(tok)
           \/ UNCHANGED <<loginVars, replayed>>
    PROVE  /\ LoginTypeOK' /\ NoReplay' /\ Fine \ {tok} \subseteq Fine'
           /\ tok.login \in discarded => Fine \subseteq Fine'
<1>1. LoginTypeOK /\ NoReplay /\ Fine \subseteq RefreshToken
  BY DEF TabsInv, TypeOK, Fine, Known
<1>2. CASE Renews(tok) /\ UNCHANGED replayed
  BY <1>1, <1>2, RotateStep DEF FineStays, Others, NoReplay
<1>3. CASE Burns(tok)
  <2>1. RevokeSessions({tok.login}) /\ tok \notin usable /\ tok.login \in Live
    BY <1>3 DEF Burns, RefreshReused
  <2>2. LoginTypeOK' /\ Fine \subseteq Fine'
    BY <1>1, <2>1, RevokeStep DEF FineStays
  <2>3. tok.login \in discarded
    BY <2>1 DEF Fine
  <2> QED  BY <1>1, <1>3, <2>2, <2>3 DEF Burns, NoReplay
<1>4. CASE UNCHANGED <<loginVars, replayed>>
  BY <1>1, <1>4, NoStep DEF FineStays, NoReplay
<1>5. CASE Revokes(tok)
  BY <1>1, <1>5, RevokeStep DEF Revokes, FineStays, NoReplay
<1> QED  BY <1>2, <1>3, <1>4, <1>5 DEF Refuses

LEMMA LateRefreshStep == ASSUME TabsInv, NEW tok \in late, LateRefresh(tok) PROVE TabsInv'
<1>1. tok \in Fine /\ tok \in RefreshToken
  BY DEF TabsInv, TokensInv, Fine, Known
<1>2. LoginTypeOK' /\ NoReplay' /\ Fine \ {tok} \subseteq Fine'
  BY <1>1, Outcomes DEF LateRefresh
<1>3. TokensInv'
  BY <1>2, ServerTokens DEF LateRefresh, shared, lock
<1>4. RevokingInv'
  BY DEF TabsInv, RevokingInv, LateRefresh, lock
<1>5. TypeOK'
  <2>1. replayed' \in BOOLEAN
    BY DEF TabsInv, TypeOK, LateRefresh, Burns
  <2> QED  BY <1>2, <2>1 DEF TabsInv, TypeOK, LateRefresh, shared, tab, lock
<1>6. TabsAgree'
  BY DEF TabsInv, TabsAgree, LateRefresh, shared, tab
<1> QED  BY <1>2, <1>3, <1>4, <1>5, <1>6 DEF TabsInv

LEMMA RevocationStep == ASSUME TabsInv, NEW tok \in revoking, Revocation(tok) PROVE TabsInv'
<1>1. tok \in RefreshToken /\ tok.login \in discarded
  BY DEF TabsInv, TypeOK, RevokingInv
<1>2. LoginTypeOK' /\ NoReplay' /\ Fine \subseteq Fine'
  BY <1>1, Outcomes DEF Revocation
<1>3. TokensInv'
  <2>1. Fine \ {} \subseteq Fine' /\ late' \subseteq late \ {}
    BY <1>2 DEF Revocation
  <2>2. UNCHANGED <<stored, rotation>>
    BY DEF Revocation, shared, lock
  <2> QED  BY <1>2, <2>1, <2>2, ServerTokens
<1>4. ASSUME Renews(tok)
      PROVE  Successor(tok) \in RefreshToken /\ Successor(tok).login \in discarded
  BY <1>1, <1>4, RotateStep DEF TabsInv, TypeOK, Revocation
<1>5. revoking' \subseteq RefreshToken /\ \A x \in revoking' : x.login \in discarded
  BY <1>4 DEF TabsInv, TypeOK, RevokingInv, Revocation
<1>6. RevokingInv'
  BY <1>5 DEF TabsInv, RevokingInv, Revocation, lock
<1>7. TypeOK'
  <2>1. replayed' \in BOOLEAN
    BY DEF TabsInv, TypeOK, Revocation, Revokes, Burns
  <2> QED  BY <1>2, <1>5, <2>1 DEF TabsInv, TypeOK, Revocation, shared, tab, lock
<1>8. TabsAgree'
  BY DEF TabsInv, TabsAgree, Revocation, shared, tab
<1> QED  BY <1>2, <1>3, <1>6, <1>7, <1>8 DEF TabsInv

LEMMA LoginEndsStep == ASSUME TabsInv, NEW s \in Logins, LoginEnds(s) PROVE TabsInv'
<1>1. LoginTypeOK' /\ Fine \ {} \subseteq Fine' /\ NoReplay'
  BY RevokeStep DEF TabsInv, TypeOK, LoginEnds, FineStays, Fine, Known, NoReplay
<1>2. TokensInv'
  BY <1>1, ServerTokens DEF LoginEnds, shared, lock
<1>3. RevokingInv'
  BY DEF TabsInv, RevokingInv, LoginEnds, lock
<1>4. TypeOK'
  BY <1>1 DEF TabsInv, TypeOK, LoginEnds, shared, tab, lock
<1>5. TabsAgree'
  BY DEF TabsInv, TabsAgree, LoginEnds, shared, tab
<1> QED  BY <1>1, <1>2, <1>3, <1>4, <1>5 DEF TabsInv

LEMMA SignedInStep == ASSUME TabsInv, NEW t \in Tabs, SignedIn(t) PROVE TabsInv'
<1>1. PICK s \in Logins : /\ CreateSession(s)
                          /\ token' = [token EXCEPT ![t] = TokenOf(s, 1)]
                          /\ Store(t, Record(TokenOf(s, 1), FALSE))
  BY DEF SignedIn
<1>2. /\ LoginTypeOK' /\ Fine \subseteq Fine' /\ TokenOf(s, 1) \in RefreshToken
      /\ TokenOf(s, 1) \in Fine' /\ TokenOf(s, 1) \notin Fine
  BY <1>1, CreateStep DEF TabsInv, TypeOK, SignedIn, FineStays, Fine, Known
<1>3. /\ stored' = Record(TokenOf(s, 1), FALSE)
      /\ UNCHANGED <<rotation, late, revoking, replayed, discarded>>
  BY <1>1 DEF SignedIn, Store
<1>4. TokensInv' /\ NoReplay'
  BY <1>2, <1>3 DEF TabsInv, TokensInv, NoReplay, Record
<1>5. RevokingInv'
  BY <1>3 DEF TabsInv, RevokingInv
<1>6. token[t] = NoToken /\ waiting[t] = NoToken /\ t \notin refused /\ t \in tabs
  BY TokenFacts DEF TabsInv, TypeOK, SignedIn
<1>7. TypeOK'
  <2>1. token' \in [Tabs -> Token] /\ signing' \in [Tabs -> SUBSET {"current", "stale"}]
    BY <1>1, <1>2, TokenFacts DEF TabsInv, TypeOK, SignedIn
  <2>2. TabTypes'
    BY <1>1, <1>6, <2>1 DEF TabsInv, TypeOK, TabTypes, SignedIn
  <2>3. stored' \in [token : Token, pending : BOOLEAN] /\ news' \subseteq tabs
    BY <1>1, <1>2, <1>3, TokenFacts DEF TabsInv, TypeOK, Store, Record
  <2>4. current' = (current /\ t \notin holder) /\ UNCHANGED <<tabs, holder>>
    BY DEF SignedIn, NewEpoch
  <2> QED  BY <1>1, <1>2, <1>3, <2>1, <2>2, <2>3, <2>4 DEF TabsInv, TypeOK, TabTypes
<1>8. TabsAgree'
  BY <1>1, <1>3, <1>6 DEF TabsInv, TypeOK, TabsAgree, SignedIn, Store, Record
<1> QED  BY <1>2, <1>4, <1>5, <1>7, <1>8 DEF TabsInv

LEMMA SignInSupersededStep ==
    ASSUME TabsInv, NEW t \in Tabs, SignInSuperseded(t) PROVE TabsInv'
<1>1. PICK s \in Logins : /\ CreateSession(s)
                          /\ revoking' = revoking \cup {TokenOf(s, 1)}
                          /\ discarded' = discarded \cup {s}
  BY DEF SignInSuperseded
<1>2. /\ LoginTypeOK' /\ Fine \ {} \subseteq Fine' /\ TokenOf(s, 1) \in RefreshToken
      /\ TokenOf(s, 1).login = s
  BY <1>1, CreateStep DEF TabsInv, TypeOK, FineStays, Fine, Known, TokenOf
<1>3. UNCHANGED <<shared, tabs, token, waiting, refused, lock, late, replayed>>
  BY DEF SignInSuperseded
<1>4. TokensInv'
  BY <1>2, <1>3, ServerTokens DEF shared, lock
<1>5. RevokingInv'
  BY <1>1, <1>2, <1>3 DEF TabsInv, RevokingInv, lock
<1>6. signing' \in [Tabs -> SUBSET {"current", "stale"}]
      /\ \A r \in Tabs : signing'[r] \subseteq signing[r]
  BY DEF TabsInv, TypeOK, SignInSuperseded
<1>7. TypeOK'
  BY <1>1, <1>2, <1>3, <1>6 DEF TabsInv, TypeOK, shared, lock
<1>8. TabsAgree' /\ NoReplay'
  BY <1>3 DEF TabsInv, TabsAgree, NoReplay, shared
<1> QED  BY <1>2, <1>4, <1>5, <1>7, <1>8 DEF TabsInv

LEMMA ServerAnswersStep == ASSUME TabsInv, ServerAnswers PROVE TabsInv'
<1> DEFINE saved == rotation.saved
<1>1. /\ saved \in Fine /\ saved \in RefreshToken /\ saved \notin late
      /\ stored.token = saved => stored.pending
      /\ late \subseteq Fine
  BY DEF TabsInv, TokensInv, ServerAnswers, Fine, Known
<1>2. UNCHANGED <<shared, tab, holder, current, late, revoking, discarded>>
  BY DEF ServerAnswers
<1>3. LoginTypeOK' /\ NoReplay' /\ Fine \ {saved} \subseteq Fine'
  BY <1>1, <1>2, Outcomes DEF ServerAnswers
<1>4. /\ late' \subseteq Fine'
      /\ stored'.token # NoToken /\ ~stored'.pending =>
            stored'.token \in Fine' /\ stored'.token \notin late'
  BY <1>1, <1>2, <1>3 DEF TabsInv, TokensInv, shared
<1>5. \/ rotation'.stage = "refused"
      \/ /\ rotation'.stage = "answered" /\ rotation'.answer \in Fine'
         /\ rotation'.answer \notin late' /\ rotation'.answer.login = rotation'.saved.login
         /\ rotation'.answer \in RefreshToken
      \/ /\ rotation'.stage = "busy" /\ rotation'.saved \in Fine'
         /\ rotation'.saved \notin late'
         /\ stored'.token = rotation'.saved => stored'.pending
  <2>1. CASE Renews(saved) /\ Answer("answered", Successor(saved))
    <3>1. /\ Successor(saved) \in RefreshToken /\ Successor(saved).login = saved.login
          /\ Successor(saved) \in Fine' /\ Successor(saved) \notin Known
      BY <1>1, <1>2, <2>1, RotateStep DEF TabsInv, TypeOK
    <3>2. /\ rotation'.stage = "answered" /\ rotation'.answer = Successor(saved)
          /\ rotation'.saved = saved
      BY <2>1 DEF Answer, TabsInv, TypeOK
    <3> QED  BY <1>1, <1>2, <3>1, <3>2 DEF Fine
  <2>2. CASE Answer("refused", NoToken)
    BY <2>2 DEF Answer, TabsInv, TypeOK
  <2>3. CASE Answer("busy", NoToken) /\ UNCHANGED <<loginVars, replayed>>
    <3>1. rotation'.stage = "busy" /\ rotation'.saved = saved
      BY <2>3 DEF Answer, TabsInv, TypeOK
    <3>2. Fine \subseteq Fine'
      BY <1>2, <2>3, NoStep DEF TabsInv, TypeOK, FineStays, Fine, Known
    <3> QED  BY <1>1, <1>2, <3>1, <3>2 DEF shared
  <2> QED  BY <2>1, <2>2, <2>3 DEF ServerAnswers
<1>6. TokensInv'
  BY <1>4, <1>5 DEF TokensInv
<1>7. RevokingInv'
  BY <1>2, <1>5 DEF TabsInv, RevokingInv
<1>8. TypeOK'
  <2>1. replayed' \in BOOLEAN
    BY DEF TabsInv, TypeOK, ServerAnswers, Burns
  <2>2. /\ rotation' \in [saved : Token, stage : Stage, answer : Token]
        /\ rotation'.stage # "idle" /\ rotation'.saved = saved /\ holder # {}
    <3>1. PICK stage \in {"answered", "refused", "busy"}, x \in Token : Answer(stage, x)
      <4>1. Renews(saved) => Successor(saved) \in Token
        BY <1>1, <1>2, RotateStep, TokenFacts DEF TabsInv, TypeOK
      <4> QED  BY <4>1, TokenFacts DEF ServerAnswers
    <3> QED  BY <3>1 DEF TabsInv, TypeOK, ServerAnswers, Answer, Stage
  <2> QED  BY <1>2, <1>3, <2>1, <2>2 DEF TabsInv, TypeOK, shared, tab
<1>9. TabsAgree'
  BY <1>2 DEF TabsInv, TabsAgree, shared, tab
<1> QED  BY <1>3, <1>6, <1>7, <1>8, <1>9 DEF TabsInv

LEMMA DiscardTokensStep == ASSUME TabsInv, NEW t \in Tabs, DiscardTokens(t) PROVE TabsInv'
<1> DEFINE tok == rotation.answer
<1>1. tok \in RefreshToken /\ tok.login \in discarded
  BY DEF TabsInv, RevokingInv, DiscardTokens
<1>2. UNCHANGED <<shared, tab, late, revoking, discarded>>
  BY DEF DiscardTokens
<1>3. LoginTypeOK' /\ NoReplay' /\ Fine \ {} \subseteq Fine'
  BY <1>1, <1>2, Outcomes DEF DiscardTokens
<1>4. \/ Release
      \/ /\ UNCHANGED <<holder, current>>
         /\ \E x \in RefreshToken : x.login \in discarded /\ Answer("discarding", x)
  <2>1. Renews(tok) => Successor(tok) \in RefreshToken /\ Successor(tok).login = tok.login
    BY <1>1, <1>2, RotateStep DEF TabsInv, TypeOK
  <2> QED  BY <1>1, <2>1 DEF DiscardTokens
<1>5. \/ /\ holder' = {} /\ current' = FALSE
         /\ rotation' = Idle /\ rotation'.stage = "idle"
      \/ /\ UNCHANGED <<holder, current>> /\ rotation'.stage = "discarding"
         /\ rotation'.saved = rotation.saved
         /\ rotation'.answer \in RefreshToken /\ rotation'.answer.login \in discarded
         /\ rotation' \in [saved : Token, stage : Stage, answer : Token]
  <2>1. CASE Release
    BY <2>1 DEF Release, Idle
  <2>2. CASE UNCHANGED <<holder, current>> /\
             \E x \in RefreshToken : x.login \in discarded /\ Answer("discarding", x)
    BY <2>2, TokenFacts DEF Answer, TabsInv, TypeOK, Stage
  <2> QED  BY <1>4, <2>1, <2>2
<1>6. TokensInv'
  <2>1. late' \subseteq late \ {} /\ UNCHANGED stored
    BY <1>2 DEF shared
  <2> QED  BY <1>3, <1>5, <2>1, ServerTokens
<1>7. RevokingInv'
  BY <1>2, <1>5 DEF TabsInv, RevokingInv
<1>8. TypeOK'
  <2>1. replayed' \in BOOLEAN
    BY DEF TabsInv, TypeOK, DiscardTokens, Revokes, Burns
  <2>2. Idle \in [saved : Token, stage : Stage, answer : Token]
    BY TokenFacts DEF Idle, Stage
  <2>3. rotation.stage # "idle" /\ holder # {}
    BY DEF TabsInv, TypeOK, DiscardTokens
  <2> QED  BY <1>2, <1>3, <1>5, <2>1, <2>2, <2>3 DEF TabsInv, TypeOK, shared, tab
<1>9. TabsAgree'
  BY <1>2 DEF TabsInv, TabsAgree, shared, tab
<1> QED  BY <1>3, <1>6, <1>7, <1>8, <1>9 DEF TabsInv

-------------------------------------------------------------------------------
LEMMA TabsInit == Init => TabsInv
<1> SUFFICES ASSUME Init PROVE TabsInv
  OBVIOUS
<1>1. LoginTypeOK
  BY DEF Init, InitLogins, LoginTypeOK
<1>2. TypeOK
  BY <1>1, TokenFacts DEF Init, TypeOK, Nothing, Record, Idle, Stage
<1> QED  BY <1>2 DEF Init, TabsInv, TabsAgree, TokensInv, RevokingInv, NoReplay, Nothing,
                     Record, Idle

LEMMA TabsNext == TabsInv /\ [Next]_vars => TabsInv'
<1> SUFFICES ASSUME TabsInv, [Next]_vars PROVE TabsInv'
  OBVIOUS
<1>1. ASSUME NEW t \in Tabs, User(t) PROVE TabsInv'
  BY <1>1, OpenTabStep, CloseTabStep, SignInStep, LogoutStep, RefreshAuthStep DEF User
<1>2. ASSUME NEW t \in Tabs, Delivery(t) PROVE TabsInv'
  BY <1>2, SignedInStep, SignInSupersededStep, SignInFailsStep, AutomaticSignOutStep,
     RefusalIgnoredStep, StorageEventStep DEF Delivery
<1>3. ASSUME NEW t \in Tabs, RotateBegins(t) PROVE TabsInv'
  BY <1>3, AdoptRotatedStep, RefreshDeniedStep, PostStep DEF RotateBegins
<1>4. ASSUME NEW t \in Tabs, RotateEnds(t) PROVE TabsInv'
  BY <1>4, RenewedStep, SupersededStep, DiscardTokensStep, RefreshBusyStep, UnconfirmedStep
  DEF RotateEnds
<1>5. CASE Server
  BY <1>5, ServerAnswersStep, LateRefreshStep, RevocationStep, LoginEndsStep DEF Server
<1>6. CASE UNCHANGED vars
  <2>1. LoginTypeOK' /\ Fine \ {} \subseteq Fine'
    BY <1>6, NoStep DEF TabsInv, TypeOK, FineStays, Fine, Known, vars, server
  <2>2. TokensInv'
    BY <1>6, <2>1, ServerTokens DEF vars, server, shared, lock
  <2> QED  BY <1>6, <2>1, <2>2 DEF TabsInv, TypeOK, TabsAgree, RevokingInv, NoReplay,
                                   vars, server, shared, tab, lock
<1> QED  BY <1>1, <1>2, <1>3, <1>4, <1>5, <1>6 DEF Next

(* The tabs, what they wait for, the lock and the record have the values the
   script gives them: a login request and a refresh belong to a tab that is
   open, the former to one that is signed out, the latter to one signed in. *)
THEOREM TabTypesHold == Spec => []TypeOK
<1>1. Init => TabsInv
  BY TabsInit
<1>2. TabsInv /\ [Next]_vars => TabsInv'
  BY TabsNext
<1>3. TabsInv => TypeOK
  BY DEF TabsInv
<1> QED  BY <1>1, <1>2, <1>3, PTL DEF Spec

(* No refresh token is presented a second time by any number of tabs that are
   closed in the middle of a refresh, lose its answer or give up waiting. *)
THEOREM NoTokenIsReplayed == Spec => []NoReplay
<1>1. Init => TabsInv
  BY TabsInit
<1>2. TabsInv /\ [Next]_vars => TabsInv'
  BY TabsNext
<1>3. TabsInv => NoReplay
  BY DEF TabsInv
<1> QED  BY <1>1, <1>2, <1>3, PTL DEF Spec

(* Tabs that handled the storage events sent to them act for one login. *)
THEOREM TabsActForOneLogin == Spec => []TabsAgree
<1>1. Init => TabsInv
  BY TabsInit
<1>2. TabsInv /\ [Next]_vars => TabsInv'
  BY TabsNext
<1>3. TabsInv => TabsAgree
  BY DEF TabsInv
<1> QED  BY <1>1, <1>2, <1>3, PTL DEF Spec

-------------------------------------------------------------------------------
(* What a step may do to the login that is stored. *)
Continues ==
    \/ stored'.token.login \in {0, stored.token.login}
    \/ login[stored'.token.login] = "unused"

LEMMA StoredStep == TabsInv /\ [Next]_vars => Continues
<1> SUFFICES ASSUME TabsInv, [Next]_vars PROVE Continues
  OBVIOUS
<1>1. ASSUME NEW t \in Tabs, stored' = Nothing PROVE Continues
  BY <1>1, TokenFacts DEF Continues, Nothing, Record
<1>2. ASSUME stored' = stored PROVE Continues
  BY <1>2 DEF Continues
<1>3. ASSUME NEW t \in Tabs, User(t) PROVE Continues
  BY <1>1, <1>2, <1>3
  DEF User, OpenTab, CloseTab, SignIn, Logout, RefreshAuth, ClearCredentials, Store, shared
<1>4. ASSUME NEW t \in Tabs, Delivery(t) PROVE Continues
  <2>1. CASE SignedIn(t)
    BY <2>1 DEF SignedIn, Store, Record, Continues, CreateSession, TokenOf
  <2>2. CASE ~SignedIn(t)
    BY <1>1, <1>2, <1>4, <2>2
    DEF Delivery, SignInSuperseded, SignInFails, AutomaticSignOut, RefusalIgnored,
        StorageEvent, ClearCredentials, Store, shared
  <2> QED  BY <2>1, <2>2
<1>5. ASSUME NEW t \in Tabs, RotateBegins(t) PROVE Continues
  BY <1>2, <1>5 DEF RotateBegins, AdoptRotated, RefreshDenied, Post, Store, Record,
                    Continues, shared
<1>6. ASSUME NEW t \in Tabs, RotateEnds(t) PROVE Continues
  <2>1. CASE Renewed(t)
    BY <2>1 DEF TabsInv, TokensInv, Renewed, Installable, Store, Record, Continues
  <2>2. CASE RefreshBusy(t)
    BY <1>2, <2>2 DEF RefreshBusy, Store, Record, Continues, shared
  <2>3. CASE Superseded(t) \/ DiscardTokens(t) \/ Unconfirmed(t)
    BY <1>2, <2>3 DEF Superseded, DiscardTokens, Unconfirmed, shared
  <2> QED  BY <1>6, <2>1, <2>2, <2>3 DEF RotateEnds
<1>7. CASE Server
  BY <1>2, <1>7 DEF Server, ServerAnswers, LateRefresh, Revocation, LoginEnds, shared
<1>8. CASE UNCHANGED vars
  BY <1>2, <1>8 DEF vars, shared
<1> QED  BY <1>3, <1>4, <1>5, <1>6, <1>7, <1>8 DEF Next

(* A login that was removed from the record does not come back: a step
   continues the login that is stored, removes it, or stores a new one. *)
THEOREM RemovedLoginStaysOut == Spec => SignedOutStaysOut
<1>1. Init => TabsInv
  BY TabsInit
<1>2. TabsInv /\ [Next]_vars => TabsInv'
  BY TabsNext
<1>3. TabsInv /\ [Next]_vars =>
         [stored'.token.login \in {0, stored.token.login}
             \/ login[stored'.token.login] = "unused"]_vars
  BY StoredStep DEF Continues
<1> QED  BY <1>1, <1>2, <1>3, PTL DEF Spec, SignedOutStaysOut
===============================================================================
