------------------------------ MODULE ConsoleTabs ------------------------------
(***************************************************************************)
(* The tabs of one browser that share a login through local storage        *)
(* (static/console.js): signing in and out, the refresh that one tab does  *)
(* for all of them under a Web Lock, storage events, and the revocation of *)
(* tokens nobody will use.  The server's side of a refresh is the one of   *)
(* LoginSessions.                                                          *)
(*                                                                         *)
(* A tab's script runs from one await to the next in one step, which reads *)
(* and writes local storage as it is at that moment.  A tab can be closed  *)
(* between any two steps, and a request that was sent may be handled by    *)
(* the server after the tab stopped waiting for it.  An access token and   *)
(* the refresh token that came with it are one token here; that an access  *)
(* token has expired is possible at any time.  The browser has Web Locks.  *)
(*                                                                         *)
(* A definition marked "Faulty" is used by no action.                      *)
(***************************************************************************)
EXTENDS LoginSessions

CONSTANTS
    Tabs,
    MaxTurns    \* bound on the refresh tokens of one login

ASSUME TabsAssumption == MaxTurns \in Nat

VARIABLES
    tabs,       \* the tabs that are open
    stored,     \* the record mydesk.auth of local storage
    token,      \* state.token and state.refreshToken of each tab
    signing,    \* the login requests of each tab that were not answered
    waiting,    \* what state.refreshPromise waits to refresh: it has no lock yet
    holder,     \* the tab that holds the lock mydesk-refresh
    rotation,   \* what the holder's rotate is at
    current,    \* the holder's authEpoch is what it was when it began
    refused,    \* tabs whose refresh was denied, which the caller has yet to learn
    news,       \* tabs with a storage event to handle
    late,       \* tokens of refresh requests whose answer nobody waits for
    revoking,   \* tokens that logout or a discarded login revokes
    discarded,  \* history: logins that a tab set out to revoke
    replayed    \* history: the server revoked another login for a reused token

shared == <<stored, news>>
tab == <<tabs, token, signing, waiting, refused>>
lock == <<holder, rotation, current>>
server == <<loginVars, late, revoking, replayed>>
vars == <<shared, tab, lock, server, discarded>>

NoToken == [login |-> 0, turn |-> 0]
Token == RefreshToken \cup {NoToken}
Record(tok, pending) == [token |-> tok, pending |-> pending]
Nothing == Record(NoToken, FALSE)
Idle == [saved |-> NoToken, stage |-> "idle", answer |-> NoToken]
Stage == {"idle", "posted", "answered", "refused", "busy", "discarding"}

(* A login request is outstanding only while the tab is signed out, and so is
   a refresh only while it is signed in: signing out forgets both. *)
TypeOK ==
    /\ LoginTypeOK
    /\ tabs \subseteq Tabs
    /\ stored \in [token : Token, pending : BOOLEAN]
    /\ token \in [Tabs -> Token]
    /\ signing \in [Tabs -> SUBSET {"current", "stale"}]
    /\ waiting \in [Tabs -> Token]
    /\ holder \in {{}} \cup {{t} : t \in tabs}
    /\ rotation \in [saved : Token, stage : Stage, answer : Token]
    /\ (rotation.stage = "idle") = (holder = {})
    /\ current \in BOOLEAN
    /\ refused \subseteq tabs
    /\ news \subseteq tabs
    /\ late \cup revoking \subseteq RefreshToken
    /\ discarded \subseteq Logins
    /\ replayed \in BOOLEAN
    /\ \A t \in Tabs :
          /\ token[t] # NoToken \/ signing[t] # {} => t \in tabs
          /\ token[t] # NoToken => "current" \notin signing[t]
          /\ waiting[t] # NoToken => waiting[t].login = token[t].login
          /\ t \in refused => token[t] # NoToken
          /\ t \in holder /\ current => token[t].login = rotation.saved.login

Init ==
    /\ InitLogins
    /\ tabs = {}
    /\ stored = Nothing
    /\ token = [t \in Tabs |-> NoToken]
    /\ signing = [t \in Tabs |-> {}]
    /\ waiting = [t \in Tabs |-> NoToken]
    /\ holder = {}
    /\ rotation = Idle
    /\ current = FALSE
    /\ refused = {}
    /\ news = {}
    /\ late = {}
    /\ revoking = {}
    /\ discarded = {}
    /\ replayed = FALSE

-------------------------------------------------------------------------------
(* A tab writes the record: the other tabs are sent an event if it changed. *)
Store(t, record) ==
    /\ stored' = record
    /\ news' = IF record = stored THEN news ELSE news \cup (tabs \ {t})

(* clearCredentials within the tab. *)
Forget(t) ==
    /\ token' = [token EXCEPT ![t] = NoToken]
    /\ waiting' = [waiting EXCEPT ![t] = NoToken]
    /\ refused' = refused \ {t}

NewEpoch(t) == current' = (current /\ t \notin holder)

(* clearCredentials that also removes the record, whatever it holds. *)
ClearCredentials(t) ==
    /\ Forget(t)
    /\ NewEpoch(t)
    /\ Store(t, Nothing)
    /\ UNCHANGED <<holder, rotation>>

(* Faulty: a record that was removed does not sign the tab out. *)
SyncedUnlessRemoved(t) ==
    IF stored.token.login \in {0, token[t].login} THEN token[t] ELSE NoToken

(* syncStoredAuthentication: what a tab that is signed in is left with. *)
Synced(t) ==
    IF stored.token.login # token[t].login THEN NoToken
    ELSE IF stored.pending THEN token[t] ELSE stored.token

Sync(t) ==
    IF Synced(t) = NoToken THEN Forget(t)
    ELSE /\ token' = [token EXCEPT ![t] = Synced(t)]
         /\ UNCHANGED <<waiting, refused>>

-------------------------------------------------------------------------------
(* A page is loaded, or goes away with everything it was doing. *)
OpenTab(t) ==
    /\ t \notin tabs
    /\ tabs' = tabs \cup {t}
    /\ token' = [token EXCEPT ![t] = stored.token]
    /\ UNCHANGED <<shared, signing, waiting, refused, lock, server, discarded>>

Given(stage) == IF rotation.stage = stage THEN {rotation.saved} ELSE {}

CloseTab(t) ==
    /\ t \in tabs
    /\ tabs' = tabs \ {t}
    /\ Forget(t)
    /\ signing' = [signing EXCEPT ![t] = {}]
    /\ news' = news \ {t}
    /\ IF t \in holder
       THEN /\ holder' = {} /\ rotation' = Idle /\ current' = FALSE
            /\ late' = late \cup Given("posted")
       ELSE UNCHANGED <<lock, late>>
    /\ UNCHANGED <<stored, loginVars, revoking, replayed, discarded>>

(* login: the tab forgets who it was, then asks. *)
SignIn(t) ==
    /\ t \in tabs
    /\ ClearCredentials(t)
    /\ signing' = [signing EXCEPT ![t] = {"current"} \cup
                                         (IF @ = {} THEN {} ELSE {"stale"})]
    /\ UNCHANGED <<tabs, server, discarded>>

(* acceptAuthentication: the answer is installed if nothing happened to the
   credentials of the tab since it asked. *)
SignedIn(t) ==
    /\ "current" \in signing[t]
    /\ \E s \in Logins :
          /\ CreateSession(s)
          /\ token' = [token EXCEPT ![t] = TokenOf(s, 1)]
          /\ Store(t, Record(TokenOf(s, 1), FALSE))
    /\ signing' = [signing EXCEPT ![t] = @ \ {"current"}]
    /\ NewEpoch(t)
    /\ UNCHANGED <<tabs, waiting, refused, holder, rotation, late, revoking, replayed,
                   discarded>>

SignInSuperseded(t) ==
    /\ "stale" \in signing[t]
    /\ \E s \in Logins :
          /\ CreateSession(s)
          /\ revoking' = revoking \cup {TokenOf(s, 1)}
          /\ discarded' = discarded \cup {s}
    /\ signing' = [signing EXCEPT ![t] = @ \ {"stale"}]
    /\ UNCHANGED <<shared, tabs, token, waiting, refused, lock, late, replayed>>

SignInFails(t) ==
    /\ \E kind \in signing[t] : signing' = [signing EXCEPT ![t] = @ \ {kind}]
    /\ UNCHANGED <<shared, tabs, token, waiting, refused, lock, server,
                   discarded>>

Logout(t) ==
    /\ token[t] # NoToken
    /\ ClearCredentials(t)
    /\ revoking' = revoking \cup {token[t]}
    /\ discarded' = discarded \cup {token[t].login}
    /\ UNCHANGED <<tabs, signing, loginVars, late, replayed>>

(* The console's socket was denied, and so was the refresh that followed or
   the socket again. *)
AutomaticSignOut(t) ==
    /\ token[t] # NoToken
    /\ t \in refused \/ token[t].login \notin Live
    /\ ClearCredentials(t)
    /\ UNCHANGED <<tabs, signing, server, discarded>>

(* A request other than the socket's is told that the refresh was denied. *)
RefusalIgnored(t) ==
    /\ t \in refused
    /\ refused' = refused \ {t}
    /\ UNCHANGED <<shared, tabs, token, signing, waiting, lock, server,
                   discarded>>

StorageEvent(t) ==
    /\ t \in news
    /\ news' = news \ {t}
    /\ Sync(t)
    /\ IF Synced(t) = NoToken THEN NewEpoch(t) ELSE UNCHANGED current
    /\ UNCHANGED <<stored, tabs, signing, holder, rotation, server, discarded>>

-------------------------------------------------------------------------------
(* refreshAuth. *)
RefreshAuth(t) ==
    /\ token[t] # NoToken
    /\ waiting[t] = NoToken
    /\ ~(t \in holder /\ current)
    /\ waiting' = [waiting EXCEPT ![t] = token[t]]
    /\ UNCHANGED <<shared, tabs, token, signing, refused, lock, server,
                   discarded>>

(* rotate, once the tab has the lock. *)
Granted(t) ==
    /\ holder = {}
    /\ waiting[t] # NoToken

SameLogin(t) == stored.token.login = waiting[t].login

AdoptRotated(t) ==
    /\ Granted(t)
    /\ stored.token # waiting[t] /\ SameLogin(t) /\ ~stored.pending
    /\ token' = [token EXCEPT ![t] = stored.token]
    /\ waiting' = [waiting EXCEPT ![t] = NoToken]
    /\ UNCHANGED <<shared, tabs, signing, refused, lock, server, discarded>>

(* Another login, or a refresh that was never confirmed: the tab keeps its
   token only in the latter case, until the caller learns of it. *)
RefreshDenied(t) ==
    /\ Granted(t)
    /\ stored.pending \/ ~SameLogin(t)
    /\ IF Synced(t) = NoToken THEN Forget(t)
       ELSE /\ waiting' = [waiting EXCEPT ![t] = NoToken]
            /\ refused' = refused \cup {t}
            /\ UNCHANGED token
    /\ UNCHANGED <<shared, tabs, signing, lock, server, discarded>>

(* Faulty: a refresh that was not confirmed is tried again. *)
MayPostIgnoringPending(t) == stored.token = waiting[t]

MayPost(t) == stored = Record(waiting[t], FALSE)

Post(t) ==
    /\ Granted(t)
    /\ MayPost(t)
    /\ Store(t, Record(stored.token, TRUE))
    /\ holder' = {t}
    /\ rotation' = [saved |-> stored.token, stage |-> "posted", answer |-> NoToken]
    /\ current' = TRUE
    /\ waiting' = [waiting EXCEPT ![t] = NoToken]
    /\ UNCHANGED <<tabs, token, signing, refused, server, discarded>>

-------------------------------------------------------------------------------
(* What the server does with a refresh: module LoginSessions. *)
Renews(tok) == tok.login \in Live /\ turns[tok.login] < MaxTurns /\ Rotate(tok)
Successor(tok) == TokenOf(tok.login, turns[tok.login] + 1)
Burns(tok) ==
    /\ tok.login \in Live
    /\ RefreshReused(tok)
    /\ replayed' = (replayed \/ tok.login \notin discarded)
Refuses(tok) == tok.login \notin Live /\ UNCHANGED loginVars

Answer(stage, tok) == rotation' = [rotation EXCEPT !.stage = stage, !.answer = tok]

ServerAnswers ==
    /\ rotation.stage = "posted"
    /\ \/ Renews(rotation.saved) /\ Answer("answered", Successor(rotation.saved))
          /\ UNCHANGED replayed
       \/ Burns(rotation.saved) /\ Answer("refused", NoToken)
       \/ Refuses(rotation.saved) /\ Answer("refused", NoToken) /\ UNCHANGED replayed
       \/ Answer("busy", NoToken) /\ UNCHANGED <<loginVars, replayed>>
    /\ UNCHANGED <<shared, tab, holder, current, late, revoking, discarded>>

LateRefresh(tok) ==
    /\ late' = late \ {tok}
    /\ \/ Renews(tok) /\ UNCHANGED replayed
       \/ Burns(tok)
       \/ Refuses(tok) /\ UNCHANGED replayed
    /\ UNCHANGED <<shared, tab, lock, revoking, discarded>>

(* revokeTokens: logout revokes the login; if the access token has expired the
   captured session is refreshed first.  Either may fail. *)
Revokes(tok) == RevokeSessions({tok.login}) /\ UNCHANGED replayed

Revocation(tok) ==
    /\ \/ Revokes(tok) /\ revoking' = revoking \ {tok}
       \/ Renews(tok) /\ revoking' = (revoking \ {tok}) \cup {Successor(tok)} /\ UNCHANGED replayed
       \/ Burns(tok) /\ revoking' = revoking \ {tok}
       \/ revoking' = revoking \ {tok} /\ UNCHANGED <<loginVars, replayed>>
    /\ UNCHANGED <<shared, tab, lock, late, discarded>>

(* A login ends for a reason outside this browser. *)
LoginEnds(s) ==
    /\ s \in Live
    /\ RevokeSessions({s})
    /\ UNCHANGED <<shared, tab, lock, late, revoking, replayed, discarded>>

-------------------------------------------------------------------------------
Release == holder' = {} /\ rotation' = Idle /\ current' = FALSE

(* Faulty: only the epoch of the tab that asked is looked at. *)
InstallableByEpoch == current

(* Nobody signed in or out meanwhile, in this tab or another. *)
Installable == current /\ stored.token = rotation.saved

Renewed(t) ==
    /\ t \in holder
    /\ rotation.stage = "answered"
    /\ Installable
    /\ token' = [token EXCEPT ![t] = rotation.answer]
    /\ Store(t, Record(rotation.answer, FALSE))
    /\ Release
    /\ UNCHANGED <<tabs, signing, waiting, refused, server, discarded>>

(* The tokens of the answer are revoked before the lock is released. *)
Superseded(t) ==
    /\ t \in holder
    /\ rotation.stage = "answered"
    /\ ~Installable
    /\ IF current THEN Sync(t) ELSE UNCHANGED <<token, waiting, refused>>
    /\ rotation' = [rotation EXCEPT !.stage = "discarding"]
    /\ current' = FALSE
    /\ discarded' = discarded \cup {rotation.answer.login}
    /\ UNCHANGED <<shared, tabs, signing, holder, server>>

DiscardTokens(t) ==
    /\ t \in holder
    /\ rotation.stage = "discarding"
    /\ \/ Revokes(rotation.answer) /\ Release
       \/ /\ Renews(rotation.answer) /\ UNCHANGED <<replayed, holder, current>>
          /\ Answer("discarding", Successor(rotation.answer))
       \/ Burns(rotation.answer) /\ Release
       \/ UNCHANGED <<loginVars, replayed>> /\ Release
    /\ UNCHANGED <<shared, tab, late, revoking, discarded>>

(* The rate limit answered before the token was looked at. *)
RefreshBusy(t) ==
    /\ t \in holder
    /\ rotation.stage = "busy"
    /\ IF stored.token = rotation.saved THEN Store(t, Record(stored.token, FALSE))
                                        ELSE UNCHANGED shared
    /\ Release
    /\ UNCHANGED <<tab, server, discarded>>

(* The stages a rotate can be in when its request fails: the answer is no, or
   it is lost, or the tab waited for 15 seconds. *)
FailedStage == {"posted", "answered", "refused"}

Unconfirmed(t) ==
    /\ t \in holder
    /\ rotation.stage \in FailedStage
    /\ IF Synced(t) = NoToken THEN Forget(t)
       ELSE /\ token' = [token EXCEPT ![t] = Synced(t)]
            /\ refused' = IF current THEN refused \cup {t} ELSE refused
            /\ UNCHANGED waiting
    /\ late' = late \cup Given("posted")
    /\ Release
    /\ UNCHANGED <<shared, tabs, signing, loginVars, revoking, replayed, discarded>>
-------------------------------------------------------------------------------
User(t) == OpenTab(t) \/ CloseTab(t) \/ SignIn(t) \/ Logout(t) \/ RefreshAuth(t)

Delivery(t) ==
    \/ SignedIn(t) \/ SignInSuperseded(t) \/ SignInFails(t)
    \/ AutomaticSignOut(t) \/ RefusalIgnored(t) \/ StorageEvent(t)

RotateBegins(t) == AdoptRotated(t) \/ RefreshDenied(t) \/ Post(t)

RotateEnds(t) ==
    \/ Renewed(t) \/ Superseded(t) \/ DiscardTokens(t) \/ RefreshBusy(t)
    \/ Unconfirmed(t)

Server ==
    \/ ServerAnswers
    \/ \E tok \in late : LateRefresh(tok)
    \/ \E tok \in revoking : Revocation(tok)
    \/ \E s \in Logins : LoginEnds(s)

Next ==
    \/ \E t \in Tabs : User(t) \/ Delivery(t) \/ RotateBegins(t) \/ RotateEnds(t)
    \/ Server

Spec == Init /\ [][Next]_vars

-------------------------------------------------------------------------------
(* The tabs of the browser, a crash in the middle of a refresh and an answer
   that is lost never present a refresh token twice: the server takes a login
   for stolen only if one of the tabs has set out to revoke it anyway. *)
NoReplay == ~replayed

(* A login that a tab removed from local storage, by signing out or signing in
   anew, does not come back through the answer of a refresh that another tab,
   or the same one, began before: what is stored is continued, removed, or
   replaced by a login that is new. *)
SignedOutStaysOut ==
    [][stored'.token.login \in {0, stored.token.login}
           \/ login[stored'.token.login] = "unused"]_vars

(* A tab that has no storage event to handle is signed in as what is stored, or
   not at all: tabs are never left acting for two logins. *)
TabsAgree ==
    \A t \in tabs \ news :
        token[t] # NoToken => token[t].login = stored.token.login
===============================================================================
