----------------------------- MODULE LoginSessions -----------------------------
(***************************************************************************)
(* The login sessions of one account and their refresh tokens              *)
(* (SessionManager and AuthService._issue_tokens).                         *)
(*                                                                         *)
(* Logins are numbered in the order they are created, the order of         *)
(* (created_at, id).  The refresh tokens of a login are numbered in the    *)
(* order they are issued.  Every operation below runs inside a transaction *)
(* that holds the lock of the account's row, so an operator here describes *)
(* what one transaction does to these rows; module Accounts says which     *)
(* transactions there are.                                                 *)
(***************************************************************************)
EXTENDS Integers, FiniteSets

CONSTANTS
    MaxLogins,      \* bound on the number of logins
    MaxConcurrent   \* settings.max_concurrent_sessions

ASSUME LoginAssumption ==
    /\ MaxLogins \in Nat
    /\ MaxConcurrent \in Nat \ {0}

Logins == 1..MaxLogins

VARIABLES
    login,    \* rows of login_sessions
    turns,    \* how many refresh tokens each login was given
    usable    \* the rows of refresh_tokens with revoked_at null

loginVars == <<login, turns, usable>>

RefreshToken == [login : Logins, turn : Nat \ {0}]
TokenOf(s, n) == [login |-> s, turn |-> n]

LoginTypeOK ==
    /\ login \in [Logins -> {"unused", "live", "expired", "revoked"}]
    /\ turns \in [Logins -> Nat]
    /\ usable \subseteq RefreshToken

InitLogins ==
    /\ login = [s \in Logins |-> "unused"]
    /\ turns = [s \in Logins |-> 0]
    /\ usable = {}

Live == {s \in Logins : login[s] = "live"}
Unrevoked == {s \in Logins : login[s] \in {"live", "expired"}}

-------------------------------------------------------------------------------
(* revoke_session: a login that was revoked before, and its tokens, stay as
   they are. *)
RevokedLogins(S) ==
    [s \in Logins |-> IF s \in S \cap Unrevoked THEN "revoked" ELSE login[s]]

(* Faulty: the session is revoked, its refresh tokens are not. *)
TokensKept(S) == usable

TokensWithout(S) == {t \in usable : t.login \notin S \cap Unrevoked}

RevokeSessions(S) ==
    /\ login' = RevokedLogins(S)
    /\ usable' = TokensWithout(S)
    /\ UNCHANGED turns

RevokeAllSessions == RevokeSessions(Logins)

(* Faulty: counts the logins before the new one was added. *)
ExcessBefore(active) ==
    {s \in active : Cardinality({r \in active : r >= s}) > MaxConcurrent + 1}

(* The oldest logins beyond the newest MaxConcurrent. *)
Excess(active) ==
    {s \in active : Cardinality({r \in active : r >= s}) > MaxConcurrent}

(* create_session with the limit it enforces, and the first refresh token. *)
CreateSession(s) ==
    LET revoked == Excess(Live \cup {s})
    IN  /\ login[s] = "unused"
        /\ \A r \in Logins : r < s => login[r] # "unused"
        /\ login' = [RevokedLogins(revoked) EXCEPT ![s] = "live"]
        /\ turns' = [turns EXCEPT ![s] = 1]
        /\ usable' = TokensWithout(revoked) \cup {TokenOf(s, 1)}

-------------------------------------------------------------------------------
(* Faulty: the token is replaced, but not consumed. *)
RotateKeeping(t) ==
    /\ t \in usable
    /\ turns' = [turns EXCEPT ![t.login] = @ + 1]
    /\ usable' = usable \cup {TokenOf(t.login, turns[t.login] + 1)}
    /\ UNCHANGED login

(* The end of AuthService.refresh: the token is consumed by compare-and-set
   and replaced, or it was consumed before and its login is revoked. *)
Rotate(t) ==
    /\ t \in usable
    /\ turns' = [turns EXCEPT ![t.login] = @ + 1]
    /\ usable' = (usable \ {t}) \cup {TokenOf(t.login, turns[t.login] + 1)}
    /\ UNCHANGED login

RefreshReused(t) ==
    /\ t \notin usable
    /\ RevokeSessions({t.login})

(* Deadlines pass in the order in which the logins were created: the lifetime
   is the same for all. *)
SessionExpires(s) ==
    /\ login[s] = "live"
    /\ \A r \in Live : r >= s
    /\ login' = [login EXCEPT ![s] = "expired"]
    /\ UNCHANGED <<turns, usable>>

-------------------------------------------------------------------------------
(* A login that is live can be continued with one refresh token, the last it
   was given, and a login that was revoked with none: two requests that
   present one token, or a client that repeats a request whose answer was
   lost, never leave two chains of tokens. *)
OneUsableToken ==
    \A s \in Logins :
        {t \in usable : t.login = s} =
            IF s \in Unrevoked THEN {TokenOf(s, turns[s])} ELSE {}

(* A login has been given tokens exactly if it was created. *)
TurnsCounted == \A s \in Logins : login[s] = "unused" <=> turns[s] = 0

(* No more logins of the account are live at once than the limit allows,
   in whatever order logins, refreshes and revocations of it end. *)
ConcurrentLimit == Cardinality(Live) <= MaxConcurrent
===============================================================================
