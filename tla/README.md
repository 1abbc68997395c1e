# RemotePocket: verification

TLA+ models of the RemotePocket server, the TLC runs that check them on small
instances, and the theorems about them that TLAPS proves for every instance.
Paths are relative to the repository's root; `PROJECT.json` lists components,
runs, theorems, hazards and, under `map`, the source lines each definition stands
for.

## The system

RemotePocket lets the owner of an Android device see and control it from a
browser. A FastAPI server (one asyncio worker, one SQL database) sits between the
Android agent and the browser console; both hold a WebSocket to it.

| Component | State | Operations | Interacts through | Correct when |
| --- | --- | --- | --- | --- |
| Device connections (`routes/websocket.py`, `_serve_device`) | position of each handler, row it loaded | connect, register, messages, end of session, cleanup | connection maps, `devices`, `sessions` | a status tells whether a socket is registered; a replaced socket changes nothing |
| Console connections (`_serve_console`) | position, rows held, challenges | reserve, accept, recheck of the login, list, challenge, start, end, cleanup | the same, `login_sessions` | a revoked login loses its sessions; limits hold |
| Remote sessions (`_handle_session_start`, `_end_sessions`) | rows of `sessions`, routes | start, delivery, end by device, console, loss of either, revocation, restart | owner's lock, routes | one per device, quota per owner, routes are the sessions in progress, one recorded end |
| `WebSocketManager` | connections, handshakes, reservations, routes | connect, disconnect, bind, unbind, send | called by every handler | capacity counts what is on its way |
| Revocation and startup (`routes/devices.py`, `main.py`) | `devices.revoked_at`, `status` | revoke, repair | maps and rows | a revoked device loses its session, gets no other and leaves |
| Presence publications (`publish_device`) | `watch_devices` of a console | publish | sends to consoles | a watching console ends up with the true status (not modelled) |
| Device challenges (`device_auth.py`) | pending challenges per console | issue, consume | session start | single use, bounded |
| Email outbox (`email_outbox.py`) | jobs: pending, sending, sent, failed, discarded | enqueue, pick, send, finish, repair at start | `users`, tokens, SMTP | at most three attempts, no stale token sent, every job finishes |
| Login sessions (`auth_service.py`, `session_management`) | logins, refresh tokens, lockout | login, refresh, logout, revoke | user's lock | one live token per login, reuse revokes, limit holds |
| Account, MFA, password reset (`account_service.py`, `routes/account.py`) | challenges, setups, recovery codes, reset tokens | change, reset, setup, verify | user's lock, outbox | a token or code works once; a change revokes logins |
| Pairing (`routes/pairing.py`) | codes, devices | create, pair | compare-and-set | a code pairs one device |
| WebSocket relay (`websocket_relay.py`) | queue, pending requests, health | broadcast, send, read, write, fail | Redis | requests are answered; a full queue is noticed |
| Message budgets (`websocket_limits.py`) | rolling windows | accept | handlers | never more than the limit in any second |
| Shutdown (`shutdown.py`, `server.py`) | drain task, active requests | begin, drain | sockets, lifespan | bounded |
| Android agent (`AgentConnectionManager.kt`, `ConnectionPolicy.kt`, `DeviceWebSocketClient.kt`) | mode, deadline, session, socket | refresh, wake, connect, lose, stop | server, main thread handlers | connected exactly while allowed |
| Wake commands (`WakeNonces.kt`, `DeviceConfigStore.kt`) | consumed nonces | verify, consume | preferences | a command activates once |
| Console tabs (`static/console.js`) | tokens in local storage, epochs, socket | refresh, login, logout, reconnect | storage events, locks, server | a token is rotated once; tabs agree |
| Validation, audit, activity, metrics, tracing, configuration, scripts, website | none that the protocols depend on | | | not modelled |

What is hard here: every `await` of a handler lets revocation, the other end, a
reconnection or a restart happen in between; SQLAlchemy rows outlive the facts
they were loaded with; the maps in memory and the rows in the database change at
different moments; sends fail seconds late. `PROJECT.json` lists each hazard at
its line.

## The modules

| Module | Models | Composed with |
| --- | --- | --- |
| `RemoteSessions` | devices, consoles, sessions and maps of one server process | implements `DeviceLease` |
| `EmailOutbox` | the queue of account emails and the tokens in them | |
| `LoginSessions` | what a transaction does to the logins and refresh tokens of an account | extended by the next two |
| `Accounts` | one account: password, lockout, second factor, tokens | implements `LoginLineage` |
| `ConsoleTabs` | the tabs of a browser over the server's side of `LoginSessions` | |
| `WebSocketRelay` | several server processes and Redis | |
| `DeviceAgent` | the Android agent and its wake commands | |

Each `MC` module gives a module its small instance. The theorems about a module
are in the `_proofs` module of its name; those on the leases of `RemoteSessions`
are in `RemoteLease_proofs`, those on the views of `WebSocketRelay` in
`RelayViews_proofs`. What is proved holds for all values of the constants that
satisfy the assumptions named; liveness (`RevokedLoginEnds`, `RevokedDeviceLeaves`,
`EveryJobEnds`, `WindowEnds`, `WindowAlwaysEnds`) is out of the prover's reach and only
model-checked. Every module is its own small system because the parts meet at few
points: a login of `RemoteSessions` (`login`) only is or is not valid, which is
what `Accounts` says of one; a lost socket of `DeviceAgent` is a disconnection in
`RemoteSessions`. The modules repeat none of each other's state except the reset
links, which `EmailOutbox` follows into mailboxes and `Accounts` to what they
open.

Definitions marked "Faulty" are not used by the specifications: each is a plausible
mistake that the property named for it in `PROJECT.json` rejects.

## RemoteSessions

One action is one stretch of a handler between two awaits that may suspend it; the
worker runs nothing else meanwhile. `device_pc` and `console_pc` name the await a
handler is suspended at:

| pc | Handler of a device | Handler of a console |
| --- | --- | --- |
| idle / new, closed | no handler | not yet connected, gone |
| accepting | in `websocket.accept()`, counted in `connecting_devices` | the same, counted in `connecting_consoles` |
| rejecting | closing a device found revoked after the handshake | |
| starting | | sending `session_start` to the device |
| receiving | in `receive()`, or in a send that only reports something | the same |

The last line is an abstraction: a handler suspended in a reply or a notification
has no step but to go on or to fail, and both are steps of one that receives (the
next message, or the disconnection).

| State of the model | Code |
| --- | --- |
| `revoked`, `device_status`, `sessions` | `devices.revoked_at`, `devices.status`, rows of `sessions` |
| `login` | `validate_session` for the login behind a console's token |
| `connecting_devices`, `device_connections`, `connecting_consoles`, `console_connections` | the maps of `WebSocketManager` |
| `session_routes` | its keys; the two ends of a route are the columns its row was inserted with |
| `challenges` | `DeviceChallenges.pending` of a connection; an expired entry may be pruned whenever the code prunes |
| `holds_device`, `holds_rows` | rows with `revoked_at` NULL that a handler's SQLAlchemy session still holds |
| `revoke_pc` | `revoke_device` before and after its notifications |

Rows held. `expire_on_commit=False` (`app/database.py`) leaves loaded rows as they
are at a commit, and the `db.rollback()` at the top of a loop expires nothing when
no transaction is open. The identity map is weak, so a row survives only while a
local variable refers to it: the handler's `device`, or the `devices` list a
console keeps after `device_list_request`. `Listing` names the consoles that ask for
the list, which the bundled console does on every connection
(`static/console.js:291`); the others hold nothing between messages. Every run of the
module has a console that lists, and no theorem assumes that there is none.

Actions are named after what happens and cover each handler whole: cleanup actions
include the end of the sessions, the change of the status and the removal of the
routes. `Restart` is a stop of the process at any point followed by the repair in
`lifespan`, which runs before anything is served. A console connection and a
session id are used once (both are generated); sockets of a device come back.

Left out: frames and inputs (they read the routes and change nothing), heartbeats
and other timestamps, audit rows, the HTTP and message limits (they may end a
connection, which is a disconnection), the SCRAM computation (a proof is accepted
or refused), the relay (one worker; `WebSocketRelay` has it), publications of
presence, failing commits.

`DeviceLease` is what a reader should remember: a session is a lease of a device
to a console, granted once to a free device within the quota, ended once, all of a
device's leases ending in the step that withdraws it. After that step only the
consoles in `Late`, which may act on what they read before, are granted one of it.
`RemoteSessions` implements it through `LeaseOf`, with `Listing` for `Late`
(`ImplementsLease`): what a stale row can do is open a session with a device just
revoked, and no more than that.

### Runs

| Run | Instance | Shows |
| --- | --- | --- |
| `sessions` | 1 device with 1 socket, 3 consoles of which one lists, 3 session ids, quota 2, 3 connections | exclusivity; routes are sessions in progress, and all of them but those of a revoked device; a revoked device in session only by a stale row; presence; limits that count handshakes and reservations; refinement of `DeviceLease` |
| `liveness` | the same with 2 consoles, `FairSpec` | a revoked login ends, a revoked device leaves; `SessionInv`, the inductive invariant of the proofs |
| `revoked_status` | 2 consoles of which one lists, 2 session ids | violated: see findings |
| `stale_row` | 2 consoles of which one lists, 3 session ids | violated: see findings |

Why the bounds are enough. `connect_device` refuses a second socket of a device as
long as the first is registered or in its handshake, and a handler whose
registration is gone (its loop ended, or the device was revoked) has only to clean
up after itself, which touches the maps only where they still name it. A device that
was revoked takes no further socket. So the overlap of two sockets is that of
one socket with itself, coming back at any point. Two consoles give every race
between a starter and another one, a third one a connection that meets the limit
while the others hold theirs. Three session ids are needed: a console gets to keep
a stale row by a session that ended, loses the device to another console's session,
and opens the third one after the revocation ended the second. `MaxConnections`
binds; `MaxConsoles` does not, and the theorem `ConnectionSafety` covers it for every
value. With one device the quota cannot be reached, so `OwnerQuota` is only proved
(`QuotaSafety`), as is `EndIsRecordedOnce` (`EndsAreFinal`). No counter needs a bound:
session ids and consoles run out instead, which ends no behaviour, since a device
may always come and go. No symmetry is used; the view of the runs `sessions` and
`liveness` leaves out the reason a session ended for, on which no step and none of
their properties depends.

Fairness. A write to a WebSocket is cut off after five seconds
(`WEBSOCKET_SEND_TIMEOUT_SECONDS`), a console's `receive()` after one
(`AUTH_RECHECK_SECONDS`), and both then run on: so a handshake ends, a rejected
device's close returns, a session start is delivered or not, a revoked login is
noticed, and a revocation goes on after its notifications. Each of those is weakly
fair. Nothing is assumed of people, networks or devices: no message has to arrive
and no socket has to disconnect. That the handler of a replaced socket notices is
assumed, because its socket is closed by whoever removed it.

### Findings

- `revoked_status`: a device's handler that still holds its row from before the
  revocation writes status `offline` over `revoked` when its socket closes while
  `revoke_device` is telling the consoles; a late undelivered start does the same
  with `online`. `revoked_at` is not touched, so the device stays locked out; its
  status is wrong in lists.
- `stale_row`: a console with its device list, whose last pass committed, rechecks a
  row from before the revocation. While `revoke_device` awaits its notifications the
  device is still connected, so the session is accepted and bound. Then
  `disconnect_device_if_present` drops its route without its row, and the end of the
  console ends only what has a route: the row stays `in_session`, and in the owner's
  quota, until the next start of the server. `Server/docs/device-authentication.md:35`
  says that a start rechecks device access, and
  `Server/tests/test_proxy_review.py:63` that no session survives the end of its
  console. `SessionsAreRouted` and `OnlyStaleRowsOpenRevoked` say what holds all the
  same: only a revoked device is left so, and only by a console that lists.

### Proofs

`RemoteSessions_proofs` proves, from `ConstantsAssumption` (who belongs to whom,
limits positive) and, for the quota, `FinitenessAssumption`:

- `TypeCorrect`: `TypeOK` is invariant.
- `SessionSafety`: `OneSessionPerDevice`, `RoutesAreLiveSessions`,
  `PresenceMatchesConnection`, for every `Listing`. None of them is inductive: that
  a route is that of registered ends needs that the handlers agree with the maps
  (`HandlersMatchMaps`), a session start needs that its console is registered
  while it receives, and the removal of a connection that its routes go with it.
  `SessionInv` is their conjunction with `TypeOK`; lemmas show that ending
  sessions (`EndingKeepsRoutes`, `EndingKeepsPresence`), cleaning up either end and
  doing neither keep it, and one lemma per kind of step puts them together.
- `RoutedSafety`: `SessionsAreRouted` and `OnlyStaleRowsOpenRevoked`, for every
  `Listing`. `RoutedInv` adds that a console which does not list holds no rows
  between messages, so that the device its start reads is the one in the database.
- `QuotaSafety`: `OwnerQuota`. A step adds at most one session to an owner's, and
  only when there were fewer than the quota (`RowStep`).

`RemoteLease_proofs` goes on from there:

- `EndsAreFinal`: `EndIsRecordedOnce`, what an end recorded is rewritten by no step
  but the failed delivery of that session's own start, which may come after another
  end of it. `RowChange` reduces every step to the four ways in which rows and
  revocations change together; three start from an unused row or end rows that were
  in progress, the fourth is that failed delivery.
- `SessionsImplementLease`: `ImplementsLease`, for every `Listing`. A start is a grant
  because `SessionInv` makes its device free and the quota holds (`GrantFinds`); every
  other change ends leases (`LeaseChange`). `LeaseInv` adds to `SessionInv` that a
  row names the owner of its device and that a start on its way has a row
  (`OwnersMatch`, `StartsAreRows`), `RoutedInv` that whoever is granted a device
  that was revoked lists.
- `RevocationCutsOff`: once the revocation of a device was answered, no handler that
  takes its messages is registered, for every `Listing`; a connection whose
  handshake was under way when it was revoked is only rejected. The invariant
  (`SocketsMatchMaps`) follows each registered socket through the two halves of
  `revoke_device`. It is the safety half of `RevokedDeviceLeaves`.
- `ConnectionSafety`: `ConnectionBounds`. A handshake is counted before its
  connection replaces it, so the inductive form also says that each socket in a
  handshake holds a reservation (`ReservationsHeld`).

TLC checks `SessionInv` in `liveness`, and what `RoutedInv` adds to it, but for the
part about held rows, in `sessions`.

## EmailOutbox

Account emails wait in the table `email_jobs` until the one worker of the process
sends them. The module has the jobs, the worker, the reset and verification tokens
the emails carry, and of each account its address, whether it is verified, and the
address it is changing to.

| Model | Code |
| --- | --- |
| `RequestReset`, `Register`, `ChangeEmail`, `VerifyEmail`, `ResetPassword`, `ChangePassword`, `ChangeMfa` | one request each, which is one transaction; `ChangeEmail` is also the repetition of a verification |
| `Enqueue`, `Notify` | `enqueue`, which refuses when the queue is full; `notification`, which then drops the message and lets the change go through |
| `DiscardJob`, `PickReset`, `PickJob` | the first transaction of `process_one`, by its outcome |
| `SendReturns` | `send`, outside any transaction: an error does not tell whether the message was accepted |
| `FinishJob`, `FinishFails` | the second transaction, and its failure, which `run` logs |
| `Restart` | a stop of the process at any point, and `start`; the encryption key may be another one |
| `queue`, `BecomesDue` | `order_by(next_attempt_at)` among pending jobs whose time has come: a new job is due at once, a retry a minute or five later |
| `Expire` | the time in `expires_at` has come |
| `Known` | the database keeps hashes, so a token is presented only after it was mailed |

Times are abstracted to that order, payloads to the recipient, the token and the
key they were encrypted with. Left out: a server without email, deactivated
accounts (nothing deactivates one), the minute between two verifications, rate
limits. `unrecorded`, `deliveries` and `mailed` are history variables.

A job whose payload was encrypted with another key makes `process_one` raise
before the attempt is counted, so it is found again on every pass and nothing
behind it is sent. `Server/README.md` asks to keep the key; the model has it
(`Picks`) and `EveryJobEnds` excepts it. A job whose outcome could not be written
down stays in `sending`, and takes its place in the queue, until the next start:
the other exception.

| Run | Instance | Shows |
| --- | --- | --- |
| `outbox` | 1 account, 2 addresses, 3 jobs, 3 tokens, room for 2 open jobs, no restart | one link per job, one live token of each kind, no working reset link outside the owner's mailbox, the bound of the queue |
| `outbox_liveness` | 1 account, 1 address, 2 jobs, 2 tokens, 2 keys, room for 2, 1 restart, `FairSpec` | attempts bounded by three also across a restart, true outcomes; every job ends, with the two exceptions; `OutboxInv`, the invariant of the proofs |

Bounds. Three jobs are a verification, a reset and a change of address, the
shortest way for a mailed link to outlive the address it was sent to; they are also
two recovery mails of a verified account. Room for two lets the second of these be
sent while the first waits for its retry, which must then be discarded, and three
jobs still make requests refused and notifications dropped. A restart with three
jobs is beyond TLC; with two it meets every status a job can be in, and the theorems
cover the rest. Each token is issued together with or for a job of its own, so as
many tokens as jobs never run out before the jobs do. Job ids do run out, which the
runs allow for (`CHECK_DEADLOCK FALSE`); they are the only bound besides
`MaxRestarts`.

Fairness. `run` loops for ever and survives what a pass raises, so a pass is
made, its exchange ends at the socket's timeout of ten seconds, and its second
transaction ends one way or the other; time passes, so a retry becomes due. No
request is assumed.

`EmailOutbox_proofs` proves from `OutboxAssumption` that `OutboxInv` is inductive.
The properties alone are not: that a retry repeats its message needs that an
open job carries what was mailed for it (`MailInv`); that attempts stay within
three needs that every queued job is pending, once (`QueueInv`), and that the
attempt in progress is counted before it delivers (`CountInv`); that a mailed
reset link goes to the owner's address needs the same of links about to be mailed
(`CarryInv`), and that tokens in jobs are issued. Requests are shown to add new
jobs (`Adds`) and to be harmless to links on their way (`Harmless`); the end of an
attempt, a lost outcome and the repair at start are one lemma
(`SettledKeepsInv`). `OutboxSafety` and `ResetSafety` follow.

`QueueIsBounded` proves `QueueBound` by counting: the end of an attempt, a lost
outcome and the repair at start move jobs among the open ones or end them; a
request opens one job where `enqueue` found room, or as many notifications as there
is room for. So no order of requests, retries and restarts passes the limit.

## Accounts and LoginSessions

`LoginSessions` says what one transaction of `SessionManager` and `_issue_tokens`
does to the rows of an account: create a login and revoke the oldest beyond the
limit, rotate a refresh token or answer a reused one by revoking its login, revoke
one or all. Logins are numbered in the order of `(created_at, id)`. `Accounts` has
the transactions.

Every handler that changes an account first takes the lock of the user's row and
ends with one commit, so what follows the lock is one step. What was read before
the wait is kept apart, since it may be stale when the lock comes:

| Model | Code |
| --- | --- |
| `ownerReads` | logins and user rows that `get_current_user` has returned to requests that still wait; a set, since any number may wait |
| `LoginFails`, `LoginOpens`, `LoginChallenged`, `AnswerChallenge`, `MissChallenge` | `login` and `verify_mfa`, by outcome |
| `Refresh`, `EndLogin` | `refresh`, and `logout` or `revoke_login` |
| `ConfirmationFails`, `ChangePassword`, `ChangeEmail`, `DisableMfa`, `RegenerateCodes` | requests that confirm the owner's identity (`Confirmed`) |
| `Setup`, `SetupSignedOut`, `ConfirmSetup` | the TOTP setup, whose login is validated again under the lock |
| `IssueReset`, `ResetPassword` | a link of the email worker and its use, a compare-and-set |
| `lock` | `locked_until`: null, ahead of now, or behind it and not yet looked at |
| `Window` | the three steps in which `factor` accepts a code, less those at or before `totp_last_step` |

Passwords, secrets and batches of codes are numbers, a code is a secret and a
30-second step. Tokens are presented at any time, repeatedly or never, which covers
lost answers and retries; deadlines pass at any time. A request that changes no
modelled row is left out. `origin`, `spent`, `redeemed`, `followed` and `reused` are
history variables.

`LoginLineage` is the abstract login: a chain of tokens, each the only one that
continues it, that ends once (`ImplementsLineage`).

| Run | Instance | Shows |
| --- | --- | --- |
| `accounts` | 3 logins of which 2 may be live, 1 challenge with 2 guesses, 2 reset links, lockout after 2 failures, batches of 1 recovery code, 1 refresh, 3 changes, 1 step of the clock | one usable token per login and no more logins than allowed; what was issued for an older password or factor is dead; codes and links work once; a setup was begun with the password and is turned on by a live login; the lockout holds; refinement of `LoginLineage` |

Bounds. Three logins with room for two make the limit revoke one that another
request was authenticated with. Two links are the least for one to replace
another; two failures reach a lockout both from a login and from a challenge. Three
changes are a setup, its confirmation with the codes it makes, and one more: a
password, a batch or another setup. With one step of the clock a code can be of the
step before, the present one and the next. `MaxRefreshes` of one is a rotation and
then the reuse of the token it replaced. The instance can run out of all of them,
so the run allows a stop. No property needs fairness.

`Accounts_proofs` proves from `LoginAssumption` and `AccountAssumption` that
`AccountInv` is inductive. Beside its properties it says that what was read of a
login that is still live is what holds (`ReadsAreCurrent`: whoever changes the
factor revokes all logins), that accepted codes lie at or before `totp_last_step`
and never belong to a secret still in setup (`CodesBehind`, `SecretsInOrder`), that
one reset link is open (`OneOpenReset`), and that the usable token is the latest
(`TurnsCounted`). `LockoutsHold` and `EnablingIsLive` are read off single steps;
`AccountsImplementLineage` maps `CreateSession` to `Open`, a rotation to
`Continue`, every other change to `End`. `LoginsAreLimited` counts: a new login
revokes as many of the oldest as there are too many. `LoginsStayEnded` proves
`LoginsEndForGood`, which is what `RemoteSessions` takes for granted of `login`, and
`ChangesEndLogins` proves `ChangesSignOut`: the step that changes the password, the
second factor or the recovery codes leaves no login live, not even one whose
request is under way.

## ConsoleTabs

The tabs of one browser share a login through the record `mydesk.auth` in local
storage. The script of a tab runs from one await to the next in one step; tabs
interleave between them, and a tab can be closed at any point, which loses what it
was doing but not what it has asked of the server.

| Model | Code |
| --- | --- |
| `stored` | the record: the token, and `refreshPending`, written before a refresh is sent |
| `token`, `signing` | `state.token` of a tab; its login requests, current or overtaken by another (`authEpoch`) |
| `waiting`, `holder`, `rotation`, `current` | `refreshAuth`: a tab that waits for the Web Lock, the one that has it, how far `rotate` is, whether its epoch is still the one it began with |
| `news` | tabs with a storage event to handle |
| `late` | refreshes whose tab was closed or timed out, which the server may still handle |
| `revoking`, `discarded` | tokens that `logout` or a discarded answer revokes |
| `ServerAnswers`, `LateRefresh`, `Revocation` | the server, by the operators of `LoginSessions` |

An access token and the refresh token beside it are one token. Left out: device
authentication, the MFA form, pages, the console's socket beyond its refusal, and
browsers without Web Locks, in which the console does not refresh.

| Run | Instance | Shows |
| --- | --- | --- |
| `tabs` | 2 tabs, 2 logins, 2 tokens per login | a refresh token is never presented twice unless its login is being revoked anyway; tabs act for one login; a login that was removed does not come back through an answer on its way |

Two tabs are every pair of one that refreshes and one that signs in, signs out or
waits for the lock; two logins are one and its successor; two tokens a rotation and
its result. Logins run out, so the run allows a stop.

`ConsoleTabs_proofs` proves the three properties for any number of tabs and logins,
from `TabsInv`. `NoReplay` needs to know of every place from which a token can be
presented (a request in flight, one that nobody waits for, an answer, the record)
that what is there is still good for a refresh (`Fine`) and is in no other such
place: that is `TokensInv`, and why the record is marked before a refresh is sent.

## WebSocketRelay

Several server processes tell each other through Redis which devices and sessions
they have, and pass on messages for devices that are connected elsewhere.

| Model | Code |
| --- | --- |
| `queue`, `Broadcast` | the relay's queue and `_enqueue`; it counts the packet that `_write` is publishing, which the code has already taken out, so a queue of the model is full one packet earlier |
| `inbox`, `Publish` | the subscription of each process: every reader there is gets a packet, in one order |
| `healthy`, `Failed` | `healthy`, and `_failed`, which is for good and answers all waiting requests with no |
| `ConnectDevice`, `DisconnectDevice`, `BindSession`, `UnbindSession` | the manager's operations with their announcements; an end is announced also by a process that has nothing to end, as one that handles a revocation of a device connected elsewhere (`HereOrAway`) |
| `ApplyAnnouncement`, `AnswerSnapshot`, `TakeMessage`, `TakeReply` | `_read` and `handle_relay_message` |
| `handling`, `Delivers`, `DeliveryFails` | the reader while it awaits a delivery, which stops it from reading |
| `WriterFails`, `ReaderFails` | a failed publication, a broken subscription, a handler that took too long |
| `Start`, `Stop` | a process that starts, with its snapshot request, and that stops at any point |

Messages for consoles take the same path as those for devices; announcements of
consoles are ignored by their receivers and left out.

| Run | Instance | Shows |
| --- | --- | --- |
| `relay` | 2 processes, 1 device, 1 session, 1 message, queues of 2, 1 unread packet, 3 starts, 1 session, message or end announced in vain | a message counts as delivered only if it was; healthy processes that have read everything agree on each other's devices |
| `relay_echo` | the same without messages | violated: a snapshot announces sessions that the process learned from others |

Bounds. `QueueSize` of two is the least in which a snapshot overflows the queue.
`MaxUnread`, `MaxStarts` and `MaxWork` cap what is on its way, starts, and what is
done otherwise: sessions bound, messages sent and ends announced in vain, one of them
in the run; three starts are both processes and a restart of one.
`ViewsAgree` is about two processes, and with three it is false. `remote_devices`
keeps no origin (`websocket_manager.py`, `handle_relay_message`): when a device
moves from one process to another, or is revoked at a third, others may hear of the
disconnection last and forget a device that is connected. Nothing is assumed fair: a process may
stop reading for good.

Finding. `relay_echo`: `AnswerSnapshot` announces every key of `session_routes`,
and those include routes learned from peers. `Server/docs/websocket-relay.md:19`
says "Received messages are not published again." A process that restarted, and
ended its sessions as interrupted, is told of them by the others.

`WebSocketRelay_proofs` proves `TypeOK`, with the bound of the queue and that a
failed relay has nobody waiting, and `ConfirmedIsDelivered`, for any processes,
queues and messages; its invariant says that an acknowledgement on its way is of a
message that was delivered (`PacketsInv`).

`RelayViews_proofs` proves that a process's view of another's devices is behind by
what it has still to read, and by nothing else. `After` is the set of devices known
when given packets were read in order, `Learns(i, j)` what i will know when it has
read its inbox and then what j has still to write.

- `QueuesAreTrue`: `OriginInv`, a process that stopped holds no devices, and who
  knows nothing and reads what a healthy process has still to write believes only in
  devices that are connected to it. It says nothing of what readers have missed.
- `ViewOfDevice`: for any number of processes, as long as no third one is connected to
  a device or has anything queued about it (`Between`, which excludes a revocation
  handled by a third): the device is known to i when everything is read, if it is
  connected to j, or i's request for a snapshot is still on its way (`Asked`); and
  i does not believe
  in vain in a device of a j that was started once. The exception is the code's: a
  process that stops without a word leaves its devices in the others' views.
  `PairInv` says so of each device, and is inductive with `OriginInv`: a
  packet that moves from queue to inbox, or from inbox to view, changes neither
  what is learnt nor what is true.
- `TwoProcessesAgree`: `ViewsAgree`, with at most two processes, any devices,
  sessions, messages and size of the queue. The hypothesis is needed, see the
  bounds above.

## DeviceAgent

The Android agent runs on the main thread, so an action is one callback: of the
user, the system, a timer, or an event that the reader thread of a socket posted.
A callback reads `elapsedRealtime` more than once: where it checks
`shouldConnect`, in `connect` and in `scheduleDeadline`. An action therefore picks the
read before which a deadline with one tick left passes (`Passes`, `At`), or none.
Preferences are committed when they are written and survive; the rest is lost with
the process.

| Model | Code |
| --- | --- |
| `prefs` | `DeviceConfigStore`: pairing, continuous mode, pause, refused credentials, wake key, consumed nonces |
| `agent` | `ConnectionPolicy` (mode, active, deadline), `AgentConnectionManager` (client, session, timer, retry) and the client's current socket |
| `Refreshed`, `Woken`, `Lost`, `SessionStarted`, `SessionEnded`, `Stopped` | the manager's methods, as functions of that state |
| `phase`, `inbox` | sockets, which may still post events after they were given up; the queue of the main thread |
| `HandleEvent` | `handleMessage` and `lost`, which take only events of the current socket |
| `Issue`, `ReceiveWake`, `ReceiveWakeEarly`, `pendingWake` | a signed command, its receipt with the service running, and without |
| `Attach`, `Detach`, `Interrupt`, `Pair`, `Pause`, `Clear`, `SetKeepConnected`, `ConnectManually`, `SaveWakeKey`, `Refresh` | the service's life and the user's actions |
| `Tick`, `ClockJump`, `TimerFires`, `RetryFires` | `elapsedRealtime` and the wall clock, the second of which may be set at any time; timers, which may fire late |
| `ProcessDies`, `DiesWaking` | a kill at any point, and between the commit of a nonce and the connection |

Times are what is left of them, in ticks. A signature holds for one device and its
key, or does not.

| Run | Instance | Shows |
| --- | --- | --- |
| `agent` | 1 command, 2 sockets, 2 sessions, 2 pairings, 1 change of the clock, a window of 2 ticks, grace, period and validity of 1, 1 event not handled, `FairSpec` | a command opens one window; one socket is open; an unpaired, paused or refused phone is quiet; a client that may connect has a timer due by its deadline, and always a timer and a socket or a retry unless its deadline passed within a callback (`late`); without a session a connection ends with its window, with the same exception |
| `agent_window` | 1 session, 1 pairing, a window of 1 tick, the clock not set, `LiveSpec` | violated: see the finding |

Bounds. Two sockets are one and its successor, two sessions an end of one that
meets the start of another, two pairings a command for a device the phone no longer
is. `MaxInbox` of one still lets an event of an old socket be handled after a new
one connected. An action that may connect needs a free socket: where there is none
the old ones end first. A window longer than the timer's period makes the timer
look at a deadline that is still ahead. `MaxNonces` does not bind with one command;
the theorem covers it.

Fairness: time passes (`Tick`), and the main thread gets to a timer that is due
(`TimerFires`); `Handler` timers do not count sleep, so they may fire late but do
fire while the phone is awake. Nothing is assumed of the network or the user.
`LiveSpec`, under which `agent_window` finds its violation, also assumes that the main
thread gets to retries and to posted events, so nothing that is pending saves the
client: only the network or the user could.

Finding. `agent_window`: the timer's callback finds the deadline ahead
(`AgentConnectionManager.kt:108`) and calls `scheduleDeadline`, which has removed the
timer and reads the clock again (line 101) when it has passed: its else branch
(line 110) posts no other. The client stays connected, on demand and without a
session, for as long as its socket stays up; `refresh` can do the same.
`Server/docs/wake-activation.md:95` says "Without a session, the agent closes the
socket and stops retrying at 14:13.", where the window ends.

`DeviceAgent_proofs` proves `AgentInv`, which is inductive, `OneSocket`,
`StoppedIsQuiet` and `ActivatesOnce` for any constants, with every read of the clock.
What `AgentInv` says of timers and retries excepts a client marked `late`. Each function of the manager
is shown to leave a state that fits the preferences (`Fits`) and to keep, close or
open one socket (`Becomes`); the parts about records, windows, the manager, the
network and waiting commands are then kept one by one. `ActivatesOnce` needs that a
command that was tried is remembered, has lapsed, or is for another device
(`Once`). `WindowsAreBounded` proves `NoWindowIsExtended`, the safety half of
`WindowEnds`: while the agent may connect and has no session, no command, lost
socket, retry or setting puts the deadline off (`Android/README.md:101` and
`Server/docs/wake-activation.md:82` say so); each function of the manager
keeps the deadline or clears it, apart from the two that open a window, which
look at `ShouldConnect` first.

What a reader of the agent may want to know, all of it in the model:

- a wall clock that is set back makes a command valid again whose nonce was purged
  when it had expired: `ActivatesOnce` excepts it. `Android/README.md:99` says "The
  same command can activate only once";
- after `onInterrupt` an agent in continuous mode stays disconnected until the
  next refresh;
- a command that comes after a deadline has passed and before its timer fired
  opens a new window over the same connection.

## Not modelled

- Presence publications: what watching consoles are told is advisory, nothing in
  the server reads it, and a console asks for the list again when it connects. A
  model adds a step to every handler of `RemoteSessions`, whose instances are at
  the limit of what TLC finishes.
- Pairing: its single use is one conditional `UPDATE`, so a model would assume what
  it is to show.
- Message budgets: sequential counters of one socket over a rolling second, which
  unit tests reach at their boundary.
- Shutdown: a stop of the process at any point is `Restart` in `RemoteSessions` and
  `EmailOutbox` and `Stop` in `WebSocketRelay`, which is weaker than a drain that
  completes.
- Device management beyond the wake message and the wake key: single statements on
  one row.
- Validators of frames and inputs, activity and audit, observability and
  configuration, pages, deployment, scripts, website: no state that a protocol
  depends on.
- SCRAM, TOTP, signatures, hashes: taken to be what their libraries make them.
- Databases that fail to commit, except in the email worker, which survives it. The
  routes of a connection are removed before its rows are ended, so a commit that
  fails leaves rows in progress without a route until the next start.
