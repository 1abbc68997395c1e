---------------------------- MODULE RemoteSessions ----------------------------
(***************************************************************************)
(* The life of remote-control sessions in the RemotePocket server: the     *)
(* WebSocket handlers of devices and consoles, the in-memory connection    *)
(* maps of WebSocketManager, the rows of the database they share, device   *)
(* revocation over HTTP, login revocation, and a restart of the process.   *)
(*                                                                         *)
(* The server is one asyncio worker: a handler runs without interruption   *)
(* from one await that may really suspend to the next, so one action is    *)
(* one such stretch, and the pc of a handler names the await it is         *)
(* suspended at.  A handler suspended at a send that only reports          *)
(* something (a reply, a notification) behaves as one that has not yet     *)
(* received its next message, so those awaits share the pc "receiving".    *)
(*                                                                         *)
(* Each handler has an SQLAlchemy session of its own, which keeps the rows *)
(* it has loaded (expire_on_commit=False) until a rollback that ends a     *)
(* transaction; after a commit the rollback at the top of the loop finds   *)
(* no transaction and expires nothing.  The rows a handler may still hold  *)
(* when it reads the database again are therefore state of the model:      *)
(* holds_device, holds_rows, and the rows of a suspended session start.    *)
(*                                                                         *)
(* A definition marked "Faulty" is used by no action: it is a plausible    *)
(* mistake in the definition after it, which some property must reject.    *)
(***************************************************************************)
EXTENDS Naturals, FiniteSets

CONSTANTS
    Devices,             \* rows of the devices table
    Sockets,             \* WebSockets that devices open
    Consoles,            \* console connection ids
    Sessions,            \* remote session ids
    Owners,              \* users
    SocketDevice,        \* the device a socket authenticates as
    DeviceOwner,         \* devices.owner_id
    ConsoleOwner,        \* the user a console authenticates as
    Listing,             \* consoles that asked for the device list: the handler
                         \* keeps the list, and with it the rows, for its lifetime
    MaxRemoteSessions,   \* settings.max_remote_sessions
    MaxConsoles,         \* settings.max_console_connections
    MaxConnections,      \* settings.max_websocket_connections
    None

ASSUME ConstantsAssumption ==
    /\ SocketDevice \in [Sockets -> Devices]
    /\ DeviceOwner \in [Devices -> Owners]
    /\ ConsoleOwner \in [Consoles -> Owners]
    /\ Listing \subseteq Consoles
    /\ MaxRemoteSessions \in Nat \ {0}
    /\ MaxConsoles \in Nat \ {0}
    /\ MaxConnections \in Nat \ {0}
    /\ None \notin Devices \cup Sockets \cup Consoles \cup Sessions

ASSUME FinitenessAssumption ==
    /\ IsFiniteSet(Devices)
    /\ IsFiniteSet(Consoles)
    /\ IsFiniteSet(Sessions)

VARIABLES
    \* the database
    revoked,              \* devices.revoked_at is set
    device_status,        \* devices.status
    sessions,             \* rows of the sessions table
    login,                \* the login session behind a console's token is live
    \* WebSocketManager
    connecting_devices,   \* handshakes in progress, by device
    device_connections,   \* device -> its registered socket, or None
    connecting_consoles,  \* console reservations
    console_connections,  \* registered consoles
    session_routes,       \* session ids with a route; the route's two ends are
                          \* the columns the row was inserted with
    \* handlers
    device_pc,            \* where the handler of a socket is suspended
    holds_device,         \* it holds its device's row loaded with revoked_at NULL
    console_pc,           \* where the handler of a console is suspended
    starting,             \* the session whose start a console waits to deliver
    holds_rows,           \* devices whose row it holds loaded with revoked_at NULL
    challenges,           \* devices with a pending challenge on the connection
    revoke_pc             \* where the revocation request of a device is

dbVars == <<revoked, device_status, sessions, login>>
managerVars == <<connecting_devices, device_connections, connecting_consoles,
                 console_connections, session_routes>>
socketVars == <<device_pc, holds_device>>
consoleVars == <<console_pc, starting, holds_rows, challenges>>
vars == <<dbVars, managerVars, socketVars, consoleVars, revoke_pc>>

-------------------------------------------------------------------------------
(* Types *)

DeviceStatus == {"offline", "online", "in_session", "revoked"}
EndReason == {"device_unavailable", "device_disconnected", "device_closed",
              "user_closed", "console_disconnected", "device_revoked",
              "server_restarted"}
Row == [status : {"unused", "in_session", "ended"},
        device : Devices \cup {None},
        console : Consoles \cup {None},
        reason : EndReason \cup {None}]
NoRow == [status |-> "unused", device |-> None, console |-> None, reason |-> None]

TypeOK ==
    /\ revoked \in [Devices -> BOOLEAN]
    /\ device_status \in [Devices -> DeviceStatus]
    /\ sessions \in [Sessions -> Row]
    /\ login \in [Consoles -> BOOLEAN]
    /\ connecting_devices \subseteq Devices
    /\ device_connections \in [Devices -> Sockets \cup {None}]
    /\ connecting_consoles \subseteq Consoles
    /\ console_connections \subseteq Consoles
    /\ session_routes \subseteq Sessions
    /\ device_pc \in [Sockets -> {"idle", "accepting", "rejecting", "receiving"}]
    /\ holds_device \in [Sockets -> BOOLEAN]
    /\ console_pc \in [Consoles -> {"new", "accepting", "receiving", "starting", "closed"}]
    /\ starting \in [Consoles -> Sessions \cup {None}]
    /\ holds_rows \in [Consoles -> SUBSET Devices]
    /\ challenges \in [Consoles -> SUBSET Devices]
    /\ revoke_pc \in [Devices -> {"none", "notifying", "done"}]

-------------------------------------------------------------------------------
(* Readings of the state *)

InSession(s) == sessions[s].status = "in_session"
Online(d) == device_connections[d] # None
SessionsOf(d) == {s \in Sessions : InSession(s) /\ sessions[s].device = d}
OwnerSessions(o) ==
    {s \in Sessions : InSession(s) /\ ConsoleOwner[sessions[s].console] = o}
OwnerConsoles(o) ==
    {c \in console_connections \cup connecting_consoles : ConsoleOwner[c] = o}

ConnectionCount ==
    Cardinality({d \in Devices : Online(d)}) + Cardinality(connecting_devices)
      + Cardinality(console_connections) + Cardinality(connecting_consoles)
\* Faulty: handshakes in progress are not counted.
CapacityWithoutHandshakes ==
    Cardinality({d \in Devices : Online(d)}) + Cardinality(console_connections)
      < MaxConnections
HasConnectionCapacity == ConnectionCount < MaxConnections

\* The routes of a device and of a console.
DeviceRoutes(d) == {s \in session_routes : sessions[s].device = d}
ConsoleRoutes(c) == {s \in session_routes : sessions[s].console = c}

\* A device's revoked_at as a console handler reads it: NULL if it still holds the
\* row from before the revocation.
SeesLive(c, d) == d \in holds_rows[c] \/ ~revoked[d]

\* The rows a console's handler holds when it has committed after loading d's row:
\* only a row of the kept list survives the handler's frame.
HoldsAfterCommit(c, ds) ==
    IF c \in Listing THEN holds_rows[c] \cup ds ELSE {}

-------------------------------------------------------------------------------
(* _end_sessions up to its commit and the removal of the routes.  ids are  *)
(* the sessions it ends, live the devices whose row it reads as not        *)
(* revoked, connected the devices online when it runs.                     *)

EndedRows(ids, why) ==
    [s \in Sessions |->
        IF s \in ids THEN [sessions[s] EXCEPT !.status = "ended", !.reason = why]
                     ELSE sessions[s]]

\* Faulty: the device is taken to be still connected.
StatusAfterEndOnline(ids, live, connected) ==
    [d \in Devices |->
        IF d \in live /\ \E s \in ids : sessions[s].device = d
        THEN "online" ELSE device_status[d]]
StatusAfterEnd(ids, live, connected) ==
    [d \in Devices |->
        IF d \in live /\ \E s \in ids : sessions[s].device = d
        THEN IF d \in connected THEN "online" ELSE "offline"
        ELSE device_status[d]]

\* Faulty: the routes are left to the disconnection of either end.
EndSessionsKeepingRoutes(ids, why, live) ==
    /\ sessions' = EndedRows(ids, why)
    /\ device_status' = StatusAfterEnd(ids, live, {d \in Devices : Online(d)})
    /\ UNCHANGED session_routes
EndSessions(ids, why, live) ==
    /\ sessions' = EndedRows(ids, why)
    /\ device_status' = StatusAfterEnd(ids, live, {d \in Devices : Online(d)})
    /\ session_routes' = session_routes \ ids

-------------------------------------------------------------------------------
(* The device side: _serve_device *)

\* A socket with valid credentials reserves its device's handshake.
DeviceConnect(k) ==
    LET d == SocketDevice[k] IN
    /\ device_pc[k] = "idle"
    /\ ~revoked[d]
    /\ ~Online(d)
    /\ d \notin connecting_devices
    /\ HasConnectionCapacity
    /\ connecting_devices' = connecting_devices \cup {d}
    /\ device_pc' = [device_pc EXCEPT ![k] = "accepting"]
    /\ UNCHANGED <<dbVars, device_connections, connecting_consoles,
                   console_connections, session_routes, holds_device,
                   consoleVars, revoke_pc>>

\* accept() failed or timed out.
DeviceAcceptFails(k) ==
    /\ device_pc[k] = "accepting"
    /\ connecting_devices' = connecting_devices \ {SocketDevice[k]}
    /\ device_pc' = [device_pc EXCEPT ![k] = "idle"]
    /\ UNCHANGED <<dbVars, device_connections, connecting_consoles,
                   console_connections, session_routes, holds_device,
                   consoleVars, revoke_pc>>

\* accept() returned: the socket is registered, the row refreshed, and the device
\* is either announced online or, revoked meanwhile, about to be closed.
DeviceAccepted(k) ==
    LET d == SocketDevice[k] IN
    /\ device_pc[k] = "accepting"
    /\ connecting_devices' = connecting_devices \ {d}
    /\ device_connections' = [device_connections EXCEPT ![d] = k]
    /\ \/ /\ revoked[d]
          /\ device_pc' = [device_pc EXCEPT ![k] = "rejecting"]
          /\ UNCHANGED <<device_status, holds_device>>
       \/ /\ ~revoked[d]
          /\ device_pc' = [device_pc EXCEPT ![k] = "receiving"]
          /\ device_status' = [device_status EXCEPT ![d] = "online"]
          /\ holds_device' = [holds_device EXCEPT ![k] = TRUE]
    /\ UNCHANGED <<revoked, sessions, login, connecting_consoles,
                   console_connections, session_routes, consoleVars, revoke_pc>>

\* Faulty: the routes are looked up after they were removed, so no row is ended.
CleanupDeviceRoutesFirst(k, live) ==
    LET d == SocketDevice[k] IN
    /\ device_connections' = [device_connections EXCEPT ![d] = None]
    /\ session_routes' = session_routes \ DeviceRoutes(d)
    /\ device_status' = IF live THEN [device_status EXCEPT ![d] = "offline"]
                                ELSE device_status
    /\ device_pc' = [device_pc EXCEPT ![k] = "idle"]
    /\ holds_device' = [holds_device EXCEPT ![k] = FALSE]
    /\ UNCHANGED <<revoked, sessions, login, connecting_devices, connecting_consoles,
                   console_connections, consoleVars, revoke_pc>>

\* _cleanup_device: the connection and its routes go, the sessions of those routes
\* end, and the device is offline unless the row at hand says it is revoked.
CleanupDevice(k, live) ==
    LET d == SocketDevice[k]
        ids == {s \in DeviceRoutes(d) : InSession(s)} IN
    /\ device_connections' = [device_connections EXCEPT ![d] = None]
    /\ session_routes' = session_routes \ DeviceRoutes(d)
    /\ sessions' = EndedRows(ids, "device_disconnected")
    /\ device_status' = IF live THEN [device_status EXCEPT ![d] = "offline"]
                                ELSE device_status
    /\ device_pc' = [device_pc EXCEPT ![k] = "idle"]
    /\ holds_device' = [holds_device EXCEPT ![k] = FALSE]
    /\ UNCHANGED <<revoked, login, connecting_devices, connecting_consoles,
                   console_connections, consoleVars, revoke_pc>>

\* The handler ends and finds its socket no longer registered.
DeviceGone(k) ==
    /\ device_pc' = [device_pc EXCEPT ![k] = "idle"]
    /\ holds_device' = [holds_device EXCEPT ![k] = FALSE]
    /\ UNCHANGED <<dbVars, managerVars, consoleVars, revoke_pc>>

Registered(k) == device_connections[SocketDevice[k]] = k

\* The close of a device found revoked after the handshake has returned.
DeviceRejected(k) ==
    /\ device_pc[k] = "rejecting"
    /\ \/ Registered(k) /\ CleanupDevice(k, FALSE)
       \/ ~Registered(k) /\ DeviceGone(k)

\* The socket closed, a reply to it failed, or a limit closed it.  The row in hand
\* decides whether the device is marked offline.
DeviceDisconnect(k) ==
    /\ device_pc[k] = "receiving"
    /\ \/ /\ Registered(k)
          /\ CleanupDevice(k, holds_device[k] \/ ~revoked[SocketDevice[k]])
       \/ ~Registered(k) /\ DeviceGone(k)

\* A control message.  The row is read again; a revoked device is closed with that
\* row in hand, so its status stays.  A handler that commits (hello, heartbeat,
\* local stop) keeps the row, any other one loses it at the next rollback.
DeviceMessage(k) ==
    LET d == SocketDevice[k] IN
    /\ device_pc[k] = "receiving"
    /\ \/ ~Registered(k) /\ DeviceGone(k)
       \/ Registered(k) /\ revoked[d] /\ CleanupDevice(k, FALSE)
       \/ /\ Registered(k) /\ ~revoked[d]
          /\ \E committed \in BOOLEAN :
                holds_device' = [holds_device EXCEPT ![k] = committed]
          /\ UNCHANGED <<dbVars, managerVars, device_pc, consoleVars, revoke_pc>>

\* session_end from the device, for a session routed to it.
DeviceEndsSession(k, s) ==
    LET d == SocketDevice[k] IN
    /\ device_pc[k] = "receiving"
    /\ Registered(k)
    /\ ~revoked[d]
    /\ s \in DeviceRoutes(d)
    /\ InSession(s)
    /\ EndSessions({s}, "device_closed", {d})
    /\ holds_device' = [holds_device EXCEPT ![k] = TRUE]
    /\ UNCHANGED <<revoked, login, connecting_devices, device_connections,
                   connecting_consoles, console_connections, device_pc,
                   consoleVars, revoke_pc>>

-------------------------------------------------------------------------------
(* The console side: _serve_console *)

\* Authenticated, the connection is reserved before its handshake.
ConsoleConnect(c) ==
    /\ console_pc[c] = "new"
    /\ login[c]
    /\ Cardinality(OwnerConsoles(ConsoleOwner[c])) < MaxConsoles
    /\ HasConnectionCapacity
    /\ connecting_consoles' = connecting_consoles \cup {c}
    /\ console_pc' = [console_pc EXCEPT ![c] = "accepting"]
    /\ UNCHANGED <<dbVars, connecting_devices, device_connections,
                   console_connections, session_routes, socketVars, starting,
                   holds_rows, challenges, revoke_pc>>

ConsoleAccepted(c) ==
    /\ console_pc[c] = "accepting"
    /\ console_connections' = console_connections \cup {c}
    /\ connecting_consoles' = connecting_consoles \ {c}
    /\ console_pc' = [console_pc EXCEPT ![c] = "receiving"]
    /\ UNCHANGED <<dbVars, connecting_devices, device_connections, session_routes,
                   socketVars, starting, holds_rows, challenges, revoke_pc>>

\* The finally block: reservation, challenges, connection and routes go, and the
\* sessions of those routes end.
CleanupConsole(c) ==
    LET ids == {s \in ConsoleRoutes(c) : InSession(s)} IN
    /\ sessions' = EndedRows(ids, "console_disconnected")
    /\ device_status' = StatusAfterEnd(ids, {d \in Devices : SeesLive(c, d)},
                                       {d \in Devices : Online(d)})
    /\ session_routes' = session_routes \ ConsoleRoutes(c)
    /\ connecting_consoles' = connecting_consoles \ {c}
    /\ console_connections' = console_connections \ {c}
    /\ console_pc' = [console_pc EXCEPT ![c] = "closed"]
    /\ challenges' = [challenges EXCEPT ![c] = {}]
    /\ holds_rows' = [holds_rows EXCEPT ![c] = {}]
    /\ UNCHANGED <<revoked, login, connecting_devices, device_connections,
                   socketVars, starting, revoke_pc>>

\* accept() failed, the socket closed, a reply failed, or a limit closed it.
ConsoleDisconnect(c) ==
    /\ console_pc[c] \in {"accepting", "receiving"}
    /\ CleanupConsole(c)

\* Faulty: only a console without sessions is checked, the others being in use.
LoginCheckOfIdleConsoles(c) ==
    /\ console_pc[c] = "receiving"
    /\ ~login[c]
    /\ ConsoleRoutes(c) = {}
    /\ CleanupConsole(c)

\* Every accepted message and every second of silence authenticates again; the
\* handler of a login that is gone closes.
ConsoleLoginCheckFails(c) ==
    /\ console_pc[c] = "receiving"
    /\ ~login[c]
    /\ CleanupConsole(c)

\* A pass of the loop that commits nothing: silence, a heartbeat, a list, a message
\* refused.  The rollback that follows expires every row.
ConsolePass(c) ==
    /\ console_pc[c] = "receiving"
    /\ login[c]
    /\ holds_rows' = [holds_rows EXCEPT ![c] = {}]
    /\ UNCHANGED <<dbVars, managerVars, socketVars, console_pc, starting,
                   challenges, revoke_pc>>

\* session_challenge_request: expired challenges are pruned, and a device that the
\* console may open gets one if the store has room.
IssueChallenge(c, d) ==
    /\ console_pc[c] = "receiving"
    /\ login[c]
    /\ DeviceOwner[d] = ConsoleOwner[c]
    /\ SeesLive(c, d)
    /\ Online(d)
    /\ \E kept \in SUBSET challenges[c] :
          /\ d \in kept \/ Cardinality(kept) < MaxRemoteSessions
          /\ challenges' = [challenges EXCEPT ![c] = kept \cup {d}]
    /\ holds_rows' = [holds_rows EXCEPT ![c] = {}]
    /\ UNCHANGED <<dbVars, managerVars, socketVars, console_pc, starting, revoke_pc>>

QuotaLeft(c) == Cardinality(OwnerSessions(ConsoleOwner[c])) < MaxRemoteSessions

\* Faulty: presence is taken to imply that the device was not revoked.
MayOpenIfOnline(c, d) == DeviceOwner[d] = ConsoleOwner[c] /\ Online(d)
MayOpen(c, d) ==
    /\ DeviceOwner[d] = ConsoleOwner[c]
    /\ SeesLive(c, d)
    /\ Online(d)

\* The device is in no session.
\* Faulty: nothing is checked.
DeviceAssumedFree(d) == TRUE
DeviceFree(d) == SessionsOf(d) = {}

\* session_start_request refused.  The challenge is consumed in any case; a wrong
\* proof is audited and committed, every other refusal rolls back.
RefuseSession(c, d) ==
    /\ console_pc[c] = "receiving"
    /\ login[c]
    /\ challenges' = [challenges EXCEPT ![c] = @ \ {d}]
    /\ \/ /\ QuotaLeft(c) /\ MayOpen(c, d)
          /\ holds_rows' = [holds_rows EXCEPT ![c] = HoldsAfterCommit(c, {d})]
       \/ /\ \/ ~QuotaLeft(c)
             \/ ~MayOpen(c, d)
             \/ d \in challenges[c] /\ ~DeviceFree(d)
          /\ holds_rows' = [holds_rows EXCEPT ![c] = {}]
    /\ UNCHANGED <<dbVars, managerVars, socketVars, console_pc, starting, revoke_pc>>

\* session_start_request accepted with a valid proof: under the owner's lock the
\* login, the quota, the device and its presence are checked and the row inserted;
\* the route is bound, and session_start is on its way to the device.  The id is a
\* fresh one; which one does not matter.
StartSession(c, d, s) ==
    /\ console_pc[c] = "receiving"
    /\ login[c]
    /\ d \in challenges[c]
    /\ QuotaLeft(c)
    /\ MayOpen(c, d)
    /\ DeviceFree(d)
    /\ sessions[s].status = "unused"
    /\ s = CHOOSE t \in Sessions : sessions[t].status = "unused"
    /\ sessions' = [sessions EXCEPT ![s] =
                       [status |-> "in_session", device |-> d, console |-> c, reason |-> None]]
    /\ device_status' = [device_status EXCEPT ![d] = "in_session"]
    /\ session_routes' = session_routes \cup {s}
    /\ challenges' = [challenges EXCEPT ![c] = @ \ {d}]
    /\ holds_rows' = [holds_rows EXCEPT ![c] = HoldsAfterCommit(c, {d})]
    /\ starting' = [starting EXCEPT ![c] = s]
    /\ console_pc' = [console_pc EXCEPT ![c] = "starting"]
    /\ UNCHANGED <<revoked, login, connecting_devices, device_connections,
                   connecting_consoles, console_connections, socketVars, revoke_pc>>

\* send_to_device returned True.
SessionDelivered(c) ==
    /\ console_pc[c] = "starting"
    /\ console_pc' = [console_pc EXCEPT ![c] = "receiving"]
    /\ starting' = [starting EXCEPT ![c] = None]
    /\ UNCHANGED <<dbVars, managerVars, socketVars, holds_rows, challenges, revoke_pc>>

\* send_to_device failed or timed out: the handler ends the session from the rows it
\* wrote before the send, in session and not revoked, whatever happened since.
SessionUndelivered(c) ==
    LET s == starting[c] IN
    /\ console_pc[c] = "starting"
    /\ EndSessions({s}, "device_unavailable", {sessions[s].device})
    /\ console_pc' = [console_pc EXCEPT ![c] = "receiving"]
    /\ starting' = [starting EXCEPT ![c] = None]
    /\ UNCHANGED <<revoked, login, connecting_devices, device_connections,
                   connecting_consoles, console_connections, socketVars,
                   holds_rows, challenges, revoke_pc>>

\* session_end from the console that holds the session.
ConsoleEndsSession(c, s) ==
    LET live == {d \in Devices : d = sessions[s].device /\ SeesLive(c, d)} IN
    /\ console_pc[c] = "receiving"
    /\ login[c]
    /\ InSession(s)
    /\ sessions[s].console = c
    /\ EndSessions({s}, "user_closed", live)
    /\ holds_rows' = [holds_rows EXCEPT ![c] = HoldsAfterCommit(c, live)]
    /\ UNCHANGED <<revoked, login, connecting_devices, device_connections,
                   connecting_consoles, console_connections, socketVars,
                   console_pc, starting, challenges, revoke_pc>>

-------------------------------------------------------------------------------
(* HTTP requests and the process *)

\* revoke_device up to its first send: the first request to claim the row revokes
\* it, ends the device's sessions and removes their routes; with no session to
\* report it goes on to drop the connection without a pause.
RevokeDevice(d) ==
    LET ids == SessionsOf(d) IN
    /\ ~revoked[d]
    /\ revoked' = [revoked EXCEPT ![d] = TRUE]
    /\ device_status' = [device_status EXCEPT ![d] = "revoked"]
    /\ sessions' = EndedRows(ids, "device_revoked")
    /\ \/ /\ ids # {}
          /\ session_routes' = session_routes \ ids
          /\ revoke_pc' = [revoke_pc EXCEPT ![d] = "notifying"]
          /\ UNCHANGED device_connections
       \/ /\ ids = {}
          /\ session_routes' = session_routes \ DeviceRoutes(d)
          /\ revoke_pc' = [revoke_pc EXCEPT ![d] = "done"]
          /\ device_connections' = [device_connections EXCEPT ![d] = None]
    /\ UNCHANGED <<login, connecting_devices, connecting_consoles,
                   console_connections, socketVars, consoleVars>>

\* Faulty: the sessions were ended, so the connection is left to its next message.
RevokeKeepsConnection(d) ==
    /\ revoke_pc[d] = "notifying"
    /\ revoke_pc' = [revoke_pc EXCEPT ![d] = "done"]
    /\ session_routes' = session_routes \ DeviceRoutes(d)
    /\ UNCHANGED <<dbVars, connecting_devices, device_connections,
                   connecting_consoles, console_connections, socketVars, consoleVars>>

\* The consoles are told; disconnect_device_if_present drops the connection and
\* every route of the device, and leaves the rows alone.
RevokeDisconnects(d) ==
    /\ revoke_pc[d] = "notifying"
    /\ revoke_pc' = [revoke_pc EXCEPT ![d] = "done"]
    /\ device_connections' = [device_connections EXCEPT ![d] = None]
    /\ session_routes' = session_routes \ DeviceRoutes(d)
    /\ UNCHANGED <<dbVars, connecting_devices, connecting_consoles,
                   console_connections, socketVars, consoleVars>>

\* Logout, a password change, reuse of a refresh token: a login session is revoked.
RevokeLogin(c) ==
    /\ login[c]
    /\ login' = [login EXCEPT ![c] = FALSE]
    /\ UNCHANGED <<revoked, device_status, sessions, managerVars, socketVars,
                   consoleVars, revoke_pc>>

\* The process stops, with every handler and map it holds, and the next one repairs
\* the rows before it serves anything.
Restart ==
    /\ device_status' = [d \in Devices |->
                            IF revoked[d] THEN device_status[d] ELSE "offline"]
    /\ sessions' = EndedRows({s \in Sessions : InSession(s)}, "server_restarted")
    /\ connecting_devices' = {}
    /\ device_connections' = [d \in Devices |-> None]
    /\ connecting_consoles' = {}
    /\ console_connections' = {}
    /\ session_routes' = {}
    /\ device_pc' = [k \in Sockets |-> "idle"]
    /\ holds_device' = [k \in Sockets |-> FALSE]
    /\ console_pc' = [c \in Consoles |->
                         IF console_pc[c] = "new" THEN "new" ELSE "closed"]
    /\ starting' = [c \in Consoles |-> None]
    /\ holds_rows' = [c \in Consoles |-> {}]
    /\ challenges' = [c \in Consoles |-> {}]
    /\ revoke_pc' = [d \in Devices |-> IF revoked[d] THEN "done" ELSE "none"]
    /\ UNCHANGED <<revoked, login>>

-------------------------------------------------------------------------------
Init ==
    /\ revoked = [d \in Devices |-> FALSE]
    /\ device_status = [d \in Devices |-> "offline"]
    /\ sessions = [s \in Sessions |-> NoRow]
    /\ login = [c \in Consoles |-> TRUE]
    /\ connecting_devices = {}
    /\ device_connections = [d \in Devices |-> None]
    /\ connecting_consoles = {}
    /\ console_connections = {}
    /\ session_routes = {}
    /\ device_pc = [k \in Sockets |-> "idle"]
    /\ holds_device = [k \in Sockets |-> FALSE]
    /\ console_pc = [c \in Consoles |-> "new"]
    /\ starting = [c \in Consoles |-> None]
    /\ holds_rows = [c \in Consoles |-> {}]
    /\ challenges = [c \in Consoles |-> {}]
    /\ revoke_pc = [d \in Devices |-> "none"]

SocketStep(k) ==
    \/ DeviceConnect(k)
    \/ DeviceAcceptFails(k)
    \/ DeviceAccepted(k)
    \/ DeviceRejected(k)
    \/ DeviceDisconnect(k)
    \/ DeviceMessage(k)
    \/ \E s \in Sessions : DeviceEndsSession(k, s)

ConsoleStep(c) ==
    \/ ConsoleConnect(c)
    \/ ConsoleAccepted(c)
    \/ ConsoleDisconnect(c)
    \/ ConsoleLoginCheckFails(c)
    \/ ConsolePass(c)
    \/ \E d \in Devices : IssueChallenge(c, d)
    \/ \E d \in Devices : RefuseSession(c, d)
    \/ \E d \in Devices, s \in Sessions : StartSession(c, d, s)
    \/ SessionDelivered(c)
    \/ SessionUndelivered(c)
    \/ \E s \in Sessions : ConsoleEndsSession(c, s)

Next ==
    \/ \E k \in Sockets : SocketStep(k)
    \/ \E c \in Consoles : ConsoleStep(c)
    \/ \E d \in Devices : RevokeDevice(d) \/ RevokeDisconnects(d)
    \/ \E c \in Consoles : RevokeLogin(c)
    \/ Restart

Spec == Init /\ [][Next]_vars

-------------------------------------------------------------------------------
(* What makes it correct *)

\* A device is never controlled by two consoles at once: the "already active" check
\* of a session start, on whichever connection, sees every session in progress.
OneSessionPerDevice ==
    \A s, t \in Sessions :
        InSession(s) /\ InSession(t) /\ sessions[s].device = sessions[t].device => s = t

\* A route, which is all that screen frames and inputs are forwarded by, belongs to
\* a session in progress whose device and console are both registered: no end of a
\* session, from any side, leaves a route behind, and no connection goes without
\* the routes it carries.
RoutesAreLiveSessions ==
    \A s \in session_routes :
        /\ InSession(s)
        /\ Online(sessions[s].device)
        /\ sessions[s].console \in console_connections

\* A session in progress has its route, so it can still be ended by the loss of
\* either connection and does not hold the device and the quota until a restart.
\* The one exception, whatever rows the consoles have kept: a revoked device.
SessionsAreRouted ==
    \A s \in Sessions :
        InSession(s) => s \in session_routes \/ revoked[sessions[s].device]

\* A revoked device has no session in progress, from the commit of the revocation
\* on, although its socket is dropped only after the consoles have been told: but
\* for one that a console with a kept device list opened on its row from before.
OnlyStaleRowsOpenRevoked ==
    \A d \in Devices : revoked[d] =>
        \A s \in SessionsOf(d) : sessions[s].console \in Listing

\* Without exception, as the revocation is documented and the disconnection of a
\* console tested: no session in progress outlives its console's connection.
ClosedConsoleHoldsNoSession ==
    \A s \in Sessions : InSession(s) => console_pc[sessions[s].console] # "closed"

\* A device shows offline exactly when no socket of it is registered, whatever the
\* order of disconnections, reconnections and sessions ended meanwhile.
PresenceMatchesConnection ==
    \A d \in Devices : ~revoked[d] => (device_status[d] = "offline" <=> ~Online(d))

\* However many of an owner's consoles start sessions together, the quota holds.
OwnerQuota ==
    \A o \in Owners : Cardinality(OwnerSessions(o)) <= MaxRemoteSessions

\* Handshakes in progress count: neither limit is passed when they complete.
ConnectionBounds ==
    /\ ConnectionCount <= MaxConnections
    /\ \A o \in Owners : Cardinality(OwnerConsoles(o)) <= MaxConsoles

\* What the end of a session recorded is not rewritten by a later one, except by
\* the start of that session, whose failed delivery may still be pending.
EndIsRecordedOnce ==
    [][\A s \in Sessions :
          sessions[s].status = "ended" /\ sessions'[s] # sessions[s] =>
              \E c \in Consoles : starting[c] = s]_vars

\* The handlers agree with the maps: what makes the invariants above inductive.
HandlersMatchMaps ==
    /\ \A s \in Sessions :
          InSession(s) => sessions[s].device \in Devices /\ sessions[s].console \in Consoles
    /\ \A c \in Consoles :
          c \in console_connections <=> console_pc[c] \in {"receiving", "starting"}
    /\ \A k \in Sockets : device_pc[k] = "rejecting" => revoked[SocketDevice[k]]
    /\ \A d \in Devices : revoke_pc[d] = "notifying" => revoked[d]

\* Preserved by every step, whatever copies of rows the handlers hold.
SessionInv ==
    /\ TypeOK
    /\ HandlersMatchMaps
    /\ OneSessionPerDevice
    /\ RoutesAreLiveSessions
    /\ PresenceMatchesConnection

\* Preserved too: only a kept list outlives the message it was loaded for.
RoutedInv ==
    /\ SessionInv
    /\ SessionsAreRouted
    /\ OnlyStaleRowsOpenRevoked
    /\ \A c \in Consoles \ Listing : holds_rows[c] = {}

\* The status of a revoked device stays "revoked", as the revocation answered.
RevokedStatusStays == \A d \in Devices : revoked[d] => device_status[d] = "revoked"

-------------------------------------------------------------------------------
(* Progress.  Every write to a socket is cut off after five seconds, every  *)
(* console receive after one, and a revocation that was started runs on     *)
(* after its sends, so the handlers take the steps below.                   *)

Fairness ==
    /\ \A k \in Sockets :
          /\ WF_vars(DeviceAcceptFails(k) \/ DeviceAccepted(k))
          /\ WF_vars(DeviceRejected(k))
          /\ WF_vars(device_pc[k] = "receiving" /\ ~Registered(k) /\ DeviceGone(k))
    /\ \A c \in Consoles :
          /\ WF_vars(ConsoleAccepted(c) \/ (console_pc[c] = "accepting" /\ ConsoleDisconnect(c)))
          /\ WF_vars(ConsoleLoginCheckFails(c))
          /\ WF_vars(SessionDelivered(c) \/ SessionUndelivered(c))
    /\ \A d \in Devices : WF_vars(RevokeDisconnects(d))

FairSpec == Spec /\ Fairness

\* Once its login is revoked, a console loses its connection and the sessions it
\* holds, also when the revocation falls into a handshake or a session start; one
\* with a revoked device, which may have lost its route, is the exception.
RevokedLoginEnds ==
    \A c \in Consoles :
        ~login[c] ~>
            /\ console_pc[c] \in {"new", "closed"}
            /\ \A s \in Sessions : InSession(s) =>
                  sessions[s].console # c \/ revoked[sessions[s].device]

\* A revoked device ends up disconnected for good, also when the revocation falls
\* into its handshake.
RevokedDeviceLeaves ==
    \A d \in Devices :
        revoked[d] ~> [](~Online(d) /\ \A k \in Sockets :
                            SocketDevice[k] = d => device_pc[k] = "idle")

-------------------------------------------------------------------------------
(* The abstract view: the rows, without who holds which copy of them. *)

LeaseOf(s) ==
    CASE sessions[s].status = "unused" -> [state |-> "free"]
      [] InSession(s) -> [state |-> "granted", device |-> sessions[s].device,
                          console |-> sessions[s].console]
      [] OTHER -> [state |-> "ended"]

Lease == INSTANCE DeviceLease WITH
            lease <- [s \in Sessions |-> LeaseOf(s)],
            withdrawn <- {d \in Devices : revoked[d]},
            Late <- Listing

\* The handlers, whatever copies of the rows they act on, implement the exclusive
\* lease: every end, revocation and restart ends each session once.
ImplementsLease == Lease!LeaseSpec
=============================================================================
