------------------------- MODULE RemoteSessions_proofs -------------------------
(* What holds of RemoteSessions for every number of devices, sockets, consoles, *)
(* sessions and owners.                                                         *)
EXTENDS RemoteSessions, FiniteSetTheorems, TLAPS

USE DEF dbVars, managerVars, socketVars, consoleVars

\* A step of any actor keeps the maps, rows and program counters within their types.
LEMMA TypeInductive == TypeOK /\ [Next]_vars => TypeOK'
<1> SUFFICES ASSUME TypeOK, [Next]_vars PROVE TypeOK'
  OBVIOUS
<1> USE ConstantsAssumption DEF TypeOK, DeviceStatus
<1>1. ASSUME NEW ids, NEW why \in EndReason
      PROVE  EndedRows(ids, why) \in [Sessions -> Row]
  <2>1. ASSUME NEW r \in Row
        PROVE  [r EXCEPT !.status = "ended", !.reason = why] \in Row
    BY <2>1 DEF Row
  <2>2. QED
    BY <2>1 DEF EndedRows
<1>2. ASSUME NEW ids, NEW live, NEW connected
      PROVE  StatusAfterEnd(ids, live, connected) \in [Devices -> DeviceStatus]
  BY <1>2 DEF StatusAfterEnd
<1>3. ASSUME NEW k \in Sockets, NEW live \in BOOLEAN, CleanupDevice(k, live) PROVE TypeOK'
  BY <1>3, <1>1 DEF CleanupDevice, DeviceRoutes, EndReason
<1>4. ASSUME NEW k \in Sockets, DeviceGone(k) PROVE TypeOK'
  BY <1>4 DEF DeviceGone
<1>5. ASSUME NEW c \in Consoles, CleanupConsole(c) PROVE TypeOK'
  BY <1>5, <1>1, <1>2 DEF CleanupConsole, ConsoleRoutes, EndReason
<1>6. ASSUME NEW c \in Consoles, NEW ds \in SUBSET Devices
      PROVE  HoldsAfterCommit(c, ds) \in SUBSET Devices
  BY <1>6 DEF HoldsAfterCommit
<1>7. ASSUME NEW k \in Sockets, SocketStep(k) PROVE TypeOK'
  <2>1. CASE DeviceConnect(k)
    BY <2>1 DEF DeviceConnect
  <2>2. CASE DeviceAcceptFails(k)
    BY <2>2 DEF DeviceAcceptFails
  <2>3. CASE DeviceAccepted(k)
    <3>1. device_connections' \in [Devices -> Sockets \cup {None}]
      BY <2>3 DEF DeviceAccepted
    <3>2. /\ device_pc' \in [Sockets -> {"idle", "accepting", "rejecting", "receiving"}]
          /\ device_status' \in [Devices -> DeviceStatus]
          /\ holds_device' \in [Sockets -> BOOLEAN]
      <4>1. CASE revoked[SocketDevice[k]]
        BY <2>3, <4>1 DEF DeviceAccepted
      <4>2. CASE ~revoked[SocketDevice[k]]
        <5>1. /\ device_pc' = [device_pc EXCEPT ![k] = "receiving"]
              /\ device_status' = [device_status EXCEPT ![SocketDevice[k]] = "online"]
              /\ holds_device' = [holds_device EXCEPT ![k] = TRUE]
          BY <2>3, <4>2 DEF DeviceAccepted
        <5>2. QED
          BY <5>1
      <4>3. QED
        BY <4>1, <4>2
    <3>3. QED
      BY <2>3, <3>1, <3>2 DEF DeviceAccepted
  <2>4. CASE DeviceRejected(k)
    BY <2>4, <1>3, <1>4 DEF DeviceRejected
  <2>5. CASE DeviceDisconnect(k)
    BY <2>5, <1>3, <1>4 DEF DeviceDisconnect
  <2>6. CASE DeviceMessage(k)
    BY <2>6, <1>3, <1>4 DEF DeviceMessage
  <2>7. ASSUME NEW s \in Sessions, DeviceEndsSession(k, s) PROVE TypeOK'
    BY <2>7, <1>1, <1>2 DEF DeviceEndsSession, EndSessions, EndReason
  <2>8. QED
    BY <1>7, <2>1, <2>2, <2>3, <2>4, <2>5, <2>6, <2>7 DEF SocketStep
<1>8. ASSUME NEW c \in Consoles, ConsoleStep(c) PROVE TypeOK'
  <2>1. CASE ConsoleConnect(c)
    BY <2>1 DEF ConsoleConnect
  <2>2. CASE ConsoleAccepted(c)
    BY <2>2 DEF ConsoleAccepted
  <2>3. CASE ConsoleDisconnect(c) \/ ConsoleLoginCheckFails(c)
    BY <2>3, <1>5 DEF ConsoleDisconnect, ConsoleLoginCheckFails
  <2>4. CASE ConsolePass(c)
    BY <2>4 DEF ConsolePass
  <2>5. ASSUME NEW d \in Devices, IssueChallenge(c, d) PROVE TypeOK'
    BY <2>5 DEF IssueChallenge
  <2>6. ASSUME NEW d \in Devices, RefuseSession(c, d) PROVE TypeOK'
    BY <2>6, <1>6 DEF RefuseSession
  <2>7. ASSUME NEW d \in Devices, NEW s \in Sessions, StartSession(c, d, s) PROVE TypeOK'
    BY <2>7, <1>6 DEF StartSession, Row
  <2>8. CASE SessionDelivered(c)
    BY <2>8 DEF SessionDelivered
  <2>9. CASE SessionUndelivered(c)
    BY <2>9, <1>1, <1>2 DEF SessionUndelivered, EndSessions, EndReason
  <2>10. ASSUME NEW s \in Sessions, ConsoleEndsSession(c, s) PROVE TypeOK'
    BY <2>10, <1>1, <1>2, <1>6 DEF ConsoleEndsSession, EndSessions, EndReason
  <2>11. QED
    BY <1>8, <2>1, <2>2, <2>3, <2>4, <2>5, <2>6, <2>7, <2>8, <2>9, <2>10 DEF ConsoleStep
<1>9. ASSUME NEW d \in Devices, RevokeDevice(d) PROVE TypeOK'
  BY <1>9, <1>1 DEF RevokeDevice, SessionsOf, DeviceRoutes, EndReason
<1>10. ASSUME NEW d \in Devices, RevokeDisconnects(d) PROVE TypeOK'
  BY <1>10 DEF RevokeDisconnects, DeviceRoutes
<1>11. ASSUME NEW c \in Consoles, RevokeLogin(c) PROVE TypeOK'
  BY <1>11 DEF RevokeLogin
<1>12. CASE Restart
  BY <1>12, <1>1 DEF Restart, EndReason
<1>13. CASE UNCHANGED vars
  BY <1>13 DEF vars
<1>14. QED
  BY <1>7, <1>8, <1>9, <1>10, <1>11, <1>12, <1>13 DEF Next

\* Every action keeps the maps, rows and program counters within their types.
THEOREM TypeCorrect == Spec => []TypeOK
<1>1. Init => TypeOK
  BY ConstantsAssumption DEF Init, TypeOK, NoRow, Row, DeviceStatus
<1>2. QED
  BY <1>1, TypeInductive, PTL DEF Spec

-------------------------------------------------------------------------------
\* Ending sessions leaves every other row, and the ends of every row, as they are.
LEMMA EndedRowsFacts ==
    ASSUME TypeOK, NEW ids, NEW why, sessions' = EndedRows(ids, why)
    PROVE  \A s \in Sessions :
              /\ InSession(s)' <=> InSession(s) /\ s \notin ids
              /\ sessions'[s].device = sessions[s].device
              /\ sessions'[s].console = sessions[s].console
<1> DEFINE E(r) == [r EXCEPT !.status = "ended", !.reason = why]
<1>1. ASSUME NEW r \in Row
      PROVE  E(r).status = "ended" /\ E(r).device = r.device /\ E(r).console = r.console
  BY <1>1 DEF Row
<1>2. \A s \in Sessions : sessions[s] \in Row
  BY DEF TypeOK
<1>3. \A s \in Sessions : sessions'[s] = IF s \in ids THEN E(sessions[s]) ELSE sessions[s]
  BY DEF EndedRows
<1> HIDE DEF E
<1>4. QED
  BY <1>1, <1>2, <1>3 DEF InSession

-------------------------------------------------------------------------------
LEMMA InitSessionInv == Init => SessionInv
  BY ConstantsAssumption DEF Init, SessionInv, TypeOK, NoRow, Row, DeviceStatus,
     HandlersMatchMaps, OneSessionPerDevice, RoutesAreLiveSessions,
     PresenceMatchesConnection, InSession, Online

\* Sessions only end, and the routes of those that end go with them: the step keeps
\* exclusive devices and live routes if the connections of the other routes stay.
LEMMA EndingKeepsRoutes ==
    ASSUME SessionInv, NEW ids, NEW why, sessions' = EndedRows(ids, why),
           session_routes' \subseteq session_routes \ ids,
           \A s \in session_routes' :
              /\ device_connections'[sessions[s].device] # None
              /\ sessions[s].console \in console_connections'
    PROVE  OneSessionPerDevice' /\ RoutesAreLiveSessions'
<1>1. TypeOK /\ session_routes \subseteq Sessions
  BY DEF SessionInv, TypeOK
<1>2. \A s \in Sessions :
         /\ InSession(s)' <=> InSession(s) /\ s \notin ids
         /\ sessions'[s].device = sessions[s].device
         /\ sessions'[s].console = sessions[s].console
  BY <1>1, EndedRowsFacts
<1>3. OneSessionPerDevice'
  BY <1>2 DEF SessionInv, OneSessionPerDevice
<1>4. RoutesAreLiveSessions'
  BY <1>1, <1>2 DEF SessionInv, RoutesAreLiveSessions, Online
<1>5. QED
  BY <1>3, <1>4

\* A step that ends no session and binds no route, and drops no connection.
LEMMA IdleKeepsRoutes ==
    ASSUME SessionInv, UNCHANGED <<sessions, session_routes>>,
           \A d \in Devices : Online(d) => Online(d)',
           console_connections \subseteq console_connections'
    PROVE  OneSessionPerDevice' /\ RoutesAreLiveSessions'
<1>1. OneSessionPerDevice'
  BY DEF SessionInv, OneSessionPerDevice, InSession
<1>2. RoutesAreLiveSessions'
  <2> SUFFICES ASSUME NEW s \in session_routes
               PROVE  /\ InSession(s)'
                      /\ Online(sessions[s].device)'
                      /\ sessions[s].console \in console_connections'
    BY DEF RoutesAreLiveSessions
  <2>1. InSession(s) /\ Online(sessions[s].device) /\ sessions[s].console \in console_connections
    BY DEF SessionInv, RoutesAreLiveSessions
  <2>2. s \in Sessions /\ sessions[s] \in Row
    BY DEF SessionInv, TypeOK
  <2>3. sessions[s].device \in Devices
    BY <2>1, <2>2 DEF SessionInv, HandlersMatchMaps
  <2>4. QED
    BY <2>1, <2>3 DEF InSession
<1>3. QED
  BY <1>1, <1>2

-------------------------------------------------------------------------------
\* _cleanup_device, whatever row the handler has in hand, provided that a row read
\* as revoked is one of a device that is.
LEMMA CleanupDeviceKeeps ==
    ASSUME SessionInv, NEW k \in Sockets, NEW live \in BOOLEAN,
           live \/ revoked[SocketDevice[k]],
           CleanupDevice(k, live)
    PROVE  /\ HandlersMatchMaps'
           /\ OneSessionPerDevice' /\ RoutesAreLiveSessions'
           /\ PresenceMatchesConnection'
<1> DEFINE d == SocketDevice[k]
           ids == {s \in DeviceRoutes(d) : InSession(s)}
<1>1. TypeOK /\ d \in Devices
  BY ConstantsAssumption DEF SessionInv
<1>2. /\ sessions' = EndedRows(ids, "device_disconnected")
      /\ session_routes' = session_routes \ DeviceRoutes(d)
      /\ device_connections' = [device_connections EXCEPT ![d] = None]
      /\ UNCHANGED <<revoked, console_connections, console_pc, revoke_pc>>
      /\ device_pc' = [device_pc EXCEPT ![k] = "idle"]
  BY DEF CleanupDevice
<1>3. \A s \in Sessions :
         /\ InSession(s)' <=> InSession(s) /\ s \notin ids
         /\ sessions'[s].device = sessions[s].device
         /\ sessions'[s].console = sessions[s].console
  BY <1>1, <1>2, EndedRowsFacts
<1>4. HandlersMatchMaps'
  BY <1>1, <1>2, <1>3 DEF SessionInv, HandlersMatchMaps, TypeOK
<1>5. \A s \in session_routes' :
         /\ device_connections'[sessions[s].device] # None
         /\ sessions[s].console \in console_connections'
  <2> SUFFICES ASSUME NEW s \in session_routes'
               PROVE  /\ device_connections'[sessions[s].device] # None
                      /\ sessions[s].console \in console_connections'
    OBVIOUS
  <2>1. s \in session_routes /\ sessions[s].device # d
    BY <1>2 DEF DeviceRoutes
  <2>2. InSession(s) /\ Online(sessions[s].device) /\ sessions[s].console \in console_connections
    BY <2>1 DEF SessionInv, RoutesAreLiveSessions
  <2>3. sessions[s].device \in Devices
    BY <1>1, <2>1, <2>2 DEF SessionInv, HandlersMatchMaps, TypeOK
  <2>4. QED
    BY <1>1, <1>2, <2>1, <2>2, <2>3 DEF Online, TypeOK
<1>6. OneSessionPerDevice' /\ RoutesAreLiveSessions'
  <2>1. session_routes' \subseteq session_routes \ ids
    BY <1>2 DEF DeviceRoutes
  <2>2. QED
    BY <1>2, <1>5, <2>1, EndingKeepsRoutes
<1>7. PresenceMatchesConnection'
  <2>1. device_status' = IF live THEN [device_status EXCEPT ![d] = "offline"] ELSE device_status
    BY DEF CleanupDevice
  <2>2. QED
    BY <1>1, <1>2, <2>1 DEF SessionInv, PresenceMatchesConnection, Online, TypeOK
<1>8. QED
  BY <1>4, <1>6, <1>7

\* The status _end_sessions writes agrees with the presence it read it from.
LEMMA EndingKeepsPresence ==
    ASSUME SessionInv, NEW ids, NEW live,
           device_status' = StatusAfterEnd(ids, live, {d \in Devices : Online(d)}),
           UNCHANGED <<revoked, device_connections>>
    PROVE  PresenceMatchesConnection'
  BY DEF SessionInv, PresenceMatchesConnection, StatusAfterEnd, Online, TypeOK

\* The finally block of a console.
LEMMA CleanupConsoleKeeps ==
    ASSUME SessionInv, NEW c \in Consoles, CleanupConsole(c)
    PROVE  /\ HandlersMatchMaps'
           /\ OneSessionPerDevice' /\ RoutesAreLiveSessions'
           /\ PresenceMatchesConnection'
<1> DEFINE ids == {s \in ConsoleRoutes(c) : InSession(s)}
<1>1. TypeOK
  BY DEF SessionInv
<1>2. /\ sessions' = EndedRows(ids, "console_disconnected")
      /\ session_routes' = session_routes \ ConsoleRoutes(c)
      /\ console_connections' = console_connections \ {c}
      /\ console_pc' = [console_pc EXCEPT ![c] = "closed"]
      /\ UNCHANGED <<revoked, device_connections, device_pc, revoke_pc>>
  BY DEF CleanupConsole
<1>3. \A s \in Sessions :
         /\ InSession(s)' <=> InSession(s) /\ s \notin ids
         /\ sessions'[s].device = sessions[s].device
         /\ sessions'[s].console = sessions[s].console
  BY <1>1, <1>2, EndedRowsFacts
<1>4. HandlersMatchMaps'
  BY <1>1, <1>2, <1>3 DEF SessionInv, HandlersMatchMaps, TypeOK
<1>5. \A s \in session_routes' :
         /\ device_connections'[sessions[s].device] # None
         /\ sessions[s].console \in console_connections'
  BY <1>2 DEF SessionInv, RoutesAreLiveSessions, ConsoleRoutes, Online
<1>6. OneSessionPerDevice' /\ RoutesAreLiveSessions'
  <2>1. session_routes' \subseteq session_routes \ ids
    BY <1>2 DEF ConsoleRoutes
  <2>2. QED
    BY <1>2, <1>5, <2>1, EndingKeepsRoutes
<1>7. PresenceMatchesConnection'
  BY <1>2, EndingKeepsPresence DEF CleanupConsole
<1>8. QED
  BY <1>4, <1>6, <1>7

\* _end_sessions for one session, with both connections still there.
LEMMA EndSessionsKeeps ==
    ASSUME SessionInv, NEW s \in Sessions, NEW why, NEW live,
           EndSessions({s}, why, live),
           UNCHANGED <<revoked, device_connections, console_connections>>
    PROVE  OneSessionPerDevice' /\ RoutesAreLiveSessions' /\ PresenceMatchesConnection'
<1>1. PresenceMatchesConnection'
  BY EndingKeepsPresence DEF EndSessions
<1>2. \A t \in session_routes' :
         /\ device_connections'[sessions[t].device] # None
         /\ sessions[t].console \in console_connections'
  BY DEF SessionInv, RoutesAreLiveSessions, EndSessions, Online
<1>3. OneSessionPerDevice' /\ RoutesAreLiveSessions'
  BY <1>2, EndingKeepsRoutes DEF EndSessions
<1>4. QED
  BY <1>1, <1>3

-------------------------------------------------------------------------------
LEMMA SocketStepKeeps ==
    ASSUME SessionInv, NEW k \in Sockets, SocketStep(k)
    PROVE  /\ HandlersMatchMaps'
           /\ OneSessionPerDevice' /\ RoutesAreLiveSessions'
           /\ PresenceMatchesConnection'
<1> DEFINE Goal == /\ HandlersMatchMaps'
                   /\ OneSessionPerDevice' /\ RoutesAreLiveSessions'
                   /\ PresenceMatchesConnection'
<1> USE ConstantsAssumption
<1>1. TypeOK /\ HandlersMatchMaps /\ PresenceMatchesConnection /\ SocketDevice[k] \in Devices
  BY DEF SessionInv
<1>2. ASSUME DeviceGone(k) PROVE Goal
  <2>1. HandlersMatchMaps'
    BY <1>1, <1>2 DEF DeviceGone, HandlersMatchMaps, InSession, TypeOK
  <2>2. OneSessionPerDevice' /\ RoutesAreLiveSessions'
    BY <1>2, IdleKeepsRoutes DEF DeviceGone, Online
  <2>3. PresenceMatchesConnection'
    BY <1>1, <1>2 DEF DeviceGone, PresenceMatchesConnection, Online
  <2>4. QED
    BY <2>1, <2>2, <2>3
<1>3. CASE DeviceConnect(k) \/ DeviceAcceptFails(k)
  <2>1. HandlersMatchMaps'
    BY <1>1, <1>3 DEF DeviceConnect, DeviceAcceptFails, HandlersMatchMaps, InSession, TypeOK
  <2>2. OneSessionPerDevice' /\ RoutesAreLiveSessions'
    BY <1>3, IdleKeepsRoutes DEF DeviceConnect, DeviceAcceptFails, Online
  <2>3. PresenceMatchesConnection'
    BY <1>1, <1>3 DEF DeviceConnect, DeviceAcceptFails, PresenceMatchesConnection, Online
  <2>4. QED
    BY <2>1, <2>2, <2>3
<1>4. CASE DeviceAccepted(k)
  <2>1. /\ device_connections' = [device_connections EXCEPT ![SocketDevice[k]] = k]
        /\ UNCHANGED <<revoked, sessions, session_routes, console_connections,
                       console_pc, revoke_pc>>
    BY <1>4 DEF DeviceAccepted
  <2>2. HandlersMatchMaps'
    <3>1. \A j \in Sockets : device_pc'[j] = "rejecting" => revoked[SocketDevice[j]]
      BY <1>1, <1>4 DEF DeviceAccepted, HandlersMatchMaps, TypeOK
    <3>2. QED
      BY <1>1, <2>1, <3>1 DEF HandlersMatchMaps, InSession
  <2>3. \A d \in Devices : Online(d) => Online(d)'
    BY <1>1, <2>1 DEF Online, TypeOK
  <2>4. OneSessionPerDevice' /\ RoutesAreLiveSessions'
    BY <2>1, <2>3, IdleKeepsRoutes
  <2>5. PresenceMatchesConnection'
    BY <1>1, <1>4, <2>1 DEF DeviceAccepted, PresenceMatchesConnection, Online, TypeOK
  <2>6. QED
    BY <2>2, <2>4, <2>5
<1>5. CASE DeviceRejected(k)
  <2>1. revoked[SocketDevice[k]]
    BY <1>1, <1>5 DEF DeviceRejected, HandlersMatchMaps
  <2>2. QED
    BY <1>5, <1>2, <2>1, CleanupDeviceKeeps DEF DeviceRejected
<1>6. CASE DeviceDisconnect(k)
  <2>1. CASE CleanupDevice(k, holds_device[k] \/ ~revoked[SocketDevice[k]])
    <3> DEFINE live == holds_device[k] \/ ~revoked[SocketDevice[k]]
    <3>1. live \in BOOLEAN /\ (live \/ revoked[SocketDevice[k]])
      OBVIOUS
    <3>2. CleanupDevice(k, live)
      BY <2>1
    <3> HIDE DEF live
    <3>3. QED
      BY <3>1, <3>2, CleanupDeviceKeeps
  <2>2. QED
    BY <1>6, <1>2, <2>1 DEF DeviceDisconnect
<1>7. CASE DeviceMessage(k)
  <2>1. CASE revoked[SocketDevice[k]] /\ CleanupDevice(k, FALSE)
    BY <2>1, CleanupDeviceKeeps
  <2>2. CASE UNCHANGED <<dbVars, managerVars, device_pc, consoleVars, revoke_pc>>
    <3>1. HandlersMatchMaps'
      BY <1>1, <2>2 DEF HandlersMatchMaps, InSession
    <3>2. OneSessionPerDevice' /\ RoutesAreLiveSessions'
      BY <2>2, IdleKeepsRoutes DEF Online
    <3>3. PresenceMatchesConnection'
      BY <1>1, <2>2 DEF PresenceMatchesConnection, Online
    <3>4. QED
      BY <3>1, <3>2, <3>3
  <2>3. QED
    BY <1>7, <1>2, <2>1, <2>2 DEF DeviceMessage
<1>8. ASSUME NEW s \in Sessions, DeviceEndsSession(k, s) PROVE Goal
  <2>1. HandlersMatchMaps'
    BY <1>1, <1>8, EndedRowsFacts DEF DeviceEndsSession, EndSessions, HandlersMatchMaps
  <2>2. QED
    BY <1>8, <2>1, EndSessionsKeeps DEF DeviceEndsSession
<1>9. QED
  BY <1>3, <1>4, <1>5, <1>6, <1>7, <1>8 DEF SocketStep

LEMMA ConsoleStepKeeps ==
    ASSUME SessionInv, NEW c \in Consoles, ConsoleStep(c)
    PROVE  /\ HandlersMatchMaps'
           /\ OneSessionPerDevice' /\ RoutesAreLiveSessions'
           /\ PresenceMatchesConnection'
<1> DEFINE Goal == /\ HandlersMatchMaps'
                   /\ OneSessionPerDevice' /\ RoutesAreLiveSessions'
                   /\ PresenceMatchesConnection'
<1>1. TypeOK /\ HandlersMatchMaps /\ PresenceMatchesConnection
  BY DEF SessionInv
<1>2. ASSUME UNCHANGED <<revoked, device_status, sessions, session_routes,
                         device_connections, device_pc, revoke_pc>>,
             \A x \in Consoles :
                x \in console_connections' <=> console_pc'[x] \in {"receiving", "starting"},
             console_connections \subseteq console_connections'
      PROVE  Goal
  <2>1. HandlersMatchMaps'
    BY <1>1, <1>2 DEF HandlersMatchMaps, InSession
  <2>2. OneSessionPerDevice' /\ RoutesAreLiveSessions'
    BY <1>2, IdleKeepsRoutes DEF Online
  <2>3. PresenceMatchesConnection'
    BY <1>1, <1>2 DEF PresenceMatchesConnection, Online
  <2>4. QED
    BY <2>1, <2>2, <2>3
<1>3. CASE ConsoleConnect(c)
  BY <1>1, <1>2, <1>3 DEF ConsoleConnect, HandlersMatchMaps, TypeOK
<1>4. CASE ConsoleAccepted(c)
  BY <1>1, <1>2, <1>4 DEF ConsoleAccepted, HandlersMatchMaps, TypeOK
<1>5. CASE ConsoleDisconnect(c) \/ ConsoleLoginCheckFails(c)
  BY <1>5, CleanupConsoleKeeps DEF ConsoleDisconnect, ConsoleLoginCheckFails
<1>6. CASE ConsolePass(c)
  BY <1>1, <1>2, <1>6 DEF ConsolePass, HandlersMatchMaps
<1>7. ASSUME NEW d \in Devices, IssueChallenge(c, d) \/ RefuseSession(c, d) PROVE Goal
  BY <1>1, <1>2, <1>7 DEF IssueChallenge, RefuseSession, HandlersMatchMaps
<1>8. ASSUME NEW d \in Devices, NEW s \in Sessions, StartSession(c, d, s) PROVE Goal
  <2>1. /\ sessions' = [sessions EXCEPT ![s] =
              [status |-> "in_session", device |-> d, console |-> c, reason |-> None]]
        /\ session_routes' = session_routes \cup {s}
        /\ SessionsOf(d) = {} /\ Online(d) /\ console_pc[c] = "receiving"
        /\ console_pc' = [console_pc EXCEPT ![c] = "starting"]
        /\ device_status' = [device_status EXCEPT ![d] = "in_session"]
        /\ UNCHANGED <<revoked, device_connections, console_connections, device_pc, revoke_pc>>
    BY <1>8 DEF StartSession, MayOpen, DeviceFree
  <2>2. /\ InSession(s)' /\ sessions'[s].device = d /\ sessions'[s].console = c
        /\ \A t \in Sessions \ {s} : sessions'[t] = sessions[t]
    BY <1>1, <2>1 DEF InSession, TypeOK
  <2>3. HandlersMatchMaps'
    BY <1>1, <2>1, <2>2 DEF HandlersMatchMaps, InSession, TypeOK
  <2>4. OneSessionPerDevice'
    BY <2>1, <2>2 DEF SessionInv, OneSessionPerDevice, SessionsOf, InSession
  <2>5. RoutesAreLiveSessions'
    <3>1. s \notin session_routes
      BY <1>8 DEF StartSession, SessionInv, RoutesAreLiveSessions, InSession
    <3>2. c \in console_connections
      BY <1>1, <2>1 DEF HandlersMatchMaps
    <3>3. session_routes \subseteq Sessions
      BY <1>1 DEF TypeOK
    <3>4. QED
      BY <2>1, <2>2, <3>1, <3>2, <3>3
      DEF SessionInv, RoutesAreLiveSessions, Online, InSession
  <2>6. PresenceMatchesConnection'
    BY <1>1, <2>1 DEF PresenceMatchesConnection, Online, TypeOK
  <2>7. QED
    BY <2>3, <2>4, <2>5, <2>6
<1>9. CASE SessionDelivered(c)
  BY <1>1, <1>2, <1>9 DEF SessionDelivered, HandlersMatchMaps, TypeOK
<1>10. CASE SessionUndelivered(c)
  <2>1. HandlersMatchMaps'
    <3>1. \A s \in Sessions :
             InSession(s)' => sessions'[s].device \in Devices /\ sessions'[s].console \in Consoles
      BY <1>1, <1>10, EndedRowsFacts DEF SessionUndelivered, EndSessions, HandlersMatchMaps
    <3>2. /\ console_pc' = [console_pc EXCEPT ![c] = "receiving"] /\ console_pc[c] = "starting"
          /\ UNCHANGED <<console_connections, revoked, device_pc, revoke_pc>>
      BY <1>10 DEF SessionUndelivered
    <3>3. QED
      BY <1>1, <3>1, <3>2 DEF HandlersMatchMaps, TypeOK
  <2>2. PresenceMatchesConnection'
    BY <1>10, EndingKeepsPresence DEF SessionUndelivered, EndSessions
  <2>3. \A t \in session_routes' :
           /\ device_connections'[sessions[t].device] # None
           /\ sessions[t].console \in console_connections'
    BY <1>10 DEF SessionUndelivered, SessionInv, RoutesAreLiveSessions, EndSessions, Online
  <2>4. OneSessionPerDevice' /\ RoutesAreLiveSessions'
    BY <1>10, <2>3, EndingKeepsRoutes DEF SessionUndelivered, EndSessions
  <2>5. QED
    BY <2>1, <2>2, <2>4
<1>11. ASSUME NEW s \in Sessions, ConsoleEndsSession(c, s) PROVE Goal
  <2>1. HandlersMatchMaps'
    BY <1>1, <1>11, EndedRowsFacts DEF ConsoleEndsSession, EndSessions, HandlersMatchMaps
  <2>2. QED
    BY <1>11, <2>1, EndSessionsKeeps DEF ConsoleEndsSession
<1>12. QED
  BY <1>3, <1>4, <1>5, <1>6, <1>7, <1>8, <1>9, <1>10, <1>11 DEF ConsoleStep

\* The commit of a revocation, with or without a pause before the disconnection.
LEMMA RevokeDeviceKeeps ==
    ASSUME SessionInv, NEW d \in Devices, RevokeDevice(d)
    PROVE  /\ HandlersMatchMaps'
           /\ OneSessionPerDevice' /\ RoutesAreLiveSessions'
           /\ PresenceMatchesConnection'
<1> DEFINE ids == SessionsOf(d)
<1>1. TypeOK /\ HandlersMatchMaps /\ RoutesAreLiveSessions
  BY DEF SessionInv
<1>2. /\ sessions' = EndedRows(ids, "device_revoked")
      /\ revoked' = [revoked EXCEPT ![d] = TRUE]
      /\ device_status' = [device_status EXCEPT ![d] = "revoked"]
      /\ UNCHANGED <<console_connections, console_pc, device_pc>>
  BY DEF RevokeDevice
<1>3. /\ session_routes' = session_routes \ ids
      /\ \/ UNCHANGED device_connections
         \/ device_connections' = [device_connections EXCEPT ![d] = None] /\ ids = {}
  BY <1>1 DEF RevokeDevice, DeviceRoutes, SessionsOf, RoutesAreLiveSessions, TypeOK
<1>4. HandlersMatchMaps'
  <2>1. \A s \in Sessions :
           InSession(s)' => sessions'[s].device \in Devices /\ sessions'[s].console \in Consoles
    BY <1>1, <1>2, EndedRowsFacts DEF HandlersMatchMaps
  <2>2. \A x \in Devices : revoke_pc'[x] = "notifying" => revoked'[x]
    BY <1>1, <1>2 DEF RevokeDevice, HandlersMatchMaps, TypeOK
  <2>3. \A k \in Sockets : device_pc'[k] = "rejecting" => revoked'[SocketDevice[k]]
    BY <1>1, <1>2, ConstantsAssumption DEF HandlersMatchMaps, TypeOK
  <2>4. QED
    BY <1>1, <1>2, <2>1, <2>2, <2>3 DEF HandlersMatchMaps
<1>5. \A s \in session_routes' :
         /\ device_connections'[sessions[s].device] # None
         /\ sessions[s].console \in console_connections'
  <2> SUFFICES ASSUME NEW s \in session_routes'
               PROVE  /\ device_connections'[sessions[s].device] # None
                      /\ sessions[s].console \in console_connections'
    OBVIOUS
  <2>1. /\ s \in Sessions /\ s \notin ids /\ InSession(s)
        /\ Online(sessions[s].device) /\ sessions[s].console \in console_connections
    BY <1>1, <1>3 DEF RoutesAreLiveSessions, TypeOK
  <2>2. sessions[s].device # d /\ sessions[s].device \in Devices
    BY <1>1, <2>1 DEF SessionsOf, HandlersMatchMaps
  <2>3. QED
    BY <1>1, <1>2, <1>3, <2>1, <2>2 DEF Online, TypeOK
<1>6. OneSessionPerDevice' /\ RoutesAreLiveSessions'
  BY <1>2, <1>3, <1>5, EndingKeepsRoutes
<1>7. PresenceMatchesConnection'
  BY <1>1, <1>2, <1>3 DEF SessionInv, PresenceMatchesConnection, Online, TypeOK
<1>8. QED
  BY <1>4, <1>6, <1>7

\* disconnect_device_if_present.
LEMMA RevokeDisconnectsKeeps ==
    ASSUME SessionInv, NEW d \in Devices, RevokeDisconnects(d)
    PROVE  /\ HandlersMatchMaps'
           /\ OneSessionPerDevice' /\ RoutesAreLiveSessions'
           /\ PresenceMatchesConnection'
<1>1. TypeOK /\ HandlersMatchMaps /\ RoutesAreLiveSessions
  BY DEF SessionInv
<1>2. /\ device_connections' = [device_connections EXCEPT ![d] = None]
      /\ session_routes' = session_routes \ DeviceRoutes(d)
      /\ revoked[d]
      /\ revoke_pc' = [revoke_pc EXCEPT ![d] = "done"]
      /\ UNCHANGED <<revoked, sessions, device_status, console_connections,
                     console_pc, device_pc>>
  BY <1>1 DEF RevokeDisconnects, HandlersMatchMaps
<1>3. HandlersMatchMaps'
  BY <1>1, <1>2 DEF HandlersMatchMaps, InSession, TypeOK
<1>4. OneSessionPerDevice'
  BY <1>2 DEF SessionInv, OneSessionPerDevice, InSession
<1>5. RoutesAreLiveSessions'
  <2> SUFFICES ASSUME NEW s \in session_routes'
               PROVE  /\ InSession(s)'
                      /\ Online(sessions[s].device)'
                      /\ sessions'[s].console \in console_connections'
    BY DEF RoutesAreLiveSessions
  <2>1. s \in session_routes /\ sessions[s].device # d
    BY <1>2 DEF DeviceRoutes
  <2>2. InSession(s) /\ Online(sessions[s].device) /\ sessions[s].console \in console_connections
    BY <1>1, <2>1 DEF RoutesAreLiveSessions
  <2>3. sessions[s].device \in Devices
    BY <1>1, <2>1, <2>2 DEF HandlersMatchMaps, TypeOK
  <2>4. QED
    BY <1>1, <1>2, <2>1, <2>2, <2>3 DEF Online, InSession, TypeOK
<1>6. PresenceMatchesConnection'
  BY <1>1, <1>2 DEF SessionInv, PresenceMatchesConnection, Online, TypeOK
<1>7. QED
  BY <1>3, <1>4, <1>5, <1>6

-------------------------------------------------------------------------------
\* Every step of every actor preserves the session invariant.
LEMMA SessionInvInductive == SessionInv /\ [Next]_vars => SessionInv'
<1> SUFFICES ASSUME SessionInv, [Next]_vars PROVE SessionInv'
  OBVIOUS
<1> DEFINE Goal == /\ HandlersMatchMaps'
                   /\ OneSessionPerDevice' /\ RoutesAreLiveSessions'
                   /\ PresenceMatchesConnection'
<1>1. TypeOK /\ TypeOK' /\ HandlersMatchMaps /\ PresenceMatchesConnection
  BY TypeInductive DEF SessionInv
<1> SUFFICES Goal
  BY <1>1 DEF SessionInv
<1>2. ASSUME UNCHANGED <<revoked, device_status, sessions, session_routes,
                         device_connections, console_connections, device_pc,
                         console_pc, revoke_pc>>
      PROVE  Goal
  <2>1. OneSessionPerDevice' /\ RoutesAreLiveSessions'
    BY <1>2, IdleKeepsRoutes DEF Online
  <2>2. QED
    BY <1>1, <1>2, <2>1 DEF HandlersMatchMaps, PresenceMatchesConnection, InSession, Online
<1>3. CASE \E k \in Sockets : SocketStep(k)
  BY <1>3, SocketStepKeeps
<1>4. CASE \E c \in Consoles : ConsoleStep(c)
  BY <1>4, ConsoleStepKeeps
<1>5. CASE \E d \in Devices : RevokeDevice(d) \/ RevokeDisconnects(d)
  BY <1>5, RevokeDeviceKeeps, RevokeDisconnectsKeeps
<1>6. CASE \E c \in Consoles : RevokeLogin(c)
  BY <1>2, <1>6 DEF RevokeLogin
<1>7. CASE Restart
  <2>1. \A s \in Sessions : ~InSession(s)'
    BY <1>1, <1>7, EndedRowsFacts DEF Restart
  <2>2. HandlersMatchMaps'
    BY <1>1, <1>7, <2>1 DEF Restart, HandlersMatchMaps, TypeOK
  <2>3. OneSessionPerDevice' /\ RoutesAreLiveSessions'
    BY <1>7, <2>1 DEF Restart, OneSessionPerDevice, RoutesAreLiveSessions
  <2>4. PresenceMatchesConnection'
    BY <1>7 DEF Restart, PresenceMatchesConnection, Online
  <2>5. QED
    BY <2>2, <2>3, <2>4
<1>8. CASE UNCHANGED vars
  BY <1>2, <1>8 DEF vars
<1>9. QED
  BY <1>1, <1>3, <1>4, <1>5, <1>6, <1>7, <1>8 DEF Next, SessionInv

\* Two consoles never hold the same device, every route belongs to a session in
\* progress between two registered ends, and the stored presence of a device that
\* is not revoked is that of its connection: in every reachable state, also when
\* consoles act on rows they loaded before a revocation.
THEOREM SessionSafety ==
    Spec => [](OneSessionPerDevice /\ RoutesAreLiveSessions /\ PresenceMatchesConnection)
<1>1. SessionInv => OneSessionPerDevice /\ RoutesAreLiveSessions /\ PresenceMatchesConnection
  BY DEF SessionInv
<1>2. QED
  BY InitSessionInv, SessionInvInductive, <1>1, PTL DEF Spec

-------------------------------------------------------------------------------
(* Only a console that keeps a device list acts on a row from before a          *)
(* revocation, and only the routes of revoked devices go without their rows.    *)

\* Sessions end together with their routes, and a revocation ends them all.
LEMMA EndingKeepsRouted ==
    ASSUME RoutedInv, NEW ids, NEW why, sessions' = EndedRows(ids, why),
           session_routes \ ids \subseteq session_routes',
           \A d \in Devices : revoked[d] => revoked'[d],
           \A d \in Devices : revoked'[d] => revoked[d] \/ SessionsOf(d) \subseteq ids
    PROVE  SessionsAreRouted' /\ OnlyStaleRowsOpenRevoked'
<1>1. \A s \in Sessions :
         /\ InSession(s)' <=> InSession(s) /\ s \notin ids
         /\ sessions'[s].device = sessions[s].device
         /\ sessions'[s].console = sessions[s].console
         /\ InSession(s) => sessions[s].device \in Devices
  BY EndedRowsFacts DEF RoutedInv, SessionInv, HandlersMatchMaps
<1>2. SessionsAreRouted'
  BY <1>1 DEF RoutedInv, SessionsAreRouted
<1>3. OnlyStaleRowsOpenRevoked'
  BY <1>1 DEF RoutedInv, OnlyStaleRowsOpenRevoked, SessionsOf
<1>4. QED
  BY <1>2, <1>3

\* A step that leaves the rows, the routes and the revocations alone.
LEMMA IdleKeepsRouted ==
    ASSUME RoutedInv, UNCHANGED <<sessions, session_routes, revoked>>
    PROVE  SessionsAreRouted' /\ OnlyStaleRowsOpenRevoked'
  BY DEF RoutedInv, SessionsAreRouted, OnlyStaleRowsOpenRevoked, SessionsOf, InSession

LEMMA NoRowsHeld ==
    ASSUME RoutedInv, [Next]_vars
    PROVE  \A c \in Consoles \ Listing : holds_rows'[c] = {}
<1>1. TypeOK /\ \A c \in Consoles \ Listing : holds_rows[c] = {}
  BY DEF RoutedInv, SessionInv
<1>2. \A c \in Consoles \ Listing, ds \in SUBSET Devices : HoldsAfterCommit(c, ds) = {}
  BY DEF HoldsAfterCommit
<1>3. CASE UNCHANGED holds_rows
  BY <1>1, <1>3
<1> DEFINE SetsRows(c, ds) == holds_rows' = [holds_rows EXCEPT ![c] = ds]
<1>4. ASSUME NEW c \in Consoles, NEW ds, c \in Listing \/ ds = {}, SetsRows(c, ds)
      PROVE  \A x \in Consoles \ Listing : holds_rows'[x] = {}
  BY <1>1, <1>4 DEF TypeOK
<1>5. ASSUME NEW c \in Consoles, ConsoleStep(c)
      PROVE  UNCHANGED holds_rows \/ \E ds : (c \in Listing \/ ds = {}) /\ SetsRows(c, ds)
  <2>1. ASSUME NEW d \in Devices, NEW s \in Sessions,
               StartSession(c, d, s)
        PROVE  \E ds : (c \in Listing \/ ds = {}) /\ SetsRows(c, ds)
    BY <1>2, <2>1 DEF StartSession
  <2>2. ASSUME NEW d \in Devices, RefuseSession(c, d)
        PROVE  \E ds : (c \in Listing \/ ds = {}) /\ SetsRows(c, ds)
    BY <1>2, <2>2 DEF RefuseSession
  <2>3. ASSUME NEW s \in Sessions, ConsoleEndsSession(c, s)
        PROVE  \E ds : (c \in Listing \/ ds = {}) /\ SetsRows(c, ds)
    BY <1>2, <2>3 DEF ConsoleEndsSession
  <2>4. QED
    BY <1>5, <2>1, <2>2, <2>3
    DEF ConsoleStep, ConsoleConnect, ConsoleAccepted, ConsoleDisconnect,
        ConsoleLoginCheckFails, CleanupConsole, ConsolePass, IssueChallenge,
        SessionDelivered, SessionUndelivered
<1>6. ASSUME NEW k \in Sockets, SocketStep(k) PROVE UNCHANGED holds_rows
  BY <1>6 DEF SocketStep, DeviceConnect, DeviceAcceptFails, DeviceAccepted,
              DeviceRejected, DeviceDisconnect, DeviceMessage, DeviceEndsSession,
              CleanupDevice, DeviceGone
<1>7. CASE Restart
  BY <1>7 DEF Restart
<1>8. CASE \/ \E d \in Devices : RevokeDevice(d) \/ RevokeDisconnects(d)
           \/ \E c \in Consoles : RevokeLogin(c)
           \/ UNCHANGED vars
  BY <1>3, <1>8 DEF RevokeDevice, RevokeDisconnects, RevokeLogin, vars
<1>9. QED
  BY <1>3, <1>4, <1>5, <1>6, <1>7, <1>8 DEF Next

LEMMA SocketStepKeepsRouted ==
    ASSUME RoutedInv, NEW k \in Sockets, SocketStep(k)
    PROVE  SessionsAreRouted' /\ OnlyStaleRowsOpenRevoked'
<1>1. ASSUME NEW live, CleanupDevice(k, live)
      PROVE  SessionsAreRouted' /\ OnlyStaleRowsOpenRevoked'
  <2> DEFINE ids == {s \in DeviceRoutes(SocketDevice[k]) : InSession(s)}
  <2>1. /\ sessions' = EndedRows(ids, "device_disconnected")
        /\ session_routes' = session_routes \ DeviceRoutes(SocketDevice[k])
        /\ UNCHANGED revoked
    BY <1>1 DEF CleanupDevice
  <2>2. ids = DeviceRoutes(SocketDevice[k])
    BY DEF RoutedInv, SessionInv, RoutesAreLiveSessions, DeviceRoutes
  <2>3. QED
    BY <2>1, <2>2, EndingKeepsRouted
<1>2. ASSUME DeviceGone(k) PROVE SessionsAreRouted' /\ OnlyStaleRowsOpenRevoked'
  BY <1>2, IdleKeepsRouted DEF DeviceGone
<1>3. CASE DeviceConnect(k) \/ DeviceAcceptFails(k) \/ DeviceAccepted(k)
  BY <1>3, IdleKeepsRouted DEF DeviceConnect, DeviceAcceptFails, DeviceAccepted
<1>4. CASE DeviceRejected(k) \/ DeviceDisconnect(k)
  BY <1>1, <1>2, <1>4 DEF DeviceRejected, DeviceDisconnect
<1>5. CASE DeviceMessage(k)
  <2>1. CASE UNCHANGED <<dbVars, managerVars, device_pc, consoleVars, revoke_pc>>
    BY <2>1, IdleKeepsRouted
  <2>2. QED
    BY <1>1, <1>2, <1>5, <2>1 DEF DeviceMessage
<1>6. ASSUME NEW s \in Sessions, DeviceEndsSession(k, s)
      PROVE  SessionsAreRouted' /\ OnlyStaleRowsOpenRevoked'
  BY <1>6, EndingKeepsRouted DEF DeviceEndsSession, EndSessions
<1>7. QED
  BY <1>3, <1>4, <1>5, <1>6 DEF SocketStep

LEMMA ConsoleStepKeepsRouted ==
    ASSUME RoutedInv, NEW c \in Consoles, ConsoleStep(c)
    PROVE  SessionsAreRouted' /\ OnlyStaleRowsOpenRevoked'
<1>1. ASSUME CleanupConsole(c) PROVE SessionsAreRouted' /\ OnlyStaleRowsOpenRevoked'
  <2> DEFINE ids == {s \in ConsoleRoutes(c) : InSession(s)}
  <2>1. /\ sessions' = EndedRows(ids, "console_disconnected")
        /\ session_routes' = session_routes \ ConsoleRoutes(c)
        /\ UNCHANGED revoked
    BY <1>1 DEF CleanupConsole
  <2>2. ids = ConsoleRoutes(c)
    BY DEF RoutedInv, SessionInv, RoutesAreLiveSessions, ConsoleRoutes
  <2>3. QED
    BY <2>1, <2>2, EndingKeepsRouted
<1>2. ASSUME NEW d \in Devices, NEW s \in Sessions, StartSession(c, d, s)
      PROVE  SessionsAreRouted' /\ OnlyStaleRowsOpenRevoked'
  <2>1. revoked[d] => c \in Listing
    BY <1>2 DEF StartSession, MayOpen, SeesLive, RoutedInv
  <2>2. /\ session_routes' = session_routes \cup {s} /\ UNCHANGED revoked
        /\ sessions'[s].device = d /\ sessions'[s].console = c
        /\ \A t \in Sessions \ {s} : sessions'[t] = sessions[t]
    BY <1>2 DEF StartSession, RoutedInv, SessionInv, TypeOK
  <2>3. SessionsAreRouted'
    BY <2>2 DEF RoutedInv, SessionsAreRouted, InSession
  <2>4. OnlyStaleRowsOpenRevoked'
    BY <2>1, <2>2 DEF RoutedInv, OnlyStaleRowsOpenRevoked, SessionsOf, InSession
  <2>5. QED
    BY <2>3, <2>4
<1>3. CASE SessionUndelivered(c)
  BY <1>3, EndingKeepsRouted DEF SessionUndelivered, EndSessions
<1>4. ASSUME NEW s \in Sessions, ConsoleEndsSession(c, s)
      PROVE  SessionsAreRouted' /\ OnlyStaleRowsOpenRevoked'
  BY <1>4, EndingKeepsRouted DEF ConsoleEndsSession, EndSessions
<1>5. CASE \/ ConsoleConnect(c) \/ ConsoleAccepted(c) \/ ConsolePass(c) \/ SessionDelivered(c)
           \/ \E d \in Devices : IssueChallenge(c, d) \/ RefuseSession(c, d)
  BY <1>5, IdleKeepsRouted
  DEF ConsoleConnect, ConsoleAccepted, ConsolePass, SessionDelivered, IssueChallenge,
      RefuseSession
<1>6. QED
  BY <1>1, <1>2, <1>3, <1>4, <1>5
  DEF ConsoleStep, ConsoleDisconnect, ConsoleLoginCheckFails

LEMMA RoutedInvInductive ==
    ASSUME RoutedInv, [Next]_vars
    PROVE  RoutedInv'
<1>1. SessionInv /\ SessionInv' /\ TypeOK /\ RoutesAreLiveSessions
  BY SessionInvInductive DEF RoutedInv, SessionInv
<1>2. \A c \in Consoles \ Listing : holds_rows'[c] = {}
  BY NoRowsHeld
<1> SUFFICES SessionsAreRouted' /\ OnlyStaleRowsOpenRevoked'
  BY <1>1, <1>2 DEF RoutedInv
<1>3. ASSUME NEW d \in Devices, RevokeDevice(d)
      PROVE  SessionsAreRouted' /\ OnlyStaleRowsOpenRevoked'
  <2>1. /\ sessions' = EndedRows(SessionsOf(d), "device_revoked")
        /\ revoked' = [revoked EXCEPT ![d] = TRUE]
    BY <1>3 DEF RevokeDevice
  <2>2. session_routes \ SessionsOf(d) \subseteq session_routes'
    BY <1>1, <1>3
    DEF RevokeDevice, DeviceRoutes, SessionsOf, RoutesAreLiveSessions, TypeOK
  <2>3. \A x \in Devices :
           /\ revoked[x] => revoked'[x]
           /\ revoked'[x] => revoked[x] \/ SessionsOf(x) \subseteq SessionsOf(d)
    BY <1>1, <2>1 DEF TypeOK
  <2>4. QED
    BY <2>1, <2>2, <2>3, EndingKeepsRouted
<1>4. ASSUME NEW d \in Devices, RevokeDisconnects(d)
      PROVE  SessionsAreRouted' /\ OnlyStaleRowsOpenRevoked'
  <2>1. revoked[d]
    BY <1>1, <1>4 DEF RevokeDisconnects, SessionInv, HandlersMatchMaps
  <2>2. UNCHANGED <<sessions, revoked>> /\ session_routes' = session_routes \ DeviceRoutes(d)
    BY <1>4 DEF RevokeDisconnects
  <2>3. SessionsAreRouted'
    BY <2>1, <2>2 DEF RoutedInv, SessionsAreRouted, DeviceRoutes, InSession
  <2>4. OnlyStaleRowsOpenRevoked'
    BY <2>2 DEF RoutedInv, OnlyStaleRowsOpenRevoked, SessionsOf, InSession
  <2>5. QED
    BY <2>3, <2>4
<1>5. CASE Restart
  <2>1. \A s \in Sessions : ~InSession(s)'
    BY <1>1, <1>5, EndedRowsFacts DEF Restart
  <2>2. QED
    BY <2>1 DEF SessionsAreRouted, OnlyStaleRowsOpenRevoked, SessionsOf
<1>6. CASE (\E c \in Consoles : RevokeLogin(c)) \/ UNCHANGED vars
  BY <1>6, IdleKeepsRouted DEF RevokeLogin, vars
<1>7. QED
  BY <1>3, <1>4, <1>5, <1>6, SocketStepKeepsRouted, ConsoleStepKeepsRouted DEF Next

\* Whatever device lists the consoles keep: a session in progress has its route
\* unless its device is revoked, and a revoked device is in session only with a
\* console that kept a list; without one, with none.
THEOREM RoutedSafety == Spec => [](SessionsAreRouted /\ OnlyStaleRowsOpenRevoked)
<1>1. Init => RoutedInv
  BY InitSessionInv
  DEF Init, RoutedInv, SessionsAreRouted, OnlyStaleRowsOpenRevoked, SessionsOf,
      InSession, NoRow
<1>2. RoutedInv /\ [Next]_vars => RoutedInv'
  BY RoutedInvInductive
<1>3. RoutedInv => SessionsAreRouted /\ OnlyStaleRowsOpenRevoked
  BY DEF RoutedInv
<1>4. QED
  BY <1>1, <1>2, <1>3, PTL DEF Spec

-------------------------------------------------------------------------------
(* The quota *)

\* Rows change only by ending some, or by the start of one.
LEMMA RowStep ==
    ASSUME [Next]_vars
    PROVE  \/ UNCHANGED sessions
           \/ \E ids, why : sessions' = EndedRows(ids, why)
           \/ \E c \in Consoles, d \in Devices, s \in Sessions : StartSession(c, d, s)
<1> DEFINE Goal == \/ UNCHANGED sessions
                   \/ \E ids, why : sessions' = EndedRows(ids, why)
                   \/ \E c \in Consoles, d \in Devices, s \in Sessions : StartSession(c, d, s)
<1>1. ASSUME NEW k \in Sockets, SocketStep(k) PROVE Goal
  BY <1>1
  DEF SocketStep, DeviceConnect, DeviceAcceptFails, DeviceAccepted, DeviceRejected,
      DeviceDisconnect, DeviceMessage, DeviceEndsSession, EndSessions, CleanupDevice,
      DeviceGone
<1>2. ASSUME NEW c \in Consoles, ConsoleStep(c) PROVE Goal
  BY <1>2
  DEF ConsoleStep, ConsoleConnect, ConsoleAccepted, ConsoleDisconnect,
      ConsoleLoginCheckFails, CleanupConsole, ConsolePass, IssueChallenge, RefuseSession,
      SessionDelivered, SessionUndelivered, ConsoleEndsSession, EndSessions
<1>3. CASE \/ \E d \in Devices : RevokeDevice(d) \/ RevokeDisconnects(d)
           \/ \E c \in Consoles : RevokeLogin(c)
           \/ Restart
           \/ UNCHANGED vars
  BY <1>3 DEF RevokeDevice, RevokeDisconnects, RevokeLogin, Restart, vars
<1>4. QED
  BY <1>1, <1>2, <1>3 DEF Next

LEMMA QuotaInductive ==
    ASSUME TypeOK, HandlersMatchMaps, OwnerQuota, [Next]_vars
    PROVE  OwnerQuota'
<1> SUFFICES ASSUME NEW o \in Owners
             PROVE  Cardinality(OwnerSessions(o)') <= MaxRemoteSessions
  BY DEF OwnerQuota
<1>1. IsFiniteSet(OwnerSessions(o)) /\ Cardinality(OwnerSessions(o)) \in Nat
  BY FinitenessAssumption, FS_Subset, FS_CardinalityType DEF OwnerSessions
<1>2. Cardinality(OwnerSessions(o)) <= MaxRemoteSessions /\ MaxRemoteSessions \in Nat
  BY ConstantsAssumption DEF OwnerQuota
<1>3. ASSUME OwnerSessions(o)' \subseteq OwnerSessions(o)
      PROVE  Cardinality(OwnerSessions(o)') <= MaxRemoteSessions
  <2>1. /\ Cardinality(OwnerSessions(o)') <= Cardinality(OwnerSessions(o))
        /\ Cardinality(OwnerSessions(o)') \in Nat
    BY <1>1, <1>3, FS_Subset, FS_CardinalityType
  <2>2. QED
    BY <1>1, <1>2, <2>1
<1>4. CASE UNCHANGED sessions
  BY <1>3, <1>4 DEF OwnerSessions, InSession
<1>5. ASSUME NEW ids, NEW why, sessions' = EndedRows(ids, why)
      PROVE  Cardinality(OwnerSessions(o)') <= MaxRemoteSessions
  BY <1>3, <1>5, EndedRowsFacts DEF OwnerSessions
<1>6. ASSUME NEW c \in Consoles, NEW d \in Devices, NEW s \in Sessions, StartSession(c, d, s)
      PROVE  Cardinality(OwnerSessions(o)') <= MaxRemoteSessions
  <2>1. /\ sessions'[s].console = c
        /\ \A t \in Sessions \ {s} : sessions'[t] = sessions[t]
    BY <1>6 DEF StartSession, TypeOK
  <2>2. CASE ConsoleOwner[c] = o
    <3>1. Cardinality(OwnerSessions(o)) < MaxRemoteSessions
      BY <1>6, <2>2 DEF StartSession, QuotaLeft
    <3>2. OwnerSessions(o)' \subseteq OwnerSessions(o) \cup {s}
      BY <2>1 DEF OwnerSessions, InSession
    <3>3. /\ IsFiniteSet(OwnerSessions(o) \cup {s})
          /\ Cardinality(OwnerSessions(o) \cup {s}) <= Cardinality(OwnerSessions(o)) + 1
          /\ Cardinality(OwnerSessions(o) \cup {s}) \in Nat
      <4>1. IsFiniteSet(OwnerSessions(o) \cup {s})
        BY <1>1, FS_AddElement
      <4>2. Cardinality(OwnerSessions(o) \cup {s})
               = IF s \in OwnerSessions(o) THEN Cardinality(OwnerSessions(o))
                                           ELSE Cardinality(OwnerSessions(o)) + 1
        BY <1>1, FS_AddElement
      <4>3. QED
        BY <1>1, <4>1, <4>2
    <3>4. /\ Cardinality(OwnerSessions(o)') <= Cardinality(OwnerSessions(o) \cup {s})
          /\ Cardinality(OwnerSessions(o)') \in Nat
      BY <3>2, <3>3, FS_Subset, FS_CardinalityType
    <3>5. QED
      BY <1>1, <1>2, <3>1, <3>3, <3>4
  <2>3. CASE ConsoleOwner[c] # o
    BY <1>3, <2>1, <2>3 DEF OwnerSessions, InSession
  <2>4. QED
    BY <2>2, <2>3
<1>7. QED
  BY <1>4, <1>5, <1>6, RowStep

\* However many consoles of an owner start sessions, there are never more in progress
\* than the setting allows.
THEOREM QuotaSafety == Spec => []OwnerQuota
<1>1. Init => OwnerQuota
  <2> SUFFICES ASSUME Init, NEW o \in Owners
               PROVE  Cardinality(OwnerSessions(o)) <= MaxRemoteSessions
    BY DEF OwnerQuota
  <2>1. OwnerSessions(o) = {}
    BY DEF Init, OwnerSessions, InSession, NoRow
  <2>2. QED
    BY <2>1, FS_EmptySet, ConstantsAssumption
<1>2. SessionInv /\ OwnerQuota /\ [Next]_vars => OwnerQuota'
  BY QuotaInductive DEF SessionInv
<1>3. QED
  BY InitSessionInv, SessionInvInductive, <1>1, <1>2, PTL DEF Spec
=============================================================================
