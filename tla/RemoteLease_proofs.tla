--------------------------- MODULE RemoteLease_proofs ---------------------------
(* More of what holds of RemoteSessions for every number of devices, sockets,   *)
(* consoles, sessions and owners: what the end of a session records, the limits *)
(* on connections, and the lease that the handlers implement.                   *)
EXTENDS RemoteSessions_proofs

USE DEF dbVars, managerVars, socketVars, consoleVars

-------------------------------------------------------------------------------
(* Rows and revocations change together in four ways. *)

\* A session start whose delivery failed.
UndeliveredRow(c) ==
    /\ console_pc[c] = "starting"
    /\ sessions' = EndedRows({starting[c]}, "device_unavailable")
    /\ UNCHANGED revoked

Ends ==
    /\ \E ids \in SUBSET {s \in Sessions : InSession(s)} :
          \E why : sessions' = EndedRows(ids, why)
    /\ UNCHANGED revoked

RevokeRows(d) ==
    /\ ~revoked[d]
    /\ revoked' = [revoked EXCEPT ![d] = TRUE]
    /\ sessions' = EndedRows(SessionsOf(d), "device_revoked")

\* What any step does to the rows and to the revocations.
LEMMA RowChange ==
    ASSUME TypeOK, [Next]_vars
    PROVE  \/ UNCHANGED <<sessions, revoked>>
           \/ Ends
           \/ \E c \in Consoles : UndeliveredRow(c)
           \/ \E d \in Devices : RevokeRows(d)
           \/ /\ \E c \in Consoles, d \in Devices, s \in Sessions : StartSession(c, d, s)
              /\ UNCHANGED revoked
<1> DEFINE Goal == \/ UNCHANGED <<sessions, revoked>>
                   \/ Ends
                   \/ \E c \in Consoles : UndeliveredRow(c)
                   \/ \E d \in Devices : RevokeRows(d)
                   \/ /\ \E c \in Consoles, d \in Devices, s \in Sessions : StartSession(c, d, s)
                      /\ UNCHANGED revoked
<1>1. ASSUME NEW ids \in SUBSET {s \in Sessions : InSession(s)}, NEW why,
             sessions' = EndedRows(ids, why), UNCHANGED revoked
      PROVE  Goal
  BY <1>1 DEF Ends
<1>2. ASSUME NEW k \in Sockets, SocketStep(k) PROVE Goal
  <2>1. ASSUME NEW live, CleanupDevice(k, live) PROVE Goal
    <3>1. {s \in DeviceRoutes(SocketDevice[k]) : InSession(s)}
             \in SUBSET {s \in Sessions : InSession(s)}
      BY DEF DeviceRoutes, TypeOK
    <3>2. QED
      BY <1>1, <2>1, <3>1 DEF CleanupDevice
  <2>2. ASSUME NEW s \in Sessions, DeviceEndsSession(k, s) PROVE Goal
    <3>1. {s} \in SUBSET {t \in Sessions : InSession(t)}
      BY <2>2 DEF DeviceEndsSession
    <3>2. QED
      BY <1>1, <2>2, <3>1 DEF DeviceEndsSession, EndSessions
  <2>3. QED
    BY <1>2, <2>1, <2>2
    DEF SocketStep, DeviceConnect, DeviceAcceptFails, DeviceAccepted, DeviceRejected,
        DeviceDisconnect, DeviceMessage, DeviceGone
<1>3. ASSUME NEW c \in Consoles, ConsoleStep(c) PROVE Goal
  <2>1. ASSUME CleanupConsole(c) PROVE Goal
    <3>1. {s \in ConsoleRoutes(c) : InSession(s)} \in SUBSET {s \in Sessions : InSession(s)}
      BY DEF ConsoleRoutes, TypeOK
    <3>2. QED
      BY <1>1, <2>1, <3>1 DEF CleanupConsole
  <2>2. ASSUME NEW s \in Sessions, ConsoleEndsSession(c, s) PROVE Goal
    <3>1. {s} \in SUBSET {t \in Sessions : InSession(t)}
      BY <2>2 DEF ConsoleEndsSession
    <3>2. QED
      BY <1>1, <2>2, <3>1 DEF ConsoleEndsSession, EndSessions
  <2>3. CASE SessionUndelivered(c)
    BY <2>3 DEF SessionUndelivered, EndSessions, UndeliveredRow
  <2>4. ASSUME NEW d \in Devices, NEW s \in Sessions, StartSession(c, d, s) PROVE Goal
    BY <2>4 DEF StartSession
  <2>5. QED
    BY <1>3, <2>1, <2>2, <2>3, <2>4
    DEF ConsoleStep, ConsoleConnect, ConsoleAccepted, ConsoleDisconnect,
        ConsoleLoginCheckFails, ConsolePass, IssueChallenge, RefuseSession,
        SessionDelivered
<1>4. ASSUME NEW d \in Devices, RevokeDevice(d) PROVE Goal
  BY <1>4 DEF RevokeDevice, RevokeRows
<1>5. CASE Restart
  <2>1. /\ sessions' = EndedRows({s \in Sessions : InSession(s)}, "server_restarted")
        /\ UNCHANGED revoked
    BY <1>5 DEF Restart
  <2>2. QED
    BY <1>1, <2>1
<1>6. CASE \/ \E d \in Devices : RevokeDisconnects(d)
           \/ \E c \in Consoles : RevokeLogin(c)
           \/ UNCHANGED vars
  BY <1>6 DEF RevokeDisconnects, RevokeLogin, vars
<1>7. QED
  BY <1>2, <1>3, <1>4, <1>5, <1>6 DEF Next

-------------------------------------------------------------------------------
\* Every reachable state satisfies the inductive invariant of the sessions, whatever
\* rows the consoles have kept.
THEOREM SessionInvariant == Spec => []SessionInv
  BY InitSessionInv, SessionInvInductive, PTL DEF Spec

\* A row that records an end is rewritten by nothing but the failed delivery of that
\* session's start: not by a late cleanup, a second end, a revocation or a restart.
THEOREM EndsAreFinal == Spec => EndIsRecordedOnce
<1>1. ASSUME TypeOK, [Next]_vars, NEW s \in Sessions,
             sessions[s].status = "ended", sessions'[s] # sessions[s]
      PROVE  \E c \in Consoles : starting[c] = s
  <2>1. CASE Ends
    BY <1>1, <2>1 DEF Ends, EndedRows, InSession
  <2>2. ASSUME NEW c \in Consoles, UndeliveredRow(c)
        PROVE  starting[c] = s
    BY <1>1, <2>2 DEF UndeliveredRow, EndedRows
  <2>3. ASSUME NEW d \in Devices, RevokeRows(d) PROVE FALSE
    BY <1>1, <2>3 DEF RevokeRows, EndedRows, SessionsOf, InSession
  <2>4. ASSUME NEW c \in Consoles, NEW d \in Devices, NEW t \in Sessions,
               StartSession(c, d, t)
        PROVE  FALSE
    BY <1>1, <2>4 DEF StartSession, TypeOK
  <2>5. QED
    BY <1>1, <2>1, <2>2, <2>3, <2>4, RowChange
<1>2. TypeOK /\ [Next]_vars =>
        [\A s \in Sessions :
            sessions[s].status = "ended" /\ sessions'[s] # sessions[s] =>
                \E c \in Consoles : starting[c] = s]_vars
  BY <1>1
<1>3. QED
  BY <1>2, TypeCorrect, PTL DEF Spec, EndIsRecordedOnce

-------------------------------------------------------------------------------
(* The lease.  What SessionInv lacks: a session joins a device and a console of *)
(* the same owner, and a start that waits for its delivery has inserted a row.  *)

OwnersMatch ==
    \A s \in Sessions :
        InSession(s) => DeviceOwner[sessions[s].device] = ConsoleOwner[sessions[s].console]

StartsAreRows ==
    \A c \in Consoles :
        console_pc[c] = "starting" =>
            starting[c] \in Sessions /\ sessions[starting[c]].status # "unused"

LeaseInv == SessionInv /\ OwnersMatch /\ StartsAreRows

\* What ending sessions does to the rows, seen one by one.
LEMMA EndedRow ==
    ASSUME TypeOK, NEW ids, NEW why, sessions' = EndedRows(ids, why), NEW s \in Sessions
    PROVE  /\ s \notin ids => sessions'[s] = sessions[s]
           /\ s \in ids => sessions'[s].status = "ended"
           /\ sessions'[s].device = sessions[s].device
           /\ sessions'[s].console = sessions[s].console
<1>1. sessions[s] \in Row
  BY DEF TypeOK
<1>2. sessions'[s] = IF s \in ids THEN [sessions[s] EXCEPT !.status = "ended", !.reason = why]
                     ELSE sessions[s]
  BY DEF EndedRows
<1>3. QED
  BY <1>1, <1>2 DEF Row

LEMMA OwnersMatchInductive ==
    ASSUME LeaseInv, [Next]_vars
    PROVE  OwnersMatch'
<1>1. TypeOK
  BY DEF LeaseInv, SessionInv
<1>2. ASSUME NEW ids, NEW why, sessions' = EndedRows(ids, why) PROVE OwnersMatch'
  BY <1>1, <1>2, EndedRowsFacts DEF LeaseInv, OwnersMatch
<1>3. ASSUME NEW c \in Consoles, NEW d \in Devices, NEW s \in Sessions, StartSession(c, d, s)
      PROVE  OwnersMatch'
  <2>1. /\ sessions'[s].device = d /\ sessions'[s].console = c
        /\ \A t \in Sessions \ {s} : sessions'[t] = sessions[t]
        /\ DeviceOwner[d] = ConsoleOwner[c]
    BY <1>1, <1>3 DEF StartSession, MayOpen, TypeOK
  <2>2. QED
    BY <2>1 DEF LeaseInv, OwnersMatch, InSession
<1>4. CASE UNCHANGED sessions
  BY <1>4 DEF LeaseInv, OwnersMatch, InSession
<1>5. QED
  BY <1>2, <1>3, <1>4, RowStep

\* No row becomes unused again.
LEMMA RowsStay ==
    ASSUME TypeOK, [Next]_vars, NEW s \in Sessions, sessions[s].status # "unused"
    PROVE  sessions'[s].status # "unused"
<1>1. ASSUME NEW ids, NEW why, sessions' = EndedRows(ids, why)
      PROVE  sessions'[s].status # "unused"
  BY <1>1, EndedRow
<1>2. ASSUME NEW c \in Consoles, NEW d \in Devices, NEW t \in Sessions, StartSession(c, d, t)
      PROVE  sessions'[s].status # "unused"
  BY <1>2 DEF StartSession, TypeOK
<1>3. QED
  BY <1>1, <1>2, RowStep

LEMMA StartsInductive ==
    ASSUME LeaseInv, [Next]_vars
    PROVE  StartsAreRows'
<1>1. TypeOK
  BY DEF LeaseInv, SessionInv
<1>2. \A s \in Sessions : sessions[s].status # "unused" => sessions'[s].status # "unused"
  BY <1>1, RowsStay
<1> SUFFICES ASSUME NEW c \in Consoles, console_pc'[c] = "starting"
             PROVE  starting'[c] \in Sessions /\ sessions'[starting'[c]].status # "unused"
  BY DEF StartsAreRows
<1>3. CASE console_pc[c] = "starting" /\ starting'[c] = starting[c]
  BY <1>2, <1>3 DEF LeaseInv, StartsAreRows
<1>4. ASSUME NEW x \in Consoles, NEW d \in Devices, NEW s \in Sessions, StartSession(x, d, s)
      PROVE  starting'[c] \in Sessions /\ sessions'[starting'[c]].status # "unused"
  <2>1. CASE x = c
    BY <1>1, <1>4, <2>1 DEF StartSession, TypeOK
  <2>2. CASE x # c
    <3>1. console_pc[c] = "starting" /\ starting'[c] = starting[c]
      BY <1>1, <1>4, <2>2 DEF StartSession, TypeOK
    <3>2. QED
      BY <1>3, <3>1
  <2>3. QED
    BY <2>1, <2>2
<1>5. ASSUME NEW x \in Consoles, ConsoleStep(x),
             ~ \E d \in Devices, s \in Sessions : StartSession(x, d, s)
      PROVE  console_pc[c] = "starting" /\ starting'[c] = starting[c]
  BY <1>1, <1>5
  DEF TypeOK, ConsoleStep, ConsoleConnect, ConsoleAccepted, ConsoleDisconnect,
      ConsoleLoginCheckFails, CleanupConsole, ConsolePass, IssueChallenge, RefuseSession,
      SessionDelivered, SessionUndelivered, ConsoleEndsSession
<1>6. ASSUME NEW k \in Sockets, SocketStep(k)
      PROVE  UNCHANGED <<console_pc, starting>>
  BY <1>6 DEF SocketStep, DeviceConnect, DeviceAcceptFails, DeviceAccepted,
              DeviceRejected, DeviceDisconnect, DeviceMessage, DeviceEndsSession,
              CleanupDevice, DeviceGone
<1>7. CASE \/ \E d \in Devices : RevokeDevice(d) \/ RevokeDisconnects(d)
           \/ \E x \in Consoles : RevokeLogin(x)
           \/ UNCHANGED vars
  BY <1>3, <1>7 DEF RevokeDevice, RevokeDisconnects, RevokeLogin, vars
<1>8. CASE Restart
  BY <1>8 DEF Restart
<1>9. QED
  BY <1>3, <1>4, <1>5, <1>6, <1>7, <1>8 DEF Next

LEMMA LeaseInvInductive ==
    ASSUME LeaseInv, [Next]_vars
    PROVE  LeaseInv'
  BY SessionInvInductive, OwnersMatchInductive, StartsInductive DEF LeaseInv

\* How the lease of a session follows from its row.
LEMMA LeaseFacts ==
    ASSUME TypeOK, NEW s \in Sessions
    PROVE  /\ LeaseOf(s).state = "granted" <=> InSession(s)
           /\ InSession(s) => LeaseOf(s) = Lease!Granted(sessions[s].device, sessions[s].console)
           /\ sessions[s].status = "unused" => LeaseOf(s) = Lease!Free
           /\ sessions[s].status = "ended" => LeaseOf(s) = Lease!Ended
<1>1. sessions[s].status \in {"unused", "in_session", "ended"}
  BY DEF TypeOK, Row
<1>2. CASE sessions[s].status = "unused"
  BY <1>2 DEF LeaseOf, InSession, Lease!Free
<1>3. CASE sessions[s].status = "in_session"
  BY <1>3 DEF LeaseOf, InSession, Lease!Granted
<1>4. CASE sessions[s].status = "ended"
  BY <1>4 DEF LeaseOf, InSession, Lease!Ended
<1>5. QED
  BY <1>1, <1>2, <1>3, <1>4

\* The leases of an owner are the sessions of the owner's consoles.
LEMMA LeasesOfOwner ==
    ASSUME LeaseInv, NEW o \in Owners
    PROVE  /\ Lease!GrantedSet = {s \in Sessions : InSession(s)}
           /\ Lease!OwnerLeases(o) = OwnerSessions(o)
<1>1. TypeOK /\ OwnersMatch
  BY DEF LeaseInv, SessionInv
<1>2. Lease!GrantedSet = {s \in Sessions : InSession(s)}
  BY <1>1, LeaseFacts DEF Lease!GrantedSet
<1>3. \A s \in Sessions : InSession(s) => LeaseOf(s).device = sessions[s].device
  BY <1>1, LeaseFacts DEF Lease!Granted
<1>4. Lease!OwnerLeases(o) = OwnerSessions(o)
  BY <1>1, <1>2, <1>3 DEF Lease!OwnerLeases, OwnerSessions, OwnersMatch
<1>5. QED
  BY <1>2, <1>4

\* Ending the sessions in progress among ids ends their leases.
LEMMA EndedLeases ==
    ASSUME LeaseInv, NEW ids, NEW why, sessions' = EndedRows(ids, why),
           \A s \in ids : s \in Sessions => sessions[s].status # "unused"
    PROVE  \A s \in Sessions :
              LeaseOf(s)' = IF s \in ids /\ InSession(s) THEN Lease!Ended ELSE LeaseOf(s)
<1> SUFFICES ASSUME NEW s \in Sessions
             PROVE  LeaseOf(s)' = IF s \in ids /\ InSession(s) THEN Lease!Ended ELSE LeaseOf(s)
  OBVIOUS
<1>1. TypeOK /\ sessions[s].status \in {"unused", "in_session", "ended"}
  BY DEF LeaseInv, SessionInv, TypeOK, Row
<1>2. CASE s \in ids
  <2>1. sessions'[s].status = "ended"
    BY <1>1, <1>2, EndedRow
  <2>2. LeaseOf(s)' = Lease!Ended
    BY <2>1 DEF LeaseOf, InSession, Lease!Ended
  <2>3. CASE InSession(s)
    BY <1>2, <2>2, <2>3
  <2>4. CASE ~InSession(s)
    <3>1. sessions[s].status = "ended"
      BY <1>1, <1>2, <2>4 DEF InSession
    <3>2. LeaseOf(s) = Lease!Ended
      BY <1>1, <3>1, LeaseFacts
    <3>3. QED
      BY <2>2, <2>4, <3>2
  <2>5. QED
    BY <2>3, <2>4
<1>3. CASE s \notin ids
  <2>1. sessions'[s] = sessions[s]
    BY <1>1, <1>3, EndedRow
  <2>2. QED
    BY <1>3, <2>1 DEF LeaseOf, InSession
<1>4. QED
  BY <1>2, <1>3

(* The leases change together in three ways: some sessions end, a device is      *)
(* revoked with all of its own, or a free device is granted.                     *)

SomeEnd ==
    /\ UNCHANGED revoked
    /\ \E ids \in SUBSET {s \in Sessions : InSession(s)} :
          \A s \in Sessions : LeaseOf(s)' = IF s \in ids THEN Lease!Ended ELSE LeaseOf(s)

RevokedLeases(d) ==
    /\ RevokeRows(d)
    /\ \A s \in Sessions :
          LeaseOf(s)' = IF s \in SessionsOf(d) THEN Lease!Ended ELSE LeaseOf(s)

GrantedLease(c, d, s) ==
    /\ StartSession(c, d, s)
    /\ UNCHANGED revoked
    /\ LeaseOf(s)' = Lease!Granted(d, c)
    /\ \A t \in Sessions \ {s} : LeaseOf(t)' = LeaseOf(t)

LEMMA LeaseChange ==
    ASSUME LeaseInv, [Next]_vars
    PROVE  \/ SomeEnd
           \/ \E d \in Devices : RevokedLeases(d)
           \/ \E c \in Consoles, d \in Devices, s \in Sessions : GrantedLease(c, d, s)
<1>1. TypeOK /\ StartsAreRows
  BY DEF LeaseInv, SessionInv
<1>2. CASE UNCHANGED <<sessions, revoked>>
  <2>1. \A s \in Sessions : LeaseOf(s)' = IF s \in {} THEN Lease!Ended ELSE LeaseOf(s)
    BY <1>2 DEF LeaseOf, InSession
  <2>2. {} \in SUBSET {s \in Sessions : InSession(s)}
    OBVIOUS
  <2>3. SomeEnd
    BY <1>2, <2>1, <2>2 DEF SomeEnd
  <2>4. QED
    BY <2>3
<1>3. CASE Ends
  <2>1. PICK ids \in SUBSET {s \in Sessions : InSession(s)} :
                \E why : sessions' = EndedRows(ids, why)
    BY <1>3 DEF Ends
  <2>2. \A s \in Sessions : LeaseOf(s)' = IF s \in ids THEN Lease!Ended ELSE LeaseOf(s)
    BY <2>1, EndedLeases DEF InSession
  <2>3. SomeEnd
    BY <1>3, <2>2 DEF Ends, SomeEnd
  <2>4. QED
    BY <2>3
<1>4. ASSUME NEW c \in Consoles, UndeliveredRow(c) PROVE SomeEnd
  <2>1. starting[c] \in Sessions /\ sessions[starting[c]].status # "unused"
    BY <1>1, <1>4 DEF StartsAreRows, UndeliveredRow
  <2> DEFINE ids == {s \in {starting[c]} : InSession(s)}
  <2>2. \A s \in Sessions :
           LeaseOf(s)' = IF s \in {starting[c]} /\ InSession(s) THEN Lease!Ended ELSE LeaseOf(s)
    BY <1>4, <2>1, EndedLeases DEF UndeliveredRow
  <2>3. \A s \in Sessions : LeaseOf(s)' = IF s \in ids THEN Lease!Ended ELSE LeaseOf(s)
    BY <2>2
  <2>4. ids \in SUBSET {s \in Sessions : InSession(s)} /\ UNCHANGED revoked
    BY <1>4, <2>1 DEF UndeliveredRow
  <2>5. QED
    BY <2>3, <2>4 DEF SomeEnd
<1>5. ASSUME NEW d \in Devices, RevokeRows(d) PROVE RevokedLeases(d)
  <2>1. \A s \in Sessions :
           LeaseOf(s)' = IF s \in SessionsOf(d) /\ InSession(s) THEN Lease!Ended ELSE LeaseOf(s)
    BY <1>5, EndedLeases DEF RevokeRows, SessionsOf, InSession
  <2>2. QED
    BY <1>5, <2>1 DEF RevokedLeases, SessionsOf
<1>6. ASSUME NEW c \in Consoles, NEW d \in Devices, NEW s \in Sessions,
             StartSession(c, d, s), UNCHANGED revoked
      PROVE  GrantedLease(c, d, s)
  <2>1. sessions' = [sessions EXCEPT ![s] =
                        [status |-> "in_session", device |-> d, console |-> c, reason |-> None]]
    BY <1>6 DEF StartSession
  <2>2. sessions'[s] = [status |-> "in_session", device |-> d, console |-> c, reason |-> None]
    BY <1>1, <2>1 DEF TypeOK
  <2>3. LeaseOf(s)' = Lease!Granted(d, c)
    BY <2>2 DEF LeaseOf, InSession, Lease!Granted
  <2>4. \A t \in Sessions \ {s} : LeaseOf(t)' = LeaseOf(t)
    BY <1>1, <2>1 DEF LeaseOf, InSession, TypeOK
  <2>5. QED
    BY <1>6, <2>3, <2>4 DEF GrantedLease
<1>7. QED
  BY <1>1, <1>2, <1>3, <1>4, <1>5, <1>6, RowChange

\* The counts are those of the handlers, under either view of the lease.
LEMMA SameCount ==
    \A S : Lease!Cardinality(S) = Cardinality(S)
  BY DEF Lease!Cardinality, Cardinality

\* What a grant finds: a free session and a free device, within its owner's quota.
LEMMA GrantFinds ==
    ASSUME LeaseInv, NEW c \in Consoles, NEW d \in Devices, NEW s \in Sessions,
           StartSession(c, d, s)
    PROVE  /\ LeaseOf(s) = Lease!Free
           /\ DeviceOwner[d] = ConsoleOwner[c]
           /\ \A t \in Lease!GrantedSet : LeaseOf(t).device # d
           /\ Cardinality(Lease!OwnerLeases(DeviceOwner[d])) < MaxRemoteSessions
<1>1. TypeOK
  BY DEF LeaseInv, SessionInv
<1>2. /\ sessions[s].status = "unused" /\ SessionsOf(d) = {} /\ QuotaLeft(c)
      /\ DeviceOwner[d] = ConsoleOwner[c]
  BY DEF StartSession, DeviceFree, MayOpen
<1>3. DeviceOwner[d] \in Owners
  BY ConstantsAssumption
<1>4. /\ Lease!GrantedSet = {t \in Sessions : InSession(t)}
      /\ Lease!OwnerLeases(DeviceOwner[d]) = OwnerSessions(DeviceOwner[d])
  BY <1>3, LeasesOfOwner
<1>5. LeaseOf(s) = Lease!Free
  BY <1>1, <1>2, LeaseFacts
<1>6. \A t \in Lease!GrantedSet : LeaseOf(t).device # d
  BY <1>1, <1>2, <1>4, LeaseFacts DEF SessionsOf, Lease!Granted
<1>7. QED
  BY <1>2, <1>4, <1>5, <1>6 DEF QuotaLeft

\* Every step of the handlers is a step of the lease, or leaves it alone.
LEMMA LeaseStep ==
    ASSUME RoutedInv, LeaseInv, [Next]_vars
    PROVE  [Lease!LeaseNext]_Lease!leaseVars
<1> DEFINE L == [s \in Sessions |-> LeaseOf(s)]
           W == {d \in Devices : revoked[d]}
<1>1. TypeOK
  BY DEF LeaseInv, SessionInv
<1>2. Lease!GrantedSet = {s \in Sessions : InSession(s)}
  BY <1>1, LeaseFacts DEF Lease!GrantedSet
<1>3. CASE SomeEnd
  <2>1. PICK ids \in SUBSET {s \in Sessions : InSession(s)} :
                \A s \in Sessions :
                   LeaseOf(s)' = IF s \in ids THEN Lease!Ended ELSE LeaseOf(s)
    BY <1>3 DEF SomeEnd
  <2>2. L' = [s \in Sessions |-> IF s \in ids THEN Lease!Ended ELSE L[s]] /\ W' = W
    BY <1>3, <2>1 DEF SomeEnd
  <2>3. Lease!End(ids)
    BY <1>2, <2>2 DEF Lease!End
  <2>4. QED
    BY <2>3 DEF Lease!LeaseNext
<1>4. ASSUME NEW d \in Devices, RevokedLeases(d)
      PROVE  [Lease!LeaseNext]_Lease!leaseVars
  <2>1. \A s \in Sessions :
           s \in SessionsOf(d) <=> s \in Lease!GrantedSet /\ L[s].device = d
    BY <1>1, <1>2, LeaseFacts DEF SessionsOf, Lease!Granted
  <2>2. L' = [s \in Sessions |->
                 IF s \in Lease!GrantedSet /\ L[s].device = d THEN Lease!Ended ELSE L[s]]
    BY <1>4, <2>1 DEF RevokedLeases
  <2>3. d \notin W /\ W' = W \cup {d}
    BY <1>1, <1>4 DEF RevokedLeases, RevokeRows, TypeOK
  <2>4. Lease!Withdraw(d)
    BY <2>2, <2>3 DEF Lease!Withdraw
  <2>5. QED
    BY <2>4 DEF Lease!LeaseNext
<1>5. ASSUME NEW c \in Consoles, NEW d \in Devices, NEW s \in Sessions, GrantedLease(c, d, s)
      PROVE  [Lease!LeaseNext]_Lease!leaseVars
  <2>1. L' = [L EXCEPT ![s] = Lease!Granted(d, c)] /\ W' = W
    BY <1>5 DEF GrantedLease
  <2>2. StartSession(c, d, s)
    BY <1>5 DEF GrantedLease
  <2>3. d \notin W \/ c \in Listing
    BY <2>2 DEF StartSession, MayOpen, SeesLive, RoutedInv
  <2>4. /\ L[s] = Lease!Free
        /\ DeviceOwner[d] = ConsoleOwner[c]
        /\ \A t \in Lease!GrantedSet : L[t].device # d
        /\ Lease!Cardinality(Lease!OwnerLeases(DeviceOwner[d])) < MaxRemoteSessions
    BY <1>2, <2>2, GrantFinds, SameCount
  <2>5. Lease!Grant(s, d, c)
    <3> HIDE DEF L, W
    <3>1. QED
      BY <2>1, <2>3, <2>4 DEF Lease!Grant, L, W
  <2>6. QED
    BY <2>5 DEF Lease!LeaseNext
<1>6. QED
  BY <1>3, <1>4, <1>5, LeaseChange

LEMMA InitLeaseInv == Init => LeaseInv
  BY InitSessionInv
  DEF Init, LeaseInv, OwnersMatch, StartsAreRows, InSession, NoRow

\* Before the first step nothing is leased.
LEMMA InitFree == Init => \A s \in Sessions : LeaseOf(s) = Lease!Free
  BY InitSessionInv, LeaseFacts DEF Init, NoRow, SessionInv

\* Whatever device lists the consoles keep, the handlers implement the exclusive
\* lease: each session is granted once, to a free device and within its owner's
\* quota, and ended once; a device is withdrawn together with its lease, and none of
\* it is granted afterwards but to a console that still holds the row from before.
THEOREM SessionsImplementLease == Spec => ImplementsLease
<1> DEFINE Inv == RoutedInv /\ LeaseInv
<1>1. Init => Inv /\ Lease!LeaseInit
  <2> SUFFICES ASSUME Init PROVE RoutedInv /\ LeaseInv /\ Lease!LeaseInit
    OBVIOUS
  <2>1. RoutedInv
    BY InitSessionInv
    DEF Init, RoutedInv, SessionsAreRouted, OnlyStaleRowsOpenRevoked, SessionsOf,
        InSession, NoRow
  <2>2. {d \in Devices : revoked[d]} = {}
    BY DEF Init
  <2>3. Lease!LeaseInit
    BY <2>2, InitFree DEF Lease!LeaseInit
  <2>4. QED
    BY <2>1, <2>3, InitLeaseInv
<1>2. Inv /\ [Next]_vars => Inv'
  BY RoutedInvInductive, LeaseInvInductive
<1>3. Inv /\ [Next]_vars => [Lease!LeaseNext]_Lease!leaseVars
  BY LeaseStep
<1>4. QED
  BY <1>1, <1>2, <1>3, PTL DEF Spec, ImplementsLease, Lease!LeaseSpec

-------------------------------------------------------------------------------
(* The limits on connections.  A handshake that completes turns its reservation *)
(* into a connection, because it is the only one that holds it.                 *)

ReservationsHeld ==
    /\ \A k \in Sockets :
          device_pc[k] = "accepting" => SocketDevice[k] \in connecting_devices
    /\ \A j, k \in Sockets :
          /\ device_pc[j] = "accepting"
          /\ device_pc[k] = "accepting"
          /\ SocketDevice[j] = SocketDevice[k]
          => j = k
    /\ \A c \in Consoles : console_pc[c] = "accepting" => c \in connecting_consoles

OnlineDevices == {d \in Devices : Online(d)}

\* What a step does to the connections and to the reservations.
NoneAdded ==
    /\ OnlineDevices' \subseteq OnlineDevices
    /\ connecting_devices' \subseteq connecting_devices
    /\ console_connections' \subseteq console_connections
    /\ connecting_consoles' \subseteq connecting_consoles

DeviceReserved(d) ==
    /\ HasConnectionCapacity
    /\ connecting_devices' = connecting_devices \cup {d}
    /\ UNCHANGED <<device_connections, console_connections, connecting_consoles>>

DeviceMoves(d) ==
    /\ d \in connecting_devices
    /\ connecting_devices' = connecting_devices \ {d}
    /\ OnlineDevices' \subseteq OnlineDevices \cup {d}
    /\ UNCHANGED <<console_connections, connecting_consoles>>

ConsoleReserved(c) ==
    /\ HasConnectionCapacity
    /\ Cardinality(OwnerConsoles(ConsoleOwner[c])) < MaxConsoles
    /\ connecting_consoles' = connecting_consoles \cup {c}
    /\ UNCHANGED <<device_connections, connecting_devices, console_connections>>

ConsoleMoves(c) ==
    /\ c \in connecting_consoles
    /\ connecting_consoles' = connecting_consoles \ {c}
    /\ console_connections' = console_connections \cup {c}
    /\ UNCHANGED <<device_connections, connecting_devices>>

LEMMA ConnectionStep ==
    ASSUME TypeOK, ReservationsHeld, [Next]_vars
    PROVE  \/ NoneAdded
           \/ \E d \in Devices : DeviceReserved(d) \/ DeviceMoves(d)
           \/ \E c \in Consoles : ConsoleReserved(c) \/ ConsoleMoves(c)
<1> DEFINE Goal == \/ NoneAdded
                   \/ \E d \in Devices : DeviceReserved(d) \/ DeviceMoves(d)
                   \/ \E c \in Consoles : ConsoleReserved(c) \/ ConsoleMoves(c)
<1> USE ConstantsAssumption
<1>1. ASSUME UNCHANGED <<device_connections, connecting_devices, console_connections,
                         connecting_consoles>>
      PROVE  Goal
  BY <1>1 DEF NoneAdded, OnlineDevices, Online
<1>2. ASSUME NEW d \in Devices,
             device_connections' = [device_connections EXCEPT ![d] = None],
             UNCHANGED <<connecting_devices, console_connections, connecting_consoles>>
      PROVE  Goal
  BY <1>2 DEF NoneAdded, OnlineDevices, Online, TypeOK
<1>3. ASSUME NEW k \in Sockets, SocketStep(k) PROVE Goal
  <2>1. SocketDevice[k] \in Devices
    OBVIOUS
  <2>2. ASSUME NEW live, CleanupDevice(k, live) PROVE Goal
    BY <1>2, <2>1, <2>2 DEF CleanupDevice
  <2>3. CASE DeviceConnect(k)
    BY <2>1, <2>3 DEF DeviceConnect, DeviceReserved
  <2>4. CASE DeviceAcceptFails(k)
    BY <2>4 DEF DeviceAcceptFails, NoneAdded, OnlineDevices, Online
  <2>5. CASE DeviceAccepted(k)
    <3>1. DeviceMoves(SocketDevice[k])
      BY <2>1, <2>5 DEF DeviceAccepted, DeviceMoves, ReservationsHeld, OnlineDevices,
                        Online, TypeOK
    <3>2. QED
      BY <2>1, <3>1
  <2>6. QED
    BY <1>1, <1>3, <2>2, <2>3, <2>4, <2>5
    DEF SocketStep, DeviceRejected, DeviceDisconnect, DeviceMessage, DeviceGone,
        DeviceEndsSession
<1>4. ASSUME NEW c \in Consoles, ConsoleStep(c) PROVE Goal
  <2>1. ASSUME CleanupConsole(c) PROVE Goal
    BY <2>1 DEF CleanupConsole, NoneAdded, OnlineDevices, Online
  <2>2. CASE ConsoleConnect(c)
    BY <2>2 DEF ConsoleConnect, ConsoleReserved
  <2>3. CASE ConsoleAccepted(c)
    BY <2>3 DEF ConsoleAccepted, ConsoleMoves, ReservationsHeld
  <2>4. QED
    BY <1>1, <1>4, <2>1, <2>2, <2>3
    DEF ConsoleStep, ConsoleDisconnect, ConsoleLoginCheckFails, ConsolePass,
        IssueChallenge, RefuseSession, StartSession, SessionDelivered,
        SessionUndelivered, ConsoleEndsSession
<1>5. ASSUME NEW d \in Devices, RevokeDevice(d) \/ RevokeDisconnects(d) PROVE Goal
  BY <1>1, <1>2, <1>5 DEF RevokeDevice, RevokeDisconnects
<1>6. CASE Restart
  BY <1>6 DEF Restart, NoneAdded, OnlineDevices, Online
<1>7. CASE (\E c \in Consoles : RevokeLogin(c)) \/ UNCHANGED vars
  BY <1>1, <1>7 DEF RevokeLogin, vars
<1>8. QED
  BY <1>3, <1>4, <1>5, <1>6, <1>7 DEF Next

LEMMA ReservationsInductive ==
    ASSUME TypeOK, ReservationsHeld, [Next]_vars
    PROVE  ReservationsHeld'
<1> USE ConstantsAssumption DEF TypeOK, ReservationsHeld
<1>1. ASSUME NEW k \in Sockets, SocketStep(k) PROVE ReservationsHeld'
  <2>1. CASE DeviceConnect(k)
    BY <2>1 DEF DeviceConnect
  <2>2. CASE DeviceAcceptFails(k)
    BY <2>2 DEF DeviceAcceptFails
  <2>3. CASE DeviceAccepted(k)
    <3>1. \A j \in Sockets \ {k} : device_pc'[j] = device_pc[j]
      BY <2>3 DEF DeviceAccepted
    <3>2. device_pc'[k] # "accepting"
      BY <2>3 DEF DeviceAccepted
    <3>3. /\ connecting_devices' = connecting_devices \ {SocketDevice[k]}
          /\ device_pc[k] = "accepting"
          /\ UNCHANGED <<connecting_consoles, console_pc>>
      BY <2>3 DEF DeviceAccepted
    <3>4. QED
      BY <3>1, <3>2, <3>3
  <2>4. ASSUME NEW live, CleanupDevice(k, live) PROVE ReservationsHeld'
    BY <2>4 DEF CleanupDevice
  <2>5. ASSUME DeviceGone(k) PROVE ReservationsHeld'
    BY <2>5 DEF DeviceGone
  <2>6. ASSUME UNCHANGED <<connecting_devices, connecting_consoles, device_pc, console_pc>>
        PROVE  ReservationsHeld'
    BY <2>6
  <2>7. QED
    BY <1>1, <2>1, <2>2, <2>3, <2>4, <2>5, <2>6
    DEF SocketStep, DeviceRejected, DeviceDisconnect, DeviceMessage, DeviceEndsSession
<1>2. ASSUME NEW c \in Consoles, ConsoleStep(c) PROVE ReservationsHeld'
  <2>1. ASSUME CleanupConsole(c) PROVE ReservationsHeld'
    BY <2>1 DEF CleanupConsole
  <2>2. CASE ConsoleConnect(c) \/ ConsoleAccepted(c)
    BY <2>2 DEF ConsoleConnect, ConsoleAccepted
  <2>3. CASE ConsolePass(c) \/ (\E d \in Devices : IssueChallenge(c, d) \/ RefuseSession(c, d))
    BY <2>3 DEF ConsolePass, IssueChallenge, RefuseSession
  <2>4. ASSUME NEW d \in Devices, NEW s \in Sessions, StartSession(c, d, s)
        PROVE  ReservationsHeld'
    BY <2>4 DEF StartSession
  <2>5. CASE SessionDelivered(c) \/ SessionUndelivered(c)
    BY <2>5 DEF SessionDelivered, SessionUndelivered
  <2>6. ASSUME NEW s \in Sessions, ConsoleEndsSession(c, s) PROVE ReservationsHeld'
    BY <2>6 DEF ConsoleEndsSession
  <2>7. QED
    BY <1>2, <2>1, <2>2, <2>3, <2>4, <2>5, <2>6
    DEF ConsoleStep, ConsoleDisconnect, ConsoleLoginCheckFails
<1>3. CASE \/ \E d \in Devices : RevokeDevice(d) \/ RevokeDisconnects(d)
           \/ \E c \in Consoles : RevokeLogin(c)
           \/ UNCHANGED vars
  BY <1>3 DEF RevokeDevice, RevokeDisconnects, RevokeLogin, vars
<1>4. CASE Restart
  BY <1>4 DEF Restart
<1>5. QED
  BY <1>1, <1>2, <1>3, <1>4 DEF Next

\* Fewer members, no larger a number.
LEMMA FewerMembers ==
    ASSUME NEW S, IsFiniteSet(S), NEW T \in SUBSET S
    PROVE  /\ IsFiniteSet(T)
           /\ Cardinality(S) \in Nat /\ Cardinality(T) \in Nat
           /\ Cardinality(T) <= Cardinality(S)
  BY FS_Subset, FS_CardinalityType

LEMMA OneMore ==
    ASSUME NEW S, IsFiniteSet(S), NEW x, NEW T \in SUBSET (S \cup {x})
    PROVE  Cardinality(T) <= Cardinality(S) + 1
<1>1. /\ IsFiniteSet(S \cup {x})
      /\ Cardinality(S \cup {x}) = IF x \in S THEN Cardinality(S) ELSE Cardinality(S) + 1
  BY FS_AddElement
<1>2. /\ Cardinality(S) \in Nat /\ Cardinality(S \cup {x}) \in Nat /\ Cardinality(T) \in Nat
      /\ Cardinality(T) <= Cardinality(S \cup {x})
  BY <1>1, FewerMembers
<1>3. Cardinality(S \cup {x}) <= Cardinality(S) + 1
  BY <1>1, <1>2
<1>4. QED
  BY <1>2, <1>3

LEMMA OneLess ==
    ASSUME NEW S, IsFiniteSet(S), NEW x \in S
    PROVE  Cardinality(S \ {x}) = Cardinality(S) - 1
  BY FS_RemoveElement

LEMMA CountInductive ==
    ASSUME TypeOK, TypeOK', ReservationsHeld, ConnectionBounds, [Next]_vars
    PROVE  ConnectionCount' <= MaxConnections
<1> DEFINE On == OnlineDevices
           Cd == connecting_devices
           Kc == console_connections
           Cc == connecting_consoles
<1>1. /\ On \subseteq Devices /\ Cd \subseteq Devices /\ Kc \subseteq Consoles /\ Cc \subseteq Consoles
      /\ On' \subseteq Devices /\ Cd' \subseteq Devices /\ Kc' \subseteq Consoles
      /\ Cc' \subseteq Consoles
  BY DEF TypeOK, OnlineDevices
<1>2. /\ IsFiniteSet(On) /\ IsFiniteSet(Cd) /\ IsFiniteSet(Kc) /\ IsFiniteSet(Cc)
      /\ Cardinality(On) \in Nat /\ Cardinality(Cd) \in Nat
      /\ Cardinality(Kc) \in Nat /\ Cardinality(Cc) \in Nat
      /\ Cardinality(On') \in Nat /\ Cardinality(Cd') \in Nat
      /\ Cardinality(Kc') \in Nat /\ Cardinality(Cc') \in Nat
  BY <1>1, FinitenessAssumption, FewerMembers
<1>3. /\ ConnectionCount = Cardinality(On) + Cardinality(Cd) + Cardinality(Kc) + Cardinality(Cc)
      /\ ConnectionCount' =
            Cardinality(On') + Cardinality(Cd') + Cardinality(Kc') + Cardinality(Cc')
  BY DEF ConnectionCount, OnlineDevices
<1>4. ConnectionCount <= MaxConnections /\ MaxConnections \in Nat
  BY ConstantsAssumption DEF ConnectionBounds
<1>5. CASE NoneAdded
  <2>1. /\ Cardinality(On') <= Cardinality(On) /\ Cardinality(Cd') <= Cardinality(Cd)
        /\ Cardinality(Kc') <= Cardinality(Kc) /\ Cardinality(Cc') <= Cardinality(Cc)
    BY <1>2, <1>5, FewerMembers DEF NoneAdded
  <2> HIDE DEF On, Cd, Kc, Cc
  <2>2. QED
    BY <1>2, <1>3, <1>4, <2>1
<1>6. ASSUME NEW d \in Devices, DeviceReserved(d) PROVE ConnectionCount' <= MaxConnections
  <2>1. ConnectionCount < MaxConnections
    BY <1>6 DEF DeviceReserved, HasConnectionCapacity
  <2>2. On' = On /\ Kc' = Kc /\ Cc' = Cc
    BY <1>6 DEF DeviceReserved, OnlineDevices, Online
  <2>3. Cardinality(Cd') <= Cardinality(Cd) + 1
    BY <1>2, <1>6, OneMore DEF DeviceReserved
  <2> HIDE DEF On, Cd, Kc, Cc
  <2>4. QED
    BY <1>2, <1>3, <1>4, <2>1, <2>2, <2>3
<1>7. ASSUME NEW d \in Devices, DeviceMoves(d) PROVE ConnectionCount' <= MaxConnections
  <2>1. Kc' = Kc /\ Cc' = Cc
    BY <1>7 DEF DeviceMoves
  <2>2. Cardinality(Cd') = Cardinality(Cd) - 1
    BY <1>2, <1>7, OneLess DEF DeviceMoves
  <2>3. Cardinality(On') <= Cardinality(On) + 1
    BY <1>2, <1>7, OneMore DEF DeviceMoves
  <2> HIDE DEF On, Cd, Kc, Cc
  <2>4. QED
    BY <1>2, <1>3, <1>4, <2>1, <2>2, <2>3
<1>8. ASSUME NEW c \in Consoles, ConsoleReserved(c) PROVE ConnectionCount' <= MaxConnections
  <2>1. ConnectionCount < MaxConnections
    BY <1>8 DEF ConsoleReserved, HasConnectionCapacity
  <2>2. On' = On /\ Cd' = Cd /\ Kc' = Kc
    BY <1>8 DEF ConsoleReserved, OnlineDevices, Online
  <2>3. Cardinality(Cc') <= Cardinality(Cc) + 1
    BY <1>2, <1>8, OneMore DEF ConsoleReserved
  <2> HIDE DEF On, Cd, Kc, Cc
  <2>4. QED
    BY <1>2, <1>3, <1>4, <2>1, <2>2, <2>3
<1>9. ASSUME NEW c \in Consoles, ConsoleMoves(c) PROVE ConnectionCount' <= MaxConnections
  <2>1. On' = On /\ Cd' = Cd
    BY <1>9 DEF ConsoleMoves, OnlineDevices, Online
  <2>2. Cardinality(Cc') = Cardinality(Cc) - 1
    BY <1>2, <1>9, OneLess DEF ConsoleMoves
  <2>3. Cardinality(Kc') <= Cardinality(Kc) + 1
    BY <1>2, <1>9, OneMore DEF ConsoleMoves
  <2> HIDE DEF On, Cd, Kc, Cc
  <2>4. QED
    BY <1>2, <1>3, <1>4, <2>1, <2>2, <2>3
<1>10. QED
  BY <1>5, <1>6, <1>7, <1>8, <1>9, ConnectionStep

LEMMA ConsolesInductive ==
    ASSUME TypeOK, ReservationsHeld, ConnectionBounds, [Next]_vars, NEW o \in Owners
    PROVE  Cardinality(OwnerConsoles(o)') <= MaxConsoles
<1>1. IsFiniteSet(OwnerConsoles(o))
  BY FinitenessAssumption, FS_Subset DEF OwnerConsoles, TypeOK
<1>2. Cardinality(OwnerConsoles(o)) <= MaxConsoles /\ MaxConsoles \in Nat
  BY ConstantsAssumption DEF ConnectionBounds
<1>3. ASSUME OwnerConsoles(o)' \subseteq OwnerConsoles(o)
      PROVE  Cardinality(OwnerConsoles(o)') <= MaxConsoles
  <2>1. /\ Cardinality(OwnerConsoles(o)') <= Cardinality(OwnerConsoles(o))
        /\ Cardinality(OwnerConsoles(o)') \in Nat /\ Cardinality(OwnerConsoles(o)) \in Nat
    BY <1>1, <1>3, FewerMembers
  <2>2. QED
    BY <1>2, <2>1
<1>4. ASSUME NEW c \in Consoles, ConsoleReserved(c)
      PROVE  Cardinality(OwnerConsoles(o)') <= MaxConsoles
  <2>1. CASE ConsoleOwner[c] = o
    <3>1. Cardinality(OwnerConsoles(o)) < MaxConsoles
      BY <1>4, <2>1 DEF ConsoleReserved
    <3>2. OwnerConsoles(o)' \subseteq OwnerConsoles(o) \cup {c}
      BY <1>4 DEF ConsoleReserved, OwnerConsoles
    <3>3. Cardinality(OwnerConsoles(o)') <= Cardinality(OwnerConsoles(o)) + 1
      BY <1>1, <3>2, OneMore
    <3>4. Cardinality(OwnerConsoles(o)) \in Nat /\ Cardinality(OwnerConsoles(o)') \in Nat
      <4>1. IsFiniteSet(OwnerConsoles(o) \cup {c})
        BY <1>1, FS_AddElement
      <4>2. QED
        BY <1>1, <3>2, <4>1, FewerMembers, FS_CardinalityType
    <3>5. QED
      BY <1>2, <3>1, <3>3, <3>4
  <2>2. CASE ConsoleOwner[c] # o
    BY <1>3, <1>4, <2>2 DEF ConsoleReserved, OwnerConsoles
  <2>3. QED
    BY <2>1, <2>2
<1>5. CASE \/ NoneAdded
           \/ \E d \in Devices : DeviceReserved(d) \/ DeviceMoves(d)
           \/ \E c \in Consoles : ConsoleMoves(c)
  <2>1. (console_connections \cup connecting_consoles)'
           \subseteq console_connections \cup connecting_consoles
    BY <1>5 DEF NoneAdded, DeviceReserved, DeviceMoves, ConsoleMoves
  <2>2. QED
    BY <1>3, <2>1 DEF OwnerConsoles
<1>6. QED
  BY <1>4, <1>5, ConnectionStep

\* However handshakes overlap, there are never more connections than the setting
\* allows, nor more consoles of one owner.
THEOREM ConnectionSafety == Spec => []ConnectionBounds
<1> DEFINE Inv == TypeOK /\ ReservationsHeld /\ ConnectionBounds
<1>1. Init => Inv
  <2> SUFFICES ASSUME Init PROVE ReservationsHeld /\ ConnectionBounds /\ TypeOK
    OBVIOUS
  <2>1. TypeOK
    BY InitSessionInv DEF SessionInv
  <2>2. ReservationsHeld
    BY DEF Init, ReservationsHeld
  <2>3. ConnectionBounds
    <3>1. {d \in Devices : Online(d)} = {} /\ \A o \in Owners : OwnerConsoles(o) = {}
      BY DEF Init, Online, OwnerConsoles
    <3>2. Cardinality({}) = 0
      BY FS_EmptySet
    <3>3. ConnectionCount = 0
      <4>1. /\ {d \in Devices : Online(d)} = {} /\ connecting_devices = {}
            /\ console_connections = {} /\ connecting_consoles = {}
        BY <3>1 DEF Init
      <4>2. ConnectionCount = 0 + 0 + 0 + 0
        BY <3>2, <4>1, Zenon DEF ConnectionCount
      <4>3. QED
        BY <4>2
    <3>4. QED
      BY <3>1, <3>2, <3>3, ConstantsAssumption DEF ConnectionBounds
  <2>4. QED
    BY <2>1, <2>2, <2>3
<1>2. Inv /\ [Next]_vars => Inv'
  <2> SUFFICES ASSUME TypeOK, ReservationsHeld, ConnectionBounds, [Next]_vars
               PROVE  TypeOK' /\ ReservationsHeld' /\ ConnectionBounds'
    OBVIOUS
  <2>1. TypeOK' /\ ReservationsHeld'
    BY TypeInductive, ReservationsInductive
  <2>2. ConnectionBounds'
    BY <2>1, CountInductive, ConsolesInductive DEF ConnectionBounds
  <2>3. QED
    BY <2>1, <2>2
<1>3. QED
  BY <1>1, <1>2, PTL DEF Spec

-------------------------------------------------------------------------------
(* What the revocation leaves of a device's connection.                         *)

\* A registered socket is one whose handler serves or rejects it, and once the
\* revocation request is through, rejects it.
SocketsMatchMaps ==
    /\ \A d \in Devices : revoked[d] <=> revoke_pc[d] \in {"notifying", "done"}
    /\ \A d \in Devices :
          Online(d) =>
             /\ SocketDevice[device_connections[d]] = d
             /\ device_pc[device_connections[d]] \in {"receiving", "rejecting"}
    /\ \A d \in Devices :
          revoke_pc[d] = "done" /\ Online(d) =>
             device_pc[device_connections[d]] = "rejecting"

\* After the revocation of a device was answered, no handler that takes its messages
\* is registered: a connection that the revocation did not find, because its handshake
\* was under way, is only ever rejected.
RevokedDeviceIsCutOff ==
    \A k \in Sockets :
        revoke_pc[SocketDevice[k]] = "done" /\ device_pc[k] = "receiving" => ~Registered(k)

LEMMA CleanupKeepsSockets ==
    ASSUME TypeOK, SocketsMatchMaps, NEW k \in Sockets, NEW live, CleanupDevice(k, live),
           Registered(k)
    PROVE  SocketsMatchMaps'
<1>1. SocketDevice[k] \in Devices
  BY ConstantsAssumption
<1>2. /\ device_connections' = [device_connections EXCEPT ![SocketDevice[k]] = None]
      /\ device_pc' = [device_pc EXCEPT ![k] = "idle"]
      /\ UNCHANGED <<revoked, revoke_pc>>
  BY DEF CleanupDevice
<1>3. ~Online(SocketDevice[k])'
  BY <1>1, <1>2 DEF Online, TypeOK
<1>4. ASSUME NEW d \in Devices, d # SocketDevice[k], Online(d)'
      PROVE  /\ Online(d) /\ device_connections'[d] = device_connections[d]
             /\ device_pc'[device_connections[d]] = device_pc[device_connections[d]]
  <2>1. Online(d) /\ device_connections'[d] = device_connections[d]
    BY <1>1, <1>2, <1>4 DEF Online, TypeOK
  <2>2. device_connections[d] \in Sockets \ {k}
    BY <1>4, <2>1 DEF Online, SocketsMatchMaps, TypeOK
  <2>3. QED
    BY <1>2, <2>1, <2>2 DEF TypeOK
<1>5. QED
  BY <1>2, <1>3, <1>4 DEF SocketsMatchMaps

LEMMA SocketsInductive ==
    ASSUME TypeOK, SocketsMatchMaps, [Next]_vars
    PROVE  SocketsMatchMaps'
<1> USE ConstantsAssumption
<1>1. ASSUME UNCHANGED <<revoked, revoke_pc, device_connections, device_pc>>
      PROVE  SocketsMatchMaps'
  BY <1>1 DEF SocketsMatchMaps, Online
<1>2. ASSUME NEW k \in Sockets, device_pc[k] \notin {"receiving", "rejecting"} \/ ~Registered(k),
             NEW pc, device_pc' = [device_pc EXCEPT ![k] = pc],
             UNCHANGED <<revoked, revoke_pc, device_connections>>
      PROVE  SocketsMatchMaps'
  <2>1. ASSUME NEW d \in Devices, Online(d) PROVE device_connections[d] \in Sockets \ {k}
    BY <1>2, <2>1 DEF Online, Registered, SocketsMatchMaps, TypeOK
  <2>2. ASSUME NEW d \in Devices, Online(d)
        PROVE  device_pc'[device_connections[d]] = device_pc[device_connections[d]]
    BY <1>2, <2>1, <2>2 DEF TypeOK
  <2>3. QED
    BY <1>2, <2>2 DEF SocketsMatchMaps, Online
<1>3. ASSUME NEW k \in Sockets, SocketStep(k) PROVE SocketsMatchMaps'
  <2>1. CASE DeviceConnect(k) \/ DeviceAcceptFails(k)
    BY <1>2, <2>1 DEF DeviceConnect, DeviceAcceptFails
  <2>2. CASE DeviceAccepted(k)
    <3>1. /\ device_connections' = [device_connections EXCEPT ![SocketDevice[k]] = k]
          /\ device_pc[k] = "accepting"
          /\ UNCHANGED <<revoked, revoke_pc>>
      BY <2>2 DEF DeviceAccepted
    <3>2. /\ device_pc'[k] \in {"receiving", "rejecting"}
          /\ revoked[SocketDevice[k]] => device_pc'[k] = "rejecting"
          /\ \A j \in Sockets \ {k} : device_pc'[j] = device_pc[j]
      BY <2>2 DEF DeviceAccepted, TypeOK
    <3>3. SocketDevice[k] \in Devices /\ device_connections'[SocketDevice[k]] = k
      BY <3>1 DEF TypeOK
    <3>4. ASSUME NEW d \in Devices, d # SocketDevice[k], Online(d)'
          PROVE  /\ Online(d) /\ device_connections'[d] = device_connections[d]
                 /\ device_pc'[device_connections[d]] = device_pc[device_connections[d]]
      <4>1. Online(d) /\ device_connections'[d] = device_connections[d]
        BY <3>1, <3>4 DEF Online, TypeOK
      <4>2. device_connections[d] \in Sockets \ {k}
        BY <3>4, <4>1 DEF Online, SocketsMatchMaps, TypeOK
      <4>3. QED
        BY <3>2, <4>1, <4>2
    <3>5. \A d \in Devices : d # SocketDevice[k] \/ d = SocketDevice[k]
      OBVIOUS
    <3>6. QED
      BY <3>1, <3>2, <3>3, <3>4, <3>5 DEF SocketsMatchMaps
  <2>3. ASSUME NEW live, Registered(k), CleanupDevice(k, live) PROVE SocketsMatchMaps'
    BY <2>3, CleanupKeepsSockets
  <2>4. CASE ~Registered(k) /\ DeviceGone(k)
    BY <1>2, <2>4 DEF DeviceGone
  <2>5. CASE DeviceRejected(k) \/ DeviceDisconnect(k)
    BY <2>3, <2>4, <2>5 DEF DeviceRejected, DeviceDisconnect
  <2>6. CASE DeviceMessage(k)
    BY <1>1, <2>3, <2>4, <2>6 DEF DeviceMessage
  <2>7. ASSUME NEW s \in Sessions, DeviceEndsSession(k, s) PROVE SocketsMatchMaps'
    BY <1>1, <2>7 DEF DeviceEndsSession, EndSessions
  <2>8. QED
    BY <1>3, <2>1, <2>2, <2>5, <2>6, <2>7 DEF SocketStep
<1>4. ASSUME NEW c \in Consoles, ConsoleStep(c) PROVE SocketsMatchMaps'
  BY <1>1, <1>4
  DEF ConsoleStep, ConsoleConnect, ConsoleAccepted, ConsoleDisconnect,
      ConsoleLoginCheckFails, CleanupConsole, ConsolePass, IssueChallenge, RefuseSession,
      StartSession, SessionDelivered, SessionUndelivered, ConsoleEndsSession, EndSessions
<1>5. ASSUME NEW d \in Devices, RevokeDevice(d) \/ RevokeDisconnects(d)
      PROVE  SocketsMatchMaps'
  <2>1. \A e \in Devices \ {d} : /\ revoked'[e] = revoked[e]
                                 /\ revoke_pc'[e] = revoke_pc[e]
                                 /\ device_connections'[e] = device_connections[e]
    BY <1>5 DEF RevokeDevice, RevokeDisconnects, TypeOK
  <2>2. revoked'[d] /\ device_pc' = device_pc
    BY <1>5 DEF RevokeDevice, RevokeDisconnects, SocketsMatchMaps, TypeOK
  <2>3. \/ revoke_pc'[d] = "notifying" /\ device_connections'[d] = device_connections[d]
        \/ revoke_pc'[d] = "done" /\ device_connections'[d] = None
    BY <1>5 DEF RevokeDevice, RevokeDisconnects, TypeOK
  <2>4. QED
    BY <2>1, <2>2, <2>3 DEF SocketsMatchMaps, Online
<1>6. CASE Restart
  BY <1>6 DEF Restart, SocketsMatchMaps, Online, TypeOK
<1>7. CASE (\E c \in Consoles : RevokeLogin(c)) \/ UNCHANGED vars
  BY <1>1, <1>7 DEF RevokeLogin, vars
<1>8. QED
  BY <1>3, <1>4, <1>5, <1>6, <1>7 DEF Next

\* Whatever rows the handlers have kept, and however its handshakes, disconnections and
\* the requests overlap: a device whose revocation was answered is not served again.
THEOREM RevocationCutsOff == Spec => []RevokedDeviceIsCutOff
<1>1. Init => SocketsMatchMaps
  BY DEF Init, SocketsMatchMaps, Online
<1>2. TypeOK /\ SocketsMatchMaps /\ [Next]_vars => SocketsMatchMaps'
  BY SocketsInductive
<1>3. TypeOK /\ SocketsMatchMaps => RevokedDeviceIsCutOff
  BY ConstantsAssumption
  DEF SocketsMatchMaps, RevokedDeviceIsCutOff, Registered, Online, TypeOK
<1>4. QED
  BY <1>1, <1>2, <1>3, TypeCorrect, PTL DEF Spec
=============================================================================
