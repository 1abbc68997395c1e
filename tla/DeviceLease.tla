------------------------------ MODULE DeviceLease ------------------------------
(* What remote-control sessions promise, without handlers, sockets or caches:   *)
(* a session is a lease of one device to one console.  A lease is granted once, *)
(* while its device is free and its owner under the quota, and ended once; a    *)
(* withdrawn device loses its lease in the step that withdraws it, and only a   *)
(* console that may act on what it read before gets one of it afterwards.       *)
EXTENDS Naturals, FiniteSets

CONSTANTS Devices, Consoles, Sessions, Owners, DeviceOwner, ConsoleOwner,
          MaxRemoteSessions,
          Late         \* consoles that may not have seen a withdrawal yet

VARIABLES
    lease,       \* session -> free, or whom the device is leased to, or ended
    withdrawn    \* devices whose owner has revoked them

Free == [state |-> "free"]
Granted(d, c) == [state |-> "granted", device |-> d, console |-> c]
Ended == [state |-> "ended"]

GrantedSet == {s \in Sessions : lease[s].state = "granted"}
OwnerLeases(o) == {s \in GrantedSet : DeviceOwner[lease[s].device] = o}

LeaseInit ==
    /\ lease = [s \in Sessions |-> Free]
    /\ withdrawn = {}

Grant(s, d, c) ==
    /\ lease[s] = Free
    /\ d \notin withdrawn \/ c \in Late
    /\ DeviceOwner[d] = ConsoleOwner[c]
    /\ \A t \in GrantedSet : lease[t].device # d
    /\ Cardinality(OwnerLeases(DeviceOwner[d])) < MaxRemoteSessions
    /\ lease' = [lease EXCEPT ![s] = Granted(d, c)]
    /\ UNCHANGED withdrawn

End(S) ==
    /\ S \subseteq GrantedSet
    /\ lease' = [s \in Sessions |-> IF s \in S THEN Ended ELSE lease[s]]
    /\ UNCHANGED withdrawn

Withdraw(d) ==
    /\ d \notin withdrawn
    /\ withdrawn' = withdrawn \cup {d}
    /\ lease' = [s \in Sessions |->
                    IF s \in GrantedSet /\ lease[s].device = d THEN Ended ELSE lease[s]]

LeaseNext ==
    \/ \E s \in Sessions, d \in Devices, c \in Consoles : Grant(s, d, c)
    \/ \E S \in SUBSET Sessions : End(S)
    \/ \E d \in Devices : Withdraw(d)

leaseVars == <<lease, withdrawn>>

LeaseSpec == LeaseInit /\ [][LeaseNext]_leaseVars
=============================================================================
