---------------------------- MODULE WebSocketRelay -----------------------------
(***************************************************************************)
(* The relay between server processes (websocket_relay.py and the part of  *)
(* websocket_manager.py that feeds it and applies what it brings):         *)
(* announcements of devices and sessions, snapshots for a process that     *)
(* starts, messages for devices of another process with their              *)
(* acknowledgements, and failure.                                          *)
(*                                                                         *)
(* Redis hands a published packet to every subscription there is at that   *)
(* moment, in one order, and a subscription that breaks is noticed by its  *)
(* reader.  Messages for consoles take the same path as those for devices; *)
(* announcements of consoles, which their receivers ignore, are left out.  *)
(* A process that starts again has another instance_id; since the ids of   *)
(* requests are not used twice, nothing is meant for its predecessor.      *)
(*                                                                         *)
(* A definition marked "Faulty" is used by no action.                      *)
(***************************************************************************)
EXTENDS Integers, Sequences, FiniteSets, SequencesExt

CONSTANTS
    Instances,      \* the server processes
    Devices,
    Sessions,
    SessionDevice,  \* the device of each session
    Requests,       \* the messages for devices connected elsewhere
    QueueSize,
    MaxUnread,      \* bound on the packets a subscription holds
    MaxStarts,      \* bound on the starts of all processes
    MaxWork,        \* bound on the sessions bound, the messages sent and the ends
                    \* announced by a process that had nothing to end, together
    None

ASSUME RelayAssumption ==
    /\ IsFiniteSet(Devices)
    /\ IsFiniteSet(Sessions)
    /\ SessionDevice \in [Sessions -> Devices]
    /\ QueueSize \in Nat \ {0}
    /\ MaxUnread \in Nat \ {0}
    /\ MaxStarts \in Nat
    /\ MaxWork \in Nat
    /\ None \notin Devices \cup Sessions \cup Requests \cup Instances

VARIABLES
    starts,     \* how often each process was started
    up,         \* the processes that run
    tasks,      \* the tasks of each relay that still run
    away,       \* history: how often a process announced the end of what it had not
    healthy,    \* relays that advertise readiness
    queue,      \* packets for the writer, with the one it publishes
    inbox,      \* packets published to the subscription and not yet read
    handling,   \* the request whose handler the reader awaits
    connected,  \* device_connections
    remote,     \* remote_devices
    routes,     \* session_routes
    own,        \* history: the sessions each process bound itself
    pending,    \* the requests of each relay whose sender waits
    used,       \* request ids
    confirmed,  \* history: requests for which send returned True
    delivered   \* history: requests that reached their device

process == <<starts, up, tasks, away>>
manager == <<connected, remote, routes, own>>
sends == <<pending, used, confirmed>>
vars == <<process, healthy, queue, inbox, handling, manager, sends, delivered>>

Packet ==
    [kind : {"device_connected", "device_disconnected"}, item : Devices]
        \cup [kind : {"session_bound", "session_unbound"}, item : Sessions]
        \cup [kind : {"snapshot_request"}, item : {None}]
        \cup [kind : {"device_message"}, item : Requests, destination : Devices]
        \cup [kind : {"delivered", "undelivered"}, item : Requests]
Pack(kind, item) == [kind |-> kind, item |-> item]
PackEach(kind, items) == [n \in 1..Cardinality(items) |-> Pack(kind, SetToSeq(items)[n])]

TypeOK ==
    /\ starts \in [Instances -> Nat]
    /\ up \subseteq Instances
    /\ away \in Nat
    /\ tasks \in [Instances -> SUBSET {"reader", "writer"}]
    /\ healthy \subseteq {i \in up : tasks[i] = {"reader", "writer"}}
    /\ queue \in [Instances -> Seq(Packet)]
    /\ inbox \in [Instances -> Seq(Packet)]
    /\ \A i \in Instances : Len(queue[i]) <= QueueSize
    /\ \A i \in Instances : tasks[i] # {} => i \in up
    /\ \A i \in Instances :
          /\ "writer" \notin tasks[i] => queue[i] = <<>>
          /\ "reader" \notin tasks[i] => inbox[i] = <<>> /\ handling[i] = None
    /\ handling \in [Instances -> Requests \cup {None}]
    /\ connected \in [Instances -> SUBSET Devices]
    /\ remote \in [Instances -> SUBSET Devices]
    /\ routes \in [Instances -> SUBSET Sessions]
    /\ own \in [Instances -> SUBSET Sessions]
    /\ pending \in [Instances -> SUBSET used]
    /\ \A i \in Instances \ healthy : pending[i] = {}
    /\ used \subseteq Requests
    /\ confirmed \cup delivered \subseteq used

Init ==
    /\ starts = [i \in Instances |-> 0]
    /\ up = {}
    /\ away = 0
    /\ tasks = [i \in Instances |-> {}]
    /\ healthy = {}
    /\ queue = [i \in Instances |-> <<>>]
    /\ inbox = [i \in Instances |-> <<>>]
    /\ handling = [i \in Instances |-> None]
    /\ connected = [i \in Instances |-> {}]
    /\ remote = [i \in Instances |-> {}]
    /\ routes = [i \in Instances |-> {}]
    /\ own = [i \in Instances |-> {}]
    /\ pending = [i \in Instances |-> {}]
    /\ used = {}
    /\ confirmed = {}
    /\ delivered = {}

-------------------------------------------------------------------------------
(* Faulty: requests in progress are left to their timeouts. *)
FailedSilently(i) ==
    /\ healthy' = healthy \ {i}
    /\ UNCHANGED pending

(* _failed: for good, and for everybody who waits. *)
Failed(i) ==
    /\ healthy' = healthy \ {i}
    /\ pending' = [pending EXCEPT ![i] = {}]

Overflows(i, packets) == Len(queue[i]) + Len(packets) > QueueSize

(* _enqueue, for the packets a handler broadcasts in a row: what does not fit
   is dropped with everything after it. *)
Enqueued(i, packets) ==
    LET all == queue[i] \o packets
    IN  IF i \in healthy
        THEN [queue EXCEPT ![i] = SubSeq(all, 1, IF Len(all) > QueueSize
                                                 THEN QueueSize ELSE Len(all))]
        ELSE queue

Broadcast(i, packets) ==
    /\ queue' = Enqueued(i, packets)
    /\ IF i \in healthy /\ Overflows(i, packets) THEN Failed(i)
                                                  ELSE UNCHANGED <<healthy, pending>>

-------------------------------------------------------------------------------
(* start, which subscribes before it advertises anything, and the request for
   a snapshot.  What is published between the two is in the snapshot too. *)
Start(i) ==
    /\ i \notin up
    /\ FoldFunction(+, 0, starts) < MaxStarts
    /\ starts' = [starts EXCEPT ![i] = @ + 1]
    /\ up' = up \cup {i}
    /\ tasks' = [tasks EXCEPT ![i] = {"reader", "writer"}]
    /\ healthy' = healthy \cup {i}
    /\ queue' = [queue EXCEPT ![i] = <<Pack("snapshot_request", None)>>]
    /\ UNCHANGED <<away, inbox, handling, manager, sends, delivered>>

(* The process stops at any point; nothing of it is kept. *)
Stop(i) ==
    /\ i \in up
    /\ up' = up \ {i}
    /\ tasks' = [tasks EXCEPT ![i] = {}]
    /\ healthy' = healthy \ {i}
    /\ queue' = [queue EXCEPT ![i] = <<>>]
    /\ inbox' = [inbox EXCEPT ![i] = <<>>]
    /\ handling' = [handling EXCEPT ![i] = None]
    /\ connected' = [connected EXCEPT ![i] = {}]
    /\ remote' = [remote EXCEPT ![i] = {}]
    /\ routes' = [routes EXCEPT ![i] = {}]
    /\ pending' = [pending EXCEPT ![i] = {}]
    /\ UNCHANGED <<starts, away, own, used, confirmed, delivered>>

ConnectDevice(i, d) ==
    /\ i \in up
    /\ d \notin connected[i]
    /\ connected' = [connected EXCEPT ![i] = @ \cup {d}]
    /\ Broadcast(i, <<Pack("device_connected", d)>>)
    /\ UNCHANGED <<process, inbox, handling, remote, routes, own, used, confirmed, delivered>>

Work == Cardinality(used) + Cardinality(UNION {own[i] : i \in Instances}) + away

(* An end is announced whether or not there was something to end here. *)
HereOrAway(here) ==
    \/ here /\ UNCHANGED away
    \/ ~here /\ Work < MaxWork /\ away' = away + 1

(* The end of a device's connection here, or its revocation, which may be
   handled by a process that the device is not connected to: the routes that
   are known go, learned ones too, and the packet is broadcast in any case.
   remote_devices is left alone. *)
DisconnectDevice(i, d) ==
    LET ended == {s \in routes[i] : SessionDevice[s] = d}
    IN  /\ i \in up
        /\ HereOrAway(d \in connected[i])
        /\ connected' = [connected EXCEPT ![i] = @ \ {d}]
        /\ routes' = [routes EXCEPT ![i] = @ \ ended]
        /\ Broadcast(i, PackEach("session_unbound", ended)
                            \o <<Pack("device_disconnected", d)>>)
        /\ UNCHANGED <<starts, up, tasks, inbox, handling, remote, own, used, confirmed,
                       delivered>>

IsDeviceOnline(i, d) == d \in connected[i] \/ (i \in healthy /\ d \in remote[i])

(* A session is started by a console of this process, with a new id. *)
BindSession(i, s) ==
    /\ i \in up
    /\ Work < MaxWork
    /\ \A j \in Instances : s \notin own[j]
    /\ IsDeviceOnline(i, SessionDevice[s])
    /\ routes' = [routes EXCEPT ![i] = @ \cup {s}]
    /\ own' = [own EXCEPT ![i] = @ \cup {s}]
    /\ Broadcast(i, <<Pack("session_bound", s)>>)
    /\ UNCHANGED <<process, inbox, handling, connected, remote, used, confirmed,
                   delivered>>

(* Also of a session in the database that another process binds or is about
   to: a revocation ends every one of the device. *)
UnbindSession(i, s) ==
    /\ i \in up
    /\ HereOrAway(s \in routes[i])
    /\ routes' = [routes EXCEPT ![i] = @ \ {s}]
    /\ Broadcast(i, <<Pack("session_unbound", s)>>)
    /\ UNCHANGED <<starts, up, tasks, inbox, handling, connected, remote, own, used,
                   confirmed, delivered>>

(* send, for a device that is not connected here. *)
SendToDevice(i, d, r) ==
    LET packet == [kind |-> "device_message", item |-> r, destination |-> d]
    IN  /\ i \in up
        /\ Work < MaxWork
        /\ d \notin connected[i]
        /\ r \notin used
        /\ used' = used \cup {r}
        /\ queue' = Enqueued(i, <<packet>>)
        /\ IF i \in healthy /\ ~Overflows(i, <<packet>>)
           THEN pending' = [pending EXCEPT ![i] = @ \cup {r}] /\ UNCHANGED healthy
           ELSE Failed(i)
        /\ UNCHANGED <<process, inbox, handling, manager, confirmed, delivered>>

SendTimesOut(i, r) ==
    /\ r \in pending[i]
    /\ pending' = [pending EXCEPT ![i] = @ \ {r}]
    /\ UNCHANGED <<process, healthy, queue, inbox, handling, manager, used, confirmed,
                   delivered>>

-------------------------------------------------------------------------------
Receivers(i) == {j \in Instances \ {i} : "reader" \in tasks[j]}

Publish(i, packet) ==
    /\ \A j \in Receivers(i) : Len(inbox[j]) < MaxUnread
    /\ inbox' = [j \in Instances |->
                    IF j \in Receivers(i) THEN Append(inbox[j], packet) ELSE inbox[j]]

(* _write *)
Write(i) ==
    /\ "writer" \in tasks[i]
    /\ queue[i] # <<>>
    /\ Publish(i, Head(queue[i]))
    /\ queue' = [queue EXCEPT ![i] = Tail(@)]
    /\ UNCHANGED <<process, healthy, handling, manager, sends, delivered>>

(* What is left in the queue stays there: nobody takes it.  The last packet may
   have been published all the same. *)
WriterFails(i) ==
    /\ "writer" \in tasks[i]
    /\ tasks' = [tasks EXCEPT ![i] = @ \ {"writer"}]
    /\ queue' = [queue EXCEPT ![i] = <<>>]
    /\ Failed(i)
    /\ UNCHANGED <<starts, up, away, inbox, handling, manager, used, confirmed,
                   delivered>>

(* _read takes the next packet. *)
Reads(i, packet) ==
    /\ inbox[i] # <<>>
    /\ handling[i] = None
    /\ packet = Head(inbox[i])
    /\ inbox' = [inbox EXCEPT ![i] = Tail(@)]

(* handle_relay_message: announcements. *)
ApplyAnnouncement(i) ==
    /\ \E packet \in Packet :
          /\ Reads(i, packet)
          /\ \/ /\ packet.kind = "device_connected"
                /\ remote' = [remote EXCEPT ![i] = @ \cup {packet.item}]
                /\ UNCHANGED routes
             \/ /\ packet.kind = "device_disconnected"
                /\ remote' = [remote EXCEPT ![i] = @ \ {packet.item}]
                /\ UNCHANGED routes
             \/ /\ packet.kind = "session_bound"
                /\ routes' = [routes EXCEPT ![i] = @ \cup {packet.item}]
                /\ UNCHANGED remote
             \/ /\ packet.kind = "session_unbound"
                /\ routes' = [routes EXCEPT ![i] = @ \ {packet.item}]
                /\ UNCHANGED remote
    /\ UNCHANGED <<process, healthy, queue, handling, connected, own, sends,
                   delivered>>

(* Faulty: only the devices that connect from now on are announced. *)
SnapshotOfRoutes(i) == PackEach("session_bound", routes[i])

Snapshot(i) ==
    PackEach("device_connected", connected[i]) \o PackEach("session_bound", routes[i])

AnswerSnapshot(i) ==
    /\ Reads(i, Pack("snapshot_request", None))
    /\ Broadcast(i, Snapshot(i))
    /\ UNCHANGED <<process, handling, manager, used, confirmed, delivered>>

(* A message for a device that is not connected here is not answered. *)
TakeMessage(i) ==
    /\ \E r \in Requests, d \in Devices :
          /\ Reads(i, [kind |-> "device_message", item |-> r, destination |-> d])
          /\ handling' = [handling EXCEPT ![i] = IF d \in connected[i] THEN r ELSE None]
    /\ UNCHANGED <<process, healthy, queue, manager, sends, delivered>>

Delivers(i) ==
    /\ handling[i] # None
    /\ delivered' = delivered \cup {handling[i]}
    /\ Publish(i, Pack("delivered", handling[i]))
    /\ handling' = [handling EXCEPT ![i] = None]
    /\ UNCHANGED <<process, healthy, queue, manager, sends>>

DeliveryFails(i) ==
    /\ handling[i] # None
    /\ Publish(i, Pack("undelivered", handling[i]))
    /\ handling' = [handling EXCEPT ![i] = None]
    /\ UNCHANGED <<process, healthy, queue, manager, sends, delivered>>

(* Faulty: whatever was answered counts as an acknowledgement. *)
AnyIsOk(packet) == TRUE

Ok(packet) == packet.kind = "delivered"

(* Only a request that is still pending learns of an answer. *)
TakeReply(i) ==
    /\ \E packet \in Packet :
          /\ packet.kind \in {"delivered", "undelivered"}
          /\ Reads(i, packet)
          /\ pending' = [pending EXCEPT ![i] = @ \ {packet.item}]
          /\ confirmed' = IF Ok(packet) THEN confirmed \cup (pending[i] \cap {packet.item})
                                        ELSE confirmed
    /\ UNCHANGED <<process, healthy, queue, handling, manager, used, delivered>>

(* The subscription breaks, an acknowledgement cannot be published, or a
   handler took too long: the last is a TimeoutError, which _read does not
   take for an invalid packet.  A delivery in progress may have happened. *)
ReaderFails(i) ==
    /\ "reader" \in tasks[i]
    /\ tasks' = [tasks EXCEPT ![i] = @ \ {"reader"}]
    /\ inbox' = [inbox EXCEPT ![i] = <<>>]
    /\ handling' = [handling EXCEPT ![i] = None]
    /\ delivered' \in {delivered, delivered \cup ({handling[i]} \ {None})}
    /\ Failed(i)
    /\ UNCHANGED <<starts, up, away, queue, manager, used, confirmed>>

-------------------------------------------------------------------------------
Read(i) ==
    ApplyAnnouncement(i) \/ AnswerSnapshot(i) \/ TakeMessage(i) \/ TakeReply(i)

Handler(i) == Delivers(i) \/ DeliveryFails(i)

Local(i) ==
    \/ Start(i)
    \/ Stop(i)
    \/ \E d \in Devices :
          \/ ConnectDevice(i, d)
          \/ DisconnectDevice(i, d)
          \/ \E r \in Requests : SendToDevice(i, d, r)
    \/ \E s \in Sessions : BindSession(i, s) \/ UnbindSession(i, s)

Next ==
    \E i \in Instances :
        \/ Local(i)
        \/ Write(i) \/ WriterFails(i)
        \/ Read(i) \/ Handler(i) \/ ReaderFails(i)
        \/ \E r \in Requests : SendTimesOut(i, r)

Spec == Init /\ [][Next]_vars

-------------------------------------------------------------------------------
(* A message counts as delivered only if it was: an acknowledgement that comes
   after the timeout, an undelivered one and a failure of either relay are
   never taken for it. *)
ConfirmedIsDelivered == confirmed \subseteq delivered

Quiet ==
    \A i \in Instances : queue[i] = <<>> /\ inbox[i] = <<>> /\ handling[i] = None

(* Two processes with healthy relays agree, once everything is read, on which
   devices are connected to the other: whoever started first, and whatever
   was announced while one was starting.  Only devices of a process that
   stopped without a word remain. *)
ViewsAgree ==
    Quiet => \A i, j \in healthy : i # j =>
        /\ connected[j] \subseteq remote[i]
        /\ starts[j] = 1 => remote[i] = connected[j]

(* docs/websocket-relay.md: "Received messages are not published again."  What
   a process announces is what it bound itself. *)
NotPublishedAgain ==
    \A i \in Instances, s \in Sessions :
        Contains(queue[i], Pack("session_bound", s)) => s \in own[i]
===============================================================================
