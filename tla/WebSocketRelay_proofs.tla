-------------------------- MODULE WebSocketRelay_proofs ------------------------
(* Proofs about WebSocketRelay. *)
EXTENDS WebSocketRelay, FiniteSetTheorems, SequenceTheorems, TLAPS

(* What may be on its way: packets about requests that were sent, and
   acknowledgements of messages that were delivered. *)
Sound ==
    {p \in Packet :
        /\ p.kind \in {"device_message", "delivered", "undelivered"} => p.item \in used
        /\ p.kind = "delivered" => p.item \in delivered}

PacketsInv ==
    /\ queue \in [Instances -> Seq(Sound)]
    /\ inbox \in [Instances -> Seq(Sound)]
    /\ handling \in [Instances -> used \cup {None}]

RelayInv == TypeOK /\ PacketsInv /\ ConfirmedIsDelivered

-------------------------------------------------------------------------------
(* Lemmas about packets and queues. *)
LEMMA SetToSeqIsSeq ==
    ASSUME NEW S, IsFiniteSet(S)
    PROVE  /\ Cardinality(S) \in Nat
           /\ SetToSeq(S) \in [1..Cardinality(S) -> S]
<1>1. /\ Cardinality(S) \in Nat
      /\ \E f \in [1..Cardinality(S) -> S] : IsInjective(f)
  BY FS_CardinalityType DEF ExistsBijection, Bijection, Injection
<1> QED  BY <1>1 DEF SetToSeq

LEMMA AnnouncementsAreSound ==
    /\ \A d \in Devices : {Pack("device_connected", d), Pack("device_disconnected", d)}
                             \subseteq Sound
    /\ \A s \in Sessions : {Pack("session_bound", s), Pack("session_unbound", s)}
                             \subseteq Sound
    /\ Pack("snapshot_request", None) \in Sound
  BY DEF Sound, Packet, Pack

LEMMA PackEachIsSound ==
    ASSUME NEW kind, NEW items, IsFiniteSet(items),
           \A x \in items : Pack(kind, x) \in Sound
    PROVE  PackEach(kind, items) \in Seq(Sound)
<1> DEFINE n == Cardinality(items)
<1>1. n \in Nat /\ SetToSeq(items) \in [1..n -> items]
  BY SetToSeqIsSeq
<1>2. PackEach(kind, items) = [m \in 1..n |-> Pack(kind, SetToSeq(items)[m])]
  BY DEF PackEach
<1>3. PackEach(kind, items) \in [1..n -> Sound]
  BY <1>1, <1>2
<1> HIDE DEF n
<1> QED  BY <1>1, <1>3

LEMMA SoundGrows ==
    ASSUME used \subseteq used', delivered \subseteq delivered'
    PROVE  /\ Sound \subseteq Sound'
           /\ \A f \in [Instances -> Seq(Sound)] : f \in [Instances -> Seq(Sound')]
<1>1. Sound \subseteq Sound'
  BY DEF Sound
<1>2. \A q \in Seq(Sound) : q \in Seq(Sound')
  BY <1>1, SeqMonotonic
<1> QED  BY <1>1, <1>2

LEMMA SoundIsPacket ==
    \A f \in [Instances -> Seq(Sound)] : f \in [Instances -> Seq(Packet)]
<1>1. Sound \subseteq Packet
  BY DEF Sound
<1>2. \A q \in Seq(Sound) : q \in Seq(Packet)
  BY <1>1, SeqMonotonic
<1> QED  BY <1>2

LEMMA OnePacket ==
    ASSUME NEW S, NEW e \in S
    PROVE  <<e>> \in Seq(S) /\ Len(<<e>>) = 1
  OBVIOUS

(* What _enqueue leaves of a queue. *)
LEMMA EnqueuedQueue ==
    ASSUME NEW S, queue \in [Instances -> Seq(S)],
           \A j \in Instances : Len(queue[j]) <= QueueSize,
           NEW i \in Instances, NEW packets \in Seq(S)
    PROVE  /\ Enqueued(i, packets) \in [Instances -> Seq(S)]
           /\ \A j \in Instances : Len(Enqueued(i, packets)[j]) <= QueueSize
           /\ \A j \in Instances :
                 Enqueued(i, packets)[j] = queue[j] \/ (j = i /\ i \in healthy)
<1> USE RelayAssumption
<1> DEFINE all == queue[i] \o packets
           room == IF Len(all) > QueueSize THEN QueueSize ELSE Len(all)
<1>1. all \in Seq(S) /\ Len(all) \in Nat
  BY ConcatProperties, LenProperties
<1>2. room \in Nat /\ room <= Len(all) /\ room <= QueueSize
  BY <1>1
<1>3. \A n \in 1..room : all[n] \in S
  BY <1>1, <1>2, ElementOfSeq
<1> HIDE DEF all, room
<1>4. SubSeq(all, 1, room) \in Seq(S) /\ Len(SubSeq(all, 1, room)) <= QueueSize
  BY <1>2, <1>3, SubSeqProperties
<1>5. Enqueued(i, packets) = IF i \in healthy THEN [queue EXCEPT ![i] = SubSeq(all, 1, room)]
                                              ELSE queue
  BY DEF Enqueued, all, room
<1> QED  BY <1>4, <1>5

LEMMA PublishedInbox ==
    ASSUME NEW S, inbox \in [Instances -> Seq(S)],
           NEW i \in Instances, NEW packet \in S, Publish(i, packet)
    PROVE  /\ inbox' \in [Instances -> Seq(S)]
           /\ \A j \in Instances : "reader" \notin tasks[j] => inbox'[j] = inbox[j]
<1>1. \A j \in Instances : Append(inbox[j], packet) \in Seq(S)
  OBVIOUS
<1> QED  BY <1>1 DEF Publish, Receivers

LEMMA ReadPacket ==
    ASSUME NEW S, inbox \in [Instances -> Seq(S)],
           NEW i \in Instances, NEW packet, Reads(i, packet)
    PROVE  /\ packet \in S
           /\ inbox' \in [Instances -> Seq(S)]
           /\ \A j \in Instances : inbox[j] = <<>> => inbox'[j] = inbox[j]
<1>1. Head(inbox[i]) \in S /\ Tail(inbox[i]) \in Seq(S)
  BY HeadTailProperties DEF Reads
<1> QED  BY <1>1 DEF Reads

-------------------------------------------------------------------------------
ManagerType ==
    /\ connected \in [Instances -> SUBSET Devices]
    /\ remote \in [Instances -> SUBSET Devices]
    /\ routes \in [Instances -> SUBSET Sessions]
    /\ own \in [Instances -> SUBSET Sessions]

(* A step that leaves the packets in queues and inboxes sound and what was
   found out about requests as it is, or settles it. *)
LEMMA BroadcastKeepsInv ==
    ASSUME RelayInv, NEW i \in Instances, NEW packets \in Seq(Sound),
           Broadcast(i, packets), away' \in Nat,
           UNCHANGED <<starts, up, tasks, handling, used, confirmed, delivered>>,
           inbox' \in [Instances -> Seq(Sound)],
           \A j \in Instances : inbox[j] = <<>> => inbox'[j] = <<>>,
           ManagerType'
    PROVE  RelayInv'
<1> USE DEF RelayInv, process
<1>1. /\ queue' \in [Instances -> Seq(Sound)]
      /\ \A j \in Instances : Len(queue'[j]) <= QueueSize
      /\ \A j \in Instances : queue'[j] = queue[j] \/ (j = i /\ i \in healthy)
  <2>1. queue \in [Instances -> Seq(Sound)]
    BY DEF PacketsInv
  <2>2. \A j \in Instances : Len(queue[j]) <= QueueSize
    BY DEF TypeOK
  <2>3. /\ Enqueued(i, packets) \in [Instances -> Seq(Sound)]
        /\ \A j \in Instances : Len(Enqueued(i, packets)[j]) <= QueueSize
        /\ \A j \in Instances :
              Enqueued(i, packets)[j] = queue[j] \/ (j = i /\ i \in healthy)
    <3> HIDE DEF RelayInv, process
    <3> QED  BY <2>1, <2>2, EnqueuedQueue, ZenonT(40)
  <2>4. queue' = Enqueued(i, packets)
    BY DEF Broadcast
  <2> QED  BY <2>3, <2>4
<1>2. UNCHANGED Sound
  BY DEF Sound
<1>3. PacketsInv'
  BY <1>1, <1>2 DEF PacketsInv
<1>4. /\ queue' \in [Instances -> Seq(Packet)]
      /\ inbox' \in [Instances -> Seq(Packet)]
  BY <1>1, SoundIsPacket
<1>5. /\ healthy' \subseteq healthy
      /\ pending' \in [Instances -> SUBSET used]
      /\ \A j \in Instances \ healthy' : pending'[j] = {}
  BY DEF TypeOK, Broadcast, Failed
<1>6. TypeOK'
  BY <1>1, <1>4, <1>5 DEF TypeOK, ManagerType
<1> QED  BY <1>3, <1>6 DEF ConfirmedIsDelivered

LEMMA InitInv == Init => RelayInv
<1> SUFFICES ASSUME Init PROVE RelayInv
  OBVIOUS
<1> USE RelayAssumption
<1>1. /\ queue \in [Instances -> Seq(Sound)] /\ inbox \in [Instances -> Seq(Sound)]
      /\ queue \in [Instances -> Seq(Packet)] /\ inbox \in [Instances -> Seq(Packet)]
      /\ \A i \in Instances : Len(queue[i]) <= QueueSize
  BY EmptySeq DEF Init
<1> QED  BY <1>1 DEF Init, RelayInv, TypeOK, PacketsInv, ConfirmedIsDelivered

LEMMA StartInv ==
    ASSUME RelayInv, NEW i \in Instances, Start(i)
    PROVE  RelayInv'
<1> USE RelayAssumption DEF RelayInv, Start, manager, sends
<1>1. UNCHANGED Sound
  BY DEF Sound
<1>2. Pack("snapshot_request", None) \in Sound
  BY AnnouncementsAreSound
<1>3. /\ <<Pack("snapshot_request", None)>> \in Seq(Sound)
      /\ Len(<<Pack("snapshot_request", None)>>) = 1
  BY <1>2, OnePacket
<1>4. queue' \in [Instances -> Seq(Sound)]
  BY <1>3 DEF PacketsInv
<1>5. PacketsInv'
  BY <1>1, <1>4 DEF PacketsInv
<1>6. queue' \in [Instances -> Seq(Packet)]
  BY <1>4, SoundIsPacket
<1>7. \A j \in Instances : Len(queue'[j]) <= QueueSize
  <2> HIDE DEF RelayInv, manager, sends
  <2>1. queue' = [queue EXCEPT ![i] = <<Pack("snapshot_request", None)>>]
    OBVIOUS
  <2>2. queue \in [Instances -> Seq(Sound)] /\ \A j \in Instances : Len(queue[j]) <= QueueSize
    BY DEF RelayInv, PacketsInv, TypeOK
  <2> HIDE DEF Start
  <2>3. ASSUME NEW j \in Instances PROVE Len(queue'[j]) <= QueueSize
    BY <2>1, <2>2, <1>3
  <2> QED  BY <2>3
<1>8. /\ starts' \in [Instances -> Nat]
      /\ tasks' \in [Instances -> SUBSET {"reader", "writer"}]
      /\ \A j \in Instances : j # i => tasks'[j] = tasks[j] /\ queue'[j] = queue[j]
      /\ tasks'[i] = {"reader", "writer"}
  <2>1. /\ starts \in [Instances -> Nat]
        /\ tasks \in [Instances -> SUBSET {"reader", "writer"}]
        /\ queue \in [Instances -> Seq(Packet)]
    BY DEF TypeOK
  <2>2. /\ starts' = [starts EXCEPT ![i] = @ + 1]
        /\ tasks' = [tasks EXCEPT ![i] = {"reader", "writer"}]
        /\ queue' = [queue EXCEPT ![i] = <<Pack("snapshot_request", None)>>]
    OBVIOUS
  <2> HIDE DEF RelayInv, Start
  <2>3. starts[i] + 1 \in Nat
    BY <2>1
  <2> QED  BY <2>1, <2>2, <2>3
<1>9. healthy' \subseteq {j \in up' : tasks'[j] = {"reader", "writer"}}
  BY <1>8 DEF TypeOK
<1>10. /\ \A j \in Instances :
            /\ "writer" \notin tasks'[j] => queue'[j] = <<>>
            /\ "reader" \notin tasks'[j] => inbox'[j] = <<>> /\ handling'[j] = None
       /\ \A j \in Instances : tasks'[j] # {} => j \in up'
       /\ up' \subseteq Instances
       /\ \A j \in Instances \ healthy' : pending'[j] = {}
  <2>1. \A j \in Instances : inbox'[j] = inbox[j] /\ handling'[j] = handling[j]
    OBVIOUS
  <2>2. /\ \A j \in Instances \ healthy : pending[j] = {}
        /\ up \subseteq Instances
        /\ \A j \in Instances : tasks[j] # {} => j \in up
        /\ \A j \in Instances :
              /\ "writer" \notin tasks[j] => queue[j] = <<>>
              /\ "reader" \notin tasks[j] => inbox[j] = <<>> /\ handling[j] = None
    BY DEF TypeOK
  <2>3. up' = up \cup {i} /\ healthy' = healthy \cup {i} /\ pending' = pending
    OBVIOUS
  <2> HIDE DEF RelayInv, Start
  <2> QED  BY <1>8, <2>1, <2>2, <2>3
<1>11. TypeOK'
  BY <1>6, <1>7, <1>8, <1>9, <1>10 DEF TypeOK
<1> QED  BY <1>5, <1>11 DEF ConfirmedIsDelivered

(* Whatever ends, a process or one of its tasks, leaves nothing to be read or
   written by it and nobody waiting for it. *)
LEMMA EndKeepsInv ==
    ASSUME RelayInv, NEW i \in Instances,
           tasks' \in [Instances -> SUBSET {"reader", "writer"}],
           \A j \in Instances : j # i => tasks'[j] = tasks[j],
           tasks'[i] \subseteq tasks[i], UNCHANGED <<starts, away, used, confirmed>>,
           up' \subseteq up, \A j \in up : j # i => j \in up', tasks'[i] # {} => i \in up',
           healthy' = healthy \ {i}, pending' = [pending EXCEPT ![i] = {}],
           queue' = queue \/ queue' = [queue EXCEPT ![i] = <<>>],
           inbox' = inbox \/ inbox' = [inbox EXCEPT ![i] = <<>>],
           handling' = handling \/ handling' = [handling EXCEPT ![i] = None],
           "writer" \notin tasks'[i] => queue'[i] = <<>>,
           "reader" \notin tasks'[i] => inbox'[i] = <<>> /\ handling'[i] = None,
           delivered \subseteq delivered', delivered' \subseteq used,
           ManagerType'
    PROVE  RelayInv'
<1> USE RelayAssumption DEF RelayInv
<1>1. queue' \in [Instances -> Seq(Sound)] /\ inbox' \in [Instances -> Seq(Sound)]
  <2>1. <<>> \in Seq(Sound)
    BY EmptySeq
  <2>2. queue \in [Instances -> Seq(Sound)] /\ inbox \in [Instances -> Seq(Sound)]
    BY DEF PacketsInv
  <2>3. queue' \in [Instances -> Seq(Sound)]
    BY <2>1, <2>2
  <2>4. inbox' \in [Instances -> Seq(Sound)]
    BY <2>1, <2>2
  <2> QED  BY <2>3, <2>4
<1>2. queue' \in [Instances -> Seq(Sound')] /\ inbox' \in [Instances -> Seq(Sound')]
  BY <1>1, SoundGrows
<1>3. handling' \in [Instances -> used \cup {None}]
  BY DEF PacketsInv
<1>4. PacketsInv'
  BY <1>2, <1>3 DEF PacketsInv
<1>5. queue' \in [Instances -> Seq(Packet)] /\ inbox' \in [Instances -> Seq(Packet)]
  BY <1>1, SoundIsPacket
<1>6. \A j \in Instances : Len(queue'[j]) <= QueueSize
  <2>1. queue \in [Instances -> Seq(Packet)] /\ \A j \in Instances : Len(queue[j]) <= QueueSize
    BY DEF TypeOK
  <2>2. Len(<<>>) = 0
    OBVIOUS
  <2> QED  BY <2>1, <2>2
<1>7. /\ healthy' \subseteq {j \in up' : tasks'[j] = {"reader", "writer"}}
      /\ up' \subseteq Instances
      /\ \A j \in Instances : tasks'[j] # {} => j \in up'
  BY DEF TypeOK
<1>8. \A j \in Instances :
          /\ "writer" \notin tasks'[j] => queue'[j] = <<>>
          /\ "reader" \notin tasks'[j] => inbox'[j] = <<>> /\ handling'[j] = None
  <2>1. ASSUME NEW j \in Instances, j # i
        PROVE  queue'[j] = queue[j] /\ inbox'[j] = inbox[j] /\ handling'[j] = handling[j]
    BY <2>1 DEF TypeOK
  <2> QED  BY <2>1 DEF TypeOK
<1>9. /\ pending' \in [Instances -> SUBSET used']
      /\ \A j \in Instances \ healthy' : pending'[j] = {}
      /\ confirmed' \cup delivered' \subseteq used'
      /\ starts' \in [Instances -> Nat]
      /\ away' \in Nat
      /\ used' \subseteq Requests
  BY DEF TypeOK
<1>10. handling' \in [Instances -> Requests \cup {None}]
  BY <1>3, <1>9
<1>11. TypeOK'
  BY <1>5, <1>6, <1>7, <1>8, <1>9, <1>10 DEF TypeOK, ManagerType
<1> QED  BY <1>4, <1>11 DEF ConfirmedIsDelivered

LEMMA FailureInv ==
    ASSUME RelayInv, NEW i \in Instances,
           Stop(i) \/ WriterFails(i) \/ ReaderFails(i)
    PROVE  RelayInv'
<1> USE DEF RelayInv, manager, Failed
<1>1. CASE Stop(i)
  BY <1>1, EndKeepsInv DEF Stop, TypeOK, ManagerType
<1>2. CASE WriterFails(i)
  BY <1>2, EndKeepsInv DEF WriterFails, TypeOK, ManagerType
<1>3. CASE ReaderFails(i)
  <2>1. handling[i] # None => handling[i] \in used
    BY DEF PacketsInv
  <2>2. delivered \subseteq delivered' /\ delivered' \subseteq used
    BY <1>3, <2>1 DEF ReaderFails, TypeOK
  <2> QED  BY <1>3, <2>2, EndKeepsInv DEF ReaderFails, TypeOK, ManagerType
<1> QED  BY <1>1, <1>2, <1>3

LEMMA ConnectionInv ==
    ASSUME RelayInv, NEW i \in Instances, NEW d \in Devices,
           ConnectDevice(i, d) \/ DisconnectDevice(i, d)
    PROVE  RelayInv'
<1> USE RelayAssumption DEF RelayInv
<1>1. Pack("device_connected", d) \in Sound /\ Pack("device_disconnected", d) \in Sound
  BY AnnouncementsAreSound
<1>2. CASE ConnectDevice(i, d)
  <2>1. <<Pack("device_connected", d)>> \in Seq(Sound)
    BY <1>1
  <2>2. ManagerType'
    BY <1>2 DEF ConnectDevice, TypeOK, ManagerType
  <2> QED  BY <1>2, <2>1, <2>2, BroadcastKeepsInv DEF ConnectDevice, PacketsInv, process, TypeOK
<1>3. CASE DisconnectDevice(i, d)
  <2> DEFINE ended == {s \in routes[i] : SessionDevice[s] = d}
  <2>1. ended \subseteq Sessions
    BY DEF TypeOK
  <2>2. PackEach("session_unbound", ended) \in Seq(Sound)
    BY <2>1, FS_Subset, AnnouncementsAreSound, PackEachIsSound
  <2>3. PackEach("session_unbound", ended) \o <<Pack("device_disconnected", d)>> \in Seq(Sound)
    BY <1>1, <2>2, ConcatProperties
  <2>4. ManagerType'
    BY <1>3 DEF DisconnectDevice, TypeOK, ManagerType
  <2>5. away' \in Nat
    BY <1>3 DEF DisconnectDevice, HereOrAway, TypeOK
  <2> QED  BY <1>3, <2>3, <2>4, <2>5, BroadcastKeepsInv DEF DisconnectDevice, PacketsInv
<1> QED  BY <1>2, <1>3

LEMMA SessionInv ==
    ASSUME RelayInv, NEW i \in Instances, NEW s \in Sessions,
           BindSession(i, s) \/ UnbindSession(i, s)
    PROVE  RelayInv'
<1> USE RelayAssumption DEF RelayInv
<1>1. <<Pack("session_bound", s)>> \in Seq(Sound) /\ <<Pack("session_unbound", s)>> \in Seq(Sound)
  <2>1. Pack("session_bound", s) \in Sound /\ Pack("session_unbound", s) \in Sound
    BY AnnouncementsAreSound
  <2> QED  BY <2>1
<1>2. ManagerType'
  <2>1. CASE BindSession(i, s)
    BY <2>1 DEF BindSession, TypeOK, ManagerType
  <2>2. CASE UnbindSession(i, s)
    BY <2>2 DEF UnbindSession, TypeOK, ManagerType
  <2> QED  BY <2>1, <2>2
<1>3. CASE BindSession(i, s)
  BY <1>1, <1>2, <1>3, BroadcastKeepsInv DEF BindSession, PacketsInv, process, TypeOK
<1>4. CASE UnbindSession(i, s)
  <2>1. away' \in Nat
    BY <1>4 DEF UnbindSession, HereOrAway, TypeOK
  <2> QED  BY <1>1, <1>2, <1>4, <2>1, BroadcastKeepsInv DEF UnbindSession, PacketsInv
<1> QED  BY <1>3, <1>4

LEMMA SendInv ==
    ASSUME RelayInv, NEW i \in Instances, NEW d \in Devices, NEW r \in Requests,
           SendToDevice(i, d, r)
    PROVE  RelayInv'
<1> USE RelayAssumption DEF RelayInv, SendToDevice, process, manager
<1> DEFINE packet == [kind |-> "device_message", item |-> r, destination |-> d]
<1>1. used \subseteq used' /\ UNCHANGED delivered
  OBVIOUS
<1>2. packet \in Sound'
  BY DEF Sound, Packet
<1>3. <<packet>> \in Seq(Sound')
  BY <1>2, OnePacket
<1>4. queue \in [Instances -> Seq(Sound')] /\ inbox' \in [Instances -> Seq(Sound')]
  BY <1>1, SoundGrows DEF PacketsInv
<1>5. /\ queue' \in [Instances -> Seq(Sound')]
      /\ \A j \in Instances : Len(queue'[j]) <= QueueSize
      /\ \A j \in Instances : queue'[j] = queue[j] \/ (j = i /\ i \in healthy)
  <2>1. \A j \in Instances : Len(queue[j]) <= QueueSize
    BY DEF TypeOK
  <2>2. queue' = Enqueued(i, <<packet>>)
    OBVIOUS
  <2> HIDE DEF packet, RelayInv, SendToDevice
  <2> QED  BY <1>3, <1>4, <2>1, <2>2, EnqueuedQueue
<1>6. PacketsInv'
  BY <1>4, <1>5 DEF PacketsInv
<1>7. Sound' \subseteq Packet
  BY DEF Sound, Packet
<1>8. queue' \in [Instances -> Seq(Packet)]
  <2>1. \A q \in Seq(Sound') : q \in Seq(Packet)
    BY <1>7, SeqMonotonic
  <2> QED  BY <1>5, <2>1
<1>9. /\ healthy' \subseteq healthy
      /\ pending' \in [Instances -> SUBSET used']
      /\ \A j \in Instances \ healthy' : pending'[j] = {}
  <2>1. pending \in [Instances -> SUBSET used] /\ \A j \in Instances \ healthy : pending[j] = {}
    BY DEF TypeOK
  <2>2. CASE UNCHANGED healthy /\ pending' = [pending EXCEPT ![i] = @ \cup {r}] /\ i \in healthy
    BY <2>1, <2>2
  <2>3. CASE Failed(i)
    BY <2>1, <2>3 DEF Failed
  <2> QED  BY <2>2, <2>3
<1>10. inbox' \in [Instances -> Seq(Packet)] /\ handling' \in [Instances -> Requests \cup {None}]
  BY DEF TypeOK
<1>11. \A j \in Instances : "writer" \notin tasks'[j] => queue'[j] = <<>>
  <2>1. \A j \in Instances : j \in healthy => "writer" \in tasks[j]
    BY DEF TypeOK
  <2>2. \A j \in Instances : "writer" \notin tasks[j] => queue[j] = <<>>
    BY DEF TypeOK
  <2> QED  BY <1>5, <2>1, <2>2
<1>12. TypeOK'
  BY <1>5, <1>8, <1>9, <1>10, <1>11 DEF TypeOK
<1> QED  BY <1>6, <1>12 DEF ConfirmedIsDelivered

LEMMA TimeoutInv ==
    ASSUME RelayInv, NEW i \in Instances, NEW r \in Requests, SendTimesOut(i, r)
    PROVE  RelayInv'
<1> USE DEF RelayInv, SendTimesOut, process, manager
<1>1. PacketsInv'
  BY DEF PacketsInv, Sound
<1>2. TypeOK'
  BY DEF TypeOK
<1> QED  BY <1>1, <1>2 DEF ConfirmedIsDelivered

(* A step that publishes a packet, and leaves the other packets alone. *)
LEMMA PublishKeepsInv ==
    ASSUME RelayInv, NEW i \in Instances, NEW packet \in Sound', Publish(i, packet),
           UNCHANGED <<process, healthy, manager, sends>>,
           delivered \subseteq delivered', delivered' \subseteq used,
           queue' = queue \/ (queue[i] # <<>> /\ queue' = [queue EXCEPT ![i] = Tail(@)]),
           handling' = handling \/ handling' = [handling EXCEPT ![i] = None]
    PROVE  RelayInv'
<1> USE RelayAssumption DEF RelayInv, process, manager, sends
<1>1. queue \in [Instances -> Seq(Sound')] /\ inbox \in [Instances -> Seq(Sound')]
  BY SoundGrows DEF PacketsInv
<1>2. /\ inbox' \in [Instances -> Seq(Sound')]
      /\ \A j \in Instances : "reader" \notin tasks[j] => inbox'[j] = inbox[j]
  BY <1>1, PublishedInbox
<1>3. /\ queue' \in [Instances -> Seq(Sound')]
      /\ \A j \in Instances : Len(queue'[j]) <= QueueSize
      /\ \A j \in Instances : queue[j] = <<>> => queue'[j] = <<>>
  <2>1. \A j \in Instances : Len(queue[j]) <= QueueSize
    BY DEF TypeOK
  <2>2. CASE queue' = queue
    BY <1>1, <2>1, <2>2
  <2>3. CASE queue' = [queue EXCEPT ![i] = Tail(@)] /\ queue[i] # <<>>
    <3>1. Tail(queue[i]) \in Seq(Sound') /\ Len(Tail(queue[i])) = Len(queue[i]) - 1
      BY <1>1, <2>3, HeadTailProperties
    <3>2. Len(queue[i]) \in Nat
      BY <1>1, LenProperties
    <3>3. Len(Tail(queue[i])) <= QueueSize
      BY <2>1, <3>1, <3>2
    <3> HIDE DEF RelayInv
    <3> QED  BY <1>1, <2>1, <2>3, <3>1, <3>3
  <2> QED  BY <2>2, <2>3
<1>4. handling' \in [Instances -> used \cup {None}]
  BY DEF PacketsInv
<1>5. PacketsInv'
  BY <1>2, <1>3, <1>4 DEF PacketsInv
<1>6. queue' \in [Instances -> Seq(Packet)] /\ inbox' \in [Instances -> Seq(Packet)]
  <2>1. Sound' \subseteq Packet
    BY DEF Sound, Packet
  <2>2. \A q \in Seq(Sound') : q \in Seq(Packet)
    BY <2>1, SeqMonotonic
  <2> QED  BY <1>2, <1>3, <2>2
<1>7. \A j \in Instances :
          /\ "writer" \notin tasks'[j] => queue'[j] = <<>>
          /\ "reader" \notin tasks'[j] => inbox'[j] = <<>> /\ handling'[j] = None
  BY <1>2, <1>3 DEF TypeOK
<1>8. handling' \in [Instances -> Requests \cup {None}]
  BY <1>4 DEF TypeOK
<1>9. TypeOK'
  BY <1>3, <1>6, <1>7, <1>8 DEF TypeOK
<1> QED  BY <1>5, <1>9 DEF ConfirmedIsDelivered

LEMMA PublishingInv ==
    ASSUME RelayInv, NEW i \in Instances,
           Write(i) \/ Delivers(i) \/ DeliveryFails(i)
    PROVE  RelayInv'
<1> USE RelayAssumption DEF RelayInv
<1>1. CASE Write(i)
  <2>1. Head(queue[i]) \in Sound
    BY <1>1, HeadTailProperties DEF Write, PacketsInv
  <2>2. Head(queue[i]) \in Sound'
    BY <1>1, <2>1 DEF Write, sends, Sound
  <2> QED  BY <1>1, <2>2, PublishKeepsInv DEF Write, TypeOK
<1>2. CASE Delivers(i)
  <2>1. handling[i] \in used /\ handling[i] \in Requests
    BY <1>2 DEF Delivers, PacketsInv, TypeOK
  <2>2. Pack("delivered", handling[i]) \in Sound'
    BY <1>2, <2>1 DEF Delivers, sends, Sound, Packet, Pack
  <2>3. /\ delivered \subseteq delivered' /\ delivered' \subseteq used
        /\ handling' = [handling EXCEPT ![i] = None]
        /\ queue' = queue
        /\ Publish(i, Pack("delivered", handling[i]))
        /\ UNCHANGED <<process, healthy, manager, sends>>
    BY <1>2, <2>1 DEF Delivers, TypeOK
  <2> HIDE DEF RelayInv
  <2> DEFINE packet == Pack("delivered", handling[i])
  <2> HIDE DEF packet
  <2>4. packet \in Sound' /\ Publish(i, packet)
    BY <2>2, <2>3 DEF packet
  <2>5. /\ handling' = handling \/ handling' = [handling EXCEPT ![i] = None]
        /\ queue' = queue \/ (queue[i] # <<>> /\ queue' = [queue EXCEPT ![i] = Tail(@)])
    BY <2>3
  <2> QED  BY <2>3, <2>4, <2>5, PublishKeepsInv, ZenonT(40)
<1>3. CASE DeliveryFails(i)
  <2>1. handling[i] \in used /\ handling[i] \in Requests
    BY <1>3 DEF DeliveryFails, PacketsInv, TypeOK
  <2>2. Pack("undelivered", handling[i]) \in Sound'
    BY <1>3, <2>1 DEF DeliveryFails, sends, Sound, Packet, Pack
  <2>3. /\ delivered \subseteq delivered' /\ delivered' \subseteq used
        /\ handling' = [handling EXCEPT ![i] = None]
        /\ queue' = queue
        /\ Publish(i, Pack("undelivered", handling[i]))
        /\ UNCHANGED <<process, healthy, manager, sends>>
    BY <1>3, <2>1 DEF DeliveryFails, TypeOK
  <2> HIDE DEF RelayInv
  <2> DEFINE packet == Pack("undelivered", handling[i])
  <2> HIDE DEF packet
  <2>4. packet \in Sound' /\ Publish(i, packet)
    BY <2>2, <2>3 DEF packet
  <2>5. /\ handling' = handling \/ handling' = [handling EXCEPT ![i] = None]
        /\ queue' = queue \/ (queue[i] # <<>> /\ queue' = [queue EXCEPT ![i] = Tail(@)])
    BY <2>3
  <2> QED  BY <2>3, <2>4, <2>5, PublishKeepsInv, ZenonT(40)
<1> QED  BY <1>1, <1>2, <1>3

LEMMA ReadInv ==
    ASSUME RelayInv, NEW i \in Instances, Read(i)
    PROVE  RelayInv'
<1> USE RelayAssumption DEF RelayInv
<1>0. inbox \in [Instances -> Seq(Sound)] /\ queue \in [Instances -> Seq(Sound)]
  BY DEF PacketsInv
<1>1. CASE ApplyAnnouncement(i)
  <2>1. PICK packet \in Packet : Reads(i, packet)
    BY <1>1 DEF ApplyAnnouncement
  <2>2. /\ packet \in Sound
        /\ inbox' \in [Instances -> Seq(Sound)]
        /\ \A j \in Instances : inbox[j] = <<>> => inbox'[j] = inbox[j]
    BY <1>0, <2>1, ReadPacket
  <2>3. UNCHANGED Sound
    BY <1>1 DEF ApplyAnnouncement, sends, Sound
  <2>4. PacketsInv'
    BY <1>1, <2>2, <2>3 DEF PacketsInv, ApplyAnnouncement, sends
  <2>5. /\ remote' \in [Instances -> SUBSET Devices]
        /\ routes' \in [Instances -> SUBSET Sessions]
    <3>1. PICK p \in Packet :
            \/ p.kind = "device_connected" /\ remote' = [remote EXCEPT ![i] = @ \cup {p.item}]
                 /\ UNCHANGED routes
            \/ p.kind = "device_disconnected" /\ remote' = [remote EXCEPT ![i] = @ \ {p.item}]
                 /\ UNCHANGED routes
            \/ p.kind = "session_bound" /\ routes' = [routes EXCEPT ![i] = @ \cup {p.item}]
                 /\ UNCHANGED remote
            \/ p.kind = "session_unbound" /\ routes' = [routes EXCEPT ![i] = @ \ {p.item}]
                 /\ UNCHANGED remote
      BY <1>1 DEF ApplyAnnouncement
    <3>2. /\ p.kind = "device_connected" => p.item \in Devices
          /\ p.kind = "session_bound" => p.item \in Sessions
      BY DEF Packet
    <3>3. remote \in [Instances -> SUBSET Devices] /\ routes \in [Instances -> SUBSET Sessions]
      BY DEF TypeOK
    <3> HIDE DEF RelayInv
    <3> QED  BY <3>1, <3>2, <3>3
  <2>6. inbox' \in [Instances -> Seq(Packet)]
    BY <2>2, SoundIsPacket
  <2>7. TypeOK'
    BY <1>1, <2>2, <2>5, <2>6 DEF ApplyAnnouncement, sends, process, TypeOK
  <2> QED  BY <1>1, <2>4, <2>7 DEF ConfirmedIsDelivered, ApplyAnnouncement, sends
<1>2. CASE AnswerSnapshot(i)
  <2>1. /\ inbox' \in [Instances -> Seq(Sound)]
        /\ \A j \in Instances : inbox[j] = <<>> => inbox'[j] = <<>>
    BY <1>0, <1>2, ReadPacket DEF AnswerSnapshot
  <2>2. PackEach("device_connected", connected[i]) \in Seq(Sound)
    <3>1. connected[i] \subseteq Devices
      BY DEF TypeOK
    <3> QED  BY <3>1, FS_Subset, AnnouncementsAreSound, PackEachIsSound
  <2>3. PackEach("session_bound", routes[i]) \in Seq(Sound)
    <3>1. routes[i] \subseteq Sessions
      BY DEF TypeOK
    <3> QED  BY <3>1, FS_Subset, AnnouncementsAreSound, PackEachIsSound
  <2>4. Snapshot(i) \in Seq(Sound)
    BY <2>2, <2>3, ConcatProperties DEF Snapshot
  <2>5. ManagerType'
    BY <1>2 DEF AnswerSnapshot, manager, TypeOK, ManagerType
  <2>6. away' \in Nat /\ UNCHANGED <<starts, up, tasks, handling, used, confirmed, delivered>>
    BY <1>2 DEF AnswerSnapshot, process, TypeOK
  <2> QED  BY <1>2, <2>1, <2>4, <2>5, <2>6, BroadcastKeepsInv DEF AnswerSnapshot
<1>3. CASE TakeMessage(i)
  <2>1. PICK r \in Requests, d \in Devices :
          /\ Reads(i, [kind |-> "device_message", item |-> r, destination |-> d])
          /\ handling' = [handling EXCEPT ![i] = IF d \in connected[i] THEN r ELSE None]
    BY <1>3 DEF TakeMessage
  <2>2. /\ [kind |-> "device_message", item |-> r, destination |-> d] \in Sound
        /\ inbox' \in [Instances -> Seq(Sound)]
        /\ \A j \in Instances : inbox[j] = <<>> => inbox'[j] = inbox[j]
    BY <1>0, <2>1, ReadPacket
  <2>3. r \in used
    BY <2>2 DEF Sound
  <2>4. UNCHANGED Sound
    BY <1>3 DEF TakeMessage, sends, Sound
  <2>5. handling' \in [Instances -> used \cup {None}]
    BY <2>1, <2>3 DEF PacketsInv
  <2>6. PacketsInv'
    BY <1>0, <1>3, <2>2, <2>4, <2>5 DEF PacketsInv, TakeMessage, sends
  <2>7. inbox' \in [Instances -> Seq(Packet)]
    BY <2>2, SoundIsPacket
  <2>8. "reader" \in tasks[i]
    BY <2>1 DEF TypeOK, Reads
  <2>9. TypeOK'
    BY <1>3, <2>1, <2>2, <2>7, <2>8 DEF TakeMessage, manager, sends, process, TypeOK
  <2> QED  BY <1>3, <2>6, <2>9 DEF ConfirmedIsDelivered, TakeMessage, sends
<1>4. CASE TakeReply(i)
  <2>1. PICK packet \in Packet :
          /\ packet.kind \in {"delivered", "undelivered"}
          /\ Reads(i, packet)
          /\ pending' = [pending EXCEPT ![i] = @ \ {packet.item}]
          /\ confirmed' = IF Ok(packet) THEN confirmed \cup (pending[i] \cap {packet.item})
                                        ELSE confirmed
    BY <1>4 DEF TakeReply
  <2>2. /\ packet \in Sound
        /\ inbox' \in [Instances -> Seq(Sound)]
        /\ \A j \in Instances : inbox[j] = <<>> => inbox'[j] = inbox[j]
    BY <1>0, <2>1, ReadPacket
  <2>3. UNCHANGED Sound
    BY <1>4 DEF TakeReply, Sound
  <2>4. PacketsInv'
    BY <1>0, <1>4, <2>2, <2>3 DEF PacketsInv, TakeReply
  <2>5. packet.item \in used /\ (Ok(packet) => packet.item \in delivered)
    BY <2>1, <2>2 DEF Sound, Ok
  <2>6. inbox' \in [Instances -> Seq(Packet)]
    BY <2>2, SoundIsPacket
  <2>7. ConfirmedIsDelivered'
    BY <1>4, <2>1, <2>5 DEF ConfirmedIsDelivered, TakeReply
  <2>8. /\ pending' \in [Instances -> SUBSET used]
        /\ \A j \in Instances \ healthy : pending'[j] = {}
        /\ confirmed' \subseteq used
    BY <2>1, <2>5 DEF TypeOK
  <2>9. TypeOK'
    BY <1>4, <2>2, <2>6, <2>8 DEF TakeReply, manager, process, TypeOK
  <2> QED  BY <2>4, <2>7, <2>9
<1> QED  BY <1>1, <1>2, <1>3, <1>4 DEF Read

LEMMA NextInv == RelayInv /\ [Next]_vars => RelayInv'
<1> SUFFICES ASSUME RelayInv, [Next]_vars PROVE RelayInv'
  OBVIOUS
<1>1. CASE UNCHANGED vars
  <2>1. UNCHANGED <<Sound, TypeOK>>
    BY <1>1 DEF vars, process, manager, sends, Sound, TypeOK
  <2> QED  BY <1>1, <2>1 DEF vars, process, manager, sends, RelayInv, PacketsInv,
                             ConfirmedIsDelivered
<1>2. CASE Next
  <2>1. PICK i \in Instances :
          \/ Local(i)
          \/ Write(i) \/ WriterFails(i)
          \/ Read(i) \/ Handler(i) \/ ReaderFails(i)
          \/ \E r \in Requests : SendTimesOut(i, r)
    BY <1>2 DEF Next
  <2>2. CASE Local(i)
    BY <2>2, StartInv, FailureInv, ConnectionInv, SendInv, SessionInv DEF Local
  <2>3. CASE Write(i) \/ Handler(i)
    BY <2>3, PublishingInv DEF Handler
  <2>4. CASE WriterFails(i) \/ ReaderFails(i)
    BY <2>4, FailureInv
  <2>5. CASE Read(i)
    BY <2>5, ReadInv
  <2>6. CASE \E r \in Requests : SendTimesOut(i, r)
    BY <2>6, TimeoutInv
  <2> QED  BY <2>1, <2>2, <2>3, <2>4, <2>5, <2>6
<1> QED  BY <1>1, <1>2

(* RelayInv is an inductive invariant: what lies in queues and inboxes is about
   requests that were sent, and an acknowledgement in them is true. *)
THEOREM RelayInvariant == Spec => []RelayInv
<1> QED  BY InitInv, NextInv, PTL DEF Spec

(* The variables keep their types, queues their limit, and a relay that failed
   or a process that stopped keeps no sender waiting. *)
THEOREM RelayTypes == Spec => []TypeOK
<1> QED  BY RelayInvariant, PTL DEF RelayInv

(* send returns True only for messages that reached their device, for any number
   of processes, requests and failures. *)
THEOREM ConfirmationsAreTrue == Spec => []ConfirmedIsDelivered
<1> QED  BY RelayInvariant, PTL DEF RelayInv
===============================================================================
