--------------------------- MODULE RelayViews_proofs ---------------------------
(* The processes' views of each other's devices, in WebSocketRelay: what a
   process knows of another one's devices is behind by the packets it has still
   to read, and by nothing else. *)
EXTENDS WebSocketRelay_proofs

Connects(p, d) == p.kind = "device_connected" /\ p.item = d
Disconnects(p, d) == p.kind = "device_disconnected" /\ p.item = d

(* The packets s, read in order, end with d connected; or leave it as it was,
   if it was. *)
Tells(s, d) ==
    \E n \in 1..Len(s) :
        Connects(s[n], d) /\ \A m \in n + 1..Len(s) : ~Disconnects(s[m], d)
Keeps(s, d) == \A n \in 1..Len(s) : ~Disconnects(s[n], d)
Silent(s, d) == \A n \in 1..Len(s) : ~Connects(s[n], d) /\ ~Disconnects(s[n], d)

(* The devices known after the packets s to a process that knew those in S. *)
After(s, S) == {d \in Devices : Tells(s, d) \/ (d \in S /\ Keeps(s, d))}

(* The devices that i will know of when it has read what it has received and
   what j has still to write. *)
Learns(i, j) == After(queue[j], After(inbox[i], remote[i]))

IsRequest(p) == p.kind = "snapshot_request"
Asked(s) == \E n \in 1..Len(s) : IsRequest(s[n])

-------------------------------------------------------------------------------
(* Reading sequences of packets. *)

LEMMA Concatenated ==
    ASSUME NEW P, NEW s \in Seq(P), NEW t \in Seq(P)
    PROVE  /\ s \o t \in Seq(P)
           /\ Len(s) \in Nat /\ Len(t) \in Nat /\ Len(s \o t) = Len(s) + Len(t)
           /\ \A n \in 1..Len(s) : n \in 1..Len(s \o t) /\ (s \o t)[n] = s[n]
           /\ \A n \in 1..Len(t) : Len(s) + n \in 1..Len(s \o t) /\ (s \o t)[Len(s) + n] = t[n]
           /\ \A n \in 1..Len(s \o t) : n \in 1..Len(s) \/ \E m \in 1..Len(t) : n = Len(s) + m
<1>1. Len(s) \in Nat /\ Len(t) \in Nat
  BY LenProperties
<1>2. /\ s \o t \in Seq(P)
      /\ Len(s \o t) = Len(s) + Len(t)
      /\ \A n \in 1..Len(s) + Len(t) :
            (s \o t)[n] = IF n <= Len(s) THEN s[n] ELSE t[n - Len(s)]
  BY ConcatProperties
<1>3. \A n \in 1..Len(s) : n \in 1..Len(s \o t) /\ (s \o t)[n] = s[n]
  BY <1>1, <1>2
<1>4. ASSUME NEW n \in 1..Len(t)
      PROVE  Len(s) + n \in 1..Len(s \o t) /\ (s \o t)[Len(s) + n] = t[n]
  <2>1. Len(s) + n \in 1..Len(s) + Len(t) /\ ~(Len(s) + n <= Len(s)) /\ (Len(s) + n) - Len(s) = n
    BY <1>1
  <2> QED  BY <1>2, <2>1
<1>5. ASSUME NEW n \in 1..Len(s \o t)
      PROVE  n \in 1..Len(s) \/ \E m \in 1..Len(t) : n = Len(s) + m
  <2>1. n \in 1..Len(s) \/ (n - Len(s) \in 1..Len(t) /\ n = Len(s) + (n - Len(s)))
    BY <1>1, <1>2
  <2> QED  BY <2>1
<1> QED  BY <1>1, <1>2, <1>3, <1>4, <1>5

(* To read s and then t is to read them one after the other. *)
LEMMA TellsConcatenated ==
    ASSUME NEW P, NEW s \in Seq(P), NEW t \in Seq(P), NEW d
    PROVE  /\ Keeps(s \o t, d) <=> Keeps(s, d) /\ Keeps(t, d)
           /\ Tells(s \o t, d) <=> Tells(t, d) \/ (Tells(s, d) /\ Keeps(t, d))
           /\ Silent(s \o t, d) <=> Silent(s, d) /\ Silent(t, d)
           /\ Asked(s \o t) <=> Asked(s) \/ Asked(t)
<1> DEFINE u == s \o t
<1>1. /\ Len(s) \in Nat /\ Len(t) \in Nat /\ Len(u) = Len(s) + Len(t)
      /\ \A n \in 1..Len(s) : n \in 1..Len(u) /\ u[n] = s[n]
      /\ \A n \in 1..Len(t) : Len(s) + n \in 1..Len(u) /\ u[Len(s) + n] = t[n]
      /\ \A n \in 1..Len(u) : n \in 1..Len(s) \/ \E m \in 1..Len(t) : n = Len(s) + m
  BY Concatenated
<1> HIDE DEF u
<1>2. Keeps(u, d) <=> Keeps(s, d) /\ Keeps(t, d)
  BY <1>1 DEF Keeps
<1>3. (Silent(u, d) <=> Silent(s, d) /\ Silent(t, d)) /\ (Asked(u) <=> Asked(s) \/ Asked(t))
  BY <1>1 DEF Silent, Asked
<1>4. ASSUME Tells(u, d) PROVE Tells(t, d) \/ (Tells(s, d) /\ Keeps(t, d))
  <2>1. PICK n \in 1..Len(u) :
          Connects(u[n], d) /\ \A m \in n + 1..Len(u) : ~Disconnects(u[m], d)
    BY <1>4 DEF Tells
  <2>2. CASE n \in 1..Len(s)
    <3>1. \A m \in n + 1..Len(s) : ~Disconnects(s[m], d)
      BY <1>1, <2>1, <2>2
    <3>2. \A m \in 1..Len(t) : Len(s) + m \in n + 1..Len(u)
      BY <1>1, <2>2
    <3> QED  BY <1>1, <2>1, <2>2, <3>1, <3>2 DEF Tells, Keeps
  <2>3. CASE \E m \in 1..Len(t) : n = Len(s) + m
    <3>1. PICK m \in 1..Len(t) : n = Len(s) + m
      BY <2>3
    <3>2. \A l \in m + 1..Len(t) : l \in 1..Len(t) /\ Len(s) + l \in n + 1..Len(u)
      BY <1>1, <3>1
    <3> QED  BY <1>1, <2>1, <3>1, <3>2 DEF Tells
  <2> QED  BY <1>1, <2>2, <2>3
<1>5. ASSUME Tells(t, d) PROVE Tells(u, d)
  <2>1. PICK n \in 1..Len(t) :
          Connects(t[n], d) /\ \A m \in n + 1..Len(t) : ~Disconnects(t[m], d)
    BY <1>5 DEF Tells
  <2>2. ASSUME NEW m \in (Len(s) + n) + 1..Len(u) PROVE ~Disconnects(u[m], d)
    <3>1. m - Len(s) \in n + 1..Len(t) /\ m - Len(s) \in 1..Len(t) /\ Len(s) + (m - Len(s)) = m
      BY <1>1
    <3> QED  BY <1>1, <2>1, <3>1
  <2> QED  BY <1>1, <2>1, <2>2 DEF Tells
<1>6. ASSUME Tells(s, d), Keeps(t, d) PROVE Tells(u, d)
  <2>1. PICK n \in 1..Len(s) :
          Connects(s[n], d) /\ \A m \in n + 1..Len(s) : ~Disconnects(s[m], d)
    BY <1>6 DEF Tells
  <2>2. ASSUME NEW m \in n + 1..Len(u) PROVE ~Disconnects(u[m], d)
    <3>1. m \in 1..Len(u) /\ (m \in 1..Len(s) => m \in n + 1..Len(s))
      BY <1>1
    <3> QED  BY <1>1, <1>6, <2>1, <3>1 DEF Keeps
  <2> QED  BY <1>1, <2>1, <2>2 DEF Tells
<1> QED  BY <1>2, <1>3, <1>4, <1>5, <1>6 DEF u

LEMMA OneTold ==
    ASSUME NEW p, NEW d
    PROVE  /\ Keeps(<<p>>, d) <=> ~Disconnects(p, d)
           /\ Tells(<<p>>, d) <=> Connects(p, d)
           /\ Silent(<<p>>, d) <=> ~Connects(p, d) /\ ~Disconnects(p, d)
           /\ Asked(<<p>>) <=> IsRequest(p)
<1>1. Len(<<p>>) = 1 /\ <<p>>[1] = p
  OBVIOUS
<1>2. 1..Len(<<p>>) = {1} /\ 1 + 1..Len(<<p>>) = {}
  BY <1>1
<1> QED  BY <1>1, <1>2 DEF Keeps, Tells, Silent, Asked

LEMMA NothingTold ==
    ASSUME NEW d
    PROVE  Keeps(<<>>, d) /\ ~Tells(<<>>, d) /\ Silent(<<>>, d) /\ ~Asked(<<>>)
  BY DEF Keeps, Tells, Silent, Asked

LEMMA SilentTells ==
    ASSUME NEW s, NEW d, Silent(s, d)
    PROVE  Keeps(s, d) /\ ~Tells(s, d)
  BY DEF Keeps, Tells, Silent

LEMMA AfterConcatenated ==
    ASSUME NEW P, NEW s \in Seq(P), NEW t \in Seq(P), NEW S
    PROVE  After(s \o t, S) = After(t, After(s, S))
  BY TellsConcatenated DEF After

(* What was first in a queue, and the rest. *)
LEMMA HeadAndTail ==
    ASSUME NEW P, NEW s \in Seq(P), s # <<>>
    PROVE  /\ Head(s) \in P /\ Tail(s) \in Seq(P)
           /\ <<Head(s)>> \in Seq(P)
           /\ s = <<Head(s)>> \o Tail(s)
<1>1. /\ Head(s) \in P /\ Tail(s) \in Seq(P)
      /\ Len(Tail(s)) = Len(s) - 1
      /\ \A n \in 1..Len(Tail(s)) : Tail(s)[n] = s[n + 1]
      /\ Len(s) \in Nat \ {0}
  BY HeadTailProperties, EmptySeq
<1>2. <<Head(s)>> \in Seq(P) /\ Len(<<Head(s)>>) = 1
  BY <1>1, OnePacket
<1>3. /\ <<Head(s)>> \o Tail(s) \in Seq(P)
      /\ Len(<<Head(s)>> \o Tail(s)) = Len(s)
      /\ \A n \in 1..Len(s) :
            (<<Head(s)>> \o Tail(s))[n] = IF n <= 1 THEN <<Head(s)>>[n] ELSE Tail(s)[n - 1]
  BY <1>1, <1>2, ConcatProperties
<1>4. ASSUME NEW n \in 1..Len(s) PROVE s[n] = (<<Head(s)>> \o Tail(s))[n]
  <2>1. CASE n = 1
    BY <1>1, <1>3, <2>1
  <2>2. CASE n # 1
    <3>1. n - 1 \in 1..Len(Tail(s)) /\ (n - 1) + 1 = n /\ ~(n <= 1)
      BY <1>1, <2>2
    <3> QED  BY <1>1, <1>3, <3>1
  <2> QED  BY <2>1, <2>2
<1> QED  BY <1>1, <1>2, <1>3, <1>4, SeqEqual

LEMMA Appended ==
    ASSUME NEW P, NEW s \in Seq(P), NEW p \in P
    PROVE  Append(s, p) = s \o <<p>> /\ <<p>> \in Seq(P)
  BY AppendIsConcat, OnePacket

-------------------------------------------------------------------------------
(* What a process packs. *)

LEMMA PackedElements ==
    ASSUME NEW kind, NEW items, IsFiniteSet(items)
    PROVE  /\ \A n \in 1..Len(PackEach(kind, items)) :
                 PackEach(kind, items)[n].kind = kind /\ PackEach(kind, items)[n].item \in items
           /\ \A x \in items : \E n \in 1..Len(PackEach(kind, items)) :
                 PackEach(kind, items)[n] = Pack(kind, x)
<1> DEFINE c == Cardinality(items)
           f == SetToSeq(items)
<1>1. /\ c \in Nat
      /\ \E g \in [1..c -> items] : IsInjective(g)
  BY FS_CardinalityType DEF ExistsBijection, Bijection, Injection
<1>2. f \in [1..c -> items] /\ IsInjective(f)
  BY <1>1 DEF SetToSeq
<1>3. f \in Injection(1..c, items)
  BY <1>2 DEF Injection
<1>4. IsFiniteSet(1..c) /\ Cardinality(1..c) = c
  BY <1>1, FS_Interval
<1> HIDE DEF f
<1>5. f \in Surjection(1..c, items)
  BY <1>3, <1>4, FS_Injection
<1>6. \A x \in items : \E n \in 1..c : f[n] = x
  BY <1>5 DEF Surjection
<1>7. PackEach(kind, items) = [n \in 1..c |-> Pack(kind, f[n])]
  BY DEF PackEach, f
<1> HIDE DEF c
<1>8. Len(PackEach(kind, items)) = c
  BY <1>1, <1>7
<1>9. \A n \in 1..c : Pack(kind, f[n]).kind = kind /\ Pack(kind, f[n]).item \in items
  BY <1>2 DEF Pack
<1> QED  BY <1>6, <1>7, <1>8, <1>9

LEMMA PackedSilent ==
    ASSUME NEW kind, NEW items, IsFiniteSet(items), NEW d,
           kind \in {"device_connected", "device_disconnected"} => d \notin items
    PROVE  Silent(PackEach(kind, items), d)
  BY PackedElements DEF Silent, Connects, Disconnects

(* A snapshot tells of every device connected, and of no other. *)
LEMMA SnapshotTells ==
    ASSUME RelayAssumption, TypeOK, NEW k \in Instances, NEW d \in Devices
    PROVE  /\ Snapshot(k) \in Seq(Packet)
           /\ Keeps(Snapshot(k), d)
           /\ Tells(Snapshot(k), d) <=> d \in connected[k]
           /\ d \notin connected[k] => Silent(Snapshot(k), d)
<1> DEFINE devices == PackEach("device_connected", connected[k])
           sessions == PackEach("session_bound", routes[k])
<1>1. /\ connected[k] \in SUBSET Devices /\ routes[k] \in SUBSET Sessions
      /\ IsFiniteSet(connected[k]) /\ IsFiniteSet(routes[k])
  BY FS_Subset DEF TypeOK, RelayAssumption
<1>2. devices \in Seq(Packet) /\ sessions \in Seq(Packet)
  <2>1. \A q \in Seq(Sound) : q \in Seq(Packet)
    BY SeqMonotonic DEF Sound
  <2> QED  BY <1>1, <2>1, AnnouncementsAreSound, PackEachIsSound
<1>3. Silent(sessions, d)
  BY <1>1, PackedSilent
<1>4. Keeps(devices, d)
  BY <1>1, PackedElements DEF Keeps, Disconnects
<1>5. d \notin connected[k] => Silent(devices, d)
  BY <1>1, PackedSilent
<1>6. ASSUME d \in connected[k] PROVE Tells(devices, d)
  <2>1. PICK n \in 1..Len(devices) : devices[n] = Pack("device_connected", d)
    BY <1>1, <1>6, PackedElements
  <2>2. Len(devices) \in Nat
    BY <1>2, LenProperties
  <2>3. \A m \in n + 1..Len(devices) : ~Disconnects(devices[m], d)
    BY <1>4, <2>2 DEF Keeps
  <2> QED  BY <2>1, <2>3 DEF Tells, Connects, Pack
<1>7. Snapshot(k) = devices \o sessions
  BY DEF Snapshot
<1>8. devices \o sessions \in Seq(Packet)
  BY <1>2, ConcatProperties
<1> HIDE DEF devices, sessions
<1> QED
  BY <1>2, <1>3, <1>4, <1>5, <1>6, <1>7, <1>8, TellsConcatenated, SilentTells

-------------------------------------------------------------------------------
(* Sending: what is appended to the queue of a process, if its relay is healthy. *)
Sends(k, packets) ==
    /\ \A m \in Instances : m # k => queue'[m] = queue[m]
    /\ k \notin healthy => queue'[k] = queue[k]
    /\ k \in healthy' => k \in healthy /\ queue'[k] = queue[k] \o packets
    /\ healthy' \subseteq healthy /\ healthy \ {k} \subseteq healthy'
    /\ \A d \in Devices : Silent(queue[k], d) /\ Silent(packets, d) => Silent(queue'[k], d)

LEMMA EnqueuedPackets ==
    ASSUME RelayAssumption, TypeOK, NEW k \in Instances, NEW P, NEW packets \in Seq(P),
           queue \in [Instances -> Seq(P)]
    PROVE  /\ \A m \in Instances : m # k => Enqueued(k, packets)[m] = queue[m]
           /\ k \notin healthy => Enqueued(k, packets)[k] = queue[k]
           /\ k \in healthy /\ ~Overflows(k, packets) =>
                 Enqueued(k, packets)[k] = queue[k] \o packets
           /\ \A d \in Devices :
                 Silent(queue[k], d) /\ Silent(packets, d) => Silent(Enqueued(k, packets)[k], d)
<1> DEFINE all == queue[k] \o packets
           room == IF Len(all) > QueueSize THEN QueueSize ELSE Len(all)
<1>1. queue[k] \in Seq(P) /\ all \in Seq(P) /\ Len(all) = Len(queue[k]) + Len(packets)
      /\ Len(all) \in Nat
  BY ConcatProperties, LenProperties
<1>2. Enqueued(k, packets) = IF k \in healthy THEN [queue EXCEPT ![k] = SubSeq(all, 1, room)]
                                              ELSE queue
  BY DEF Enqueued
<1>3. ASSUME ~Overflows(k, packets) PROVE SubSeq(all, 1, room) = all
  <2>1. room = Len(all)
    BY <1>1, <1>3 DEF Overflows, RelayAssumption
  <2> HIDE DEF all, room
  <2> QED  BY <1>1, <2>1, SubSeqFull
<1>4. ASSUME NEW d \in Devices, Silent(queue[k], d), Silent(packets, d)
      PROVE  Silent(SubSeq(all, 1, room), d)
  <2>1. Silent(all, d)
    BY <1>1, <1>4, TellsConcatenated
  <2>2. room \in Nat /\ room <= Len(all)
    BY <1>1 DEF RelayAssumption
  <2>3. \A n \in 1..room : n \in 1..Len(all) /\ all[n] \in P
    BY <1>1, <2>2, ElementOfSeq
  <2> HIDE DEF all, room
  <2>4. /\ Len(SubSeq(all, 1, room)) = room
        /\ \A n \in 1..room : SubSeq(all, 1, room)[n] = all[n]
    BY <2>2, <2>3, SubSeqProperties
  <2> QED  BY <2>1, <2>3, <2>4 DEF Silent
<1> HIDE DEF all, room
<1>5. k \in healthy => Enqueued(k, packets)[k] = SubSeq(all, 1, room)
  BY <1>2
<1>6. /\ \A m \in Instances : m # k => Enqueued(k, packets)[m] = queue[m]
      /\ k \notin healthy => Enqueued(k, packets)[k] = queue[k]
  BY <1>2
<1>7. \A d \in Devices :
         Silent(queue[k], d) /\ Silent(packets, d) => Silent(Enqueued(k, packets)[k], d)
  BY <1>4, <1>5, <1>6
<1> QED  BY <1>3, <1>5, <1>6, <1>7 DEF all

LEMMA BroadcastSends ==
    ASSUME RelayAssumption, TypeOK, NEW k \in Instances, NEW packets \in Seq(Packet),
           Broadcast(k, packets)
    PROVE  Sends(k, packets)
<1>1. queue \in [Instances -> Seq(Packet)] /\ queue' = Enqueued(k, packets)
  BY DEF TypeOK, Broadcast
<1>2. /\ healthy' \subseteq healthy /\ healthy \ {k} \subseteq healthy'
      /\ k \in healthy' => k \in healthy /\ ~Overflows(k, packets)
  BY DEF Broadcast, Failed
<1> QED  BY <1>1, <1>2, EnqueuedPackets DEF Sends

LEMMA MessageSends ==
    ASSUME RelayAssumption, TypeOK, NEW k \in Instances, NEW d \in Devices, NEW r \in Requests,
           SendToDevice(k, d, r)
    PROVE  \E packet \in Packet : packet.kind = "device_message" /\ Sends(k, <<packet>>)
<1>1. PICK packet \in Packet :
        packet = [kind |-> "device_message", item |-> r, destination |-> d]
  BY DEF Packet
<1>2. queue \in [Instances -> Seq(Packet)] /\ queue' = Enqueued(k, <<packet>>)
  BY <1>1 DEF TypeOK, SendToDevice
<1>3. /\ healthy' \subseteq healthy /\ healthy \ {k} \subseteq healthy'
      /\ k \in healthy' => k \in healthy /\ ~Overflows(k, <<packet>>)
  BY <1>1 DEF SendToDevice, Failed
<1>4. <<packet>> \in Seq(Packet)
  BY OnePacket
<1>5. Sends(k, <<packet>>)
  <2> DEFINE packets == <<packet>>
  <2> HIDE DEF packets
  <2>1. packets \in Seq(Packet)
    BY <1>4 DEF packets
  <2>2. queue' = Enqueued(k, packets) /\ (k \in healthy' => k \in healthy /\ ~Overflows(k, packets))
    BY <1>2, <1>3 DEF packets
  <2>3. queue \in [Instances -> Seq(Packet)] /\ healthy' \subseteq healthy /\ healthy \ {k} \subseteq healthy'
    BY <1>2, <1>3
  <2>4. Sends(k, packets)
    BY <2>1, <2>2, <2>3, EnqueuedPackets DEF Sends
  <2> QED  BY <2>4 DEF packets
<1>6. packet.kind = "device_message"
  BY <1>1
<1> QED  BY <1>5, <1>6

-------------------------------------------------------------------------------
(* What is gone is forgotten, and what a healthy relay has still to write about
   a device is true of its process. *)
OriginInv ==
    /\ \A j \in Instances \ up : connected[j] = {} /\ remote[j] = {} /\ routes[j] = {}
    /\ \A j \in up : starts[j] # 0
    /\ \A j \in healthy : After(queue[j], {}) \subseteq connected[j]

(* Device d is a matter of i and j only: no other process is connected to it or
   has announced anything about it, its revocation included. *)
Between(i, j, d) ==
    \A k \in Instances \ {i, j} : d \notin connected[k] /\ Silent(queue[k], d)

(* Then i will learn that d is connected to j, or its request for a snapshot is
   on the way to j; and if j was started once, i will not believe it in vain. *)
PairInv(i, j, d) ==
    /\ i \in healthy /\ j \in healthy /\ d \in connected[j] =>
          d \in Learns(i, j) \/ Asked(queue[i]) \/ Asked(inbox[j])
    /\ i \in healthy /\ (starts[j] = 0 \/ (starts[j] = 1 /\ j \in healthy)) =>
          (d \in Learns(i, j) => d \in connected[j])

(* What is needed of TypeOK and OriginInv below. *)
LEMMA ViewTypes ==
    ASSUME TypeOK, OriginInv
    PROVE  /\ queue \in [Instances -> Seq(Packet)] /\ inbox \in [Instances -> Seq(Packet)]
           /\ connected \in [Instances -> SUBSET Devices]
           /\ remote \in [Instances -> SUBSET Devices]
           /\ healthy \subseteq up /\ up \subseteq Instances
           /\ \A k \in healthy : "reader" \in tasks[k]
           /\ \A k \in Instances : tasks[k] # {} => k \in up
           /\ \A k \in Instances \ up : queue[k] = <<>> /\ inbox[k] = <<>> /\ remote[k] = {}
           /\ \A k \in Instances : starts[k] = 0 => k \notin up /\ k \notin healthy
  BY DEF TypeOK, OriginInv

LEMMA PairNext ==
    ASSUME NEW i \in Instances, NEW j \in Instances, NEW d \in Devices,
           i \in healthy' /\ j \in healthy' /\ d \in connected'[j] =>
              d \in Learns(i, j)' \/ Asked(queue'[i]) \/ Asked(inbox'[j]),
           i \in healthy' /\ (starts'[j] = 0 \/ (starts'[j] = 1 /\ j \in healthy')) =>
              (d \in Learns(i, j)' => d \in connected'[j])
    PROVE  PairInv(i, j, d)'
<1>1. (Asked(queue[i])' <=> Asked(queue'[i])) /\ (Asked(inbox[j])' <=> Asked(inbox'[j]))
  BY DEF Asked
<1> QED  BY <1>1 DEF PairInv

(* A step that changes nothing i learns of d, nor where d is. *)
LEMMA SameView ==
    ASSUME NEW i \in Instances, NEW j \in Instances, NEW d \in Devices,
           PairInv(i, j, d),
           starts'[j] = starts[j],
           i \in healthy' => i \in healthy,
           j \in healthy' => j \in healthy,
           d \in connected'[j] <=> d \in connected[j],
           i \in healthy' /\ (j \in healthy' \/ starts[j] = 0) =>
              (d \in Learns(i, j)' <=> d \in Learns(i, j)),
           i \in healthy' /\ j \in healthy' /\ (Asked(queue[i]) \/ Asked(inbox[j])) =>
              Asked(queue'[i]) \/ Asked(inbox'[j])
    PROVE  PairInv(i, j, d)'
  BY PairNext DEF PairInv

(* What is learnt of d depends on what the packets say of d only. *)
LEMMA LearnsOf ==
    ASSUME NEW i, NEW j, NEW d \in Devices
    PROVE  d \in Learns(i, j) <=>
              \/ Tells(queue[j], d)
              \/ /\ Keeps(queue[j], d)
                 /\ Tells(inbox[i], d) \/ (d \in remote[i] /\ Keeps(inbox[i], d))
  BY DEF Learns, After

LEMMA LearnsOfNext ==
    ASSUME NEW i, NEW j, NEW d \in Devices
    PROVE  d \in Learns(i, j)' <=>
              \/ Tells(queue'[j], d)
              \/ /\ Keeps(queue'[j], d)
                 /\ Tells(inbox'[i], d) \/ (d \in remote'[i] /\ Keeps(inbox'[i], d))
  BY DEF Learns, After

(* Appending to a queue keeps what is learnt true of the process it announces. *)
LEMMA SendKeepsPair ==
    ASSUME RelayAssumption, TypeOK, OriginInv,
           NEW i \in Instances, NEW j \in Instances, i # j, NEW d \in Devices,
           PairInv(i, j, d),
           NEW k \in up, NEW packets \in Seq(Packet), Sends(k, packets),
           UNCHANGED <<starts, remote>>,
           \A m \in Instances \ {k} : d \in connected'[m] <=> d \in connected[m],
           d \in connected'[k] <=> Tells(packets, d) \/ (d \in connected[k] /\ Keeps(packets, d)),
           Tells(inbox'[i], d) <=> Tells(inbox[i], d),
           Keeps(inbox'[i], d) <=> Keeps(inbox[i], d),
           Asked(inbox[j]) => \/ Asked(inbox'[j])
                              \/ k = j /\ (d \in connected'[j] => Tells(packets, d))
    PROVE  PairInv(i, j, d)'
<1>1. /\ queue \in [Instances -> Seq(Packet)]
      /\ \A m \in Instances : starts[m] = 0 => m \notin up /\ m \notin healthy
      /\ k \in Instances
  BY ViewTypes
<1>2. /\ \A m \in Instances : m # k => queue'[m] = queue[m]
      /\ k \in healthy' => k \in healthy /\ queue'[k] = queue[k] \o packets
      /\ healthy' \subseteq healthy
  BY <1>1 DEF Sends
<1>3. /\ Keeps(queue[k] \o packets, d) <=> Keeps(queue[k], d) /\ Keeps(packets, d)
      /\ Tells(queue[k] \o packets, d) <=>
            Tells(packets, d) \/ (Tells(queue[k], d) /\ Keeps(packets, d))
      /\ Asked(queue[k] \o packets) <=> Asked(queue[k]) \/ Asked(packets)
  BY <1>1, TellsConcatenated
<1>5. CASE k = j
  <2>1. queue'[i] = queue[i]
    BY <1>2, <1>5
  <2>2. starts[j] # 0
    BY <1>1, <1>5
  <2>3. j \in healthy' =>
           (d \in Learns(i, j)' <=> Tells(packets, d) \/ (d \in Learns(i, j) /\ Keeps(packets, d)))
    <3> SUFFICES ASSUME j \in healthy'
                 PROVE  d \in Learns(i, j)' <=>
                           Tells(packets, d) \/ (d \in Learns(i, j) /\ Keeps(packets, d))
      OBVIOUS
    <3>1. /\ Keeps(queue'[j], d) <=> Keeps(queue[j], d) /\ Keeps(packets, d)
          /\ Tells(queue'[j], d) <=>
                Tells(packets, d) \/ (Tells(queue[j], d) /\ Keeps(packets, d))
      BY <1>2, <1>3, <1>5
    <3>2. remote'[i] = remote[i]
      OBVIOUS
    <3>3. d \in Learns(i, j)' <=>
             \/ Tells(queue'[j], d)
             \/ /\ Keeps(queue'[j], d)
                /\ Tells(inbox[i], d) \/ (d \in remote[i] /\ Keeps(inbox[i], d))
      BY <3>2, LearnsOfNext
    <3> QED  BY <3>1, <3>3, LearnsOf
  <2>4. /\ i \in healthy' => i \in healthy
        /\ j \in healthy' => j \in healthy
    BY <1>2
  <2>5. i \in healthy' /\ j \in healthy' /\ d \in connected'[j] =>
           d \in Learns(i, j)' \/ Asked(queue'[i]) \/ Asked(inbox'[j])
    BY <1>5, <2>1, <2>3, <2>4 DEF PairInv
  <2>6. i \in healthy' /\ (starts'[j] = 0 \/ (starts'[j] = 1 /\ j \in healthy')) =>
           (d \in Learns(i, j)' => d \in connected'[j])
    BY <1>5, <2>2, <2>3, <2>4 DEF PairInv
  <2> QED  BY <2>5, <2>6, PairNext
<1>6. CASE k # j
  <2>1. queue'[j] = queue[j]
    BY <1>2, <1>6
  <2>2. d \in Learns(i, j)' <=> d \in Learns(i, j)
    BY <2>1, LearnsOf, LearnsOfNext
  <2>3. i \in healthy' /\ Asked(queue[i]) => Asked(queue'[i])
    BY <1>2, <1>3
  <2>4. d \in connected'[j] <=> d \in connected[j]
    BY <1>6
  <2>5. i \in healthy' /\ j \in healthy' /\ (Asked(queue[i]) \/ Asked(inbox[j])) =>
              Asked(queue'[i]) \/ Asked(inbox'[j])
    BY <1>6, <2>3
  <2> QED  BY <1>2, <2>2, <2>4, <2>5, SameView
<1> QED  BY <1>5, <1>6

(* The inbox of a process after a publication. *)
LEMMA PublishedTells ==
    ASSUME TypeOK, NEW k \in Instances, NEW p \in Packet, Publish(k, p),
           NEW m \in Instances, NEW d
    PROVE  /\ m = k \/ "reader" \notin tasks[m] => inbox'[m] = inbox[m]
           /\ m # k /\ "reader" \in tasks[m] =>
                 /\ inbox'[m] = inbox[m] \o <<p>>
                 /\ Keeps(inbox'[m], d) <=> Keeps(inbox[m], d) /\ ~Disconnects(p, d)
                 /\ Tells(inbox'[m], d) <=>
                       Connects(p, d) \/ (Tells(inbox[m], d) /\ ~Disconnects(p, d))
                 /\ Asked(inbox'[m]) <=> Asked(inbox[m]) \/ IsRequest(p)
<1>1. inbox[m] \in Seq(Packet)
  BY DEF TypeOK
<1>2. Append(inbox[m], p) = inbox[m] \o <<p>> /\ <<p>> \in Seq(Packet)
  BY <1>1, Appended
<1>3. /\ Keeps(inbox[m] \o <<p>>, d) <=> Keeps(inbox[m], d) /\ Keeps(<<p>>, d)
      /\ Tells(inbox[m] \o <<p>>, d) <=>
            Tells(<<p>>, d) \/ (Tells(inbox[m], d) /\ Keeps(<<p>>, d))
      /\ Asked(inbox[m] \o <<p>>) <=> Asked(inbox[m]) \/ Asked(<<p>>)
  BY <1>1, <1>2, TellsConcatenated
<1>4. /\ m = k \/ "reader" \notin tasks[m] => inbox'[m] = inbox[m]
      /\ m # k /\ "reader" \in tasks[m] => inbox'[m] = inbox[m] \o <<p>>
  BY <1>2 DEF Publish, Receivers
<1> QED  BY <1>3, <1>4, OneTold

(* What is left when the first packet is taken. *)
LEMMA TailTells ==
    ASSUME NEW s \in Seq(Packet), s # <<>>, NEW d
    PROVE  /\ Head(s) \in Packet /\ Tail(s) \in Seq(Packet)
           /\ Keeps(s, d) <=> ~Disconnects(Head(s), d) /\ Keeps(Tail(s), d)
           /\ Tells(s, d) <=> Tells(Tail(s), d) \/ (Connects(Head(s), d) /\ Keeps(Tail(s), d))
           /\ Silent(s, d) <=> /\ ~Connects(Head(s), d) /\ ~Disconnects(Head(s), d)
                               /\ Silent(Tail(s), d)
           /\ Asked(s) <=> IsRequest(Head(s)) \/ Asked(Tail(s))
<1>1. /\ Head(s) \in Packet /\ Tail(s) \in Seq(Packet)
      /\ <<Head(s)>> \in Seq(Packet)
      /\ s = <<Head(s)>> \o Tail(s)
  BY HeadAndTail
<1> DEFINE h == <<Head(s)>>
           t == Tail(s)
<1>2. /\ Keeps(h \o t, d) <=> Keeps(h, d) /\ Keeps(t, d)
      /\ Tells(h \o t, d) <=> Tells(t, d) \/ (Tells(h, d) /\ Keeps(t, d))
      /\ Silent(h \o t, d) <=> Silent(h, d) /\ Silent(t, d)
      /\ Asked(h \o t) <=> Asked(h) \/ Asked(t)
  BY <1>1, TellsConcatenated
<1>3. /\ Keeps(h, d) <=> ~Disconnects(Head(s), d)
      /\ Tells(h, d) <=> Connects(Head(s), d)
      /\ Silent(h, d) <=> ~Connects(Head(s), d) /\ ~Disconnects(Head(s), d)
      /\ Asked(h) <=> IsRequest(Head(s))
  BY OneTold
<1>4. s = h \o t
  BY <1>1
<1> HIDE DEF h
<1>5. /\ Keeps(s, d) <=> Keeps(h, d) /\ Keeps(t, d)
      /\ Tells(s, d) <=> Tells(t, d) \/ (Tells(h, d) /\ Keeps(t, d))
      /\ Silent(s, d) <=> Silent(h, d) /\ Silent(t, d)
      /\ Asked(s) <=> Asked(h) \/ Asked(t)
  BY <1>2, <1>4
<1> QED  BY <1>1, <1>3, <1>5

(* Writing moves the first packet of a queue to the inboxes. *)
LEMMA WriteKeepsPair ==
    ASSUME TypeOK, OriginInv,
           NEW i \in Instances, NEW j \in Instances, i # j, NEW d \in Devices,
           PairInv(i, j, d), Between(i, j, d), NEW k \in Instances, Write(k)
    PROVE  PairInv(i, j, d)'
<1> DEFINE p == Head(queue[k])
<1>1. /\ queue[k] \in Seq(Packet) /\ queue[k] # <<>>
      /\ Publish(k, p)
      /\ queue' = [queue EXCEPT ![k] = Tail(queue[k])]
      /\ UNCHANGED <<starts, healthy, connected, remote>>
      /\ \A m \in healthy : "reader" \in tasks[m]
      /\ queue \in [Instances -> Seq(Packet)]
  BY ViewTypes DEF Write, process, manager
<1>2. /\ p \in Packet
      /\ Keeps(queue[k], d) <=> ~Disconnects(p, d) /\ Keeps(Tail(queue[k]), d)
      /\ Tells(queue[k], d) <=>
            Tells(Tail(queue[k]), d) \/ (Connects(p, d) /\ Keeps(Tail(queue[k]), d))
      /\ Silent(queue[k], d) <=> /\ ~Connects(p, d) /\ ~Disconnects(p, d)
                                 /\ Silent(Tail(queue[k]), d)
      /\ Asked(queue[k]) <=> IsRequest(p) \/ Asked(Tail(queue[k]))
  BY <1>1, TailTells
<1>3. \A m \in Instances : queue'[m] = IF m = k THEN Tail(queue[k]) ELSE queue[m]
  BY <1>1
<1> HIDE DEF p
<1>5. ASSUME i \in healthy PROVE d \in Learns(i, j)' <=> d \in Learns(i, j)
  <2>1. /\ k = i => inbox'[i] = inbox[i]
        /\ k # i => /\ Keeps(inbox'[i], d) <=> Keeps(inbox[i], d) /\ ~Disconnects(p, d)
                    /\ Tells(inbox'[i], d) <=>
                          Connects(p, d) \/ (Tells(inbox[i], d) /\ ~Disconnects(p, d))
    BY <1>1, <1>2, <1>5, PublishedTells
  <2>2. ~(Connects(p, d) /\ Disconnects(p, d))
    BY DEF Connects, Disconnects
  <2>3. remote'[i] = remote[i]
    BY <1>1
  <2>4. d \in Learns(i, j)' <=>
             \/ Tells(queue'[j], d)
             \/ /\ Keeps(queue'[j], d)
                /\ Tells(inbox'[i], d) \/ (d \in remote[i] /\ Keeps(inbox'[i], d))
    BY <2>3, LearnsOfNext
  <2>5. CASE k = j
    <3>1. queue'[j] = Tail(queue[j])
      BY <1>3, <2>5
    <3> QED  BY <1>2, <2>1, <2>2, <2>4, <2>5, <3>1, LearnsOf
  <2>6. CASE k = i
    BY <1>3, <2>1, <2>4, <2>6, LearnsOf
  <2>7. CASE k \notin {i, j}
    <3>1. ~Connects(p, d) /\ ~Disconnects(p, d)
      BY <1>2, <2>7 DEF Between
    <3> QED  BY <1>3, <2>1, <2>4, <2>7, <3>1, LearnsOf
  <2> QED  BY <2>5, <2>6, <2>7
<1>6. ASSUME i \in healthy, j \in healthy, Asked(queue[i]) \/ Asked(inbox[j])
      PROVE  Asked(queue'[i]) \/ Asked(inbox'[j])
  <2>1. /\ k = j => inbox'[j] = inbox[j]
        /\ k # j => (Asked(inbox'[j]) <=> Asked(inbox[j]) \/ IsRequest(p))
    BY <1>1, <1>2, <1>6, PublishedTells
  <2>2. k # i => queue'[i] = queue[i]
    BY <1>3
  <2>3. k = i => (Asked(queue[i]) <=> IsRequest(p) \/ Asked(queue'[i]))
    BY <1>2, <1>3
  <2> QED  BY <1>6, <2>1, <2>2, <2>3
<1>7. starts'[j] = starts[j] /\ healthy' = healthy /\ connected'[j] = connected[j]
  BY <1>1
<1> QED  BY <1>5, <1>6, <1>7, SameView

(* So does a handler publish its answer. *)
LEMMA AnswerKeepsPair ==
    ASSUME TypeOK, OriginInv,
           NEW i \in Instances, NEW j \in Instances, i # j, NEW d \in Devices,
           PairInv(i, j, d), NEW k \in Instances, Handler(k)
    PROVE  PairInv(i, j, d)'
<1>1. PICK p \in Packet : p.kind \in {"delivered", "undelivered"} /\ Publish(k, p)
  <2>1. handling[k] \in Requests
    BY DEF Handler, Delivers, DeliveryFails, TypeOK
  <2>2. \A kind \in {"delivered", "undelivered"} :
           Pack(kind, handling[k]) \in Packet /\ Pack(kind, handling[k]).kind = kind
    BY <2>1 DEF Packet, Pack
  <2> QED  BY <2>2 DEF Handler, Delivers, DeliveryFails
<1>2. UNCHANGED <<starts, healthy, connected, remote, queue>>
  BY DEF Handler, Delivers, DeliveryFails, process, manager
<1>3. ~Connects(p, d) /\ ~Disconnects(p, d)
  BY <1>1 DEF Connects, Disconnects
<1>4. /\ Keeps(inbox'[i], d) <=> Keeps(inbox[i], d)
      /\ Tells(inbox'[i], d) <=> Tells(inbox[i], d)
  BY <1>1, <1>3, PublishedTells
<1>5. Asked(inbox[j]) => Asked(inbox'[j])
  BY <1>1, PublishedTells
<1>6. d \in Learns(i, j)' <=> d \in Learns(i, j)
  <2>1. queue'[j] = queue[j] /\ remote'[i] = remote[i]
    BY <1>2
  <2> QED  BY <1>4, <2>1, LearnsOf, LearnsOfNext
<1>7. /\ starts'[j] = starts[j] /\ healthy' = healthy /\ connected'[j] = connected[j]
      /\ queue' = queue
  BY <1>2
<1> QED  BY <1>5, <1>6, <1>7, SameView

(* Reading takes the first packet of an inbox. *)
LEMMA ReadTells ==
    ASSUME TypeOK, NEW k \in Instances, NEW p, Reads(k, p), NEW m \in Instances, NEW d
    PROVE  /\ p \in Packet
           /\ m # k => inbox'[m] = inbox[m]
           /\ Keeps(inbox[k], d) <=> ~Disconnects(p, d) /\ Keeps(inbox'[k], d)
           /\ Tells(inbox[k], d) <=>
                 Tells(inbox'[k], d) \/ (Connects(p, d) /\ Keeps(inbox'[k], d))
           /\ Asked(inbox[k]) <=> IsRequest(p) \/ Asked(inbox'[k])
<1>1. /\ inbox[k] \in Seq(Packet) /\ inbox[k] # <<>>
      /\ p = Head(inbox[k])
      /\ inbox' = [inbox EXCEPT ![k] = Tail(inbox[k])]
      /\ inbox \in [Instances -> Seq(Packet)]
  BY DEF TypeOK, Reads
<1>2. inbox'[k] = Tail(inbox[k]) /\ (m # k => inbox'[m] = inbox[m])
  BY <1>1
<1> QED  BY <1>1, <1>2, TailTells

(* A packet that is read and not answered. *)
LEMMA ReadKeepsPair ==
    ASSUME TypeOK, OriginInv,
           NEW i \in Instances, NEW j \in Instances, i # j, NEW d \in Devices,
           PairInv(i, j, d), NEW k \in Instances, NEW p, Reads(k, p), ~IsRequest(p),
           UNCHANGED <<starts, healthy, connected, queue>>,
           \A m \in Instances \ {k} : remote'[m] = remote[m],
           d \in remote'[k] <=> Connects(p, d) \/ (d \in remote[k] /\ ~Disconnects(p, d))
    PROVE  PairInv(i, j, d)'
<1>1. \A m \in Instances :
         /\ m # k => inbox'[m] = inbox[m]
         /\ Keeps(inbox[k], d) <=> ~Disconnects(p, d) /\ Keeps(inbox'[k], d)
         /\ Tells(inbox[k], d) <=>
               Tells(inbox'[k], d) \/ (Connects(p, d) /\ Keeps(inbox'[k], d))
         /\ Asked(inbox[k]) <=> Asked(inbox'[k])
  BY ReadTells
<1>2. d \in Learns(i, j)' <=> d \in Learns(i, j)
  <2>1. queue'[j] = queue[j]
    OBVIOUS
  <2>2. Tells(inbox'[i], d) \/ (d \in remote'[i] /\ Keeps(inbox'[i], d))
           <=> Tells(inbox[i], d) \/ (d \in remote[i] /\ Keeps(inbox[i], d))
    <3>1. CASE i = k
      BY <1>1, <3>1
    <3>2. CASE i # k
      BY <1>1, <3>2
    <3> QED  BY <3>1, <3>2
  <2> QED  BY <2>1, <2>2, LearnsOf, LearnsOfNext
<1>3. Asked(inbox[j]) => Asked(inbox'[j])
  BY <1>1
<1>4. starts'[j] = starts[j] /\ healthy' = healthy /\ connected'[j] = connected[j] /\ queue' = queue
  OBVIOUS
<1> QED  BY <1>2, <1>3, <1>4, SameView

LEMMA ReadersKeepPair ==
    ASSUME TypeOK, OriginInv,
           NEW i \in Instances, NEW j \in Instances, i # j, NEW d \in Devices,
           PairInv(i, j, d), NEW k \in Instances,
           ApplyAnnouncement(k) \/ TakeMessage(k) \/ TakeReply(k)
    PROVE  PairInv(i, j, d)'
<1>0. remote \in [Instances -> SUBSET Devices]
  BY ViewTypes
<1>1. CASE ApplyAnnouncement(k)
  <2>1. PICK p \in Packet :
          /\ Reads(k, p)
          /\ \/ p.kind = "device_connected" /\ remote' = [remote EXCEPT ![k] = @ \cup {p.item}]
             \/ p.kind = "device_disconnected" /\ remote' = [remote EXCEPT ![k] = @ \ {p.item}]
             \/ p.kind \in {"session_bound", "session_unbound"} /\ remote' = remote
    BY <1>1 DEF ApplyAnnouncement
  <2>2. UNCHANGED <<starts, healthy, connected, queue>>
    BY <1>1 DEF ApplyAnnouncement, process
  <2>3. \A m \in Instances \ {k} : remote'[m] = remote[m]
    BY <1>0, <2>1
  <2>4. d \in remote'[k] <=> Connects(p, d) \/ (d \in remote[k] /\ ~Disconnects(p, d))
    BY <1>0, <2>1 DEF Connects, Disconnects
  <2>5. ~IsRequest(p)
    BY <2>1 DEF IsRequest
  <2> QED  BY <2>1, <2>2, <2>3, <2>4, <2>5, ReadKeepsPair
<1>2. CASE TakeMessage(k) \/ TakeReply(k)
  <2>1. PICK p : Reads(k, p) /\ p.kind \in {"device_message", "delivered", "undelivered"}
    <3>1. CASE TakeMessage(k)
      <4>1. PICK r \in Requests, e \in Devices :
              Reads(k, [kind |-> "device_message", item |-> r, destination |-> e])
        BY <3>1 DEF TakeMessage
      <4>2. [kind |-> "device_message", item |-> r, destination |-> e].kind = "device_message"
        OBVIOUS
      <4> QED  BY <4>1, <4>2
    <3>2. CASE TakeReply(k)
      BY <3>2 DEF TakeReply
    <3> QED  BY <1>2, <3>1, <3>2
  <2>2. UNCHANGED <<starts, healthy, connected, remote, queue>>
    BY <1>2 DEF TakeMessage, TakeReply, process, manager
  <2>3. ~IsRequest(p) /\ ~Connects(p, d) /\ ~Disconnects(p, d)
    BY <2>1 DEF IsRequest, Connects, Disconnects
  <2> QED  BY <2>1, <2>2, <2>3, ReadKeepsPair
<1> QED  BY <1>1, <1>2

(* A process or a task that ends is healthy no more. *)
LEMMA EndKeepsPair ==
    ASSUME TypeOK, OriginInv,
           NEW i \in Instances, NEW j \in Instances, i # j, NEW d \in Devices,
           PairInv(i, j, d), NEW k \in Instances,
           Stop(k) \/ WriterFails(k) \/ ReaderFails(k)
    PROVE  PairInv(i, j, d)'
<1>1. /\ k \in up
      /\ healthy' = healthy \ {k}
      /\ starts' = starts
      /\ \A m \in Instances : m # k => /\ queue'[m] = queue[m] /\ inbox'[m] = inbox[m]
                                       /\ connected'[m] = connected[m] /\ remote'[m] = remote[m]
      /\ queue'[k] = queue[k] \/ queue'[k] = <<>>
  <2>1. /\ queue \in [Instances -> Seq(Packet)] /\ inbox \in [Instances -> Seq(Packet)]
        /\ connected \in [Instances -> SUBSET Devices]
        /\ remote \in [Instances -> SUBSET Devices]
        /\ \A m \in Instances : tasks[m] # {} => m \in up
    BY ViewTypes
  <2>2. CASE Stop(k)
    BY <2>1, <2>2 DEF Stop
  <2>3. CASE WriterFails(k) \/ ReaderFails(k)
    BY <2>1, <2>3 DEF WriterFails, ReaderFails, Failed, manager
  <2> QED  BY <2>2, <2>3
<1>3. \A m \in Instances : starts[m] = 0 => m \notin up
  BY ViewTypes
<1>4. CASE k \in {i, j}
  BY <1>1, <1>3, <1>4, PairNext
<1>5. CASE k \notin {i, j}
  <2>1. /\ queue'[i] = queue[i] /\ inbox'[i] = inbox[i] /\ remote'[i] = remote[i]
        /\ queue'[j] = queue[j] /\ inbox'[j] = inbox[j] /\ connected'[j] = connected[j]
    BY <1>1, <1>5
  <2>2. d \in Learns(i, j)' <=> d \in Learns(i, j)
    BY <2>1, LearnsOf, LearnsOfNext
  <2>3. (i \in healthy' => i \in healthy) /\ (j \in healthy' => j \in healthy)
        /\ starts'[j] = starts[j]
    BY <1>1
  <2> QED  BY <2>1, <2>2, <2>3, SameView
<1> QED  BY <1>4, <1>5

(* A process that starts asks everybody, and knows nothing before. *)
LEMMA StartKeepsPair ==
    ASSUME TypeOK, OriginInv,
           NEW i \in Instances, NEW j \in Instances, i # j, NEW d \in Devices,
           PairInv(i, j, d), NEW k \in Instances, Start(k)
    PROVE  PairInv(i, j, d)'
<1> DEFINE request == Pack("snapshot_request", None)
<1>1. /\ k \notin up
      /\ healthy' = healthy \cup {k}
      /\ \A m \in Instances : m # k => queue'[m] = queue[m] /\ starts'[m] = starts[m]
      /\ queue'[k] = <<request>> /\ starts'[k] = starts[k] + 1
      /\ UNCHANGED <<inbox, connected, remote>>
      /\ starts[k] \in Nat
  BY DEF Start, TypeOK, manager
<1>2. /\ queue[k] = <<>> /\ inbox[k] = <<>> /\ connected[k] = {} /\ remote[k] = {}
      /\ k \notin healthy
  BY <1>1, ViewTypes DEF OriginInv
<1>3. /\ Asked(<<request>>) /\ Silent(<<request>>, d)
      /\ Keeps(<<request>>, d) /\ ~Tells(<<request>>, d)
  BY OneTold DEF IsRequest, Connects, Disconnects, Pack
<1>5. CASE k = i
  <2>1. Asked(queue'[i])
    BY <1>1, <1>3, <1>5
  <2>2. d \in Learns(i, j)' <=> Tells(queue[j], d)
    <3>1. inbox'[i] = <<>> /\ remote'[i] = {} /\ queue'[j] = queue[j]
      BY <1>1, <1>2, <1>5
    <3> QED  BY <3>1, NothingTold, LearnsOfNext
  <2>3. j \in healthy /\ Tells(queue[j], d) => d \in connected[j]
    BY DEF OriginInv, After
  <2>4. starts[j] = 0 => ~Tells(queue[j], d)
    BY ViewTypes, NothingTold
  <2>5. starts'[j] = starts[j] /\ (j \in healthy' => j \in healthy) /\ connected' = connected
    BY <1>1, <1>5
  <2> QED  BY <2>1, <2>2, <2>3, <2>4, <2>5, PairNext
<1>6. CASE k = j
  <2>1. d \notin connected'[j]
    BY <1>1, <1>2, <1>6
  <2>2. d \in Learns(i, j)' <=> d \in Learns(i, j)
    <3>1. queue[j] = <<>> /\ queue'[j] = <<request>> /\ inbox'[i] = inbox[i] /\ remote'[i] = remote[i]
      BY <1>1, <1>2, <1>6
    <3> QED  BY <1>3, <3>1, NothingTold, LearnsOf, LearnsOfNext
  <2>3. starts'[j] = 0 \/ starts'[j] = 1 => starts[j] = 0
    BY <1>1, <1>6
  <2>4. (i \in healthy' => i \in healthy) /\ connected' = connected
    BY <1>1, <1>6
  <2>5. i \in healthy /\ starts[j] = 0 /\ d \in Learns(i, j) => d \in connected[j]
    BY DEF PairInv
  <2> QED  BY <2>1, <2>2, <2>3, <2>4, <2>5, PairNext
<1>7. CASE k \notin {i, j}
  <2>1. /\ queue'[i] = queue[i] /\ inbox'[i] = inbox[i] /\ remote'[i] = remote[i]
        /\ queue'[j] = queue[j] /\ inbox'[j] = inbox[j] /\ connected'[j] = connected[j]
    BY <1>1, <1>7
  <2>2. d \in Learns(i, j)' <=> d \in Learns(i, j)
    BY <2>1, LearnsOf, LearnsOfNext
  <2>3. (i \in healthy' => i \in healthy) /\ (j \in healthy' => j \in healthy)
        /\ starts'[j] = starts[j]
    BY <1>1, <1>7
  <2> QED  BY <2>1, <2>2, <2>3, SameView
<1> QED  BY <1>5, <1>6, <1>7

-------------------------------------------------------------------------------
(* What a process sends about its devices is what becomes of them. *)
Announces(k, packets) ==
    /\ k \in up
    /\ packets \in Seq(Packet)
    /\ Sends(k, packets)
    /\ UNCHANGED <<starts, up, remote>>
    /\ \A m \in Instances \ {k} : connected'[m] = connected[m] /\ routes'[m] = routes[m]
    /\ \A d \in Devices :
          d \in connected'[k] <=> Tells(packets, d) \/ (d \in connected[k] /\ Keeps(packets, d))

(* Packets that say nothing of devices. *)
LEMMA SilentAnnounces ==
    ASSUME NEW k \in up, NEW packets \in Seq(Packet), Sends(k, packets),
           \A d \in Devices : Silent(packets, d),
           UNCHANGED <<starts, up, connected, remote>>,
           \A m \in Instances \ {k} : routes'[m] = routes[m]
    PROVE  Announces(k, packets)
<1>1. \A d \in Devices : Keeps(packets, d) /\ ~Tells(packets, d)
  BY SilentTells
<1> QED  BY <1>1 DEF Announces

LEMMA ConnectionAnnounces ==
    ASSUME RelayAssumption, TypeOK, OriginInv, NEW k \in Instances, NEW e \in Devices,
           ConnectDevice(k, e) \/ DisconnectDevice(k, e)
    PROVE  \E packets : Announces(k, packets)
<1>1. /\ connected \in [Instances -> SUBSET Devices]
      /\ UNCHANGED <<starts, up, remote>>
      /\ k \in up
  BY ViewTypes DEF ConnectDevice, DisconnectDevice, process, OriginInv
<1>2. CASE ConnectDevice(k, e)
  <2> DEFINE p == Pack("device_connected", e)
  <2>1. <<p>> \in Seq(Packet)
    BY AnnouncementsAreSound, OnePacket DEF Sound
  <2>2. Sends(k, <<p>>)
    BY <1>2, <2>1, BroadcastSends DEF ConnectDevice
  <2>3. /\ connected' = [connected EXCEPT ![k] = @ \cup {e}]
        /\ routes' = routes
    BY <1>2 DEF ConnectDevice
  <2>4. \A d \in Devices : (Connects(p, d) <=> d = e) /\ ~Disconnects(p, d)
    BY DEF Connects, Disconnects, Pack
  <2> HIDE DEF p
  <2>5. \A d \in Devices : /\ Keeps(<<p>>, d)
                           /\ Tells(<<p>>, d) <=> d = e
                           /\ d # e => Silent(<<p>>, d)
    BY <2>4, OneTold
  <2>6. \A m \in Instances \ {k} : connected'[m] = connected[m] /\ routes'[m] = routes[m]
    BY <1>1, <2>3
  <2>7. \A d \in Devices : d \in connected'[k] <=> d \in connected[k] \/ d = e
    BY <1>1, <2>3
  <2> QED  BY <1>1, <2>1, <2>2, <2>5, <2>6, <2>7 DEF Announces
<1>3. CASE DisconnectDevice(k, e)
  <2> DEFINE ended == {s \in routes[k] : SessionDevice[s] = e}
             first == PackEach("session_unbound", ended)
             p == Pack("device_disconnected", e)
  <2>1. IsFiniteSet(ended) /\ ended \subseteq Sessions
    BY FS_Subset DEF TypeOK, RelayAssumption
  <2>2. first \in Seq(Packet) /\ <<p>> \in Seq(Packet)
    <3>1. first \in Seq(Sound)
      BY <2>1, AnnouncementsAreSound, PackEachIsSound
    <3>2. p \in Packet
      BY AnnouncementsAreSound DEF Sound
    <3>3. first \in Seq(Packet)
      BY <3>1, SeqMonotonic DEF Sound
    <3> HIDE DEF p
    <3> QED  BY <3>2, <3>3, OnePacket
  <2>3. \A d \in Devices : Silent(first, d)
    BY <2>1, PackedSilent
  <2>4. \A d \in Devices : (Disconnects(p, d) <=> d = e) /\ ~Connects(p, d)
    BY DEF Connects, Disconnects, Pack
  <2>5. /\ connected' = [connected EXCEPT ![k] = @ \ {e}]
        /\ routes' = [routes EXCEPT ![k] = @ \ ended]
        /\ Broadcast(k, first \o <<p>>)
    BY <1>3 DEF DisconnectDevice
  <2> HIDE DEF first, p, ended
  <2>6. \A d \in Devices : /\ Keeps(<<p>>, d) <=> d # e
                           /\ ~Tells(<<p>>, d)
                           /\ d # e => Silent(<<p>>, d)
    BY <2>4, OneTold
  <2>7. \A d \in Devices : /\ Keeps(first \o <<p>>, d) <=> d # e
                           /\ ~Tells(first \o <<p>>, d)
                           /\ d # e => Silent(first \o <<p>>, d)
    BY <2>2, <2>3, <2>6, TellsConcatenated, SilentTells
  <2>8. first \o <<p>> \in Seq(Packet)
    BY <2>2, ConcatProperties
  <2>9. Sends(k, first \o <<p>>)
    BY <2>5, <2>8, BroadcastSends
  <2>10. \A m \in Instances \ {k} : connected'[m] = connected[m] /\ routes'[m] = routes[m]
    BY <1>1, <2>5 DEF TypeOK
  <2>11. \A d \in Devices : d \in connected'[k] <=> d \in connected[k] /\ d # e
    BY <1>1, <2>5
  <2> QED  BY <1>1, <2>5, <2>7, <2>8, <2>9, <2>10, <2>11 DEF Announces
<1> QED  BY <1>2, <1>3

LEMMA SessionAnnounces ==
    ASSUME RelayAssumption, TypeOK, OriginInv, NEW k \in Instances, NEW s \in Sessions,
           BindSession(k, s) \/ UnbindSession(k, s)
    PROVE  \E packets : Announces(k, packets)
<1>1. PICK kind \in {"session_bound", "session_unbound"} : Broadcast(k, <<Pack(kind, s)>>)
  BY DEF BindSession, UnbindSession
<1> DEFINE packets == <<Pack(kind, s)>>
<1>2. packets \in Seq(Packet)
  BY AnnouncementsAreSound, OnePacket DEF Sound
<1>3. \A d \in Devices : Silent(packets, d)
  <2>1. \A d \in Devices : ~Connects(Pack(kind, s), d) /\ ~Disconnects(Pack(kind, s), d)
    BY DEF Connects, Disconnects, Pack
  <2> QED  BY <2>1, OneTold
<1> HIDE DEF packets
<1>4. Sends(k, packets)
  BY <1>1, <1>2, BroadcastSends DEF packets
<1>5. /\ UNCHANGED <<starts, up, connected, remote>>
      /\ k \in up
      /\ \A m \in Instances \ {k} : routes'[m] = routes[m]
  BY DEF BindSession, UnbindSession, process, OriginInv, TypeOK
<1> QED  BY <1>2, <1>3, <1>4, <1>5, SilentAnnounces

LEMMA MessageAnnounces ==
    ASSUME RelayAssumption, TypeOK, NEW k \in Instances, NEW e \in Devices,
           NEW r \in Requests, SendToDevice(k, e, r)
    PROVE  \E packets : Announces(k, packets)
<1>1. PICK p \in Packet : p.kind = "device_message" /\ Sends(k, <<p>>)
  BY MessageSends
<1>2. <<p>> \in Seq(Packet)
  BY OnePacket
<1>3. \A d \in Devices : Silent(<<p>>, d)
  BY <1>1, OneTold DEF Connects, Disconnects
<1>4. UNCHANGED <<starts, up, connected, remote, routes>> /\ k \in up
  BY DEF SendToDevice, process, manager
<1> QED  BY <1>1, <1>2, <1>3, <1>4, SilentAnnounces

LEMMA SnapshotAnnounces ==
    ASSUME RelayAssumption, TypeOK, OriginInv, NEW k \in Instances, AnswerSnapshot(k)
    PROVE  Announces(k, Snapshot(k))
<1>1. \A d \in Devices :
         /\ Snapshot(k) \in Seq(Packet)
         /\ Keeps(Snapshot(k), d)
         /\ Tells(Snapshot(k), d) <=> d \in connected[k]
         /\ d \notin connected[k] => Silent(Snapshot(k), d)
  BY SnapshotTells
<1>2. Snapshot(k) \in Seq(Packet)
  <2>1. /\ connected[k] \in SUBSET Devices /\ routes[k] \in SUBSET Sessions
        /\ IsFiniteSet(connected[k]) /\ IsFiniteSet(routes[k])
    BY FS_Subset DEF TypeOK, RelayAssumption
  <2>2. /\ PackEach("device_connected", connected[k]) \in Seq(Sound)
        /\ PackEach("session_bound", routes[k]) \in Seq(Sound)
    BY <2>1, AnnouncementsAreSound, PackEachIsSound
  <2>3. Snapshot(k) \in Seq(Sound)
    BY <2>2, ConcatProperties DEF Snapshot
  <2> QED  BY <2>3, SeqMonotonic DEF Sound
<1>3. UNCHANGED <<starts, up, connected, remote, routes>> /\ Broadcast(k, Snapshot(k))
  BY DEF AnswerSnapshot, process, manager
<1>4. k \in up
  <2>1. inbox[k] # <<>>
    BY DEF AnswerSnapshot, Reads
  <2> QED  BY <2>1, ViewTypes
<1>5. Sends(k, Snapshot(k))
  BY <1>2, <1>3, BroadcastSends
<1> QED  BY <1>1, <1>2, <1>3, <1>4, <1>5 DEF Announces

(* So an announcement keeps both parts of the invariant. *)
LEMMA AnnouncementKeepsPair ==
    ASSUME RelayAssumption, TypeOK, OriginInv,
           NEW i \in Instances, NEW j \in Instances, i # j, NEW d \in Devices,
           PairInv(i, j, d),
           NEW k \in Instances, NEW packets, Announces(k, packets),
           Tells(inbox'[i], d) <=> Tells(inbox[i], d),
           Keeps(inbox'[i], d) <=> Keeps(inbox[i], d),
           Asked(inbox[j]) => \/ Asked(inbox'[j])
                              \/ k = j /\ (d \in connected'[j] => Tells(packets, d))
    PROVE  PairInv(i, j, d)'
<1>1. /\ k \in up
      /\ packets \in Seq(Packet)
      /\ Sends(k, packets)
      /\ UNCHANGED <<starts, remote>>
      /\ \A m \in Instances \ {k} : d \in connected'[m] <=> d \in connected[m]
      /\ d \in connected'[k] <=> Tells(packets, d) \/ (d \in connected[k] /\ Keeps(packets, d))
  BY DEF Announces
<1> QED  BY <1>1, SendKeepsPair

LEMMA AnnouncementKeepsOrigin ==
    ASSUME TypeOK, OriginInv, NEW k \in Instances, NEW packets, Announces(k, packets)
    PROVE  OriginInv'
<1>1. /\ \A j \in Instances \ up' : connected'[j] = {} /\ remote'[j] = {} /\ routes'[j] = {}
      /\ \A j \in up' : starts'[j] # 0
  BY DEF Announces, OriginInv
<1>2. ASSUME NEW j \in healthy', NEW d \in Devices, Tells(queue'[j], d)
      PROVE  d \in connected'[j]
  <2>1. /\ j \in Instances /\ j \in healthy /\ queue[j] \in Seq(Packet)
        /\ packets \in Seq(Packet)
    BY ViewTypes DEF Announces, Sends
  <2>2. Tells(queue[j], d) => d \in connected[j]
    BY <2>1 DEF OriginInv, After
  <2>3. CASE j # k
    BY <1>2, <2>1, <2>2, <2>3 DEF Announces, Sends
  <2>4. CASE j = k
    <3>1. queue'[j] = queue[j] \o packets
      BY <2>4 DEF Announces, Sends
    <3>2. Tells(packets, d) \/ (Tells(queue[j], d) /\ Keeps(packets, d))
      BY <1>2, <2>1, <3>1, TellsConcatenated
    <3> QED  BY <2>2, <2>4, <3>2 DEF Announces
  <2> QED  BY <2>3, <2>4
<1>3. \A j \in healthy' : After(queue[j], {})' \subseteq connected'[j]
  <2>1. \A j, d : Tells(queue[j], d)' <=> Tells(queue'[j], d)
    BY DEF Tells
  <2> QED  BY <1>2, <2>1 DEF After
<1> QED  BY <1>1, <1>3 DEF OriginInv

(* The six handlers that send. *)
Sender(k) ==
    \/ \E e \in Devices : \/ ConnectDevice(k, e) \/ DisconnectDevice(k, e)
                          \/ \E r \in Requests : SendToDevice(k, e, r)
    \/ \E s \in Sessions : BindSession(k, s) \/ UnbindSession(k, s)
    \/ AnswerSnapshot(k)

LEMMA SenderKeepsPair ==
    ASSUME RelayAssumption, TypeOK, OriginInv,
           NEW i \in Instances, NEW j \in Instances, i # j, NEW d \in Devices,
           PairInv(i, j, d),
           NEW k \in Instances, Sender(k)
    PROVE  PairInv(i, j, d)'
<1>1. CASE AnswerSnapshot(k)
  <2> DEFINE request == Pack("snapshot_request", None)
  <2>1. /\ \A m \in Instances : m # k => inbox'[m] = inbox[m]
        /\ Keeps(inbox[k], d) <=> ~Disconnects(request, d) /\ Keeps(inbox'[k], d)
        /\ Tells(inbox[k], d) <=>
              Tells(inbox'[k], d) \/ (Connects(request, d) /\ Keeps(inbox'[k], d))
    BY <1>1, ReadTells DEF AnswerSnapshot
  <2>2. ~Connects(request, d) /\ ~Disconnects(request, d)
    BY DEF Connects, Disconnects, Pack
  <2>3. /\ Keeps(inbox'[i], d) <=> Keeps(inbox[i], d)
        /\ Tells(inbox'[i], d) <=> Tells(inbox[i], d)
    BY <2>1, <2>2
  <2>4. d \in connected'[k] => Tells(Snapshot(k), d)
    BY <1>1, SnapshotTells DEF AnswerSnapshot, manager
  <2>5. k # j => inbox'[j] = inbox[j]
    BY <2>1
  <2> QED  BY <1>1, <2>3, <2>4, <2>5, SnapshotAnnounces, AnnouncementKeepsPair
<1>2. CASE ~AnswerSnapshot(k)
  <2>1. \E packets : Announces(k, packets)
    BY <1>2, ConnectionAnnounces, SessionAnnounces, MessageAnnounces DEF Sender
  <2>2. inbox' = inbox
    BY <1>2 DEF Sender, ConnectDevice, DisconnectDevice, SendToDevice, BindSession, UnbindSession
  <2> QED  BY <2>1, <2>2, AnnouncementKeepsPair
<1> QED  BY <1>1, <1>2

LEMMA SenderKeepsOrigin ==
    ASSUME RelayAssumption, TypeOK, OriginInv, NEW k \in Instances, Sender(k)
    PROVE  OriginInv'
<1>1. \E packets : Announces(k, packets)
  BY ConnectionAnnounces, SessionAnnounces, MessageAnnounces, SnapshotAnnounces DEF Sender
<1> QED  BY <1>1, AnnouncementKeepsOrigin

(* A step after which the queue of a healthy relay is a rest of what it was. *)
LEMMA RestKeepsOrigin ==
    ASSUME OriginInv,
           \A j \in Instances \ up' : connected'[j] = {} /\ remote'[j] = {} /\ routes'[j] = {},
           \A j \in up' : starts'[j] # 0,
           \A j \in healthy' : \/ j \in healthy /\ connected'[j] = connected[j]
                               \/ \A d \in Devices : ~Tells(queue'[j], d),
           \A j \in healthy', d \in Devices : Tells(queue'[j], d) => Tells(queue[j], d)
    PROVE  OriginInv'
<1>1. \A j, d : Tells(queue[j], d)' <=> Tells(queue'[j], d)
  BY DEF Tells
<1>2. \A j \in healthy', d \in Devices : Tells(queue'[j], d) => d \in connected'[j]
  BY DEF OriginInv, After
<1> QED  BY <1>1, <1>2 DEF OriginInv, After

LEMMA OriginStep ==
    ASSUME RelayAssumption, TypeOK, OriginInv, [Next]_vars
    PROVE  OriginInv'
<1> DEFINE request == Pack("snapshot_request", None)
<1>0. /\ queue \in [Instances -> Seq(Packet)] /\ connected \in [Instances -> SUBSET Devices]
      /\ remote \in [Instances -> SUBSET Devices] /\ routes \in [Instances -> SUBSET Sessions]
      /\ starts \in [Instances -> Nat]
      /\ healthy \subseteq up /\ up \subseteq Instances
      /\ \A k \in Instances : tasks[k] # {} => k \in up
  BY ViewTypes DEF TypeOK
<1>1. ASSUME NEW k \in Instances, Sender(k) PROVE OriginInv'
  BY <1>1, SenderKeepsOrigin
<1>2. ASSUME NEW k \in Instances, Start(k) PROVE OriginInv'
  <2>1. /\ k \notin up /\ up' = up \cup {k} /\ healthy' = healthy \cup {k}
        /\ UNCHANGED <<connected, remote, routes>>
        /\ queue' = [queue EXCEPT ![k] = <<request>>]
        /\ starts' = [starts EXCEPT ![k] = @ + 1]
    BY <1>2 DEF Start, manager
  <2>2. \A m \in Instances : m # k => queue'[m] = queue[m] /\ starts'[m] = starts[m]
    BY <1>0, <2>1
  <2>3. queue'[k] = <<request>> /\ starts'[k] # 0
    BY <1>0, <2>1
  <2>4. \A d \in Devices : ~Tells(<<request>>, d)
    BY OneTold DEF Connects, Pack
  <2> HIDE DEF request
  <2>5. \A d \in Devices : ~Tells(queue'[k], d)
    BY <2>3, <2>4
  <2>6. \A j \in healthy' :
           /\ (j \in healthy /\ connected'[j] = connected[j]) \/ \A d \in Devices : ~Tells(queue'[j], d)
           /\ \A d \in Devices : Tells(queue'[j], d) => Tells(queue[j], d)
    BY <1>0, <2>1, <2>2, <2>5
  <2>7. /\ \A j \in Instances \ up' : connected'[j] = {} /\ remote'[j] = {} /\ routes'[j] = {}
        /\ \A j \in up' : starts'[j] # 0
    BY <1>0, <2>1, <2>2, <2>3 DEF OriginInv
  <2> QED  BY <2>6, <2>7, RestKeepsOrigin
<1>3. ASSUME NEW k \in Instances, Stop(k) PROVE OriginInv'
  <2>1. /\ up' = up \ {k} /\ healthy' = healthy \ {k} /\ starts' = starts
        /\ connected' = [connected EXCEPT ![k] = {}]
        /\ remote' = [remote EXCEPT ![k] = {}]
        /\ routes' = [routes EXCEPT ![k] = {}]
        /\ queue' = [queue EXCEPT ![k] = <<>>]
    BY <1>3 DEF Stop
  <2>2. /\ connected'[k] = {} /\ remote'[k] = {} /\ routes'[k] = {}
        /\ \A m \in Instances \ {k} : /\ connected'[m] = connected[m] /\ remote'[m] = remote[m]
                                      /\ routes'[m] = routes[m] /\ queue'[m] = queue[m]
    BY <1>0, <2>1
  <2> QED  BY <1>0, <2>1, <2>2, RestKeepsOrigin DEF OriginInv
<1>4. ASSUME NEW k \in Instances, WriterFails(k) PROVE OriginInv'
  <2>1. /\ healthy' = healthy \ {k} /\ UNCHANGED <<starts, up, connected, remote, routes>>
        /\ queue' = [queue EXCEPT ![k] = <<>>]
    BY <1>4 DEF WriterFails, Failed, manager
  <2>2. \A m \in Instances \ {k} : queue'[m] = queue[m]
    BY <1>0, <2>1
  <2> QED  BY <1>0, <2>1, <2>2, RestKeepsOrigin DEF OriginInv
<1>5. ASSUME NEW k \in Instances,
             \/ ReaderFails(k) \/ Handler(k) \/ TakeMessage(k) \/ TakeReply(k)
             \/ \E r \in Requests : SendTimesOut(k, r)
      PROVE  OriginInv'
  <2>1. /\ healthy' \subseteq healthy
        /\ UNCHANGED <<starts, up, connected, remote, routes, queue>>
    BY <1>5 DEF ReaderFails, Handler, Delivers, DeliveryFails, TakeMessage, TakeReply,
                SendTimesOut, Failed, process, manager
  <2> QED  BY <1>0, <2>1, RestKeepsOrigin DEF OriginInv
<1>6. ASSUME NEW k \in Instances, ApplyAnnouncement(k) PROVE OriginInv'
  <2>1. UNCHANGED <<starts, up, healthy, connected, queue>>
    BY <1>6 DEF ApplyAnnouncement, process
  <2>2. \A m \in Instances \ {k} : remote'[m] = remote[m] /\ routes'[m] = routes[m]
    BY <1>0, <1>6 DEF ApplyAnnouncement
  <2>3. k \in up
    <3>1. inbox[k] # <<>>
      BY <1>6 DEF ApplyAnnouncement, Reads
    <3> QED  BY <3>1, ViewTypes
  <2> QED  BY <1>0, <2>1, <2>2, <2>3, RestKeepsOrigin DEF OriginInv
<1>7. ASSUME NEW k \in Instances, Write(k) PROVE OriginInv'
  <2>1. /\ UNCHANGED <<starts, up, healthy, connected, remote, routes>>
        /\ queue' = [queue EXCEPT ![k] = Tail(@)]
        /\ queue[k] # <<>> /\ queue[k] \in Seq(Packet)
    BY <1>0, <1>7 DEF Write, process, manager
  <2>2. /\ queue'[k] = Tail(queue[k])
        /\ \A m \in Instances \ {k} : queue'[m] = queue[m]
    BY <1>0, <2>1
  <2>3. \A d \in Devices : Tells(queue'[k], d) => Tells(queue[k], d)
    BY <2>1, <2>2, TailTells
  <2> QED  BY <1>0, <2>1, <2>2, <2>3, RestKeepsOrigin DEF OriginInv
<1>8. CASE UNCHANGED vars
  BY <1>0, <1>8, RestKeepsOrigin DEF vars, process, manager, OriginInv
<1> QED
  BY <1>1, <1>2, <1>3, <1>4, <1>5, <1>6, <1>7, <1>8 DEF Next, Local, Read, Sender

LEMMA PairStep ==
    ASSUME RelayAssumption, TypeOK, OriginInv,
           NEW i \in Instances, NEW j \in Instances, i # j, NEW d \in Devices,
           PairInv(i, j, d), Between(i, j, d), [Next]_vars
    PROVE  PairInv(i, j, d)'
<1>1. ASSUME NEW k \in Instances, Sender(k) PROVE PairInv(i, j, d)'
  BY <1>1, SenderKeepsPair
<1>2. ASSUME NEW k \in Instances, Start(k) PROVE PairInv(i, j, d)'
  BY <1>2, StartKeepsPair
<1>3. ASSUME NEW k \in Instances, Stop(k) \/ WriterFails(k) \/ ReaderFails(k)
      PROVE  PairInv(i, j, d)'
  BY <1>3, EndKeepsPair
<1>4. ASSUME NEW k \in Instances, Write(k) PROVE PairInv(i, j, d)'
  BY <1>4, WriteKeepsPair
<1>5. ASSUME NEW k \in Instances, ApplyAnnouncement(k) \/ TakeMessage(k) \/ TakeReply(k)
      PROVE  PairInv(i, j, d)'
  BY <1>5, ReadersKeepPair
<1>6. ASSUME NEW k \in Instances, Handler(k) PROVE PairInv(i, j, d)'
  BY <1>6, AnswerKeepsPair
<1>7. ASSUME \/ UNCHANGED vars
             \/ \E k \in Instances, r \in Requests : SendTimesOut(k, r)
      PROVE  PairInv(i, j, d)'
  <2>1. UNCHANGED <<starts, healthy, connected, remote, queue, inbox>>
    BY <1>7 DEF vars, process, manager, SendTimesOut
  <2>2. d \in Learns(i, j)' <=> d \in Learns(i, j)
    <3>1. queue'[j] = queue[j] /\ inbox'[i] = inbox[i] /\ remote'[i] = remote[i]
      BY <2>1
    <3> QED  BY <3>1, LearnsOf, LearnsOfNext
  <2> QED  BY <2>1, <2>2, SameView
<1> QED
  BY <1>1, <1>2, <1>3, <1>4, <1>5, <1>6, <1>7 DEF Next, Local, Read, Sender

LEMMA InitViews ==
    ASSUME RelayAssumption, Init
    PROVE  /\ OriginInv
           /\ \A i, j \in Instances, d \in Devices : i # j => PairInv(i, j, d)
<1>1. /\ up = {} /\ healthy = {}
      /\ \A k \in Instances : /\ queue[k] = <<>> /\ connected[k] = {}
                              /\ remote[k] = {} /\ routes[k] = {}
  BY DEF Init
<1>2. OriginInv
  BY <1>1 DEF OriginInv
<1>3. \A i, j \in Instances, d \in Devices : PairInv(i, j, d)
  BY <1>1, NothingTold DEF PairInv
<1> QED  BY <1>2, <1>3

(* A process that stopped holds nothing, and a healthy relay's queue, written to
   its end, announces as connected only devices that are connected to that
   process.  It says nothing of what the others have read. *)
THEOREM QueuesAreTrue == Spec => []OriginInv
<1>1. Init => OriginInv
  BY InitViews, RelayAssumption
<1>2. RelayInv /\ OriginInv /\ [Next]_vars => OriginInv'
  BY OriginStep, RelayAssumption DEF RelayInv
<1> QED  BY <1>1, <1>2, RelayInvariant, PTL DEF Spec

(* For any number of processes: as long as a device is a matter of i and j only,
   i learns of it, once everything is read, if it is connected to j; and does not
   believe it connected if it is not, when j was started once.  Without the
   hypothesis this is false: the end of a device announced by a third process,
   which handles its revocation or lost it to j, makes i forget it. *)
THEOREM ViewOfDevice ==
    ASSUME NEW i \in Instances, NEW j \in Instances, i # j, NEW d \in Devices
    PROVE  Spec /\ []Between(i, j, d) => []PairInv(i, j, d)
<1>1. Init => PairInv(i, j, d)
  BY InitViews, RelayAssumption
<1>2. RelayInv /\ OriginInv /\ PairInv(i, j, d) /\ Between(i, j, d)
         /\ [Next]_vars => PairInv(i, j, d)'
  BY PairStep, RelayAssumption DEF RelayInv
<1> QED  BY <1>1, <1>2, RelayInvariant, QueuesAreTrue, PTL DEF Spec

(* When everything is read, what is learnt is what is known. *)
LEMMA QuietViews ==
    ASSUME TypeOK, Quiet, NEW i \in healthy, NEW j \in healthy, i # j,
           \A d \in Devices : PairInv(i, j, d)
    PROVE  /\ connected[j] \subseteq remote[i]
           /\ starts[j] = 1 => remote[i] = connected[j]
<1>1. /\ i \in Instances /\ j \in Instances
      /\ connected[j] \subseteq Devices /\ remote[i] \subseteq Devices
  BY DEF TypeOK
<1>2. queue[j] = <<>> /\ inbox[i] = <<>> /\ queue[i] = <<>> /\ inbox[j] = <<>>
  BY <1>1 DEF Quiet
<1>3. \A d \in Devices : d \in Learns(i, j) <=> d \in remote[i]
  BY <1>2, LearnsOf, NothingTold
<1>4. ~Asked(queue[i]) /\ ~Asked(inbox[j])
  BY <1>2, NothingTold
<1>5. \A d \in Devices : d \in connected[j] => d \in remote[i]
  BY <1>3, <1>4 DEF PairInv
<1>6. starts[j] = 1 => \A d \in Devices : d \in remote[i] => d \in connected[j]
  BY <1>3 DEF PairInv
<1> QED  BY <1>1, <1>5, <1>6

(* Two processes with healthy relays agree, once everything is read, on which
   devices are connected to the other, whatever was announced while one of them
   started or stopped; with any number of devices, sessions and messages. *)
THEOREM TwoProcessesAgree ==
    ASSUME \A i, j, k \in Instances : i = j \/ i = k \/ j = k
    PROVE  Spec => []ViewsAgree
<1> DEFINE Pairs == \A i, j \in Instances, d \in Devices : i # j => PairInv(i, j, d)
<1>1. Init => Pairs
  BY InitViews, RelayAssumption
<1>2. ASSUME RelayInv, OriginInv, Pairs, [Next]_vars
      PROVE  Pairs'
  <2>1. ASSUME NEW i \in Instances, NEW j \in Instances, i # j, NEW d \in Devices
        PROVE  PairInv(i, j, d)'
    <3>1. Between(i, j, d)
      BY <2>1 DEF Between
    <3>2. PairInv(i, j, d)
      BY <1>2, <2>1
    <3> QED  BY <1>2, <2>1, <3>1, <3>2, PairStep, RelayAssumption DEF RelayInv
  <2> QED  BY <2>1
<1>3. ASSUME RelayInv, Pairs PROVE ViewsAgree
  <2>1. TypeOK /\ healthy \subseteq Instances
    BY <1>3 DEF RelayInv, TypeOK
  <2> QED  BY <1>3, <2>1, QuietViews DEF ViewsAgree
<1> QED  BY <1>1, <1>2, <1>3, RelayInvariant, QueuesAreTrue, PTL DEF Spec
===============================================================================
