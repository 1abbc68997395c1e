--------------------------- MODULE DeviceAgent_proofs --------------------------
(***************************************************************************)
(* Proofs about DeviceAgent, for any commands, sockets, sessions and       *)
(* times: the agent is connected only as it should be, a client is left    *)
(* stranded or without the timer that ends it by nothing but a deadline    *)
(* that passes within a callback, and a command opens one window.          *)
(***************************************************************************)
EXTENDS DeviceAgent, SequenceTheorems, TLAPS

\* The state of a connection manager whose deadline is yet to be scheduled.
Loose(a) ==
    /\ a \in Agent
    /\ a.deadline \in 0 .. Most(Window, Grace)
    /\ a.timer \in 0 .. Period \cup {None}
    /\ a.active <=> a.session # None
    /\ a.session # None => a.registered
    /\ a.registered => a.socket # None
    /\ a.persistent \/ a.active => a.deadline = 0
    /\ a.client => /\ ~a.waiting
                   /\ a.retry => a.socket = None
                   /\ ~a.late => (a.socket = None <=> a.retry)
    /\ ~a.client => a.socket = None /\ ~a.retry

\* What a step of the manager leaves: a sound state that fits the preferences p.
Fits(a, p) ==
    /\ a \in Agent
    /\ a.deadline \in 0 .. Most(Window, Grace)
    /\ a.timer \in 0 .. Period \cup {None}
    /\ Sound(a)
    /\ a.client => Usable(p) /\ a.persistent = p.keep

\* What it does to its socket: it keeps, closes or opens one.
Keeps(a, b, k) ==
    /\ b.socket \in {None, a.socket, k}
    /\ a.socket # None /\ b.client => b.socket = a.socket

LEMMA Times ==
    /\ Window \in 0 .. Most(Window, Grace) /\ Grace \in 0 .. Most(Window, Grace)
    /\ 0 \in 0 .. Most(Window, Grace)
    /\ Period \in 0 .. Period /\ None \notin Int
    /\ \A n \in 0 .. Most(Window, Grace) :
          n # 0 => Least(n, Period) \in 0 .. Period /\ Least(n, Period) <= n
    /\ \A n \in 0 .. Most(Window, Grace) : n # 0 <=> n > 0
  BY AgentAssumption DEF Most, Least

(* Records are updated one field at a time: each update keeps the type. *)
LEMMA Fields ==
    ASSUME NEW a \in Agent
    PROVE  /\ \A v \in BOOLEAN :
                /\ [a EXCEPT !.persistent = v] \in Agent /\ [a EXCEPT !.active = v] \in Agent
                /\ [a EXCEPT !.client = v] \in Agent /\ [a EXCEPT !.registered = v] \in Agent
                /\ [a EXCEPT !.retry = v] \in Agent /\ [a EXCEPT !.waiting = v] \in Agent
                /\ [a EXCEPT !.late = v] \in Agent
           /\ \A n \in Int : [a EXCEPT !.deadline = n] \in Agent
           /\ \A k \in Sockets \cup {None} : [a EXCEPT !.socket = k] \in Agent
           /\ \A s \in Sessions \cup {None} : [a EXCEPT !.session = s] \in Agent
           /\ \A t \in Int \cup {None} : [a EXCEPT !.timer = t] \in Agent
<1>1. \A v \in BOOLEAN :
         /\ [a EXCEPT !.persistent = v] \in Agent /\ [a EXCEPT !.active = v] \in Agent
         /\ [a EXCEPT !.client = v] \in Agent /\ [a EXCEPT !.registered = v] \in Agent
         /\ [a EXCEPT !.retry = v] \in Agent /\ [a EXCEPT !.waiting = v] \in Agent
         /\ [a EXCEPT !.late = v] \in Agent
  BY DEF Agent
<1>2. \A n \in Int : [a EXCEPT !.deadline = n] \in Agent
  BY DEF Agent
<1>3. \A k \in Sockets \cup {None} : [a EXCEPT !.socket = k] \in Agent
  BY DEF Agent
<1>4. \A s \in Sessions \cup {None} : [a EXCEPT !.session = s] \in Agent
  BY DEF Agent
<1>5. \A t \in Int \cup {None} : [a EXCEPT !.timer = t] \in Agent
  BY DEF Agent
<1> QED
  BY <1>1, <1>2, <1>3, <1>4, <1>5

\* The one state in which nothing is left to fire
LEMMA StoppedFits ==
    ASSUME NEW a, a.persistent \in BOOLEAN, NEW p
    PROVE  /\ Fits(Stopped(a), p) /\ Stopped(a).socket = None /\ ~Stopped(a).client
           /\ Fits(Idle(a), p) /\ Idle(a).socket = None /\ ~Idle(a).client
<1>1. ASSUME NEW b \in Agent,
             b.active = FALSE /\ b.deadline = 0 /\ b.client = FALSE /\ b.socket = None,
             b.registered = FALSE /\ b.session = None /\ b.timer = None /\ b.retry = FALSE
      PROVE  Fits(b, p)
  <2>1. Sound(b)
    BY <1>1 DEF Sound
  <2> QED
    BY <1>1, <2>1, Times DEF Fits
<1>2. Stopped(a) \in Agent
  BY DEF Agent, NewAgent, Stopped
<1>3. Idle(a) \in Agent
  BY <1>2, Fields DEF Idle
<1>4. /\ Stopped(a).active = FALSE /\ Stopped(a).deadline = 0 /\ Stopped(a).client = FALSE
      /\ Stopped(a).socket = None /\ Stopped(a).registered = FALSE
      /\ Stopped(a).session = None /\ Stopped(a).timer = None /\ Stopped(a).retry = FALSE
  BY DEF NewAgent, Stopped
<1>5. /\ Idle(a).active = FALSE /\ Idle(a).deadline = 0 /\ Idle(a).client = FALSE
      /\ Idle(a).socket = None /\ Idle(a).registered = FALSE
      /\ Idle(a).session = None /\ Idle(a).timer = None /\ Idle(a).retry = FALSE
  BY DEF NewAgent, Stopped, Idle
<1> QED
  BY <1>1, <1>2, <1>3, <1>4, <1>5

\* The deadline may pass when the clock is read, and nothing else.
LEMMA AtLoose ==
    ASSUME NEW a, Loose(a), NEW read, NEW when
    PROVE  LET b == At(read, when, a)
           IN  /\ Loose(b)
               /\ b.persistent = a.persistent /\ b.active = a.active
               /\ b.client = a.client /\ b.socket = a.socket /\ b.registered = a.registered
               /\ b.session = a.session /\ b.timer = a.timer /\ b.retry = a.retry
               /\ b.waiting = a.waiting
               /\ a.late => b.late
               /\ ShouldConnect(b) => ShouldConnect(a)
               /\ ShouldConnect(a) => ShouldConnect(b) \/ b.late
<1>1. CASE when = read /\ a.deadline > 0
  <2> DEFINE n == [a EXCEPT !.deadline = 0]
             b == [n EXCEPT !.late = TRUE]
  <2>1. At(read, when, a) = b
    BY <1>1 DEF At
  <2>2. n \in Agent
    BY Fields DEF Loose
  <2>3. /\ b.persistent = a.persistent /\ b.active = a.active /\ b.deadline = 0
        /\ b.client = a.client /\ b.socket = a.socket /\ b.registered = a.registered
        /\ b.session = a.session /\ b.timer = a.timer /\ b.retry = a.retry
        /\ b.waiting = a.waiting /\ b.late = TRUE
    BY DEF Loose, Agent
  <2> HIDE DEF n
  <2>4. b \in Agent
    BY <2>2, Fields
  <2> HIDE DEF b
  <2>5. Loose(b)
    BY <2>3, <2>4, Times DEF Loose
  <2>6. ShouldConnect(b) => ShouldConnect(a)
    BY <2>3 DEF ShouldConnect
  <2> QED
    BY <2>1, <2>3, <2>5, <2>6
<1>2. CASE ~(when = read /\ a.deadline > 0)
  <2>1. At(read, when, a) = a
    BY <1>2 DEF At
  <2> QED
    BY <2>1
<1> QED
  BY <1>1, <1>2

\* scheduleDeadline leaves a timer that is due before the deadline, unless it has passed.
LEMMA ScheduledFits ==
    ASSUME NEW a, Loose(a), NEW p, a.client, ShouldConnect(a) \/ a.late, Usable(p),
           a.persistent = p.keep, NEW when
    PROVE  LET b == Scheduled(a, when)
           IN  Fits(b, p) /\ b.socket = a.socket /\ b.client
<1> DEFINE c == At("schedule", when, a)
           t == IF ~ShouldConnect(c) THEN None
                ELSE IF c.deadline = 0 THEN Period ELSE Least(c.deadline, Period)
           b == [c EXCEPT !.timer = t]
<1>1. Scheduled(a, when) = b
  BY DEF Scheduled
<1>2. /\ Loose(c) /\ c.persistent = a.persistent /\ c.client /\ c.socket = a.socket
      /\ ShouldConnect(c) \/ c.late
  BY AtLoose
<1> HIDE DEF c
<1>3. /\ ShouldConnect(c) => t \in 0 .. Period /\ (c.deadline > 0 => t <= c.deadline)
      /\ ~ShouldConnect(c) => t = None /\ ~(c.deadline > 0)
  <2>1. c.deadline \in 0 .. Most(Window, Grace)
    BY <1>2 DEF Loose
  <2> QED
    BY <2>1, Times DEF ShouldConnect
<1>4. b \in Agent
  <2>1. t \in Int \cup {None}
    BY <1>3
  <2> QED
    BY <1>2, <2>1, Fields DEF Loose
<1>5. /\ b.persistent = c.persistent /\ b.active = c.active /\ b.deadline = c.deadline
      /\ b.client = c.client /\ b.socket = c.socket /\ b.registered = c.registered
      /\ b.session = c.session /\ b.timer = t /\ b.retry = c.retry /\ b.waiting = c.waiting
      /\ b.late = c.late
  BY <1>2 DEF Loose, Agent
<1>6. ShouldConnect(c) => t # None
  BY <1>3, Times
<1>7. ShouldConnect(b) <=> ShouldConnect(c)
  BY <1>5 DEF ShouldConnect
<1> HIDE DEF t, b
<1>8. Sound(b)
  BY <1>2, <1>3, <1>5, <1>6, <1>7 DEF Sound, Loose
<1>9. Fits(b, p)
  BY <1>2, <1>3, <1>4, <1>5, <1>8 DEF Fits, Loose
<1> QED
  BY <1>1, <1>2, <1>5, <1>9

LEMMA FitsLoose ==
    ASSUME NEW a, NEW p, Fits(a, p)
    PROVE  Loose(a)
  BY DEF Fits, Loose, Sound

LEMMA ModeLoose ==
    ASSUME NEW a, Loose(a), NEW keep \in BOOLEAN
    PROVE  LET m == ChangedMode(a, keep)
           IN  /\ Loose(m) /\ m.persistent = keep
               /\ m.client = a.client /\ m.socket = a.socket
<1>1. CASE a.persistent = keep
  BY <1>1 DEF ChangedMode
<1>2. CASE a.persistent # keep
  <2> DEFINE m1 == [a EXCEPT !.persistent = keep]
             m == [m1 EXCEPT !.deadline = 0]
  <2>1. m1 \in Agent
    BY Fields DEF Loose
  <2>2. m = ChangedMode(a, keep)
    BY <1>2 DEF ChangedMode
  <2>3. /\ m.persistent = keep /\ m.active = a.active /\ m.deadline = 0
        /\ m.client = a.client /\ m.socket = a.socket /\ m.registered = a.registered
        /\ m.session = a.session /\ m.timer = a.timer /\ m.retry = a.retry
        /\ m.waiting = a.waiting /\ m.late = a.late
    BY DEF Loose, Agent
  <2> HIDE DEF m1
  <2>4. m \in Agent
    <3>1. \A n \in Int : [m1 EXCEPT !.deadline = n] \in Agent
      BY <2>1, Fields
    <3> QED
      BY <3>1
  <2> HIDE DEF m
  <2>5. Loose(m)
    BY <2>3, <2>4, Times DEF Loose
  <2> QED
    BY <2>2, <2>3, <2>5
<1> QED
  BY <1>1, <1>2

NewClient(m) == [m EXCEPT !.client = TRUE, !.waiting = FALSE]

LEMMA ClientLoose ==
    ASSUME NEW m, Loose(m), ~m.client, NEW n, n = [m EXCEPT !.client = TRUE]
    PROVE  LET c == [n EXCEPT !.waiting = FALSE]
           IN  /\ c \in Agent
               /\ c.persistent = m.persistent /\ c.active = m.active
               /\ c.deadline = m.deadline /\ c.client = TRUE /\ c.socket = None
               /\ c.registered = m.registered /\ c.session = None /\ c.timer = m.timer
               /\ c.retry = FALSE /\ c.waiting = FALSE /\ c.late = m.late
  <1>1. n \in Agent
    BY Fields DEF Loose
  <1>2. /\ n.persistent = m.persistent /\ n.active = m.active
        /\ n.deadline = m.deadline /\ n.client = TRUE /\ n.socket = m.socket
        /\ n.registered = m.registered /\ n.session = m.session /\ n.timer = m.timer
        /\ n.retry = m.retry /\ n.late = m.late
    BY DEF Loose, Agent
  <1>3. m.socket = None /\ m.retry = FALSE /\ m.session = None
    BY DEF Loose, Agent
  <1>4. [n EXCEPT !.waiting = FALSE] \in Agent
    BY <1>1, Fields
  <1> QED
    BY <1>1, <1>2, <1>3, <1>4 DEF Agent

\* A client is made, and connected unless the deadline passes at this moment.
LEMMA ConnectingLoose ==
    ASSUME NEW m, Loose(m), ~m.client, NEW p, Usable(p), ShouldConnect(m), NEW k \in Sockets,
           NEW when
    PROVE  LET c == Connected(NewClient(m), p, k, when)
           IN  /\ Loose(c) /\ c.client /\ c.socket \in {None, k}
               /\ ShouldConnect(c) \/ c.late
               /\ c.persistent = m.persistent
<1> DEFINE n == NewClient(m)
           b == At("connect", when, n)
<1>1. /\ n \in Agent
      /\ n.persistent = m.persistent /\ n.active = m.active /\ n.deadline = m.deadline
      /\ n.client = TRUE /\ n.socket = None /\ n.registered = m.registered
      /\ n.session = None /\ n.timer = m.timer /\ n.retry = FALSE /\ n.waiting = FALSE
  BY ClientLoose DEF NewClient
<1>2. ShouldConnect(n)
  BY <1>1 DEF ShouldConnect
<1> HIDE DEF n
<1>3. b \in Agent /\ b.late \in BOOLEAN
  <2> DEFINE d == [n EXCEPT !.deadline = 0]
             e == [d EXCEPT !.late = TRUE]
  <2>1. d \in Agent
    BY <1>1, Fields
  <2>2. b \in {n, e}
    BY DEF At
  <2> HIDE DEF b, d
  <2>3. e \in Agent
    BY <2>1, Fields
  <2> HIDE DEF e
  <2>4. b \in Agent
    BY <1>1, <2>2, <2>3
  <2> QED
    BY <2>4 DEF Agent
<1>4. /\ b.persistent = n.persistent /\ b.active = n.active
      /\ b.client = n.client /\ b.socket = n.socket /\ b.registered = n.registered
      /\ b.session = n.session /\ b.timer = n.timer /\ b.retry = n.retry
      /\ b.waiting = n.waiting
      /\ b.deadline \in {0, n.deadline}
      /\ ~b.late => b = n
      /\ b.late = TRUE \/ b = n
  BY <1>1 DEF At, Agent
<1>5. Connected(n, p, k, when) = IF ~ShouldConnect(b) THEN b
                                 ELSE [b EXCEPT !.socket = k, !.registered = FALSE]
  BY <1>1, <1>4 DEF Connected, Allowed, Usable
<1> HIDE DEF b
<1>6. m.session = None /\ m.registered = FALSE /\ m.active = FALSE
  BY DEF Loose, Agent
<1>7. k # None
  BY AgentAssumption
<1>8. CASE ~ShouldConnect(b)
  <2>1. b.late = TRUE
    BY <1>2, <1>4, <1>8
  <2>2. Loose(b)
    BY <1>1, <1>3, <1>4, <1>6, <2>1, Times DEF Loose
  <2> QED
    BY <1>1, <1>4, <1>5, <1>8, <2>1, <2>2 DEF n
<1>9. CASE ShouldConnect(b)
  <2> DEFINE n3 == [b EXCEPT !.socket = k]
             c == [n3 EXCEPT !.registered = FALSE]
  <2>1. n3 \in Agent
    BY <1>3, Fields
  <2>2. /\ c.persistent = b.persistent /\ c.active = b.active /\ c.deadline = b.deadline
        /\ c.client = b.client /\ c.socket = k /\ c.registered = FALSE
        /\ c.session = b.session /\ c.timer = b.timer /\ c.retry = b.retry
        /\ c.waiting = b.waiting /\ c.late = b.late
    BY <1>3 DEF Agent
  <2>3. Connected(n, p, k, when) = c
    BY <1>5, <1>9
  <2> HIDE DEF n3
  <2>4. c \in Agent
    BY <2>1, Fields
  <2> HIDE DEF c
  <2>5. Loose(c)
    BY <1>1, <1>4, <1>6, <1>7, <2>2, <2>4, Times DEF Loose
  <2>6. ShouldConnect(c)
    BY <1>9, <2>2 DEF ShouldConnect
  <2> QED
    BY <1>1, <1>4, <2>2, <2>3, <2>5, <2>6 DEF n
<1> QED
  BY <1>8, <1>9

\* refresh leaves a manager that fits the preferences, on the socket it had or on k.
LEMMA RefreshedFits ==
    ASSUME NEW a, Loose(a), NEW p \in Prefs, NEW when, NEW k,
           \/ k \in Sockets
           \/ a.client
           \/ ~ShouldConnect(ChangedMode(a, p.keep))
    PROVE  Fits(Refreshed(a, p, k, when), p) /\ Keeps(a, Refreshed(a, p, k, when), k)
<1> DEFINE g == ChangedMode(a, p.keep)
           m == At("refresh", when, g)
<1>0. p.keep \in BOOLEAN
  BY DEF Prefs
<1>1. Loose(g) /\ g.persistent = p.keep /\ g.client = a.client /\ g.socket = a.socket
  BY <1>0, ModeLoose
<1> HIDE DEF g
<1>2. /\ Loose(m) /\ m.persistent = p.keep /\ m.client = a.client /\ m.socket = a.socket
      /\ ShouldConnect(m) => ShouldConnect(g)
  BY <1>1, AtLoose
<1> HIDE DEF m
<1>3. CASE ~Usable(p)
  <2> DEFINE b == Stopped(m)
  <2>1. Refreshed(a, p, k, when) = b
    BY <1>3 DEF Refreshed, m, g
  <2>2. Fits(b, p) /\ b.socket = None /\ ~b.client
    BY <1>0, <1>2, StoppedFits
  <2> HIDE DEF b
  <2> QED
    BY <2>1, <2>2 DEF Keeps
<1>4. CASE Usable(p) /\ ~ShouldConnect(m)
  <2> DEFINE b == Idle(m)
  <2>1. Refreshed(a, p, k, when) = b
    BY <1>4 DEF Refreshed, m, g
  <2>2. Fits(b, p) /\ b.socket = None /\ ~b.client
    BY <1>0, <1>2, StoppedFits
  <2> HIDE DEF b
  <2> QED
    BY <2>1, <2>2 DEF Keeps
<1>5. CASE Usable(p) /\ ShouldConnect(m) /\ m.client
  <2>1. Refreshed(a, p, k, when) = Scheduled(m, when)
    BY <1>5 DEF Refreshed, m, g
  <2> QED
    BY <1>2, <1>5, <2>1, ScheduledFits DEF Keeps
<1>6. CASE Usable(p) /\ ShouldConnect(m) /\ ~m.client
  <2> DEFINE c == Connected(NewClient(m), p, k, when)
  <2>1. Refreshed(a, p, k, when) = Scheduled(c, when)
    BY <1>6 DEF Refreshed, m, g, NewClient
  <2>2. /\ Loose(c) /\ c.client /\ c.socket \in {None, k}
        /\ ShouldConnect(c) \/ c.late
        /\ c.persistent = m.persistent
    <3>1. k \in Sockets
      BY <1>2, <1>6 DEF g
    <3> QED
      BY <1>2, <1>6, <3>1, ConnectingLoose
  <2>3. a.socket = None
    BY <1>2, <1>6 DEF Loose
  <2> HIDE DEF c
  <2> QED
    BY <1>2, <1>6, <2>1, <2>2, <2>3, ScheduledFits DEF Keeps
<1> QED
  BY <1>3, <1>4, <1>5, <1>6

LEMMA ControlledFits ==
    ASSUME NEW a, Loose(a), NEW p \in Prefs, NEW k \in Sockets, NEW when
    PROVE  /\ Fits(Controlled(a, p, k, when), p)
           /\ Keeps(a, Controlled(a, p, k, when), k)
<1>1. CASE Usable(p)
  <2>1. Controlled(a, p, k, when) = Refreshed(a, p, k, when)
    BY <1>1 DEF Controlled
  <2> QED
    BY <2>1, RefreshedFits
<1>2. CASE ~Usable(p)
  <2> DEFINE b == Stopped(a)
  <2>1. Controlled(a, p, k, when) = b
    BY <1>2 DEF Controlled
  <2>2. a.persistent \in BOOLEAN
    BY DEF Loose, Agent
  <2>3. Fits(b, p) /\ b.socket = None /\ ~b.client
    BY <2>2, StoppedFits
  <2> HIDE DEF b
  <2> QED
    BY <2>1, <2>3 DEF Keeps
<1> QED
  BY <1>1, <1>2

\* A window is opened where there is none.
LEMMA WindowLoose ==
    ASSUME NEW a, Loose(a), ~ShouldConnect(a), NEW rest \in 0 .. Window
    PROVE  LET b == [a EXCEPT !.deadline = rest]
           IN  Loose(b) /\ b.socket = a.socket /\ b.client = a.client
<1> DEFINE b == [a EXCEPT !.deadline = rest]
<1>1. b \in Agent
  BY Fields DEF Loose
<1>2. /\ b.persistent = a.persistent /\ b.active = a.active /\ b.deadline = rest
      /\ b.client = a.client /\ b.socket = a.socket /\ b.registered = a.registered
      /\ b.session = a.session /\ b.timer = a.timer /\ b.retry = a.retry
      /\ b.waiting = a.waiting /\ b.late = a.late
  BY DEF Loose, Agent
<1>3. rest \in 0 .. Most(Window, Grace)
  BY AgentAssumption DEF Most
<1> HIDE DEF b
<1>4. Loose(b)
  BY <1>1, <1>2, <1>3 DEF Loose, ShouldConnect
<1> QED
  BY <1>2, <1>4 DEF b

LEMMA WokenFits ==
    ASSUME NEW p \in Prefs, NEW a, Fits(a, p), NEW rest \in 0 .. Window, NEW k \in Sockets,
           NEW when
    PROVE  Fits(Woken(a, p, rest, k, when), p) /\ Keeps(a, Woken(a, p, rest, k, when), k)
<1>1. CASE OpensWindow(a, p, rest)
  <2> DEFINE b == [a EXCEPT !.deadline = rest]
  <2>1. Loose(b) /\ b.socket = a.socket /\ b.client = a.client
    BY <1>1, FitsLoose, WindowLoose DEF OpensWindow
  <2>2. Woken(a, p, rest, k, when) = Refreshed(b, p, k, when)
    BY <1>1 DEF Woken
  <2> HIDE DEF b
  <2>3. Fits(Refreshed(b, p, k, when), p) /\ Keeps(b, Refreshed(b, p, k, when), k)
    BY <2>1, RefreshedFits
  <2> QED
    BY <2>1, <2>2, <2>3 DEF Keeps
<1>2. CASE ~OpensWindow(a, p, rest)
  BY <1>2 DEF Woken, Keeps
<1> QED
  BY <1>1, <1>2

-------------------------------------------------------------------------------
(* Events of the socket in use *)

LEMMA StartedFits ==
    ASSUME NEW a, NEW p, Fits(a, p), a.registered, NEW s \in Sessions
    PROVE  LET b == SessionStarted(a, s)
           IN  Fits(b, p) /\ b.socket = a.socket /\ b.client /\ a.client
<1> DEFINE n1 == [a EXCEPT !.active = TRUE]
           n2 == [n1 EXCEPT !.deadline = 0]
           n3 == [n2 EXCEPT !.session = s]
           c == [n3 EXCEPT !.waiting = FALSE]
<1>1. n1 \in Agent
  BY Fields DEF Fits
<1>2. SessionStarted(a, s) = Scheduled(c, "never")
  BY DEF SessionStarted
<1>3. /\ c.persistent = a.persistent /\ c.active = TRUE /\ c.deadline = 0
      /\ c.client = a.client /\ c.socket = a.socket /\ c.registered = a.registered
      /\ c.session = s /\ c.timer = a.timer /\ c.retry = a.retry /\ c.waiting = FALSE
      /\ c.late = a.late
  BY DEF Fits, Agent
<1> HIDE DEF n1
<1>4. n2 \in Agent
  BY <1>1, Fields
<1> HIDE DEF n2
<1>5. n3 \in Agent
  BY <1>4, Fields
<1> HIDE DEF n3
<1>6. c \in Agent
  BY <1>5, Fields
<1> HIDE DEF c
<1>7. s # None
  BY AgentAssumption
<1>8. a.client
  BY DEF Fits, Sound
<1>9. Loose(c)
  BY <1>3, <1>6, <1>7, Times DEF Loose, Fits, Sound
<1>10. ShouldConnect(c) /\ c.client /\ Usable(p) /\ c.persistent = p.keep
  BY <1>3, <1>8 DEF ShouldConnect, Fits
<1> QED
  BY <1>2, <1>3, <1>8, <1>9, <1>10, ScheduledFits

\* What endRemoteSession leaves, whatever became of the socket.
LEMMA EndedSession ==
    ASSUME NEW a \in Agent, a.session # None,
           a.deadline \in 0 .. Most(Window, Grace), a.timer \in 0 .. Period \cup {None}
    PROVE  \E c \in Agent :
             /\ SessionEnded(a) = Scheduled(c, "never") /\ ShouldConnect(c)
             /\ c.session = None /\ c.active = FALSE
             /\ c.deadline = IF a.persistent THEN 0 ELSE Grace
             /\ c.persistent = a.persistent /\ c.client = a.client /\ c.socket = a.socket
             /\ c.registered = a.registered /\ c.retry = a.retry
             /\ c.waiting = a.waiting /\ c.timer = a.timer /\ c.late = a.late
<1> DEFINE g == IF a.persistent THEN 0 ELSE Grace
           n1 == [a EXCEPT !.session = None]
           n2 == [n1 EXCEPT !.active = FALSE]
           c == [n2 EXCEPT !.deadline = g]
<1>1. n1 \in Agent
  BY Fields
<1>2. SessionEnded(a) = Scheduled(c, "never")
  BY DEF SessionEnded
<1>3. /\ c.session = None /\ c.active = FALSE /\ c.deadline = g
      /\ c.persistent = a.persistent /\ c.client = a.client /\ c.socket = a.socket
      /\ c.registered = a.registered /\ c.retry = a.retry
      /\ c.waiting = a.waiting /\ c.timer = a.timer /\ c.late = a.late
  BY DEF Agent
<1>4. g \in Int /\ (~a.persistent => g > 0)
  BY AgentAssumption
<1> HIDE DEF n1
<1>5. n2 \in Agent
  BY <1>1, Fields
<1> HIDE DEF n2
<1>6. c \in Agent
  BY <1>4, <1>5, Fields
<1>7. ShouldConnect(c)
  BY <1>3, <1>4 DEF ShouldConnect
<1> HIDE DEF c
<1> QED
  BY <1>2, <1>3, <1>6, <1>7

LEMMA EndedFits ==
    ASSUME NEW a, NEW p, Fits(a, p), a.session # None
    PROVE  LET b == SessionEnded(a)
           IN  Fits(b, p) /\ b.socket = a.socket /\ b.client /\ a.client
<1>1. PICK c \in Agent :
         /\ SessionEnded(a) = Scheduled(c, "never") /\ ShouldConnect(c)
         /\ c.session = None /\ c.active = FALSE
         /\ c.deadline = IF a.persistent THEN 0 ELSE Grace
         /\ c.persistent = a.persistent /\ c.client = a.client /\ c.socket = a.socket
         /\ c.registered = a.registered /\ c.retry = a.retry
         /\ c.waiting = a.waiting /\ c.timer = a.timer /\ c.late = a.late
  BY EndedSession DEF Fits
<1>2. a.client
  BY DEF Fits, Sound
<1>3. Loose(c)
  BY <1>1, Times DEF Loose, Fits, Sound
<1>4. c.client /\ Usable(p) /\ c.persistent = p.keep
  BY <1>1, <1>2 DEF Fits
<1> QED
  BY <1>1, <1>2, <1>3, <1>4, ScheduledFits

\* A client that lost its socket retries while it may, or stops.
LEMMA LostFits ==
    ASSUME NEW p \in Prefs, NEW a, Fits(a, p), a.client, NEW when
    PROVE  Fits(Lost(a, p, when), p) /\ Lost(a, p, when).socket = None
<1> DEFINE n1 == [a EXCEPT !.socket = None]
           c == [n1 EXCEPT !.registered = FALSE]
           b == SessionEnded(c)
<1>1. n1 \in Agent
  BY Fields DEF Fits
<1>2. /\ c.persistent = a.persistent /\ c.active = a.active /\ c.deadline = a.deadline
      /\ c.client = a.client /\ c.socket = None /\ c.registered = FALSE
      /\ c.session = a.session /\ c.timer = a.timer /\ c.waiting = a.waiting
  BY DEF Fits, Agent
<1> HIDE DEF n1
<1>3. c \in Agent
  BY <1>1, Fields
<1>4. Lost(a, p, when) = IF Allowed(b, p)
                   THEN Scheduled([b EXCEPT !.retry = TRUE, !.waiting = FALSE], when)
                   ELSE Refreshed(b, p, None, when)
  BY DEF Lost, n1
<1> HIDE DEF c
<1>5. Usable(p) /\ a.persistent = p.keep
  BY DEF Fits
<1>6. /\ b \in Agent /\ b.session = None /\ b.active = FALSE /\ b.socket = None
      /\ b.registered = FALSE /\ b.client = TRUE /\ b.persistent = a.persistent
      /\ b.deadline \in 0 .. Most(Window, Grace) /\ b.timer \in 0 .. Period \cup {None}
      /\ b.persistent => b.deadline = 0
  <2>1. CASE c.session = None
    <3>1. b = c
      BY <2>1 DEF SessionEnded
    <3>2. a.active = FALSE
      BY <1>2, <2>1 DEF Fits, Agent, Sound
    <3>3. a.client = TRUE
      BY DEF Fits, Agent
    <3> QED
      BY <1>2, <1>3, <2>1, <3>1, <3>2, <3>3 DEF Fits, Sound
  <2>2. CASE c.session # None
    <3>1. PICK d \in Agent :
             /\ b = Scheduled(d, "never") /\ ShouldConnect(d)
             /\ d.session = None /\ d.active = FALSE
             /\ d.deadline = IF c.persistent THEN 0 ELSE Grace
             /\ d.persistent = c.persistent /\ d.client = c.client /\ d.socket = c.socket
             /\ d.registered = c.registered /\ d.retry = c.retry
             /\ d.waiting = c.waiting /\ d.timer = c.timer /\ d.late = c.late
      BY <1>2, <1>3, <2>2, EndedSession DEF Fits
    <3> DEFINE t == IF d.deadline = 0 THEN Period ELSE Least(d.deadline, Period)
               e == [d EXCEPT !.timer = t]
    <3>2. b = e
      BY <3>1 DEF Scheduled, At
    <3>3. d.deadline \in 0 .. Most(Window, Grace) /\ t \in 0 .. Period
      <4>1. d.deadline \in 0 .. Most(Window, Grace)
        BY <3>1, Times
      <4> QED
        BY <4>1, Times
    <3>4. e \in Agent
      BY <3>3, Fields
    <3>5. /\ e.session = d.session /\ e.active = d.active /\ e.socket = d.socket
          /\ e.registered = d.registered /\ e.client = d.client
          /\ e.persistent = d.persistent /\ e.deadline = d.deadline /\ e.timer = t
      BY DEF Agent
    <3>6. a.client = TRUE
      BY DEF Fits, Agent
    <3> HIDE DEF t, e, b
    <3> QED
      BY <1>2, <3>1, <3>2, <3>3, <3>4, <3>5, <3>6
  <2> QED
    BY <2>1, <2>2
<1> HIDE DEF b
<1>7. CASE Allowed(b, p)
  <2> DEFINE m1 == [b EXCEPT !.retry = TRUE]
             m == [m1 EXCEPT !.waiting = FALSE]
  <2>1. Lost(a, p, when) = Scheduled(m, when)
    BY <1>4, <1>7
  <2>2. m1 \in Agent
    BY <1>6, Fields
  <2>3. /\ m.persistent = b.persistent /\ m.active = b.active /\ m.deadline = b.deadline
        /\ m.client = b.client /\ m.socket = b.socket /\ m.registered = b.registered
        /\ m.session = b.session /\ m.timer = b.timer /\ m.retry = TRUE
        /\ m.waiting = FALSE /\ m.late = b.late
    BY <1>6 DEF Agent
  <2> HIDE DEF m1
  <2>4. m \in Agent
    BY <2>2, Fields
  <2> HIDE DEF m
  <2>5. Loose(m) /\ ShouldConnect(m)
    BY <1>6, <1>7, <2>3, <2>4 DEF Loose, Allowed, ShouldConnect
  <2> QED
    BY <1>5, <1>6, <2>1, <2>3, <2>5, ScheduledFits
<1>8. CASE ~Allowed(b, p)
  <2>1. ChangedMode(b, p.keep) = b /\ ~ShouldConnect(b)
    BY <1>5, <1>6, <1>8 DEF ChangedMode, Allowed, Usable
  <2>2. At("refresh", when, b) = b
    BY <2>1 DEF At, ShouldConnect
  <2>3. Lost(a, p, when) = Idle(b)
    BY <1>4, <1>5, <1>8, <2>1, <2>2 DEF Refreshed
  <2>4. b.persistent \in BOOLEAN
    BY <1>6 DEF Agent
  <2> QED
    BY <2>3, <2>4, StoppedFits
<1> QED
  BY <1>7, <1>8

-------------------------------------------------------------------------------
(* The parts of the invariant *)

Records ==
    /\ prefs \in Prefs
    /\ pairings \in 0 .. MaxPairings
    /\ issuedFor \in [Commands -> 0 .. MaxPairings]
    /\ left \in [Commands -> -1 .. Validity + 1]
    /\ jumps \in 0 .. MaxJumps
    /\ lapsed \in SUBSET Commands

Windows == opened \in SUBSET Commands /\ reopened \in SUBSET opened

Manager ==
    /\ service \in BOOLEAN
    /\ Fits(agent, prefs)
    /\ agent.client => service
    /\ ~service => agent = NewAgent(FALSE)

Network ==
    /\ phase \in [Sockets -> {"none", "up", "dying"}]
    /\ inbox \in Seq(Event)
    /\ OneSocket
    /\ LossesAreTold

Waits ==
    /\ pendingWake \in [command : Commands \cup {None}, left : 0 .. Window]
    /\ pendingWake # NoWake => ~service /\ Usable(prefs) /\ pendingWake.command # None

LEMMA Parts ==
    AgentInv <=> Records /\ Windows /\ Manager /\ Network /\ Waits
<1>1. AgentInv => Records /\ Windows /\ Network /\ Waits
  BY DEF AgentInv, TypeOK, Records, Windows, Network, Waits
<1>2. AgentInv => Manager
  BY DEF AgentInv, TypeOK, Manager, Fits
<1>3. ASSUME Records, Windows, Manager, Network, Waits
      PROVE  AgentInv
  <2>1. TypeOK
    BY <1>3 DEF TypeOK, Records, Windows, Manager, Network, Waits, Fits
  <2> QED
    BY <1>3, <2>1 DEF AgentInv, Manager, Network, Waits, Fits
<1> QED
  BY <1>1, <1>2, <1>3

\* A manager with nothing to do fits any preferences.
LEMMA QuietFits ==
    ASSUME NEW b \in Agent,
           b.active = FALSE /\ b.deadline = 0 /\ b.client = FALSE /\ b.socket = None,
           b.registered = FALSE /\ b.session = None /\ b.timer = None /\ b.retry = FALSE,
           NEW p
    PROVE  Fits(b, p)
<1>1. Sound(b)
  BY DEF Sound
<1> QED
  BY <1>1, Times DEF Fits

\* Preferences count by their mode and by what stops the agent.
LEMMA FitsSame ==
    ASSUME NEW a, NEW p, NEW q, Fits(a, p),
           \/ ~a.client
           \/ Usable(q) /\ q.keep = p.keep
    PROVE  Fits(a, q)
  BY DEF Fits

\* The sockets, when the manager becomes b
LEMMA BecomesSockets ==
    ASSUME Manager, Network,
           NEW b \in Agent, b.socket = None \/ b.socket = agent.socket \/ b.socket \in Free,
           b.socket # None => b.client,
           NEW closed \in Sockets \cup {None},
           agent.socket # None /\ b.socket # agent.socket =>
                closed = agent.socket \/ phase[agent.socket] # "up",
           closed # None => closed = agent.socket /\ b.socket # closed,
           NEW events \in Seq(Event),
           \A i \in DOMAIN inbox :
                Loss(i) /\ inbox[i].socket = agent.socket /\ b.socket = agent.socket =>
                    \E j \in DOMAIN events : events[j] = inbox[i],
           \A j \in DOMAIN events : \E i \in DOMAIN inbox : events[j] = inbox[i],
           Becomes(b, closed, events)
    PROVE  Network'
<1>1. agent' = b /\ agent \in Agent /\ Sound(agent)
  BY DEF Becomes, Manager, Fits
<1>2. phase' = [k \in Sockets |-> IF k = closed THEN "dying"
                                  ELSE IF k = b.socket /\ k # agent.socket THEN "up"
                                  ELSE phase[k]]
  BY DEF Becomes
<1>3. inbox' = events \/ inbox' = <<>>
  BY DEF Becomes
<1>4. inbox' = events => b.socket = agent.socket \/ inbox' = <<>>
  BY DEF Becomes
<1>5. b.socket = agent.socket /\ b.socket # None => inbox' = events
  <2>1. b.client \in BOOLEAN /\ agent.client \in BOOLEAN
    BY <1>1 DEF Agent
  <2> QED
    BY <1>1, <2>1 DEF Becomes, Sound
<1>6. phase \in [Sockets -> {"none", "up", "dying"}]
  BY DEF Network
<1>7. phase' \in [Sockets -> {"none", "up", "dying"}]
  BY <1>2, <1>6
<1>8. inbox' \in Seq(Event)
  <2>1. <<>> \in Seq(Event)
    OBVIOUS
  <2> QED
    BY <1>3, <2>1
<1>9. OneSocket'
  <2> SUFFICES ASSUME NEW k \in Sockets, phase'[k] = "up"
               PROVE  k = b.socket
    BY <1>1 DEF OneSocket
  <2>1. k # closed
    BY <1>2
  <2>2. CASE phase[k] = "up" /\ k # b.socket
    <3>1. k = agent.socket
      BY <2>2 DEF Network, OneSocket
    <3>2. k # None
      BY AgentAssumption
    <3> QED
      BY <2>1, <2>2, <3>1, <3>2
  <2> QED
    BY <1>2, <2>1, <2>2
<1>10. ASSUME b.socket # None, phase'[b.socket] # "up"
       PROVE  \E i \in DOMAIN inbox' : Loss(i)' /\ inbox'[i].socket = b.socket
  <2>1. b.socket \in Sockets
    BY <1>10 DEF Agent
  <2>2. b.socket # closed
    BY <1>10
  <2>3. b.socket = agent.socket /\ phase[b.socket] # "up"
    BY <1>2, <1>10, <2>1, <2>2
  <2>4. PICK i \in DOMAIN inbox : Loss(i) /\ inbox[i].socket = agent.socket
    BY <1>10, <2>3 DEF Network, LossesAreTold
  <2>5. PICK j \in DOMAIN events : events[j] = inbox[i]
    BY <2>3, <2>4
  <2>6. inbox' = events
    BY <1>5, <1>10, <2>3
  <2> QED
    BY <2>3, <2>4, <2>5, <2>6 DEF Loss
<1>11. ASSUME NEW i \in DOMAIN inbox', Loss(i)'
       PROVE  phase'[inbox'[i].socket] # "up"
  <2>1. inbox' # <<>>
    BY <1>11
  <2>2. inbox' = events /\ b.socket = agent.socket
    BY <1>3, <1>4, <2>1
  <2>3. PICK j \in DOMAIN inbox : events[i] = inbox[j]
    BY <2>2
  <2>4. Loss(j)
    BY <1>11, <2>2, <2>3 DEF Loss
  <2>5. phase[inbox[j].socket] # "up"
    BY <2>4 DEF Network, LossesAreTold
  <2>6. inbox[j] \in Event
    BY DEF Network
  <2>7. inbox[j].socket \in Sockets
    BY <2>6 DEF Event
  <2> QED
    BY <1>2, <2>2, <2>3, <2>5, <2>7
<1>12. LossesAreTold'
  BY <1>1, <1>10, <1>11 DEF LossesAreTold
<1> QED
  BY <1>7, <1>8, <1>9, <1>12 DEF Network

\* The same, of a step that closes the socket of a client it disconnects
LEMMA AgentBecomesNetwork ==
    ASSUME Manager, Network, NEW b, NEW p, Fits(b, p), NEW k \in Free \cup {None},
           Keeps(agent, b, k), AgentBecomes(b)
    PROVE  Network'
<1>1. agent \in Agent /\ b \in Agent /\ Sound(b)
  BY DEF Manager, Fits
<1>2. agent.socket \in Sockets \cup {None}
  BY <1>1 DEF Agent
<1>3. /\ b.socket = None \/ b.socket = agent.socket \/ b.socket \in Free
      /\ b.socket # None => b.client
      /\ ~b.client => b.socket = None
  BY <1>1 DEF Keeps, Sound
<1>4. inbox \in Seq(Event)
  BY DEF Network
<1> DEFINE c == ClosedBy(b)
<1>5. /\ c \in Sockets \cup {None}
      /\ agent.socket # None /\ b.socket # agent.socket =>
            c = agent.socket \/ phase[agent.socket] # "up"
      /\ c # None => c = agent.socket /\ b.socket # c
  BY <1>2, <1>3 DEF ClosedBy, Keeps
<1>6. Becomes(b, c, inbox)
  BY DEF AgentBecomes
<1> HIDE DEF c
<1> QED
  BY <1>1, <1>3, <1>4, <1>5, <1>6, BecomesSockets

\* A step of a running service, and of one that does not run
LEMMA AgentBecomesManager ==
    ASSUME Manager, NEW b, Fits(b, prefs'), AgentBecomes(b), UNCHANGED service,
           ~service => b = agent
    PROVE  Manager'
<1>1. agent' = b
  BY DEF AgentBecomes, Becomes
<1>2. ~service => ~b.client
  BY DEF Manager
<1>3. b.client \in BOOLEAN
  BY DEF Fits, Agent
<1> QED
  BY <1>1, <1>2, <1>3 DEF Manager

\* Controls leaves the manager alone while there is no service.
LEMMA ControlsFits ==
    ASSUME Manager, NEW p \in Prefs, NEW k \in Free, NEW when
    PROVE  LET b == Controls(p, k, when)
           IN  Fits(b, p) /\ Keeps(agent, b, k) /\ (~service => b = agent)
<1>1. CASE service
  <2>1. Loose(agent)
    BY FitsLoose DEF Manager
  <2>2. k \in Sockets
    BY DEF Free
  <2> QED
    BY <1>1, <2>1, <2>2, ControlledFits DEF Controls
<1>2. CASE ~service
  <2>1. Controls(p, k, when) = agent /\ ~agent.client
    BY <1>2 DEF Controls, Manager
  <2>2. Fits(agent, p)
    BY <2>1, FitsSame DEF Manager
  <2> QED
    BY <2>1, <2>2 DEF Keeps
<1> QED
  BY <1>1, <1>2

\* Refresh, SaveWakeKey, SetKeepConnected and Pause: what the controller refreshes
LEMMA ControlsStep ==
    ASSUME Manager, Network, prefs' \in Prefs, NEW k \in Free, NEW when,
           AgentBecomes(Controls(prefs', k, when)), UNCHANGED service
    PROVE  Manager' /\ Network'
<1> DEFINE b == Controls(prefs', k, when)
<1>1. Fits(b, prefs') /\ Keeps(agent, b, k) /\ (~service => b = agent)
  BY ControlsFits
<1>2. AgentBecomes(b)
  OBVIOUS
<1> HIDE DEF b
<1> QED
  BY <1>1, <1>2, AgentBecomesManager, AgentBecomesNetwork

LEMMA RefreshStep ==
    ASSUME AgentInv, NEW k \in Free, Refresh(k)
    PROVE  AgentInv'
<1>1. Records /\ Windows /\ Manager /\ Network /\ Waits
  BY Parts
<1>2. PICK when \in Passes(agent.deadline) : AgentBecomes(Controls(prefs', k, when))
  BY DEF Refresh, Controls
<1>3. Manager' /\ Network'
  BY <1>1, <1>2, ControlsStep DEF Refresh, Records
<1>4. Records' /\ Windows' /\ Waits'
  BY <1>1 DEF Refresh, Records, Windows, Waits, wakeVars, windowVars, Usable
<1> QED
  BY <1>3, <1>4, Parts, PTL

LEMMA SaveWakeKeyStep ==
    ASSUME AgentInv, NEW k \in Free, SaveWakeKey(k)
    PROVE  AgentInv'
<1>1. Records /\ Windows /\ Manager /\ Network /\ Waits
  BY Parts
<1>2. prefs' \in Prefs /\ Usable(prefs') = Usable(prefs)
  BY <1>1 DEF SaveWakeKey, Records, Prefs, Usable
<1>3. Manager' /\ Network'
  BY <1>1, <1>2, ControlsStep DEF SaveWakeKey
<1>4. Records' /\ Windows' /\ Waits'
  BY <1>1, <1>2 DEF SaveWakeKey, Records, Windows, Waits, wakeVars, windowVars
<1> QED
  BY <1>3, <1>4, Parts, PTL

LEMMA SetKeepConnectedStep ==
    ASSUME AgentInv, NEW k \in Free, SetKeepConnected(k)
    PROVE  AgentInv'
<1>1. Records /\ Windows /\ Manager /\ Network /\ Waits
  BY Parts
<1>2. prefs' \in Prefs /\ Usable(prefs') = Usable(prefs)
  BY <1>1 DEF SetKeepConnected, Records, Prefs, Usable
<1>3. Manager' /\ Network'
  BY <1>1, <1>2, ControlsStep DEF SetKeepConnected
<1>4. Records' /\ Windows' /\ Waits'
  BY <1>1, <1>2 DEF SetKeepConnected, Records, Windows, Waits, wakeVars, windowVars
<1> QED
  BY <1>3, <1>4, Parts, PTL

LEMMA NothingWaits ==
    ASSUME pendingWake' = NoWake
    PROVE  Waits'
  BY AgentAssumption DEF Waits, NoWake

LEMMA PauseStep ==
    ASSUME AgentInv, NEW k \in Free, Pause(k)
    PROVE  AgentInv'
<1>1. Records /\ Windows /\ Manager /\ Network /\ Waits
  BY Parts
<1>2. prefs' \in Prefs
  BY <1>1 DEF Pause, Records, Prefs
<1>3. Manager' /\ Network'
  BY <1>1, <1>2, ControlsStep DEF Pause
<1>4. Records' /\ Windows' /\ Waits'
  BY <1>1, <1>2, NothingWaits DEF Pause, Records, Windows, wakeVars, windowVars
<1> QED
  BY <1>3, <1>4, Parts, PTL

\* A stop closes the socket in use.
LEMMA StopStep ==
    ASSUME Manager, Network, AgentBecomes(Stopped(agent)), UNCHANGED service
    PROVE  Manager' /\ Network'
<1> DEFINE b == Stopped(agent)
<1>1. agent.persistent \in BOOLEAN
  BY DEF Manager, Fits, Agent
<1>2. \A p : Fits(b, p) /\ b.socket = None /\ ~b.client
  BY <1>1, StoppedFits
<1>3. ~service => b = agent
  BY DEF Manager, Stopped, NewAgent
<1>4. AgentBecomes(b)
  OBVIOUS
<1> HIDE DEF b
<1>5. Keeps(agent, b, None)
  BY <1>2 DEF Keeps
<1>6. Fits(b, prefs')
  BY <1>2
<1>7. Manager'
  BY <1>3, <1>4, <1>6, AgentBecomesManager
<1>8. Network'
  BY <1>4, <1>5, <1>6, AgentBecomesNetwork
<1> QED
  BY <1>7, <1>8

LEMMA InterruptStep ==
    ASSUME AgentInv, Interrupt
    PROVE  AgentInv'
<1>1. Records /\ Windows /\ Manager /\ Network /\ Waits
  BY Parts
<1>2. Manager' /\ Network'
  BY <1>1, StopStep DEF Interrupt
<1>3. Records' /\ Windows' /\ Waits'
  BY <1>1 DEF Interrupt, Records, Windows, Waits, wakeVars, windowVars
<1> QED
  BY <1>2, <1>3, Parts, PTL

LEMMA ClearStep ==
    ASSUME AgentInv, Clear
    PROVE  AgentInv'
<1>1. Records /\ Windows /\ Manager /\ Network /\ Waits
  BY Parts
<1>2. Manager' /\ Network'
  BY <1>1, StopStep DEF Clear
<1>3. Records' /\ Windows' /\ Waits'
  BY <1>1, NothingWaits, AgentAssumption
     DEF Clear, Records, Windows, Prefs, NoPrefs, wakeVars, windowVars
<1> QED
  BY <1>2, <1>3, Parts, PTL

\* A new manager, of a service that starts or of none
LEMMA NewFits ==
    ASSUME NEW v \in BOOLEAN, NEW p
    PROVE  /\ Fits(NewAgent(v), p) /\ NewAgent(v).socket = None /\ ~NewAgent(v).client
           /\ Loose(NewAgent(v))
<1> DEFINE b == NewAgent(v)
<1>1. b \in Agent
  BY DEF Agent, NewAgent
<1>2. /\ b.active = FALSE /\ b.deadline = 0 /\ b.client = FALSE /\ b.socket = None
      /\ b.registered = FALSE /\ b.session = None /\ b.timer = None /\ b.retry = FALSE
  BY DEF NewAgent
<1> HIDE DEF b
<1>3. Fits(b, p)
  BY <1>1, <1>2, QuietFits
<1>4. Loose(b)
  BY <1>3, FitsLoose
<1> QED
  BY <1>2, <1>3, <1>4 DEF b

LEMMA DetachStep ==
    ASSUME AgentInv, Detach
    PROVE  AgentInv'
<1>1. Records /\ Windows /\ Manager /\ Network /\ Waits
  BY Parts
<1>2. PICK v \in BOOLEAN : v = FALSE
  OBVIOUS
<1> DEFINE b == NewAgent(v)
<1>3. AgentBecomes(b) /\ agent' = b /\ service' = FALSE
  BY <1>2 DEF Detach, AgentBecomes, Becomes
<1>4. \A p : Fits(b, p) /\ b.socket = None /\ ~b.client
  BY NewFits
<1>5. agent' = NewAgent(FALSE)
  BY <1>2, <1>3
<1> HIDE DEF b
<1>6. Keeps(agent, b, None)
  BY <1>4 DEF Keeps
<1>7. Network'
  BY <1>1, <1>3, <1>4, <1>6, AgentBecomesNetwork
<1>8. Manager'
  BY <1>3, <1>4, <1>5 DEF Manager
<1>9. Records' /\ Windows' /\ Waits'
  BY <1>1 DEF Detach, Records, Windows, Waits, wakeVars, windowVars
<1> QED
  BY <1>7, <1>8, <1>9, Parts, PTL

\* The process dies.
LEMMA DiesStep ==
    ASSUME Manager, Network, Dies
    PROVE  Manager' /\ Network' /\ Waits'
<1>1. PICK v \in BOOLEAN : v = FALSE
  OBVIOUS
<1> DEFINE b == NewAgent(v)
<1>2. agent' = b /\ agent' = NewAgent(FALSE) /\ service' = FALSE /\ inbox' = <<>>
  BY <1>1 DEF Dies
<1>3. \A p : Fits(b, p) /\ b.socket = None /\ ~b.client
  BY NewFits
<1>4. phase' = [k \in Sockets |-> "none"] /\ Waits'
  BY NothingWaits DEF Dies
<1> HIDE DEF b
<1>5. Manager'
  BY <1>2, <1>3 DEF Manager
<1>6. <<>> \in Seq(Event) /\ DOMAIN <<>> = {}
  OBVIOUS
<1>7. Network'
  BY <1>2, <1>3, <1>4, <1>6 DEF Network, OneSocket, LossesAreTold
<1> QED
  BY <1>4, <1>5, <1>7

LEMMA ProcessDiesStep ==
    ASSUME AgentInv, ProcessDies
    PROVE  AgentInv'
<1>1. Records /\ Windows /\ Manager /\ Network
  BY Parts
<1>2. Manager' /\ Network' /\ Waits'
  BY <1>1, DiesStep DEF ProcessDies
<1>3. Records' /\ Windows'
  BY <1>1 DEF ProcessDies, Records, Windows, wakeVars, windowVars
<1> QED
  BY <1>2, <1>3, Parts, PTL

\* A consumed nonce changes no other preference.
LEMMA ConsumedPrefs ==
    ASSUME prefs \in Prefs, NEW c \in Commands, Consumes(c)
    PROVE  /\ prefs' \in Prefs /\ prefs'.keep = prefs.keep /\ Usable(prefs)
           /\ Usable(prefs')
  BY DEF Consumes, Verified, LiveNonces, Prefs, Usable

LEMMA DiesWakingStep ==
    ASSUME AgentInv, NEW c \in Commands, DiesWaking(c)
    PROVE  AgentInv'
<1>1. Records /\ Windows /\ Manager /\ Network
  BY Parts
<1>2. Manager' /\ Network' /\ Waits'
  BY <1>1, DiesStep DEF DiesWaking
<1>3. prefs' \in Prefs
  BY <1>1, ConsumedPrefs DEF DiesWaking, Records
<1>4. Records' /\ Windows'
  BY <1>1, <1>3 DEF DiesWaking, Records, Windows, wakeVars, windowVars
<1> QED
  BY <1>2, <1>4, Parts, PTL

LEMMA OpensTypes ==
    ASSUME Windows, NEW c \in Commands, Opens(c) \/ UNCHANGED windowVars
    PROVE  Windows'
  BY DEF Windows, Opens, windowVars

LEMMA ReceiveWakeStep ==
    ASSUME AgentInv, NEW c \in Commands, NEW k \in Free, ReceiveWake(c, k)
    PROVE  AgentInv'
<1>1. Records /\ Windows /\ Manager /\ Network /\ Waits
  BY Parts
<1>2. Consumes(c)
  BY DEF ReceiveWake
<1>3. prefs' \in Prefs /\ prefs'.keep = prefs.keep /\ Usable(prefs')
  BY <1>1, <1>2, ConsumedPrefs DEF Records
<1>4. Window \in 0 .. Window /\ k \in Sockets
  BY AgentAssumption DEF Free
<1> DEFINE b == Woken(agent, prefs, Window, k, "never")
<1>5. Fits(b, prefs) /\ Keeps(agent, b, k)
  BY <1>1, <1>4, WokenFits DEF Records, Manager
<1>6. AgentBecomes(b) /\ UNCHANGED service /\ service
  BY DEF ReceiveWake
<1> HIDE DEF b
<1>7. Fits(b, prefs')
  BY <1>3, <1>5, FitsSame
<1>8. Manager'
  BY <1>1, <1>6, <1>7, AgentBecomesManager
<1>9. Network'
  BY <1>1, <1>5, <1>6, AgentBecomesNetwork
<1>10. Windows'
  BY <1>1, OpensTypes DEF ReceiveWake
<1>11. Records' /\ Waits'
  BY <1>1, <1>3 DEF ReceiveWake, Records, Waits, wakeVars
<1> QED
  BY <1>8, <1>9, <1>10, <1>11, Parts, PTL

\* A manager that does not change fits the preferences while they stay usable.
LEMMA AgentStays ==
    ASSUME Manager, UNCHANGED <<service, agent>>,
           \/ ~agent.client
           \/ Usable(prefs') /\ prefs'.keep = prefs.keep
    PROVE  Manager'
  BY FitsSame DEF Manager

LEMMA NetworkStays ==
    ASSUME Network, UNCHANGED <<agent, phase, inbox>>
    PROVE  Network'
  BY DEF Network, OneSocket, LossesAreTold, Loss

LEMMA ReceiveWakeEarlyStep ==
    ASSUME AgentInv, NEW c \in Commands, ReceiveWakeEarly(c)
    PROVE  AgentInv'
<1>1. Records /\ Windows /\ Manager /\ Network /\ Waits
  BY Parts
<1>2. prefs' \in Prefs /\ prefs'.keep = prefs.keep /\ Usable(prefs')
  BY <1>1, ConsumedPrefs DEF Records, ReceiveWakeEarly
<1>3. Manager' /\ Network'
  BY <1>1, <1>2, AgentStays, NetworkStays DEF ReceiveWakeEarly
<1>4. c # None /\ Window \in 0 .. Window
  BY AgentAssumption
<1>5. Waits'
  BY <1>1, <1>2, <1>4 DEF ReceiveWakeEarly, Waits
<1>6. Records' /\ Windows'
  BY <1>1, <1>2 DEF ReceiveWakeEarly, Records, Windows, wakeVars, windowVars
<1> QED
  BY <1>3, <1>5, <1>6, Parts, PTL

LEMMA PendingExpiresStep ==
    ASSUME AgentInv, PendingExpires
    PROVE  AgentInv'
<1>1. Records /\ Windows /\ Manager /\ Network
  BY Parts
<1>2. Manager' /\ Network'
  BY <1>1, AgentStays, NetworkStays DEF PendingExpires, Manager, Fits
<1>3. Records' /\ Windows' /\ Waits'
  BY <1>1, NothingWaits DEF PendingExpires, Records, Windows, wakeVars, windowVars
<1> QED
  BY <1>2, <1>3, Parts, PTL

LEMMA IssueStep ==
    ASSUME AgentInv, NEW c \in Commands, NEW d \in 1 .. MaxPairings, Issue(c, d)
    PROVE  AgentInv'
<1>1. Records /\ Windows /\ Manager /\ Network /\ Waits
  BY Parts
<1>2. Manager' /\ Network'
  BY <1>1, AgentStays, NetworkStays DEF Issue, memoryVars, Manager, Fits
<1>3. d \in 0 .. MaxPairings /\ Validity \in -1 .. Validity + 1
  BY AgentAssumption
<1>4. Records'
  BY <1>1, <1>3 DEF Issue, Records
<1>5. Windows' /\ Waits'
  BY <1>1 DEF Issue, Windows, Waits, memoryVars, windowVars
<1> QED
  BY <1>2, <1>4, <1>5, Parts, PTL

LEMMA AttachStep ==
    ASSUME AgentInv, NEW k \in Free, Attach(k)
    PROVE  AgentInv'
<1>1. Records /\ Windows /\ Manager /\ Network /\ Waits
  BY Parts
<1>2. k \in Sockets /\ prefs \in Prefs /\ prefs.keep \in BOOLEAN
  BY <1>1 DEF Free, Records, Prefs
<1> DEFINE n == NewAgent(prefs.keep)
           a == Controlled(n, prefs, k, "never")
           B(when) == Woken(a, prefs, pendingWake.left, k, when)
<1>0. PICK when \in Passes(pendingWake.left) : AgentBecomes(B(when))
  BY DEF Attach
<1> DEFINE b == B(when)
<1>3. Loose(n) /\ n.socket = None
  BY <1>2, NewFits
<1>4. AgentBecomes(b) /\ service' = TRUE
  BY <1>0 DEF Attach
<1>5. pendingWake.left \in 0 .. Window
  BY <1>1 DEF Waits
<1> HIDE DEF n
<1>6. Fits(a, prefs) /\ Keeps(n, a, k)
  BY <1>2, <1>3, ControlledFits
<1>7. OpensWindow(a, prefs, pendingWake.left) => pendingWake.command \in Commands
  <2>1. pendingWake.left > 0 => pendingWake # NoWake
    BY DEF NoWake
  <2> QED
    BY <1>1, <2>1 DEF OpensWindow, Waits
<1>8. Windows'
  BY <1>1, <1>7, OpensTypes DEF Attach, n, Windows, windowVars
<1> HIDE DEF a
<1>9. Fits(b, prefs) /\ Keeps(a, b, k)
  BY <1>2, <1>5, <1>6, WokenFits
<1> HIDE DEF b
<1>10. agent.socket = None
  BY <1>1 DEF Attach, Manager, NewAgent
<1>11. Keeps(agent, b, k)
  BY <1>3, <1>6, <1>9, <1>10 DEF Keeps
<1>12. Network'
  BY <1>1, <1>4, <1>9, <1>11, AgentBecomesNetwork
<1>13. Manager'
  BY <1>4, <1>9 DEF Manager, AgentBecomes, Becomes, Attach
<1>14. Records' /\ Waits'
  BY <1>1, NothingWaits DEF Attach, Records, wakeVars
<1> QED
  BY <1>8, <1>12, <1>13, <1>14, Parts, PTL

LEMMA ConnectManuallyStep ==
    ASSUME AgentInv, NEW k \in Free, ConnectManually(k)
    PROVE  AgentInv'
<1>1. Records /\ Windows /\ Manager /\ Network /\ Waits
  BY Parts
<1>2. k \in Sockets /\ Window \in 0 .. Window /\ prefs \in Prefs
  BY <1>1, AgentAssumption DEF Free, Records
<1> DEFINE n == [agent EXCEPT !.deadline = Window]
           b == Refreshed(n, prefs, k, "never")
<1>3. Loose(agent)
  BY <1>1, FitsLoose DEF Manager
<1>4. Loose(n) /\ n.socket = agent.socket /\ n.client = agent.client
  BY <1>2, <1>3, WindowLoose DEF ConnectManually
<1>5. AgentBecomes(b)
  BY DEF ConnectManually
<1> HIDE DEF n
<1>6. Fits(b, prefs) /\ Keeps(n, b, k)
  BY <1>2, <1>4, RefreshedFits
<1> HIDE DEF b
<1>7. Keeps(agent, b, k) /\ Fits(b, prefs')
  BY <1>4, <1>6 DEF Keeps, ConnectManually
<1>8. Manager' /\ Network'
  BY <1>1, <1>5, <1>7, AgentBecomesManager, AgentBecomesNetwork DEF ConnectManually
<1>9. Records' /\ Windows' /\ Waits'
  BY <1>1 DEF ConnectManually, Records, Windows, Waits, wakeVars, windowVars
<1> QED
  BY <1>8, <1>9, Parts, PTL

\* A socket that newWebSocket returns is not the one in use.
LEMMA FreeIsNew ==
    ASSUME Network, NEW k \in Free
    PROVE  agent.socket # k
<1> SUFFICES ASSUME agent.socket = k PROVE FALSE
  OBVIOUS
<1>1. k \in Sockets /\ k # None /\ phase[k] = "none"
  BY AgentAssumption DEF Free
<1>2. PICK i \in DOMAIN inbox : inbox[i].socket = k
  BY <1>1 DEF Network, LossesAreTold
<1> QED
  BY <1>2 DEF Free

LEMMA PairStep ==
    ASSUME AgentInv, NEW k \in Free, Pair(k)
    PROVE  AgentInv'
<1>1. Records /\ Windows /\ Manager /\ Network /\ Waits
  BY Parts
<1>2. pairings' \in 0 .. MaxPairings /\ pairings' = pairings + 1
  BY <1>1, AgentAssumption DEF Pair, Records
<1>3. prefs' \in Prefs
  BY <1>1, <1>2 DEF Pair, Prefs, Records
<1> DEFINE s == Stopped(agent)
           c == Controlled(s, prefs', k, "never")
           b == IF service THEN c ELSE agent
<1>4. k \in Sockets /\ agent.socket # k /\ k # None
  BY <1>1, FreeIsNew, AgentAssumption DEF Free
<1>5. agent.persistent \in BOOLEAN /\ agent.socket \in Sockets \cup {None}
  BY <1>1 DEF Manager, Fits, Agent
<1>6. Fits(s, prefs') /\ s.socket = None
  BY <1>5, StoppedFits
<1>7. Becomes(b, agent.socket, inbox) /\ UNCHANGED service
  BY DEF Pair
<1> HIDE DEF s
<1>8. Loose(s)
  BY <1>6, FitsLoose
<1>9. Fits(c, prefs') /\ Keeps(s, c, k)
  BY <1>3, <1>4, <1>8, ControlledFits
<1> HIDE DEF c
<1>10. Fits(b, prefs') /\ (b.socket = None \/ b.socket = k)
  <2>1. CASE service
    BY <1>6, <1>9, <2>1 DEF Keeps
  <2>2. CASE ~service
    <3>1. ~agent.client /\ agent.socket = None
      BY <1>1, <2>2 DEF Manager, Fits, Sound
    <3> QED
      BY <1>1, <2>2, <3>1, FitsSame DEF Manager
  <2> QED
    BY <2>1, <2>2
<1>11. ~service => b = agent /\ ~b.client
  BY <1>1 DEF Manager
<1> HIDE DEF b
<1>12. b \in Agent /\ (b.socket # None => b.client) /\ inbox \in Seq(Event)
  BY <1>1, <1>10 DEF Fits, Sound, Network
<1>13. Network'
  BY <1>1, <1>4, <1>5, <1>7, <1>10, <1>12, BecomesSockets
<1>14. agent' = b
  BY <1>7 DEF Becomes
<1>15. Manager'
  BY <1>1, <1>7, <1>10, <1>11, <1>12, <1>14 DEF Manager, Agent
<1>16. Records' /\ Windows' /\ Waits'
  BY <1>1, <1>2, <1>3, NothingWaits DEF Pair, Records, Windows, wakeVars, windowVars
<1> QED
  BY <1>13, <1>15, <1>16, Parts, PTL

LEMMA TimerFiresStep ==
    ASSUME AgentInv, TimerFires
    PROVE  AgentInv'
<1>1. Records /\ Windows /\ Manager /\ Network /\ Waits
  BY Parts
<1>2. agent.client /\ Loose(agent) /\ Usable(prefs) /\ agent.persistent = prefs.keep
  BY <1>1, AgentAssumption, FitsLoose DEF TimerFires, Manager, Fits, Sound
<1> DEFINE n == [agent EXCEPT !.timer = None]
           B(when) == IF ShouldConnect(agent) THEN Scheduled(agent, when)
                      ELSE Refreshed(n, prefs, None, "never")
<1>3. PICK when \in Passes(agent.deadline) : AgentBecomes(B(when))
  BY DEF TimerFires
<1> DEFINE b == B(when)
<1>4. Fits(b, prefs) /\ Keeps(agent, b, None)
  <2>1. CASE ShouldConnect(agent)
    BY <1>2, <2>1, ScheduledFits DEF Keeps
  <2>2. CASE ~ShouldConnect(agent)
    <3>1. n \in Agent
      BY <1>2, Fields DEF Loose
    <3>2. /\ n.persistent = agent.persistent /\ n.active = agent.active
          /\ n.deadline = agent.deadline /\ n.client = agent.client
          /\ n.socket = agent.socket /\ n.registered = agent.registered
          /\ n.session = agent.session /\ n.timer = None /\ n.retry = agent.retry
          /\ n.waiting = agent.waiting /\ n.late = agent.late
      BY <1>2 DEF Loose, Agent
    <3> HIDE DEF n
    <3>3. Loose(n)
      BY <1>2, <3>1, <3>2 DEF Loose
    <3>4. prefs \in Prefs
      BY <1>1 DEF Records
    <3> DEFINE r == Refreshed(n, prefs, None, "never")
    <3>5. Fits(r, prefs) /\ Keeps(n, r, None)
      BY <1>2, <3>2, <3>3, <3>4, RefreshedFits
    <3> QED
      BY <2>2, <3>2, <3>5 DEF Keeps
  <2> QED
    BY <2>1, <2>2
<1>5. Fits(b, prefs') /\ AgentBecomes(b)
  BY <1>3, <1>4 DEF TimerFires
<1> HIDE DEF b
<1>6. Manager' /\ Network'
  BY <1>1, <1>2, <1>4, <1>5, AgentBecomesManager, AgentBecomesNetwork DEF TimerFires
<1>7. Records' /\ Windows' /\ Waits'
  BY <1>1 DEF TimerFires, Records, Windows, Waits, wakeVars, windowVars
<1> QED
  BY <1>6, <1>7, Parts, PTL

LEMMA RetryFiresStep ==
    ASSUME AgentInv, NEW k \in Free, RetryFires(k)
    PROVE  AgentInv'
<1>1. Records /\ Windows /\ Manager /\ Network /\ Waits
  BY Parts
<1>2. /\ agent \in Agent /\ agent.client /\ agent.socket = None /\ Usable(prefs)
      /\ agent.persistent = prefs.keep /\ service
  BY <1>1 DEF RetryFires, Manager, Fits, Sound, Agent
<1>3. k \in Sockets /\ k # None
  BY AgentAssumption DEF Free
<1> DEFINE n == [agent EXCEPT !.retry = FALSE]
           B(when) == IF Allowed(n, prefs) THEN Connected(n, prefs, k, when)
                      ELSE Refreshed(n, prefs, k, when)
<1>4. PICK when \in Passes(agent.deadline) : AgentBecomes(B(when))
  BY DEF RetryFires
<1> DEFINE b == B(when)
           m == At("connect", when, n)
<1>5. n \in Agent
  BY <1>2, Fields
<1>6. /\ n.persistent = agent.persistent /\ n.active = agent.active
      /\ n.deadline = agent.deadline /\ n.client = agent.client
      /\ n.socket = agent.socket /\ n.registered = agent.registered
      /\ n.session = agent.session /\ n.timer = agent.timer /\ n.retry = FALSE
      /\ n.waiting = agent.waiting /\ n.late = agent.late
  BY <1>2 DEF Agent
<1> HIDE DEF n
<1>7. ASSUME Allowed(n, prefs)
      PROVE  Fits(b, prefs) /\ Keeps(agent, b, k)
  <2> DEFINE d1 == [n EXCEPT !.deadline = 0]
             d == [d1 EXCEPT !.late = TRUE]
  <2>1. m \in Agent
    <3>1. d1 \in Agent
      BY <1>5, Fields
    <3>2. m \in {n, d}
      BY DEF At
    <3> HIDE DEF m, d1
    <3>3. d \in Agent
      BY <3>1, Fields
    <3> HIDE DEF d
    <3> QED
      BY <1>5, <3>2, <3>3
  <2>2. /\ m.persistent = n.persistent /\ m.active = n.active /\ m.client = n.client
        /\ m.socket = n.socket /\ m.registered = n.registered /\ m.session = n.session
        /\ m.timer = n.timer /\ m.retry = n.retry /\ m.waiting = n.waiting
        /\ m.deadline \in {0, n.deadline} /\ (m.late = TRUE \/ m = n)
    BY <1>5 DEF At, Agent
  <2>3. b = IF ~ShouldConnect(m) THEN m ELSE [m EXCEPT !.socket = k, !.registered = FALSE]
    BY <1>2, <1>6, <1>7, <2>2 DEF Connected, Allowed
  <2>4. /\ Sound(agent) /\ agent.deadline \in 0 .. Most(Window, Grace)
        /\ agent.timer \in 0 .. Period \cup {None}
    BY <1>1 DEF Manager, Fits
  <2>5. ShouldConnect(n) /\ agent.timer # None
    BY <1>2, <1>6, <1>7, <2>4 DEF Allowed, Sound, ShouldConnect
  <2> HIDE DEF m, b
  <2>6. CASE ~ShouldConnect(m)
    <3>1. m.late = TRUE /\ b = m
      BY <2>2, <2>3, <2>5, <2>6
    <3>2. Sound(m)
      BY <1>2, <1>6, <2>2, <2>4, <2>6, <3>1 DEF Sound, ShouldConnect
    <3>3. Fits(m, prefs)
      BY <1>2, <1>6, <2>1, <2>2, <2>4, <3>2, Times DEF Fits
    <3> QED
      BY <1>2, <1>6, <2>2, <3>1, <3>3 DEF Keeps
  <2>7. CASE ShouldConnect(m)
    <3> DEFINE c1 == [m EXCEPT !.socket = k]
               c == [c1 EXCEPT !.registered = FALSE]
    <3>1. b = c
      BY <2>3, <2>7
    <3>2. c1 \in Agent
      BY <1>3, <2>1, Fields
    <3>3. /\ c.persistent = m.persistent /\ c.active = m.active /\ c.deadline = m.deadline
          /\ c.client = m.client /\ c.socket = k /\ c.registered = FALSE
          /\ c.session = m.session /\ c.timer = m.timer /\ c.retry = m.retry
          /\ c.waiting = m.waiting
      BY <2>1 DEF Agent
    <3> HIDE DEF c1
    <3>4. c \in Agent
      BY <3>2, Fields
    <3> HIDE DEF c
    <3>5. Sound(c)
      BY <1>2, <1>3, <1>6, <2>2, <2>4, <2>5, <3>3 DEF Sound
    <3>6. Fits(c, prefs)
      BY <1>2, <1>6, <2>2, <2>4, <3>3, <3>4, <3>5, Times DEF Fits
    <3> QED
      BY <1>2, <3>1, <3>3, <3>6 DEF Keeps
  <2> QED
    BY <2>6, <2>7
<1>8. ASSUME ~Allowed(n, prefs)
      PROVE  Fits(b, prefs) /\ Keeps(agent, b, k)
  <2>1. ~ShouldConnect(n) /\ ChangedMode(n, prefs.keep) = n
    BY <1>2, <1>6, <1>8 DEF Allowed, Usable, ChangedMode
  <2>2. At("refresh", when, n) = n
    BY <2>1 DEF At, ShouldConnect
  <2>3. b = Idle(n) /\ n.persistent \in BOOLEAN
    BY <1>2, <1>5, <1>8, <2>1, <2>2 DEF Refreshed, Agent
  <2> HIDE DEF b
  <2>4. Fits(b, prefs) /\ b.socket = None /\ ~b.client
    BY <2>3, StoppedFits
  <2> QED
    BY <1>2, <2>4 DEF Keeps
<1>9. Fits(b, prefs) /\ Keeps(agent, b, k) /\ AgentBecomes(b)
  BY <1>4, <1>7, <1>8
<1> HIDE DEF b
<1>10. Fits(b, prefs')
  BY <1>9 DEF RetryFires
<1>11. Manager' /\ Network'
  BY <1>1, <1>2, <1>9, <1>10, AgentBecomesManager, AgentBecomesNetwork DEF RetryFires
<1>12. Records' /\ Windows' /\ Waits'
  BY <1>1 DEF RetryFires, Records, Windows, Waits, wakeVars, windowVars
<1> QED
  BY <1>11, <1>12, Parts, PTL

-------------------------------------------------------------------------------
(* The network, the clocks and the events *)

\* An event posted last leaves those before it, and what they say of losses.
LEMMA PostedEvent ==
    ASSUME Manager, Network, UNCHANGED agent, NEW e \in Event, inbox' = Append(inbox, e),
           phase' \in [Sockets -> {"none", "up", "dying"}],
           \A k \in Sockets : phase'[k] = "up" => phase[k] = "up",
           e.kind \in {"lost", "invalid"} => phase'[e.socket] # "up",
           \A k \in Sockets : phase'[k] # "up" /\ phase[k] = "up" =>
                k = e.socket /\ e.kind \in {"lost", "invalid"}
    PROVE  Network'
<1>1. inbox \in Seq(Event)
  BY DEF Network
<1>2. /\ inbox' \in Seq(Event) /\ Len(inbox') = Len(inbox) + 1
      /\ DOMAIN inbox' = 1 .. Len(inbox) + 1 /\ DOMAIN inbox = 1 .. Len(inbox)
      /\ \A i \in DOMAIN inbox : inbox'[i] = inbox[i] /\ i \in DOMAIN inbox'
      /\ inbox'[Len(inbox) + 1] = e /\ Len(inbox) + 1 \in DOMAIN inbox'
  <2>1. Len(inbox) \in Nat
    BY <1>1
  <2> QED
    BY <1>1, <2>1, AppendProperties
<1>3. OneSocket'
  BY DEF Network, OneSocket
<1>4. ASSUME agent.socket # None, agent.socket \in Sockets, phase'[agent.socket] # "up"
      PROVE  \E i \in DOMAIN inbox' : Loss(i)' /\ inbox'[i].socket = agent.socket
  <2>1. CASE phase[agent.socket] # "up"
    <3>1. PICK i \in DOMAIN inbox : Loss(i) /\ inbox[i].socket = agent.socket
      BY <1>4, <2>1 DEF Network, LossesAreTold
    <3> QED
      BY <1>2, <3>1 DEF Loss
  <2>2. CASE phase[agent.socket] = "up"
    BY <1>2, <1>4, <2>2 DEF Loss
  <2> QED
    BY <2>1, <2>2
<1>5. agent.socket \in Sockets \cup {None}
  BY DEF Manager, Fits, Agent
<1>6. ASSUME NEW i \in DOMAIN inbox', Loss(i)'
      PROVE  phase'[inbox'[i].socket] # "up"
  <2>1. CASE i \in DOMAIN inbox
    <3>1. Loss(i) /\ inbox'[i] = inbox[i]
      BY <1>2, <1>6, <2>1 DEF Loss
    <3>2. phase[inbox[i].socket] # "up" /\ inbox[i] \in Event
      BY <1>1, <2>1, <3>1 DEF Network, LossesAreTold
    <3>3. inbox[i].socket \in Sockets
      BY <3>2 DEF Event
    <3> QED
      BY <3>1, <3>2, <3>3
  <2>2. CASE i = Len(inbox) + 1
    BY <1>2, <1>6, <2>2 DEF Loss
  <2> QED
    BY <1>2, <2>1, <2>2
<1> QED
  BY <1>2, <1>3, <1>4, <1>5, <1>6 DEF Network, LossesAreTold

LEMMA SaysStep ==
    ASSUME AgentInv, NEW k \in Sockets, NEW kind \in Kinds, NEW s \in Sessions, Says(k, kind, s)
    PROVE  AgentInv'
<1>1. Records /\ Windows /\ Manager /\ Network /\ Waits
  BY Parts
<1> DEFINE e == [socket |-> k, kind |-> kind, session |-> s]
<1>2. e \in Event /\ e.kind \notin {"lost", "invalid"} /\ inbox' = Append(inbox, e)
  BY DEF Says, Event
<1>3. phase' = phase /\ phase \in [Sockets -> {"none", "up", "dying"}]
  BY <1>1 DEF Says, Network
<1> HIDE DEF e
<1>4. Network'
  BY <1>1, <1>2, <1>3, PostedEvent DEF Says
<1>5. Manager'
  BY <1>1, AgentStays DEF Says, Manager, Fits
<1>6. Records' /\ Windows' /\ Waits'
  BY <1>1 DEF Says, Records, Windows, Waits, wakeVars, windowVars
<1> QED
  BY <1>4, <1>5, <1>6, Parts, PTL

LEMMA BreaksStep ==
    ASSUME AgentInv, NEW k \in Sockets, NEW kind \in Kinds, NEW s \in Sessions, Breaks(k, kind, s)
    PROVE  AgentInv'
<1>1. Records /\ Windows /\ Manager /\ Network /\ Waits
  BY Parts
<1> DEFINE e == [socket |-> k, kind |-> kind, session |-> s]
<1>2. /\ e \in Event /\ e.kind \in {"lost", "invalid"} /\ inbox' = Append(inbox, e)
      /\ e.socket = k
  BY DEF Breaks, Event
<1>3. phase \in [Sockets -> {"none", "up", "dying"}]
  BY <1>1 DEF Network
<1>4. phase' = [phase EXCEPT ![k] = IF @ = "up" THEN "dying" ELSE "none"]
  BY DEF Breaks
<1> HIDE DEF e
<1>5. /\ phase' \in [Sockets -> {"none", "up", "dying"}]
      /\ \A j \in Sockets : phase'[j] = "up" => phase[j] = "up"
      /\ phase'[e.socket] # "up"
      /\ \A j \in Sockets : phase'[j] # "up" /\ phase[j] = "up" => j = e.socket
  BY <1>2, <1>3, <1>4
<1>6. UNCHANGED agent
  BY DEF Breaks
<1>7. Network'
  BY <1>1, <1>2, <1>5, <1>6, PostedEvent
<1>8. Manager'
  BY <1>1, AgentStays DEF Breaks, Manager, Fits
<1>9. Records' /\ Windows' /\ Waits'
  BY <1>1 DEF Breaks, Records, Windows, Waits, wakeVars, windowVars
<1> QED
  BY <1>7, <1>8, <1>9, Parts, PTL

LEMMA VanishesStep ==
    ASSUME AgentInv, NEW k \in Sockets, Vanishes(k)
    PROVE  AgentInv'
<1>1. Records /\ Windows /\ Manager /\ Network /\ Waits
  BY Parts
<1>2. /\ phase' = [phase EXCEPT ![k] = "none"] /\ phase[k] = "dying"
      /\ UNCHANGED <<agent, inbox>>
  BY DEF Vanishes
<1>3. phase \in [Sockets -> {"none", "up", "dying"}]
  BY <1>1 DEF Network
<1>4. \A j \in Sockets : phase'[j] = "up" <=> phase[j] = "up"
  BY <1>2, <1>3
<1>5. agent.socket \in Sockets \cup {None} /\ \A i \in DOMAIN inbox : inbox[i].socket \in Sockets
  <2>1. \A i \in DOMAIN inbox : inbox[i] \in Event
    BY <1>1 DEF Network
  <2> QED
    BY <1>1, <2>1 DEF Manager, Fits, Agent, Event
<1>6. OneSocket'
  BY <1>1, <1>2, <1>4 DEF Network, OneSocket
<1>7. LossesAreTold'
  BY <1>1, <1>2, <1>4, <1>5 DEF Network, LossesAreTold, Loss
<1>8. Network'
  BY <1>1, <1>2, <1>3, <1>6, <1>7 DEF Network
<1>9. Manager'
  BY <1>1, AgentStays DEF Vanishes, Manager, Fits
<1>10. Records' /\ Windows' /\ Waits'
  BY <1>1 DEF Vanishes, Records, Windows, Waits, wakeVars, windowVars
<1> QED
  BY <1>8, <1>9, <1>10, Parts, PTL

LEMMA ClockTypes ==
    ASSUME Records, NEW d \in Int
    PROVE  /\ LeftAfter(d) \in [Commands -> -1 .. Validity + 1]
           /\ \A rest : Expired(rest) \in SUBSET Commands
<1>1. Validity \in Nat
  BY AgentAssumption
<1>2. ASSUME NEW c \in Commands
      PROVE  Least(Most(left[c] - d, -1), Validity + 1) \in -1 .. Validity + 1
  <2>1. left[c] \in Int
    BY DEF Records
  <2> QED
    BY <1>1, <2>1 DEF Least, Most
<1> QED
  BY <1>2 DEF LeftAfter, Expired

LEMMA ClockJumpStep ==
    ASSUME AgentInv, NEW d \in Int, ClockJump(d)
    PROVE  AgentInv'
<1>1. Records /\ Windows /\ Manager /\ Network /\ Waits
  BY Parts
<1>2. Manager' /\ Network'
  BY <1>1, AgentStays, NetworkStays DEF ClockJump, memoryVars, Manager, Fits
<1>3. jumps' \in 0 .. MaxJumps
  BY <1>1, AgentAssumption DEF ClockJump, Records
<1>4. Records'
  BY <1>1, <1>3, ClockTypes DEF ClockJump, Records
<1>5. Windows' /\ Waits'
  BY <1>1 DEF ClockJump, Windows, Waits, memoryVars, windowVars
<1> QED
  BY <1>2, <1>4, <1>5, Parts, PTL

LEMMA TickStep ==
    ASSUME AgentInv, Tick
    PROVE  AgentInv'
<1>1. Records /\ Windows /\ Manager /\ Network /\ Waits
  BY Parts
<1>2. Records'
  BY <1>1, ClockTypes DEF Tick, Records
<1>3. agent \in Agent /\ agent.deadline \in 0 .. Most(Window, Grace) /\ agent.timer \in 0 .. Period \cup {None}
  BY <1>1 DEF Manager, Fits
<1>4. Window \in Nat /\ Period \in Nat /\ Most(Window, Grace) \in Nat /\ None \notin Int
  BY AgentAssumption DEF Most
<1> DEFINE dl == Before(agent.deadline)
           tm == IF agent.timer = None THEN None ELSE Before(agent.timer)
           n == [agent EXCEPT !.deadline = dl]
           b == [n EXCEPT !.timer = tm]
<1>5. agent' = b
  BY DEF Tick
<1>6. /\ dl \in 0 .. Most(Window, Grace) /\ (agent.deadline = 0 => dl = 0)
      /\ dl > 0 => agent.deadline > 0 /\ dl = agent.deadline - 1
  BY <1>3, <1>4 DEF Before, Most
<1>7. /\ tm \in 0 .. Period \cup {None} /\ (agent.timer = None <=> tm = None)
      /\ agent.timer # None => agent.timer \in Nat /\ (tm = 0 \/ tm = agent.timer - 1)
  BY <1>3, <1>4 DEF Before, Most
<1>8. n \in Agent
  BY <1>3, <1>6, Fields
<1>9. /\ b.persistent = agent.persistent /\ b.active = agent.active /\ b.deadline = dl
      /\ b.client = agent.client /\ b.socket = agent.socket
      /\ b.registered = agent.registered /\ b.session = agent.session /\ b.timer = tm
      /\ b.retry = agent.retry /\ b.waiting = agent.waiting /\ b.late = agent.late
  BY <1>3 DEF Agent
<1> HIDE DEF n
<1>10. b \in Agent
  BY <1>7, <1>8, Fields
<1> HIDE DEF dl, tm, b
<1>11. b.client /\ b.deadline > 0 => b.timer <= b.deadline
  <2> SUFFICES ASSUME b.client, b.deadline > 0 PROVE b.timer <= b.deadline
    OBVIOUS
  <2>1. agent.client /\ agent.deadline > 0 /\ dl = agent.deadline - 1
    BY <1>6, <1>9
  <2>2. agent.timer # None /\ agent.timer <= agent.deadline
    BY <1>1, <2>1 DEF Manager, Fits, Sound, ShouldConnect
  <2>3. tm = 0 \/ tm = agent.timer - 1
    BY <1>7, <2>2
  <2> QED
    BY <1>3, <1>6, <1>7, <1>9, <2>1, <2>2, <2>3
<1>12. Sound(b)
  BY <1>1, <1>6, <1>7, <1>9, <1>11 DEF Manager, Fits, Sound, ShouldConnect
<1>13. Fits(b, prefs)
  BY <1>1, <1>6, <1>7, <1>9, <1>10, <1>12 DEF Manager, Fits
<1>14. ~service => b = agent
  <2> SUFFICES ASSUME ~service PROVE b = agent
    OBVIOUS
  <2>1. agent = NewAgent(FALSE)
    BY <1>1 DEF Manager
  <2>2. agent.deadline = 0 /\ agent.timer = None
    BY <2>1 DEF NewAgent
  <2>3. dl = 0 /\ tm = None
    BY <1>6, <1>7, <2>2
  <2> QED
    BY <1>3, <2>2, <2>3 DEF b, n, Agent
<1>15. Manager'
  BY <1>1, <1>5, <1>9, <1>13, <1>14 DEF Tick, Manager
<1>16. Network'
  BY <1>1, <1>5, <1>9 DEF Tick, Network, OneSocket, LossesAreTold, Loss
<1>17. pendingWake' \in [command : Commands \cup {None}, left : 0 .. Window]
  <2>1. pendingWake \in [command : Commands \cup {None}, left : 0 .. Window]
    BY <1>1 DEF Waits
  <2>2. Before(pendingWake.left) \in 0 .. Window
    BY <1>4, <2>1 DEF Before, Most
  <2> QED
    BY <2>1, <2>2 DEF Tick
<1>18. pendingWake = NoWake => pendingWake' = NoWake
  BY <1>4 DEF Tick, NoWake, Before, Most
<1>19. Waits'
  BY <1>1, <1>17, <1>18 DEF Tick, Waits
<1>20. Windows'
  BY <1>1 DEF Tick, Windows, windowVars
<1> QED
  BY <1>2, <1>15, <1>16, <1>19, <1>20, Parts, PTL

\* What the main thread makes of an event: the state after it
Handled(e, when) ==
    LET live == agent.registered /\ Allowed(agent, prefs)
    IN  IF ~Current(e.socket) THEN agent ELSE
        CASE e.kind = "registered" -> [agent EXCEPT !.registered = TRUE, !.waiting = FALSE]
          [] e.kind = "start" /\ live /\ e.session # agent.session ->
                SessionStarted(agent, e.session)
          [] e.kind = "end" /\ live /\ e.session = agent.session ->
                [SessionEnded(agent) EXCEPT !.waiting = FALSE]
          [] e.kind = "lost" -> Lost(agent, prefs, when)
          [] e.kind = "invalid" -> Stopped(agent)
          [] OTHER -> agent

\* A client says that it is connected, and no longer that it waits.
LEMMA AnsweredFits ==
    ASSUME NEW a, NEW p, Fits(a, p), a.client
    PROVE  LET b == [a EXCEPT !.waiting = FALSE]
           IN  Fits(b, p) /\ b.socket = a.socket /\ b.client
<1> DEFINE b == [a EXCEPT !.waiting = FALSE]
<1>1. b \in Agent
  BY Fields DEF Fits
<1>2. /\ b.persistent = a.persistent /\ b.active = a.active /\ b.deadline = a.deadline
      /\ b.client = a.client /\ b.socket = a.socket /\ b.registered = a.registered
      /\ b.session = a.session /\ b.timer = a.timer /\ b.retry = a.retry /\ ~b.waiting
      /\ b.late = a.late
  BY DEF Fits, Agent
<1> HIDE DEF b
<1>3. Fits(b, p)
  BY <1>1, <1>2 DEF Fits, Sound, ShouldConnect
<1> QED
  BY <1>2, <1>3 DEF b

LEMMA RegisteredFits ==
    ASSUME NEW a, NEW p, Fits(a, p), a.client, a.socket # None
    PROVE  LET b == [a EXCEPT !.registered = TRUE, !.waiting = FALSE]
           IN  Fits(b, p) /\ b.socket = a.socket /\ b.client
<1> DEFINE n == [a EXCEPT !.registered = TRUE]
           b == [n EXCEPT !.waiting = FALSE]
<1>1. n \in Agent
  BY Fields DEF Fits
<1>2. /\ b.persistent = a.persistent /\ b.active = a.active /\ b.deadline = a.deadline
      /\ b.client = a.client /\ b.socket = a.socket /\ b.registered = TRUE
      /\ b.session = a.session /\ b.timer = a.timer /\ b.retry = a.retry /\ ~b.waiting
      /\ b.late = a.late
  BY DEF Fits, Agent
<1> HIDE DEF n
<1>3. b \in Agent
  BY <1>1, Fields
<1> HIDE DEF b
<1>4. Fits(b, p)
  BY <1>2, <1>3 DEF Fits, Sound, ShouldConnect
<1> QED
  BY <1>2, <1>4 DEF b, n

\* The manager keeps its socket, unless it learns that it lost it.
LEMMA HandledFits ==
    ASSUME Manager, prefs \in Prefs, NEW e \in Event, NEW when
    PROVE  LET b == Handled(e, when)
               gone == Current(e.socket) /\ e.kind \in {"lost", "invalid"}
           IN  /\ Fits(b, prefs)
               /\ gone => b.socket = None
               /\ ~gone => b.socket = agent.socket
               /\ ~Current(e.socket) => b = agent
               /\ Current(e.socket) /\ e.kind = "invalid" => ~b.client
<1> DEFINE b == Handled(e, when)
<1>1. Fits(agent, prefs) /\ agent.persistent \in BOOLEAN
  BY DEF Manager, Fits, Agent
<1>2. e.session \in Sessions /\ e.session # None /\ e.kind \in Kinds
  BY AgentAssumption DEF Event
<1>3. CASE ~Current(e.socket)
  <2>1. b = agent
    BY <1>3 DEF Handled
  <2> QED
    BY <1>1, <1>3, <2>1
<1>4. CASE Current(e.socket)
  <2>1. agent.client /\ agent.socket = e.socket /\ agent.socket # None
    BY <1>4, AgentAssumption DEF Current, Event
  <2>2. CASE e.kind = "registered"
    <3> DEFINE c == [agent EXCEPT !.registered = TRUE, !.waiting = FALSE]
    <3>1. b = c
      BY <1>4, <2>2 DEF Handled
    <3>2. Fits(c, prefs) /\ c.socket = agent.socket
      BY <1>1, <2>1, RegisteredFits
    <3> HIDE DEF c, b
    <3> QED
      BY <1>4, <2>2, <3>1, <3>2 DEF b
  <2>3. CASE e.kind = "start"
    <3>1. CASE agent.registered /\ Allowed(agent, prefs) /\ e.session # agent.session
      <4>1. b = SessionStarted(agent, e.session)
        BY <1>4, <2>3, <3>1 DEF Handled
      <4>2. Fits(b, prefs) /\ b.socket = agent.socket
        BY <1>1, <1>2, <3>1, <4>1, StartedFits
      <4> QED
        BY <1>4, <2>3, <4>2
    <3>2. CASE ~(agent.registered /\ Allowed(agent, prefs) /\ e.session # agent.session)
      <4>1. b = agent
        BY <1>4, <2>3, <3>2 DEF Handled
      <4> QED
        BY <1>1, <1>4, <2>3, <4>1
    <3> QED
      BY <3>1, <3>2
  <2>4. CASE e.kind = "end"
    <3>1. CASE agent.registered /\ Allowed(agent, prefs) /\ e.session = agent.session
      <4> DEFINE c == SessionEnded(agent)
      <4>1. b = [c EXCEPT !.waiting = FALSE]
        BY <1>4, <2>4, <3>1 DEF Handled
      <4>2. Fits(c, prefs) /\ c.socket = agent.socket /\ c.client
        BY <1>1, <1>2, <3>1, EndedFits
      <4> HIDE DEF c
      <4>3. Fits(b, prefs) /\ b.socket = agent.socket
        BY <4>1, <4>2, AnsweredFits
      <4> QED
        BY <1>4, <2>4, <4>3
    <3>2. CASE ~(agent.registered /\ Allowed(agent, prefs) /\ e.session = agent.session)
      <4>1. b = agent
        BY <1>4, <2>4, <3>2 DEF Handled
      <4> QED
        BY <1>1, <1>4, <2>4, <4>1
    <3> QED
      BY <3>1, <3>2
  <2>5. CASE e.kind = "lost"
    <3>1. b = Lost(agent, prefs, when)
      BY <1>4, <2>5 DEF Handled
    <3>2. Fits(b, prefs) /\ b.socket = None
      BY <1>1, <2>1, <3>1, LostFits
    <3> QED
      BY <1>4, <2>5, <3>2
  <2>6. CASE e.kind = "invalid"
    <3>1. b = Stopped(agent)
      BY <1>4, <2>6 DEF Handled
    <3>2. Fits(b, prefs) /\ b.socket = None /\ ~b.client
      BY <1>1, <3>1, StoppedFits
    <3> QED
      BY <1>4, <2>6, <3>2
  <2> QED
    BY <1>2, <2>2, <2>3, <2>4, <2>5, <2>6 DEF Kinds
<1> QED
  BY <1>3, <1>4

LEMMA HandleEventStep ==
    ASSUME AgentInv, HandleEvent
    PROVE  AgentInv'
<1>1. Records /\ Windows /\ Manager /\ Network /\ Waits
  BY Parts
<1>2. prefs \in Prefs /\ inbox \in Seq(Event) /\ inbox # <<>>
  BY <1>1 DEF Records, Network, HandleEvent
<1> DEFINE e == Head(inbox)
           gone == Current(e.socket) /\ e.kind \in {"lost", "invalid"}
<1>0. PICK when \in Passes(agent.deadline) : Becomes(Handled(e, when), None, Tail(inbox))
  BY DEF HandleEvent, Handled
<1> DEFINE b == Handled(e, when)
<1>3. /\ e \in Event /\ e = inbox[1] /\ Tail(inbox) \in Seq(Event)
      /\ 1 \in DOMAIN inbox
      /\ \A j \in DOMAIN Tail(inbox) : j + 1 \in DOMAIN inbox /\ Tail(inbox)[j] = inbox[j + 1]
      /\ \A i \in DOMAIN inbox : i # 1 =>
            i - 1 \in DOMAIN Tail(inbox) /\ Tail(inbox)[i - 1] = inbox[i]
  <2>1. Len(inbox) \in Nat /\ Len(inbox) # 0
    BY <1>2, EmptySeq
  <2> QED
    BY <1>2, <2>1, HeadTailProperties
<1>4. Becomes(b, None, Tail(inbox))
  BY <1>0
<1>5. prefs' = [prefs EXCEPT !.invalid = @ \/ (Current(e.socket) /\ e.kind = "invalid")]
  BY DEF HandleEvent
<1> HIDE DEF e
<1>6. /\ Fits(b, prefs)
      /\ gone => b.socket = None
      /\ ~gone => b.socket = agent.socket
      /\ ~Current(e.socket) => b = agent
      /\ Current(e.socket) /\ e.kind = "invalid" => ~b.client
  BY <1>1, <1>2, <1>3, HandledFits
<1> HIDE DEF b
<1>7. e.socket \in Sockets /\ e.socket # None
  BY <1>3, AgentAssumption DEF Event
<1>8. gone => agent.socket = e.socket /\ phase[agent.socket] # "up"
  BY <1>1, <1>3 DEF Network, LossesAreTold, Loss, Current
<1>9. ASSUME NEW i \in DOMAIN inbox, Loss(i), inbox[i].socket = agent.socket,
             b.socket = agent.socket
      PROVE  \E j \in DOMAIN Tail(inbox) : Tail(inbox)[j] = inbox[i]
  <2>1. i # 1
    <3> SUFFICES ASSUME i = 1 PROVE FALSE
      OBVIOUS
    <3>1. e.socket = agent.socket /\ e.kind \in {"lost", "invalid"}
      BY <1>3, <1>9 DEF Loss
    <3>2. agent.client
      BY <1>1, <1>7, <3>1 DEF Manager, Fits, Sound
    <3>3. gone
      BY <3>1, <3>2 DEF Current
    <3> QED
      BY <1>6, <1>7, <1>9, <3>1, <3>3
  <2> QED
    BY <1>3, <2>1
<1>10. \A j \in DOMAIN Tail(inbox) : \E i \in DOMAIN inbox : Tail(inbox)[j] = inbox[i]
  BY <1>3
<1>11. /\ b \in Agent /\ (b.socket # None => b.client)
       /\ b.socket = None \/ b.socket = agent.socket
  BY <1>6 DEF Fits, Sound
<1>12. agent.socket # None /\ b.socket # agent.socket => phase[agent.socket] # "up"
  BY <1>6, <1>8
<1>13. Network'
  BY <1>1, <1>3, <1>4, <1>9, <1>10, <1>11, <1>12, BecomesSockets
<1>14. agent' = b /\ UNCHANGED service
  BY <1>4 DEF Becomes, HandleEvent
<1>15. prefs' \in Prefs
  BY <1>2, <1>5 DEF Prefs
<1>16. (Current(e.socket) /\ e.kind = "invalid") \/ prefs' = prefs
  <2>1. prefs.invalid \in BOOLEAN
    BY <1>2 DEF Prefs
  <2> QED
    BY <1>2, <1>5, <2>1 DEF Prefs
<1>17. Fits(b, prefs')
  BY <1>6, <1>16, FitsSame
<1>18. ~service => b = agent /\ ~b.client
  BY <1>1, <1>6 DEF Manager, Current
<1>19. Manager'
  BY <1>1, <1>11, <1>14, <1>17, <1>18 DEF Manager, Agent
<1>20. Waits'
  <2>1. CASE prefs' = prefs
    BY <1>1, <2>1 DEF HandleEvent, Waits
  <2>2. CASE Current(e.socket)
    <3>1. service
      BY <1>1, <2>2 DEF Current, Manager
    <3> QED
      BY <1>1, <3>1 DEF HandleEvent, Waits
  <2> QED
    BY <1>16, <2>1, <2>2
<1>21. Records' /\ Windows'
  BY <1>1, <1>15 DEF HandleEvent, Records, Windows, wakeVars, windowVars
<1> QED
  BY <1>13, <1>19, <1>20, <1>21, Parts, PTL

-------------------------------------------------------------------------------
(* The agent's invariant *)

LEMMA AgentInit == Init => AgentInv
<1> SUFFICES ASSUME Init PROVE AgentInv
  OBVIOUS
<1>1. PICK v \in BOOLEAN : v = FALSE
  OBVIOUS
<1> DEFINE b == NewAgent(v)
<1>2. agent = b /\ agent = NewAgent(FALSE) /\ service = FALSE /\ inbox = <<>>
  BY <1>1 DEF Init
<1>3. Fits(b, prefs) /\ ~b.client /\ b.socket = None
  BY NewFits
<1> HIDE DEF b
<1>4. Manager
  BY <1>2, <1>3 DEF Manager
<1>5. <<>> \in Seq(Event) /\ DOMAIN <<>> = {}
  OBVIOUS
<1>6. Network
  BY <1>2, <1>3, <1>5 DEF Init, Network, OneSocket, LossesAreTold
<1>7. Windows /\ Waits
  BY AgentAssumption DEF Init, Windows, Waits, NoWake
<1>8. Records
  BY AgentAssumption DEF Init, Records, Prefs, NoPrefs
<1> QED
  BY <1>4, <1>6, <1>7, <1>8, Parts

LEMMA AgentStep == AgentInv /\ [Next]_vars => AgentInv'
<1> SUFFICES ASSUME AgentInv, [Next]_vars PROVE AgentInv'
  OBVIOUS
<1>1. CASE UNCHANGED vars
  <2>1. Records /\ Windows /\ Manager /\ Network /\ Waits
    BY Parts
  <2>2. Manager' /\ Network'
    BY <1>1, <2>1, AgentStays, NetworkStays DEF vars, Manager, Fits
  <2>3. Records' /\ Windows' /\ Waits'
    BY <1>1, <2>1 DEF vars, Records, Windows, Waits
  <2> QED
    BY <2>2, <2>3, Parts, PTL
<1>2. CASE \E k \in Free : RetryFires(k) \/ Attach(k)
  BY <1>2, RetryFiresStep, AttachStep
<1>3. CASE HandleEvent
  BY <1>3, HandleEventStep
<1>4. CASE SocketEvent
  BY <1>4, SaysStep, BreaksStep, VanishesStep DEF SocketEvent
<1>5. CASE Wake
  BY <1>5, IssueStep, ReceiveWakeEarlyStep, DiesWakingStep, ReceiveWakeStep DEF Wake
<1>6. CASE User
  BY <1>6, RefreshStep, SaveWakeKeyStep, SetKeepConnectedStep, ConnectManuallyStep,
     PairStep, PauseStep DEF User
<1>7. CASE Clear \/ Detach \/ Interrupt \/ PendingExpires
  BY <1>7, ClearStep, DetachStep, InterruptStep, PendingExpiresStep
<1>8. CASE TimerFires \/ Tick \/ ProcessDies
  BY <1>8, TimerFiresStep, TickStep, ProcessDiesStep
<1>9. CASE \E d \in {-1, 1} : ClockJump(d)
  BY <1>9, ClockJumpStep
<1> QED
  BY <1>1, <1>2, <1>3, <1>4, <1>5, <1>6, <1>7, <1>8, <1>9 DEF Next

\* The agent is connected only as its preferences and its policy ask for.  A client that
\* may connect has a timer due by its deadline; and a client lacks a timer, or has neither
\* a socket nor a retry, only if a deadline passed within one of its callbacks.
THEOREM AgentIsSound == Spec => []AgentInv
  BY AgentInit, AgentStep, PTL DEF Spec

\* Whatever order closes, losses and reconnections come in, one socket is open at most.
THEOREM OneSocketIsOpen == Spec => []OneSocket
<1>1. AgentInv => OneSocket
  BY DEF AgentInv
<1> QED
  BY <1>1, AgentIsSound, PTL

\* A phone that is paused, refused or not paired holds no connection and plans none.
THEOREM StoppedStaysQuiet == Spec => []StoppedIsQuiet
<1>1. AgentInv => StoppedIsQuiet
  <2> SUFFICES ASSUME AgentInv, ~Usable(prefs)
               PROVE  /\ ~agent.client /\ agent.socket = None /\ agent.session = None
                      /\ agent.timer = None /\ ~agent.retry
                      /\ pendingWake = NoWake
                      /\ \A k \in Sockets : phase[k] # "up"
    BY DEF StoppedIsQuiet
  <2>1. ~agent.client /\ pendingWake = NoWake
    BY DEF AgentInv
  <2>2. agent.socket = None /\ agent.timer = None /\ ~agent.retry /\ agent.session = None
    BY <2>1 DEF AgentInv, Sound
  <2>3. \A k \in Sockets : phase[k] # "up"
    BY <2>2, AgentAssumption DEF AgentInv, OneSocket
  <2> QED
    BY <2>1, <2>2, <2>3
<1> QED
  BY <1>1, AgentIsSound, PTL

-------------------------------------------------------------------------------
(* A command opens one window *)

\* It opened one, or waits to do so.
Tried(c) == c \in opened \/ (pendingWake # NoWake /\ c = pendingWake.command)

\* Its nonce is remembered while it is valid for the device the phone is paired with.
Remembered(c) ==
    issuedFor[c] # 0 /\ (c \in lapsed \/ c \in prefs.nonces \/ issuedFor[c] # prefs.device)

Once ==
    /\ \A c \in Commands : Tried(c) => Remembered(c)
    /\ pendingWake # NoWake /\ pendingWake.command \in opened => pendingWake.command \in lapsed
    /\ reopened \subseteq lapsed
    /\ \A c \in Commands : issuedFor[c] <= pairings
    /\ \A c \in Commands : issuedFor[c] # 0 /\ left[c] <= 0 => c \in lapsed

\* A step that neither receives a command nor changes the pairing
LEMMA OnceQuiet ==
    ASSUME Once, UNCHANGED <<opened, reopened, lapsed, issuedFor, left, pairings>>,
           prefs'.nonces = prefs.nonces, prefs'.device = prefs.device,
           pendingWake' = pendingWake \/ pendingWake' = NoWake
    PROVE  Once'
  BY DEF Once, Tried, Remembered

\* A verified command that could be consumed was not tried, unless it had lapsed; the
\* nonces that are dropped had lapsed too.
LEMMA FreshCommand ==
    ASSUME AgentInv, Once, NEW c \in Commands, Consumes(c)
    PROVE  /\ Tried(c) => c \in lapsed
           /\ c \in prefs'.nonces /\ issuedFor[c] # 0 /\ prefs'.device = prefs.device
           /\ \A n \in Commands : n \in prefs.nonces /\ issuedFor[n] # 0 =>
                  n \in prefs'.nonces \/ n \in lapsed
<1>1. prefs \in Prefs /\ left \in [Commands -> -1 .. Validity + 1]
  BY DEF AgentInv, TypeOK
<1>2. /\ issuedFor[c] = prefs.device /\ prefs.device # 0 /\ left[c] > 0
      /\ c \notin LiveNonces
  BY DEF Consumes, Verified, Usable, Consumable
<1>3. c \notin prefs.nonces
  BY <1>2 DEF LiveNonces
<1>4. prefs'.nonces = LiveNonces \cup {c} /\ prefs'.device = prefs.device
  BY <1>1 DEF Consumes, Prefs
<1>5. ASSUME NEW n \in Commands, n \in prefs.nonces, issuedFor[n] # 0
      PROVE  n \in prefs'.nonces \/ n \in lapsed
  <2>1. left[n] > 0 \/ left[n] <= 0
    BY <1>1
  <2> QED
    BY <1>4, <1>5, <2>1 DEF LiveNonces, Once
<1> QED
  BY <1>2, <1>3, <1>4, <1>5 DEF Once, Remembered

LEMMA OnceReceived ==
    ASSUME AgentInv, Once, NEW c \in Commands, Consumes(c),
           UNCHANGED <<pairings, issuedFor, left, lapsed>>,
           \/ UNCHANGED <<opened, reopened>> /\ pendingWake' \in {pendingWake, NoWake}
           \/ Opens(c) /\ pendingWake' = pendingWake /\ pendingWake = NoWake
           \/ /\ UNCHANGED <<opened, reopened>> /\ pendingWake = NoWake
              /\ pendingWake'.command = c
    PROVE  Once'
<1>1. /\ Tried(c) => c \in lapsed
      /\ c \in prefs'.nonces /\ issuedFor[c] # 0 /\ prefs'.device = prefs.device
      /\ \A n \in Commands : n \in prefs.nonces /\ issuedFor[n] # 0 =>
             n \in prefs'.nonces \/ n \in lapsed
  BY FreshCommand
<1>2. \A n \in Commands : Tried(n)' => Tried(n) \/ n = c
  BY DEF Tried, Opens
<1>3. \A n \in Commands : Tried(n)' => Remembered(n)'
  BY <1>1, <1>2 DEF Once, Remembered
<1>4. pendingWake' # NoWake /\ pendingWake'.command \in opened' => pendingWake'.command \in lapsed'
  BY <1>1 DEF Once, Tried
<1>5. reopened' \subseteq lapsed'
  BY <1>1 DEF Once, Opens, Tried
<1> QED
  BY <1>3, <1>4, <1>5 DEF Once

LEMMA OnceWake ==
    ASSUME AgentInv, Once, Wake
    PROVE  Once'
<1>1. ASSUME NEW c \in Commands, NEW d \in 1 .. MaxPairings, Issue(c, d)
      PROVE  Once'
  <2>1. /\ issuedFor \in [Commands -> 0 .. MaxPairings] /\ pairings \in Nat
        /\ left \in [Commands -> -1 .. Validity + 1]
    BY AgentAssumption DEF AgentInv, TypeOK
  <2>2. issuedFor' = [issuedFor EXCEPT ![c] = d] /\ d <= pairings /\ issuedFor[c] = 0
    BY <1>1, <2>1 DEF Issue
  <2>3. left' = [left EXCEPT ![c] = Validity] /\ Validity > 0
    BY <1>1, AgentAssumption DEF Issue
  <2>4. UNCHANGED <<prefs, pairings, pendingWake, opened, reopened, lapsed>>
    BY <1>1 DEF Issue, memoryVars, windowVars
  <2>5. ~Tried(c)
    BY <2>2 DEF Once, Remembered
  <2>6. \A n \in Commands : Tried(n)' => Remembered(n)'
    BY <2>1, <2>2, <2>4, <2>5 DEF Once, Remembered, Tried
  <2>7. \A n \in Commands : issuedFor'[n] <= pairings'
    BY <2>1, <2>2, <2>4 DEF Once
  <2>8. \A n \in Commands : issuedFor'[n] # 0 /\ left'[n] <= 0 => n \in lapsed'
    BY <2>1, <2>2, <2>3, <2>4, AgentAssumption DEF Once
  <2> QED
    BY <2>4, <2>6, <2>7, <2>8 DEF Once
<1>2. ASSUME NEW c \in Commands, ReceiveWakeEarly(c) \/ DiesWaking(c)
      PROVE  Once'
  <2>1. CASE ReceiveWakeEarly(c)
    BY <2>1, OnceReceived DEF ReceiveWakeEarly, wakeVars, windowVars
  <2>2. CASE DiesWaking(c)
    BY <2>2, OnceReceived DEF DiesWaking, Dies, wakeVars, windowVars
  <2> QED
    BY <1>2, <2>1, <2>2
<1>3. ASSUME NEW c \in Commands, NEW k \in Free, ReceiveWake(c, k)
      PROVE  Once'
  <2>1. pendingWake = NoWake
    BY <1>3 DEF ReceiveWake, AgentInv
  <2>2. Consumes(c) /\ UNCHANGED <<pairings, issuedFor, left, lapsed, pendingWake>>
    BY <1>3 DEF ReceiveWake, wakeVars
  <2>3. Opens(c) \/ UNCHANGED <<opened, reopened>>
    BY <1>3 DEF ReceiveWake, windowVars
  <2> QED
    BY <2>1, <2>2, <2>3, OnceReceived
<1> QED
  BY <1>1, <1>2, <1>3 DEF Wake

LEMMA OnceAttach ==
    ASSUME AgentInv, Once, NEW k \in Free, Attach(k)
    PROVE  Once'
<1>1. UNCHANGED <<prefs, pairings, issuedFor, left, lapsed>> /\ pendingWake' = NoWake
  BY DEF Attach, wakeVars
<1>2. \/ UNCHANGED <<opened, reopened>>
      \/ Opens(pendingWake.command) /\ pendingWake.left > 0
  BY DEF Attach, windowVars, OpensWindow
<1>3. CASE UNCHANGED <<opened, reopened>>
  BY <1>1, <1>3, OnceQuiet
<1>4. CASE Opens(pendingWake.command) /\ pendingWake.left > 0
  <2>1. pendingWake # NoWake
    BY <1>4 DEF NoWake
  <2>2. \A n \in Commands : Tried(n)' => Tried(n)
    BY <1>1, <1>4, <2>1 DEF Tried, Opens
  <2>3. \A n \in Commands : Tried(n)' => Remembered(n)'
    BY <1>1, <2>2 DEF Once, Remembered
  <2>4. reopened' \subseteq lapsed'
    BY <1>1, <1>4, <2>1 DEF Once, Opens
  <2> QED
    BY <1>1, <2>3, <2>4 DEF Once
<1> QED
  BY <1>2, <1>3, <1>4

\* A new pairing, or none, makes the commands of the old one worthless.
LEMMA OncePairing ==
    ASSUME AgentInv, Once, \/ \E k \in Free : Pair(k)
                           \/ Clear
    PROVE  Once'
<1>1. issuedFor \in [Commands -> 0 .. MaxPairings] /\ pairings \in Nat /\ prefs \in Prefs
  BY AgentAssumption DEF AgentInv, TypeOK
<1>2. /\ UNCHANGED <<issuedFor, left, lapsed, opened, reopened>> /\ pendingWake' = NoWake
      /\ \/ pairings' = pairings + 1 /\ prefs'.device = pairings'
         \/ pairings' = pairings /\ prefs'.device = 0
  <2>1. CASE \E k \in Free : Pair(k)
    <3>1. prefs'.device = pairings'
      BY <1>1, <2>1 DEF Pair, Prefs
    <3> QED
      BY <2>1, <3>1 DEF Pair, wakeVars, windowVars
  <2>2. CASE Clear
    BY <2>2 DEF Clear, wakeVars, windowVars, NoPrefs
  <2> QED
    BY <2>1, <2>2
<1>3. \A c \in Commands : issuedFor[c] <= pairings /\ issuedFor[c] \in Nat
  BY <1>1 DEF Once
<1>4. \A c \in Commands : Tried(c)' => Remembered(c)'
  BY <1>1, <1>2, <1>3 DEF Once, Remembered, Tried
<1>5. \A c \in Commands : issuedFor'[c] <= pairings'
  BY <1>1, <1>2, <1>3
<1> QED
  BY <1>2, <1>4, <1>5 DEF Once

\* What expires while it is known of has lapsed.
LEMMA OnceClocks ==
    ASSUME AgentInv, Once, Tick \/ \E d \in {-1, 1} : ClockJump(d)
    PROVE  Once'
<1>1. /\ UNCHANGED <<issuedFor, pairings, prefs, opened, reopened>>
      /\ lapsed' = lapsed \cup Expired(left')
      /\ pendingWake'.command = pendingWake.command
      /\ pendingWake = NoWake => pendingWake' = NoWake
  <2>1. CASE Tick
    <3>1. pendingWake \in [command : Commands \cup {None}, left : 0 .. Window]
      BY DEF AgentInv, TypeOK
    <3> QED
      BY <2>1, <3>1 DEF Tick, windowVars, NoWake, Before, Most
  <2>2. CASE \E d \in {-1, 1} : ClockJump(d)
    BY <2>2 DEF ClockJump, memoryVars, windowVars
  <2> QED
    BY <2>1, <2>2
<1>2. \A c \in Commands : Tried(c)' => Tried(c)
  BY <1>1 DEF Tried
<1>3. \A c \in Commands : Tried(c)' => Remembered(c)'
  BY <1>1, <1>2 DEF Once, Remembered
<1>4. \A c \in Commands : issuedFor'[c] # 0 /\ left'[c] <= 0 => c \in lapsed'
  BY <1>1 DEF Expired
<1> QED
  BY <1>1, <1>3, <1>4 DEF Once

LEMMA OnceStep == AgentInv /\ Once /\ [Next]_vars => Once'
<1> SUFFICES ASSUME AgentInv, Once, [Next]_vars PROVE Once'
  OBVIOUS
<1>1. prefs \in Prefs
  BY DEF AgentInv, TypeOK
<1>2. CASE UNCHANGED vars
  BY <1>2, OnceQuiet DEF vars
<1>3. CASE \E k \in Free : RetryFires(k)
  BY <1>3, OnceQuiet DEF RetryFires, wakeVars, windowVars
<1>4. CASE \E k \in Free : Attach(k)
  BY <1>4, OnceAttach
<1>5. CASE HandleEvent
  <2>1. prefs'.nonces = prefs.nonces /\ prefs'.device = prefs.device
    BY <1>1, <1>5 DEF HandleEvent, Prefs
  <2> QED
    BY <1>5, <2>1, OnceQuiet DEF HandleEvent, wakeVars, windowVars
<1>6. CASE SocketEvent
  BY <1>6, OnceQuiet DEF SocketEvent, Says, Breaks, Vanishes, wakeVars, windowVars
<1>7. CASE Wake
  BY <1>7, OnceWake
<1>8. CASE User
  <2>1. CASE \E k \in Free : Refresh(k) \/ ConnectManually(k)
    BY <2>1, OnceQuiet DEF Refresh, ConnectManually, wakeVars, windowVars
  <2>2. CASE \E k \in Free : SaveWakeKey(k) \/ SetKeepConnected(k) \/ Pause(k)
    <3>1. prefs'.nonces = prefs.nonces /\ prefs'.device = prefs.device
      BY <1>1, <2>2 DEF SaveWakeKey, SetKeepConnected, Pause, Prefs
    <3> QED
      BY <2>2, <3>1, OnceQuiet DEF SaveWakeKey, SetKeepConnected, Pause, wakeVars, windowVars
  <2>3. CASE \E k \in Free : Pair(k)
    BY <2>3, OncePairing
  <2> QED
    BY <1>8, <2>1, <2>2, <2>3 DEF User
<1>9. CASE Clear
  BY <1>9, OncePairing
<1>10. CASE Detach \/ Interrupt \/ PendingExpires \/ TimerFires
  BY <1>10, OnceQuiet DEF Detach, Interrupt, PendingExpires, TimerFires, wakeVars, windowVars
<1>11. CASE ProcessDies
  BY <1>11, OnceQuiet DEF ProcessDies, Dies, wakeVars, windowVars
<1>12. CASE Tick \/ \E d \in {-1, 1} : ClockJump(d)
  BY <1>12, OnceClocks
<1> QED
  BY <1>2, <1>3, <1>4, <1>5, <1>6, <1>7, <1>8, <1>9, <1>10, <1>11, <1>12 DEF Next

\* A command opens a second window only if it had lapsed by the phone's own clock.
THEOREM CommandActivatesOnce == Spec => []ActivatesOnce
<1>1. Init => Once
  <2> SUFFICES ASSUME Init PROVE Once
    OBVIOUS
  <2>1. pendingWake = NoWake /\ opened = {} /\ reopened = {}
    BY DEF Init
  <2>2. \A c \in Commands : issuedFor[c] = 0 /\ pairings = 0
    BY DEF Init
  <2> QED
    BY <2>1, <2>2 DEF Once, Tried
<1>2. Once => ActivatesOnce
  BY DEF Once, ActivatesOnce
<1> QED
  BY <1>1, <1>2, OnceStep, AgentIsSound, PTL DEF Spec

-------------------------------------------------------------------------------
(* A window is not extended *)

\* A window is begun only by an agent with no reason left to be connected, or by the end
\* of its session: a further command, a loss, a reconnection or a change of the settings
\* never makes one that is in progress longer (ConnectionPolicy.activate, connectionLost).
NoWindowIsExtended ==
    [][agent'.deadline > agent.deadline =>
          ~ShouldConnect(agent) \/ agent.session # None]_vars

\* What an update of one field leaves of the deadline
LEMMA OtherFields ==
    ASSUME NEW a \in Agent
    PROVE  /\ \A v : /\ [a EXCEPT !.client = v].deadline = a.deadline
                     /\ [a EXCEPT !.socket = v].deadline = a.deadline
                     /\ [a EXCEPT !.registered = v].deadline = a.deadline
                     /\ [a EXCEPT !.retry = v].deadline = a.deadline
                     /\ [a EXCEPT !.waiting = v].deadline = a.deadline
                     /\ [a EXCEPT !.timer = v].deadline = a.deadline
                     /\ [a EXCEPT !.late = v].deadline = a.deadline
                     /\ [a EXCEPT !.deadline = v].deadline = v
           /\ \A v : /\ [a EXCEPT !.socket = v].session = a.session
                     /\ [a EXCEPT !.registered = v].session = a.session
  BY DEF Agent

\* What the manager's helpers do to the deadline: they keep it or clear it.
LEMMA AtDeadline ==
    ASSUME NEW a \in Agent, NEW read, NEW when
    PROVE  At(read, when, a) \in Agent /\ At(read, when, a).deadline \in {a.deadline, 0}
<1> DEFINE n == [a EXCEPT !.deadline = 0]
           b == [n EXCEPT !.late = TRUE]
<1>1. n \in Agent /\ n.deadline = 0
  BY Fields, OtherFields
<1>2. At(read, when, a) \in {a, b}
  BY DEF At
<1> HIDE DEF n
<1>3. b \in Agent /\ b.deadline = 0
  BY <1>1, Fields, OtherFields
<1> QED
  BY <1>2, <1>3

LEMMA ScheduledDeadline ==
    ASSUME NEW a \in Agent, NEW when
    PROVE  Scheduled(a, when).deadline \in {a.deadline, 0}
<1> DEFINE b == At("schedule", when, a)
<1>1. b \in Agent /\ b.deadline \in {a.deadline, 0}
  BY AtDeadline
<1>2. \E t : Scheduled(a, when) = [b EXCEPT !.timer = t]
  BY DEF Scheduled
<1> HIDE DEF b
<1> QED
  BY <1>1, <1>2, OtherFields

LEMMA StoppedDeadline ==
    ASSUME NEW a
    PROVE  Stopped(a).deadline = 0 /\ Idle(a).deadline = 0
  BY DEF Stopped, Idle, NewAgent

LEMMA ConnectedDeadline ==
    ASSUME NEW a \in Agent, NEW p, NEW k \in Sockets \cup {None}, NEW when
    PROVE  /\ Connected(a, p, k, when) \in Agent
           /\ Connected(a, p, k, when).deadline \in {a.deadline, 0}
<1> DEFINE c == At("connect", when, a)
           n == [c EXCEPT !.socket = k]
           b == [n EXCEPT !.registered = FALSE]
<1>1. c \in Agent /\ c.deadline \in {a.deadline, 0}
  BY AtDeadline
<1>2. Connected(a, p, k, when) \in {c, b}
  BY DEF Connected
<1> HIDE DEF c
<1>3. n \in Agent /\ n.deadline = c.deadline
  BY <1>1, Fields, OtherFields
<1> HIDE DEF n
<1>4. b \in Agent /\ b.deadline = c.deadline
  BY <1>3, Fields, OtherFields
<1> HIDE DEF b
<1> QED
  BY <1>1, <1>2, <1>4

LEMMA RefreshedDeadline ==
    ASSUME NEW a \in Agent, NEW p \in Prefs, NEW k \in Sockets \cup {None}, NEW when
    PROVE  Refreshed(a, p, k, when).deadline \in {a.deadline, 0}
<1> DEFINE g == ChangedMode(a, p.keep)
           m == At("refresh", when, g)
           n1 == [m EXCEPT !.client = TRUE]
           n == [n1 EXCEPT !.waiting = FALSE]
<1>0. g \in Agent /\ g.deadline \in {a.deadline, 0}
  <2>1. p.keep \in BOOLEAN
    BY DEF Prefs
  <2> DEFINE c == [a EXCEPT !.persistent = p.keep]
  <2>2. c \in Agent
    BY <2>1, Fields
  <2>3. g \in {a, [c EXCEPT !.deadline = 0]}
    BY DEF ChangedMode
  <2> HIDE DEF c, g
  <2>4. [c EXCEPT !.deadline = 0] \in Agent
    <3>1. \A v \in Int : [c EXCEPT !.deadline = v] \in Agent
      BY <2>2, Fields
    <3> QED
      BY <3>1
  <2>5. [c EXCEPT !.deadline = 0].deadline = 0
    BY <2>2, OtherFields
  <2> QED
    BY <2>3, <2>4, <2>5
<1> HIDE DEF g
<1>1. m \in Agent /\ m.deadline \in {a.deadline, 0}
  BY <1>0, AtDeadline
<1> HIDE DEF m
<1>2. n1 \in Agent /\ n1.deadline = m.deadline
  BY <1>1, Fields, OtherFields
<1> HIDE DEF n1
<1>3. n \in Agent /\ n.deadline = m.deadline
  BY <1>2, Fields, OtherFields
<1>4. Refreshed(a, p, k, when) \in {Stopped(m), Idle(m), Scheduled(m, when),
                                    Scheduled(Connected(n, p, k, when), when)}
  BY DEF Refreshed, g, m, n1
<1> HIDE DEF n
<1> DEFINE c == Connected(n, p, k, when)
<1>5. c \in Agent /\ c.deadline \in {a.deadline, 0}
  BY <1>1, <1>3, ConnectedDeadline
<1> HIDE DEF c
<1>6. /\ Scheduled(m, when).deadline \in {a.deadline, 0}
      /\ Scheduled(c, when).deadline \in {a.deadline, 0}
  BY <1>1, <1>5, ScheduledDeadline
<1> QED
  BY <1>4, <1>6, StoppedDeadline DEF c

LEMMA ControlledDeadline ==
    ASSUME NEW a \in Agent, NEW p \in Prefs, NEW k \in Sockets \cup {None}, NEW when
    PROVE  Controlled(a, p, k, when).deadline \in {a.deadline, 0}
  BY RefreshedDeadline, StoppedDeadline DEF Controlled

\* Without a session, a loss leaves what was left of the window.
LEMMA LostDeadline ==
    ASSUME NEW a \in Agent, a.session = None, NEW p \in Prefs, NEW when
    PROVE  Lost(a, p, when).deadline \in {a.deadline, 0}
<1> DEFINE n1 == [a EXCEPT !.socket = None]
           b == [n1 EXCEPT !.registered = FALSE]
           c1 == [b EXCEPT !.retry = TRUE]
           c == [c1 EXCEPT !.waiting = FALSE]
<1>1. n1 \in Agent /\ n1.deadline = a.deadline /\ n1.session = None
  <2>1. n1 \in Agent
    BY Fields
  <2> QED
    BY <2>1, OtherFields
<1>2. b \in Agent /\ b.deadline = a.deadline /\ b.session = None
  <2> HIDE DEF n1
  <2> QED
    BY <1>1, Fields, OtherFields
<1>3. SessionEnded(b) = b
  BY <1>2 DEF SessionEnded
<1>4. Lost(a, p, when) \in {Scheduled(c, when), Refreshed(b, p, None, when)}
  BY <1>3 DEF Lost
<1> HIDE DEF b
<1>5. c1 \in Agent /\ c1.deadline = a.deadline
  BY <1>2, Fields, OtherFields
<1> HIDE DEF c1
<1>6. c \in Agent /\ c.deadline = a.deadline
  BY <1>5, Fields, OtherFields
<1> HIDE DEF c
<1> QED
  BY <1>2, <1>4, <1>6, RefreshedDeadline, ScheduledDeadline

LEMMA HandledDeadline ==
    ASSUME agent \in Agent, prefs \in Prefs, agent.session = None, NEW e \in Event, NEW when
    PROVE  Handled(e, when).deadline \in {agent.deadline, 0}
<1>1. e.session \in Sessions /\ e.session # None
  BY AgentAssumption DEF Event
<1>2. [agent EXCEPT !.registered = TRUE, !.waiting = FALSE].deadline = agent.deadline
  BY DEF Agent
<1>3. SessionStarted(agent, e.session).deadline = 0
  BY <1>1 DEF SessionStarted, Scheduled, At, Agent
<1>4. Handled(e, when) \in
         {agent, [agent EXCEPT !.registered = TRUE, !.waiting = FALSE],
          SessionStarted(agent, e.session), Lost(agent, prefs, when), Stopped(agent)}
  BY <1>1 DEF Handled
<1> QED
  BY <1>2, <1>3, <1>4, LostDeadline, StoppedDeadline

LEMMA WindowStep ==
    ASSUME AgentInv, [Next]_vars, ShouldConnect(agent), agent.session = None
    PROVE  agent'.deadline \in {agent.deadline, 0} \/ agent'.deadline <= agent.deadline
<1>1. /\ agent \in Agent /\ prefs \in Prefs /\ agent.deadline \in Nat
      /\ Free \subseteq Sockets \cup {None}
      /\ service
  <2>1. agent.deadline \in 0 .. Most(Window, Grace)
    BY DEF AgentInv, TypeOK
  <2>2. ~ShouldConnect(NewAgent(FALSE))
    BY DEF ShouldConnect, NewAgent
  <2> QED
    <3>1. service
      BY <2>2 DEF AgentInv
    <3>2. agent.deadline \in Nat
      BY <2>1
    <3> QED
      BY <3>1, <3>2 DEF AgentInv, TypeOK, Free
<1>2. ASSUME agent' = agent PROVE agent'.deadline \in {agent.deadline, 0}
  BY <1>2
<1>3. ASSUME NEW p \in Prefs, NEW k \in Free, NEW when,
             \/ AgentBecomes(Controls(p, k, when))
             \/ AgentBecomes(Controlled(agent, p, k, when))
      PROVE  agent'.deadline \in {agent.deadline, 0}
  BY <1>1, <1>3, ControlledDeadline DEF AgentBecomes, Becomes, Controls
<1>4. ASSUME NEW k \in Free, RetryFires(k) \/ Attach(k)
      PROVE  agent'.deadline \in {agent.deadline, 0}
  <2>1. ~Attach(k)
    BY <1>1 DEF Attach
  <2> DEFINE a == [agent EXCEPT !.retry = FALSE]
  <2>2. a \in Agent /\ a.deadline = agent.deadline
    BY <1>1, Fields, OtherFields
  <2>3. PICK when : agent' \in {Connected(a, prefs, k, when), Refreshed(a, prefs, k, when)}
    BY <1>4, <2>1 DEF RetryFires, AgentBecomes, Becomes
  <2> HIDE DEF a
  <2> QED
    BY <1>1, <2>2, <2>3, ConnectedDeadline, RefreshedDeadline
<1>5. CASE HandleEvent
  <2> DEFINE e == Head(inbox)
  <2>1. e \in Event
    BY <1>5 DEF HandleEvent, AgentInv, TypeOK
  <2>2. PICK when : agent' = Handled(e, when)
    BY <1>5 DEF HandleEvent, Handled, Becomes
  <2> QED
    BY <1>1, <2>1, <2>2, HandledDeadline
<1>6. CASE SocketEvent
  BY <1>2, <1>6 DEF SocketEvent, Says, Breaks, Vanishes
<1>7. CASE Wake
  <2>1. ASSUME NEW c \in Commands, NEW k \in Free, ReceiveWake(c, k) PROVE agent' = agent
    BY <2>1 DEF ReceiveWake, AgentBecomes, Becomes, Woken, OpensWindow
  <2>2. ASSUME NEW c \in Commands, ReceiveWakeEarly(c) \/ DiesWaking(c)
        PROVE  agent'.deadline = 0
    BY <1>1, <2>2 DEF ReceiveWakeEarly, DiesWaking, Dies, NewAgent
  <2>3. ASSUME NEW c \in Commands, NEW d \in 1 .. MaxPairings, Issue(c, d)
        PROVE  agent' = agent
    BY <2>3 DEF Issue, memoryVars
  <2> QED
    BY <1>2, <1>7, <2>1, <2>2, <2>3 DEF Wake
<1>8. ASSUME NEW k \in Free,
             \/ Refresh(k) \/ SaveWakeKey(k) \/ SetKeepConnected(k)
             \/ ConnectManually(k) \/ Pair(k) \/ Pause(k)
      PROVE  agent'.deadline \in {agent.deadline, 0}
  <2>1. CASE Refresh(k)
    BY <1>1, <1>3, <2>1 DEF Refresh
  <2>2. CASE SaveWakeKey(k) \/ SetKeepConnected(k) \/ Pause(k)
    <3>1. prefs' \in Prefs
      BY <1>1, <2>2 DEF SaveWakeKey, SetKeepConnected, Pause, Prefs
    <3>2. PICK when : AgentBecomes(Controls(prefs', k, when))
      BY <2>2 DEF SaveWakeKey, SetKeepConnected, Pause
    <3> QED
      BY <1>3, <3>1, <3>2
  <2>3. CASE Pair(k)
    <3>1. prefs' \in Prefs
      <4>1. pairings' \in 0 .. MaxPairings
        BY <2>3, Parts, AgentAssumption DEF Pair, Records
      <4> QED
        BY <1>1, <2>3, <4>1 DEF Pair, Prefs
    <3>2. Stopped(agent) \in Agent /\ Stopped(agent).deadline = 0
      BY <1>1 DEF Stopped, NewAgent, Agent
    <3>3. agent' = Controlled(Stopped(agent), prefs', k, "never")
      BY <1>1, <2>3 DEF Pair, Becomes
    <3> QED
      BY <1>1, <3>1, <3>2, <3>3, ControlledDeadline
  <2>4. CASE ConnectManually(k)
    BY <2>4 DEF ConnectManually
  <2> QED
    BY <1>8, <2>1, <2>2, <2>3, <2>4
<1>9. CASE Clear \/ Detach \/ Interrupt \/ PendingExpires \/ ProcessDies
  <2>1. NewAgent(FALSE).deadline = 0
    BY DEF NewAgent
  <2>2. agent' \in {Stopped(agent), NewAgent(FALSE), agent}
    BY <1>9
    DEF Clear, Detach, Interrupt, PendingExpires, ProcessDies, Dies, AgentBecomes, Becomes
  <2> QED
    BY <2>1, <2>2, StoppedDeadline
<1>10. CASE TimerFires
  <2>1. PICK when : agent' = Scheduled(agent, when)
    BY <1>10 DEF TimerFires, AgentBecomes, Becomes
  <2> QED
    BY <1>1, <2>1, ScheduledDeadline
<1>11. CASE Tick
  <2>1. agent'.deadline = Before(agent.deadline)
    BY <1>1, <1>11 DEF Tick, Agent
  <2> QED
    BY <1>1, <2>1 DEF Before, Most
<1>12. CASE (\E d \in {-1, 1} : ClockJump(d)) \/ UNCHANGED vars
  BY <1>2, <1>12 DEF ClockJump, memoryVars, vars
<1> QED
  BY <1>4, <1>5, <1>6, <1>7, <1>8, <1>9, <1>10, <1>11, <1>12 DEF Next, User

\* A command that arrives while the phone is connected or trying to, a lost socket, a
\* retry or a setting leaves the end of the window where it was, or brings it forward.
THEOREM WindowsAreBounded == Spec => NoWindowIsExtended
<1>1. AgentInv /\ [Next]_vars =>
        [agent'.deadline > agent.deadline => ~ShouldConnect(agent) \/ agent.session # None]_vars
  <2> SUFFICES ASSUME AgentInv, [Next]_vars, ShouldConnect(agent), agent.session = None
               PROVE  ~(agent'.deadline > agent.deadline)
    OBVIOUS
  <2>1. agent.deadline \in Nat
    BY DEF AgentInv, TypeOK
  <2>2. agent'.deadline \in Int
    <3>1. AgentInv'
      BY AgentStep
    <3> QED
      BY <3>1 DEF AgentInv, TypeOK
  <2> QED
    BY <2>1, <2>2, WindowStep
<1> QED
  BY <1>1, AgentIsSound, PTL DEF Spec, NoWindowIsExtended
===============================================================================
