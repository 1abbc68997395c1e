------------------------------ MODULE DeviceAgent ------------------------------
(***************************************************************************)
(* The Android agent: when it may be connected, and what wakes it          *)
(* (AgentController, AgentConnectionManager, ConnectionPolicy,             *)
(* DeviceWebSocketClient, DeviceConfigStore, WakeProtocol, WakeNonces).    *)
(*                                                                         *)
(* All of it runs on the main thread, so an action is one callback: of the *)
(* user, of the system, of a timer, or of an event that a socket's reader  *)
(* thread has posted.  Preferences are committed when they are written and *)
(* survive the process; everything else is lost with it.                   *)
(*                                                                         *)
(* Times are kept as what is left of them, in ticks.  elapsedRealtime runs *)
(* with Tick only; the wall clock, by which commands expire, may be set at *)
(* any time.  A timer fires once its delay has passed, or later: a Handler *)
(* does not count the time the phone sleeps.  A callback takes less than a *)
(* tick, but it reads elapsedRealtime more than once: a deadline of which  *)
(* one tick is left may pass between two of these reads.                   *)
(*                                                                         *)
(* A definition marked "Faulty" is used by no action.                      *)
(***************************************************************************)
EXTENDS Integers, Sequences, FiniteSets

CONSTANTS
    Commands,       \* signed commands, by their nonces
    Sockets,        \* the sockets of the process
    Sessions,       \* remote sessions the server starts
    None,           \* no socket, session, command or timer
    Window,         \* ticks of INITIAL_WINDOW_MS (ten minutes)
    Grace,          \* ticks of GRACE_WINDOW_MS (five minutes)
    Period,         \* ticks after which the deadline is looked at again (five minutes)
    Validity,       \* ticks a command is valid for (WAKE_TTL_SECONDS, ten minutes)
    MaxNonces,      \* nonces that are remembered (128)
    MaxPairings,    \* bound on pairings
    MaxJumps,       \* bound on the times the wall clock is set
    MaxInbox        \* bound on the events posted and not handled

ASSUME AgentAssumption ==
    /\ Window \in Nat \ {0} /\ Grace \in Nat \ {0} /\ Period \in Nat \ {0}
    /\ Validity \in Nat \ {0} /\ MaxNonces \in Nat
    /\ MaxPairings \in Nat /\ MaxJumps \in Nat /\ MaxInbox \in Nat
    /\ None \notin Commands \cup Sockets \cup Sessions \cup Int

VARIABLES
    prefs,          \* the preferences (DeviceConfigStore)
    pairings,       \* devices the server has created for this phone
    issuedFor,      \* the device each command was signed for, 0 while there is none
    left,           \* ticks until a command expires, by the phone's clock
    jumps,          \* times the wall clock was set
    service,        \* the accessibility service runs
    pendingWake,    \* the command that waits for the service, and the rest of its window
    agent,          \* the service's connection manager, policy and client
    phase,          \* the sockets: up, or dying with its reader still at work
    inbox,          \* events posted to the main thread and not handled
    opened,         \* history: commands that opened a connection window
    reopened,       \* history: commands that opened a second one
    lapsed          \* history: commands that were expired by the phone's clock

memoryVars == <<service, pendingWake, agent, phase, inbox>>
wakeVars == <<issuedFor, left, jumps, lapsed>>
windowVars == <<opened, reopened>>
vars == <<prefs, pairings, issuedFor, left, jumps, service, pendingWake, agent, phase,
          inbox, opened, reopened, lapsed>>

Kinds == {"registered", "start", "end", "lost", "invalid"}
Event == [socket : Sockets, kind : Kinds, session : Sessions]
Prefs == [device : 0 .. MaxPairings, keep : BOOLEAN, paused : BOOLEAN,
          invalid : BOOLEAN, wakeKey : BOOLEAN, nonces : SUBSET Commands]
Agent == [persistent : BOOLEAN, active : BOOLEAN, deadline : Int,
          client : BOOLEAN, socket : Sockets \cup {None}, registered : BOOLEAN,
          session : Sessions \cup {None}, timer : Int \cup {None},
          retry : BOOLEAN, waiting : BOOLEAN,
          late : BOOLEAN]   \* history: a deadline of this client passed within a callback

NoPrefs == [device |-> 0, keep |-> FALSE, paused |-> FALSE, invalid |-> FALSE,
            wakeKey |-> FALSE, nonces |-> {}]
NoWake == [command |-> None, left |-> 0]
NewAgent(keep) ==
    [persistent |-> keep, active |-> FALSE, deadline |-> 0, client |-> FALSE,
     socket |-> None, registered |-> FALSE, session |-> None, timer |-> None,
     retry |-> FALSE, waiting |-> FALSE, late |-> FALSE]

Least(m, n) == IF m <= n THEN m ELSE n
Most(m, n) == IF m <= n THEN n ELSE m

TypeOK ==
    /\ prefs \in Prefs
    /\ pairings \in 0 .. MaxPairings
    /\ issuedFor \in [Commands -> 0 .. MaxPairings]
    /\ left \in [Commands -> -1 .. Validity + 1]
    /\ jumps \in 0 .. MaxJumps
    /\ service \in BOOLEAN
    /\ pendingWake \in [command : Commands \cup {None}, left : 0 .. Window]
    /\ agent \in Agent
    /\ agent.deadline \in 0 .. Most(Window, Grace)
    /\ agent.timer \in 0 .. Period \cup {None}
    /\ phase \in [Sockets -> {"none", "up", "dying"}]
    /\ inbox \in Seq(Event)
    /\ opened \in SUBSET Commands /\ reopened \in SUBSET opened /\ lapsed \in SUBSET Commands

Init ==
    /\ prefs = NoPrefs
    /\ pairings = 0
    /\ issuedFor = [c \in Commands |-> 0]
    /\ left = [c \in Commands |-> -1]
    /\ jumps = 0
    /\ service = FALSE
    /\ pendingWake = NoWake
    /\ agent = NewAgent(FALSE)
    /\ phase = [k \in Sockets |-> "none"]
    /\ inbox = <<>>
    /\ opened = {} /\ reopened = {} /\ lapsed = {}

-------------------------------------------------------------------------------
(* The policy and the connection manager, as functions of its state a.  A  *)
(* helper that may connect is given the socket k that newWebSocket returns *)

\* A deadline of 0 is none, or one that has passed.
ShouldConnect(a) == a.persistent \/ a.active \/ a.deadline > 0

\* A pairing is stored, control is not paused and the credentials are not refused.
Usable(p) == p.device # 0 /\ ~p.paused /\ ~p.invalid
Allowed(a, p) == ~p.paused /\ ~p.invalid /\ ShouldConnect(a)

\* The reads of the clock in a callback that starts with rest left until the deadline,
\* by what they are for, and the one before which the deadline passes.
Reads == {"refresh", "connect", "schedule"}
Passes(rest) == {"never"} \cup (IF rest = 1 THEN Reads ELSE {})

\* a, when the clock is read: the deadline has passed if it does so before this read.
At(read, when, a) ==
    IF when = read /\ a.deadline > 0 THEN [a EXCEPT !.deadline = 0, !.late = TRUE] ELSE a

\* scheduleDeadline, which leaves no timer once the deadline has passed
Scheduled(a, when) ==
    LET b == At("schedule", when, a)
    IN  [b EXCEPT !.timer = IF ~ShouldConnect(b) THEN None
                            ELSE IF b.deadline = 0 THEN Period
                            ELSE Least(b.deadline, Period)]

ChangedMode(a, keep) ==
    IF a.persistent = keep THEN a ELSE [a EXCEPT !.persistent = keep, !.deadline = 0]

\* stop: the policy forgets its window, and nothing is left to fire.  The app says that
\* it is waiting only where it is on demand and usable.
Stopped(a) == NewAgent(a.persistent)
Idle(a) == [Stopped(a) EXCEPT !.waiting = TRUE]

\* client.connect()
Connected(a, p, k, when) ==
    LET b == At("connect", when, a)
    IN  IF b.socket # None \/ ~Allowed(b, p) THEN b
        ELSE [b EXCEPT !.socket = k, !.registered = FALSE]

\* refresh: what the preferences and the policy ask for.  A client that it makes is left
\* without a socket if the deadline passes before connect looks.
Refreshed(a, p, k, when) ==
    LET m == At("refresh", when, ChangedMode(a, p.keep))
        made == [m EXCEPT !.client = TRUE, !.waiting = FALSE]
    IN  IF ~Usable(p) THEN Stopped(m)
        ELSE IF ~ShouldConnect(m) THEN Idle(m)
        ELSE IF m.client THEN Scheduled(m, when)
        ELSE Scheduled(Connected(made, p, k, when), when)

SessionStarted(a, s) ==
    Scheduled([a EXCEPT !.active = TRUE, !.deadline = 0, !.session = s, !.waiting = FALSE],
              "never")

\* endRemoteSession: a session that ends leaves a window of grace.
SessionEnded(a) ==
    IF a.session = None THEN a
    ELSE Scheduled([a EXCEPT !.session = None, !.active = FALSE,
                             !.deadline = IF a.persistent THEN 0 ELSE Grace], "never")

\* A command opens a window only if there is none, in what is left of it since its receipt.
OpensWindow(a, p, rest) == Usable(p) /\ rest > 0 /\ ~ShouldConnect(a)
Woken(a, p, rest, k, when) ==
    IF OpensWindow(a, p, rest) THEN Refreshed([a EXCEPT !.deadline = rest], p, k, when) ELSE a

\* transportLost
Lost(a, p, when) ==
    LET b == SessionEnded([a EXCEPT !.socket = None, !.registered = FALSE])
    IN  IF Allowed(b, p) THEN Scheduled([b EXCEPT !.retry = TRUE, !.waiting = FALSE], when)
        ELSE Refreshed(b, p, None, when)

-------------------------------------------------------------------------------
(* Sockets and the events of their readers                                 *)

\* A socket that is neither in use nor named by an event still posted.
Free == {k \in Sockets : phase[k] = "none" /\ \A i \in DOMAIN inbox : inbox[i].socket # k}

\* The connection manager becomes b, having closed a socket; events are what is left to
\* handle.  A client that connects, is disconnected or lost its socket drops its events.
Becomes(b, closed, events) ==
    /\ agent' = b
    /\ phase' = [k \in Sockets |-> IF k = closed THEN "dying"
                                   ELSE IF k = b.socket /\ k # agent.socket THEN "up"
                                   ELSE phase[k]]
    /\ inbox' = IF b.client = agent.client /\ b.socket = agent.socket THEN events ELSE <<>>

\* client.disconnect() of a manager that becomes b
ClosedBy(b) == IF b.client THEN None ELSE agent.socket
AgentBecomes(b) == Becomes(b, ClosedBy(b), inbox)

\* AgentController.refresh with the service running
Controlled(a, p, k, when) ==
    IF Usable(p) THEN Refreshed(a, p, k, when) ELSE Stopped(a)
Controls(p, k, when) == IF service THEN Controlled(agent, p, k, when) ELSE agent

\* The reader of a socket posts what the server sent, also while it is being closed.
Says(k, kind, s) ==
    /\ phase[k] # "none"
    /\ Len(inbox) < MaxInbox
    /\ kind \in {"registered", "start", "end"}
    /\ inbox' = Append(inbox, [socket |-> k, kind |-> kind, session |-> s])
    /\ UNCHANGED <<prefs, pairings, wakeVars, service, pendingWake, agent, phase, windowVars>>

\* onClosing, onClosed and onFailure: a socket that was closing may be lost once more.
Breaks(k, kind, s) ==
    /\ phase[k] # "none"
    /\ Len(inbox) < MaxInbox
    /\ kind \in {"lost", "invalid"}
    /\ phase' = [phase EXCEPT ![k] = IF @ = "up" THEN "dying" ELSE "none"]
    /\ inbox' = Append(inbox, [socket |-> k, kind |-> kind, session |-> s])
    /\ UNCHANGED <<prefs, pairings, wakeVars, service, pendingWake, agent, windowVars>>

\* A socket that was closed or lost ends without another event.
Vanishes(k) ==
    /\ phase[k] = "dying"
    /\ phase' = [phase EXCEPT ![k] = "none"]
    /\ UNCHANGED <<prefs, pairings, wakeVars, service, pendingWake, agent, inbox, windowVars>>

\* Faulty: an event of a socket that was given up counts for the one that replaced it.
CurrentClient(k) == agent.client
Current(k) == agent.client /\ k = agent.socket

\* handleMessage and lost, on the main thread: none of them connects at once.
HandleEvent ==
    /\ inbox # <<>>
    /\ \E when \in Passes(agent.deadline) :
       LET e == Head(inbox)
           live == agent.registered /\ Allowed(agent, prefs)
           b == IF ~Current(e.socket) THEN agent
                ELSE CASE e.kind = "registered" ->
                            [agent EXCEPT !.registered = TRUE, !.waiting = FALSE]
                       [] e.kind = "start" /\ live /\ e.session # agent.session ->
                            SessionStarted(agent, e.session)
                       [] e.kind = "end" /\ live /\ e.session = agent.session ->
                            [SessionEnded(agent) EXCEPT !.waiting = FALSE]
                       [] e.kind = "lost" -> Lost(agent, prefs, when)
                       [] e.kind = "invalid" -> Stopped(agent)
                       [] OTHER -> agent
       IN  /\ Becomes(b, None, Tail(inbox))
           /\ prefs' = [prefs EXCEPT !.invalid = @ \/ (Current(e.socket) /\ e.kind = "invalid")]
    /\ UNCHANGED <<pairings, wakeVars, service, pendingWake, windowVars>>

-------------------------------------------------------------------------------
(* Wake commands *)

\* The server signs a command for a device it has created (create_wake_message).
Issue(c, d) ==
    /\ issuedFor[c] = 0
    /\ d \in 1 .. pairings
    /\ issuedFor' = [issuedFor EXCEPT ![c] = d]
    /\ left' = [left EXCEPT ![c] = Validity]
    /\ UNCHANGED <<prefs, pairings, jumps, memoryVars, windowVars, lapsed>>

\* WakeProtocol.verify, and what receiveWake checks before
Verified(c) ==
    /\ Usable(prefs)
    /\ prefs.wakeKey
    /\ issuedFor[c] = prefs.device
    /\ left[c] \in 1 .. Validity

\* WakeNonces.consume: nonces that expired are dropped.
LiveNonces == {n \in prefs.nonces : left[n] > 0}
Consumable(c) == c \notin LiveNonces /\ Cardinality(LiveNonces) < MaxNonces

\* A command opens a connection window.
Opens(c) ==
    /\ opened' = opened \cup {c}
    /\ reopened' = IF c \in opened THEN reopened \cup {c} ELSE reopened

Consumes(c) ==
    /\ Verified(c)
    /\ Consumable(c)
    /\ prefs' = [prefs EXCEPT !.nonces = LiveNonces \cup {c}]

\* receiveWake with the service running: activate
ReceiveWake(c, k) ==
    /\ service
    /\ Consumes(c)
    /\ AgentBecomes(Woken(agent, prefs, Window, k, "never"))
    /\ IF OpensWindow(agent, prefs, Window) THEN Opens(c) ELSE UNCHANGED windowVars
    /\ UNCHANGED <<pairings, wakeVars, service, pendingWake>>

\* receiveWake in a process whose service has not started yet
ReceiveWakeEarly(c) ==
    /\ ~service
    /\ Consumes(c)
    /\ pendingWake' = IF pendingWake = NoWake THEN [command |-> c, left |-> Window]
                      ELSE pendingWake
    /\ UNCHANGED <<pairings, wakeVars, service, agent, phase, inbox, windowVars>>

\* The delayed callback that drops it
PendingExpires ==
    /\ pendingWake # NoWake
    /\ pendingWake.left = 0
    /\ pendingWake' = NoWake
    /\ UNCHANGED <<prefs, pairings, wakeVars, service, agent, phase, inbox, windowVars>>

-------------------------------------------------------------------------------
(* The service and the user *)

\* onServiceConnected: refresh, then the command that waited
Attach(k) ==
    /\ ~service
    /\ service' = TRUE
    /\ LET a == Controlled(NewAgent(prefs.keep), prefs, k, "never")
       IN  /\ \E when \in Passes(pendingWake.left) :
                AgentBecomes(Woken(a, prefs, pendingWake.left, k, when))
           /\ IF OpensWindow(a, prefs, pendingWake.left)
              THEN Opens(pendingWake.command) ELSE UNCHANGED windowVars
    /\ pendingWake' = NoWake
    /\ UNCHANGED <<prefs, pairings, wakeVars>>

\* onDestroy
Detach ==
    /\ service
    /\ service' = FALSE
    /\ AgentBecomes(NewAgent(FALSE))
    /\ UNCHANGED <<prefs, pairings, wakeVars, pendingWake, windowVars>>

\* onInterrupt: control stops; the service stays.
Interrupt ==
    /\ service
    /\ AgentBecomes(Stopped(agent))
    /\ UNCHANGED <<prefs, pairings, wakeVars, service, pendingWake, windowVars>>

\* The app is opened, or a configuration request was answered without a key.
Refresh(k) ==
    /\ service
    /\ \E when \in Passes(agent.deadline) : AgentBecomes(Controlled(agent, prefs, k, when))
    /\ UNCHANGED <<prefs, pairings, wakeVars, service, pendingWake, windowVars>>

\* A configuration request was answered with the wake key: saveWakeKey.
SaveWakeKey(k) ==
    /\ prefs.device # 0 /\ ~prefs.paused
    /\ prefs' = [prefs EXCEPT !.wakeKey = TRUE]
    /\ \E when \in Passes(agent.deadline) : AgentBecomes(Controls(prefs', k, when))
    /\ UNCHANGED <<pairings, wakeVars, service, pendingWake, windowVars>>

SetKeepConnected(k) ==
    /\ prefs' = [prefs EXCEPT !.keep = ~@]
    /\ AgentBecomes(Controls(prefs', k, "never"))
    /\ UNCHANGED <<pairings, wakeVars, service, pendingWake, windowVars>>

\* The dialog that the app shows while it waits, confirmed
ConnectManually(k) ==
    /\ service
    /\ agent.waiting /\ ~agent.client /\ ~ShouldConnect(agent)
    /\ ~prefs.keep /\ Usable(prefs)
    /\ AgentBecomes(Refreshed([agent EXCEPT !.deadline = Window], prefs, k, "never"))
    /\ UNCHANGED <<prefs, pairings, wakeVars, service, pendingWake, windowVars>>

\* Pair with a new device: stopControl, save, refresh.
Pair(k) ==
    /\ pairings < MaxPairings
    /\ pairings' = pairings + 1
    /\ prefs' = [prefs EXCEPT !.device = pairings', !.invalid = FALSE,
                              !.wakeKey = FALSE, !.nonces = {}]
    /\ Becomes(IF service THEN Controlled(Stopped(agent), prefs', k, "never") ELSE agent,
               agent.socket, inbox)
    /\ pendingWake' = NoWake
    /\ UNCHANGED <<wakeVars, service, windowVars>>

\* Faulty: the command that waits for the service survives the pause.
PauseKeepingWake(k) ==
    /\ prefs' = [prefs EXCEPT !.paused = ~@]
    /\ AgentBecomes(Controls(prefs', k, "never"))
    /\ UNCHANGED <<pairings, wakeVars, service, pendingWake, windowVars>>

\* Pause, or resume
Pause(k) ==
    /\ prefs' = [prefs EXCEPT !.paused = ~@]
    /\ AgentBecomes(Controls(prefs', k, "never"))
    /\ pendingWake' = NoWake
    /\ UNCHANGED <<pairings, wakeVars, service, windowVars>>

\* The local configuration is removed.
Clear ==
    /\ prefs' = NoPrefs
    /\ AgentBecomes(Stopped(agent))
    /\ pendingWake' = NoWake
    /\ UNCHANGED <<pairings, wakeVars, service, windowVars>>

-------------------------------------------------------------------------------
(* Timers, clocks and the process *)

\* Faulty: a deadline that is still ahead is not looked at again.
TimerFiresOnce ==
    /\ service
    /\ agent.timer = 0
    /\ AgentBecomes(IF ShouldConnect(agent) THEN [agent EXCEPT !.timer = None]
                    ELSE Refreshed([agent EXCEPT !.timer = None], prefs, None, "never"))
    /\ UNCHANGED <<prefs, pairings, wakeVars, service, pendingWake, windowVars>>

\* The callback of scheduleDeadline looks at the deadline, and scheduleDeadline once more.
TimerFires ==
    /\ service
    /\ agent.timer = 0
    /\ \E when \in Passes(agent.deadline) :
         AgentBecomes(IF ShouldConnect(agent) THEN Scheduled(agent, when)
                      ELSE Refreshed([agent EXCEPT !.timer = None], prefs, None, "never"))
    /\ UNCHANGED <<prefs, pairings, wakeVars, service, pendingWake, windowVars>>

\* The callback of transportLost, after a delay of at most 30 seconds
RetryFires(k) ==
    /\ agent.retry
    /\ LET a == [agent EXCEPT !.retry = FALSE]
       IN  \E when \in Passes(agent.deadline) :
             AgentBecomes(IF Allowed(a, prefs) THEN Connected(a, prefs, k, when)
                          ELSE Refreshed(a, prefs, k, when))
    /\ UNCHANGED <<prefs, pairings, wakeVars, service, pendingWake, windowVars>>

Before(n) == Most(n - 1, 0)

\* What is left of each command once the wall clock shows d more; what is long expired
\* and what is not valid yet are not told apart further.
LeftAfter(d) == [c \in Commands |-> Least(Most(left[c] - d, -1), Validity + 1)]
Expired(rest) == {c \in Commands : issuedFor[c] # 0 /\ rest[c] <= 0}

\* A tick of both clocks, with the phone awake
Tick ==
    /\ left' = LeftAfter(1)
    /\ lapsed' = lapsed \cup Expired(left')
    /\ pendingWake' = [pendingWake EXCEPT !.left = Before(@)]
    /\ agent' = [agent EXCEPT !.deadline = Before(@),
                              !.timer = IF @ = None THEN None ELSE Before(@)]
    /\ UNCHANGED <<prefs, pairings, issuedFor, jumps, service, phase, inbox, windowVars>>

\* The wall clock is set, by the user or the network.
ClockJump(d) ==
    /\ jumps < MaxJumps
    /\ jumps' = jumps + 1
    /\ left' = LeftAfter(d)
    /\ lapsed' = lapsed \cup Expired(left')
    /\ UNCHANGED <<prefs, pairings, issuedFor, memoryVars, windowVars>>

\* The process is killed, or the phone restarts.
Dies ==
    /\ service' = FALSE
    /\ pendingWake' = NoWake
    /\ agent' = NewAgent(FALSE)
    /\ phase' = [k \in Sockets |-> "none"]
    /\ inbox' = <<>>

ProcessDies ==
    /\ Dies
    /\ UNCHANGED <<prefs, pairings, wakeVars, windowVars>>

\* Faulty: the nonce is committed after the connection was opened.
DiesActivating(c) ==
    /\ Verified(c) /\ Consumable(c)
    /\ Opens(c)
    /\ Dies
    /\ UNCHANGED <<prefs, pairings, wakeVars>>

\* The process dies between the commit of the nonce and the connection.
DiesWaking(c) ==
    /\ Consumes(c)
    /\ Dies
    /\ UNCHANGED <<pairings, wakeVars, windowVars>>

SocketEvent ==
    \E k \in Sockets :
        \/ \E kind \in Kinds, s \in Sessions : Says(k, kind, s) \/ Breaks(k, kind, s)
        \/ Vanishes(k)

Wake ==
    \/ \E c \in Commands, d \in 1 .. MaxPairings : Issue(c, d)
    \/ \E c \in Commands : ReceiveWakeEarly(c) \/ DiesWaking(c)
    \/ \E c \in Commands, k \in Free : ReceiveWake(c, k)

User == \E k \in Free :
    Refresh(k) \/ SaveWakeKey(k) \/ SetKeepConnected(k) \/ ConnectManually(k) \/ Pair(k) \/ Pause(k)

Next ==
    \/ \E k \in Free : RetryFires(k) \/ Attach(k)
    \/ HandleEvent \/ SocketEvent \/ Wake \/ User
    \/ Clear \/ Detach \/ Interrupt \/ PendingExpires
    \/ TimerFires \/ Tick \/ ProcessDies
    \/ \E d \in {-1, 1} : ClockJump(d)

Spec == Init /\ [][Next]_vars

\* Time passes, and the main thread gets to a timer that is due.
FairSpec == Spec /\ WF_vars(Tick) /\ WF_vars(TimerFires)

\* It gets to everything that is due or posted.
LiveSpec == FairSpec /\ WF_vars(\E k \in Free : RetryFires(k)) /\ WF_vars(HandleEvent)

-------------------------------------------------------------------------------
(* What makes it correct *)

\* A command opens a connection window once, across restarts and whichever way it came;
\* only one that had expired may do so again, when the clock was set back after its
\* nonce was dropped (WakeNonces, consumeWakeNonce).
ActivatesOnce == reopened \subseteq lapsed

\* No socket is left open beside the one in use: what was given up is closed or broken,
\* and its late events are not taken for those of its successor (connect, current, lost).
OneSocket == \A k \in Sockets : phase[k] = "up" => k = agent.socket

\* Without a pairing, paused or refused, the phone is not connected, runs no session and
\* has nothing scheduled that would connect it (stopControl, stop, pause, clear).
StoppedIsQuiet ==
    ~Usable(prefs) =>
        /\ ~agent.client /\ agent.socket = None /\ agent.session = None
        /\ agent.timer = None /\ ~agent.retry
        /\ pendingWake = NoWake
        /\ \A k \in Sockets : phase[k] # "up"

\* A client that may connect has a timer that is due no later than its window ends; and
\* unless a deadline passed within one of its callbacks, it always has one, and a socket
\* or a retry: it neither outlives the window nor is it stranded (scheduleDeadline,
\* transportLost).  A session is on a registered socket, and the policy knows of it.
Sound(a) ==
    /\ a.active <=> a.session # None
    /\ a.session # None => a.registered
    /\ a.registered => a.socket # None
    /\ a.persistent \/ a.active => a.deadline = 0
    /\ a.client =>
        /\ ~a.waiting
        /\ ShouldConnect(a) \/ ~a.late => a.timer # None
        /\ a.deadline > 0 => a.timer <= a.deadline
        /\ a.retry => a.socket = None
        /\ ~a.late => (a.socket = None <=> a.retry)
    /\ ~a.client => a.deadline = 0 /\ a.timer = None /\ a.socket = None /\ ~a.retry

Loss(i) == inbox[i].kind \in {"lost", "invalid"}

\* A socket that broke is told of once, and only then: a client neither waits for the
\* answers of a broken socket nor gives up a live one.
LossesAreTold ==
    /\ agent.socket # None /\ phase[agent.socket] # "up" =>
            \E i \in DOMAIN inbox : Loss(i) /\ inbox[i].socket = agent.socket
    /\ \A i \in DOMAIN inbox : Loss(i) => phase[inbox[i].socket] # "up"

\* The inductive invariant: the agent is sound and connected only as its preferences
\* allow, its sockets are those it knows of, and a command waits only for the service.
AgentInv ==
    /\ TypeOK
    /\ Sound(agent)
    /\ agent.client => service /\ Usable(prefs) /\ agent.persistent = prefs.keep
    /\ ~service => agent = NewAgent(FALSE)
    /\ OneSocket
    /\ LossesAreTold
    /\ pendingWake # NoWake => ~service /\ Usable(prefs) /\ pendingWake.command # None

OnDemandWithoutSession == agent.client /\ ~agent.persistent /\ agent.session = None
WindowIsOver == ~agent.client \/ agent.persistent \/ agent.session # None

\* Without a session, the connection of an agent on demand ends with its window, whatever
\* the network does, and unless the user or a command that is still valid asks for it; or
\* the window ended between two reads of the clock.
WindowEnds == OnDemandWithoutSession ~> (WindowIsOver \/ agent.late)

\* Server/docs/wake-activation.md: "Without a session, the agent closes the socket and
\* stops retrying" when its window ends.
WindowAlwaysEnds == OnDemandWithoutSession ~> WindowIsOver
===============================================================================
