---------------------------- MODULE PowerMonitor ----------------------------
(***************************************************************************)
(* The scheduler daemon's power monitor (src/bin/scheduler/power_monitor.rs*)
(* and the main loop of src/bin/scheduler/main.rs) together with the part  *)
(* of systemd-logind it talks to.                                          *)
(*                                                                         *)
(* logind announces every suspend and every shutdown with a D-Bus signal,  *)
(* waits until nobody holds a "delay" inhibitor lock (or until its own     *)
(* delay limit has passed), lets the machine go down, and announces the    *)
(* return with the same signal carrying FALSE.  The daemon holds one such  *)
(* lock, runs its callback when it hears an announcement, and then lets go *)
(* of the lock by closing its file descriptor.                             *)
(*                                                                         *)
(* D-Bus delivers in order, and a connection dispatches one message at a   *)
(* time: queue is the daemon's incoming queue, and while pc is inside a    *)
(* handler the message being handled is still Head(queue).                 *)
(***************************************************************************)
EXTENDS Naturals, Sequences

CONSTANT MaxOps   \* bound: suspends and shutdowns logind starts in a behaviour

ASSUME MaxOpsAssumption == MaxOps \in Nat

VARIABLES
  power,      \* what logind and the kernel are doing with the machine
  op,         \* number of the latest suspend or shutdown
  queue,      \* D-Bus signals the daemon's connection has not finished with
  pc,         \* where the daemon is
  matches,    \* the signals the daemon's connection is subscribed to
  inhibitor,  \* PowerMonitor.inhibitor is Some(fd): the delay lock is held
  sigterm,    \* the flag main's SIGTERM hook sets
  \* History variables, read by the properties only:
  held,       \* the lock was held when op was announced, by this same process
  settled,    \* and no older announcement was still waiting in queue
  told,       \* the callback has returned for the announcement of op
  lost,       \* the lock is gone for a reason other than a suspend
  \* logind's delay limit, InhibitDelayMaxSec:
  expired     \* it has passed for op

machine == <<power, op, expired>>
daemon  == <<pc, matches, inhibitor, sigterm>>
history == <<held, settled, told, lost>>
vars    == <<power, op, expired, queue, pc, matches, inhibitor, sigterm,
             held, settled, told, lost>>

Members == {"PrepareForSleep", "PrepareForShutdown"}

Signals == [member : Members, arg0 : BOOLEAN, op : Nat]

Signal(m, b) == [member |-> m, arg0 |-> b, op |-> op]

PowerStates == {"up", "sleepDelay", "asleep", "resuming",
                "shutdownDelay", "stopping", "off"}

Handlers == {"callback", "release", "retake"}
Startup  == {"matchSleep", "matchShutdown", "lock", "hook"}
Idle     == {"loop", "process"}
PCs      == {"dead"} \cup Startup \cup Idle \cup Handlers

InDelay == power \in {"sleepDelay", "shutdownDelay"}
Down    == power \in {"asleep", "resuming", "stopping", "off"}
Awake   == power \notin {"asleep", "off"}      \* a suspended machine runs nothing

Init ==
  /\ power = "up" /\ op = 0 /\ expired = FALSE
  /\ queue = <<>>
  /\ pc = "dead" /\ matches = {} /\ inhibitor = FALSE /\ sigterm = FALSE
  /\ held = FALSE /\ settled = FALSE /\ told = FALSE /\ lost = FALSE

-----------------------------------------------------------------------------
(* logind and the kernel.                                                  *)

\* What the monitor's connection receives when logind broadcasts m(b).
Broadcast(m, sig) ==
  queue' = IF pc # "dead" /\ m \in matches THEN Append(queue, sig) ELSE queue

\* logind accepts a suspend or a shutdown when it has nothing else under way.
Announce(m, delay) ==
  /\ power = "up" /\ op < MaxOps
  /\ power' = delay
  /\ op' = op + 1
  /\ expired' = FALSE
  /\ Broadcast(m, [member |-> m, arg0 |-> TRUE, op |-> op + 1])
  /\ held' = inhibitor
  /\ settled' = \A i \in DOMAIN queue : ~queue[i].arg0
  /\ told' = FALSE
  /\ UNCHANGED <<daemon, lost>>

RequestSleep    == Announce("PrepareForSleep", "sleepDelay")
RequestShutdown == Announce("PrepareForShutdown", "shutdownDelay")

\* InhibitDelayMaxSec passes while the lock is still held.
DelayExpires ==
  /\ InDelay /\ inhibitor
  /\ expired' = TRUE
  /\ UNCHANGED <<power, op, queue, daemon, history>>

GoDown(delay, down) ==
  /\ power = delay
  /\ inhibitor => expired
  /\ power' = down
  /\ UNCHANGED <<op, expired, queue, daemon, history>>

GoToSleep  == GoDown("sleepDelay", "asleep")
BeginStop  == GoDown("shutdownDelay", "stopping")

Wake ==
  /\ power = "asleep"
  /\ power' = "resuming"
  /\ UNCHANGED <<op, expired, queue, daemon, history>>

\* The operation is over: after a suspend always, after a shutdown only when
\* it was called off while systemd was stopping units.
Finish(from, m) ==
  /\ power = from
  /\ power' = "up"
  /\ Broadcast(m, Signal(m, FALSE))
  /\ UNCHANGED <<op, expired, daemon, history>>

Resumed == Finish("resuming", "PrepareForSleep")
Aborted == Finish("stopping", "PrepareForShutdown")

-----------------------------------------------------------------------------
(* The daemon's life.                                                      *)

\* The process is gone: the kernel closes its connection and its lock.
Exit ==
  /\ pc' = "dead" /\ matches' = {} /\ inhibitor' = FALSE /\ sigterm' = FALSE
  /\ queue' = <<>>
  /\ held' = FALSE /\ lost' = FALSE
  /\ UNCHANGED <<machine, settled, told>>

\* A panic, a lost D-Bus connection (main's `?`), a failed signal hook or an
\* outside kill.
Crash == Awake /\ pc # "dead" /\ Exit

Start ==
  /\ pc = "dead" /\ power \notin {"asleep", "stopping", "off"}
  /\ pc' = "matchSleep"
  /\ UNCHANGED <<machine, queue, matches, inhibitor, sigterm, history>>

\* systemd stops the service: before main's hook is installed the signal kills.
Sigterm ==
  /\ power = "stopping" /\ pc # "dead" /\ ~sigterm
  /\ IF pc \in Startup
     THEN Exit
     ELSE /\ sigterm' = TRUE
          /\ UNCHANGED <<machine, queue, pc, matches, inhibitor, history>>

PowerOff ==
  /\ power = "stopping" /\ pc = "dead"
  /\ power' = "off"
  /\ UNCHANGED <<op, expired, queue, daemon, history>>

Boot ==
  /\ power = "off"
  /\ power' = "up"
  /\ UNCHANGED <<op, expired, queue, daemon, history>>

-----------------------------------------------------------------------------
(* Start-up: PowerMonitor::register.                                       *)

\* match_signal's Result is discarded: a failure leaves the daemon deaf to m.
RegisterMatch(at, m, next) ==
  /\ Awake /\ pc = at
  /\ pc' = next
  /\ \E ok \in BOOLEAN : matches' = IF ok THEN matches \cup {m} ELSE matches
  /\ UNCHANGED <<machine, queue, inhibitor, sigterm, history>>

RegisterSleep    == RegisterMatch("matchSleep", "PrepareForSleep", "matchShutdown")
RegisterShutdown == RegisterMatch("matchShutdown", "PrepareForShutdown", "lock")

\* The Inhibit call.  logind grants no delay lock while it is carrying out an
\* operation, and a call may also time out (PROXY_TIMEOUT) or be denied.
InhibitOutcomes == IF power = "up" THEN BOOLEAN ELSE {FALSE}

\* A failed Inhibit is a lasting loss unless a suspend is under way, whose
\* end the daemon will hear of.
LossOf(granted) ==
  ~granted /\ power \notin {"sleepDelay", "asleep", "resuming"}

\* Seeded fault: the lock is taken before the matches are registered.
FaultLockFirst ==
  /\ Awake /\ pc = "matchSleep"
  /\ \E granted \in InhibitOutcomes :
       /\ inhibitor' = granted
       /\ pc' = IF granted THEN "matchShutdown" ELSE "dead"
  /\ UNCHANGED <<machine, queue, matches, sigterm, history>>

\* register() returns the error of take_inhibitor, and so does main.
StartupLock ==
  /\ Awake /\ pc = "lock"
  /\ \E granted \in InhibitOutcomes :
       IF granted
       THEN /\ inhibitor' = TRUE
            /\ pc' = "hook"
            /\ lost' = FALSE
            /\ UNCHANGED <<machine, queue, matches, sigterm, held, settled, told>>
       ELSE Exit

HookSigterm ==
  /\ Awake /\ pc = "hook"
  /\ pc' = "loop"
  /\ UNCHANGED <<machine, queue, matches, inhibitor, sigterm, history>>

-----------------------------------------------------------------------------
(* Handlers: the two closures of register_signal_matchers.                 *)

Current == Head(queue)

\* main's loop reads the flag, and only then enters conn.process.
CheckFlag ==
  /\ Awake /\ pc = "loop"
  /\ IF sigterm
     THEN Exit
     ELSE /\ pc' = "process"
          /\ UNCHANGED <<machine, queue, matches, inhibitor, sigterm, history>>

\* conn.process returns after its timeout when no message came.
ProcessTimesOut ==
  /\ Awake /\ pc = "process" /\ queue = <<>>
  /\ pc' = "loop"
  /\ UNCHANGED <<machine, queue, matches, inhibitor, sigterm, history>>

\* Seeded fault: the lock is dropped before the callback is called.
FaultReleaseFirst ==
  /\ Awake /\ pc = "process" /\ queue # <<>>
  /\ pc' = "callback"
  /\ inhibitor' = (inhibitor /\ ~Current.arg0)
  /\ UNCHANGED <<machine, queue, matches, sigterm, history>>

\* It dispatches one message otherwise: PrepareForShutdown(false) is only
\* logged, every other signal has an event for the callback.
Dispatch ==
  /\ Awake /\ pc = "process" /\ queue # <<>>
  /\ IF Current.member = "PrepareForShutdown" /\ ~Current.arg0
     THEN pc' = "loop" /\ queue' = Tail(queue)
     ELSE pc' = "callback" /\ queue' = queue
  /\ UNCHANGED <<machine, matches, inhibitor, sigterm, history>>

\* Seeded faults: the lock is never taken again; it is never released.
FaultNoRetake(sig)  == "release"
FaultNoRelease(sig) == "retake"

\* What the handler does with the lock once the callback has returned.
AfterCallback(sig) == IF sig.arg0 THEN "release" ELSE "retake"

\* The callback returns normally whatever failed inside it: its errors are
\* logged in the callback.
CallbackReturns ==
  /\ Awake /\ pc = "callback"
  /\ pc' = AfterCallback(Current)
  /\ told' = (told \/ (Current.arg0 /\ Current.op = op))
  /\ UNCHANGED <<machine, queue, matches, inhibitor, sigterm, held, settled, lost>>

\* release_inhibitor: nothing to drop when there is no lock.
ReleaseInhibitor ==
  /\ Awake /\ pc = "release"
  /\ inhibitor' = FALSE
  /\ lost' = (lost \/ Current.member = "PrepareForShutdown")
  /\ pc' = "loop"
  /\ queue' = Tail(queue)
  /\ UNCHANGED <<machine, matches, sigterm, held, settled, told>>

\* take_inhibitor after a resume: a lock already held is kept without a call,
\* a failed call is logged and the daemon goes on without the lock.
TakeInhibitor ==
  /\ Awake /\ pc = "retake"
  /\ IF inhibitor
     THEN UNCHANGED <<inhibitor, lost>>
     ELSE \E granted \in InhibitOutcomes :
            /\ inhibitor' = granted
            /\ lost' = LossOf(granted)
  /\ pc' = "loop"
  /\ queue' = Tail(queue)
  /\ UNCHANGED <<machine, matches, sigterm, held, settled, told>>

-----------------------------------------------------------------------------
Logind ==
  \/ RequestSleep \/ RequestShutdown \/ DelayExpires \/ GoToSleep \/ BeginStop
  \/ Wake \/ Resumed \/ Aborted \/ PowerOff \/ Boot

Life == Crash \/ Start \/ Sigterm

Daemon ==
  \/ RegisterSleep \/ RegisterShutdown \/ StartupLock \/ HookSigterm
  \/ CheckFlag \/ ProcessTimesOut \/ Dispatch
  \/ CallbackReturns \/ ReleaseInhibitor \/ TakeInhibitor

Next == Logind \/ Life \/ Daemon

Spec == Init /\ [][Next]_vars

\* The daemon keeps running while it is alive, and logind acts once nothing
\* delays it.  Users, crashes and the delay limit owe nothing.
Fairness == WF_vars(Daemon) /\ WF_vars(GoToSleep) /\ WF_vars(BeginStop)

FairSpec == Spec /\ Fairness

-----------------------------------------------------------------------------
\* Types, and two facts about the daemon's shape: a handler runs with its
\* message in hand, and a lock is only ever held by a process that has passed
\* register()'s matcher registration.
TypeOK ==
  /\ power \in PowerStates /\ op \in Nat /\ expired \in BOOLEAN
  /\ queue \in Seq(Signals)
  /\ pc \in PCs /\ matches \in SUBSET Members
  /\ inhibitor \in BOOLEAN /\ sigterm \in BOOLEAN
  /\ held \in BOOLEAN /\ settled \in BOOLEAN
  /\ told \in BOOLEAN /\ lost \in BOOLEAN
  /\ pc \in Handlers => queue # <<>>
  /\ inhibitor => pc \in {"hook"} \cup Idle \cup Handlers

\* The promise of the delay lock: a suspend or shutdown announced while the
\* daemon held the lock and had no older announcement to work off does not
\* take the machine down before the callback has returned for it, unless
\* logind's limit ran out.
CallbackBeforeDown == Down /\ held /\ settled /\ ~expired => told

\* The same without the condition on older announcements, as the doc comment
\* of PowerMonitor puts it.
HeldLockDelays == Down /\ held /\ ~expired => told

\* The lock comes back: a daemon with nothing left to handle on a machine
\* that is up holds its lock again, through any number of suspends, late
\* signals and Inhibit calls refused because the next suspend had begun.
IdleHoldsLock ==
  pc \in Idle /\ queue = <<>> /\ power = "up" /\ ~lost => inhibitor

\* The same also after a shutdown that was called off.
IdleHoldsLockAlways ==
  pc \in Idle /\ queue = <<>> /\ power = "up" => inhibitor

\* The daemon never keeps the machine up on its own: even if the delay limit
\* never passes, a suspend it is subscribed to goes ahead.
SleepGoesAhead ==
  (power = "sleepDelay" /\ "PrepareForSleep" \in matches) ~> (power # "sleepDelay")

\* The same for a shutdown: the callback sets the alarm, the matcher lets go.
ShutdownGoesAhead ==
  (power = "shutdownDelay" /\ "PrepareForShutdown" \in matches)
    ~> (power # "shutdownDelay")

-----------------------------------------------------------------------------
(* The monitor implements the delay lock.                                  *)

Phase == IF power = "up" THEN "idle" ELSE IF InDelay THEN "announced" ELSE "down"

Promised == held /\ settled /\ ~expired

Lock == INSTANCE DelayLock
          WITH phase <- Phase, promised <- Promised, notified <- told

\* Every step of logind and of the daemon is a step of the delay lock or
\* changes nothing it can see: in particular a promise is never made after
\* the announcement, and going down under a promise follows the callback.
ImplementsDelayLock == Lock!Spec
=============================================================================
