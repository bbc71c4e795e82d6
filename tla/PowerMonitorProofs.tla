------------------------- MODULE PowerMonitorProofs -------------------------
(***************************************************************************)
(* Theorems about PowerMonitor, for every value of MaxOps.                 *)
(***************************************************************************)
EXTENDS PowerMonitor, SequenceTheorems, TLAPS

Suspending == power \in {"sleepDelay", "asleep", "resuming"}

Hears(i, b) == queue[i].member = "PrepareForSleep" /\ queue[i].arg0 = b

\* What is in the queue: only subscribed signals, none from the future, nothing
\* for a dead process, and in a handler the message the handler is for.
QueueInv ==
  /\ pc = "dead" => queue = <<>>
  /\ \A i \in 1..Len(queue) : queue[i].member \in matches /\ queue[i].op <= op
  /\ pc = "release" => queue[1].arg0 /\ (queue[1].op = op => told)
  /\ pc = "retake" => Hears(1, FALSE)
  /\ pc = "callback" /\ ~queue[1].arg0 => Hears(1, FALSE)

\* While a promised announcement waits for its callback, the lock is held and
\* nothing else in the queue makes the daemon let go of it.
CoverInv ==
  InDelay /\ Promised /\ ~told =>
    /\ inhibitor
    /\ \A i \in 1..Len(queue) : queue[i].arg0 => queue[i].op = op

\* A suspend the daemon has heard of is one whose end it will hear of.
PairInv ==
  \A i \in 1..Len(queue) : Hears(i, TRUE) =>
    Suspending \/ \E j \in 1..Len(queue) : i < j /\ Hears(j, FALSE)

\* A daemon that is without its lock and has not lost it for good is waiting
\* for the end of a suspend.
HealInv ==
  pc \in {"hook"} \cup Idle \cup Handlers /\ ~inhibitor /\ ~lost =>
    /\ "PrepareForSleep" \in matches
    /\ Suspending \/ \E i \in 1..Len(queue) : Hears(i, FALSE)

IInv == TypeOK /\ QueueInv /\ CoverInv /\ CallbackBeforeDown /\ PairInv /\ HealInv

-----------------------------------------------------------------------------
(* The two operations on the queue.                                        *)

\* Dispatching a message takes the first element and moves the others up.
LEMMA TailOfQueue ==
  ASSUME queue \in Seq(Signals), queue # <<>>
  PROVE  /\ Len(queue) \in Nat /\ Len(queue) >= 1
         /\ Head(queue) = queue[1] /\ queue[1] \in Signals
         /\ Tail(queue) \in Seq(Signals) /\ Len(Tail(queue)) = Len(queue) - 1
         /\ \A i \in 1..Len(Tail(queue)) : Tail(queue)[i] = queue[i + 1]
  BY HeadTailProperties, LenProperties, EmptySeq, SMT

\* A broadcast adds its signal at the end, or is not received at all.
LEMMA BroadcastToQueue ==
  ASSUME queue \in Seq(Signals), NEW m, NEW sig \in Signals, Broadcast(m, sig)
  PROVE  \/ /\ pc # "dead" /\ m \in matches
            /\ queue' \in Seq(Signals) /\ Len(queue') = Len(queue) + 1
            /\ Len(queue) \in Nat
            /\ \A i \in 1..Len(queue) : queue'[i] = queue[i]
            /\ queue'[Len(queue) + 1] = sig
         \/ queue' = queue /\ ~(pc # "dead" /\ m \in matches)
  BY AppendProperties, LenProperties DEF Broadcast

-----------------------------------------------------------------------------
\* Type correctness, for TypeOK of PowerMonitor.
LEMMA TypeInit == Init => TypeOK
<1> SUFFICES ASSUME Init PROVE TypeOK
  OBVIOUS
<1>1. queue \in Seq(Signals)
  BY EmptySeq DEF Init
<1> QED BY <1>1 DEF Init, TypeOK, PowerStates, PCs, Startup, Idle, Handlers, Members

LEMMA TypeNext == TypeOK /\ [Next]_vars => TypeOK'
<1> SUFFICES ASSUME TypeOK, [Next]_vars PROVE TypeOK'
  OBVIOUS
<1> USE DEF TypeOK, PowerStates, PCs, Startup, Idle, Handlers, Members,
            machine, daemon, history
<1>a. ASSUME Exit PROVE TypeOK'
  <2>1. queue' = <<>> /\ queue' \in Seq(Signals)
    BY <1>a, EmptySeq DEF Exit
  <2> QED BY <1>a, <2>1 DEF Exit
<1>b. ASSUME NEW m \in Members, NEW sig \in Signals, Broadcast(m, sig)
      PROVE  queue' \in Seq(Signals) /\ (queue # <<>> => queue' # <<>>)
  <2>1. queue \in Seq(Signals)
    OBVIOUS
  <2>2. Len(queue) \in Nat /\ (queue' = <<>> => Len(queue') = 0)
    BY <2>1, LenProperties, EmptySeq
  <2> QED BY ONLY <1>b, <2>1, <2>2, BroadcastToQueue
<1>1. ASSUME NEW m \in Members, NEW d \in {"sleepDelay", "shutdownDelay"},
             Announce(m, d)
      PROVE  TypeOK'
  <2>1. [member |-> m, arg0 |-> TRUE, op |-> op + 1] \in Signals
    BY DEF Signals
  <2>2. queue' \in Seq(Signals) /\ (queue # <<>> => queue' # <<>>)
    BY <1>1, <1>b, <2>1 DEF Announce
  <2>3. settled' \in BOOLEAN
    BY <1>1, Zenon DEF Announce
  <2>4. op' \in Nat
    BY <1>1 DEF Announce
  <2>5. /\ power' = d /\ expired' = FALSE /\ held' = inhibitor /\ told' = FALSE
        /\ UNCHANGED <<daemon, lost>>
    BY <1>1, Zenon DEF Announce
  <2> QED BY <2>2, <2>3, <2>4, <2>5
<1>2. ASSUME NEW m \in Members, NEW f \in {"resuming", "stopping"}, Finish(f, m)
      PROVE  TypeOK'
  <2>1. Signal(m, FALSE) \in Signals
    BY DEF Signals, Signal
  <2>2. queue' \in Seq(Signals) /\ (queue # <<>> => queue' # <<>>)
    BY <1>2, <1>b, <2>1 DEF Finish
  <2> QED BY <1>2, <2>2 DEF Finish
<1>3. CASE DelayExpires
  BY <1>3 DEF DelayExpires
<1>4. ASSUME NEW d \in PowerStates, NEW w \in PowerStates, GoDown(d, w)
      PROVE  TypeOK'
  BY <1>4 DEF GoDown
<1>5. CASE Wake
  BY <1>5 DEF Wake
<1>6. CASE PowerOff
  BY <1>6 DEF PowerOff
<1>7. CASE Boot
  BY <1>7 DEF Boot
<1>8. CASE Crash
  BY <1>8, <1>a DEF Crash
<1>9. CASE Start
  BY <1>9 DEF Start
<1>10. CASE Sigterm
  BY <1>10, <1>a DEF Sigterm
<1>11. CASE RegisterSleep
  BY <1>11 DEF RegisterSleep, RegisterMatch
<1>12. CASE RegisterShutdown
  BY <1>12 DEF RegisterShutdown, RegisterMatch
<1>13. CASE StartupLock
  BY <1>13, <1>a DEF StartupLock
<1>14. CASE HookSigterm
  BY <1>14 DEF HookSigterm
<1>15. CASE CheckFlag
  BY <1>15, <1>a DEF CheckFlag
<1>16. CASE ProcessTimesOut
  BY <1>16 DEF ProcessTimesOut
<1>17. CASE Dispatch
  BY <1>17, TailOfQueue DEF Dispatch
<1>18. CASE CallbackReturns
  BY <1>18 DEF CallbackReturns, AfterCallback
<1>19. CASE ReleaseInhibitor
  BY <1>19, TailOfQueue DEF ReleaseInhibitor
<1>20. CASE TakeInhibitor
  BY <1>20, TailOfQueue DEF TakeInhibitor, InhibitOutcomes, LossOf
<1>21. CASE UNCHANGED vars
  BY <1>21 DEF vars
<1> QED
  BY <1>1, <1>2, <1>3, <1>4, <1>5, <1>6, <1>7, <1>8, <1>9, <1>10, <1>11, <1>12,
     <1>13, <1>14, <1>15, <1>16, <1>17, <1>18, <1>19, <1>20, <1>21
  DEF Next, Logind, Life, Daemon, RequestSleep, RequestShutdown, GoToSleep,
      BeginStop, Resumed, Aborted

\* Every value the monitor's state takes is of its type, a handler always has
\* its message and the lock is never held before the matchers are registered.
THEOREM TypeCorrect == Spec => []TypeOK
  BY TypeInit, TypeNext, PTL DEF Spec
-----------------------------------------------------------------------------
(* The inductive invariant.                                                *)

Rest == QueueInv /\ CoverInv /\ CallbackBeforeDown /\ PairInv /\ HealInv

LEMMA RestInit == Init => Rest
<1> SUFFICES ASSUME Init PROVE Rest
  OBVIOUS
<1>1. Len(queue) = 0
  BY EmptySeq DEF Init
<1> QED
  BY <1>1 DEF Init, Rest, QueueInv, CoverInv, CallbackBeforeDown, PairInv, HealInv,
              Down, InDelay, Idle, Handlers

\* A process that is gone leaves an empty queue and no promise.
LEMMA RestExit == ASSUME TypeOK, Rest, Exit PROVE Rest'
<1>1. queue' = <<>> /\ Len(queue') = 0
  BY EmptySeq DEF Exit
<1> QED
  BY <1>1 DEF Exit, machine, Rest, QueueInv, CoverInv, CallbackBeforeDown, PairInv,
              HealInv, Promised, Down, InDelay, Idle, Handlers

\* Steps that leave the queue alone: only what they do to power, pc, the lock
\* and told matters.
LEMMA RestQuiet ==
  ASSUME TypeOK, Rest,
         \/ DelayExpires \/ GoToSleep \/ BeginStop \/ Wake \/ PowerOff \/ Boot
         \/ Start \/ RegisterSleep \/ RegisterShutdown \/ HookSigterm
         \/ ProcessTimesOut \/ UNCHANGED vars
         \/ CheckFlag /\ ~sigterm
         \/ Sigterm /\ pc \notin Startup
         \/ StartupLock /\ inhibitor'
  PROVE  Rest'
<1> USE TailOfQueue
    DEF Rest, TypeOK, QueueInv, CoverInv, CallbackBeforeDown, PairInv, HealInv, Hears,
        Suspending, Promised, InDelay, Down, Idle, Handlers, Startup, PCs,
        machine, daemon, history
<1>1. CASE DelayExpires
  BY <1>1 DEF DelayExpires
<1>2. CASE GoToSleep
  BY <1>2 DEF GoToSleep, GoDown
<1>3. CASE BeginStop
  BY <1>3 DEF BeginStop, GoDown
<1>4. CASE Wake
  BY <1>4 DEF Wake
<1>5. CASE PowerOff
  BY <1>5 DEF PowerOff
<1>6. CASE Boot
  BY <1>6 DEF Boot
<1>7. CASE Start
  BY <1>7 DEF Start
<1>8. CASE RegisterSleep
  BY <1>8 DEF RegisterSleep, RegisterMatch
<1>9. CASE RegisterShutdown
  BY <1>9 DEF RegisterShutdown, RegisterMatch
<1>10. CASE HookSigterm
  BY <1>10 DEF HookSigterm
<1>11. CASE ProcessTimesOut
  BY <1>11 DEF ProcessTimesOut
<1>12. CASE UNCHANGED vars
  BY <1>12 DEF vars
<1>13. CASE CheckFlag /\ ~sigterm
  BY <1>13 DEF CheckFlag
<1>14. CASE Sigterm /\ pc \notin Startup
  BY <1>14 DEF Sigterm
<1>15. CASE StartupLock /\ inhibitor'
  BY <1>15 DEF StartupLock, Exit
<1> QED
  BY <1>1, <1>2, <1>3, <1>4, <1>5, <1>6, <1>7, <1>8, <1>9,
     <1>10, <1>11, <1>12, <1>13, <1>14, <1>15

\* The callback's return fills in told, and the handler goes the way its signal
\* says.
LEMMA RestCallbackReturns == ASSUME TypeOK, Rest, CallbackReturns PROVE Rest'
<1>1. /\ pc = "callback" /\ queue # <<>> /\ queue[1] \in Signals
      /\ pc' = IF queue[1].arg0 THEN "release" ELSE "retake"
      /\ told' = (told \/ (queue[1].arg0 /\ queue[1].op = op))
      /\ UNCHANGED <<machine, queue, matches, inhibitor, sigterm, held, settled, lost>>
  BY TailOfQueue DEF CallbackReturns, AfterCallback, Current, TypeOK, Handlers
<1>2. QueueInv'
  BY <1>1 DEF Rest, QueueInv, Hears, machine
<1>3. CoverInv' /\ CallbackBeforeDown'
  BY <1>1 DEF Rest, CoverInv, CallbackBeforeDown, Promised, InDelay, Down, machine
<1>4. PairInv' /\ HealInv'
  BY <1>1 DEF Rest, PairInv, HealInv, Hears, Suspending, Handlers, machine
<1> QED BY <1>2, <1>3, <1>4 DEF Rest

\* An announcement: the new signal goes to the end of the queue.
LEMMA RestAnnounce ==
  ASSUME TypeOK, Rest, NEW m, NEW d,
         \/ m = "PrepareForSleep" /\ d = "sleepDelay"
         \/ m = "PrepareForShutdown" /\ d = "shutdownDelay",
         Announce(m, d)
  PROVE  Rest'
<1> DEFINE sig == [member |-> m, arg0 |-> TRUE, op |-> op + 1]
<1>1. sig \in Signals /\ op \in Nat /\ queue \in Seq(Signals)
  BY DEF TypeOK, Signals, Members
<1>2. /\ power = "up" /\ power' = d /\ op' = op + 1 /\ expired' = FALSE
      /\ held' = inhibitor /\ told' = FALSE /\ UNCHANGED <<daemon, lost>>
  BY Zenon DEF Announce
<1>3. settled' <=> \A i \in DOMAIN queue : ~queue[i].arg0
  BY Zenon DEF Announce
<1>4. DOMAIN queue = 1..Len(queue) /\ Len(queue) \in Nat
  BY <1>1, LenProperties
<1>5. \A i \in 1..Len(queue) : queue[i].op \in Nat /\ queue[i].op <= op
  <2>1. ASSUME NEW i \in 1..Len(queue) PROVE queue[i] \in Signals
    BY <1>1, <2>1, ElementOfSeq
  <2> QED BY <2>1 DEF Rest, QueueInv, Signals
<1>6. pc \in Handlers => Len(queue) >= 1 /\ queue[1].op # op + 1
  BY <1>1, TailOfQueue DEF Rest, QueueInv, TypeOK, Signals
<1>7. CASE /\ pc # "dead" /\ m \in matches
           /\ queue' \in Seq(Signals) /\ Len(queue') = Len(queue) + 1
           /\ \A i \in 1..Len(queue) : queue'[i] = queue[i]
           /\ queue'[Len(queue) + 1] = sig
  <2>1. QueueInv'
    <3>1. \A i \in 1..Len(queue)' : queue'[i].member \in matches' /\ queue'[i].op <= op'
      <4>1. /\ sig.member \in matches' /\ sig.op <= op' /\ matches' = matches /\ op' = op + 1
        BY <1>1, <1>2, <1>7 DEF Signals, daemon
      <4>2. \A i \in 1..Len(queue) : queue'[i].member \in matches' /\ queue'[i].op <= op'
        BY <1>1, <1>5, <1>7, <4>1 DEF Rest, QueueInv
      <4> HIDE DEF sig
      <4> QED BY <1>4, <1>7, <4>1, <4>2
    <3>2. pc' \in Handlers => queue'[1] = queue[1]
      BY <1>2, <1>4, <1>7, <1>6 DEF daemon
    <3> QED
      BY <1>2, <1>7, <1>6, <3>1, <3>2 DEF Rest, QueueInv, Hears, Handlers, daemon
  <2>2. CoverInv'
    <3> SUFFICES ASSUME Promised'
                 PROVE  inhibitor' /\ \A i \in 1..Len(queue)' : queue'[i].arg0 => queue'[i].op = op'
      BY DEF CoverInv
    <3>1. inhibitor' /\ settled'
      BY <1>2 DEF Promised, daemon
    <3>2. \A i \in 1..Len(queue) : ~queue'[i].arg0
      BY <1>3, <1>4, <1>7, <3>1
    <3>3. sig.op = op'
      BY <1>2
    <3> HIDE DEF sig
    <3> QED BY <1>4, <1>7, <3>1, <3>2, <3>3
  <2>3. CallbackBeforeDown' /\ PairInv' /\ HealInv'
    BY <1>1, <1>2, <1>4, <1>7
    DEF Rest, CallbackBeforeDown, PairInv, HealInv, Hears, Suspending, Down, daemon
  <2> QED BY <2>1, <2>2, <2>3 DEF Rest
<1>8. CASE queue' = queue /\ ~(pc # "dead" /\ m \in matches)
  <2>1. QueueInv'
    <3>1. \A i \in 1..Len(queue) : queue[i].op <= op + 1
      BY <1>1, <1>5
    <3> QED
      BY <1>2, <1>8, <1>6, <3>1 DEF Rest, QueueInv, Hears, Handlers, daemon
  <2>2. CoverInv'
    BY <1>1, <1>2, <1>3, <1>4, <1>8 DEF CoverInv, Promised, InDelay, daemon
  <2>3. CallbackBeforeDown' /\ PairInv' /\ HealInv'
    BY <1>1, <1>2, <1>4, <1>8
    DEF Rest, CallbackBeforeDown, PairInv, HealInv, Hears, Suspending, Down, daemon
  <2> QED BY <2>1, <2>2, <2>3 DEF Rest
<1>9. Broadcast(m, sig)
  BY Zenon DEF Announce
<1> QED BY <1>1, <1>7, <1>8, <1>9, BroadcastToQueue

\* The end of an operation: the daemon hears of it if it has subscribed.
LEMMA RestFinish ==
  ASSUME TypeOK, Rest, NEW m, NEW f,
         \/ f = "resuming" /\ m = "PrepareForSleep"
         \/ f = "stopping" /\ m = "PrepareForShutdown",
         Finish(f, m)
  PROVE  Rest'
<1>1. Signal(m, FALSE) \in Signals /\ op \in Nat /\ queue \in Seq(Signals)
  BY DEF TypeOK, Signal, Signals, Members
<1>2. /\ power = f /\ power' = "up"
      /\ UNCHANGED <<op, expired, daemon, history>>
  BY DEF Finish
<1>3. Len(queue) \in Nat /\ (pc \in Handlers => Len(queue) >= 1)
  BY <1>1, LenProperties, EmptySeq DEF TypeOK
<1>4. pc # "dead" /\ "PrepareForSleep" \in matches /\ f = "resuming" =>
        m = "PrepareForSleep" /\ pc # "dead" /\ m \in matches
  OBVIOUS
<1>5. CASE /\ pc # "dead" /\ m \in matches
           /\ Len(queue') = Len(queue) + 1
           /\ \A i \in 1..Len(queue) : queue'[i] = queue[i]
           /\ queue'[Len(queue) + 1] = Signal(m, FALSE)
  <2>1. QueueInv'
    <3>1. \A i \in 1..Len(queue)' : queue'[i].member \in matches' /\ queue'[i].op <= op'
      BY <1>1, <1>2, <1>3, <1>5 DEF Rest, QueueInv, Signal, daemon
    <3>2. pc' \in Handlers => queue'[1] = queue[1]
      BY <1>2, <1>3, <1>5 DEF daemon
    <3> QED
      BY <1>2, <1>5, <3>1, <3>2 DEF Rest, QueueInv, Hears, Handlers, daemon, history
  <2>2. CoverInv' /\ CallbackBeforeDown'
    BY <1>2 DEF CoverInv, CallbackBeforeDown, InDelay, Down
  <2>3. PairInv' /\ HealInv'
    BY <1>1, <1>2, <1>3, <1>5
    DEF Rest, PairInv, HealInv, Hears, Suspending, Signal, daemon, history
  <2> QED BY <2>1, <2>2, <2>3 DEF Rest
<1>6. CASE queue' = queue /\ ~(pc # "dead" /\ m \in matches)
  <2>1. QueueInv'
    BY <1>2, <1>6 DEF Rest, QueueInv, Hears, daemon, history
  <2>2. CoverInv' /\ CallbackBeforeDown'
    BY <1>2 DEF CoverInv, CallbackBeforeDown, InDelay, Down
  <2>3. \A i \in 1..Len(queue) : ~(Hears(i, TRUE) /\ f = "resuming")
    BY <1>3, <1>6, EmptySeq DEF Rest, QueueInv, Hears
  <2>4. PairInv' /\ HealInv'
    BY <1>2, <1>3, <1>6, <2>3
    DEF Rest, PairInv, HealInv, Hears, Suspending, Idle, Handlers, daemon, history
  <2> QED BY <2>1, <2>2, <2>4 DEF Rest
<1>7. Broadcast(m, Signal(m, FALSE))
  BY DEF Finish
<1> QED BY <1>1, <1>5, <1>6, <1>7, BroadcastToQueue

\* A handled message leaves the queue; the others keep their order.
LEMMA RestTail ==
  ASSUME TypeOK, Rest, queue # <<>>, queue' = Tail(queue), pc' = "loop",
         UNCHANGED <<machine, matches, sigterm, held, settled, told>>,
         InDelay /\ Promised /\ ~told => inhibitor',
         ~inhibitor' /\ ~lost' =>
           /\ "PrepareForSleep" \in matches
           /\ Suspending \/ \E i \in 2..Len(queue) : Hears(i, FALSE)
  PROVE  Rest'
<1>1. /\ Len(queue) \in Nat /\ Len(queue) >= 1
      /\ Len(queue') = Len(queue) - 1
      /\ \A i \in 1..Len(queue') : queue'[i] = queue[i + 1]
  BY TailOfQueue DEF TypeOK
<1>2. QueueInv'
  BY <1>1 DEF Rest, QueueInv, machine
<1>3. CoverInv' /\ CallbackBeforeDown'
  BY <1>1 DEF Rest, CoverInv, CallbackBeforeDown, Promised, InDelay, Down, machine
<1>4. \A i \in 2..Len(queue) : i - 1 \in 1..Len(queue') /\ queue'[i - 1] = queue[i]
  BY <1>1
<1>5. PairInv'
  <2> SUFFICES ASSUME NEW i \in 1..Len(queue'), Hears(i, TRUE)', ~Suspending
               PROVE  \E j \in 1..Len(queue') : i < j /\ Hears(j, FALSE)'
    BY DEF PairInv, Suspending, machine
  <2>1. PICK j \in 1..Len(queue) : i + 1 < j /\ Hears(j, FALSE)
    BY <1>1 DEF Rest, PairInv, Hears
  <2>2. j - 1 \in 1..Len(queue') /\ queue'[j - 1] = queue[j] /\ i < j - 1
    BY <1>1, <1>4, <2>1
  <2> QED BY <2>1, <2>2 DEF Hears
<1>6. HealInv'
  BY <1>1, <1>4 DEF HealInv, Hears, Suspending, machine
<1> QED BY <1>2, <1>3, <1>5, <1>6 DEF Rest

\* A message is taken up, or dropped when it is the end of a shutdown.
LEMMA RestDispatch == ASSUME TypeOK, Rest, Dispatch PROVE Rest'
<1>1. /\ queue # <<>> /\ Current = queue[1] /\ queue[1] \in Signals /\ Len(queue) >= 1
      /\ Len(queue) \in Nat
      /\ pc = "process" /\ UNCHANGED <<machine, matches, inhibitor, sigterm, history>>
  BY TailOfQueue DEF Dispatch, Current, TypeOK
<1>2. CASE Current.member = "PrepareForShutdown" /\ ~Current.arg0
  <2>1. pc' = "loop" /\ queue' = Tail(queue)
    BY <1>2 DEF Dispatch
  <2>2. InDelay /\ Promised /\ ~told => inhibitor'
    BY <1>1 DEF Rest, CoverInv
  <2>3. ~inhibitor' /\ ~lost' =>
          /\ "PrepareForSleep" \in matches
          /\ Suspending \/ \E i \in 2..Len(queue) : Hears(i, FALSE)
    BY <1>1, <1>2 DEF Rest, HealInv, Hears, Idle, history
  <2> QED BY <1>1, <2>1, <2>2, <2>3, RestTail DEF history
<1>3. CASE ~(Current.member = "PrepareForShutdown" /\ ~Current.arg0)
  <2>1. pc' = "callback" /\ queue' = queue
    BY <1>3 DEF Dispatch
  <2>2. ~queue[1].arg0 => Hears(1, FALSE)
    BY <1>1, <1>3 DEF Hears, Signals, Members
  <2>3. QueueInv' /\ PairInv'
    BY <1>1, <2>1, <2>2 DEF Rest, QueueInv, PairInv, Hears, Suspending, machine
  <2>4. CoverInv' /\ CallbackBeforeDown' /\ HealInv'
    BY <1>1, <2>1
    DEF Rest, CoverInv, CallbackBeforeDown, HealInv, Hears, Suspending, Promised,
        InDelay, Down, Idle, machine, history
  <2> QED BY <2>3, <2>4 DEF Rest
<1> QED BY <1>2, <1>3

\* Letting go of the lock: the promise has been kept, and after a suspend its
\* end is still to come.
LEMMA RestRelease == ASSUME TypeOK, Rest, ReleaseInhibitor PROVE Rest'
<1>1. /\ queue # <<>> /\ Current = queue[1] /\ queue[1] \in Signals
      /\ Len(queue) \in Nat /\ Len(queue) >= 1
      /\ queue[1].arg0 /\ (queue[1].op = op => told) /\ queue[1].member \in matches
  BY TailOfQueue DEF ReleaseInhibitor, Current, TypeOK, Handlers, Rest, QueueInv
<1>2. ~(InDelay /\ Promised /\ ~told)
  BY <1>1 DEF Rest, CoverInv
<1>3. ASSUME ~lost'
      PROVE  /\ "PrepareForSleep" \in matches
             /\ Suspending \/ \E i \in 2..Len(queue) : Hears(i, FALSE)
  <2>1. Hears(1, TRUE)
    BY <1>1, <1>3 DEF ReleaseInhibitor, Hears, Signals, Members
  <2> QED BY <1>1, <2>1 DEF Rest, PairInv, Hears
<1> QED BY <1>1, <1>2, <1>3, RestTail DEF ReleaseInhibitor

\* Taking the lock again: a refusal is lasting, or a suspend is under way.
LEMMA RestTake == ASSUME TypeOK, Rest, TakeInhibitor PROVE Rest'
<1>1. /\ pc = "retake" /\ pc' = "loop" /\ queue' = Tail(queue)
      /\ UNCHANGED <<machine, matches, sigterm, held, settled, told>>
  BY Zenon DEF TakeInhibitor
<1>2. /\ queue # <<>> /\ Len(queue) \in Nat /\ Len(queue) >= 1
      /\ Hears(1, FALSE) /\ queue[1].member \in matches
  <2>1. queue # <<>> /\ Len(queue) \in Nat /\ Len(queue) >= 1
    BY <1>1, TailOfQueue DEF TypeOK, Handlers
  <2> QED BY <1>1, <2>1 DEF Rest, QueueInv, Hears
<1>3. InDelay /\ Promised /\ ~told => inhibitor'
  <2>1. inhibitor => inhibitor'
    BY Zenon DEF TakeInhibitor
  <2> QED BY <2>1 DEF Rest, CoverInv
<1>4. ~inhibitor' /\ ~lost' => Suspending
  <2>1. CASE inhibitor
    BY <2>1 DEF TakeInhibitor
  <2>2. CASE ~inhibitor
    <3>1. PICK granted \in InhibitOutcomes : inhibitor' = granted /\ lost' = LossOf(granted)
      BY <2>2, Zenon DEF TakeInhibitor
    <3> QED BY <3>1, Zenon DEF LossOf, Suspending
  <2> QED BY <2>1, <2>2
<1>5. "PrepareForSleep" \in matches
  BY <1>2 DEF Hears
<1> QED BY <1>1, <1>2, <1>3, <1>4, <1>5, RestTail

-----------------------------------------------------------------------------
\* The six conjuncts together are inductive.
LEMMA RestNext == ASSUME TypeOK, Rest, [Next]_vars PROVE Rest'
<1>1. CASE \/ DelayExpires \/ GoToSleep \/ BeginStop \/ Wake \/ PowerOff \/ Boot
           \/ Start \/ RegisterSleep \/ RegisterShutdown \/ HookSigterm
           \/ ProcessTimesOut \/ UNCHANGED vars
  BY <1>1, RestQuiet, Zenon
<1>2. CASE RequestSleep \/ RequestShutdown
  BY <1>2, RestAnnounce DEF RequestSleep, RequestShutdown
<1>3. CASE Resumed \/ Aborted
  BY <1>3, RestFinish DEF Resumed, Aborted
<1>4. CASE Crash
  BY <1>4, RestExit DEF Crash
<1>5. CASE Sigterm
  <2>1. pc \in Startup => Exit
    BY <1>5, Zenon DEF Sigterm
  <2> QED BY <1>5, <2>1, RestExit, RestQuiet, Zenon
<1>6. CASE StartupLock
  <2>1. PICK granted \in InhibitOutcomes :
          \/ ~granted /\ Exit
          \/ inhibitor' = TRUE
    BY <1>6, Zenon DEF StartupLock
  <2> QED BY <1>6, <2>1, RestExit, RestQuiet, Zenon
<1>7. CASE CheckFlag
  <2>1. sigterm => Exit
    BY <1>7, Zenon DEF CheckFlag
  <2> QED BY <1>7, <2>1, RestExit, RestQuiet, Zenon
<1>8. CASE Dispatch \/ CallbackReturns \/ ReleaseInhibitor \/ TakeInhibitor
  BY <1>8, RestDispatch, RestCallbackReturns, RestRelease, RestTake
<1> QED
  BY <1>1, <1>2, <1>3, <1>4, <1>5, <1>6, <1>7, <1>8, Zenon DEF Next, Logind, Life, Daemon

\* IInv is inductive.
THEOREM Inductive == Spec => []IInv
<1>1. Init => IInv
  BY TypeInit, RestInit DEF IInv, Rest
<1>2. IInv /\ [Next]_vars => IInv'
  <2> SUFFICES ASSUME IInv, [Next]_vars PROVE IInv'
    OBVIOUS
  <2>1. TypeOK /\ Rest
    BY Zenon DEF IInv, Rest
  <2>2. TypeOK' /\ Rest'
    BY <2>1, TypeNext, RestNext, Zenon
  <2> QED BY <2>2, Zenon DEF IInv, Rest
<1> QED BY <1>1, <1>2, PTL DEF Spec

\* No suspend or shutdown promised to the daemon takes the machine down before
\* its callback has returned (CallbackBeforeDown).
THEOREM CallbackComesFirst == Spec => []CallbackBeforeDown
<1>1. IInv => CallbackBeforeDown
  BY DEF IInv
<1> QED BY <1>1, Inductive, PTL

\* An idle daemon on a machine that is up has its lock back (IdleHoldsLock).
THEOREM LockComesBack == Spec => []IdleHoldsLock
<1>1. IInv => IdleHoldsLock
  <2> SUFFICES ASSUME IInv, pc \in Idle, queue = <<>>, power = "up", ~lost
               PROVE  inhibitor
    BY DEF IdleHoldsLock
  <2>1. Len(queue) = 0
    BY EmptySeq
  <2> QED BY <2>1 DEF IInv, HealInv, Suspending
<1> QED BY <1>1, Inductive, PTL

-----------------------------------------------------------------------------
(* PowerMonitor implements DelayLock.                                      *)

\* Every step is a step of the delay lock or one it does not see.
LEMMA LockStep == ASSUME IInv, [Next]_vars PROVE [Lock!Next]_(Lock!vars)
<1> USE DEF Lock!Next, Lock!vars, machine, daemon, history
<1> DEFINE Announced == {"sleepDelay", "shutdownDelay"}
<1>1. CASE UNCHANGED <<power, expired, held, settled, told>>
  BY <1>1 DEF Phase, Promised, InDelay
<1>2. ASSUME NEW m, NEW d \in Announced, Announce(m, d) PROVE Lock!Announce
  <2>1. power = "up" /\ power' = d /\ told' = FALSE
    BY <1>2, Zenon DEF Announce
  <2>2. Promised' \in BOOLEAN
    BY DEF Promised
  <2> QED BY <2>1, <2>2 DEF Lock!Announce, Phase, InDelay
<1>3. CASE DelayExpires
  BY <1>3 DEF DelayExpires, Lock!Withdraw, Phase, Promised, InDelay
<1>4. CASE Exit
  BY <1>4 DEF Exit, Lock!Withdraw, Phase, Promised, InDelay
<1>5. ASSUME NEW d \in Announced, NEW w \in {"asleep", "stopping"}, GoDown(d, w)
      PROVE  Lock!GoDown
  <2>1. Down' /\ UNCHANGED <<held, settled, expired, told>> /\ power = d /\ power' = w
    BY <1>5 DEF GoDown, Down
  <2>2. Promised => told
    BY <1>5, <2>1 DEF GoDown, IInv, CoverInv, Promised, InDelay
  <2> QED BY <2>1, <2>2 DEF Lock!GoDown, Phase, Promised, InDelay
<1>6. ASSUME NEW m, NEW f \in {"resuming", "stopping"}, Finish(f, m) PROVE Lock!Return
  BY <1>6 DEF Finish, Lock!Return, Phase, Promised, InDelay
<1>7. CASE Wake
  BY <1>7 DEF Wake, Phase, Promised, InDelay
<1>8. CASE PowerOff
  BY <1>8 DEF PowerOff, Phase, Promised, InDelay
<1>9. CASE Boot
  BY <1>9 DEF Boot, Lock!Return, Phase, Promised, InDelay
<1>10. CASE CallbackReturns
  BY <1>10 DEF CallbackReturns, Lock!Notify, Phase, Promised, InDelay, IInv, TypeOK
<1>11. CASE \/ Start \/ RegisterSleep \/ RegisterShutdown \/ HookSigterm
            \/ ProcessTimesOut \/ UNCHANGED vars
  BY <1>1, <1>11 DEF Start, RegisterSleep, RegisterShutdown, RegisterMatch, HookSigterm,
                     ProcessTimesOut, vars
<1>12. CASE Dispatch \/ ReleaseInhibitor \/ TakeInhibitor
  BY <1>1, <1>12 DEF Dispatch, ReleaseInhibitor, TakeInhibitor
<1>13. CASE Crash
  BY <1>4, <1>13 DEF Crash
<1>14. CASE Sigterm \/ StartupLock \/ CheckFlag
  <2>1. Exit \/ UNCHANGED <<power, expired, held, settled, told>>
    BY <1>14, Zenon DEF Sigterm, StartupLock, CheckFlag
  <2> QED BY <1>1, <1>4, <2>1, Zenon
<1>15. CASE RequestSleep \/ RequestShutdown
  BY <1>2, <1>15, Zenon DEF RequestSleep, RequestShutdown
<1>16. CASE GoToSleep \/ BeginStop
  BY <1>5, <1>16, Zenon DEF GoToSleep, BeginStop
<1>17. CASE Resumed \/ Aborted
  BY <1>6, <1>17, Zenon DEF Resumed, Aborted
<1> QED
  BY <1>3, <1>7, <1>8, <1>9, <1>10, <1>11, <1>12, <1>13, <1>14, <1>15, <1>16, <1>17, Zenon
  DEF Next, Logind, Life, Daemon

\* The monitor, with logind, users, crashes and restarts, implements the delay
\* lock (ImplementsDelayLock).
THEOREM Implements == Spec => ImplementsDelayLock
<1>1. Init => Lock!Init
  BY DEF Init, Lock!Init, Phase, Promised
<1>2. IInv /\ [Next]_vars => [Lock!Next]_(Lock!vars)
  BY LockStep
<1> QED BY <1>1, <1>2, Inductive, PTL DEF Spec, ImplementsDelayLock, Lock!Spec
=============================================================================
