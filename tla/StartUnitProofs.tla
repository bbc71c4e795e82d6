-------------------------- MODULE StartUnitProofs --------------------------
(***************************************************************************)
(* Theorems about StartUnit, for any number of runners and units, any      *)
(* targets and any MaxJobs.                                                *)
(***************************************************************************)
EXTENDS StartUnit, SequenceTheorems, TLAPS

Waits(r) == pc[r] \in {"reply", "wait"}

EndQueued(r) == \E i \in 1..Len(queue[r]) : Concerns(r, queue[r][i])

\* What a runner can rely on: as long as its job runs it is the job of its unit,
\* so that the first end of a job of the unit it sees is that of its own.
WaitInv(r) ==
  /\ pc[r] \in {"subscribe", "match", "start"} => ~started[r]
  /\ Waits(r) /\ result[mine[r]] = "none" => job[Target[r]] = mine[r]
  /\ Waits(r) /\ ~stale[r] /\ (started[r] \/ EndQueued(r)) => result[mine[r]] # "none"
  /\ pc[r] = "ok" /\ ~stale[r] => result[mine[r]] # "none"

IInv == TypeOK /\ \A r \in Runners : WaitInv(r)

-----------------------------------------------------------------------------
(* The operations on the queues.                                           *)

\* Dispatching takes the first signal and moves the others up.
LEMMA TailOfQueue ==
  ASSUME NEW q \in Seq(Signals), q # <<>>
  PROVE  /\ Len(q) \in Nat /\ Len(q) >= 1
         /\ Head(q) = q[1] /\ Tail(q) \in Seq(Signals)
         /\ Len(Tail(q)) = Len(q) - 1
         /\ \A i \in 1..Len(Tail(q)) : Tail(q)[i] = q[i + 1]
  BY HeadTailProperties, LenProperties, EmptySeq, SMT

\* A broadcast adds one signal to the queues of the runners with a matcher.
LEMMA BroadcastToQueues ==
  ASSUME TypeOK, NEW j \in JobIds, NEW u \in Units, Broadcast(j, u), NEW r \in Runners
  PROVE  /\ queue' \in [Runners -> Seq(Signals)]
         /\ EndQueued(r)' => EndQueued(r) \/ u = Target[r]
<1> DEFINE sig == [id |-> j, unit |-> u]
<1>1. sig \in Signals
  BY DEF Signals
<1>2. ASSUME NEW s \in Runners
      PROVE  Append(queue[s], sig) \in Seq(Signals)
  BY <1>1, <1>2, AppendProperties DEF TypeOK
<1>3. queue' \in [Runners -> Seq(Signals)]
  BY <1>2 DEF Broadcast, TypeOK
<1>4. CASE ~matching[r]
  <2>1. queue'[r] = queue[r]
    BY <1>4 DEF Broadcast, TypeOK
  <2> QED BY <1>3, <2>1 DEF EndQueued, Concerns
<1>5. CASE matching[r]
  <2>1. queue'[r] = Append(queue[r], sig)
    BY <1>5 DEF Broadcast, TypeOK
  <2>2. /\ Len(queue[r]) \in Nat /\ Len(queue'[r]) = Len(queue[r]) + 1
        /\ \A i \in 1..Len(queue[r]) : queue'[r][i] = queue[r][i]
        /\ queue'[r][Len(queue[r]) + 1] = sig
    BY <1>1, <2>1, AppendProperties, LenProperties DEF TypeOK
  <2> SUFFICES ASSUME NEW i \in 1..Len(queue'[r]), Concerns(r, queue'[r][i]), u # Target[r]
               PROVE  EndQueued(r)
    BY <1>3, Zenon DEF EndQueued, Concerns
  <2>3. i # Len(queue[r]) + 1
    BY <2>2, sig.unit = u DEF Concerns
  <2> QED BY <2>2, <2>3 DEF EndQueued, Concerns
<1> QED BY <1>3, <1>4, <1>5

-----------------------------------------------------------------------------
\* Type correctness, for TypeOK of StartUnit.
LEMMA TypeInit == Init => TypeOK
  BY TargetAssumption, EmptySeq
  DEF Init, TypeOK, JobIds, Kinds, Results, PCs

LEMMA TypeNext == TypeOK /\ [Next]_vars => TypeOK'
<1> SUFFICES ASSUME TypeOK, [Next]_vars PROVE TypeOK'
  OBVIOUS
<1> USE TargetAssumption DEF TypeOK, JobIds, Kinds, Results, PCs, systemd
<1>0. <<>> \in Seq(Signals)
  BY EmptySeq
<1>1. ASSUME NEW u \in Units, NEW how \in Results, JobEnds(u, how) PROVE TypeOK'
  <2>1. job[u] \in JobIds
    BY <1>1 DEF JobEnds
  <2>2. queue' \in [Runners -> Seq(Signals)]
    <3>1. CASE Runners = {}
      BY <1>1, <3>1 DEF JobEnds, Broadcast
    <3>2. CASE Runners # {}
      BY <1>1, <2>1, <3>2, BroadcastToQueues, Zenon DEF JobEnds
    <3> QED BY <3>1, <3>2
  <2> QED BY <1>1, <2>1, <2>2 DEF JobEnds
<1>2. ASSUME NEW u \in Units, NEW k \in Kinds, ClientJob(u, k) PROVE TypeOK'
  BY <1>2 DEF ClientJob, NewJob
<1>3. ASSUME NEW r \in Runners, Fails(r) PROVE TypeOK'
  BY <1>0, <1>3 DEF Fails, Leave, Goto
<1>4. ASSUME NEW r \in Runners, Subscribe(r) PROVE TypeOK'
  BY <1>4 DEF Subscribe, Goto, After
<1>5. ASSUME NEW r \in Runners, MatchSignal(r) PROVE TypeOK'
  BY <1>5 DEF MatchSignal, Goto, After
<1>6. ASSUME NEW r \in Runners, StartUnit(r) PROVE TypeOK'
  <2>1. stale' \in [Runners -> BOOLEAN] /\ UNCHANGED started
    BY <1>6, Zenon DEF StartUnit
  <2>2. Target[r] \in Units /\ pc[r] = "start"
    BY <1>6 DEF StartUnit
  <2>3. CASE /\ job[Target[r]] # 0
             /\ UNCHANGED systemd
             /\ mine' = [mine EXCEPT ![r] = job[Target[r]]]
             /\ Goto(r, After.start) /\ UNCHANGED <<matching, queue>>
    BY <2>1, <2>2, <2>3 DEF Goto, After
  <2>4. CASE /\ NewJob(Target[r], "start") /\ UNCHANGED result
             /\ mine' = [mine EXCEPT ![r] = lastJob + 1]
             /\ Goto(r, After.start) /\ UNCHANGED <<matching, queue>>
    BY <2>1, <2>2, <2>4 DEF Goto, After, NewJob
  <2>5. CASE UNCHANGED <<systemd, mine>> /\ Leave(r, "error")
    BY <1>0, <2>1, <2>2, <2>5 DEF Leave, Goto
  <2> QED BY <1>6, <2>3, <2>4, <2>5, Zenon DEF StartUnit
<1>7. ASSUME NEW r \in Runners, Reply(r) PROVE TypeOK'
  BY <1>7 DEF Reply, Goto, After
<1>8. ASSUME NEW r \in Runners, Process(r) PROVE TypeOK'
  <2>1. Tail(queue[r]) \in Seq(Signals)
    BY <1>8, TailOfQueue DEF Process
  <2> QED BY <1>8, <2>1 DEF Process
<1>9. ASSUME NEW r \in Runners, Finish(r) PROVE TypeOK'
  BY <1>0, <1>9 DEF Finish, Leave, Goto
<1>10. CASE UNCHANGED vars
  BY <1>10 DEF vars
<1> QED
  BY <1>1, <1>2, <1>3, <1>4, <1>5, <1>6, <1>7, <1>8, <1>9, <1>10
  DEF Next, Systemd, Works

THEOREM TypeCorrect == Spec => []TypeOK
<1> QED BY TypeInit, TypeNext, PTL DEF Spec

-----------------------------------------------------------------------------
(* The inductive invariant.                                                *)

LEMMA WaitInit == Init => \A r \in Runners : WaitInv(r)
  BY DEF Init, WaitInv, Waits

\* A step that leaves a runner alone, and only ends jobs that are not the runner's
\* or takes no end back, keeps what the runner can rely on.
LEMMA OthersStep ==
  ASSUME NEW r \in Runners, WaitInv(r),
         pc'[r] = pc[r], started'[r] = started[r], mine'[r] = mine[r], stale'[r] = stale[r],
         Waits(r) /\ result'[mine[r]] = "none" => job'[Target[r]] = job[Target[r]],
         Waits(r) /\ EndQueued(r)' => EndQueued(r) \/ result'[mine[r]] # "none",
         result'[mine[r]] = "none" => result[mine[r]] = "none"
  PROVE  WaitInv(r)'
  BY DEF WaitInv, Waits

LEMMA JobEndsStep ==
  ASSUME IInv, NEW u \in Units, NEW how \in Results, JobEnds(u, how), NEW r \in Runners
  PROVE  WaitInv(r)'
<1> USE DEF IInv, TypeOK
<1>1. job[u] \in JobIds /\ how # "none" /\ Target[r] \in Units
  BY TargetAssumption DEF JobEnds, JobIds, Results
<1>2. result'[job[u]] = how /\ \A j \in JobIds : result'[j] = "none" => result[j] = "none"
  BY <1>1 DEF JobEnds
<1>3. EndQueued(r)' => EndQueued(r) \/ u = Target[r]
  BY <1>1, BroadcastToQueues, Zenon DEF JobEnds
<1>4. UNCHANGED <<pc, started, mine, stale>>
  BY DEF JobEnds
<1>5. \A v \in Units : v # u => job'[v] = job[v]
  BY DEF JobEnds
<1>6. Waits(r) => mine[r] \in JobIds
  BY DEF Waits, JobIds
<1>7. pc[r] = "ok" => mine[r] \in JobIds
  BY DEF JobIds
<1>8. Waits(r) /\ result'[mine[r]] = "none" => u # Target[r]
  BY <1>1, <1>2, <1>6 DEF WaitInv
<1> QED BY <1>1, <1>2, <1>3, <1>4, <1>5, <1>6, <1>7, <1>8 DEF WaitInv, Waits

\* A new job of one unit does not touch the job that a runner waits for.
LEMMA NewJobKeeps ==
  ASSUME TypeOK, NEW u \in Units, NEW k \in Kinds, job[u] = 0, NewJob(u, k),
         NEW r \in Runners, WaitInv(r), Waits(r), result[mine[r]] = "none"
  PROVE  job'[Target[r]] = job[Target[r]]
<1>1. job[Target[r]] = mine[r] /\ mine[r] # 0
  BY DEF WaitInv, Waits, TypeOK
<1> QED BY <1>1, TargetAssumption DEF NewJob, TypeOK

LEMMA ClientJobStep ==
  ASSUME IInv, NEW u \in Units, NEW k \in Kinds, ClientJob(u, k), NEW r \in Runners
  PROVE  WaitInv(r)'
<1>1. UNCHANGED <<result, pc, queue, started, mine, stale>>
  BY DEF ClientJob
<1>2. Waits(r) /\ result'[mine[r]] = "none" => job'[Target[r]] = job[Target[r]]
  BY <1>1, NewJobKeeps, Zenon DEF ClientJob, IInv
<1>3. EndQueued(r)' => EndQueued(r)
  BY <1>1 DEF EndQueued, Concerns
<1> QED BY <1>1, <1>2, <1>3, OthersStep DEF IInv

\* What another runner does.
LEMMA OtherRunnersStep ==
  ASSUME IInv, NEW s \in Runners, Works(s) \/ Fails(s), NEW r \in Runners, r # s
  PROVE  WaitInv(r)'
<1> USE DEF IInv, TypeOK
<1>1. pc'[r] = pc[r] /\ started'[r] = started[r] /\ mine'[r] = mine[r] /\ stale'[r] = stale[r]
      /\ queue'[r] = queue[r]
  BY DEF Works, Fails, Subscribe, MatchSignal, StartUnit, Reply, Process, Finish, Leave, Goto
<1>2. UNCHANGED result
  BY DEF Works, Fails, Subscribe, MatchSignal, StartUnit, Reply, Process, Finish, systemd
<1>3. Waits(r) /\ result'[mine[r]] = "none" => job'[Target[r]] = job[Target[r]]
  <2>1. CASE UNCHANGED job
    BY <2>1
  <2>2. CASE job[Target[s]] = 0 /\ NewJob(Target[s], "start")
    BY <1>2, <2>2, NewJobKeeps, TargetAssumption DEF Kinds
  <2> QED
    BY <2>1, <2>2
    DEF Works, Fails, Subscribe, MatchSignal, StartUnit, Reply, Process, Finish, systemd
<1>4. EndQueued(r)' => EndQueued(r)
  BY <1>1 DEF EndQueued, Concerns
<1> QED BY <1>1, <1>2, <1>3, <1>4, OthersStep

\* What the runner itself does.
LEMMA OwnStep ==
  ASSUME IInv, NEW r \in Runners, Works(r) \/ Fails(r)
  PROVE  WaitInv(r)'
<1> USE DEF IInv, TypeOK
<1>1. CASE Fails(r)
  BY <1>1 DEF Fails, Leave, Goto, WaitInv, Waits
<1>2. CASE Subscribe(r)
  BY <1>2 DEF Subscribe, Goto, After, WaitInv, Waits
<1>3. CASE MatchSignal(r)
  BY <1>3 DEF MatchSignal, Goto, After, WaitInv, Waits
<1>4. CASE StartUnit(r)
  <2>1. ~started'[r] /\ pc[r] = "start"
    BY <1>4 DEF StartUnit, WaitInv
  <2>2. stale'[r] = EndQueued(r)
    BY <1>4, Zenon DEF StartUnit, EndQueued
  <2>3. \/ pc'[r] = "error"
        \/ pc'[r] = "reply" /\ UNCHANGED queue /\ job'[Target[r]] = mine'[r]
    <3>1. Target[r] \in Units
      BY TargetAssumption
    <3> QED BY <1>4, <3>1 DEF StartUnit, Leave, Goto, After, NewJob, systemd
  <2>4. UNCHANGED queue => (EndQueued(r)' <=> EndQueued(r))
    BY DEF EndQueued, Concerns
  <2> QED BY <2>1, <2>2, <2>3, <2>4 DEF WaitInv, Waits
<1>5. CASE Reply(r)
  <2>1. EndQueued(r)' <=> EndQueued(r)
    BY <1>5 DEF Reply, EndQueued, Concerns
  <2> QED BY <1>5, <2>1 DEF Reply, Goto, After, WaitInv, Waits, systemd
<1>6. CASE Process(r)
  <2>1. /\ UNCHANGED <<systemd, pc, mine, stale>>
        /\ queue[r] # <<>> /\ queue[r] \in Seq(Signals) /\ queue'[r] = Tail(queue[r])
        /\ started'[r] => started[r] \/ Concerns(r, Head(queue[r]))
    BY <1>6 DEF Process, IsEnd
  <2>2. EndQueued(r)' => EndQueued(r)
    <3> SUFFICES ASSUME NEW i \in 1..Len(queue'[r]), Concerns(r, queue'[r][i])
                 PROVE  EndQueued(r)
      BY DEF EndQueued, Concerns
    <3>1. /\ Len(queue[r]) \in Nat /\ Len(queue'[r]) = Len(queue[r]) - 1
          /\ queue'[r][i] = queue[r][i + 1]
      BY <2>1, TailOfQueue
    <3>2. i + 1 \in 1..Len(queue[r])
      BY <3>1
    <3> QED BY <3>1, <3>2, Zenon DEF EndQueued
  <2>3. Concerns(r, Head(queue[r])) => EndQueued(r)
    <3>1. Len(queue[r]) \in Nat /\ Len(queue[r]) >= 1 /\ Head(queue[r]) = queue[r][1]
      BY <2>1, TailOfQueue
    <3>2. 1 \in 1..Len(queue[r])
      BY <3>1
    <3> QED BY <3>1, <3>2, Zenon DEF EndQueued
  <2> QED BY <1>6, <2>1, <2>2, <2>3 DEF Process, WaitInv, Waits, systemd
<1>7. CASE Finish(r)
  BY <1>7 DEF Finish, Leave, Goto, WaitInv, Waits, systemd
<1> QED BY <1>1, <1>2, <1>3, <1>4, <1>5, <1>6, <1>7 DEF Works

LEMMA IInvNext == IInv /\ [Next]_vars => IInv'
<1> SUFFICES ASSUME IInv, [Next]_vars, NEW r \in Runners PROVE WaitInv(r)'
  BY TypeNext DEF IInv
<1>1. ASSUME NEW s \in Runners, Works(s) \/ Fails(s) PROVE WaitInv(r)'
  BY <1>1, OwnStep, OtherRunnersStep, Zenon
<1>2. CASE Systemd
  BY <1>2, JobEndsStep, ClientJobStep DEF Systemd
<1>3. CASE UNCHANGED vars
  BY <1>3 DEF vars, IInv, WaitInv, Waits, EndQueued, Concerns
<1> QED BY <1>1, <1>2, <1>3 DEF Next

\* The inductive invariant of the wait.
THEOREM Inductive == Spec => []IInv
<1>1. Init => IInv
  BY TypeInit, WaitInit DEF IInv
<1> QED BY <1>1, IInvNext, PTL DEF Spec

\* start_unit does not return before its own job has ended, unless the end of an
\* older job of the same unit was queued before the call (ReturnsAfterJob).
THEOREM WaitIsLongEnough == Spec => []ReturnsAfterJob
<1>1. IInv => ReturnsAfterJob
  BY DEF IInv, WaitInv, ReturnsAfterJob
<1> QED BY <1>1, Inductive, PTL
=============================================================================
