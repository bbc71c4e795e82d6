----------------------------- MODULE StartUnit -----------------------------
(***************************************************************************)
(* start_unit of src/bin/runner/systemd.rs: the runner asks systemd to     *)
(* start its target and waits for the JobRemoved signal of that job.       *)
(*                                                                         *)
(* systemd gives every unit at most one job.  A start request for a unit   *)
(* that already has a start job is answered with that job; in mode "fail"  *)
(* it is refused when the unit has a stop job.  When a job ends, JobRemoved*)
(* is broadcast with its id, its unit and its result.  Signals that come   *)
(* in while the runner is blocked in a method call stay in its queue.      *)
(*                                                                         *)
(* Besides the runners there are other clients of systemd: users and other *)
(* units start and stop the same targets.                                  *)
(***************************************************************************)
EXTENDS Naturals, Sequences

CONSTANTS
  Runners,   \* night-kitchen-runner processes
  Units,     \* units of systemd
  Target,    \* the unit each runner was called with
  MaxJobs    \* bound: jobs systemd creates in a behaviour

ASSUME TargetAssumption == Target \in [Runners -> Units] /\ MaxJobs \in Nat

VARIABLES
  job,      \* systemd: the unit's job, 0 for none
  kind,     \* systemd: what each job does, "start" or "stop"
  result,   \* systemd: how each job ended, "none" while it has not
  lastJob,  \* systemd: id of the latest job
  pc,       \* where each runner is in start_unit
  matching, \* its JobRemoved matcher is installed
  queue,    \* the JobRemoved signals its connection has not dispatched
  started,  \* the AtomicBool its matcher sets
  mine,     \* the job its StartUnit call was answered with
  stale     \* history: an older signal for its unit was queued by then

systemd == <<job, kind, result, lastJob>>
vars    == <<job, kind, result, lastJob, pc, matching, queue, started, mine, stale>>

JobIds  == 1..MaxJobs
Kinds   == {"start", "stop"}
Results == {"done", "failed"}   \* "failed" for every other result
Signals == [id : JobIds, unit : Units]
PCs     == {"subscribe", "match", "start", "reply", "wait", "ok", "error"}

Init ==
  /\ job = [u \in Units |-> 0]
  /\ kind = [j \in JobIds |-> "start"]
  /\ result = [j \in JobIds |-> "none"]
  /\ lastJob = 0
  /\ pc = [r \in Runners |-> "subscribe"]
  /\ matching = [r \in Runners |-> FALSE]
  /\ queue = [r \in Runners |-> <<>>]
  /\ started = [r \in Runners |-> FALSE]
  /\ mine = [r \in Runners |-> 0]
  /\ stale = [r \in Runners |-> FALSE]

-----------------------------------------------------------------------------
(* systemd.                                                                *)

\* JobRemoved for job j of unit u reaches every installed matcher.
Broadcast(j, u) ==
  queue' = [r \in Runners |-> IF matching[r] THEN Append(queue[r], [id |-> j, unit |-> u])
                                             ELSE queue[r]]

\* The job of u ends: it is done, fails or times out, or is cancelled.
JobEnds(u, how) ==
  /\ job[u] # 0
  /\ job' = [job EXCEPT ![u] = 0]
  /\ result' = [result EXCEPT ![job[u]] = how]
  /\ Broadcast(job[u], u)
  /\ UNCHANGED <<kind, lastJob, pc, matching, started, mine, stale>>

NewJob(u, k) ==
  /\ lastJob < MaxJobs
  /\ lastJob' = lastJob + 1
  /\ kind' = [kind EXCEPT ![lastJob + 1] = k]
  /\ job' = [job EXCEPT ![u] = lastJob + 1]

\* Another client asks for a start or stop of u, which has no job.
ClientJob(u, k) ==
  /\ job[u] = 0
  /\ NewJob(u, k)
  /\ UNCHANGED <<result, pc, matching, queue, started, mine, stale>>

Systemd == \E u \in Units :
             \/ \E how \in Results : JobEnds(u, how)
             \/ \E k \in Kinds : ClientJob(u, k)

-----------------------------------------------------------------------------
(* The runner.                                                             *)

Goto(r, l) == pc' = [pc EXCEPT ![r] = l]

\* Seeded faults: the matcher is installed after the StartUnit call; the call
\* is left out.
FaultMatchLate == [subscribe |-> "start", start |-> "reply", reply |-> "match", match |-> "wait"]
FaultNoCall    == [subscribe |-> "match", match |-> "wait", start |-> "reply", reply |-> "wait"]

\* The order of start_unit's calls.
After == [subscribe |-> "match", match |-> "start", start |-> "reply", reply |-> "wait"]

\* start_unit is over and nothing is dispatched any more.
Leave(r, l) ==
  /\ Goto(r, l)
  /\ queue' = [queue EXCEPT ![r] = <<>>]
  /\ matching' = [matching EXCEPT ![r] = FALSE]

\* A call fails or runs into PROXY_TIMEOUT, or the connection is lost: `?`.
Fails(r) ==
  /\ pc[r] \in {"subscribe", "match", "start", "reply", "wait"}
  /\ Leave(r, "error")
  /\ UNCHANGED <<systemd, started, mine, stale>>

Subscribe(r) ==
  /\ pc[r] = "subscribe"
  /\ Goto(r, After.subscribe)
  /\ UNCHANGED <<systemd, matching, queue, started, mine, stale>>

MatchSignal(r) ==
  /\ pc[r] = "match"
  /\ matching' = [matching EXCEPT ![r] = TRUE]
  /\ Goto(r, After.match)
  /\ UNCHANGED <<systemd, queue, started, mine, stale>>

Concerns(r, sig) == sig.unit = Target[r]

\* systemd handles the StartUnit call: the unit has a start job already, gets a
\* new one, or has a stop job and the call is refused.
StartUnit(r) ==
  LET u == Target[r] IN
  /\ pc[r] = "start"
  /\ \/ /\ job[u] # 0 /\ kind[job[u]] = "start"
        /\ UNCHANGED systemd
        /\ mine' = [mine EXCEPT ![r] = job[u]]
        /\ Goto(r, After.start) /\ UNCHANGED <<matching, queue>>
     \/ /\ job[u] = 0
        /\ NewJob(u, "start") /\ UNCHANGED result
        /\ mine' = [mine EXCEPT ![r] = lastJob + 1]
        /\ Goto(r, After.start) /\ UNCHANGED <<matching, queue>>
     \/ /\ job[u] # 0 /\ kind[job[u]] = "stop"
        /\ UNCHANGED <<systemd, mine>>
        /\ Leave(r, "error")
  /\ stale' = [stale EXCEPT ![r] = \E i \in 1..Len(queue[r]) : Concerns(r, queue[r][i])]
  /\ UNCHANGED started

\* The reply arrives and the loop begins.
Reply(r) ==
  /\ pc[r] = "reply"
  /\ Goto(r, After.reply)
  /\ UNCHANGED <<systemd, matching, queue, started, mine, stale>>

\* Seeded faults: any job's end is taken for the end of the runner's; only a job
\* that is done ends the wait.
FaultAnyUnit(r, sig)  == TRUE
FaultDoneOnly(r, sig) == Concerns(r, sig) /\ result[sig.id] = "done"

\* The matcher's verdict on a signal: is it for the unit?
IsEnd(r, sig) == Concerns(r, sig)

\* conn.process dispatches one signal; a matcher that has seen its unit sets
\* started and removes itself.
Process(r) ==
  /\ pc[r] = "wait" /\ ~started[r] /\ queue[r] # <<>>
  /\ queue' = [queue EXCEPT ![r] = Tail(@)]
  /\ IF matching[r] /\ IsEnd(r, Head(queue[r]))
     THEN /\ started' = [started EXCEPT ![r] = TRUE]
          /\ matching' = [matching EXCEPT ![r] = FALSE]
     ELSE UNCHANGED <<started, matching>>
  /\ UNCHANGED <<systemd, pc, mine, stale>>

\* The loop ends, and start_unit returns Ok whatever the job's result was.
Finish(r) ==
  /\ pc[r] = "wait" /\ started[r]
  /\ Leave(r, "ok")
  /\ UNCHANGED <<systemd, started, mine, stale>>

Works(r) ==
  \/ Subscribe(r) \/ MatchSignal(r) \/ StartUnit(r) \/ Reply(r) \/ Process(r) \/ Finish(r)

Next == Systemd \/ \E r \in Runners : Works(r) \/ Fails(r)

Spec == Init /\ [][Next]_vars

\* A runner that can go on does.  systemd owes nothing: tasks may run forever.
FairSpec == Spec /\ \A r \in Runners : WF_vars(Works(r))

-----------------------------------------------------------------------------
\* Types; and a runner that waits knows its job.
TypeOK ==
  /\ job \in [Units -> 0..MaxJobs] /\ kind \in [JobIds -> Kinds]
  /\ result \in [JobIds -> Results \cup {"none"}] /\ lastJob \in 0..MaxJobs
  /\ pc \in [Runners -> PCs] /\ matching \in [Runners -> BOOLEAN]
  /\ queue \in [Runners -> Seq(Signals)] /\ started \in [Runners -> BOOLEAN]
  /\ mine \in [Runners -> 0..MaxJobs] /\ stale \in [Runners -> BOOLEAN]
  /\ \A r \in Runners : pc[r] \in {"reply", "wait", "ok"} => mine[r] # 0

\* start_unit does not return before its own job has ended, whatever other jobs
\* end meanwhile: unless the end of an older job of the same unit was queued
\* before the call.
ReturnsAfterJob ==
  \A r \in Runners : pc[r] = "ok" /\ ~stale[r] => result[mine[r]] # "none"

\* The end of the job is never missed, not even when it comes before the answer
\* to StartUnit or when the job has failed: a runner whose job has ended returns.
EndIsNoticed ==
  \A r \in Runners :
    (pc[r] = "wait" /\ result[mine[r]] # "none") ~> (pc[r] \in {"ok", "error"})
=============================================================================
