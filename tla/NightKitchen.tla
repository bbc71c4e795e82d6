---------------------------- MODULE NightKitchen ----------------------------
(***************************************************************************)
(* Night Kitchen as a whole: the runners (src/bin/runner/main.rs), which   *)
(* decide whether to put the machine to rest again after their tasks, the  *)
(* scheduler, which tells them through a file when the machine resumed     *)
(* (update_resume_timestamp of src/bin/scheduler/main.rs), and the services*)
(* they run as, which share one runtime directory (systemd/*.service).     *)
(*                                                                         *)
(* start_unit is one request and one return here; StartUnit has its steps. *)
(* How logind announces and delays an operation is left to PowerMonitor:   *)
(* an operation that was requested goes ahead some time later.  All        *)
(* clocks agree, and the hour does not matter: a timer may fire any time.  *)
(***************************************************************************)
EXTENDS Naturals

CONSTANTS
  Runners,              \* one for each timer
  MinInnocentUptime,
  MinInnocentWaketime,
  MaxTime,              \* bound: the clock stops there
  MaxHeard              \* bound: resumes the scheduler has not handled

ASSUME WindowsAssumption ==
  /\ MinInnocentUptime \in Nat \ {0} /\ MinInnocentWaketime \in Nat \ {0}
  /\ MaxTime \in Nat /\ MaxHeard \in Nat \ {0}

VARIABLES
  power,      \* the machine is "up", "asleep" or "off"
  op,         \* what logind has been asked to do and has not done
  now,        \* the time
  bootedAt,   \* the kernel: when the machine booted
  directory,  \* /run/night-kitchen exists
  file,       \* resume-timestamp in it: "missing", "empty" or "written"
  stamp,      \* what is written there
  scheduler,  \* the scheduler daemon: "dead", "idle" or "write"
  heard,      \* PrepareForSleep(false) signals it has not handled
  timestamp,  \* the local variable of update_resume_timestamp
  due,        \* timers that have elapsed and whose service has not started
  pc,         \* where each runner is
  startTime,  \* start_time of main
  shouldShutdown, \* should_shutdown of main
  tasks,      \* runners whose tasks are running
  \* History, read by the properties only:
  by,         \* the runner that asked for op, in a set; {} for a user
  resumedAt,  \* when the machine last booted or resumed
  owed,       \* runners expected to put the machine back to rest
  slow        \* a resume of this boot was stamped later than it happened

machine   == <<power, op, by>>
clock     == <<now, bootedAt, resumedAt>>
files     == <<directory, file, stamp>>
daemon    == <<scheduler, heard, timestamp, slow>>
runner    == <<due, pc, startTime, shouldShutdown, tasks, owed>>
vars      == <<machine, clock, files, daemon, runner>>

Times == 0..MaxTime
PCs   == {"inactive", "begin", "start", "wait", "suspend", "exit"}

Init ==
  /\ power = "off" /\ op = "none" /\ by = {}
  /\ now = 0 /\ bootedAt = 0 /\ resumedAt = 0
  /\ directory = FALSE /\ file = "missing" /\ stamp = 0
  /\ scheduler = "dead" /\ heard = 0 /\ timestamp = 0 /\ slow = FALSE
  /\ due = {} /\ tasks = {} /\ owed = {}
  /\ pc = [r \in Runners |-> "inactive"]
  /\ startTime = [r \in Runners |-> 0]
  /\ shouldShutdown = [r \in Runners |-> FALSE]

Up == power = "up"    \* a machine at rest runs nothing

-----------------------------------------------------------------------------
(* The machine, its users and systemd.                                     *)

Tick ==
  /\ now < MaxTime
  /\ now' = now + 1
  /\ UNCHANGED <<machine, bootedAt, resumedAt, files, daemon, runner>>

\* logind takes one operation at a time.
Request(o, who) == op = "none" /\ op' = o /\ by' = who /\ UNCHANGED power

UserRequests(o) ==
  /\ Up /\ Request(o, {})
  /\ UNCHANGED <<clock, files, daemon, runner>>

Suspend ==
  /\ Up /\ op = "sleep"
  /\ power' = "asleep" /\ op' = "none" /\ by' = {} /\ owed' = {}
  /\ UNCHANGED <<clock, files, daemon, due, pc, startTime, shouldShutdown, tasks>>

\* A service with RuntimeDirectory=night-kitchen starts, or stops.
MakeDirectory   == directory' = TRUE /\ UNCHANGED <<file, stamp>>
RemoveDirectory == directory' = FALSE /\ file' = "missing" /\ stamp' = 0

\* Every process ends, and /run is gone.
PowerOff ==
  /\ Up /\ op = "shutdown"
  /\ power' = "off" /\ op' = "none" /\ by' = {} /\ owed' = {}
  /\ RemoveDirectory
  /\ scheduler' = "dead" /\ heard' = 0 /\ slow' = FALSE /\ timestamp' = 0
  /\ due' = {} /\ tasks' = {} /\ pc' = [r \in Runners |-> "inactive"]
  /\ startTime' = [r \in Runners |-> 0]
  /\ shouldShutdown' = [r \in Runners |-> FALSE]
  /\ UNCHANGED clock

\* The machine comes up by itself for the timers in R, or for a user.
Rouse(R) ==
  /\ power' = "up" /\ UNCHANGED <<op, by>>
  /\ due' = due \cup R /\ owed' = R
  /\ resumedAt' = now
  /\ UNCHANGED <<now, files, timestamp, slow, pc, startTime, shouldShutdown, tasks>>

\* systemd arms the alarm of a timer whose service is not active (WakeSystem).
CanElapse == {r \in Runners : pc[r] = "inactive" /\ r \notin due}

Resume(R) ==
  /\ power = "asleep" /\ R \subseteq CanElapse
  /\ Rouse(R)
  /\ heard' = IF scheduler = "dead" \/ heard = MaxHeard THEN heard ELSE heard + 1
  /\ UNCHANGED <<bootedAt, scheduler>>

\* The alarm that the scheduler has set boots the machine for the timers in R.
Boot(R) ==
  /\ power = "off"
  /\ Rouse(R)
  /\ bootedAt' = now
  /\ UNCHANGED <<scheduler, heard>>

\* A timer elapses while the machine is up, or its time was missed (Persistent).
Elapse(r) ==
  /\ Up /\ r \in CanElapse
  /\ due' = due \cup {r}
  /\ UNCHANGED <<machine, clock, files, daemon, pc, startTime, shouldShutdown, tasks, owed>>

StartService(r) ==
  /\ Up /\ r \in due
  /\ due' = due \ {r}
  /\ pc' = [pc EXCEPT ![r] = "begin"]
  /\ MakeDirectory
  /\ UNCHANGED <<machine, clock, daemon, startTime, shouldShutdown, tasks, owed>>

TasksEnd(r) ==
  /\ Up /\ r \in tasks
  /\ tasks' = tasks \ {r}
  /\ UNCHANGED <<machine, clock, files, daemon, due, pc, startTime, shouldShutdown, owed>>

-----------------------------------------------------------------------------
(* The scheduler.                                                          *)

StartScheduler ==
  /\ Up /\ scheduler = "dead"
  /\ scheduler' = "idle"
  /\ MakeDirectory
  /\ UNCHANGED <<machine, clock, heard, timestamp, slow, runner>>

StopScheduler ==
  /\ Up /\ scheduler # "dead"
  /\ scheduler' = "dead" /\ heard' = 0 /\ timestamp' = 0
  /\ RemoveDirectory
  /\ UNCHANGED <<machine, clock, slow, runner>>

\* PostSleep: take the time, and create or truncate the file, if it can be.
CreateStamp ==
  /\ Up /\ scheduler = "idle" /\ heard > 0
  /\ heard' = heard - 1
  /\ slow' = (slow \/ now > resumedAt)
  /\ IF directory
     THEN scheduler' = "write" /\ timestamp' = now /\ file' = "empty" /\ stamp' = 0
     ELSE UNCHANGED <<scheduler, timestamp, file, stamp>>
  /\ UNCHANGED <<machine, clock, directory, runner>>

\* Seeded fault: the file is opened again to be written.
FaultOpened == TRUE

\* The open file is still the one in the directory.
Opened == file = "empty"

\* A file that was removed in between is written all the same, and unseen.
WriteStamp ==
  /\ Up /\ scheduler = "write"
  /\ scheduler' = "idle" /\ timestamp' = 0
  /\ IF Opened THEN file' = "written" /\ stamp' = timestamp
               ELSE UNCHANGED <<file, stamp>>
  /\ UNCHANGED <<machine, clock, directory, heard, slow, runner>>

-----------------------------------------------------------------------------
(* The runner.                                                             *)

Goto(r, l) == pc' = [pc EXCEPT ![r] = l]
At(r, l)   == Up /\ pc[r] = l

CausedBoot == now - bootedAt < MinInnocentUptime

Excuse(r, why) == owed' = IF why THEN owed \ {r} ELSE owed

\* The first lines of main: the time, and caused_boot, for which an error of sysinfo
\* counts as no.  A runner is excused from what it cannot recognise any more,
\* because its service was started too late.
Begin(r) ==
  /\ At(r, "begin") /\ Goto(r, "start")
  /\ startTime' = [startTime EXCEPT ![r] = now]
  /\ \/ /\ shouldShutdown' = [shouldShutdown EXCEPT ![r] = CausedBoot]
        /\ Excuse(r, IF resumedAt = bootedAt THEN now >= bootedAt + MinInnocentUptime
                                             ELSE now >= resumedAt + MinInnocentWaketime)
     \/ /\ shouldShutdown' = [shouldShutdown EXCEPT ![r] = FALSE]
        /\ Excuse(r, TRUE)
  /\ UNCHANGED <<machine, clock, files, daemon, due, tasks>>

\* start_unit asks for the tasks; it returns when they are done.
StartTasks(r) ==
  /\ At(r, "start") /\ Goto(r, "wait")
  /\ tasks' = tasks \cup {r}
  /\ UNCHANGED <<machine, clock, files, daemon, due, startTime, shouldShutdown, owed>>

\* main returns.
Leave(r) ==
  /\ Goto(r, "exit")
  /\ startTime' = [startTime EXCEPT ![r] = 0]
  /\ shouldShutdown' = [shouldShutdown EXCEPT ![r] = FALSE]

Returned(r) == At(r, "wait") /\ r \notin tasks

\* Seeded faults: the timestamp's age is not looked at; a timestamp later than the
\* start is taken for somebody else's resume.
FaultAnyAge(r)   == file = "written"
FaultNotOurs(r)  == file = "written" /\ stamp <= startTime[r] /\ startTime[r] - stamp < MinInnocentWaketime

\* caused_wake; a missing or unreadable file counts as no.
CausedWake(r) ==
  /\ file = "written"
  /\ \/ stamp > startTime[r]
     \/ startTime[r] - stamp < MinInnocentWaketime

\* The runner is excused when the latest resume is not, or not yet, in the file.
ReadStamp(r) ==
  /\ Returned(r) /\ ~shouldShutdown[r]
  /\ IF CausedWake(r) THEN Goto(r, "suspend") /\ UNCHANGED <<startTime, shouldShutdown>>
                      ELSE Leave(r)
  /\ Excuse(r, file # "written" \/ stamp < resumedAt)
  /\ UNCHANGED <<machine, clock, files, daemon, due, tasks>>

\* shutdown and suspend: logind takes the request, or has another one already.
Ask(r, o) ==
  /\ Leave(r)
  /\ Request(o, {r}) \/ (op # "none" /\ UNCHANGED machine)
  /\ UNCHANGED <<clock, files, daemon, due, tasks, owed>>

AskShutdown(r) == Returned(r) /\ shouldShutdown[r] /\ Ask(r, "shutdown")
AskSuspend(r)  == At(r, "suspend") /\ Ask(r, "sleep")

\* A D-Bus call fails, or start_unit does: `?`.
Fails(r) ==
  /\ Up /\ pc[r] \in {"start", "wait", "suspend"}
  /\ Leave(r)
  /\ Excuse(r, TRUE)
  /\ UNCHANGED <<machine, clock, files, daemon, due, tasks>>

\* The oneshot service becomes inactive.
Exit(r) ==
  /\ At(r, "exit") /\ Goto(r, "inactive")
  /\ RemoveDirectory
  /\ UNCHANGED <<machine, clock, daemon, due, startTime, shouldShutdown, tasks, owed>>

Runs(r) ==
  \/ StartService(r) \/ Begin(r) \/ StartTasks(r) \/ TasksEnd(r)
  \/ ReadStamp(r) \/ AskShutdown(r) \/ AskSuspend(r) \/ Exit(r)

GoesDown == Suspend \/ PowerOff

Next ==
  \/ Tick \/ GoesDown
  \/ \E o \in {"sleep", "shutdown"} : UserRequests(o)
  \/ \E R \in SUBSET Runners : Resume(R) \/ Boot(R)
  \/ StartScheduler \/ StopScheduler \/ CreateStamp \/ WriteStamp
  \/ \E r \in Runners : Elapse(r) \/ Runs(r) \/ Fails(r)

Spec == Init /\ [][Next]_vars

\* What is under way gets done, and all tasks end.
FairSpec ==
  /\ Spec
  /\ WF_vars(GoesDown)
  /\ \A r \in Runners : WF_vars(Runs(r))

-----------------------------------------------------------------------------
\* Types; the file is in the directory, and nothing in it is from the future.
TypeOK ==
  /\ power \in {"up", "asleep", "off"} /\ op \in {"none", "sleep", "shutdown"}
  /\ now \in Times /\ bootedAt \in Times /\ resumedAt \in Times
  /\ stamp \in Times /\ timestamp \in Times
  /\ directory \in BOOLEAN /\ file \in {"missing", "empty", "written"}
  /\ scheduler \in {"dead", "idle", "write"} /\ heard \in 0..MaxHeard
  /\ due \subseteq Runners /\ tasks \subseteq Runners
  /\ by \subseteq Runners /\ owed \subseteq Runners
  /\ pc \in [Runners -> PCs] /\ startTime \in [Runners -> Times]
  /\ shouldShutdown \in [Runners -> BOOLEAN] /\ slow \in BOOLEAN
  /\ file # "missing" => directory
  /\ stamp <= now

\* A runner leaves a machine alone that booted MinInnocentUptime, or resumed
\* MinInnocentWaketime, before the runner started: whatever the other runners,
\* the users and the scheduler did to the machine and to the file meanwhile.
\* (If the scheduler was slow to stamp a resume, it looks more recent.)
InnocentLeftAlone ==
  \A r \in Runners :
    /\ shouldShutdown[r] => startTime[r] < bootedAt + MinInnocentUptime
    /\ pc[r] = "suspend" /\ ~slow => startTime[r] < resumedAt + MinInnocentWaketime

\* A machine that a timer woke or booted goes back to rest: unless the runner of
\* the timer failed, was started too late, or did not find the resume in the file.
ReturnsToRest ==
  \A r \in Runners : (Up /\ r \in owed) ~> (~Up \/ r \notin owed)

\* No runner asks for the machine to go down while there are tasks running.
TasksComplete == [][op = "none" /\ op' # "none" /\ by' # {} => tasks = {}]_vars

\* Every resume that the scheduler handles gets into the file.
ResumesAreStamped == [][heard' < heard /\ scheduler' # "dead" => file' # "missing"]_vars
=============================================================================
