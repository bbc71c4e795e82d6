# Night Kitchen in TLA+

Specifications, model-checking configurations and proofs for Night Kitchen: a daemon
(`night-kitchen-scheduler`) that makes a machine wake up for periodic tasks, and a program
(`night-kitchen-runner`) that runs the tasks and puts the machine to rest again. The modules are
written from the source; paths below are relative to the repository, line numbers are those of
the files in it. `PROJECT.json` lists, for every definition, the lines it stands for.

## 1. The system

| Component | Source | State | Operations |
|---|---|---|---|
| Power monitor | `src/bin/scheduler/power_monitor.rs`, main loop of `scheduler/main.rs` | inhibitor lock (a file descriptor), two D-Bus matchers, incoming signals, the SIGTERM flag | `register`, `take_inhibitor`, `release_inhibitor`, the handlers of `PrepareForSleep` and `PrepareForShutdown`, the loop |
| Wake alarm | PreShutdown callback, `next_activation`, `set_wake_alarm` (`scheduler/main.rs`), `time.rs`, `rtcwake.rs` | the fold over the timer units, the alarm configuration, the RTC's alarm | read two timers, convert between clocks, read, compare and write the RTC's alarm |
| Resume timestamp | `update_resume_timestamp` (`scheduler/main.rs`), `lib.rs` | the file `resume-timestamp` | create and write at every resume |
| Job wait | `start_unit` (`runner/systemd.rs`) | matcher, `started` flag | subscribe, match, StartUnit, process until the JobRemoved of the unit |
| Runner decision | `runner/main.rs`, `shutdown` and `suspend` of `runner/systemd.rs` | `start_time`, `should_shutdown` | `caused_boot`, the tasks, `caused_wake`, power off or suspend |
| Services and timers | `systemd/*` | runtime directory, timers | start and stop with the directory, elapse, wake the machine |
| D-Bus helpers | `src/dbus.rs`, with the blocking connection of the dbus crate | the connection's incoming messages, the call it waits for | `login_manager`, `systemd_manager`, `systemd_unit`, `PROXY_TIMEOUT` |
| D-Bus bindings | `src/dbus/*.rs` (generated) | none | a stub for each method and property, a struct for each signal |
| Logging, packaging | `lib.rs::root_logger`, `packaging/`, `scripts/` | none | none at run time |

How they interact:

* logind broadcasts `PrepareForSleep`/`PrepareForShutdown` to the scheduler and waits for its
  delay lock; the scheduler's handler calls the callback, then closes or takes the lock;
* before a shutdown the callback asks systemd for the next elapse of the timers and sets the RTC's
  alarm through `/dev/rtc0`, which other programs use too;
* after a resume the callback writes the timestamp file, which runners read later;
* a timer starts the oneshot service of a runner (and wakes the machine from suspend); the runner
  asks systemd for a job, waits for its end, and asks logind for a suspend or a power off, which is
  announced to the scheduler as any other;
* all calls of a process share one connection: while a call waits, signals and late answers of
  earlier calls are queued behind it, and are looked at when the handler is over;
* the services of the scheduler and of both runners share `/run/night-kitchen`.

What is hard about it: signals are handled later than they are sent, and about an operation that
may be over by then; the lock is a resource whose loss nobody reports; calls fail one by one; the
RTC is shared and has a coarser and possibly local clock; decisions are made from values read
hours before; two runners may be active at once; and everything happens at night. `PROJECT.json`
lists these hazards with their lines and the properties aimed at them.

What makes each component correct:

* power monitor: no suspend or shutdown that was announced under the lock goes ahead before the
  callback has returned; the lock always comes back; the daemon never keeps the machine up;
* wake alarm: a machine that is off comes on for every round of tasks the callback knew of; no
  other alarm is delayed; one timer that answers is enough;
* D-Bus calls: an answer is taken for that of its own call; no signal is lost during one; the
  callback's calls fit into logind's limit; no lock is left open that nobody knows of; no call that
  would take the machine down past a lock is ever made;
* job wait: returns after the runner's own job has ended, and does return;
* runner decision: what the user brought up stays up; what a timer brought up goes down again, when
  all tasks are done; every resume is recorded.

## 2. The modules

```
DelayLock   <=(implements)=  PowerMonitor  <-  PowerMonitorProofs
AlarmClock  <=(implements)=  WakeAlarm     <-  WakeAlarmProofs
Bindings    <-  DBusCalls  <-  MCDBusCalls, DBusCallsProofs
StartUnit   <-  MCStartUnit, StartUnitProofs
NightKitchen  <-  MCNightKitchen, NightKitchenProofs
```

**DelayLock** is what a delay lock is for, seen from outside: an operation that was announced under
a promise does not go ahead before it has been acted upon.

**PowerMonitor** models the daemon's process, call by call (`pc`), with the part of logind it talks
to. `queue` is the connection's incoming queue; a handler runs with its message still at the head.
The first half are logind's and the kernel's actions (`Announce`, `GoDown`, `Finish`, ...), the
second the daemon's: `RegisterSleep`, `RegisterShutdown`, `StartupLock`, `HookSigterm` are
`register` and the start of `main`; `CheckFlag`, `ProcessTimesOut`, `Dispatch` the loop;
`CallbackReturns`, `ReleaseInhibitor`, `TakeInhibitor` the handlers. The daemon may crash, be
restarted and be stopped at any call. The callback is one step here; WakeAlarm opens it up.

**AlarmClock** is what the scheduler promises before a shutdown: a machine that goes off has promised
to be on at certain times that are all ahead, takes nothing back while it is off, and lets none of
them pass.

**WakeAlarm** models the callback of `PreShutdown`, one action per call, since time passes and
other programs write the alarm between the calls. Time is counted in ticks, `Sub` of them to a
second; the RTC has seconds only (`Truncate`); hardware time is UTC or local time, as
`/etc/adjtime` says (`ClockMode`), and local time changes its offset once (`ChangeAt`). `Collect` is
one round of the fold over `TIMER_UNITS`; `WriteAlarm` is the comparison and the write.
`FromTimestampUsecs` has the width of the code's integers: a product that wraps (a release build
is what `PKGBUILD` packages) and a cast to a signed one. Another value than 0 is a time to the
code, systemd's `USEC_INFINITY` (`Never`) included, which becomes the microsecond before 1970.
The ways out of the callback without an alarm are all there: no unit has answered, a call to the RTC
fails, or the RTC refuses a time before 1970 (`Valid`). `InstantsOf` is `to_datetime`: a local time of the
hour that is repeated in autumn is the time of two instants, one of the hour that is skipped in spring of
none. The chrono that `Cargo.lock` pins (0.4.10) asks `mktime`, which always comes up with one, so that
the `unwrap` cannot fail; which one is left open.
`seen`, `scheduled` and `excuses` are history: when the timers that answered really elapse
(`Activations`, not what the code makes of it), whether `set_wake_alarm` returned Ok, and what has
come between since. WakeAlarm implements AlarmClock with `seen` as the promise, while there is
no excuse. An alarm that the RTC refuses (`"refused"`) does not excuse a callback without an alarm by
itself: that it happens only when a timer has answered "never" is part of `OneTimerIsEnough`.

**Bindings** is the table of the generated bindings: each method stub of logind's and systemd's
managers, each property of the timer interface and each signal, with the types of its arguments
and the names it puts on the bus. **DBusCalls** sends calls from that table over a bus, message by
message, where the other modules have a single step. `SendCall`, `Returns`, `IsRefused` and
`TimesOut` are `send_with_reply_and_block`; `Dispatch` and `Drop` are `conn.process`; `Serve` is a
service that answers its oldest call, or never does. Locks are identified by the `Inhibit` call
that took them, so that the model sees a lock whose answer came too late; `Closed` is the
descriptor that a dropped answer closes. `PathOf` is `systemd_unit`, whose object path is used for two
more calls while systemd may unload the unit (`Reload`). The daemon's handlers (`Handler`) are as in
PowerMonitor, with the callback's calls in them; a shutdown may be called off (`CallOff`), which the daemon
only logs: the lock does not come back before the next resume.

**StartUnit** models `start_unit` of any number of runners with systemd's job table. A start job
that exists is joined, a stop job makes mode "fail" refuse; jobs end in any order; other clients
start and stop the same units. `Broadcast` puts JobRemoved into the queues of the connections that
have a matcher; `Process` dispatches one.

**NightKitchen** is the whole: runners, scheduler, timers, users and the machine. `Begin` are the
first lines of `main` with `caused_boot`; `ReadStamp` is `caused_wake` on the file; `CreateStamp`
and `WriteStamp` are `update_resume_timestamp`, which truncates and then writes; `MakeDirectory`
and `RemoveDirectory` are what `RuntimeDirectory=` does at the start and at the stop of each service.
`start_unit` is `StartTasks` and `Returned` here, and an operation asked of logind goes ahead some
time later; the steps behind them are in the other modules. `owed` is history: the timers that
brought the machine up and whose runners have no excuse for leaving it up.

Operators named `Fault...` are seeded faults: plausible mistakes in the definition that follows
them, named in `PROJECT.json` under "mutants". No specification uses them.

## 3. The runs

| Run | Checks | Result |
|---|---|---|
| `power_monitor` | `TypeOK`, `CallbackBeforeDown`, `IdleHoldsLock`, `ImplementsDelayLock`, `SleepGoesAhead`, `ShutdownGoesAhead` | hold |
| `power_monitor_stale` | `HeldLockDelays` | violated |
| `power_monitor_abort` | `IdleHoldsLockAlways` | violated |
| `wake_alarm` | `TypeOK`, `OneTimerIsEnough`, `NeverSleepsThrough`, `EarlierAlarmKept`, `WakesForTasks`, `ImplementsAlarmClock` | hold |
| `wake_alarm_overdue` | `ScheduledMeansArmed` | violated |
| `wake_alarm_summer` | `NeverSleepsThroughDst` | violated |
| `start_unit` | `TypeOK`, `ReturnsAfterJob`, `EndIsNoticed` | hold |
| `night_kitchen` | `TypeOK`, `InnocentLeftAlone` | hold |
| `night_kitchen_rest` | `ReturnsToRest` | holds |
| `night_kitchen_tasks` | `TasksComplete` | violated |
| `night_kitchen_stamp` | `ResumesAreStamped` | violated |
| `dbus_calls` | `TypeOK`, `LocksRespected`, `CallbackInTime`, `AnswersBelong`, `EveryAnnouncementHandled`, `WellAddressed`, `LateLockGoes` | hold |

Each passing property has its exceptions in the open, as a condition of the property; most of the
violated ones are the same property without one of them, as the repository's documents state it.

The violated ones show:

* **An old announcement releases a new lock** (`power_monitor.rs:66`). The matchers are registered
  before the lock is taken. An announcement queued before is handled after, and closes the lock
  under a later operation, which goes ahead without its callback.
* **A shutdown that is called off loses the lock** (`power_monitor.rs:158`). `PrepareForShutdown(false)`
  is only logged; until the next resume the daemon delays nothing.
* **An overdue timer leaves no alarm** (`scheduler/main.rs:101`). A timer may be due for up to
  `AccuracySec=12h` before it runs. A shutdown in that time writes an alarm in the past, the kernel
  lets it go off at once, and the log says "Scheduled wake alarm".
* **Summer time** (`rtcwake.rs:228`). With the RTC in local time the alarm is made with the offset at
  the alarm, while the RTC of a machine that is off keeps the offset of the shutdown: the alarm comes
  too late when local time is set forward in between.
* **The first runner takes the machine down under the second** (`runner/main.rs:44`). Once a week both
  timers elapse together; each runner decides alone.
* **A runner removes the scheduler's directory** (`systemd/night-kitchen-daily.service:8`). All three
  services declare `RuntimeDirectory=night-kitchen`; systemd removes it when any of them stops.
  After the first runner has ended, resumes are no longer recorded, and a machine that a timer woke
  stays up. This rests on systemd's documented default, `RuntimeDirectoryPreserve=no`.

Two weaknesses of the callback have no run of their own: each is an exception of a property of
`wake_alarm`, which fails without it. One timer that is loaded but not active, whose next elapse is
`USEC_INFINITY`, comes out as the soonest of all, before 1970; the RTC refuses it, and the round of the other
timer is slept through (`time.rs:9`, excuse `"never"` of `OneTimerIsEnough`). And with the RTC in local
time, an alarm that another program has set in the repeated (or skipped) hour may be taken for the later
of the instants it can stand for, overridden because the tasks come before that, and written back
up to an hour later than it was (`rtcwake.rs:217`): `EarlierAlarmKept` allows such an alarm a delay of
`Shift`, the change of the offset, and no other alarm any.

### Bounds, and why they are enough

* `PowerMonitor`: three suspends or shutdowns (`MaxOps`): one that leaves an announcement behind,
  one it affects, one after. Crashes and restarts are unbounded. The proofs have no bound.
* `WakeAlarm`: two timer units as in `TIMER_UNITS`, half-second ticks, seven ticks from `Start`, elapse
  points none, early, late and never, so that the fold, truncation and an alarm before, in and
  after the current second all occur. `Nanos` and `Word` stand for 1000 and 2^64: 4 and 128 keep every
  time modelled in the exact range, and the greatest value outside, as 1000 and 2^64 do with the next
  290 years. `Start` is positive, so that "before 1970" and "in the past" differ. The passing run sets
  local time back by two seconds in the middle, which repeats four ticks and leaves alarms in and around
  them, with `/etc/adjtime` missing, local or unreadable; the summer run
  sets it forward. Local time changes between two seconds and its offsets are whole seconds
  (`ConstantsAssumption`), as in the time zone database; no timer elapses in the first hours of 1970, where
  the offset would decide what the RTC refuses (`ElapseAssumption`).
* `DBusCalls`: ticks of 500 ms, so that `PROXY_TIMEOUT` is one and logind's default limit of 5 s is ten
  (`DelayMax`); six calls at most, one after the other, take six ticks. Two operations in a
  boot (`MaxOps`): a suspend whose new lock comes late, and the shutdown after it; or a shutdown that is
  called off, and another operation without the lock. `LateLockGoes` looks at twelve calls, as many as two
  callbacks make. Calls of runners and
  users are on their way one at a time. There is at least one unit, and none has the name
  that stands for the managers' object (`UnitsAssumption`).
* `StartUnit`: a daily and a weekly runner with targets of their own, three jobs: an older one, the
  runner's, and another.
* `NightKitchen`: the windows of 300 s and 60 s keep their order as 2 and 1 ticks, and every
  comparison with them comes out both ways. Two interchangeable runners for safety (`SYMMETRY` only
  there, it is unsound for liveness). `ReturnsToRest` has one runner, a longer clock and two
  unhandled resumes: with two runners the state space is too large for a liveness check in a
  few minutes. A second runner reaches the first one's wait only by removing the directory, which is an
  excuse, and by asking for an operation, which takes the machine down. `MaxHeard` bounds the resumes
  the scheduler has not heard of.

### Fairness

* `PowerMonitor`: weak fairness of the daemon's steps (a live process runs) and of logind going ahead
  once nothing delays it. Not of users, crashes, restarts or logind's delay limit: `SleepGoesAhead`
  and `ShutdownGoesAhead` must not be owed to the limit.
* `WakeAlarm`: weak fairness of the clock only; nobody presses the button.
* `DBusCalls`: weak fairness of the daemon and of time. Not of the services: they owe nobody an answer.
* `StartUnit`: weak fairness of the runners. Not of systemd: tasks may run for ever.
* `NightKitchen`: weak fairness of a runner, of its service's start, of its tasks' end and of an
  accepted operation. That tasks end is an assumption about the user's units. Nothing is
  assumed of the scheduler, whose absence is an excuse, or of timers and users.

Deadlock is checked in every run but `start_unit`, whose runners finish.

## 4. The proofs

TLAPS checks them for every value of the constants, under the named assumptions in the modules
(bounds are naturals, the windows are positive, every runner has a target). TLC has checked each
inductive invariant, or its parts, on the instances above.

**PowerMonitorProofs**: `TypeCorrect`, `CallbackComesFirst`, `LockComesBack` and `Implements`
(the refinement of DelayLock), all from `Inductive`. `CallbackBeforeDown` is not inductive: nothing in
it says that the lock is still held while the announcement waits. The invariant adds
* `QueueInv`: what may be in the queue, and what a handler has in hand;
* `CoverInv`: while a promised announcement waits, the lock is held and no other announcement is
  queued that would release it (here the promise needs "nothing older was queued": the finding
  `HeldLockDelays`);
* `PairInv`: a suspend the daemon will hear of is followed by its end, in the queue or in logind;
* `HealInv`: a daemon without its lock is subscribed to, and waiting for, the end of a suspend.

**StartUnitProofs**: `TypeCorrect` and `WaitIsLongEnough` (`ReturnsAfterJob`). The invariant
`WaitInv`: while the runner's job runs, it is the job of its unit (systemd keeps one per
unit), hence the first JobRemoved of the unit that the runner can see is that of its own job,
unless one was queued before the call.

**NightKitchenProofs**: `TypeCorrect` and `InnocentIsLeftAlone` (`InnocentLeftAlone`). `StampInv`:
what is in the file, and what the scheduler is about to write, is not later than the latest
resume, unless the scheduler was slow once in this boot.

**WakeAlarmProofs**: `TypeCorrect`, `OneTimer`, `NeverSleeps`, `EarlierKept` and `Implements` (the
refinement of AlarmClock), for any number of units, any resolution of the clock and any change of local
time. `NeverSleepsThrough` says nothing of a machine that is still up, and `OneTimerIsEnough` nothing of a
callback at work; the invariant follows the elapse points from the fold into the RTC:
* `SeenInv`: what the fold has found is when the first timer elapses, exactly, unless a timer said
  "never" or a second passed between two clocks (`"drift"`);
* `SettableInv`: without a "never", it is a time that the RTC accepts at either offset;
* `ConfigInv`: an alarm that was read is still in the RTC, unless another program has written it since;
* `ArmedInv`: what has been written rings at or before each of `seen`, and is still ahead;
* `HardwareInv`, `CallbackInv`: hardware times are whole seconds, there is one soonest time at most, and a
  callback does not outlive its machine.

The lemmas they share are about `Truncate`, which is monotone and loses less than a second,
`ToHardware` and its inverse, and `FromTimestampUsecs`, which is exact up to `MaxTime` and -1 for
`Never`. `SetAlarmArms` puts them together: instants are compared and hardware times are written, and the two
agree where the offset is the one the hardware clock is left at. `EarlierKept` rests on
`OverriddenIsLater` (a hardware time that stands for one instant is overridden by an earlier one only) and
`OverriddenByShift` (whatever instant `mktime` picks, the alarm moves by one change of the offset at most).

**DBusCallsProofs**: `TypeCorrect`, `AnswersRight` (`AnswersBelong`), `LocksKept` (`LocksRespected`),
`Addressed` (`WellAddressed`), `AllHandled` (`EveryAnnouncementHandled`), `InTime` (`CallbackInTime`) and
`LocksAccounted`, for any units, number of operations and limit. A late answer may be anywhere
behind the daemon, so the invariant has to say what each message on its way is about:
* `MessageInv`: calls on the bus are the program's own; the one with the serial that is waited for is the
  call the callback is at, and its answer is about the timer the callback is at;
* `CallInv`, `MatchInv`: one call is waited for at most; the path in hand is that of the unit; both
  matchers stay;
* `LockInv`: an open lock is the daemon's inhibitor or in an answer in its inbox;
* `SentInv`, `DueInv`: announcements come in pairs, that an operation begins and that it is over, and the
  inbox holds those that have not been handled, in order;
* `HandlerInv`, `TimeInv`: what the daemon does is due to the announcement it has handled last, and the
  delay so far is at most what the calls since have taken (`Spent`), which is at most what the handled
  announcements account for (`Paid`): one time-out for every operation that is over, three per timer
  (`Worth`) for every shutdown.

`InTime` has a condition: logind's limit is at least `MaxOps + 3 * Len(TimerUnits) * Shutdowns(sent)`
time-outs, where `Shutdowns(sent)` is the number of shutdowns that have been announced in this boot. The
term `MaxOps` is there because the end of an earlier suspend that is still in the inbox when a shutdown is
announced is handled first, and takes a lock, which may cost a time-out of the shutdown's delay. The
number of shutdowns is there because after one that has been called off the daemon has no lock: the next may
be called off at once, and callbacks queue up behind the daemon. (The time since an announcement counts as
delay even if no lock is left.) With systemd's default of 5 s and two timers there is time for one callback
and three such ends. In the run, with two operations, `CallbackInTime` needs no condition: the first is called
off only once its callback has let go of the lock. The code does not enforce the limit: past that, it
passes, as it may in PowerMonitor.

Only model-checked: liveness (`SleepGoesAhead`, `ShutdownGoesAhead`, `WakesForTasks`,
`EndIsNoticed`, `ReturnsToRest`, `LateLockGoes`), which needs fairness and ENABLED and is out of the
prover's reach. Of `LateLockGoes` the safety half is proved (`LocksAccounted`: a lock that is not the
daemon's inhibitor is in its inbox, where `Drop` will close it). Every other property of a passing run is a
theorem. The violated properties have counterexamples, and nothing to prove.

## 5. What is not modelled

* Of the generated bindings, the properties of the two managers, which the program never reads, and
  the loops that append and read arguments; the values of arguments, except where one selects a unit.
* The targets and the installation of the units; logging and the formatting of alarms and dates;
  packaging and release scripts: no state at run time.
* Leap seconds (`rtcwake.rs` maps them to the second before), and steps of the real-time clock by NTP
  or a user: all clocks run at one rate.
* The order of two steps inside `Begin` (`start_time` and `caused_boot`, consecutive lines), and
  NightKitchen's clock is coarse: a tick is a minute or more.

## 6. Plan

Done, in this order: PowerMonitor with DelayLock and their proofs; WakeAlarm; StartUnit and its
proofs; NightKitchen and its proofs; WakeAlarm's integers, error paths and abstract alarm clock;
Bindings and DBusCalls; WakeAlarmProofs; DBusCallsProofs. Next, by importance:

1. An abstract specification of `start_unit` (a call that returns after its own job has ended), and a proof
   that StartUnit implements it; NightKitchen's `StartTasks` and `Returned` are its two steps.
2. DBusCalls as an implementation of the part of PowerMonitor that it opens up, where a call is one
   step, while the daemon neither crashes nor is stopped.
3. The safety halves of `EndIsNoticed` (what a waiting runner has still to hear) and of `ReturnsToRest` (who
   owes the machine its rest).
