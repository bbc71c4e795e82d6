----------------------------- MODULE WakeAlarm -----------------------------
(***************************************************************************)
(* What the scheduler's callback does before a shutdown (the PreShutdown   *)
(* arm of src/bin/scheduler/main.rs, with next_activation, set_wake_alarm, *)
(* time.rs and rtcwake.rs), between systemd's timers, the kernel's         *)
(* real-time clock and the other programs that use it.                     *)
(*                                                                         *)
(* The callback asks systemd for the next elapse of every timer, takes the *)
(* soonest, reads the RTC's wake alarm and writes it back, earlier if need *)
(* be.  Time passes, other programs write the alarm, and the shutdown goes *)
(* on between any two of these calls.                                      *)
(*                                                                         *)
(* Time is counted in ticks, Sub of them to a second: the RTC knows only   *)
(* seconds.  A hardware time is what the RTC's registers show, UTC or local*)
(* time; a program's times are UTC, and 0 is the beginning of 1970.  An    *)
(* Option is a set of at most one element.                                 *)
(***************************************************************************)
EXTENDS Integers, FiniteSets

CONSTANTS
  Units,         \* number of TIMER_UNITS, which are visited in order
  Sub,           \* ticks in a second
  Start,         \* bound: the first tick...
  MaxTime,       \* bound: ...and the last
  Nanos, Word,   \* 1000 and 2^64: a tick is a microsecond to from_timestamp_usecs
  ElapsePoints,  \* bound: the elapse points systemd answers with, 0 for "none"
  Adjtimes,      \* bound: what is in /etc/adjtime
  ChangeAt, ZoneBefore, ZoneAfter
                 \* local time minus UTC is ZoneBefore up to the tick ChangeAt
                 \* and ZoneAfter from then on

Ticks == Start..MaxTime
Never == Word - 1      \* USEC_INFINITY

ASSUME ConstantsAssumption ==
  /\ Units \in Nat \ {0} /\ Sub \in Nat \ {0} /\ Start \in Nat \ {0} /\ MaxTime \in Nat /\ Start <= MaxTime
  /\ Nanos \in Nat \ {0} /\ Word \in Nat /\ 2 * Nanos * (MaxTime + 1) <= Word
  /\ ElapsePoints \subseteq 0..MaxTime \cup {Never} /\ 0 \in ElapsePoints
  /\ Adjtimes \subseteq {"missing", "UTC", "LOCAL", "invalid"}
  /\ ChangeAt \in Int /\ ZoneBefore \in Int /\ ZoneAfter \in Int
  /\ ZoneBefore % Sub = 0 /\ ZoneAfter % Sub = 0 /\ ChangeAt % Sub = 0

\* No timer elapses on the first day of 1970.
ASSUME ElapseAssumption ==
  \A u \in ElapsePoints \ {0} : u + ZoneBefore >= 0 /\ u + ZoneAfter >= 0

VARIABLES
  now,      \* CLOCK_REALTIME
  boot,     \* the tick CLOCK_MONOTONIC counts from
  power,    \* "up", "delay" (the lock is held), "stopping" or "off"
  adjtime,  \* what is in /etc/adjtime
  hwZone,   \* hardware time minus UTC, as the clock has been left running
  rtc,      \* the RTC's wake alarm
  pc,       \* the call the callback makes next
  unit,     \* the timer unit it is at
  local,    \* the elapse points and monotonic_now of next_activation
  alarm,    \* alarm_time, the fold's accumulator
  config,   \* alarm_config
  \* History variables, read by the properties only:
  seen,      \* when the first timer of the units that answered really elapses
  scheduled, \* set_wake_alarm has returned Ok for this shutdown
  excuses    \* what has come between the callback and the wake-up

environment == <<now, boot, power, adjtime, hwZone>>
handler     == <<pc, unit, local, alarm, config>>
history     == <<seen, scheduled, excuses>>
vars        == <<now, boot, power, adjtime, hwZone, rtc, pc, unit, local,
                 alarm, config, seen, scheduled, excuses>>

None    == {}
Some(t) == {t}
NoAlarm == [enabled |-> FALSE, time |-> 0]
NoLocal == [real |-> 0, mono |-> 0, monoNow |-> 0]
Excuses == {"overdue", "zone", "drift", "intruder", "fired", "rtc", "never", "refused"}
InHandler == pc \in {"realtime", "monotonic", "monoClock", "realClock", "read", "write"}

-----------------------------------------------------------------------------
(* Conversions of time.rs and rtcwake.rs.                                  *)

\* Signed(w): the bits of w as an i64.
Signed(w) == IF 2 * w >= Word THEN w - Word ELSE w

\* (usecs * 1000) as i64, which wraps, since a release build is what is packaged.
FromTimestampUsecs(u) == Signed((u * Nanos) % Word) \div Nanos

\* RtcTime has no fraction of a second.
Truncate(t) == t - (t % Sub)

\* read_clock_mode: without the file the clock is in UTC; a file of any other content
\* is an error.
ClockMode == CASE adjtime = "LOCAL"            -> Some("Local")
               [] adjtime \in {"missing", "UTC"} -> Some("Utc")
               [] adjtime = "invalid"          -> None

Offset(t) == IF ClockMode # Some("Local") THEN 0 ELSE IF t < ChangeAt THEN ZoneBefore ELSE ZoneAfter

\* Seeded fault: the alarm is rounded up to the next second.
FaultRoundUp(t) == Truncate(t + Sub - 1) + Offset(t)

ToHardware(t) == Truncate(t) + Offset(t)

\* The offsets local time is ever at.
Zones == IF ClockMode = Some("Local") THEN {ZoneBefore, ZoneAfter} ELSE {0}

\* The instants at which local time is h: two in the hour that is repeated when it is
\* set back, none in the one that is skipped when it is set forward.
Exact(h) == {t \in {h - z : z \in Zones} : t + Offset(t) = h}

\* What to_datetime may return.  from_local_datetime of the chrono that Cargo.lock
\* pins asks mktime, which always comes up with one instant: in the repeated hour
\* one of the two, in the skipped one that of either offset.
InstantsOf(h) == IF Exact(h) # {} THEN Exact(h) ELSE {h - z : z \in Zones}

-----------------------------------------------------------------------------
(* The kernel's RTC.                                                       *)

HwNow(t) == Truncate(t) + hwZone

\* RTC_WKALM_SET refuses a year before 1970, and an alarm that is not in the future
\* goes off at once.
Valid(h)   == h >= 0
Armed(alm) == IF alm.enabled /\ alm.time > HwNow(now) THEN alm ELSE NoAlarm

Rings(t) == rtc.enabled /\ rtc.time <= HwNow(t)

Init ==
  /\ now = Start /\ boot = Start /\ power = "up"
  /\ adjtime \in Adjtimes
  /\ hwZone = Offset(Start)
  /\ rtc = NoAlarm
  /\ pc = "idle" /\ unit = 0 /\ local = NoLocal /\ alarm = None /\ config = rtc
  /\ seen = {} /\ scheduled = FALSE /\ excuses = {}

\* The daemon's state in a machine that has just started.
Restart ==
  /\ power' = "up" /\ boot' = now'
  /\ pc' = "idle"
  /\ seen' = {} /\ scheduled' = FALSE /\ excuses' = {}

\* A tick of all clocks.  The alarm turns the machine on when it is off, and
\* is gone in any case.
Tick ==
  /\ now < MaxTime
  /\ now' = now + 1
  /\ rtc' = IF Rings(now + 1) THEN NoAlarm ELSE rtc
  /\ IF power = "off" /\ Rings(now + 1)
     THEN Restart
     ELSE /\ UNCHANGED <<power, boot, pc, seen, scheduled>>
          /\ excuses' = excuses
               \cup (IF scheduled /\ Rings(now + 1) THEN {"fired"} ELSE {})
               \cup (IF pc = "realClock" THEN {"drift"} ELSE {})
  /\ UNCHANGED <<adjtime, hwZone, unit, local, alarm, config>>

UserBoots ==
  /\ power = "off"
  /\ UNCHANGED now
  /\ Restart
  /\ UNCHANGED <<adjtime, hwZone, rtc, unit, local, alarm, config>>

\* The operating system writes the current local time to the hardware clock.
SyncHardwareClock ==
  /\ power # "off"
  /\ hwZone' = Offset(now) /\ hwZone' # hwZone
  /\ excuses' = IF scheduled THEN excuses \cup {"zone"} ELSE excuses
  /\ UNCHANGED <<now, boot, power, adjtime, rtc, handler, seen, scheduled>>

\* Another program cancels the alarm or sets it, at local time or counting from what
\* the RTC shows.
OtherProgram ==
  /\ power # "off"
  /\ \/ \E t \in Ticks : \E z \in {Offset(t), hwZone} :
          /\ t > now /\ Valid(Truncate(t) + z)
          /\ rtc' = Armed([enabled |-> TRUE, time |-> Truncate(t) + z])
     \/ rtc' = NoAlarm
  /\ excuses' = IF scheduled \/ pc = "write" THEN excuses \cup {"intruder"} ELSE excuses
  /\ UNCHANGED <<environment, handler, seen, scheduled>>

-----------------------------------------------------------------------------
(* The callback.                                                           *)

\* logind announces the shutdown, and the daemon calls the callback.
PreShutdown ==
  /\ power = "up" /\ pc = "idle"
  /\ power' = "delay"
  /\ pc' = "realtime" /\ unit' = 1
  /\ seen' = {} /\ scheduled' = FALSE /\ excuses' = {}
  /\ UNCHANGED <<now, boot, adjtime, hwZone, rtc, local, alarm, config>>

Earliest(S) == {t \in S : \A u \in S : t <= u}

\* Seeded fault: a unit that cannot be read discards the ones before it.
FaultDiscard(acc, t) == IF t = None THEN None ELSE Earliest(acc \cup t)

\* One step of the fold: an Err (None) leaves the accumulator alone.
Soonest(acc, t) == Earliest(acc \cup t)

\* Seeded fault: an alarm is set even when no unit has answered.
FaultAlwaysSet(acc) == "read"

AfterLast(acc) == IF acc = None THEN "idle" ELSE "read"

\* An elapse point of a timer: 0 is no time; any other value is taken for one.
Found(u) == IF u = 0 THEN None ELSE Some(FromTimestampUsecs(u))

\* The unit's next elapse on either clock, whichever exists and is earlier.
NextElapse(real, mono) == Earliest(real \cup mono)

\* When a timer with these elapse points really elapses.
Activations(real, mono) ==
  ({real} \ {0, Never}) \cup {boot + m : m \in {mono} \ {0, Never}}

\* next_activation has returned t for the current unit.  When no unit has
\* answered there is nothing to set.
Collect(t) ==
  /\ alarm' = Soonest(alarm, t)
  /\ local' = NoLocal
  /\ IF unit < Units
     THEN unit' = unit + 1 /\ pc' = "realtime"
     ELSE unit' = 0 /\ pc' = AfterLast(alarm')
  /\ UNCHANGED <<environment, rtc, config, scheduled>>

\* What its elapse points say.
Learn ==
  /\ seen' = Earliest(seen \cup Activations(local.real, local.mono))
  /\ excuses' = IF Never \in {local.real, local.mono} THEN excuses \cup {"never"} ELSE excuses

\* GetUnit or a property read fails or runs into PROXY_TIMEOUT.
UnitFails ==
  /\ pc \in {"realtime", "monotonic"}
  /\ Collect(None)
  /\ UNCHANGED <<seen, excuses>>

\* systemd's answers are arbitrary: a timer may also elapse between the two.
ReadRealtime ==
  /\ pc = "realtime"
  /\ \E u \in ElapsePoints : local' = [local EXCEPT !.real = u]
  /\ pc' = "monotonic"
  /\ UNCHANGED <<environment, rtc, unit, alarm, config, history>>

ReadMonotonic ==
  /\ pc = "monotonic"
  /\ \/ Collect(NextElapse(Found(local.real), None)) /\ Learn
     \/ /\ \E u \in ElapsePoints \ {0} : local' = [local EXCEPT !.mono = u]
        /\ pc' = "monoClock"
        /\ UNCHANGED <<environment, rtc, unit, alarm, config, history>>

\* monotonic_to_realtime reads the two clocks one after the other.
ReadMonotonicClock ==
  /\ pc = "monoClock"
  /\ local' = [local EXCEPT !.monoNow = now - boot]
  /\ pc' = "realClock"
  /\ UNCHANGED <<environment, rtc, unit, alarm, config, history>>

\* Seeded fault: the time since boot is taken for the time.
FaultToRealtime(mono, monoNow) == mono

ToRealtime(mono, monoNow) == {m + (now - monoNow) : m \in mono}

ReadRealtimeClock ==
  /\ pc = "realClock"
  /\ Collect(NextElapse(Found(local.real), ToRealtime(Found(local.mono), local.monoNow)))
  /\ Learn

\* The callback is over without the alarm having been written.
GiveUp(why) ==
  /\ pc' = "idle" /\ alarm' = None /\ config' = NoAlarm
  /\ excuses' = excuses \cup {why}
  /\ UNCHANGED <<environment, rtc, unit, local, seen, scheduled>>

\* Rtc::new, read_clock_mode and RTC_WKALM_RD; an error of any is logged.
ReadAlarm ==
  /\ pc = "read"
  /\ \/ GiveUp("rtc")
     \/ /\ ClockMode # None
        /\ pc' = "write" /\ config' = rtc
        /\ UNCHANGED <<environment, rtc, unit, local, alarm, history>>

\* The alarm_time of `if let Some(alarm_time)`.
AlarmTime == CHOOSE t \in alarm : TRUE

\* The alarm that is set is earlier, when current is what its time was taken for.
Keeps(current) == config.enabled /\ current < AlarmTime

\* Seeded fault: an alarm that is already set is always overridden.
FaultOverride(current) == ToHardware(AlarmTime)

\* The time set_wake_alarm writes back: an earlier alarm is kept.
AlarmToSet(current) == IF Keeps(current) THEN config.time ELSE ToHardware(AlarmTime)

\* Seeded fault: the alarm is given a time but not enabled.
FaultNotEnabled(current) == [config EXCEPT !.time = AlarmToSet(current)]

NewConfig(current) == [enabled |-> TRUE, time |-> AlarmToSet(current)]

\* What stands in the way of the alarm from the start: an activation is due this
\* second, the earlier alarm that was kept has gone off already, or the hardware
\* clock is not left at the offset of the alarm.
ExcusesOf(current) ==
  (IF \E t \in seen : t <= now \/ ToHardware(t) <= HwNow(now) THEN {"overdue"} ELSE {})
    \cup (IF Keeps(current) /\ config.time <= HwNow(now) THEN {"fired"} ELSE {})
    \cup (IF hwZone = (IF Keeps(current) THEN config.time - current ELSE Offset(AlarmTime))
          THEN {} ELSE {"zone"})

\* The alarm read before is changed and written back, whatever the RTC holds by now.
SetAlarm(current) ==
  /\ pc' = "idle" /\ alarm' = None /\ config' = NoAlarm
  /\ rtc' = Armed(NewConfig(current))
  /\ scheduled' = TRUE
  /\ excuses' = excuses \cup ExcusesOf(current)
  /\ UNCHANGED <<environment, unit, local, seen>>

\* The rest of set_wake_alarm.  RTC_WKALM_SET may also fail for other reasons.
WriteAlarm ==
  /\ pc = "write"
  /\ \E current \in InstantsOf(config.time) :
       \/ ~Valid(AlarmToSet(current)) /\ GiveUp("refused")
       \/ Valid(AlarmToSet(current)) /\ (SetAlarm(current) \/ GiveUp("rtc"))

-----------------------------------------------------------------------------
(* The shutdown goes on.                                                   *)

\* The daemon has let go of the lock, or logind's limit has passed.
BeginStop ==
  /\ power = "delay"
  /\ power' = "stopping"
  /\ UNCHANGED <<now, boot, adjtime, hwZone, rtc, handler, history>>

\* The shutdown is called off.
CallOff ==
  /\ power = "stopping"
  /\ power' = "up"
  /\ UNCHANGED <<now, boot, adjtime, hwZone, rtc, handler, history>>

\* systemd has stopped or killed the daemon, and the machine goes off.
PowerOff ==
  /\ power = "stopping"
  /\ power' = "off"
  /\ pc' = "dead" /\ unit' = 0 /\ local' = NoLocal /\ alarm' = None /\ config' = NoAlarm
  /\ UNCHANGED <<now, boot, adjtime, hwZone, rtc, history>>

-----------------------------------------------------------------------------
Callback ==
  \/ UnitFails \/ ReadRealtime \/ ReadMonotonic \/ ReadMonotonicClock
  \/ ReadRealtimeClock \/ ReadAlarm \/ WriteAlarm

Next ==
  \/ Tick \/ UserBoots \/ SyncHardwareClock \/ OtherProgram
  \/ PreShutdown \/ Callback \/ BeginStop \/ CallOff \/ PowerOff

Spec == Init /\ [][Next]_vars

\* Time passes, also while the machine is off.
FairSpec == Spec /\ WF_vars(Tick)

-----------------------------------------------------------------------------
\* Types; a unit is only looked at inside the callback, and the callback never
\* gets to the RTC without an activation time.
TypeOK ==
  /\ now \in Ticks /\ boot \in Start..now
  /\ power \in {"up", "delay", "stopping", "off"}
  /\ adjtime \in Adjtimes /\ hwZone \in Int
  /\ rtc \in [enabled : BOOLEAN, time : Int] /\ config \in [enabled : BOOLEAN, time : Int]
  /\ pc \in {"idle", "dead"} \/ InHandler
  /\ pc \in {"realtime", "monotonic", "monoClock", "realClock"} => unit \in 1..Units
  /\ local \in [real : ElapsePoints, mono : ElapsePoints, monoNow : Nat]
  /\ alarm \subseteq Int /\ Cardinality(alarm) <= 1 /\ seen \subseteq Nat /\ Cardinality(seen) <= 1
  /\ pc \in {"read", "write"} => alarm # None
  /\ scheduled \in BOOLEAN /\ excuses \subseteq Excuses

\* One timer that answers is enough: whatever the others do, the callback ends with
\* the alarm written, unless a call to the RTC fails or a timer has answered with
\* systemd's value for "never", which is taken for a time before 1970.
OneTimerIsEnough ==
  pc = "idle" /\ seen # {} => scheduled \/ excuses \cap {"rtc", "never"} # {}

\* The machine does not sleep through a round of tasks: when set_wake_alarm has
\* returned Ok, the machine is never off at an activation time the callback was
\* told of, whichever timers failed to answer and whatever alarm was there
\* before, unless one of the named excuses applies.
NeverSleepsThrough ==
  power = "off" /\ scheduled /\ excuses = {} => \A t \in seen : now < t

\* The machine does come up again, with nobody there to press the button, for
\* every round of tasks within the time modelled.
WakesForTasks ==
  (power = "off" /\ scheduled /\ excuses = {} /\ \E t \in seen : t <= MaxTime)
    ~> (power # "off")

\* To the outside the machine is an alarm clock: it goes off with activation times
\* that are all ahead, keeps them, whatever happens, while it is off, and does not let
\* any of them pass.
AlarmClock == INSTANCE AlarmClock WITH
  Times   <- 0..(2 * MaxTime),
  on      <- power # "off",
  promise <- IF scheduled /\ excuses = {} THEN seen ELSE {}

ImplementsAlarmClock == AlarmClock!Spec

\* By how much local time is set forward or back.
Shift == IF ZoneBefore < ZoneAfter THEN ZoneAfter - ZoneBefore ELSE ZoneBefore - ZoneAfter

\* Writing the alarm back never cancels an alarm of another program that was there
\* when the callback read it, and never delays it; only one in the hour that local
\* time repeats or skips may be taken for a later one, and be late by that hour.
EarlierAlarmKept ==
  [][pc = "write" /\ "intruder" \notin excuses /\ rtc.enabled
       => /\ rtc'.time <= rtc.time + (IF Cardinality(InstantsOf(rtc.time)) = 1 THEN 0 ELSE Shift)
          /\ rtc'.time > HwNow(now) => rtc'.enabled]_pc

\* The same as NeverSleepsThrough for a round that is already overdue.
ScheduledMeansArmed ==
  power = "off" /\ scheduled /\ excuses \subseteq {"overdue"} => rtc.enabled

\* The same across a change between winter and summer time.
NeverSleepsThroughDst ==
  power = "off" /\ scheduled /\ excuses \subseteq {"zone"} => \A t \in seen : now < t
=============================================================================
