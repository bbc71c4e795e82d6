-------------------------- MODULE WakeAlarmProofs --------------------------
(***************************************************************************)
(* Theorems about WakeAlarm, for any number of timer units, any clock and  *)
(* any resolution of it, any change of local time and any elapse points.   *)
(***************************************************************************)
EXTENDS WakeAlarm, FiniteSetTheorems, TLAPS

AtMostOne(S) == \A x, y \in S : x = y

\* A whole second.
Whole(t) == t % Sub = 0

\* What the RTC and the callback hold: times the hardware can show.
HardwareInv ==
  /\ Whole(rtc.time) /\ rtc.time >= 0
  /\ Whole(config.time) /\ config.time >= 0
  /\ Whole(hwZone)

\* The callback has one soonest time at most, nothing outside, and does not run
\* in a machine that is off.
CallbackInv ==
  /\ AtMostOne(alarm) /\ AtMostOne(seen)
  /\ seen \subseteq 0..(2 * MaxTime)
  /\ ~InHandler => alarm = None
  /\ power = "off" => pc = "dead"
  /\ pc \notin {"monoClock", "realClock"} => local.mono = 0
  /\ pc = "realClock" => local.monoNow <= now - boot

\* The soonest time is when the first timer really elapses, unless one of them
\* never does or a second has passed between two clocks.
SeenInv ==
  /\ InHandler /\ seen # {} => alarm # None
  /\ InHandler /\ excuses \cap {"never", "drift"} = {} => alarm = seen
  /\ pc = "realClock" /\ "drift" \notin excuses => local.monoNow = now - boot

\* A time the RTC refuses comes from a timer that never elapses.
Settable(t)  == t + ZoneBefore >= 0 /\ t + ZoneAfter >= 0 /\ t >= 0
SettableInv == InHandler /\ "never" \notin excuses => \A t \in alarm : Settable(t)

\* The alarm that has been read is still the one that is set.
ConfigInv ==
  pc = "write" /\ "intruder" \notin excuses /\ rtc.enabled => config = rtc

\* What set_wake_alarm has written will ring, and not after the first timer.
ArmedInv ==
  /\ InHandler => ~scheduled
  /\ scheduled /\ excuses = {} =>
       /\ rtc.enabled /\ HwNow(now) < rtc.time
       /\ \A t \in seen : rtc.time <= HwNow(t)

IInv ==
  /\ TypeOK /\ HardwareInv /\ CallbackInv /\ SeenInv /\ SettableInv /\ ConfigInv /\ ArmedInv
  /\ OneTimerIsEnough

-----------------------------------------------------------------------------
(* Arithmetic: seconds and widths.                                         *)

LEMMA SubPositive == Sub \in Nat /\ Sub > 0
BY ConstantsAssumption

LEMMA TruncateBounds ==
  ASSUME NEW t \in Int
  PROVE  /\ Truncate(t) \in Int /\ Truncate(t) <= t /\ t < Truncate(t) + Sub
         /\ Whole(Truncate(t))
<1>1. t % Sub \in 0..(Sub - 1)
  BY SubPositive
<1>2. t - (t % Sub) = Sub * (t \div Sub) /\ t \div Sub \in Int
  BY SubPositive
<1>3. \A k \in Int : (Sub * k) % Sub = 0
  BY SubPositive
<1> QED BY <1>1, <1>2, <1>3, SubPositive DEF Truncate, Whole

LEMMA TruncateMonotone ==
  ASSUME NEW t \in Int, NEW u \in Int, t <= u
  PROVE  Truncate(t) <= Truncate(u)
BY SubPositive DEF Truncate

LEMMA WholeSum ==
  ASSUME NEW a \in Int, NEW b \in Int, Whole(a), Whole(b)
  PROVE  Whole(a + b) /\ Whole(a - b)
<1> DEFINE p == a \div Sub
           q == b \div Sub
<1>0. \A t \in Int : t \div Sub \in Int /\ t = Sub * (t \div Sub) + (t % Sub)
  BY SubPositive
<1>1. p \in Int /\ q \in Int /\ a = Sub * p /\ b = Sub * q
  BY <1>0, SubPositive DEF Whole
<1> HIDE DEF p, q
<1>2. a + b = Sub * (p + q) /\ a - b = Sub * (p - q)
  BY <1>1, SubPositive
<1>3. \A k \in Int : (Sub * k) % Sub = 0
  BY SubPositive
<1> QED BY <1>1, <1>2, <1>3 DEF Whole

LEMMA WholeZero == Whole(0)
BY SubPositive DEF Whole

\* A whole second before t is not after the second t is in.
LEMMA TruncateWhole ==
  ASSUME NEW a \in Int, NEW t \in Int, Whole(a), a <= t
  PROVE  a <= Truncate(t)
<1>1. Truncate(a) = a
  BY DEF Truncate, Whole
<1> QED BY <1>1, TruncateMonotone

LEMMA WordPositive == Word \in Nat /\ Word > 0 /\ Nanos \in Nat /\ Nanos > 0 /\ MaxTime \in Nat
<1>1. 2 * Nanos * (MaxTime + 1) > 0
  BY ConstantsAssumption
<1> QED BY <1>1, ConstantsAssumption

LEMMA ElapseType == ASSUME NEW u \in ElapsePoints
                    PROVE  u \in Nat /\ (u # Never => u \in 0..MaxTime)
BY WordPositive, ConstantsAssumption DEF Never

LEMMA ConversionType == ASSUME NEW u \in Nat PROVE FromTimestampUsecs(u) \in Int
<1>1. (u * Nanos) % Word \in Int
  BY WordPositive
<1>2. Signed((u * Nanos) % Word) \in Int
  BY <1>1, WordPositive DEF Signed
<1> QED BY <1>2, WordPositive DEF FromTimestampUsecs

\* In its range from_timestamp_usecs is exact.
LEMMA ConversionExact == ASSUME NEW u \in 0..MaxTime PROVE FromTimestampUsecs(u) = u
<1>1. u * Nanos \in Nat /\ u * Nanos <= MaxTime * Nanos
  BY WordPositive
<1>2. 2 * (u * Nanos) < Word
  <2>1. 2 * Nanos * (MaxTime + 1) = 2 * (MaxTime * Nanos) + 2 * Nanos
    BY WordPositive
  <2> DEFINE p == u * Nanos
             m == MaxTime * Nanos
  <2>2. 2 * m + 2 * Nanos <= Word
    BY <2>1, ConstantsAssumption
  <2>3. p \in Nat /\ m \in Nat /\ p <= m
    BY <1>1, WordPositive
  <2> HIDE DEF p, m
  <2>4. 2 * p < Word
    BY <2>2, <2>3, WordPositive
  <2> QED BY <2>4 DEF p
<1>3. (u * Nanos) % Word = u * Nanos
  BY <1>1, <1>2, WordPositive
<1>4. Signed(u * Nanos) = u * Nanos
  BY <1>1, <1>2, WordPositive DEF Signed
<1>5. (u * Nanos) \div Nanos = u
  BY WordPositive
<1> QED BY <1>3, <1>4, <1>5 DEF FromTimestampUsecs

-----------------------------------------------------------------------------
(* Options and the soonest time.                                           *)

LEMMA AtMostOneCardinality ==
  ASSUME NEW S, AtMostOne(S) PROVE Cardinality(S) <= 1
<1>1. CASE S = {}
  BY <1>1, FS_EmptySet
<1>2. CASE S # {}
  <2>1. PICK x \in S : TRUE
    BY <1>2
  <2>2. S = {x}
    BY <2>1 DEF AtMostOne
  <2>3. Cardinality({x}) = 1
    BY FS_Singleton, Zenon
  <2> QED BY <2>2, <2>3
<1> QED BY <1>1, <1>2

LEMMA EarliestType ==
  ASSUME NEW S \in SUBSET Int
  PROVE  Earliest(S) \subseteq S /\ AtMostOne(Earliest(S))
<1>1. Earliest(S) \subseteq S
  BY DEF Earliest
<1>2. ASSUME NEW x \in Earliest(S), NEW y \in Earliest(S) PROVE x = y
  <2>1. x \in S /\ y \in S /\ x <= y /\ y <= x
    BY <1>2 DEF Earliest
  <2> QED BY <2>1
<1> QED BY <1>1, <1>2 DEF AtMostOne

\* Of two Options, one of which is Some, one is the soonest.
LEMMA EarliestSome ==
  ASSUME NEW S \in SUBSET Int, NEW T \in SUBSET Int, AtMostOne(S), AtMostOne(T), S \cup T # {}
  PROVE  Earliest(S \cup T) # {}
<1>1. CASE S = {} \/ T = {}
  <2>1. PICK x \in S \cup T : \A y \in S \cup T : y = x
    BY <1>1 DEF AtMostOne
  <2>2. x \in Int /\ x <= x
    BY <2>1
  <2> QED BY <2>1, <2>2 DEF Earliest
<1>2. CASE S # {} /\ T # {}
  <2>1. PICK x \in S, y \in T : TRUE
    BY <1>2
  <2>2. \A z \in S \cup T : z = x \/ z = y
    BY <2>1 DEF AtMostOne
  <2>3. x \in Int /\ y \in Int
    OBVIOUS
  <2>4. CASE x <= y
    BY <2>2, <2>3, <2>4 DEF Earliest
  <2>5. CASE y <= x
    BY <2>2, <2>3, <2>5 DEF Earliest
  <2> QED BY <2>3, <2>4, <2>5
<1> QED BY <1>1, <1>2

\* A fold may take the soonest of some times first.
LEMMA EarliestFold ==
  ASSUME NEW S \in SUBSET Int, NEW N \in SUBSET Int, N # {} => Earliest(N) # {}
  PROVE  Earliest(S \cup Earliest(N)) = Earliest(S \cup N)
<1>1. Earliest(N) \subseteq N
  BY DEF Earliest
<1>2. ASSUME NEW t \in N PROVE \E e \in Earliest(N) : e <= t
  <2>1. PICK e \in Earliest(N) : TRUE
    OBVIOUS
  <2> QED BY <2>1 DEF Earliest
<1>3. ASSUME NEW x \in Earliest(S \cup Earliest(N)) PROVE x \in Earliest(S \cup N)
  <2>1. x \in S \cup N /\ \A y \in S \cup Earliest(N) : x <= y
    BY <1>1 DEF Earliest
  <2>2. ASSUME NEW t \in N PROVE x <= t
    <3>1. PICK e \in Earliest(N) : e <= t
      BY <1>2
    <3>2. x <= e /\ e \in Int /\ x \in Int /\ t \in Int
      BY <1>1, <2>1, <3>1
    <3> QED BY <3>1, <3>2
  <2> QED BY <2>1, <2>2 DEF Earliest
<1>4. ASSUME NEW x \in Earliest(S \cup N) PROVE x \in Earliest(S \cup Earliest(N))
  <2>1. x \in S \cup N /\ \A y \in S \cup N : x <= y
    BY DEF Earliest
  <2>2. x \in S \cup Earliest(N)
    BY <2>1 DEF Earliest
  <2> QED BY <1>1, <2>1, <2>2 DEF Earliest
<1> QED BY <1>3, <1>4

-----------------------------------------------------------------------------
(* The hardware clock.                                                     *)

LEMMA ZoneType ==
  /\ ZoneBefore \in Int /\ ZoneAfter \in Int /\ ChangeAt \in Int
  /\ Whole(ZoneBefore) /\ Whole(ZoneAfter) /\ Whole(ChangeAt)
BY ConstantsAssumption DEF Whole

LEMMA OffsetType == ASSUME NEW t \in Int
                    PROVE  /\ Offset(t) \in Int /\ Whole(Offset(t))
                           /\ Offset(t) \in {0, ZoneBefore, ZoneAfter}
BY ZoneType, WholeZero DEF Offset

LEMMA HardwareType == ASSUME NEW t \in Int
                      PROVE  ToHardware(t) \in Int /\ Whole(ToHardware(t))
BY OffsetType, TruncateBounds, WholeSum DEF ToHardware

\* Local time changes between two seconds.
LEMMA OffsetOfSecond == ASSUME NEW t \in Int
                        PROVE  Offset(Truncate(t)) = Offset(t)
<1>1. t < ChangeAt => Truncate(t) < ChangeAt
  BY TruncateBounds, ZoneType
<1>2. ChangeAt <= t => ChangeAt <= Truncate(t)
  BY TruncateWhole, ZoneType
<1>3. Truncate(t) \in Int
  BY TruncateBounds
<1> QED BY <1>1, <1>2, <1>3, ZoneType DEF Offset

LEMMA ZonesType == Zones \subseteq {0, ZoneBefore, ZoneAfter} /\ Zones \subseteq Int
BY ZoneType DEF Zones

LEMMA OffsetZone == ASSUME NEW t \in Int
                    PROVE  Offset(t) \in Zones
BY DEF Offset, Zones

LEMMA InstantType ==
  ASSUME NEW h \in Int, NEW t \in InstantsOf(h)
  PROVE  t \in Int /\ \E z \in Zones : t = h - z
<1>1. t \in {h - z : z \in Zones}
  BY DEF InstantsOf, Exact
<1> QED BY <1>1, ZonesType

LEMMA ExactInstant ==
  ASSUME NEW h \in Int, NEW t \in Int, t + Offset(t) = h
  PROVE  t \in InstantsOf(h)
<1>1. Offset(t) \in Zones /\ Offset(t) \in Int
  BY OffsetZone, OffsetType
<1>2. t = h - Offset(t)
  BY <1>1
<1>3. t \in Exact(h)
  BY <1>1, <1>2 DEF Exact
<1> QED BY <1>3 DEF InstantsOf

\* A hardware time that stands for one instant is the local time at that instant.
LEMMA OneInstant ==
  ASSUME NEW h \in Int, NEW d, InstantsOf(h) = {d}
  PROVE  d \in Int /\ d + Offset(d) = h
<1>1. d \in Int
  BY InstantType
<1>2. CASE Exact(h) # {}
  <2>1. d \in Exact(h)
    BY <1>2 DEF InstantsOf
  <2>2. \A t \in Exact(h) : t + Offset(t) = h
    BY DEF Exact
  <2> QED BY <1>1, <2>1, <2>2
<1>3. CASE Exact(h) = {}
  <2>1. \A z \in Zones : h - z = d
    BY <1>3 DEF InstantsOf
  <2>2. Offset(d) \in Zones /\ Offset(d) \in Int
    BY <1>1, OffsetZone, OffsetType
  <2> QED BY <1>1, <2>1, <2>2
<1> QED BY <1>2, <1>3

LEMMA SingleInstant ==
  ASSUME NEW h \in Int, Cardinality(InstantsOf(h)) = 1
  PROVE  \E d : InstantsOf(h) = {d}
<1> DEFINE I == InstantsOf(h)
<1>1. IsFiniteSet(I)
  <2>1. I \subseteq {h - 0} \cup {h - ZoneBefore} \cup {h - ZoneAfter}
    BY ZonesType DEF InstantsOf, Exact
  <2>2. IsFiniteSet({h - 0})
    BY FS_Singleton, Zenon
  <2>3. IsFiniteSet({h - 0} \cup {h - ZoneBefore})
    BY <2>2, FS_AddElement, Zenon
  <2>4. IsFiniteSet({h - 0} \cup {h - ZoneBefore} \cup {h - ZoneAfter})
    BY <2>3, FS_AddElement, Zenon
  <2> HIDE DEF I
  <2> QED BY <2>1, <2>4, FS_Subset, Zenon
<1>2. Cardinality(I) = 1
  OBVIOUS
<1> HIDE DEF I
<1>3. \E d : I = {d}
  BY <1>1, <1>2, FS_Singleton, Zenon
<1> QED BY <1>3 DEF I

LEMMA HwNowType ==
  ASSUME NEW t \in Int, hwZone \in Int, Whole(hwZone)
  PROVE  HwNow(t) \in Int /\ Whole(HwNow(t))
<1>1. Truncate(t) \in Int /\ Whole(Truncate(t))
  BY TruncateBounds
<1>2. Whole(Truncate(t) + hwZone)
  BY <1>1, WholeSum, Zenon
<1> QED BY <1>1, <1>2 DEF HwNow

Alarms == [enabled : BOOLEAN, time : Int]

LEMMA ArmedType ==
  ASSUME NEW alm \in Alarms, Whole(alm.time), alm.time >= 0
  PROVE  Armed(alm) \in Alarms /\ Whole(Armed(alm).time) /\ Armed(alm).time >= 0
<1>1. Armed(alm) \in {alm, NoAlarm}
  BY Zenon DEF Armed
<1>2. NoAlarm \in Alarms /\ Whole(NoAlarm.time) /\ NoAlarm.time >= 0
  BY WholeZero DEF NoAlarm, Alarms
<1> QED BY <1>1, <1>2, Zenon

-----------------------------------------------------------------------------
(* The fold over the timer units.                                          *)

LEMMA FoundType ==
  ASSUME NEW u \in ElapsePoints
  PROVE  /\ Found(u) \in SUBSET Int /\ AtMostOne(Found(u))
         /\ Found(u) = {} <=> u = 0
         /\ u # 0 /\ u # Never => Found(u) = {u}
<1>1. FromTimestampUsecs(u) \in Int
  BY ElapseType, ConversionType
<1>2. u # Never => FromTimestampUsecs(u) = u
  BY ElapseType, ConversionExact
<1> QED BY <1>1, <1>2, Zenon DEF Found, None, Some, AtMostOne

LEMMA ToRealtimeType ==
  ASSUME NEW M \in SUBSET Int, AtMostOne(M), NEW n \in Int, now \in Int
  PROVE  /\ ToRealtime(M, n) \in SUBSET Int /\ AtMostOne(ToRealtime(M, n))
         /\ ToRealtime(M, n) = {} <=> M = {}
BY DEF ToRealtime, AtMostOne

\* What the timer's two elapse points make of it.
Answer(mono) == Found(local.real) \cup ToRealtime(Found(mono), local.monoNow)

LEMMA FoldType ==
  ASSUME NEW t \in SUBSET Int, Collect(t)
  PROVE  alarm' \subseteq alarm \cup t /\ (alarm \subseteq Int => AtMostOne(alarm'))
BY EarliestType DEF Collect, Soonest, Earliest

LEMMA InitInv == Init => IInv
<1> SUFFICES ASSUME Init PROVE IInv
  OBVIOUS
<1> USE DEF Init, None, NoAlarm, NoLocal, InHandler
<1>1. /\ Start \in Nat /\ MaxTime \in Nat /\ Start \in Ticks /\ 0 \in ElapsePoints
  BY ConstantsAssumption DEF Ticks
<1>2. hwZone \in Int /\ Whole(hwZone)
  BY <1>1, OffsetType
<1>3. AtMostOne({}) /\ Cardinality({}) <= 1
  BY FS_EmptySet DEF AtMostOne
<1>4. TypeOK
  <2>1. /\ now \in Ticks /\ boot \in Start..now /\ adjtime \in Adjtimes /\ hwZone \in Int
        /\ power \in {"up", "delay", "stopping", "off"}
    BY <1>1, <1>2
  <2>2. /\ rtc \in [enabled : BOOLEAN, time : Int] /\ config \in [enabled : BOOLEAN, time : Int]
        /\ local \in [real : ElapsePoints, mono : ElapsePoints, monoNow : Nat]
    BY <1>1
  <2>3. /\ alarm \subseteq Int /\ Cardinality(alarm) <= 1
        /\ seen \subseteq Nat /\ Cardinality(seen) <= 1
    BY <1>3, Zenon
  <2>4. scheduled \in BOOLEAN /\ excuses \subseteq Excuses
    BY Zenon
  <2> QED BY <2>1, <2>2, <2>3, <2>4, Zenon DEF TypeOK
<1>5. HardwareInv
  BY <1>2, WholeZero DEF HardwareInv
<1>6. CallbackInv
  BY <1>3 DEF CallbackInv
<1> QED BY <1>4, <1>5, <1>6
        DEF IInv, SeenInv, SettableInv, ConfigInv, ArmedInv, OneTimerIsEnough

\* The clocks, and what a step of the callback that asks systemd works with.
LEMMA Typed ==
  ASSUME TypeOK
  PROVE  /\ now \in Nat /\ boot \in Nat /\ boot <= now /\ now <= MaxTime /\ hwZone \in Int
         /\ local.real \in ElapsePoints /\ local.mono \in ElapsePoints /\ local.monoNow \in Nat
         /\ alarm \in SUBSET Int
         /\ rtc \in Alarms /\ config \in Alarms
         /\ rtc.time \in Int /\ config.time \in Int /\ rtc.enabled \in BOOLEAN
BY ConstantsAssumption DEF TypeOK, Ticks, Alarms

LEMMA ActivationsType ==
  ASSUME TypeOK
  PROVE  Activations(local.real, local.mono) \in SUBSET (0..(2 * MaxTime))
<1>1. /\ now \in Nat /\ boot \in Nat /\ boot <= now /\ now <= MaxTime /\ MaxTime \in Nat
      /\ local.real \in ElapsePoints /\ local.mono \in ElapsePoints
  BY Typed, WordPositive
<1>2. \A u \in ElapsePoints : u # Never => u \in 0..MaxTime
  BY ElapseType
<1>3. \A m \in 0..MaxTime : boot + m \in 0..(2 * MaxTime)
  BY <1>1
<1>4. 0..MaxTime \subseteq 0..(2 * MaxTime)
  BY <1>1
<1> QED BY <1>1, <1>2, <1>3, <1>4 DEF Activations

LEMMA AnswerParts ==
  ASSUME TypeOK, NEW mono \in ElapsePoints
  PROVE  /\ Found(local.real) \in SUBSET Int /\ AtMostOne(Found(local.real))
         /\ ToRealtime(Found(mono), local.monoNow) \in SUBSET Int
         /\ AtMostOne(ToRealtime(Found(mono), local.monoNow))
         /\ Found(local.real) = {} <=> local.real = 0
         /\ ToRealtime(Found(mono), local.monoNow) = {} <=> mono = 0
         /\ Answer(mono) \in SUBSET Int
<1>1. local.real \in ElapsePoints /\ local.monoNow \in Int /\ now \in Int
  BY Typed
<1>2. /\ Found(local.real) \in SUBSET Int /\ AtMostOne(Found(local.real))
      /\ Found(local.real) = {} <=> local.real = 0
  BY <1>1, FoundType, Zenon
<1>3. /\ Found(mono) \in SUBSET Int /\ AtMostOne(Found(mono))
      /\ Found(mono) = {} <=> mono = 0
  BY FoundType, Zenon
<1>4. /\ ToRealtime(Found(mono), local.monoNow) \in SUBSET Int
      /\ AtMostOne(ToRealtime(Found(mono), local.monoNow))
      /\ ToRealtime(Found(mono), local.monoNow) = {} <=> Found(mono) = {}
  BY <1>1, <1>3, ToRealtimeType, Zenon
<1> QED BY <1>2, <1>3, <1>4 DEF Answer

LEMMA LearnType ==
  ASSUME TypeOK, CallbackInv, Learn
  PROVE  AtMostOne(seen') /\ seen' \subseteq 0..(2 * MaxTime)
<1>1. /\ seen' = Earliest(seen \cup Activations(local.real, local.mono))
      /\ seen \cup Activations(local.real, local.mono) \subseteq 0..(2 * MaxTime)
  BY ActivationsType DEF Learn, CallbackInv
<1> QED BY <1>1, EarliestType

\* A round of the fold leaves the callback in order.
LEMMA CollectCallback ==
  ASSUME TypeOK, CallbackInv, InHandler, NEW t \in SUBSET Int, Collect(t),
         AtMostOne(seen'), seen' \subseteq 0..(2 * MaxTime)
  PROVE  CallbackInv'
<1>1. AtMostOne(alarm')
  BY FoldType, Typed
<1>2. pc' \in {"realtime", "idle", "read"} /\ (pc' = "idle" => alarm' = None)
  BY DEF Collect, AfterLast
<1>3. local'.mono = 0
  BY DEF Collect, NoLocal
<1>4. power' = power /\ power # "off"
  BY DEF Collect, CallbackInv, environment, InHandler
<1> QED BY <1>1, <1>2, <1>3, <1>4 DEF CallbackInv, InHandler

\* The steps that end a round of the fold, and with what.
Rounds == UnitFails \/ (ReadMonotonic /\ pc' # "monoClock") \/ ReadRealtimeClock

LEMMA RoundEnds ==
  ASSUME CallbackInv, Rounds
  PROVE  /\ InHandler /\ pc \in {"realtime", "monotonic", "realClock"}
         /\ \/ Collect(None) /\ UNCHANGED <<seen, excuses>>
            \/ Collect(Earliest(Answer(local.mono))) /\ Learn /\ pc # "realtime"
<1>1. ASSUME ReadMonotonic PROVE ToRealtime(Found(local.mono), local.monoNow) = None
  BY <1>1 DEF ReadMonotonic, CallbackInv, ToRealtime, Found, None
<1> QED BY <1>1 DEF Rounds, UnitFails, ReadMonotonic, ReadRealtimeClock, None, InHandler,
                    NextElapse, Answer

\* The callback stays in order.
LEMMA CallbackNext == TypeOK /\ CallbackInv /\ [Next]_vars => CallbackInv'
<1> SUFFICES ASSUME TypeOK, CallbackInv, [Next]_vars PROVE CallbackInv'
  OBVIOUS
<1> USE DEF environment, handler, history
<1>1. CASE Tick
  <2>1. CASE power = "off" /\ Rings(now + 1)
    <3>1. AtMostOne({})
      BY DEF AtMostOne
    <3>2. power' = "up" /\ pc' = "idle" /\ seen' = {} /\ UNCHANGED <<alarm, local>>
      BY <1>1, <2>1 DEF Tick, Restart
    <3> QED BY <2>1, <3>1, <3>2 DEF CallbackInv, InHandler
  <2>2. CASE ~(power = "off" /\ Rings(now + 1))
    <3>1. UNCHANGED <<power, pc, seen, local, alarm>>
      BY <1>1, <2>2 DEF Tick
    <3>2. pc' = "realClock" => local'.monoNow <= now' - boot'
      BY <1>1, <2>2, Typed DEF Tick, CallbackInv
    <3> QED BY <3>1, <3>2 DEF CallbackInv, InHandler
  <2> QED BY <2>1, <2>2
<1>2. CASE UserBoots
  <2>1. AtMostOne({})
    BY DEF AtMostOne
  <2> QED BY <1>2, <2>1, Typed DEF UserBoots, Restart, CallbackInv, InHandler
<1>3. CASE SyncHardwareClock
  BY <1>3 DEF SyncHardwareClock, CallbackInv, InHandler
<1>4. CASE OtherProgram
  BY <1>4 DEF OtherProgram, CallbackInv, InHandler
<1>5. CASE PreShutdown
  <2>1. AtMostOne({})
    BY DEF AtMostOne
  <2> QED BY <1>5, <2>1 DEF PreShutdown, CallbackInv, InHandler
<1>6. CASE Rounds
  <2>1. AtMostOne(seen') /\ seen' \subseteq 0..(2 * MaxTime)
    BY <1>6, RoundEnds, LearnType DEF CallbackInv
  <2>2. PICK t \in SUBSET Int : Collect(t)
    <3>1. Earliest(Answer(local.mono)) \in SUBSET Int
      BY AnswerParts, EarliestType, Typed
    <3> QED BY <1>6, <3>1, RoundEnds DEF None
  <2> QED BY <1>6, <2>1, <2>2, RoundEnds, CollectCallback
<1>7. CASE ReadRealtime
  BY <1>7 DEF ReadRealtime, CallbackInv, InHandler
<1>8. CASE ReadMonotonic /\ pc' = "monoClock"
  <2>1. CASE \E t : pc = "monotonic" /\ Collect(t)
    BY <1>8, <2>1 DEF Collect, AfterLast
  <2> QED BY <1>8, <2>1 DEF ReadMonotonic, CallbackInv, InHandler
<1>9. CASE ReadMonotonicClock
  BY <1>9, Typed DEF ReadMonotonicClock, CallbackInv, InHandler
<1>10. ASSUME NEW why, GiveUp(why), pc \in {"read", "write"}
      PROVE  CallbackInv'
  <2>1. AtMostOne(None)
    BY DEF AtMostOne, None
  <2> QED BY <1>10, <2>1 DEF GiveUp, CallbackInv, InHandler
<1>11. CASE ReadAlarm
  BY <1>10, <1>11 DEF ReadAlarm, CallbackInv, InHandler
<1>12. CASE WriteAlarm
  <2>1. AtMostOne(None)
    BY DEF AtMostOne, None
  <2> QED BY <1>10, <1>12, <2>1 DEF WriteAlarm, SetAlarm, CallbackInv, InHandler
<1>13. CASE BeginStop \/ CallOff
  BY <1>13 DEF BeginStop, CallOff, CallbackInv, InHandler
<1>14. CASE PowerOff
  <2>1. AtMostOne(None)
    BY DEF AtMostOne, None
  <2> QED BY <1>14, <2>1 DEF PowerOff, CallbackInv, InHandler, NoLocal
<1>15. CASE UNCHANGED vars
  BY <1>15 DEF vars, CallbackInv, InHandler
<1> QED BY <1>1, <1>2, <1>3, <1>4, <1>5, <1>6, <1>7, <1>8, <1>9, <1>11, <1>12, <1>13,
           <1>14, <1>15 DEF Next, Callback, Rounds

-----------------------------------------------------------------------------
(* Types, and times the hardware can show.                                 *)

LEMMA AlarmTimeType ==
  ASSUME TypeOK, pc = "write"
  PROVE  AlarmTime \in alarm /\ AlarmTime \in Int
<1>1. alarm # {} /\ alarm \subseteq Int
  BY DEF TypeOK, None
<1>2. AlarmTime \in alarm
  BY <1>1, Zenon DEF AlarmTime
<1> QED BY <1>1, <1>2

LEMMA AlarmToSetType ==
  ASSUME TypeOK, HardwareInv, pc = "write", NEW current \in Int
  PROVE  AlarmToSet(current) \in Int /\ Whole(AlarmToSet(current))
<1>1. ToHardware(AlarmTime) \in Int /\ Whole(ToHardware(AlarmTime))
  BY AlarmTimeType, HardwareType
<1>2. config.time \in Int /\ Whole(config.time)
  BY Typed DEF HardwareInv
<1> QED BY <1>1, <1>2, Zenon DEF AlarmToSet

LEMMA NewConfigType ==
  ASSUME TypeOK, HardwareInv, pc = "write", NEW current \in Int, Valid(AlarmToSet(current))
  PROVE  LET alm == Armed(NewConfig(current))
         IN  alm \in Alarms /\ Whole(alm.time) /\ alm.time >= 0
<1>1. NewConfig(current) \in Alarms /\ NewConfig(current).time = AlarmToSet(current)
  BY AlarmToSetType DEF NewConfig, Alarms
<1>2. Whole(NewConfig(current).time) /\ NewConfig(current).time >= 0
  BY <1>1, AlarmToSetType DEF Valid
<1> QED BY <1>1, <1>2, ArmedType

\* set_wake_alarm ends in one of three ways.
Written  == \E current \in Int : SetAlarm(current) /\ Valid(AlarmToSet(current))
Refused  == GiveUp("refused") /\ \E current \in Int : ~Valid(AlarmToSet(current))
RtcFails == GiveUp("rtc")

LEMMA WriteEnds ==
  ASSUME TypeOK, WriteAlarm
  PROVE  pc = "write" /\ (Written \/ Refused \/ RtcFails)
<1>1. PICK current \in InstantsOf(config.time) :
        \/ ~Valid(AlarmToSet(current)) /\ GiveUp("refused")
        \/ Valid(AlarmToSet(current)) /\ (SetAlarm(current) \/ GiveUp("rtc"))
  BY Zenon DEF WriteAlarm
<1>2. current \in Int
  BY Typed, InstantType
<1>3. pc = "write"
  BY DEF WriteAlarm
<1> QED BY <1>1, <1>2, <1>3, Zenon DEF Written, Refused, RtcFails

LEMMA NoAlarmType == NoAlarm \in Alarms /\ Whole(NoAlarm.time) /\ NoAlarm.time >= 0
BY WholeZero DEF NoAlarm, Alarms

\* What a step does to the alarms and the hardware clock.
LEMMA HardwareStep ==
  ASSUME TypeOK, HardwareInv, [Next]_vars
  PROVE  /\ hwZone' \in Int /\ Whole(hwZone')
         /\ rtc' \in Alarms /\ Whole(rtc'.time) /\ rtc'.time >= 0
         /\ config' \in Alarms /\ Whole(config'.time) /\ config'.time >= 0
<1> DEFINE Z == hwZone' \in Int /\ Whole(hwZone')
           R == rtc' \in Alarms /\ Whole(rtc'.time) /\ rtc'.time >= 0
           C == config' \in Alarms /\ Whole(config'.time) /\ config'.time >= 0
<1>1. UNCHANGED hwZone => Z
  BY Typed DEF HardwareInv
<1>2. UNCHANGED rtc \/ rtc' = NoAlarm => R
  BY Typed, NoAlarmType DEF HardwareInv
<1>3. config' \in {config, rtc, NoAlarm} => C
  BY Typed, NoAlarmType DEF HardwareInv
<1>4. SyncHardwareClock => Z
  BY OffsetType, Typed DEF SyncHardwareClock
<1>5. OtherProgram => R
  <2>1. ASSUME NEW t \in Ticks, NEW z \in {Offset(t), hwZone}, Valid(Truncate(t) + z),
               rtc' = Armed([enabled |-> TRUE, time |-> Truncate(t) + z])
        PROVE  R
    <3> DEFINE h == Truncate(t) + z
    <3>1. t \in Int
      BY ConstantsAssumption DEF Ticks
    <3>2. Truncate(t) \in Int /\ Whole(Truncate(t)) /\ z \in Int /\ Whole(z)
      BY <3>1, TruncateBounds, OffsetType, Typed DEF HardwareInv
    <3>3. h \in Int /\ Whole(h) /\ h >= 0
      <4>1. Whole(Truncate(t) + z)
        BY <3>2, WholeSum, Zenon
      <4> QED BY <2>1, <3>2, <4>1 DEF Valid
    <3>4. rtc' = Armed([enabled |-> TRUE, time |-> h])
      BY <2>1
    <3> HIDE DEF h
    <3>5. [enabled |-> TRUE, time |-> h] \in Alarms
      BY <3>3 DEF Alarms
    <3> QED BY <3>3, <3>4, <3>5, ArmedType
  <2> QED BY <1>2, <2>1 DEF OtherProgram
<1>6. pc = "write" /\ Written => R
  BY NewConfigType DEF Written, SetAlarm
<1> USE DEF environment, handler, history, GiveUp
<1> HIDE DEF Z, R, C
<1>7. CASE Tick
  BY <1>1, <1>2, <1>3, <1>7 DEF Tick, Z, R, C
<1>8. CASE SyncHardwareClock
  BY <1>2, <1>3, <1>4, <1>8 DEF SyncHardwareClock, Z, R, C
<1>9. CASE OtherProgram
  BY <1>1, <1>3, <1>5, <1>9 DEF OtherProgram, Z, R, C
<1>10. CASE UserBoots \/ PreShutdown \/ BeginStop \/ CallOff \/ PowerOff
  BY <1>1, <1>2, <1>3, <1>10 DEF UserBoots, PreShutdown, BeginStop, CallOff, PowerOff, Z, R, C
<1>11. CASE UnitFails \/ ReadRealtime \/ ReadMonotonic \/ ReadMonotonicClock \/ ReadRealtimeClock
  BY <1>1, <1>2, <1>3, <1>11
     DEF UnitFails, ReadRealtime, ReadMonotonic, ReadMonotonicClock, ReadRealtimeClock, Collect, Z, R, C
<1>12. CASE ReadAlarm
  BY <1>1, <1>2, <1>3, <1>12 DEF ReadAlarm, Z, R, C
<1>13. CASE WriteAlarm
  <2>1. CASE Written
    BY <1>1, <1>3, <1>6, <1>13, <2>1, WriteEnds DEF Written, SetAlarm, Z, R, C
  <2>2. CASE Refused \/ RtcFails
    BY <1>1, <1>2, <1>3, <2>2 DEF Refused, RtcFails, Z, R, C
  <2> QED BY <1>13, <2>1, <2>2, WriteEnds
<1>14. CASE UNCHANGED vars
  BY <1>1, <1>2, <1>3, <1>14 DEF vars, Z, R, C
<1> QED BY <1>7, <1>8, <1>9, <1>10, <1>11, <1>12, <1>13, <1>14 DEF Next, Callback

LEMMA HardwareNext == TypeOK /\ HardwareInv /\ [Next]_vars => HardwareInv'
BY HardwareStep DEF HardwareInv

\* The rest of TypeOK: the machine, the callback's position, what it has read, and
\* what has come between.
MachineType  == now \in Ticks /\ boot \in Start..now /\ power \in {"up", "delay", "stopping", "off"} /\ adjtime \in Adjtimes
PositionType ==
  /\ pc \in {"idle", "dead"} \/ InHandler
  /\ pc \in {"realtime", "monotonic", "monoClock", "realClock"} => unit \in 1..Units
  /\ pc \in {"read", "write"} => alarm # None
LocalType   == local \in [real : ElapsePoints, mono : ElapsePoints, monoNow : Nat] /\ alarm \subseteq Int
HistoryType == scheduled \in BOOLEAN /\ excuses \subseteq Excuses

LEMMA TypeParts ==
  TypeOK => MachineType /\ PositionType /\ LocalType /\ HistoryType
BY DEF TypeOK, MachineType, PositionType, LocalType, HistoryType

LEMMA MachineNext == TypeOK /\ [Next]_vars => MachineType'
<1> SUFFICES ASSUME TypeOK, [Next]_vars PROVE MachineType'
  OBVIOUS
<1> USE DEF MachineType, environment
<1>0. /\ now \in Ticks /\ boot \in Start..now /\ power \in {"up", "delay", "stopping", "off"}
      /\ adjtime \in Adjtimes /\ Start \in Nat /\ MaxTime \in Nat
  BY ConstantsAssumption DEF TypeOK
<1>1. CASE Tick
  <2>1. now' \in Ticks /\ boot \in Start..now' /\ now' \in Start..now'
    BY <1>0, <1>1 DEF Tick, Ticks
  <2>2. power' \in {"up", power} /\ boot' \in {boot, now'} /\ adjtime' = adjtime
    BY <1>1 DEF Tick, Restart
  <2> QED BY <1>0, <2>1, <2>2
<1>2. CASE UserBoots
  BY <1>0, <1>2 DEF UserBoots, Restart, Ticks
<1>3. CASE UNCHANGED <<now, boot, adjtime>> /\ power' \in {power, "up", "delay", "stopping", "off"}
  BY <1>0, <1>3
<1>4. CASE SyncHardwareClock \/ OtherProgram \/ PreShutdown \/ BeginStop \/ CallOff \/ PowerOff
  BY <1>3, <1>4 DEF SyncHardwareClock, OtherProgram, PreShutdown, BeginStop, CallOff, PowerOff
<1>5. CASE Callback
  BY <1>3, <1>5 DEF Callback, UnitFails, ReadRealtime, ReadMonotonic, ReadMonotonicClock,
                    ReadRealtimeClock, ReadAlarm, WriteAlarm, SetAlarm, GiveUp, Collect
<1>6. CASE UNCHANGED vars
  BY <1>3, <1>6 DEF vars
<1> QED BY <1>1, <1>2, <1>4, <1>5, <1>6 DEF Next

LEMMA PositionNext == TypeOK /\ [Next]_vars => PositionType'
<1> SUFFICES ASSUME TypeOK, [Next]_vars PROVE PositionType'
  OBVIOUS
<1> USE DEF PositionType, InHandler, handler
<1>0. PositionType /\ Units \in Nat \ {0}
  BY TypeParts, ConstantsAssumption
<1>1. ASSUME pc' \in {"idle", "dead"} PROVE PositionType'
  BY <1>1
<1>2. CASE UNCHANGED <<pc, unit, alarm>>
  BY <1>0, <1>2
<1>3. CASE Tick \/ UserBoots \/ PowerOff
  BY <1>1, <1>2, <1>3 DEF Tick, UserBoots, Restart, PowerOff
<1>4. CASE SyncHardwareClock \/ OtherProgram \/ BeginStop \/ CallOff \/ UNCHANGED vars
  BY <1>2, <1>4 DEF SyncHardwareClock, OtherProgram, BeginStop, CallOff, vars
<1>5. CASE PreShutdown
  BY <1>0, <1>5 DEF PreShutdown
<1>6. ASSUME NEW t, Collect(t), pc \in {"realtime", "monotonic", "realClock"} PROVE PositionType'
  BY <1>0, <1>6 DEF Collect, AfterLast
<1>7. CASE UnitFails \/ ReadRealtime \/ ReadMonotonic \/ ReadMonotonicClock \/ ReadRealtimeClock
  BY <1>0, <1>6, <1>7
     DEF UnitFails, ReadRealtime, ReadMonotonic, ReadMonotonicClock, ReadRealtimeClock
<1>8. CASE ReadAlarm \/ WriteAlarm
  BY <1>0, <1>1, <1>8 DEF ReadAlarm, WriteAlarm, SetAlarm, GiveUp
<1> QED BY <1>3, <1>4, <1>5, <1>7, <1>8 DEF Next, Callback

LEMMA LocalNext == TypeOK /\ CallbackInv /\ [Next]_vars => LocalType'
<1> SUFFICES ASSUME TypeOK, CallbackInv, [Next]_vars PROVE LocalType'
  OBVIOUS
<1> USE DEF LocalType, handler
<1>0. LocalType /\ now \in Nat /\ boot \in Nat /\ boot <= now /\ 0 \in ElapsePoints
  BY TypeParts, Typed, ConstantsAssumption
<1>1. CASE local' \in {local, NoLocal} /\ alarm' \in {alarm, None}
  <2>1. NoLocal \in [real : ElapsePoints, mono : ElapsePoints, monoNow : Nat]
    BY <1>0 DEF NoLocal
  <2> QED BY <1>0, <1>1, <2>1 DEF None
<1>2. CASE Tick \/ UserBoots \/ SyncHardwareClock \/ OtherProgram \/ PreShutdown \/ BeginStop
            \/ CallOff \/ UNCHANGED vars
  BY <1>1, <1>2 DEF Tick, UserBoots, SyncHardwareClock, OtherProgram, PreShutdown, BeginStop,
                    CallOff, vars
<1>3. CASE PowerOff
  BY <1>1, <1>3 DEF PowerOff
<1>4. CASE Rounds
  <2>1. PICK t \in SUBSET Int : Collect(t)
    <3>1. Earliest(Answer(local.mono)) \in SUBSET Int
      BY AnswerParts, EarliestType, Typed
    <3> QED BY <1>4, <3>1, RoundEnds DEF None
  <2>2. alarm' \subseteq Int
    BY <2>1, FoldType, Typed
  <2>3. local' = NoLocal
    BY <2>1 DEF Collect
  <2> QED BY <1>0, <2>2, <2>3 DEF NoLocal
<1>5. CASE ReadRealtime
  BY <1>0, <1>5 DEF ReadRealtime
<1>6. CASE ReadMonotonic /\ pc' = "monoClock"
  <2>1. CASE \E t : pc = "monotonic" /\ Collect(t)
    BY <1>6, <2>1 DEF Collect, AfterLast
  <2> QED BY <1>0, <1>6, <2>1 DEF ReadMonotonic
<1>7. CASE ReadMonotonicClock
  BY <1>0, <1>7 DEF ReadMonotonicClock
<1>8. CASE ReadAlarm \/ WriteAlarm
  BY <1>1, <1>8 DEF ReadAlarm, WriteAlarm, SetAlarm, GiveUp
<1> QED BY <1>2, <1>3, <1>4, <1>5, <1>6, <1>7, <1>8 DEF Next, Callback, Rounds

LEMMA HistoryNext == TypeOK /\ [Next]_vars => HistoryType'
<1> SUFFICES ASSUME TypeOK, [Next]_vars PROVE HistoryType'
  OBVIOUS
<1> USE DEF HistoryType, history
<1>0. HistoryType
  BY TypeParts
<1>1. ASSUME UNCHANGED scheduled \/ scheduled' \in BOOLEAN,
             NEW S \in SUBSET Excuses, excuses' \in {{}, S, excuses, excuses \cup S}
      PROVE  HistoryType'
  BY <1>0, <1>1
<1>2. /\ {"fired"} \in SUBSET Excuses /\ {"drift"} \in SUBSET Excuses /\ {"zone"} \in SUBSET Excuses
      /\ {"intruder"} \in SUBSET Excuses /\ {"never"} \in SUBSET Excuses
  BY DEF Excuses
<1>3. CASE Tick
  BY <1>0, <1>3 DEF Tick, Restart, Excuses
<1>4. CASE UserBoots \/ PreShutdown \/ BeginStop \/ CallOff \/ PowerOff \/ UNCHANGED vars
  BY <1>0, <1>4 DEF UserBoots, Restart, PreShutdown, BeginStop, CallOff, PowerOff, vars
<1>5. CASE SyncHardwareClock \/ OtherProgram
  BY <1>0, <1>2, <1>5 DEF SyncHardwareClock, OtherProgram
<1>6. CASE UnitFails \/ ReadRealtime \/ ReadMonotonic \/ ReadMonotonicClock \/ ReadRealtimeClock
  BY <1>0, <1>2, <1>6 DEF UnitFails, ReadRealtime, ReadMonotonic, ReadMonotonicClock,
                          ReadRealtimeClock, Collect, Learn
<1>7. ASSUME NEW why \in Excuses, GiveUp(why) PROVE HistoryType'
  BY <1>0, <1>7 DEF GiveUp
<1>8. CASE ReadAlarm
  BY <1>0, <1>7, <1>8 DEF ReadAlarm, Excuses
<1>9. CASE WriteAlarm
  <2>1. ASSUME NEW current \in Int, SetAlarm(current) PROVE HistoryType'
    <3>1. ExcusesOf(current) \subseteq Excuses
      BY Zenon DEF ExcusesOf, Excuses
    <3> QED BY <1>0, <2>1, <3>1 DEF SetAlarm
  <2>2. "refused" \in Excuses /\ "rtc" \in Excuses
    BY DEF Excuses
  <2> QED BY <1>7, <1>9, <2>1, <2>2, WriteEnds DEF Written, Refused, RtcFails
<1> QED BY <1>3, <1>4, <1>5, <1>6, <1>8, <1>9 DEF Next, Callback

LEMMA TypeNext == TypeOK /\ HardwareInv /\ CallbackInv /\ [Next]_vars => TypeOK'
<1> SUFFICES ASSUME TypeOK, HardwareInv, CallbackInv, [Next]_vars PROVE TypeOK'
  OBVIOUS
<1>1. MachineType' /\ PositionType' /\ LocalType' /\ HistoryType'
  BY MachineNext, PositionNext, LocalNext, HistoryNext
<1>2. hwZone' \in Int /\ rtc' \in Alarms /\ config' \in Alarms
  BY HardwareStep
<1>3. CallbackInv'
  BY CallbackNext
<1>4. Cardinality(alarm') <= 1 /\ Cardinality(seen') <= 1
  BY <1>3, AtMostOneCardinality DEF CallbackInv
<1>5. seen' \subseteq Nat
  BY <1>3, WordPositive DEF CallbackInv
<1> QED BY <1>1, <1>2, <1>4, <1>5, Zenon
        DEF TypeOK, MachineType, PositionType, LocalType, HistoryType, Alarms

-----------------------------------------------------------------------------
(* What the callback finds out is what the timers do.                      *)

LEMMA EarliestSelf ==
  ASSUME NEW S \in SUBSET Int, AtMostOne(S)
  PROVE  Earliest(S \cup None) = S
<1>1. \A x \in S : x \in Int /\ x <= x /\ \A y \in S : y = x
  BY DEF AtMostOne
<1>2. S \cup None = S
  BY DEF None
<1>3. Earliest(S) = S
  BY <1>1 DEF Earliest
<1> QED BY <1>2, <1>3

LEMMA AnswerSome ==
  ASSUME TypeOK, Activations(local.real, local.mono) # {}
  PROVE  Earliest(Answer(local.mono)) # {}
<1>1. local.mono \in ElapsePoints
  BY Typed
<1>2. local.real # 0 \/ local.mono # 0
  BY DEF Activations
<1>3. Answer(local.mono) # {}
  BY <1>1, <1>2, AnswerParts DEF Answer
<1> QED BY <1>1, <1>3, AnswerParts, EarliestSome DEF Answer

LEMMA AnswerFold ==
  ASSUME TypeOK, NEW S \in SUBSET Int
  PROVE  Earliest(S \cup Earliest(Answer(local.mono))) = Earliest(S \cup Answer(local.mono))
<1> DEFINE N == Answer(local.mono)
<1>1. N \in SUBSET Int
  BY Typed, AnswerParts
<1>2. N # {} => Earliest(N) # {}
  BY Typed, AnswerParts, EarliestSome DEF Answer
<1> HIDE DEF N
<1>3. Earliest(S \cup Earliest(N)) = Earliest(S \cup N)
  BY <1>1, <1>2, EarliestFold, Zenon
<1> QED BY <1>3 DEF N

LEMMA AnswerIsActivation ==
  ASSUME TypeOK, local.real # Never, local.mono # Never,
         local.mono # 0 => local.monoNow = now - boot
  PROVE  Answer(local.mono) = Activations(local.real, local.mono)
<1>1. Found(local.real) = {local.real} \ {0, Never}
  BY Typed, FoundType
<1>2. Found(local.mono) = {local.mono} \ {0, Never}
  BY Typed, FoundType
<1>3. ASSUME local.mono # 0
      PROVE  local.mono + (now - local.monoNow) = boot + local.mono
  <2>1. local.mono \in Nat
    BY Typed, ElapseType
  <2> QED BY <1>3, <2>1, Typed
<1>4. ToRealtime(Found(local.mono), local.monoNow)
        = {boot + m : m \in {local.mono} \ {0, Never}}
  BY <1>2, <1>3 DEF ToRealtime
<1> QED BY <1>1, <1>4 DEF Answer, Activations

\* A round of the fold: who knows when a timer elapses has a time for the alarm, and
\* the same one.
LEMMA RoundSeen ==
  ASSUME TypeOK, CallbackInv, SeenInv, Rounds
  PROVE  /\ seen' # {} => alarm' # None
         /\ excuses' \cap {"never", "drift"} = {} => alarm' = seen'
         /\ excuses \subseteq excuses'
<1>1. CASE Collect(None) /\ UNCHANGED <<seen, excuses>>
  <2>1. alarm' = alarm
    BY <1>1, Typed, EarliestSelf DEF Collect, Soonest, CallbackInv
  <2> QED BY <1>1, <2>1, RoundEnds DEF SeenInv
<1>2. CASE Collect(Earliest(Answer(local.mono))) /\ Learn
  <2> DEFINE A == Activations(local.real, local.mono)
             N == Answer(local.mono)
  <2>1. alarm' = Earliest(alarm \cup Earliest(N)) /\ seen' = Earliest(seen \cup A)
    BY <1>2 DEF Collect, Soonest, Learn
  <2>2. N \in SUBSET Int /\ Earliest(N) \in SUBSET Int /\ AtMostOne(Earliest(N))
    BY Typed, AnswerParts, EarliestType
  <2>3. alarm \in SUBSET Int /\ AtMostOne(alarm)
    BY Typed DEF CallbackInv
  <2>4. seen' # {} => alarm' # None
    <3>1. seen' # {} => seen # {} \/ A # {}
      BY <2>1 DEF Earliest
    <3>2. seen # {} => alarm # {}
      BY RoundEnds DEF SeenInv, None
    <3>3. A # {} => Earliest(N) # {}
      BY AnswerSome
    <3>4. alarm \cup Earliest(N) # {} => alarm' # {}
      BY <2>1, <2>2, <2>3, EarliestSome
    <3> QED BY <3>1, <3>2, <3>3, <3>4 DEF None
  <2>5. ASSUME excuses' \cap {"never", "drift"} = {} PROVE alarm' = seen'
    <3>1. excuses \cap {"never", "drift"} = {} /\ local.real # Never /\ local.mono # Never
      BY <1>2, <2>5 DEF Learn
    <3>2. local.mono # 0 => local.monoNow = now - boot
      BY <3>1, RoundEnds DEF CallbackInv, SeenInv
    <3>3. alarm = seen /\ N = A
      BY <3>1, <3>2, AnswerIsActivation, RoundEnds DEF SeenInv
    <3>4. Earliest(alarm \cup Earliest(N)) = Earliest(alarm \cup N)
      BY AnswerFold, Typed
    <3> QED BY <2>1, <3>3, <3>4
  <2>6. excuses \subseteq excuses'
    BY <1>2 DEF Learn
  <2> QED BY <2>4, <2>5, <2>6
<1> QED BY <1>1, <1>2, RoundEnds

LEMMA SeenNext == TypeOK /\ CallbackInv /\ SeenInv /\ [Next]_vars => SeenInv'
<1> SUFFICES ASSUME TypeOK, CallbackInv, SeenInv, [Next]_vars PROVE SeenInv'
  OBVIOUS
<1> USE DEF environment, handler, history
<1>1. ASSUME pc' \in {"idle", "dead"} PROVE SeenInv'
  BY <1>1 DEF SeenInv, InHandler
<1>2. ASSUME UNCHANGED <<pc, seen, alarm, local, now, boot>>, excuses \subseteq excuses'
      PROVE  SeenInv'
  BY <1>2 DEF SeenInv, InHandler
<1>3. CASE Tick
  <2>1. CASE power = "off" /\ Rings(now + 1)
    BY <1>1, <1>3, <2>1 DEF Tick, Restart
  <2>2. CASE ~(power = "off" /\ Rings(now + 1))
    <3>1. /\ UNCHANGED <<pc, seen, alarm, local, boot>> /\ excuses \subseteq excuses'
          /\ pc = "realClock" => "drift" \in excuses'
      BY <1>3, <2>2 DEF Tick
    <3> QED BY <3>1 DEF SeenInv, InHandler
  <2> QED BY <2>1, <2>2
<1>4. CASE UserBoots \/ PowerOff
  BY <1>1, <1>4 DEF UserBoots, Restart, PowerOff
<1>5. CASE SyncHardwareClock \/ OtherProgram \/ BeginStop \/ CallOff \/ UNCHANGED vars
  BY <1>2, <1>5 DEF SyncHardwareClock, OtherProgram, BeginStop, CallOff, vars
<1>6. CASE PreShutdown
  BY <1>6 DEF PreShutdown, SeenInv, CallbackInv, InHandler, None
<1>7. CASE Rounds
  <2>1. pc' # "realClock"
    BY <1>7, RoundEnds DEF Collect, AfterLast
  <2> QED BY <1>7, <2>1, RoundSeen DEF SeenInv
<1>8. CASE ReadRealtime
  BY <1>8 DEF ReadRealtime, SeenInv, InHandler
<1>9. CASE ReadMonotonic /\ pc' = "monoClock"
  <2>1. CASE \E t : pc = "monotonic" /\ Collect(t)
    BY <1>9, <2>1 DEF Collect, AfterLast
  <2> QED BY <1>9, <2>1 DEF ReadMonotonic, SeenInv, InHandler
<1>10. CASE ReadMonotonicClock
  <2>1. local'.monoNow = now - boot
    BY <1>10, Typed DEF ReadMonotonicClock, TypeOK
  <2> QED BY <1>10, <2>1 DEF ReadMonotonicClock, SeenInv, InHandler
<1>11. CASE ReadAlarm \/ WriteAlarm
  BY <1>1, <1>11 DEF ReadAlarm, WriteAlarm, SetAlarm, GiveUp, SeenInv, InHandler
<1> QED BY <1>3, <1>4, <1>5, <1>6, <1>7, <1>8, <1>9, <1>10, <1>11 DEF Next, Callback, Rounds

-----------------------------------------------------------------------------
(* An alarm the RTC refuses.                                               *)

LEMMA LaterSettable ==
  ASSUME NEW t \in Int, NEW u \in Int, Settable(t), t <= u
  PROVE  Settable(u)
BY ZoneType DEF Settable

LEMMA AnswerSettable ==
  ASSUME TypeOK, CallbackInv, local.real # Never, local.mono # Never,
         local.mono # 0 => local.monoNow <= now - boot,
         NEW t \in Answer(local.mono)
  PROVE  Settable(t)
<1>1. \A u \in ElapsePoints : u # 0 => u \in Nat /\ Settable(u)
  BY ElapseAssumption, ElapseType DEF Settable
<1>2. /\ local.real \in ElapsePoints /\ local.mono \in ElapsePoints /\ local.monoNow \in Nat
      /\ now \in Nat /\ boot \in Nat
  BY Typed
<1>3. CASE t \in Found(local.real)
  BY <1>1, <1>2, <1>3, FoundType
<1>4. CASE t \in ToRealtime(Found(local.mono), local.monoNow)
  <2>1. local.mono # 0 /\ t = local.mono + (now - local.monoNow)
    BY <1>2, <1>4, FoundType DEF ToRealtime
  <2>2. local.mono \in Nat /\ Settable(local.mono)
    BY <1>1, <1>2, <2>1
  <2>3. t \in Int /\ local.mono <= t
    BY <1>2, <2>1, <2>2
  <2> QED BY <2>2, <2>3, LaterSettable
<1> QED BY <1>3, <1>4 DEF Answer

LEMMA SettableNext == TypeOK /\ CallbackInv /\ SettableInv /\ [Next]_vars => SettableInv'
<1> SUFFICES ASSUME TypeOK, CallbackInv, SettableInv, [Next]_vars, InHandler', "never" \notin excuses',
                    NEW t \in alarm'
             PROVE  Settable(t)
  BY DEF SettableInv, Settable
<1> USE DEF environment, handler, history
<1>1. ASSUME UNCHANGED alarm, InHandler, excuses \subseteq excuses' PROVE Settable(t)
  BY <1>1 DEF SettableInv
<1>2. CASE Tick \/ UserBoots \/ PowerOff
  BY <1>1, <1>2 DEF Tick, UserBoots, Restart, PowerOff, InHandler
<1>3. CASE SyncHardwareClock \/ OtherProgram \/ BeginStop \/ CallOff \/ UNCHANGED vars
  BY <1>1, <1>3 DEF SyncHardwareClock, OtherProgram, BeginStop, CallOff, vars, InHandler
<1>4. CASE PreShutdown
  BY <1>4 DEF PreShutdown, CallbackInv, InHandler, None
<1>5. CASE Rounds
  <2>1. CASE Collect(None) /\ UNCHANGED <<seen, excuses>>
    <3>1. t \in alarm
      BY <1>5, <2>1, FoldType DEF None
    <3> QED BY <1>5, <2>1, <3>1, RoundEnds DEF SettableInv
  <2>2. CASE Collect(Earliest(Answer(local.mono))) /\ Learn /\ pc # "realtime"
    <3>1. Earliest(Answer(local.mono)) \in SUBSET Int /\ Earliest(Answer(local.mono)) \subseteq Answer(local.mono)
      BY Typed, AnswerParts, EarliestType
    <3>2. t \in alarm \/ t \in Answer(local.mono)
      BY <2>2, <3>1, FoldType
    <3>3. local.real # Never /\ local.mono # Never /\ "never" \notin excuses
      BY <2>2 DEF Learn
    <3>4. t \in alarm => Settable(t)
      BY <1>5, <3>3, RoundEnds DEF SettableInv
    <3>5. local.mono # 0 => local.monoNow <= now - boot
      BY <1>5, RoundEnds DEF CallbackInv
    <3> QED BY <3>2, <3>3, <3>4, <3>5, AnswerSettable
  <2> QED BY <1>5, <2>1, <2>2, RoundEnds
<1>6. CASE ReadRealtime \/ ReadMonotonicClock \/ (ReadMonotonic /\ pc' = "monoClock")
  <2>1. CASE \E a : pc = "monotonic" /\ Collect(a) /\ pc' = "monoClock"
    BY <1>6, <2>1 DEF Collect, AfterLast
  <2> QED BY <1>1, <1>6, <2>1 DEF ReadRealtime, ReadMonotonicClock, ReadMonotonic, InHandler
<1>7. CASE ReadAlarm \/ WriteAlarm
  BY <1>1, <1>7 DEF ReadAlarm, WriteAlarm, SetAlarm, GiveUp, InHandler
<1> QED BY <1>2, <1>3, <1>4, <1>5, <1>6, <1>7 DEF Next, Callback, Rounds

-----------------------------------------------------------------------------
(* The alarm that has been read.                                           *)

LEMMA ConfigNext == ConfigInv /\ [Next]_vars => ConfigInv'
<1> SUFFICES ASSUME ConfigInv, [Next]_vars PROVE ConfigInv'
  OBVIOUS
<1> USE DEF environment, handler, history, ConfigInv
<1>1. CASE Tick
  <2>1. CASE power = "off" /\ Rings(now + 1)
    BY <1>1, <2>1 DEF Tick, Restart
  <2>2. CASE ~(power = "off" /\ Rings(now + 1))
    BY <1>1, <2>2 DEF Tick, NoAlarm
  <2> QED BY <2>1, <2>2
<1>2. CASE UserBoots \/ PowerOff \/ PreShutdown
  BY <1>2 DEF UserBoots, Restart, PowerOff, PreShutdown
<1>3. CASE SyncHardwareClock \/ BeginStop \/ CallOff \/ UNCHANGED vars
  BY <1>3 DEF SyncHardwareClock, BeginStop, CallOff, vars
<1>4. CASE OtherProgram
  BY <1>4 DEF OtherProgram
<1>5. CASE UnitFails \/ ReadRealtime \/ ReadMonotonic \/ ReadMonotonicClock \/ ReadRealtimeClock
  BY <1>5 DEF UnitFails, ReadRealtime, ReadMonotonic, ReadMonotonicClock, ReadRealtimeClock,
              Collect, AfterLast
<1>6. CASE ReadAlarm \/ WriteAlarm
  BY <1>6 DEF ReadAlarm, WriteAlarm, SetAlarm, GiveUp
<1> QED BY <1>1, <1>2, <1>3, <1>4, <1>5, <1>6 DEF Next, Callback

-----------------------------------------------------------------------------
(* The callback's end.                                                     *)

LEMMA SettableHardware ==
  ASSUME NEW t \in Int, Settable(t)
  PROVE  ToHardware(t) >= 0
<1>1. ASSUME NEW z \in {0, ZoneBefore, ZoneAfter} PROVE Truncate(t) + z >= 0
  <2>1. z \in Int /\ Whole(z) /\ 0 - z <= t
    BY ZoneType, WholeZero DEF Settable
  <2>2. Whole(0 - z) /\ 0 - z \in Int
    BY <2>1, WholeZero, WholeSum
  <2>3. 0 - z <= Truncate(t)
    BY <2>1, <2>2, TruncateWhole
  <2> QED BY <2>1, <2>3, TruncateBounds
<1> QED BY <1>1, OffsetType DEF ToHardware

LEMMA OnlyNeverRefused ==
  ASSUME TypeOK, HardwareInv, SettableInv, pc = "write", "never" \notin excuses, NEW current \in Int
  PROVE  Valid(AlarmToSet(current))
<1>1. AlarmTime \in Int /\ Settable(AlarmTime)
  BY AlarmTimeType DEF SettableInv, InHandler
<1>2. ToHardware(AlarmTime) >= 0
  BY <1>1, SettableHardware
<1> QED BY <1>2 DEF AlarmToSet, Valid, HardwareInv

LEMMA EndsNext ==
  ASSUME TypeOK, HardwareInv, CallbackInv, SeenInv, SettableInv, OneTimerIsEnough, [Next]_vars
  PROVE  OneTimerIsEnough'
<1> USE DEF environment, handler, history
<1>1. ASSUME UNCHANGED <<pc, seen, scheduled>>, excuses \subseteq excuses'
      PROVE  OneTimerIsEnough'
  BY <1>1 DEF OneTimerIsEnough
<1>2. ASSUME seen' = {} \/ pc' # "idle" PROVE OneTimerIsEnough'
  BY <1>2 DEF OneTimerIsEnough
<1>3. CASE Tick
  <2>1. CASE power = "off" /\ Rings(now + 1)
    BY <1>2, <1>3, <2>1 DEF Tick, Restart
  <2>2. CASE ~(power = "off" /\ Rings(now + 1))
    BY <1>1, <1>2, <1>3, <2>2 DEF Tick
  <2> QED BY <2>1, <2>2
<1>4. CASE UserBoots \/ PowerOff \/ PreShutdown
  BY <1>2, <1>4 DEF UserBoots, Restart, PowerOff, PreShutdown
<1>5. CASE SyncHardwareClock \/ OtherProgram \/ BeginStop \/ CallOff
  BY <1>1, <1>5 DEF SyncHardwareClock, OtherProgram, BeginStop, CallOff
<1>6. CASE UNCHANGED vars
  BY <1>6 DEF vars, OneTimerIsEnough
<1>7. CASE Rounds
  <2>1. pc' = "idle" => alarm' = None
    BY <1>7, RoundEnds DEF Collect, AfterLast
  <2> QED BY <1>2, <1>7, <2>1, RoundSeen
<1>8. CASE ReadRealtime \/ ReadMonotonicClock \/ (ReadMonotonic /\ pc' = "monoClock")
  BY <1>2, <1>8 DEF ReadRealtime, ReadMonotonicClock
<1>9. CASE ReadAlarm
  BY <1>2, <1>9 DEF ReadAlarm, GiveUp, OneTimerIsEnough
<1>10. CASE WriteAlarm
  <2>1. CASE Written
    BY <2>1 DEF Written, SetAlarm, OneTimerIsEnough
  <2>2. CASE RtcFails
    BY <2>2 DEF RtcFails, GiveUp, OneTimerIsEnough
  <2>3. CASE Refused
    <3>1. pc = "write" /\ excuses \subseteq excuses'
      BY <1>10, <2>3 DEF WriteAlarm, Refused, GiveUp
    <3>2. "never" \in excuses'
      BY <2>3, <3>1, OnlyNeverRefused DEF Refused
    <3> QED BY <3>2 DEF OneTimerIsEnough
  <2> QED BY <1>10, <2>1, <2>2, <2>3, WriteEnds
<1> QED BY <1>3, <1>4, <1>5, <1>6, <1>7, <1>8, <1>9, <1>10 DEF Next, Callback, Rounds

-----------------------------------------------------------------------------
(* The alarm that has been written.                                        *)

\* What set_wake_alarm writes, when nothing stands in its way, is ahead of the clock
\* and not after the activation.
LEMMA SetAlarmArms ==
  ASSUME TypeOK, HardwareInv, CallbackInv, SeenInv, pc = "write",
         NEW current \in Int, SetAlarm(current), excuses' = {}
  PROVE  /\ rtc' = NewConfig(current) /\ HwNow(now) < AlarmToSet(current)
         /\ \A t \in seen : AlarmToSet(current) <= HwNow(t)
<1> DEFINE A == AlarmTime
           h == AlarmToSet(current)
<1>1. excuses = {} /\ ExcusesOf(current) = {}
  BY DEF SetAlarm
<1>2. /\ A \in Int /\ A \in alarm /\ h \in Int /\ Whole(h)
      /\ now \in Int /\ hwZone \in Int /\ Whole(hwZone)
  BY AlarmTimeType, AlarmToSetType, Typed DEF HardwareInv
<1>3. A \in seen /\ \A t \in seen : t = A
  BY <1>1, <1>2 DEF SeenInv, CallbackInv, InHandler, AtMostOne
<1>4. /\ ~\E t \in seen : t <= now \/ ToHardware(t) <= HwNow(now)
      /\ ~(Keeps(current) /\ config.time <= HwNow(now))
      /\ hwZone = IF Keeps(current) THEN config.time - current ELSE Offset(A)
  BY <1>1, Zenon DEF ExcusesOf
<1>5. /\ HwNow(now) \in Int /\ HwNow(A) \in Int /\ HwNow(A) = Truncate(A) + hwZone
      /\ Truncate(A) \in Int /\ ToHardware(A) \in Int
  BY <1>2, HwNowType, HardwareType, TruncateBounds DEF HwNow
<1>6. HwNow(now) < h /\ h <= HwNow(A)
  <2>1. CASE Keeps(current)
    <3>1. h = config.time /\ current < A /\ hwZone = h - current
      BY <1>4, <2>1 DEF AlarmToSet, Keeps
    <3> HIDE DEF A, h
    <3>2. HwNow(now) < h
      BY <1>2, <1>4, <1>5, <2>1, <3>1
    <3>3. current = h - hwZone
      BY <1>2, <3>1
    <3>4. Whole(current)
      BY <1>2, <3>3, WholeSum, Zenon
    <3>5. current <= Truncate(A)
      BY <1>2, <3>1, <3>4, TruncateWhole
    <3> QED BY <1>2, <1>5, <3>1, <3>2, <3>5
  <2>2. CASE ~Keeps(current)
    <3>1. h = ToHardware(A) /\ h = Truncate(A) + hwZone
      BY <1>4, <2>2 DEF AlarmToSet, ToHardware
    <3>2. ~(ToHardware(A) <= HwNow(now))
      BY <1>3, <1>4
    <3> HIDE DEF A, h
    <3> QED BY <1>5, <3>1, <3>2
  <2> QED BY <2>1, <2>2
<1>7. rtc' = NewConfig(current)
  <2>1. NewConfig(current).enabled /\ NewConfig(current).time = h
    BY DEF NewConfig
  <2> HIDE DEF h
  <2>2. NewConfig(current).time > HwNow(now)
    BY <1>2, <1>5, <1>6, <2>1
  <2> QED BY <2>1, <2>2, Zenon DEF SetAlarm, Armed
<1> QED BY <1>3, <1>6, <1>7

LEMMA ArmedNext ==
  ASSUME TypeOK, HardwareInv, CallbackInv, SeenInv, ArmedInv, [Next]_vars
  PROVE  ArmedInv'
<1> USE DEF environment, handler, history
<1>1. ASSUME UNCHANGED <<pc, scheduled, excuses, rtc, now, hwZone, seen>> PROVE ArmedInv'
  BY <1>1 DEF ArmedInv, HwNow, InHandler
<1>2. ASSUME ~scheduled' PROVE ArmedInv'
  BY <1>2 DEF ArmedInv
<1>3. ASSUME excuses' # {}, InHandler' => ~scheduled' PROVE ArmedInv'
  BY <1>3 DEF ArmedInv
<1>4. CASE Tick
  <2>1. CASE power = "off" /\ Rings(now + 1)
    BY <1>2, <1>4, <2>1 DEF Tick, Restart
  <2>2. CASE ~(power = "off" /\ Rings(now + 1))
    <3>1. UNCHANGED <<pc, scheduled, seen, hwZone>> /\ now' = now + 1 /\ excuses \subseteq excuses'
      BY <1>4, <2>2 DEF Tick
    <3>2. CASE ~scheduled
      BY <1>2, <3>1, <3>2
    <3>3. CASE scheduled /\ Rings(now + 1)
      BY <1>3, <1>4, <2>2, <3>1, <3>3 DEF Tick, ArmedInv, InHandler
    <3>4. CASE scheduled /\ ~Rings(now + 1)
      <4>1. UNCHANGED rtc
        BY <1>4, <3>4 DEF Tick
      <4>2. HwNow(now + 1) \in Int /\ rtc.time \in Int
        BY HwNowType, Typed DEF HardwareInv
      <4>3. excuses' = {} => HwNow(now + 1) < rtc.time
        BY <3>1, <3>4, <4>2 DEF Rings, ArmedInv
      <4>4. /\ HwNow(now)' = HwNow(now + 1)
            /\ \A t \in seen : HwNow(t)' = HwNow(t)
        BY <3>1 DEF HwNow
      <4>5. InHandler' = InHandler
        BY <3>1 DEF InHandler
      <4> QED BY <3>1, <3>4, <4>1, <4>3, <4>4, <4>5 DEF ArmedInv
    <3> QED BY <3>2, <3>3, <3>4
  <2> QED BY <2>1, <2>2
<1>5. CASE UserBoots \/ PreShutdown
  BY <1>2, <1>5 DEF UserBoots, Restart, PreShutdown
<1>6. CASE SyncHardwareClock \/ OtherProgram
  BY <1>2, <1>3, <1>6, HistoryNext DEF SyncHardwareClock, OtherProgram, ArmedInv, InHandler, HistoryType
<1>7. CASE BeginStop \/ CallOff \/ UNCHANGED vars
  BY <1>1, <1>7 DEF BeginStop, CallOff, vars
<1>8. CASE PowerOff
  BY <1>8 DEF PowerOff, ArmedInv, HwNow, InHandler
<1>9. ASSUME InHandler, UNCHANGED scheduled PROVE ArmedInv'
  BY <1>2, <1>9 DEF ArmedInv
<1>10. CASE UnitFails \/ ReadRealtime \/ ReadMonotonic \/ ReadMonotonicClock \/ ReadRealtimeClock
  BY <1>9, <1>10 DEF UnitFails, ReadRealtime, ReadMonotonic, ReadMonotonicClock, ReadRealtimeClock,
                     Collect, InHandler
<1>11. CASE ReadAlarm
  BY <1>9, <1>11 DEF ReadAlarm, GiveUp, InHandler
<1>12. CASE WriteAlarm
  <2>1. ASSUME NEW current \in Int, SetAlarm(current), excuses' = {} PROVE ArmedInv'
    <3>1. pc = "write"
      BY <1>12 DEF WriteAlarm
    <3>2. /\ rtc' = NewConfig(current) /\ HwNow(now) < AlarmToSet(current)
          /\ \A t \in seen : AlarmToSet(current) <= HwNow(t)
      BY <2>1, <3>1, SetAlarmArms
    <3>3. UNCHANGED <<now, hwZone, seen>> /\ pc' = "idle"
      BY <2>1 DEF SetAlarm
    <3>4. HwNow(now)' = HwNow(now) /\ \A t \in seen : HwNow(t)' = HwNow(t)
      BY <3>3 DEF HwNow
    <3>5. rtc'.enabled /\ rtc'.time = AlarmToSet(current)
      BY <3>2 DEF NewConfig
    <3> QED BY <3>2, <3>3, <3>4, <3>5 DEF ArmedInv, InHandler
  <2>2. CASE Written
    <3>1. CASE excuses' = {}
      BY <2>1, <2>2, <3>1 DEF Written
    <3>2. CASE excuses' # {}
      BY <1>3, <2>2, <3>2 DEF Written, SetAlarm, InHandler
    <3> QED BY <3>1, <3>2
  <2>3. CASE Refused \/ RtcFails
    BY <1>9, <1>12, <2>3 DEF WriteAlarm, Refused, RtcFails, GiveUp, InHandler
  <2> QED BY <1>12, <2>2, <2>3, WriteEnds
<1> QED BY <1>4, <1>5, <1>6, <1>7, <1>8, <1>10, <1>11, <1>12 DEF Next, Callback

-----------------------------------------------------------------------------
(* The theorems.                                                           *)

\* IInv is inductive.
THEOREM Inductive == Spec => []IInv
<1>1. Init => IInv
  BY InitInv
<1>2. IInv /\ [Next]_vars => IInv'
  <2> SUFFICES ASSUME IInv, [Next]_vars PROVE IInv'
    OBVIOUS
  <2>1. /\ TypeOK /\ HardwareInv /\ CallbackInv /\ SeenInv /\ SettableInv /\ ConfigInv /\ ArmedInv
        /\ OneTimerIsEnough
    BY Zenon DEF IInv
  <2>2. TypeOK' /\ HardwareInv' /\ CallbackInv' /\ SeenInv' /\ SettableInv' /\ ConfigInv'
    BY <2>1, TypeNext, HardwareNext, CallbackNext, SeenNext, SettableNext, ConfigNext, Zenon
  <2>3. ArmedInv'
    BY <2>1, ArmedNext, Zenon
  <2>4. OneTimerIsEnough'
    BY <2>1, EndsNext, Zenon
  <2> QED BY <2>2, <2>3, <2>4, Zenon DEF IInv
<1> QED BY <1>1, <1>2, PTL DEF Spec

\* The callback's state keeps its types, and it only gets to the RTC with an
\* activation time in hand (TypeOK).
THEOREM TypeCorrect == Spec => []TypeOK
<1>1. IInv => TypeOK
  BY DEF IInv
<1> QED BY <1>1, Inductive, PTL

\* As soon as one timer has answered, next_activation and set_wake_alarm end with
\* the alarm written, unless the RTC fails or a timer never elapses (OneTimerIsEnough).
THEOREM OneTimer == Spec => []OneTimerIsEnough
<1>1. IInv => OneTimerIsEnough
  BY DEF IInv
<1> QED BY <1>1, Inductive, PTL

LEMMA ArmedIsAhead ==
  ASSUME IInv, scheduled, excuses = {}, NEW t \in seen
  PROVE  now < t
<1>1. /\ now \in Int /\ t \in Int /\ hwZone \in Int /\ rtc.time \in Int
      /\ HwNow(now) < rtc.time /\ rtc.time <= HwNow(t)
  BY Typed, WordPositive DEF IInv, CallbackInv, ArmedInv
<1>2. Truncate(now) \in Int /\ Truncate(t) \in Int
  BY <1>1, TruncateBounds
<1>3. Truncate(now) < Truncate(t)
  BY <1>1, <1>2 DEF HwNow
<1>4. ~(t <= now)
  BY <1>1, <1>2, <1>3, TruncateMonotone
<1> QED BY <1>1, <1>4

\* A machine that set_wake_alarm has returned Ok in is never off at an activation
\* the callback was told of, short of the named excuses (NeverSleepsThrough).
THEOREM NeverSleeps == Spec => []NeverSleepsThrough
<1>1. IInv => NeverSleepsThrough
  BY ArmedIsAhead DEF NeverSleepsThrough
<1> QED BY <1>1, Inductive, PTL

\* An alarm that set_wake_alarm overrides, if its time stands for one instant, is not
\* earlier than the one it writes, though local time may change between the two.
LEMMA OverriddenIsLater ==
  ASSUME NEW c \in Int, NEW a \in Int, NEW d, InstantsOf(c) = {d}, ~(d < a)
  PROVE  ToHardware(a) <= c
<1> DEFINE s == Truncate(a)
<1>1. d \in Int /\ d + Offset(d) = c /\ Offset(d) \in Int /\ Offset(a) \in Int
  BY OneInstant, OffsetType
<1>2. s \in Int /\ s <= a /\ Offset(s) = Offset(a)
  BY TruncateBounds, OffsetOfSecond
<1>3. s <= d /\ ToHardware(a) = s + Offset(s)
  BY <1>1, <1>2 DEF ToHardware
<1> HIDE DEF s
<1>4. CASE Offset(s) = Offset(d)
  BY <1>1, <1>2, <1>3, <1>4
<1>5. CASE Offset(s) # Offset(d)
  <2>1. /\ ClockMode = Some("Local") /\ s < ChangeAt /\ ~(d < ChangeAt)
        /\ Offset(s) = ZoneBefore /\ Offset(d) = ZoneAfter
    BY <1>1, <1>2, <1>3, <1>5, ZoneType DEF Offset
  <2>2. ASSUME c < s + ZoneBefore PROVE FALSE
    <3> DEFINE e == c - ZoneBefore
    <3>1. e \in Int /\ e < ChangeAt /\ e + ZoneBefore = c
      BY <1>2, <2>1, <2>2, ZoneType
    <3> HIDE DEF e
    <3>2. Offset(e) = ZoneBefore
      BY <2>1, <3>1 DEF Offset
    <3>3. e \in InstantsOf(c)
      BY <3>1, <3>2, ExactInstant
    <3> QED BY <2>1, <3>1, <3>3
  <2> QED BY <1>2, <1>3, <2>1, <2>2, ZoneType
<1> QED BY <1>4, <1>5

\* Whatever instant mktime picks, the alarm is written at most one Shift later.
LEMMA OverriddenByShift ==
  ASSUME NEW c \in Int, NEW a \in Int, NEW d \in InstantsOf(c), ~(d < a)
  PROVE  ToHardware(a) <= c + Shift
<1>1. d \in Int /\ \E z \in Zones : d = c - z
  BY InstantType
<1>2. PICK z \in Zones : d = c - z
  BY <1>1
<1>3. Offset(a) \in Zones /\ Offset(a) \in Int /\ z \in Int
  BY OffsetZone, OffsetType, ZonesType
<1>4. Offset(a) - z <= Shift /\ Shift \in Int
  BY <1>3, ZoneType DEF Zones, Shift
<1>5. Truncate(a) \in Int /\ Truncate(a) <= a
  BY TruncateBounds
<1> QED BY <1>1, <1>2, <1>3, <1>4, <1>5 DEF ToHardware

\* How late an alarm of another program at hardware time c may be made.
Leeway(c) == IF Cardinality(InstantsOf(c)) = 1 THEN 0 ELSE Shift

LEMMA EarlierWritten ==
  ASSUME NEW c \in Int, NEW a \in Int, NEW d \in InstantsOf(c), ~(d < a)
  PROVE  ToHardware(a) <= c + Leeway(c)
<1>1. CASE Cardinality(InstantsOf(c)) = 1
  <2>1. PICK e : InstantsOf(c) = {e}
    BY <1>1, SingleInstant
  <2>2. ToHardware(a) <= c
    BY <2>1, OverriddenIsLater
  <2> QED BY <1>1, <2>2 DEF Leeway
<1>2. CASE Cardinality(InstantsOf(c)) # 1
  BY <1>2, OverriddenByShift DEF Leeway
<1> QED BY <1>1, <1>2

LEMMA LeewayType == ASSUME NEW c \in Int PROVE Leeway(c) \in Int /\ Leeway(c) >= 0
BY ZoneType DEF Leeway, Shift

LEMMA EarlierStep ==
  ASSUME IInv, [Next]_vars, pc = "write", "intruder" \notin excuses, rtc.enabled, pc' # pc
  PROVE  rtc'.time <= rtc.time + Leeway(rtc.time) /\ (rtc'.time > HwNow(now) => rtc'.enabled)
<1>0. TypeOK /\ HardwareInv /\ config = rtc /\ power # "off"
  BY DEF IInv, ConfigInv, CallbackInv
<1>1. /\ rtc.time \in Int /\ rtc.time >= 0 /\ Whole(rtc.time) /\ HwNow(now) \in Int
      /\ Leeway(rtc.time) \in Int /\ Leeway(rtc.time) >= 0
  BY <1>0, Typed, HwNowType, LeewayType DEF HardwareInv
<1>2. CASE UNCHANGED rtc
  BY <1>1, <1>2
<1>3. ASSUME NEW current \in InstantsOf(rtc.time), SetAlarm(current), Valid(AlarmToSet(current))
      PROVE  rtc'.time <= rtc.time + Leeway(rtc.time) /\ (rtc'.time > HwNow(now) => rtc'.enabled)
  <2> DEFINE h == AlarmToSet(current)
             new == NewConfig(current)
  <2>0. current \in Int
    BY <1>1, InstantType
  <2>1. h \in Int /\ AlarmTime \in Int
    BY <1>0, <2>0, AlarmToSetType, AlarmTimeType
  <2>2. h <= rtc.time + Leeway(rtc.time)
    <3>1. CASE current < AlarmTime
      BY <1>0, <1>1, <3>1 DEF AlarmToSet, Keeps
    <3>2. CASE ~(current < AlarmTime)
      <4>1. ToHardware(AlarmTime) <= rtc.time + Leeway(rtc.time)
        BY <1>1, <2>1, <3>2, EarlierWritten
      <4> QED BY <1>0, <3>2, <4>1 DEF AlarmToSet, Keeps
    <3> QED BY <3>1, <3>2
  <2>3. rtc' = Armed(new) /\ new.enabled /\ new.time = h /\ h >= 0
    BY <1>3 DEF SetAlarm, NewConfig, Valid
  <2> HIDE DEF h, new
  <2>4. CASE h > HwNow(now)
    BY <2>2, <2>3, <2>4 DEF Armed
  <2>5. CASE ~(h > HwNow(now))
    <3>1. rtc' = NoAlarm
      BY <2>3, <2>5 DEF Armed
    <3> QED BY <1>1, <2>1, <2>3, <2>5, <3>1 DEF NoAlarm
  <2> QED BY <2>4, <2>5
<1>4. CASE WriteAlarm
  BY <1>0, <1>2, <1>3, <1>4 DEF WriteAlarm, GiveUp
<1>5. CASE Tick \/ UserBoots
  BY <1>0, <1>5 DEF Tick, UserBoots
<1>6. CASE SyncHardwareClock \/ OtherProgram \/ BeginStop \/ CallOff \/ UNCHANGED vars
  BY <1>6 DEF SyncHardwareClock, OtherProgram, BeginStop, CallOff, vars, handler
<1>7. CASE PreShutdown \/ PowerOff
  BY <1>2, <1>7 DEF PreShutdown, PowerOff
<1>8. CASE UnitFails \/ ReadRealtime \/ ReadMonotonic \/ ReadMonotonicClock \/ ReadRealtimeClock \/ ReadAlarm
  BY <1>8 DEF UnitFails, ReadRealtime, ReadMonotonic, ReadMonotonicClock, ReadRealtimeClock, ReadAlarm
<1> QED BY <1>4, <1>5, <1>6, <1>7, <1>8 DEF Next, Callback

\* Writing the alarm back never cancels the alarm that was read, and never delays it
\* unless it is in the hour that local time repeats or skips, and then by no more than
\* that hour (EarlierAlarmKept).
THEOREM EarlierKept == Spec => EarlierAlarmKept
<1>1. IInv /\ [Next]_vars
        => [pc = "write" /\ "intruder" \notin excuses /\ rtc.enabled
              => /\ rtc'.time <= rtc.time + (IF Cardinality(InstantsOf(rtc.time)) = 1 THEN 0 ELSE Shift)
                 /\ rtc'.time > HwNow(now) => rtc'.enabled]_pc
  BY EarlierStep DEF Leeway
<1> QED BY <1>1, Inductive, PTL DEF Spec, EarlierAlarmKept

-----------------------------------------------------------------------------
(* WakeAlarm implements AlarmClock.                                        *)

LEMMA PromiseAhead == IInv => AlarmClock!AllAhead
BY ArmedIsAhead DEF AlarmClock!AllAhead

\* Every step is a step of the alarm clock or one it does not see.
LEMMA ClockStep ==
  ASSUME IInv, IInv', AlarmClock!AllAhead, AlarmClock!AllAhead', [Next]_vars
  PROVE  [AlarmClock!Next]_(AlarmClock!vars)
<1> DEFINE promised == IF scheduled /\ excuses = {} THEN seen ELSE {}
<1> USE DEF environment, handler, history
<1>1. (power = "off" => pc = "dead") /\ promised' \subseteq 0..(2 * MaxTime)
  BY DEF IInv, CallbackInv
<1>2. ASSUME UNCHANGED now, power # "off", power' # "off" PROVE AlarmClock!Next
  BY <1>1, <1>2 DEF AlarmClock!Next, AlarmClock!Promise
<1>3. CASE Tick
  <2>1. now' = now + 1
    BY <1>3 DEF Tick
  <2>2. CASE power = "off" /\ Rings(now + 1)
    BY <1>3, <2>1, <2>2 DEF Tick, Restart, AlarmClock!Next, AlarmClock!Tick
  <2>3. CASE power = "off" /\ ~Rings(now + 1)
    <3>1. UNCHANGED <<power, scheduled, excuses, seen>>
      BY <1>1, <1>3, <2>3 DEF Tick
    <3> QED BY <2>1, <2>3, <3>1 DEF AlarmClock!Next, AlarmClock!Tick
  <2>4. CASE power # "off"
    <3>1. UNCHANGED <<power, scheduled, seen>> /\ excuses \subseteq excuses'
      BY <1>3, <2>4 DEF Tick
    <3>2. promised' \in {promised, {}}
      BY <3>1
    <3> QED BY <2>1, <2>4, <3>1, <3>2 DEF AlarmClock!Next, AlarmClock!Tick
  <2> QED BY <2>2, <2>3, <2>4
<1>4. CASE UserBoots
  BY <1>4 DEF UserBoots, Restart, AlarmClock!Next, AlarmClock!SwitchOn
<1>5. CASE PowerOff
  BY <1>5 DEF PowerOff, AlarmClock!Next, AlarmClock!SwitchOff
<1>6. CASE SyncHardwareClock \/ OtherProgram \/ PreShutdown \/ BeginStop \/ CallOff
  BY <1>2, <1>6 DEF SyncHardwareClock, OtherProgram, PreShutdown, BeginStop, CallOff
<1>7. CASE Callback
  <2>1. pc # "dead" /\ UNCHANGED <<now, power>>
    BY <1>7 DEF Callback, UnitFails, ReadRealtime, ReadMonotonic, ReadMonotonicClock,
                ReadRealtimeClock, ReadAlarm, WriteAlarm, SetAlarm, GiveUp, Collect
  <2> QED BY <1>1, <1>2, <2>1
<1>8. CASE UNCHANGED vars
  BY <1>8 DEF vars, AlarmClock!vars
<1> QED BY <1>3, <1>4, <1>5, <1>6, <1>7, <1>8 DEF Next

\* The scheduler's machine, with its timers, its RTC and the programs that share it,
\* implements the alarm clock (ImplementsAlarmClock).
THEOREM Implements == Spec => ImplementsAlarmClock
<1>1. Init => AlarmClock!Init
  BY DEF Init, AlarmClock!Init
<1>2. IInv /\ IInv' /\ AlarmClock!AllAhead /\ AlarmClock!AllAhead' /\ [Next]_vars
        => [AlarmClock!Next]_(AlarmClock!vars)
  BY ClockStep
<1> QED BY <1>1, <1>2, PromiseAhead, Inductive, PTL DEF Spec, ImplementsAlarmClock, AlarmClock!Spec
=============================================================================
