\* Two timer units, half-second ticks, and a local time that is set back two seconds.
CONSTANTS
  Units = 2
  Sub = 2
  Start = 1
  MaxTime = 7
  Nanos = 4
  Word = 128
  ElapsePoints = {0, 3, 6, 127}
  Adjtimes = {"missing", "LOCAL", "invalid"}
  ChangeAt = 6
  ZoneBefore = 4
  ZoneAfter = 0
SPECIFICATION FairSpec
INVARIANTS TypeOK OneTimerIsEnough NeverSleepsThrough
PROPERTIES  WakesForTasks ImplementsAlarmClock
