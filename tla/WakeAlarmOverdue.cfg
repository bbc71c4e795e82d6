\* A timer that is due but has not been run yet when the shutdown begins.
CONSTANTS
  Units = 2
  Sub = 1
  Start = 1
  MaxTime = 6
  Nanos = 4
  Word = 128
  ElapsePoints = {0, 4, 6}
  Adjtimes = {"missing", "LOCAL"}
  ChangeAt = 5
  ZoneBefore = 0
  ZoneAfter = 0
SPECIFICATION Spec
INVARIANT ScheduledMeansArmed
