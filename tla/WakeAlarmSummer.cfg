\* Hardware clock in local time, which is set forward before the activation.
CONSTANTS
  Units = 2
  Sub = 1
  Start = 1
  MaxTime = 7
  Nanos = 4
  Word = 128
  ElapsePoints = {0, 4, 6}
  Adjtimes = {"missing", "LOCAL"}
  ChangeAt = 5
  ZoneBefore = 0
  ZoneAfter = 1
SPECIFICATION Spec
INVARIANT NeverSleepsThroughDst
