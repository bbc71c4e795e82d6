\* Two interchangeable runners; one tick is enough to be woken too late, two to
\* be booted too late.
CONSTANTS
  daily = daily
  weekly = weekly
  Runners = {daily, weekly}
  MinInnocentUptime = 2
  MinInnocentWaketime = 1
  MaxTime = 2
  MaxHeard = 1
SPECIFICATION Spec
SYMMETRY Interchangeable
INVARIANTS TypeOK InnocentLeftAlone
