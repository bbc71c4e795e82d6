\* A runner that has ended has taken the directory of the scheduler with it.
CONSTANTS
  daily = daily
  weekly = weekly
  Runners = {daily, weekly}
  MinInnocentUptime = 2
  MinInnocentWaketime = 1
  MaxTime = 2
  MaxHeard = 1
SPECIFICATION Spec
PROPERTY ResumesAreStamped
