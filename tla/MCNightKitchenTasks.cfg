\* The runner that is done first puts the machine to rest under the other one.
CONSTANTS
  daily = daily
  weekly = weekly
  Runners = {daily, weekly}
  MinInnocentUptime = 2
  MinInnocentWaketime = 1
  MaxTime = 2
  MaxHeard = 1
SPECIFICATION Spec
PROPERTY TasksComplete
