\* One runner, with a longer clock and two resumes on their way to the scheduler.
CONSTANTS
  daily = daily
  weekly = weekly
  Runners = {daily}
  MinInnocentUptime = 2
  MinInnocentWaketime = 1
  MaxTime = 4
  MaxHeard = 2
SPECIFICATION FairSpec
PROPERTY ReturnsToRest
