\* A daily and a weekly runner, and up to three jobs of their targets.
CONSTANTS
  dailyRunner = dailyRunner
  weeklyRunner = weeklyRunner
  dailyTarget = dailyTarget
  weeklyTarget = weeklyTarget
  Runners = {dailyRunner, weeklyRunner}
  Units = {dailyTarget, weeklyTarget}
  Target <- OwnTargets
  MaxJobs = 3
SPECIFICATION FairSpec
INVARIANTS TypeOK ReturnsAfterJob
PROPERTY EndIsNoticed
CHECK_DEADLOCK FALSE
