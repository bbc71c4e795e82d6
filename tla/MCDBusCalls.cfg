\* logind's default limit of 5 s, two timer units, and a suspend before a shutdown.
CONSTANTS
  TimerUnits <- TIMER_UNITS
  DelayMax = 10
  MaxOps = 2
SPECIFICATION FairSpec
INVARIANTS TypeOK LocksRespected CallbackInTime AnswersBelong EveryAnnouncementHandled WellAddressed
PROPERTY LateLockGoes
