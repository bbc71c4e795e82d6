\* The power monitor under every interleaving of logind, the users, crashes and
\* restarts of the daemon, with up to three suspends or shutdowns.
CONSTANT MaxOps = 3
SPECIFICATION FairSpec
INVARIANTS TypeOK CallbackBeforeDown IdleHoldsLock
PROPERTIES ImplementsDelayLock SleepGoesAhead ShutdownGoesAhead
