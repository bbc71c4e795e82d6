\* A stale announcement, queued before the daemon took its lock, makes it let go
\* of the lock under a later suspend or shutdown.
CONSTANT MaxOps = 3
SPECIFICATION Spec
INVARIANT HeldLockDelays
