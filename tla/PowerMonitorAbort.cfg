\* A shutdown that is called off leaves the daemon without its lock.
CONSTANT MaxOps = 3
SPECIFICATION Spec
INVARIANT IdleHoldsLockAlways
