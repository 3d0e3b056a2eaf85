CONSTANTS
  Modules = {"ktimer", "hires_timer", "atomic", "mutex", "spinlock", "completion", "waitqueue"}
  Enough = 2
  MaxData = 4
SPECIFICATION FairSpec
INVARIANTS TypeOK NoLostIncrement CodeGone JobDone
PROPERTIES InitReturns Reschedules
\* spinlock.c stops for good when its handler interrupts init inside the lock.
CHECK_DEADLOCK FALSE
