CONSTANTS
  Modules = {"spinlock"}
  Enough = 2
  MaxData = 4
SPECIFICATION FairSpec
PROPERTY SpinlockReschedules
\* spinlock.c stops for good when its handler interrupts init inside the lock.
CHECK_DEADLOCK FALSE
