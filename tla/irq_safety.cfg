CONSTANTS
  BUF_LEN = 3
  TMP_LEN = 2
  NLetters = 3
  Readers = {r1, r2}
  Pollers = {p1}
  Owners = {}
  Counts = {0, 2}
  Modes = {TRUE, FALSE}
  Faults = {0}
  Timer = Timer
  Free = Free
SPECIFICATION Spec
SYMMETRY ReaderSymmetry
INVARIANTS TypeOK LockDiscipline RoomForStore RingConsecutive TmpIsPrefix DataStaysUntilTaken NoLostWakeup
PROPERTY StoreOnlyInFreeRoom
