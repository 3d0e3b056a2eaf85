CONSTANTS
  BUF_LEN = 3
  TMP_LEN = 2
  NLetters = 4
  Readers = {r1}
  Pollers = {}
  Owners = {}
  Counts = {2}
  Modes = {TRUE, FALSE}
  Faults = {0}
  Timer = Timer
  Free = Free
SPECIFICATION Spec
INVARIANT TmpIsUnread
