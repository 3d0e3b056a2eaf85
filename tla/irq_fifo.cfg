CONSTANTS
  BUF_LEN = 3
  TMP_LEN = 1
  NLetters = 4
  Readers = {r1, r2}
  Pollers = {}
  Owners = {o1}
  Counts = {0, 1}
  Modes = {TRUE, FALSE}
  Faults = {0, 1}
  Timer = Timer
  Free = Free
SPECIFICATION Spec
PROPERTY IsLossyFifo
