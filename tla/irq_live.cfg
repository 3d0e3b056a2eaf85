CONSTANTS
  BUF_LEN = 2
  TMP_LEN = 1
  NLetters = 1
  Readers = {r1, r2}
  Pollers = {p1}
  Owners = {}
  Counts = {1}
  Modes = {TRUE, FALSE}
  Faults = {0}
  Timer = Timer
  Free = Free
SPECIFICATION FairSpec
PROPERTIES ReadReturns SelectReturns
