CONSTANTS
  Entries = {e1, e2, e3, e4}
  Data <- Signed
  MAX_EVENTS = 4
  Users = {u1, u2}
  Text <- Word
  TestLen = 3
  Kinds = {"plain", "tasklet", "own", "system"}
SPECIFICATION Spec
INVARIANTS Ordered SameContents NoneLeft EventsNumbered ReadsBack RemoveIsClean
PROPERTIES TestEnds InterruptServed WorkServed
