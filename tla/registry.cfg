CONSTANTS
  p1 = p1
  p2 = p2
  p3 = p3
  p4 = p4
  p5 = p5
  p6 = p6
  MAX_DEVICES = 3
  Drivers = {p1, p2, p3, p4, p5, p6}
  Children <- Platform
  NeedsFirmware = {p2}
  Fixed = {p3}
  Sources = {"static", "page", "irq"}
  Files = {f1}
  Bufs = {b1, b2}
  LongLabels = {"long"}
  Null = Null
  Serialised = TRUE
SPECIFICATION SceneSpec
SYMMETRY BufSymmetry
\* BUG() ends the threads of a driver, and a cut label keeps a device for good.
CHECK_DEADLOCK FALSE
INVARIANTS TypeOK AllOrNothing TimerHasBuffer ExitLeavesNothing
PROPERTY OnlyOwnerUnregisters
