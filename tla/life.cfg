CONSTANTS
  p1 = p1
  MAX_DEVICES = 1
  Drivers = {p1}
  Children <- Single
  NeedsFirmware = {}
  Fixed = {}
  Sources = {"irq"}
  Files = {f1, f2}
  Bufs = {b1}
  Objects = {o1, o2}
  LongLabels = {}
  Null = Null
  Serialised = TRUE
  DeviceRefs = 3
SPECIFICATION LifeSpec
INVARIANT ReferencesExact
