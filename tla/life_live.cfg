CONSTANTS
  p1 = p1
  MAX_DEVICES = 1
  Drivers = {p1}
  Children <- Single
  NeedsFirmware = {}
  Fixed = {}
  Sources = {"irq"}
  Files = {f1, f2}
  Bufs = {b1}
  Objects = {o1}
  LongLabels = {}
  Null = Null
  Serialised = TRUE
  DeviceRefs = 3
SPECIFICATION LifeFairSpec
PROPERTIES ReadReturnsOrOrphaned UnregisterReturns
