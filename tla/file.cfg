CONSTANTS
  p1 = p1
  p2 = p2
  f1 = f1
  BUF_LEN = 2
  Values = {0, 1}
  Procs = {p1, p2}
  Files = {f1}
  FileOf <- Shared
  Counts = {1, 3}
  Offsets <- Around
  Clients = {c1}
  Versions = {"attrs", "plain", "mutex"}
  Mapped = {"plain"}
  Faulty = {"plain"}
  Free = Free
SPECIFICATION Spec
SYMMETRY ProcSymmetry
INVARIANTS TypeOK InBounds MutexExcludes ReadOnlyBarsWrites
PROPERTY IsAtomic
