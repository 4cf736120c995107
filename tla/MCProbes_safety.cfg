SPECIFICATION Spec
CONSTANTS
  p1 = p1
  p2 = p2
  c1 = c1
  c2 = c2
  Absent = Absent
  NoName = NoName
  n1 = n1
  n2 = n2
  Pids = {p1, p2}
  Cpus = {c1, c2}
  Comms = {n1, n2}
  W = 2
  MaxPids = 1
  Lap = 2
  Strays = {}
  Bases = {0, 4096}
  MaxRecords = 3
  Relocs <- RelocList
  SectionAt <- Layout
  Calls <- CallSet
  Hashed <- Bits
INVARIANTS TypeOK MirrorsTracker LineageMerged OwnCallAlarms
SYMMETRY KernelSymmetry
CHECK_DEADLOCK FALSE
