SPECIFICATION Spec
CONSTANTS
  p1 = p1
  p2 = p2
  p3 = p3
  p4 = p4
  sh = sh
  ls = ls
  NoPid = NoPid
  NoType = NoType
  Pids = {p1, p2, p3, p4}
  Comms = {sh, ls}
  Types <- SyscallTypes
  Events <- EventSet
  WinSize = 2
  EntWin = 2
  MarkovGate = TRUE
  EvictTtl = 1
  EvictInterval = 2
  MaxEvents = 5
  Flat <- OneType
  MarkovFlat <- Determined
INVARIANTS TypeOK StateFaithful NoveltyReported
CHECK_DEADLOCK FALSE
