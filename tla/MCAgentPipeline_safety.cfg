SPECIFICATION FairSpec
CONSTANTS
  s1 = s1
  s2 = s2
  s3 = s3
  p1 = p1
  p2 = p2
  NoSignal = NoSignal
  Signals <- AllSignals
  Pids = {p1, p2}
  PidOf <- AllPidOf
  DetCap = 1
  AnaCap = 1
  MaxLLM = 2
  Pcabp = TRUE
  EvictTtl = 1
  EvictInterval = 2
INVARIANTS TypeOK OnePlace FifoStart EnforcementLogged
PROPERTIES ImplementsLedger Settles DetectorResumes
CHECK_DEADLOCK FALSE
