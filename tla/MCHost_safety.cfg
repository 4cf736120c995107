SPECIFICATION Spec
CONSTANTS
  p1 = p1
  p2 = p2
  NoEvent = NoEvent
  Pids = {p1}
  RingSize = 1
  QueueSize = 2
  Burst = 1
  MaxLife = 2
  MaxWork = 4
INVARIANTS TypeOK MarksHold KillLands DryRunHarmless
PROPERTIES ImplementsChannel Unstranded
CHECK_DEADLOCK FALSE
