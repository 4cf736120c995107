SPECIFICATION Spec
CONSTANTS
  p1 = p1
  p2 = p2
  Pids = {p1, p2}
  Kinds <- AllKinds
  SimpleAxioms <- DefaultSimple
  TemporalAxioms <- DefaultTemporal
  WinSize = 3
  MaxEvents = 4
SYMMETRY Symmetry
INVARIANTS TypeOK FeedExact WatchesExact TemporalExact SlidingComplete
