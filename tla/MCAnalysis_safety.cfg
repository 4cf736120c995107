SPECIFICATION Spec
CONSTANTS
  none = none
  bin = bin
  tmp = tmp
  shadow = shadow
  home = home
  ext = ext
  int = int
  mock = mock
  MaxOwn = 2
  MaxCached = 2
  Kinds <- KindSet
  Sensitive = {shadow, tmp}
  TmpPaths = {tmp}
  Routable = {ext}
  Known = {"bash"}
  Servers = {"bash"}
  Resources <- ResourceSet
  NoRes = none
  Part <- PartSet
  Alpha = 60
  MinSamples = 2
  Windows <- WindowSet
  ParentWindows <- CachedSet
  Samples <- SampleSet
  ModelDecisions <- ModelSet
  MockDecisions <- MockSet
  DraftThreshold = 90
  Retries = 2
  MaxParent = 2
  MaxIter = 1
  MaxHal = 50
INVARIANTS TypeOK GraphFaithful ClaimsFaithful FastPathBound
PROPERTIES Concludes
CHECK_DEADLOCK FALSE
