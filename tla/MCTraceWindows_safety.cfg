SPECIFICATION Spec
CONSTANTS
  Files <- MCFiles
  Uuids = {"A", "B", "C", "D", "o", "n"}
  NoUuid = "none"
  Null = "null"
  Texts <- MCTexts
  Pids = {0, 1, 2, 3, 4}
  WindowSize = 2
  MinHits = 2
  MaxDepth = 2
  MaxAttack = 2
  MaxBenign = 1
  HardPercent = 50
  AttackComms = {"nginx"}
  HighPrio = {"sh"}
INVARIANTS StreamFaithful ChainFaithful
CHECK_DEADLOCK FALSE
