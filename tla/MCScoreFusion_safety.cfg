SPECIFICATION Spec
CONSTANTS
  Metas <- MetaSet
  LlmDrafts <- DraftSet
  Divergences = {0, 50, 100}
  Violations <- Found
  Extras = {0, 10}
  MaxHal = 50
  EgteMaxHal = 50
  Quantile = 400000
INVARIANTS TypeOK HallucinationNeverActs DestructionGrounded CriticalActs Monotone StudyExplained
