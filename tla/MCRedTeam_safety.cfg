SPECIFICATION Spec
INVARIANTS ClaimsHold MissedOnlyByModel
CONSTANT MaxResults = 1
