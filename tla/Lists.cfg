SPECIFICATION Spec
CONSTANTS
  None = None
  Size = 4
  Value = {1, 2}
  Asked <- Walks
  MaxWrites = 2
INVARIANTS TypeOK MissedOnlyByWrites RepeatedOnlyByWrites AsManyAsCounted
CHECK_DEADLOCK FALSE
