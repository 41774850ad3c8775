SPECIFICATION Spec
CONSTANTS
  Byte = {"n", "o", "c"}
  Language <- MCLanguage
  Backend = "earley"
  MaxInputBytes = 4
  Overflow <- MCOverflow
  NoScans = NoScans
  Chunk <- MCChunk
  MaxCheckpointHistory = 3
  HandleOrder = "nested"
INVARIANTS
  AnswersForText
PROPERTIES
  RestoreReturnsToCheckpoint
  RestoreIsNeverRefused
  FailedAdvanceLeavesNoTrace
