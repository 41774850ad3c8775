SPECIFICATION Spec
CONSTANTS
  Byte = {"a", "b", "c"}
  Nonterminal = {"S", "T", "U"}
  TerminalTable <- MCTerminals
  Words <- MCWords
  Literal = {"ta", "tb", "tc", "tab"}
  Augmented = "S'"
  Eof = "eof"
  Grammars <- MCGrammars
  Chunk <- MCChunk
  Limits <- MCLimits
  MaxInputBytes = 5
  MaxReductions = 8
  MaxSaved = 1
INVARIANTS
  AnswersExactly
  StacksArePaths
  LimitsNeverMislead
PROPERTIES
  FailedCallRestores
CHECK_DEADLOCK FALSE
