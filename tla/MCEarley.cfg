SPECIFICATION Spec
CONSTANTS
  Byte = {"a", "b"}
  Nonterminal = {"S", "T"}
  TerminalTable <- MCTerminals
  Words <- MCWords
  Literal = {"ta", "tab", "tb"}
  Grammars <- MCGrammars
  Chunk <- MCChunk
  Limits <- MCLimits
  MaxInputBytes = 4
  MaxSaved = 1
  Augmented = "S'"
INVARIANTS
  AnswersExactly
  ItemsAreDerivations
  ColumnsAreClosed
  BudgetsMatchChart
PROPERTIES
  FailedCallRestores
  CallsReturn
CHECK_DEADLOCK FALSE
