SPECIFICATION Spec
CONSTANTS
  Byte = {1, 2}
  Automata <- MCAutomata
  MaxDfaStates = 3
  Id = {1, 2, 3}
  Eos = 3
  Token <- MCToken
  MaxEntries = 4
  MaxTrieNodes = 4
INVARIANTS
  DfaIsExact
  IndexIsExact
  ProjectionsAgree
PROPERTIES
  PreparationEnds
CHECK_DEADLOCK FALSE
