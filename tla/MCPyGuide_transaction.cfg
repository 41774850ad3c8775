SPECIFICATION PySpec
CONSTANTS
  Byte = {"n", "o", "c"}
  Language <- MCLanguage
  Backend = "earley"
  MaxInputBytes = 4
  Overflow <- MCOverflow
  NoScans = NoScans
  Token <- MCToken
  BytesOf <- MCBytesOf
  EOS = "eos"
  Unknown = {"?"}
  MaxRollback = 2
  MaxCommittedTokens = 5
  MaxMaskTrieEdges = 20
  Trial <- MCTrial
PROPERTY FailedCallChangesNothing
