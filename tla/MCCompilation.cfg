SPECIFICATION Spec
CONSTANTS
  Byte = {"a", "b"}
  Words <- MCWords
  Reversible <- MCReversible
  Grammars <- MCGrammars
  MaxLength = 4
INVARIANTS
  MarksAreExact
  ReductionKeepsLanguage
  ComponentsAreClasses
  CertificatesAreExact
  BackendKeepsLanguage
CHECK_DEADLOCK FALSE
