SPECIFICATION Spec
CONSTANTS
  Character <- MCCharacter
  ByteOf <- MCByteOf
  MaxExponent = 9
  MaxPlaces = 8
  Byte <- MCByte
  Words <- MCWords
  Reversible = {}
  TypeWords <- MCTypeWords
  Universe <- MCUniverse
  Documents <- MCAssertions
  SchemaLimits <- MCSchemaLimits
  Limits <- MCLimits
  MaxLength = 9
  StringCharacter <- MCStringCharacter
  FormatWords <- MCFormatWords
  MaxRecursionDepth = 1
  OtherTexts <- MCOtherTexts
INVARIANTS
  NormalizationIsExact
CHECK_DEADLOCK FALSE
