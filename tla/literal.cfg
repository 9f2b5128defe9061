SPECIFICATION LiteralSpec
CONSTANTS
  SZ = 2
  TRECORD_CODE_LIMIT = 3
  HexValue <- MCHexValue
  Ascii <- MCAscii
  Stale = {0, 9}
  Lower = {"a"}
  MaxLength = 5
  Texts <- MCTexts
\* An operand has been scanned.
CHECK_DEADLOCK FALSE
INVARIANTS TokenAsMeant ItemsAsMeant LengthsAgree CodeIsLiteral
PROPERTY LiteralEnds
