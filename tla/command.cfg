SPECIFICATION CommandSpec
CONSTANTS
  LOC_MAX = 20
  TRECORD_CODE_LIMIT = 6
  WORD_MAX = 7
  PC_RANGE = 4
  EXT_RANGE = 16
  REG_RANGE = 16
  INT_HALF = 64
  LONG_HALF = 256
  VEC_INIT = 2
  MREC_INIT = 1
  VEC_INC = 1
  Optab <- MCOptab
  BadNames = {"1A"}
  LongNames = {"PROGRAM"}
  Lines <- MCLines
  MaxLines = 4
  Files = {"a", "b"}
  MaxCommands = 3
  ReadMayFail = FALSE
  AllocMayFail = TRUE
\* No command need be given.
CHECK_DEADLOCK FALSE
INVARIANTS CommandTypeOK SymbolsAreOfOutputs TableOfThisProgram
PROPERTIES FailureLeavesNothing CommandReturns
