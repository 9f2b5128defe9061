SPECIFICATION Spec
CONSTANTS
  LOC_MAX = 20
  TRECORD_CODE_LIMIT = 6
  WORD_MAX = 7
  PC_RANGE = 4
  EXT_RANGE = 16
  REG_RANGE = 16
  INT_HALF = 64
  LONG_HALF = 256
  VEC_INIT = 2
  MREC_INIT = 1
  VEC_INC = 1
  Optab <- MCOptab
  BadNames = {"1A"}
  LongNames = {"PROGRAM"}
  Lines <- LayoutLines
  MaxLines = 4
  ReadMayFail = FALSE
  AllocMayFail = FALSE
\* assemble() returns, and then nothing is left to do.
CHECK_DEADLOCK FALSE
INVARIANTS TypeOK AddressesAdvance TextRecordsFit RecordsContiguous ImageIsListing CodeInsideProgram LeavesBuffersByTail
PROPERTIES LoadsOnce Terminates
