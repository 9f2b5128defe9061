SPECIFICATION ShellSpec
CONSTANTS
  Lower <- MCLower
  Upper = {"A", "B", "C", "D"}
  Char <- MCChar
  Inputs <- MCLines
  ARGC_RESERVE = 4
  PTR_SIZE = 8
  AllocMayFail = TRUE
  MEM_TOTAL = 4
  DEFAULT_BYTES = 3
  DUMP_COL = 2
  BYTE_MAX = 1
  HEX_DIGITS = 2
  HexValue <- MCHexValue
  RADIX = 2
  Garbage <- MCGarbage
  OpcodeFiles <- MCOpcodeFiles
  MNEMONIC_MAXLEN = 3
  BYTE_VALUES = 16
  OPCODE_TABLE_SIZE = 2
  OpcodeHash <- MCOpcodeHash
  MAX_LEN = 9
  MaxReads = 3
\* The user need not type, and the shell ends.
CHECK_DEADLOCK FALSE
INVARIANTS ShellTypeOK FirstDefinitionCounts HistoryExplainsMemory
PROPERTIES MemoryIsArray DumpsContinue HistoryRecordsRuns PromptReturns QuitEnds
