SPECIFICATION ParseSpec
CONSTANTS
  Lower = {"a"}
  ARGC_RESERVE = 3
  PTR_SIZE = 8
  AllocMayFail = TRUE
  MaxLength = 7
  Char <- MCChar
  Inputs <- MCInputs
\* A line has been parsed.
CHECK_DEADLOCK FALSE
INVARIANTS BufferFits SplitsAsMeant
