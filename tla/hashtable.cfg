SPECIFICATION Spec
CONSTANTS
  Names <- MCNames
  Addresses = {0, 3}
  NumBuckets = 2
  Hash <- MCHash
  AllocMayFail = TRUE
\* The program may have crashed.
CHECK_DEADLOCK FALSE
INVARIANTS TypeOK WellFormed
PROPERTIES ImplementsMap
