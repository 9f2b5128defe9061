------------------------------- MODULE Memory -------------------------------
(* The simulated memory (memory.c) and the commands of commands.c that print *)
(* and change it.  The functions of memory.c take any range for granted:     *)
(* that it is one is up to the commands, which read it from their arguments. *)
(* An argument is a sequence of characters.                                  *)
EXTENDS Integers, Sequences, SequencesExt

CONSTANTS
  MEM_TOTAL,       \* bytes of memory (2^20)
  DEFAULT_BYTES,   \* bytes of a dump whose end is not given (160)
  DUMP_COL,        \* bytes of a printed row (16)
  BYTE_MAX,        \* 0xFF
  HEX_DIGITS,      \* digits parseHex_u20 reads (5)
  HexValue,        \* what isxdigit accepts, and its value
  RADIX,           \* 16
  Garbage          \* what malloc may find in the memory

ASSUME MemoryAssumption ==
  /\ MEM_TOTAL \in Nat \ {0} /\ DEFAULT_BYTES \in Nat \ {0}
  /\ DUMP_COL \in Nat \ {0} /\ BYTE_MAX \in Nat
  /\ Garbage \subseteq [0..MEM_TOTAL-1 -> 0..BYTE_MAX]

VARIABLES
  memAddr,         \* the bytes
  memIdx,          \* where a dump without arguments starts
  screen           \* rows of the last dump: row number -> column -> byte

memoryVars == <<memAddr, memIdx, screen>>

Address == 0..MEM_TOTAL-1
Byte == 0..BYTE_MAX

\* initMemory: the memory comes from malloc and is not cleared.
MemoryInit ==
  /\ memAddr \in Garbage
  /\ memIdx = 0
  /\ screen = [r \in {} |-> <<>>]

-----------------------------------------------------------------------------
HexDigit == DOMAIN HexValue

\* parseHex_u20 reads digits up to the last one it can hold.
IsHex(text) == Len(text) <= HEX_DIGITS /\ \A k \in DOMAIN text : text[k] \in HexDigit
TooLong(text) ==
  Len(text) > HEX_DIGITS /\ \A k \in 1..HEX_DIGITS : text[k] \in HexDigit
Number(text) == FoldLeft(LAMBDA x, c : x * RADIX + HexValue[c], 0, text)

\* An unsigned number below a bound.
Below(n, boundary) == n \in 0..boundary-1

NumberError(text, boundary) ==
  CASE IsHex(text) -> IF Below(Number(text), boundary) THEN "ok" ELSE "OUT_OF_RANGE"
    [] TooLong(text) -> "ARGUMENT_TOO_LONG"
    [] OTHER -> "NOT_HEX"

\* parseAddrPoint
PointError(text) == NumberError(text, MEM_TOTAL)

\* Mutation of RangeError: both ends are tested against the memory only.
RangeErrorUnordered(first, last) ==
  IF PointError(last) # "ok" THEN PointError(last) ELSE PointError(first)

\* parseAddrRange: the start is tested against the end, which is tested first.
RangeError(first, last) ==
  IF PointError(last) # "ok" THEN PointError(last)
  ELSE NumberError(first, Number(last) + 1)

\* parseByte
ByteError(text) == NumberError(text, BYTE_MAX + 1)

-----------------------------------------------------------------------------
\* What each command makes of its arguments (argv without the name).
DumpError(args) ==
  CASE Len(args) = 0 -> "ok"
    [] Len(args) = 1 -> PointError(args[1])
    [] Len(args) = 2 -> RangeError(args[1], args[2])
    [] OTHER -> "UNKNOWN_ARGUMENT"

EditError(args) ==
  IF Len(args) # 2 THEN "UNKNOWN_ARGUMENT"
  ELSE IF PointError(args[1]) # "ok" THEN PointError(args[1])
  ELSE ByteError(args[2])

FillError(args) ==
  IF Len(args) # 3 THEN "UNKNOWN_ARGUMENT"
  ELSE IF RangeError(args[1], args[2]) # "ok" THEN RangeError(args[1], args[2])
  ELSE ByteError(args[3])

ResetError(args) == IF args = <<>> THEN "ok" ELSE "UNKNOWN_ARGUMENT"

-----------------------------------------------------------------------------
Unprinted == -1

Row(r, start, end) ==
  [c \in 0..DUMP_COL-1 |->
     LET address == r * DUMP_COL + c IN
     IF address \in start..end THEN memAddr[address] ELSE Unprinted]

\* Mutation of AfterDump: memory is taken to end one byte later.
AfterDumpBeyond(end) == IF end = MEM_TOTAL THEN 0 ELSE end + 1

\* Mutation of AfterDump: the next dump starts with the last byte of this one.
AfterDumpOverlapping(end) == IF end + 1 = MEM_TOTAL THEN 0 ELSE end

\* Where the next dump starts.
AfterDump(end) == IF end + 1 = MEM_TOTAL THEN 0 ELSE end + 1

\* A dump whose end is not given stops at the end of memory.
WindowEnd(start) ==
  IF start + DEFAULT_BYTES - 1 >= MEM_TOTAL THEN MEM_TOTAL - 1
  ELSE start + DEFAULT_BYTES - 1

dumpMemory(start, end) ==
  /\ screen' = [r \in (start \div DUMP_COL)..(end \div DUMP_COL) |-> Row(r, start, end)]
  /\ memIdx' = AfterDump(end)
  /\ UNCHANGED memAddr

DumpNext(args) == args = <<>> /\ dumpMemory(memIdx, WindowEnd(memIdx))

DumpFrom(args) ==
  /\ Len(args) = 1 /\ DumpError(args) = "ok"
  /\ dumpMemory(Number(args[1]), WindowEnd(Number(args[1])))

DumpRange(args) ==
  /\ Len(args) = 2 /\ DumpError(args) = "ok"
  /\ dumpMemory(Number(args[1]), Number(args[2]))

Edit(args) ==
  /\ EditError(args) = "ok"
  /\ memAddr' = [memAddr EXCEPT ![Number(args[1])] = Number(args[2])]
  /\ UNCHANGED <<memIdx, screen>>

\* Mutation of Filled: the last byte of the range is left out.
FilledShort(start, end, value) ==
  [a \in Address |-> IF a \in start..end-1 THEN value ELSE memAddr[a]]

Filled(start, end, value) ==
  [a \in Address |-> IF a \in start..end THEN value ELSE memAddr[a]]

Fill(args) ==
  /\ FillError(args) = "ok"
  /\ memAddr' = Filled(Number(args[1]), Number(args[2]), Number(args[3]))
  /\ UNCHANGED <<memIdx, screen>>

Reset(args) ==
  /\ ResetError(args) = "ok"
  /\ memAddr' = [a \in Address |-> 0]
  /\ UNCHANGED <<memIdx, screen>>

-----------------------------------------------------------------------------
MemoryTypeOK ==
  /\ memAddr \in [Address -> Byte]
  /\ memIdx \in Address
  /\ DOMAIN screen \subseteq Nat
  /\ \A r \in DOMAIN screen : screen[r] \in [0..DUMP_COL-1 -> Byte \cup {Unprinted}]

\* What the last dump has shown, as a function of the address.
PrintedAt(a) ==
  /\ a \div DUMP_COL \in DOMAIN screen
  /\ screen[a \div DUMP_COL][a % DUMP_COL] # Unprinted
Printed == [a \in {b \in Address : PrintedAt(b)} |-> screen[a \div DUMP_COL][a % DUMP_COL]]
=============================================================================
