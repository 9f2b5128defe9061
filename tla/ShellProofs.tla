----------------------------- MODULE ShellProofs -----------------------------
(* For every line, alphabet and growth of argv: what the parser writes fits  *)
(* the buffer it has allocated, and is the words of the line.  For every     *)
(* memory, window and row and every line typed: the memory commands          *)
(* implement an array, dumps go through it in order, and the history         *)
(* explains its bytes.  For every opcode file: the first line that names a   *)
(* mnemonic counts.                                                          *)
EXTENDS Shell, Lemmas

\* What a result leaves in buffer and argv.
Emptied == buffer = <<>> /\ argv = <<>>

(* The inductive invariant.  Before the name nothing is written; in the loop *)
(* as much has been written as has been read, at most, because the delimiter *)
(* of each argument makes room for its NUL: the bound on the length alone    *)
(* does not survive an iteration.                                            *)
ParseInv ==
  /\ ParseTypeOK /\ BufferFits
  /\ parse = "name" => Emptied
  /\ parse = "arguments" => Len(buffer) < pos

\* The parser's invariant holds of a line not yet read.
LEMMA ParseInvInit == ParseInit => ParseInv
  <1> SUFFICES ASSUME ParseInit PROVE ParseInv
    OBVIOUS
  <1> USE DEF ParseInit
  <1>1. input \in Seq(Char) /\ Len(input) \in Nat
    BY ParseAssumption, LenProperties
  <1>2. argcReserve \in Nat /\ argvBytes \in Nat
    BY ParseAssumption, ProductIsNat
  <1>3. ParseTypeOK
    BY <1>1, <1>2 DEF ParseTypeOK
  <1> QED BY <1>1, <1>3 DEF ParseInv, BufferFits, Emptied

\* The part of the invariant an error exit or a stutter leaves alone.
LEMMA CleanupInv ==
  ASSUME ParseInv, NEW errCode \in Results, Cleanup(errCode)
  PROVE  ParseInv'
  <1>1. ParseTypeOK'
    BY DEF ParseInv, ParseTypeOK, Cleanup
  <1>2. Len(input) \in Nat
    BY LenProperties DEF ParseInv, ParseTypeOK
  <1>3. errCode \notin {"name", "arguments"}
    BY DEF Results, Refusals
  <1> QED BY <1>1, <1>2, <1>3 DEF ParseInv, BufferFits, Cleanup, Emptied

\* A result that touches no buffer keeps the parser's invariant.
LEMMA KeepInv ==
  ASSUME ParseInv, UNCHANGED <<input, pos, buffer, argv, argcReserve, argvBytes>>,
         parse' \in Results \cup {"undefined"}
  PROVE  ParseInv'
  <1>1. parse' \notin {"name", "arguments"}
    BY DEF Results, Refusals
  <1> QED BY <1>1 DEF ParseInv, ParseTypeOK, BufferFits, Emptied

\* An argument is stored in the room that what was read of it leaves.
LEMMA StoreInv ==
  ASSUME ParseInv, NEW start \in 1..Len(input)+1, NEW end \in start..Len(input)+1,
         Len(buffer) < start,
         NEW next \in 1..Len(input)+1, NEW state \in {"ok", "arguments"},
         Store(start, end, next, state), state = "arguments" => end < next
  PROVE  ParseInv'
  <1>1. /\ input \in Seq(Char) /\ Len(input) \in Nat
        /\ buffer \in Seq(Char \cup {NUL}) /\ Len(buffer) \in Nat
    BY LenProperties DEF ParseInv, ParseTypeOK
  <1>2. buffer' \in Seq(Char \cup {NUL}) /\ Len(buffer') = Len(buffer) + (end - start) + 1
    BY <1>1, Terminated, ZenonT(40) DEF Store, Saved
  <1>3. input' = input /\ pos' = next /\ parse' = state
    BY DEF Store
  <1>4. argv' \in Seq(1..Len(input)+1)
    BY <1>1, AppendProperties DEF Store, ParseInv, ParseTypeOK
  <1>5. argcReserve' \in Nat /\ argvBytes' \in Nat
    <2>1. argcReserve' = NewReserve /\ argvBytes' = NewBytes
      BY Zenon DEF Store
    <2>2. argcReserve \in Nat /\ argvBytes \in Nat /\ argcReserve + ARGC_RESERVE \in Nat
      <3>1. argcReserve \in Nat /\ argvBytes \in Nat /\ ARGC_RESERVE \in Nat
        BY ParseAssumption, Zenon DEF ParseInv, ParseTypeOK
      <3> QED BY <3>1
    <2> QED BY <2>1, <2>2, Zenon DEF NewReserve, NewBytes
  <1>6. Len(buffer') <= end /\ BufferFits'
    BY <1>1, <1>2, <1>3 DEF BufferFits
  <1>7. ParseTypeOK'
    BY <1>1, <1>2, <1>3, <1>4, <1>5 DEF ParseTypeOK, Results
  <1>8. parse' # "name" /\ (parse' = "arguments" => Len(buffer)' < pos')
    BY <1>1, <1>2, <1>3, <1>6
  <1> QED BY <1>6, <1>7, <1>8 DEF ParseInv
-----------------------------------------------------------------------------
\* The name is stored, with what is behind it behind its NUL.
LEMMA NameInv == ASSUME ParseInv, ParseName PROVE ParseInv'
  <1>1. input \in Seq(Char) /\ Len(input) \in Nat /\ parse = "name" /\ At(Start) # NUL
    BY LenProperties DEF ParseInv, ParseTypeOK, ParseName, NamedInLowercase
  <1>2. Start \in 1..Len(input)+1
    BY <1>1, BehindIs DEF Start, JumpBlank
  <1>3. Start \in 1..Len(input)
    BY <1>1, <1>2, InsideText DEF At
  <1>4. End \in Start..Len(input)+1 /\ At(End) \in Blank \cup {NUL}
    BY <1>1, <1>2, FirstInIs DEF End, NextIn, At
  <1>5. AfterName \in End..Len(input)+1 /\ At(AfterName) \notin Blank
    <2>1. End \in 1..Len(input)+1
      BY <1>1, <1>2, <1>4
    <2> QED BY <1>1, <2>1, BehindIs DEF AfterName, JumpBlank, At
  <1>6. Len(buffer) < Start
    BY <1>1, <1>2, EmptySeq DEF ParseInv, Emptied
  <1>7. AfterName \in 1..Len(input)+1
    BY <1>1, <1>2, <1>4, <1>5
  <1>8. CASE Cleanup("INVALID_DELIMITER")
    BY <1>8, CleanupInv DEF Results, Refusals
  <1>9. CASE Store(Start, End, AfterName, "ok")
    BY <1>2, <1>3, <1>4, <1>6, <1>7, <1>9, StoreInv
  <1>10. CASE At(AfterName) \notin {NUL, ","} /\ Store(Start, End, AfterName, "arguments")
    <2>1. End # AfterName
      BY <1>4, <1>5, <1>10
    <2>2. End < AfterName
      BY <1>1, <1>2, <1>4, <1>5, <2>1
    <2> QED BY <1>2, <1>3, <1>4, <1>6, <1>7, <1>10, <2>2, StoreInv
  <1> QED BY <1>8, <1>9, <1>10 DEF ParseName

\* An argument is stored, with the next one behind its delimiter.
LEMMA ArgumentInv == ASSUME ParseInv, ParseArgument PROVE ParseInv'
  <1>1. /\ input \in Seq(Char) /\ Len(input) \in Nat /\ parse = "arguments"
        /\ pos \in 1..Len(input)+1 /\ Len(buffer) < pos
    BY LenProperties DEF ParseInv, ParseTypeOK, ParseArgument
  <1>2. WordEnd(pos) \in pos..Len(input)+1
    BY <1>1, FirstInIs DEF WordEnd, NextIn
  <1>3. Delimiter \in WordEnd(pos)..Len(input)+1 /\ Delimiter \in 1..Len(input)+1
    <2>1. WordEnd(pos) \in 1..Len(input)+1
      BY <1>1, <1>2
    <2> QED BY <1>1, <2>1, BehindIs DEF Delimiter, JumpBlank
  <1>4. CASE Store(pos, WordEnd(pos), Delimiter, "ok")
    BY <1>1, <1>2, <1>3, <1>4, StoreInv
  <1>5. CASE At(Delimiter) = "," /\ Store(pos, WordEnd(pos), NextArgument, "arguments")
    <2>1. Delimiter \in 1..Len(input)
      BY <1>1, <1>3, <1>5, InsideText DEF At, NUL
    <2>2. NextArgument \in Delimiter+1..Len(input)+1
      BY <1>1, <2>1, BehindIs DEF NextArgument, JumpBlank
    <2>3. NextArgument \in 1..Len(input)+1 /\ WordEnd(pos) < NextArgument
      BY <1>1, <1>2, <1>3, <2>1, <2>2
    <2> QED BY <1>1, <1>2, <1>5, <2>3, StoreInv
  <1> QED BY <1>4, <1>5 DEF ParseArgument

\* Every step of the parser keeps it.
LEMMA ParseInvStep == ParseInv /\ [ParseNext]_parseVars => ParseInv'
  <1> SUFFICES ASSUME ParseInv, [ParseNext]_parseVars PROVE ParseInv'
    OBVIOUS
  <1>1. CASE EmptyInput
    BY <1>1, KeepInv DEF EmptyInput, Results
  <1>2. CASE NoMemory
    BY <1>2, CleanupInv DEF NoMemory, Results, Refusals
  <1>3. CASE NotLowercase
    BY <1>3, CleanupInv DEF NotLowercase, Results, Refusals
  <1>4. CASE ParseName
    BY <1>4, NameInv
  <1>5. CASE BadDelimiter
    BY <1>5, CleanupInv DEF BadDelimiter, Results, Refusals
  <1>6. CASE ParseArgument
    BY <1>6, ArgumentInv
  <1>7. CASE ArgumentOutside
    BY <1>7, KeepInv DEF ArgumentOutside, StoreOutside
  <1>8. CASE UNCHANGED parseVars
    BY <1>8 DEF parseVars, ParseInv, ParseTypeOK, BufferFits, Emptied
  <1> QED BY <1>1, <1>2, <1>3, <1>4, <1>5, <1>6, <1>7, <1>8 DEF ParseNext

\* It holds throughout.
LEMMA ParseInvariant == ParseSpec => []ParseInv
  BY ParseInvInit, ParseInvStep, PTL DEF ParseSpec

\* However a line is split, the arguments fit the buffer (parse.c:94).
THEOREM BufferAlwaysFits == ParseSpec => []BufferFits
  <1>1. ParseInv => BufferFits
    BY DEF ParseInv
  <1> QED BY <1>1, ParseInvariant, PTL

\* The positions, the strings and the result of the parser have their types.
THEOREM ParseTypeCorrect == ParseSpec => []ParseTypeOK
  <1>1. ParseInv => ParseTypeOK
    BY DEF ParseInv
  <1> QED BY <1>1, ParseInvariant, PTL
-----------------------------------------------------------------------------
\* Rows follow each other as their bytes do.
LEMMA RowsInOrder ==
  ASSUME NEW a \in Nat, NEW b \in Nat, NEW c \in Nat \ {0}, a <= b
  PROVE  a \div c <= b \div c
  <1> DEFINE q == a \div c
             r == b \div c
             k == a % c
             l == b % c
  <1>1. /\ q \in Nat /\ k \in 0..c-1 /\ a = q * c + k
        /\ r \in Nat /\ l \in 0..c-1 /\ b = r * c + l
    BY Division
  <1> HIDE DEF q, r, k, l
  <1>2. ASSUME r < q PROVE FALSE
    <2>1. r * c + c <= q * c
      BY <1>1, <1>2, LaterRow
    <2>2. q * c \in Nat /\ r * c \in Nat
      BY <1>1, ProductIsNat
    <2> QED BY <1>1, <2>1, <2>2
  <1>3. q <= r
    BY <1>1, <1>2
  <1> QED BY <1>3 DEF q, r

-----------------------------------------------------------------------------
\* What the commands have tested their arguments for.
LEMMA PointInMemory ==
  ASSUME NEW text, PointError(text) = "ok" PROVE Number(text) \in Address
  BY DEF PointError, NumberError, Below, Address

\* A range that passes its tests lies in the memory, forwards.
LEMMA RangeInMemory ==
  ASSUME NEW first, NEW last, RangeError(first, last) = "ok"
  PROVE  Number(first) \in Address /\ Number(last) \in Address /\ Number(first) <= Number(last)
  <1>1. PointError(last) = "ok" /\ NumberError(first, Number(last) + 1) = "ok"
    BY DEF RangeError
  <1>2. Number(last) \in 0..MEM_TOTAL-1
    BY <1>1, PointInMemory DEF Address
  <1>3. Number(first) \in 0..(Number(last) + 1)-1
    BY <1>1 DEF NumberError, Below
  <1> QED BY <1>2, <1>3, MemoryAssumption DEF Address

\* A value that passes its test is a byte.
LEMMA ByteInRange ==
  ASSUME NEW text, ByteError(text) = "ok" PROVE Number(text) \in Byte
  <1>1. Number(text) \in 0..(BYTE_MAX + 1)-1
    BY DEF ByteError, NumberError, Below
  <1> QED BY <1>1, MemoryAssumption DEF Byte

\* A dump without an end shows a window of the memory.
LEMMA WindowInMemory ==
  ASSUME NEW start \in Address
  PROVE  WindowEnd(start) \in Address /\ start <= WindowEnd(start)
  BY MemoryAssumption DEF Address, WindowEnd

\* Whatever the rows, a dump shows the bytes of its range at their addresses.
LEMMA DumpShows ==
  ASSUME MemoryTypeOK, NEW start \in Address, NEW end \in Address, start <= end,
         dumpMemory(start, end)
  PROVE  Printed' = [a \in start..end |-> memAddr[a]]
  <1>1. DUMP_COL \in Nat \ {0} /\ Address \subseteq Nat /\ start..end \subseteq Address
    BY MemoryAssumption DEF Address
  <1>2. ASSUME NEW a \in Address
        PROVE  /\ PrintedAt(a)' <=> a \in start..end
               /\ a \in start..end => screen'[a \div DUMP_COL][a % DUMP_COL] = memAddr[a]
    <2> DEFINE r == a \div DUMP_COL
               c == a % DUMP_COL
    <2>1. /\ r \in Nat /\ c \in 0..DUMP_COL-1 /\ r * DUMP_COL + c = a
      BY <1>1, Division
    <2>2. a \in start..end => r \in (start \div DUMP_COL)..(end \div DUMP_COL)
      <3>1. /\ start \in Nat /\ end \in Nat /\ a \in Nat
            /\ start \div DUMP_COL \in Nat /\ end \div DUMP_COL \in Nat
        BY <1>1, Division
      <3>2. ASSUME a \in start..end
            PROVE start \div DUMP_COL <= r /\ r <= end \div DUMP_COL
        <4>1. start <= a /\ a <= end
          BY <3>1, <3>2
        <4> QED BY <1>1, <3>1, <4>1, RowsInOrder
      <3> HIDE DEF r
      <3> QED BY <3>1, <3>2, <2>1
    <2>3. /\ DOMAIN screen' = (start \div DUMP_COL)..(end \div DUMP_COL)
          /\ r \in DOMAIN screen' => screen'[r] = Row(r, start, end)
      BY DEF dumpMemory
    <2>4. Row(r, start, end)[c] = IF a \in start..end THEN memAddr[a] ELSE Unprinted
      <3> HIDE DEF r, c
      <3> QED BY <2>1 DEF Row
    <2>5. memAddr[a] # Unprinted
      BY MemoryAssumption DEF MemoryTypeOK, Byte, Unprinted
    <2>6. PrintedAt(a)' <=> (r \in DOMAIN screen' /\ screen'[r][c] # Unprinted)
      BY DEF PrintedAt
    <2> HIDE DEF r, c
    <2>7. PrintedAt(a)' <=> a \in start..end
      BY <2>2, <2>3, <2>4, <2>5, <2>6
    <2>8. a \in start..end => screen'[r][c] = memAddr[a]
      BY <2>2, <2>3, <2>4
    <2> QED BY <2>7, <2>8 DEF r, c
  <1>3. {b \in Address : PrintedAt(b)'} = start..end
    BY <1>1, <1>2
  <1>4. Printed' = [a \in {b \in Address : PrintedAt(b)'} |->
                      screen'[a \div DUMP_COL][a % DUMP_COL]]
    BY DEF Printed
  <1> QED BY <1>1, <1>2, <1>3, <1>4

-----------------------------------------------------------------------------
\* What a step of the shell may do to the memory.
Dumps == \E start, end \in Address : start <= end /\ dumpMemory(start, end)
Writes ==
  \E first, last \in Address, v \in Byte :
    /\ first <= last
    /\ memAddr' = [a \in Address |-> IF a \in first..last THEN v ELSE memAddr[a]]
    /\ UNCHANGED <<memIdx, screen>>

\* Only the memory commands touch the memory.
LEMMA MemorySteps ==
  ASSUME [ShellNext]_shellVars
  PROVE  UNCHANGED memoryVars \/ RunDump \/ RunEdit \/ RunFill \/ RunReset
  <1>1. CASE LoadOpcode \/ LoadOverruns \/ Loaded \/ Parsing \/ NotACommand \/ FlushDone \/ FlushMore
    BY <1>1, Zenon DEF LoadOpcode, LoadOverruns, Loaded, Parsing, NotACommand, FlushDone, FlushMore, contextVars
  <1>2. CASE UnknownCommand \/ WrongArguments \/ CommandFails \/ RunPrinting \/ RunQuit
    BY <1>2, Zenon DEF UnknownCommand, WrongArguments, CommandFails, RunPrinting, RunQuit, contextVars
  <1>3. CASE LoadFails \/ ReadLine \/ ReadRest \/ ReadNothing
    BY <1>3, Zenon DEF LoadFails, ReadLine, ReadRest, ReadNothing, ReadPiece, contextVars
  <1>4. CASE UNCHANGED shellVars
    BY <1>4 DEF shellVars, contextVars
  <1> QED BY <1>1, <1>2, <1>3, <1>4, Zenon DEF ShellNext, Work, Execute

\* The dump command dumps a range.
LEMMA DumpStep == ASSUME MemoryTypeOK, RunDump PROVE Dumps
  <1>1. memIdx \in Address
    BY DEF MemoryTypeOK
  <1>2. CASE DumpNext(Args)
    BY <1>1, <1>2, WindowInMemory DEF DumpNext, Dumps
  <1>3. CASE DumpFrom(Args)
    <2>1. PointError(Args[1]) = "ok"
      BY <1>3 DEF DumpFrom, DumpError
    <2> QED BY <1>3, <2>1, PointInMemory, WindowInMemory DEF DumpFrom, Dumps
  <1>4. CASE DumpRange(Args)
    <2>1. RangeError(Args[1], Args[2]) = "ok"
      BY <1>4 DEF DumpRange, DumpError
    <2> QED BY <1>4, <2>1, RangeInMemory DEF DumpRange, Dumps
  <1> QED BY <1>2, <1>3, <1>4 DEF RunDump

\* edit, fill and reset write a range.
LEMMA WriteStep == ASSUME MemoryTypeOK, RunEdit \/ RunFill \/ RunReset PROVE Writes
  <1>1. CASE RunEdit
    <2>1. EditError(Args) = "ok" /\ Edit(Args)
      BY <1>1 DEF RunEdit, Edit
    <2>2. PointError(Args[1]) = "ok" /\ ByteError(Args[2]) = "ok"
      BY <2>1 DEF EditError
    <2> DEFINE first == Number(Args[1])
               v == Number(Args[2])
    <2>3. first \in Address /\ v \in Byte
      BY <2>2, PointInMemory, ByteInRange
    <2>4. memAddr' = [memAddr EXCEPT ![first] = v] /\ UNCHANGED <<memIdx, screen>>
      BY <2>1 DEF Edit
    <2> HIDE DEF first, v
    <2>5. first <= first /\ first..first = {first}
      BY <2>3, MemoryAssumption DEF Address
    <2>6. memAddr' = [a \in Address |-> IF a \in first..first THEN v ELSE memAddr[a]]
      BY <2>3, <2>4, <2>5 DEF MemoryTypeOK
    <2> QED BY <2>3, <2>4, <2>5, <2>6 DEF Writes
  <1>2. CASE RunFill
    <2>1. FillError(Args) = "ok" /\ Fill(Args)
      BY <1>2 DEF RunFill, Fill
    <2>2. RangeError(Args[1], Args[2]) = "ok" /\ ByteError(Args[3]) = "ok"
      BY <2>1 DEF FillError
    <2>3. /\ Number(Args[1]) \in Address /\ Number(Args[2]) \in Address
          /\ Number(Args[1]) <= Number(Args[2]) /\ Number(Args[3]) \in Byte
      BY <2>2, RangeInMemory, ByteInRange
    <2> QED BY <2>1, <2>3, Zenon DEF Fill, Filled, Writes
  <1>3. CASE RunReset
    <2>1. memAddr' = [a \in Address |-> 0] /\ UNCHANGED <<memIdx, screen>>
      BY <1>3 DEF RunReset, Reset
    <2>2. /\ 0 \in Address /\ MEM_TOTAL-1 \in Address /\ 0 <= MEM_TOTAL-1 /\ 0 \in Byte
          /\ \A a \in Address : a \in 0..MEM_TOTAL-1
      BY MemoryAssumption DEF Address, Byte
    <2>3. memAddr' = [a \in Address |-> IF a \in 0..MEM_TOTAL-1 THEN 0 ELSE memAddr[a]]
      BY <2>1, <2>2
    <2> QED BY <2>1, <2>2, <2>3 DEF Writes
  <1> QED BY <1>1, <1>2, <1>3

\* Nothing else touches the memory.
LEMMA MemoryEffect ==
  ASSUME MemoryTypeOK, [ShellNext]_shellVars
  PROVE  UNCHANGED memoryVars \/ Dumps \/ Writes
  BY MemorySteps, DumpStep, WriteStep

-----------------------------------------------------------------------------
\* What a dump leaves on the screen, and where the next one starts.
Continues ==
  memIdx = IF DOMAIN Printed = {} THEN 0 ELSE (Max(DOMAIN Printed) + 1) % MEM_TOTAL

(* The inductive invariant: the memory has its type, and the next dump is to *)
(* start behind what the screen shows, which is what its rows cannot tell.   *)
MemoryInv == MemoryTypeOK /\ Continues

\* The greatest address of a range.
LEMMA MaxOfRange ==
  ASSUME NEW a \in Nat, NEW b \in Nat, a <= b
  PROVE  Max(a..b) = b
  <1>1. b \in a..b /\ \A y \in a..b : b >= y
    OBVIOUS
  <1>2. \A x \in a..b : (\A y \in a..b : x >= y) => x = b
    BY <1>1
  <1> QED BY <1>1, <1>2 DEF Max

\* Behind the last address comes the first.
LEMMA NextAddress ==
  ASSUME NEW a \in Address PROVE AfterDump(a) = (a + 1) % MEM_TOTAL /\ AfterDump(a) \in Address
  <1>1. MEM_TOTAL \in Nat \ {0} /\ a \in 0..MEM_TOTAL-1
    BY MemoryAssumption DEF Address
  <1>2. CASE a + 1 = MEM_TOTAL
    <2>1. MEM_TOTAL % MEM_TOTAL = 0
      BY <1>1
    <2> QED BY <1>1, <1>2, <2>1 DEF AfterDump, Address
  <1>3. CASE a + 1 # MEM_TOTAL
    <2>1. a + 1 \in 0..MEM_TOTAL-1
      BY <1>1, <1>3
    <2>2. (a + 1) % MEM_TOTAL = a + 1
      BY <1>1, <2>1
    <2> QED BY <1>1, <1>3, <2>1, <2>2 DEF AfterDump, Address
  <1> QED BY <1>2, <1>3

\* A dump keeps the invariant of the memory.
LEMMA DumpInv ==
  ASSUME MemoryInv, NEW start \in Address, NEW end \in Address, start <= end,
         dumpMemory(start, end)
  PROVE  MemoryInv'
  <1>1. /\ start \in Nat /\ end \in Nat /\ DUMP_COL \in Nat \ {0} /\ Address \subseteq Nat
        /\ start \div DUMP_COL \in Nat /\ end \div DUMP_COL \in Nat
    <2>1. start \in Nat /\ end \in Nat /\ DUMP_COL \in Nat \ {0} /\ Address \subseteq Nat
      BY MemoryAssumption DEF Address
    <2> QED BY <2>1, Division
  <1>2. MemoryTypeOK'
    <2>1. memAddr' = memAddr /\ memIdx' = AfterDump(end)
      BY DEF dumpMemory
    <2>2. memIdx' \in Address
      BY <2>1, NextAddress
    <2>3. ASSUME NEW r PROVE Row(r, start, end) \in [0..DUMP_COL-1 -> Byte \cup {Unprinted}]
      <3>1. start..end \subseteq Address
        BY MemoryAssumption DEF Address
      <3>2. \A a \in start..end : memAddr[a] \in Byte
        BY <3>1 DEF MemoryInv, MemoryTypeOK
      <3> QED BY <3>2, Zenon DEF Row
    <2>4. /\ DOMAIN screen' \subseteq Nat
          /\ \A r \in DOMAIN screen' : screen'[r] \in [0..DUMP_COL-1 -> Byte \cup {Unprinted}]
      BY <1>1, <2>3 DEF dumpMemory
    <2> QED BY <2>1, <2>2, <2>4 DEF MemoryInv, MemoryTypeOK
  <1>3. Printed' = [a \in start..end |-> memAddr[a]]
    BY DumpShows DEF MemoryInv
  <1>4. DOMAIN Printed' = start..end /\ start \in start..end
    BY <1>1, <1>3
  <1>5. Max(DOMAIN Printed') = end
    BY <1>1, <1>4, MaxOfRange
  <1>6. memIdx' = (end + 1) % MEM_TOTAL
    BY NextAddress DEF dumpMemory
  <1> QED BY <1>2, <1>4, <1>5, <1>6 DEF MemoryInv, Continues

\* Writing keeps the invariant of the memory.
LEMMA WriteInv == ASSUME MemoryInv, Writes PROVE MemoryInv'
  <1>1. PICK first, last \in Address, v \in Byte :
          /\ memAddr' = [a \in Address |-> IF a \in first..last THEN v ELSE memAddr[a]]
          /\ UNCHANGED <<memIdx, screen>>
    BY DEF Writes
  <1>2. memAddr' \in [Address -> Byte]
    BY <1>1 DEF MemoryInv, MemoryTypeOK
  <1>3. Printed' = Printed
    BY <1>1, Zenon DEF Printed, PrintedAt
  <1> QED BY <1>1, <1>2, <1>3 DEF MemoryInv, MemoryTypeOK, Continues

\* It holds at the start.
LEMMA MemoryInvInit == ShellInit => MemoryInv
  <1> SUFFICES ASSUME ShellInit PROVE MemoryInv
    OBVIOUS
  <1>1. MEM_TOTAL \in Nat \ {0} /\ Garbage \subseteq [Address -> Byte]
    BY MemoryAssumption DEF Address, Byte
  <1>2. memAddr \in [Address -> Byte] /\ memIdx = 0 /\ screen = [r \in {} |-> <<>>]
    BY <1>1 DEF ShellInit, MemoryInit
  <1>3. DOMAIN Printed = {}
    BY <1>2 DEF Printed, PrintedAt
  <1> QED BY <1>1, <1>2, <1>3 DEF MemoryInv, MemoryTypeOK, Continues, Address

\* Every step of the shell keeps it.
LEMMA MemoryInvStep == MemoryInv /\ [ShellNext]_shellVars => MemoryInv'
  <1> SUFFICES ASSUME MemoryInv, [ShellNext]_shellVars PROVE MemoryInv'
    OBVIOUS
  <1>1. CASE UNCHANGED memoryVars
    <2>1. Printed' = Printed
      BY <1>1, Zenon DEF memoryVars, Printed, PrintedAt
    <2> QED BY <1>1, <2>1 DEF memoryVars, MemoryInv, MemoryTypeOK, Continues
  <1>2. CASE Dumps
    BY <1>2, DumpInv DEF Dumps
  <1> QED BY <1>1, <1>2, WriteInv, MemoryEffect DEF MemoryInv

\* It holds throughout.
LEMMA MemoryInvariant == ShellSpec => []MemoryInv
  BY MemoryInvInit, MemoryInvStep, PTL DEF ShellSpec

-----------------------------------------------------------------------------
\* The shell starts as the array does.
LEMMA ArrayInit == ShellInit => Array!Init
  <1> SUFFICES ASSUME ShellInit PROVE Array!Init
    OBVIOUS
  <1>1. Array!Address = Address
    BY DEF Array!Address, Address
  <1>2. memAddr \in [Address -> Byte]
    BY MemoryInvInit DEF MemoryInv, MemoryTypeOK
  <1>3. Printed = [a \in {} |-> 0]
    <2>1. {b \in Address : PrintedAt(b)} = {}
      BY DEF ShellInit, MemoryInit, PrintedAt
    <2> QED BY <2>1 DEF Printed
  <1> QED BY <1>1, <1>2, <1>3 DEF Array!Init

\* Every step of the shell is one of the array or leaves it alone.
LEMMA ArrayStep == MemoryInv /\ [ShellNext]_shellVars => [Array!Next]_Array!vars
  <1> SUFFICES ASSUME MemoryInv, [ShellNext]_shellVars PROVE [Array!Next]_Array!vars
    OBVIOUS
  <1>0. Array!Address = Address
    BY DEF Array!Address, Address
  <1>1. CASE UNCHANGED memoryVars
    <2>1. Printed' = Printed
      BY <1>1, Zenon DEF memoryVars, Printed, PrintedAt
    <2> QED BY <1>1, <2>1 DEF memoryVars, Array!vars
  <1>2. ASSUME NEW start \in Address, NEW end \in Address, start <= end, dumpMemory(start, end)
        PROVE  Array!Next
    <2>1. Printed' = [a \in start..end |-> memAddr[a]] /\ memAddr' = memAddr
      BY <1>2, DumpShows DEF MemoryInv, dumpMemory
    <2> QED BY <1>0, <1>2, <2>1, Zenon DEF Array!Next, Array!Show
  <1>3. CASE Writes
    <2>1. UNCHANGED <<memIdx, screen>> => Printed' = Printed
      BY Zenon DEF Printed, PrintedAt
    <2> QED BY <1>0, <1>3, <2>1, Zenon DEF Writes, Array!Next, Array!Write
  <1> QED BY <1>1, <1>2, <1>3, MemoryEffect DEF MemoryInv, Dumps

(* The memory commands implement an array of bytes: a dump shows a range of  *)
(* it at its addresses, however it is cut into rows, and nothing but edit,   *)
(* fill and reset changes a byte (memory.c:86, commands.c:101).              *)
THEOREM MemoryImplementsArray == ShellSpec => MemoryIsArray
  <1>1. ShellInit /\ [][ShellNext]_shellVars /\ []MemoryInv => Array!Spec
    BY ArrayInit, ArrayStep, PTL DEF Array!Spec
  <1> QED BY <1>1, MemoryInvariant, PTL DEF ShellSpec, MemoryIsArray

-----------------------------------------------------------------------------
\* The parser has nothing to do with a command that is parsed.
LEMMA ParserDone == ASSUME parse = "ok" PROVE ~ParseNext
  BY DEF ParseNext, EmptyInput, NoMemory, NotLowercase, ParseName, NamedInLowercase,
         BadDelimiter, ParseArgument, ArgumentOutside

\* A parsed command is executed next.
LEMMA CommandRuns ==
  ASSUME IsCommand, ShellNext PROVE Execute
  <1>1. phase = "parsing" /\ parse = "ok"
    BY DEF IsCommand
  <1>2. ~LoadOpcode /\ ~LoadOverruns /\ ~Loaded /\ ~LoadFails /\ ~FlushDone /\ ~FlushMore
    BY <1>1 DEF LoadOpcode, LoadOverruns, Loaded, LoadFails, FlushDone, FlushMore
  <1>3. ~ReadLine /\ ~ReadRest /\ ~ReadNothing
    BY <1>1 DEF ReadLine, ReadRest, ReadNothing, AtPrompt
  <1>4. ~Parsing
    BY <1>1, ParserDone DEF Parsing
  <1>5. ~NotACommand
    BY <1>1 DEF NotACommand, Refusals
  <1> QED BY <1>2, <1>3, <1>4, <1>5 DEF ShellNext, Work

\* A command with the right arguments is not taken for another.
LEMMA DumpRuns ==
  ASSUME IsRightly("dump"), ShellNext PROVE RunDump
  <1>1. IsCommand /\ Command = "dump" /\ ArgumentError("dump", Args) = "ok"
    BY DEF IsRightly
  <1>2. ~UnknownCommand /\ ~WrongArguments /\ ~CommandFails
    BY <1>1 DEF UnknownCommand, WrongArguments, CommandFails, FailsItself
  <1>3. ~RunEdit /\ ~RunFill /\ ~RunReset /\ ~RunQuit /\ ~RunPrinting
    BY <1>1 DEF RunEdit, RunFill, RunReset, RunQuit, RunPrinting, IsRightly
  <1> QED BY <1>1, <1>2, <1>3, CommandRuns DEF Execute

\* A dump without arguments goes on where the last one ended.
LEMMA DumpsContinueStep ==
  ASSUME MemoryInv, ShellNext, PlainDump
  PROVE  \E first, last \in Address :
           /\ first = IF DOMAIN Printed = {} THEN 0
                      ELSE (Max(DOMAIN Printed) + 1) % MEM_TOTAL
           /\ \/ last = first + DEFAULT_BYTES - 1
              \/ last = MEM_TOTAL - 1 /\ last < first + DEFAULT_BYTES - 1
           /\ DOMAIN Printed' = first..last
  <1>1. RunDump /\ Args = <<>>
    BY DumpRuns DEF PlainDump
  <1>2. dumpMemory(memIdx, WindowEnd(memIdx))
    <2>1. Len(Args) = 0
      BY <1>1
    <2> QED BY <1>1, <2>1 DEF RunDump, DumpNext, DumpFrom, DumpRange
  <1>3. memIdx \in Address /\ WindowEnd(memIdx) \in Address /\ memIdx <= WindowEnd(memIdx)
    BY WindowInMemory DEF MemoryInv, MemoryTypeOK
  <1>4. DOMAIN Printed' = memIdx..WindowEnd(memIdx)
    BY <1>2, <1>3, DumpShows DEF MemoryInv
  <1>5. \/ WindowEnd(memIdx) = memIdx + DEFAULT_BYTES - 1
        \/ WindowEnd(memIdx) = MEM_TOTAL - 1 /\ WindowEnd(memIdx) < memIdx + DEFAULT_BYTES - 1
    BY <1>3, MemoryAssumption DEF WindowEnd, Address
  <1>6. memIdx = IF DOMAIN Printed = {} THEN 0 ELSE (Max(DOMAIN Printed) + 1) % MEM_TOTAL
    BY DEF MemoryInv, Continues
  <1> QED BY <1>3, <1>4, <1>5, <1>6

(* Dumps without arguments walk through the memory, a window at a time, from *)
(* behind the last address shown (memory.c:61).                              *)
THEOREM DumpsWalkTheMemory == ShellSpec => DumpsContinue
  <1> DEFINE Step == PlainDump =>
        \E first, last \in Address :
           /\ first = IF DOMAIN Printed = {} THEN 0
                      ELSE (Max(DOMAIN Printed) + 1) % MEM_TOTAL
           /\ \/ last = first + DEFAULT_BYTES - 1
              \/ last = MEM_TOTAL - 1 /\ last < first + DEFAULT_BYTES - 1
           /\ DOMAIN Printed' = first..last
  <1>1. MemoryInv /\ [ShellNext]_shellVars => [Step]_shellVars
    BY DumpsContinueStep
  <1>2. DumpsContinue <=> [][Step]_shellVars
    BY PTL DEF DumpsContinue
  <1> HIDE DEF Step
  <1> QED BY <1>1, <1>2, MemoryInvariant, PTL DEF ShellSpec

-----------------------------------------------------------------------------
\* What a command that is executed does to history and memory.
LEMMA RecordedRun ==
  ASSUME NEW func, NEW entries \in Recorded(func), entries # history
  PROVE  entries = Append(history, input)
  BY DEF Recorded, RecordsItself, Updated

\* An entry is only missing when there was no memory for it.
LEMMA MissingEntry ==
  ASSUME NEW C, history \in Seq(C), input \in C, NEW func, history \in Recorded(func)
  PROVE  AllocMayFail
  <1>1. Append(history, input) # history
    BY AppendProperties
  <1> QED BY <1>1 DEF Recorded, RecordsItself, Updated

\* What a command that ran, or did not, leaves in the history.
LEMMA RunsRecord ==
  ASSUME IsCommand, ShellNext, NEW C, history \in Seq(C), input \in C
  PROVE  IF exitFlag' \in Errors THEN UNCHANGED contextVars
         ELSE IF history' = history THEN AllocMayFail
         ELSE history' = Append(history, input)
  <1>1. CASE UnknownCommand \/ CommandFails
    BY <1>1 DEF UnknownCommand, CommandFails, Executed, Errors
  <1>2. CASE WrongArguments
    <2>1. exitFlag' = ArgumentError(Command, Args) /\ UNCHANGED contextVars
      BY <1>2 DEF WrongArguments, Executed
    <2>2. ArgumentError(Command, Args) \in Errors
      BY <1>2 DEF WrongArguments, ArgumentError, Errors, DumpError, EditError, FillError,
         OpcodeError, Takes, PointError, RangeError, ByteError, NumberError
    <2> QED BY <2>1, <2>2
  <1>3. CASE RunDump \/ RunEdit \/ RunFill \/ RunReset \/ RunPrinting \/ RunQuit
    <2>1. exitFlag' \in {"ok", "QUIT_SHELL"} /\ RecordRun
      BY <1>3 DEF RunDump, RunEdit, RunFill, RunReset, RunPrinting, RunQuit, Executed
    <2>2. exitFlag' \notin Errors
      BY <2>1 DEF Errors
    <2>3. history' \in Recorded(Command)
      BY <2>1 DEF RecordRun
    <2> QED BY <2>2, <2>3, RecordedRun, MissingEntry
  <1> QED BY <1>1, <1>2, <1>3, CommandRuns DEF Execute

-----------------------------------------------------------------------------
\* The definitions an opcode file can give.
Definitions ==
  [mn : DOMAIN OpcodeHash, hex : 0..BYTE_VALUES-1, fm : {"FORMAT1", "FORMAT2", "FORMAT34"}]

\* What ShellTypeOK leaves out: the types of what is not being parsed, and
\* what keeps the parser's part of it.
ShellInv ==
  /\ MemoryInv /\ ShellTypeOK
  /\ phase = "parsing" => ParseInv
  /\ input \in Seq(Char)
  /\ opcodeTable \in [0..OPCODE_TABLE_SIZE-1 -> Seq(Definitions)]

\* Pieces of a line are lines.
LEMMA PieceOfLine ==
  ASSUME NEW text \in Seq(Char), NEW n \in Nat
  PROVE  Piece(text, n) \in Seq(Char) /\ Remainder(text, n) \in Seq(Char)
  <1> DEFINE m == Min({n, Len(text)})
  <1>1. Len(text) \in Nat
    BY LenProperties
  <1>2. {n, Len(text)} \in SUBSET Nat /\ {n, Len(text)} # {}
    BY <1>1
  <1>3. m \in Nat /\ m <= Len(text)
    BY <1>2, MinOf
  <1> HIDE DEF m
  <1>4. \A i \in 1..Len(text) : text[i] \in Char
    BY ElementOfSeq
  <1>5. SubSeq(text, 1, m) \in Seq(Char)
    <2>1. \A i \in 1..m : text[i] \in Char
      BY <1>1, <1>3, <1>4
    <2> QED BY <1>3, <2>1, SubSeqProperties
  <1>6. SubSeq(text, m + 1, Len(text)) \in Seq(Char)
    <2>1. \A i \in m+1..Len(text) : text[i] \in Char
      BY <1>1, <1>3, <1>4
    <2> QED BY <1>1, <1>3, <2>1, SubSeqProperties
  <1> QED BY <1>5, <1>6 DEF Piece, Remainder, m

\* A line is parsed from the beginning.
LEMMA BeginParseInv ==
  ASSUME NEW text \in Seq(Char), BeginParse(text) PROVE ParseInv' /\ input' \in Seq(Char)
  <1>1. Len(text) \in Nat /\ argcReserve' \in Nat /\ argvBytes' \in Nat
    BY ParseAssumption, ProductIsNat, LenProperties DEF BeginParse
  <1>2. ParseTypeOK'
    BY <1>1 DEF BeginParse, ParseTypeOK
  <1> QED BY <1>1, <1>2 DEF BeginParse, ParseInv, BufferFits, Emptied

\* The parser never leaves its line.
LEMMA ParserKeepsLine == ASSUME ParseNext PROVE input' = input
  BY DEF ParseNext, EmptyInput, NoMemory, NotLowercase, ParseName, NamedInLowercase,
         BadDelimiter, ParseArgument, ArgumentOutside, Cleanup, Store, StoreOutside

\* A piece of a line that is read is given to the parser as it is.
LEMMA PieceInv ==
  ASSUME ShellInv, NEW text \in Seq(Char), ReadPiece(text), reads < MaxReads
  PROVE  /\ ParseInv' /\ input' \in Seq(Char) /\ rest' \in Seq(Char)
         /\ phase' = "parsing" /\ reads' \in 0..MaxReads
         /\ UNCHANGED <<contextVars, exitFlag>>
  <1>1. MAX_LEN \in Nat /\ MaxReads \in Nat
    BY ShellAssumption
  <1>2. Piece(text, MAX_LEN) \in Seq(Char) /\ Remainder(text, MAX_LEN) \in Seq(Char)
    BY <1>1, PieceOfLine
  <1>3. reads' \in 0..MaxReads
    BY <1>1 DEF ReadPiece, ShellInv, ShellTypeOK
  <1> QED BY <1>2, <1>3, BeginParseInv DEF ReadPiece

\* The lines of the user, with a newline or without.
LEMMA TypedLines ==
  ASSUME NEW line \in Inputs PROVE line \in Seq(Char) /\ Append(line, Newline) \in Seq(Char)
  BY ParseAssumption, ShellAssumption, AppendProperties

-----------------------------------------------------------------------------
OpcodeInv ==
  /\ opcodeTable \in [0..OPCODE_TABLE_SIZE-1 -> Seq(Definitions)]
  /\ opcodeFile \in OpcodeFiles
  /\ opcodeNext \in 1..Len(opcodeFile)+1

Phases == {"loading", "prompt", "parsing", "flushing", "ended", "undefined"}

\* The main loop's part of the invariant.
LoopInv ==
  /\ phase \in Phases /\ exitFlag \in Errors \cup {"ok", "QUIT_SHELL"}
  /\ {inputEnded, fresh, unrecorded} \subseteq BOOLEAN
  /\ reads \in 0..MaxReads /\ history \in Seq(Seq(Char))
  /\ rest \in Seq(Char) /\ input \in Seq(Char)
  /\ phase = "parsing" => ParseInv

\* The invariant of the shell is that of its parts.
LEMMA PartsOfInv == ShellInv <=> MemoryInv /\ OpcodeInv /\ LoopInv
  <1>1. ASSUME OpcodeInv PROVE OpcodeTypeOK
    <2>1. \A d \in Definitions :
            d.hex \in 0..BYTE_VALUES-1 /\ d.fm \in {"FORMAT1", "FORMAT2", "FORMAT34"}
      BY DEF Definitions
    <2>2. ASSUME NEW h \in 0..OPCODE_TABLE_SIZE-1, NEW k \in DOMAIN opcodeTable[h]
          PROVE  opcodeTable[h][k] \in Definitions
      <3>1. opcodeTable[h] \in Seq(Definitions)
        BY <1>1 DEF OpcodeInv
      <3>2. k \in 1..Len(opcodeTable[h])
        BY <3>1, LenProperties
      <3> QED BY <3>1, <3>2, ElementOfSeq
    <2> QED BY <1>1, <2>1, <2>2 DEF OpcodeInv, OpcodeTypeOK
  <1>2. ParseInv => ParseTypeOK
    BY DEF ParseInv
  <1>3. MemoryInv => MemoryTypeOK
    BY DEF MemoryInv
  <1> QED BY <1>1, <1>2, <1>3 DEF ShellInv, ShellTypeOK, OpcodeTypeOK, OpcodeInv, LoopInv, Phases

\* What is known of a word of the file.
LEMMA WordOfFile ==
  ASSUME opcodeFile \in OpcodeFiles
  PROVE  /\ Len(opcodeFile) \in Nat /\ DOMAIN opcodeFile = 1..Len(opcodeFile)
         /\ \A p \in 1..Len(opcodeFile) : opcodeFile[p] \in FileWord
         /\ \A p, q \in 1..Len(opcodeFile) : p <= q => opcodeFile[p].line <= opcodeFile[q].line
         /\ \A p \in 1..Len(opcodeFile) : opcodeFile[p].line \in Nat
  <1>1. /\ opcodeFile \in Seq(FileWord)
        /\ \A p, q \in DOMAIN opcodeFile : p <= q => opcodeFile[p].line <= opcodeFile[q].line
    BY OpcodeAssumption, Zenon
  <1>2. Len(opcodeFile) \in Nat /\ DOMAIN opcodeFile = 1..Len(opcodeFile)
    BY <1>1, LenProperties
  <1>3. \A p \in 1..Len(opcodeFile) : opcodeFile[p] \in FileWord
    BY <1>1, <1>2, ElementOfSeq
  <1>4. \A w \in FileWord : w.line \in Nat
    BY DEF FileWord
  <1>5. \A p \in 1..Len(opcodeFile) : opcodeFile[p].line \in Nat
    BY <1>3, <1>4, Zenon
  <1> QED BY <1>1, <1>2, <1>3, <1>5, Zenon

\* What is known of an entry of the file.
LEMMA EntryOfFile ==
  ASSUME opcodeFile \in OpcodeFiles, NEW p \in Nat \ {0}, IsEntry(p)
  PROVE  /\ p \in 1..Len(opcodeFile) /\ FormatAt(p) \in p+1..Len(opcodeFile)
         /\ Mnemonic(p) \in DOMAIN OpcodeHash
         /\ OpcodeHash[Mnemonic(p)] \in 0..OPCODE_TABLE_SIZE-1
         /\ OpcodeDef(p) \in Definitions /\ OpcodeDef(p).mn = Mnemonic(p)
  <1> DEFINE w == opcodeFile[p]
             n == Len(opcodeFile)
  <1>1. /\ n \in Nat /\ p <= n /\ MnemonicAt(p) <= n /\ FormatAt(p) <= n
        /\ w.hex >= 0 /\ p \in 1..n
    BY WordOfFile DEF IsEntry, HasMnemonic, HasFormat
  <1>2. w \in FileWord
    BY <1>1, WordOfFile, Zenon
  <1>3. w.rest \in DOMAIN OpcodeHash \cup {<<>>} /\ w.hex \in Nat
    <2>1. w.rest \in DOMAIN OpcodeHash \cup {<<>>}
      BY <1>2, SMT DEF FileWord
    <2>2. w.hex \in Nat \cup {-1}
      BY <1>2 DEF FileWord
    <2> HIDE DEF w
    <2>3. w.hex \in Nat
      BY <1>1, <2>2
    <2> QED BY <2>1, <2>3
  <1>4. MnemonicAt(p) \in {p, p + 1} /\ (w.rest = <<>> => MnemonicAt(p) = p + 1)
    BY DEF MnemonicAt
  <1>5. FormatAt(p) \in p+1..n
    BY <1>1, <1>4 DEF FormatAt
  <1>6. Mnemonic(p) \in DOMAIN OpcodeHash
    <2>1. CASE w.rest = <<>>
      <3>1. p + 1 \in 1..n
        BY <1>1, <1>4, <2>1
      <3>2. opcodeFile[p + 1] \in FileWord
        BY <3>1, WordOfFile, Zenon
      <3>3. \A v \in FileWord : v.text \in DOMAIN OpcodeHash
        BY DEF FileWord
      <3> QED BY <2>1, <3>2, <3>3, Zenon DEF Mnemonic
    <2>2. CASE w.rest # <<>>
      BY <1>3, <2>2, Zenon DEF Mnemonic
    <2> QED BY <2>1, <2>2
  <1>7. OpcodeDef(p) \in Definitions
    <2>1. w.hex % BYTE_VALUES \in 0..BYTE_VALUES-1
      <3> HIDE DEF w
      <3> QED BY <1>3, OpcodeAssumption
    <2>2. \A f : Format(f) \in {"FORMAT1", "FORMAT2", "FORMAT34"}
      BY DEF Format
    <2> QED BY <1>6, <2>1, <2>2, Zenon DEF OpcodeDef, Definitions
  <1>8. OpcodeDef(p).mn = Mnemonic(p)
    BY Zenon DEF OpcodeDef
  <1>9. OpcodeHash[Mnemonic(p)] \in 0..OPCODE_TABLE_SIZE-1
    BY <1>6, OpcodeAssumption, Zenon
  <1> QED BY <1>1, <1>5, <1>6, <1>7, <1>8, <1>9, Zenon

\* The line behind that of a word begins behind it.
LEMMA NextLineIs ==
  ASSUME opcodeFile \in OpcodeFiles, NEW p \in 1..Len(opcodeFile)
  PROVE  /\ NextLine(p) \in p+1..Len(opcodeFile)+1
         /\ \A q \in p+1..NextLine(p)-1 : opcodeFile[q].line <= opcodeFile[p].line
         /\ NextLine(p) \in LineStarts \cup {Len(opcodeFile) + 1}
  <1> DEFINE n == Len(opcodeFile)
             later == {q \in p+1..n : opcodeFile[q].line > opcodeFile[p].line} \cup {n + 1}
             m == NextLine(p)
  <1>1. n \in Nat /\ DOMAIN opcodeFile = 1..n /\ \A q \in 1..n : opcodeFile[q].line \in Nat
    BY WordOfFile
  <1>2. later \in SUBSET Nat /\ later # {}
    BY <1>1
  <1>3. m = Min(later)
    BY DEF NextLine
  <1>4. m \in later /\ \A q \in later : m <= q
    <2> HIDE DEF later, m
    <2> QED BY <1>2, <1>3, MinOf
  <1>5. m \in p+1..n+1
    <2> HIDE DEF m
    <2> QED BY <1>1, <1>4
  <1> HIDE DEF m
  <1>6. ASSUME NEW q \in p+1..m-1 PROVE opcodeFile[q].line <= opcodeFile[p].line
    <2>1. q \in 1..n /\ q \in p+1..n /\ q \notin later
      BY <1>1, <1>4, <1>5
    <2>2. ~(opcodeFile[q].line > opcodeFile[p].line)
      BY <2>1
    <2>3. opcodeFile[q].line \in Nat /\ opcodeFile[p].line \in Nat
      BY <1>1, <2>1, Zenon
    <2> QED BY <2>2, <2>3
  <1>7. CASE m = n + 1
    BY <1>5, <1>6, <1>7 DEF m
  <1>8. CASE m # n + 1
    <2>1. m \in p+1..n /\ opcodeFile[m].line > opcodeFile[p].line
      BY <1>4, <1>8
    <2>2. m - 1 = p \/ m - 1 \in p+1..m-1
      BY <1>1, <2>1
    <2>3. opcodeFile[m - 1].line <= opcodeFile[p].line
      <3>1. CASE m - 1 = p
        BY <1>1, <3>1
      <3>2. CASE m - 1 \in p+1..m-1
        BY <1>6, <3>2
      <3> QED BY <2>2, <3>1, <3>2
    <2>4. m \in 1..n /\ m - 1 \in 1..n
      BY <1>1, <2>1
    <2>5. opcodeFile[m].line \in Nat /\ opcodeFile[m - 1].line \in Nat /\ opcodeFile[p].line \in Nat
      BY <1>1, <2>4, Zenon
    <2>6. opcodeFile[m - 1].line < opcodeFile[m].line
      BY <2>1, <2>3, <2>5
    <2>7. m \in LineStarts
      BY <1>1, <2>4, <2>6 DEF LineStarts
    <2> QED BY <1>5, <1>6, <2>7 DEF m
  <1> QED BY <1>7, <1>8

\* Only the loading of the table touches it.
LEMMA TableSteps == ASSUME [ShellNext]_shellVars PROVE ReadOpcode \/ UNCHANGED opcodeVars
  <1>1. CASE LoadOpcode \/ LoadOverruns \/ Loaded \/ Parsing \/ NotACommand \/ FlushDone \/ FlushMore
    BY <1>1, Zenon DEF LoadOpcode, LoadOverruns, Loaded, Parsing, NotACommand, FlushDone, FlushMore, contextVars
  <1>2. CASE Execute
    BY <1>2, Zenon DEF Execute, UnknownCommand, WrongArguments, CommandFails, RunDump, RunEdit,
       RunFill, RunReset, RunPrinting, RunQuit, Executed
  <1>3. CASE LoadFails \/ ReadLine \/ ReadRest \/ ReadNothing
    BY <1>3, Zenon DEF LoadFails, ReadLine, ReadRest, ReadNothing, ReadPiece, contextVars
  <1>4. CASE UNCHANGED shellVars
    BY <1>4 DEF shellVars, contextVars
  <1> QED BY <1>1, <1>2, <1>3, <1>4, Zenon DEF ShellNext, Work

\* Every step keeps the type of the opcode table.
LEMMA OpcodeStep == ASSUME OpcodeInv, [ShellNext]_shellVars PROVE OpcodeInv'
  <1>1. CASE ReadOpcode
    <2> DEFINE p == opcodeNext
    <2>0. p \in Nat \ {0} /\ IsEntry(p) /\ opcodeFile \in OpcodeFiles
      BY <1>1, WordOfFile DEF OpcodeInv, ReadOpcode, Readable
    <2>1. /\ p \in 1..Len(opcodeFile) /\ FormatAt(p) \in p+1..Len(opcodeFile)
          /\ OpcodeHash[Mnemonic(p)] \in 0..OPCODE_TABLE_SIZE-1
          /\ OpcodeDef(p) \in Definitions
      BY <2>0, EntryOfFile, Zenon
    <2>5. opcodeTable' = [opcodeTable EXCEPT ![OpcodeHash[Mnemonic(p)]] =
                            Append(@, OpcodeDef(p))]
      BY <1>1 DEF ReadOpcode, Chained
    <2> HIDE DEF p
    <2>6. \A chain \in Seq(Definitions) : Append(chain, OpcodeDef(p)) \in Seq(Definitions)
      BY <2>1, AppendProperties
    <2>7. opcodeTable' \in [0..OPCODE_TABLE_SIZE-1 -> Seq(Definitions)]
      BY <2>1, <2>5, <2>6 DEF OpcodeInv
    <2>8. FormatAt(p) \in 1..Len(opcodeFile) /\ Len(opcodeFile) \in Nat
      BY <2>0, <2>1, WordOfFile
    <2>9. NextLine(FormatAt(p)) \in 1..Len(opcodeFile)+1
      <3> DEFINE f == FormatAt(p)
      <3>1. NextLine(f) \in f+1..Len(opcodeFile)+1
        BY <2>0, <2>8, NextLineIs, Zenon
      <3> HIDE DEF f
      <3> QED BY <2>8, <3>1 DEF f
    <2>10. opcodeNext' = NextLine(FormatAt(p)) /\ opcodeFile' = opcodeFile
      BY <1>1 DEF ReadOpcode, p
    <2> QED BY <2>0, <2>7, <2>9, <2>10 DEF OpcodeInv
  <1>2. CASE UNCHANGED opcodeVars
    BY <1>2 DEF opcodeVars, OpcodeInv
  <1> QED BY <1>1, <1>2, TableSteps

\* Steps on which the shell goes back to wait, or on to the end of a line.
LEMMA LoopKeeps ==
  ASSUME LoopInv, UNCHANGED <<input, history, unrecorded, streamVars, exitFlag>>,
         phase' \in Phases \ {"parsing"}
  PROVE  LoopInv'
  BY DEF LoopInv, streamVars

\* Commands leave flags of their own.
LEMMA FlagOfCommand ==
  ASSUME NEW func, NEW args PROVE ArgumentError(func, args) \in Errors \cup {"ok"}
  <1>1. \A text, n : NumberError(text, n) \in Errors \cup {"ok"}
    BY DEF NumberError, Errors
  <1>2. \A first, last : RangeError(first, last) \in Errors \cup {"ok"}
    BY <1>1 DEF RangeError, PointError
  <1>3. /\ DumpError(args) \in Errors \cup {"ok"} /\ EditError(args) \in Errors \cup {"ok"}
        /\ FillError(args) \in Errors \cup {"ok"}
    BY <1>1, <1>2 DEF DumpError, EditError, FillError, PointError, ByteError, Errors
  <1>4. /\ OpcodeError(args) \in Errors \cup {"ok"}
        /\ Takes(0, args) \in Errors \cup {"ok"} /\ Takes(1, args) \in Errors \cup {"ok"}
    BY DEF OpcodeError, Takes, Errors
  <1> QED BY <1>3, <1>4 DEF ArgumentError

\* A command keeps the invariant of the main loop.
LEMMA ExecuteLoop == ASSUME LoopInv, Execute PROVE LoopInv'
  <1>1. /\ UNCHANGED <<input, streamVars>> /\ phase' \in {"flushing", "ended"}
        /\ exitFlag' \in Errors \cup {"ok", "QUIT_SHELL"}
        /\ RecordRun \/ UNCHANGED <<history, unrecorded>>
    <2>1. CASE UnknownCommand \/ CommandFails
      BY <2>1, Zenon DEF UnknownCommand, CommandFails, Executed, Errors, contextVars
    <2>2. CASE WrongArguments
      BY <2>2, FlagOfCommand DEF WrongArguments, Executed, contextVars
    <2>3. CASE RunDump \/ RunEdit \/ RunFill \/ RunReset \/ RunPrinting
      BY <2>3, Zenon DEF RunDump, RunEdit, RunFill, RunReset, RunPrinting, Executed
    <2>4. CASE RunQuit
      BY <2>4, Zenon DEF RunQuit
    <2> QED BY <2>1, <2>2, <2>3, <2>4 DEF Execute
  <1>2. history' \in Seq(Seq(Char)) /\ unrecorded' \in BOOLEAN
    <2>1. CASE RecordRun
      <3>1. history' \in Recorded(Command)
        BY <2>1 DEF RecordRun
      <3>2. history' = history \/ history' = Append(history, input)
        BY <3>1, RecordedRun
      <3>3. Append(history, input) \in Seq(Seq(Char))
        BY AppendProperties DEF LoopInv
      <3>4. unrecorded' \in BOOLEAN
        BY <2>1 DEF RecordRun, LoopInv
      <3> QED BY <3>2, <3>3, <3>4 DEF LoopInv
    <2> QED BY <1>1, <2>1 DEF LoopInv
  <1> QED BY <1>1, <1>2 DEF LoopInv, streamVars, Phases

\* Reading keeps the invariant of the main loop.
LEMMA ReadLoop == ASSUME ShellInv, LoopInv, ReadLine \/ ReadRest \/ ReadNothing PROVE LoopInv'
  <1>1. reads < MaxReads
    BY DEF ReadLine, ReadRest, ReadNothing, AtPrompt
  <1>2. ASSUME NEW text \in Seq(Char), ReadPiece(text), fresh' \in BOOLEAN, inputEnded' \in BOOLEAN
        PROVE  LoopInv'
    BY <1>1, <1>2, PieceInv DEF LoopInv, contextVars, Phases
  <1>3. CASE ReadLine
    <2>1. PICK line \in Inputs :
            \/ ReadPiece(Append(line, Newline)) /\ UNCHANGED inputEnded
            \/ line # <<>> /\ ReadPiece(line) /\ inputEnded' = TRUE
      BY <1>3 DEF ReadLine
    <2>2. fresh' \in BOOLEAN /\ inputEnded' \in BOOLEAN
      BY <1>3, <2>1 DEF ReadLine, LoopInv
    <2> QED BY <1>2, <2>1, <2>2, TypedLines
  <1>4. CASE ReadRest
    BY <1>2, <1>4 DEF ReadRest, LoopInv
  <1>5. CASE ReadNothing
    <2>1. /\ rest' = rest /\ exitFlag' = exitFlag /\ history' = history /\ unrecorded' = unrecorded
          /\ fresh' = FALSE /\ inputEnded' = TRUE /\ reads' = reads + 1
      BY <1>5 DEF ReadNothing, contextVars
    <2>2. reads' \in 0..MaxReads
      BY <1>1, <2>1, ShellAssumption DEF LoopInv
    <2>3. /\ phase' \in Phases /\ input' \in Seq(Char)
          /\ phase' = "parsing" => ParseInv'
      BY <1>5, BeginParseInv DEF ReadNothing, LoopInv, Phases, parseVars
    <2> QED BY <2>1, <2>2, <2>3 DEF LoopInv
  <1> QED BY <1>3, <1>4, <1>5

\* Flushing keeps the invariant of the main loop.
LEMMA FlushLoop == ASSUME LoopInv, FlushMore PROVE LoopInv'
  <1>1. FlushSize \in Nat
    BY LenProperties DEF FlushSize, LoopInv
  <1>2. input' \in Seq(Char) /\ rest' \in Seq(Char)
    BY <1>1, PieceOfLine DEF FlushMore, LoopInv
  <1>3. phase' = "flushing" /\ UNCHANGED <<history, unrecorded, inputEnded, reads, fresh, exitFlag>>
    BY DEF FlushMore, contextVars
  <1> QED BY <1>2, <1>3 DEF LoopInv, Phases

\* Every step keeps the invariant of the main loop.
LEMMA LoopStep == ASSUME ShellInv, LoopInv, [ShellNext]_shellVars PROVE LoopInv'
  <1>1. CASE LoadOpcode
    BY <1>1, LoopKeeps DEF LoadOpcode, parseVars, Phases
  <1>2. CASE LoadOverruns \/ Loaded \/ LoadFails \/ NotACommand \/ FlushDone
    BY <1>2, LoopKeeps DEF LoadOverruns, Loaded, LoadFails, NotACommand, FlushDone, contextVars, parseVars, Phases
  <1>3. CASE Parsing
    <2>1. ParseInv' /\ input' = input
      BY <1>3, ParseInvStep, ParserKeepsLine DEF Parsing, LoopInv
    <2> QED BY <1>3, <2>1 DEF Parsing, LoopInv, Phases, contextVars, streamVars
  <1>4. CASE UNCHANGED shellVars
    <2>1. phase = "parsing" => ParseInv'
      BY <1>4, ParseInvStep DEF shellVars, LoopInv
    <2> QED BY <1>4, <2>1 DEF shellVars, parseVars, contextVars, streamVars, LoopInv
  <1> QED BY <1>1, <1>2, <1>3, <1>4, ExecuteLoop, ReadLoop, FlushLoop DEF ShellNext, Work

\* The invariant of the shell holds at the start.
LEMMA ShellInvInit == ShellInit => ShellInv
  <1> SUFFICES ASSUME ShellInit PROVE ShellInv
    OBVIOUS
  <1>1. MemoryInv
    BY MemoryInvInit
  <1>2. OpcodeInv
    <2>1. Len(opcodeFile) \in Nat
      BY WordOfFile DEF ShellInit, OpcodeInit
    <2> QED BY <2>1 DEF ShellInit, OpcodeInit, OpcodeInv
  <1>3. LoopInv
    <2>1. reads \in 0..MaxReads
      BY ShellAssumption DEF ShellInit
    <2>2. {inputEnded, fresh, unrecorded} \subseteq BOOLEAN
      BY Zenon DEF ShellInit
    <2>3. history \in Seq(Seq(Char)) /\ rest \in Seq(Char) /\ input \in Seq(Char)
      BY DEF ShellInit
    <2>4. phase \in Phases \ {"parsing"} /\ exitFlag \in Errors \cup {"ok", "QUIT_SHELL"}
      BY DEF ShellInit, Phases
    <2> QED BY <2>1, <2>2, <2>3, <2>4 DEF LoopInv
  <1> QED BY <1>1, <1>2, <1>3, PartsOfInv

\* Every step keeps it.
LEMMA ShellInvStep == ShellInv /\ [ShellNext]_shellVars => ShellInv'
  <1> SUFFICES ASSUME ShellInv, [ShellNext]_shellVars PROVE ShellInv'
    OBVIOUS
  <1>1. MemoryInv /\ OpcodeInv /\ LoopInv
    BY PartsOfInv
  <1>2. MemoryInv' /\ OpcodeInv' /\ LoopInv'
    BY <1>1, MemoryInvStep, OpcodeStep, LoopStep
  <1>3. (ShellInv <=> MemoryInv /\ OpcodeInv /\ LoopInv)'
    BY PartsOfInv, PTL
  <1> QED BY <1>2, <1>3

\* It holds throughout.
LEMMA ShellInvariant == ShellSpec => []ShellInv
  BY ShellInvInit, ShellInvStep, PTL DEF ShellSpec

(* The shell's variables have their types: whatever is typed and wherever    *)
(* the input ends, no dump starts outside the memory, no byte leaves its     *)
(* range and the parser stays in its line.                                   *)
THEOREM ShellTypeCorrect == ShellSpec => []ShellTypeOK
  <1>1. ShellInv => ShellTypeOK
    BY DEF ShellInv
  <1> QED BY <1>1, ShellInvariant, PTL

(* A command that ran is recorded once, as it was read, if there is memory   *)
(* for the entry, and one that did not run changes nothing (execute.c:61).   *)
THEOREM HistoryIsOfRuns == ShellSpec => HistoryRecordsRuns
  <1> DEFINE Step == IsCommand =>
        IF exitFlag' \in Errors THEN UNCHANGED contextVars
        ELSE IF history' = history THEN AllocMayFail
        ELSE history' = Append(history, input)
  <1>1. ShellInv /\ [ShellNext]_shellVars => [Step]_shellVars
    BY RunsRecord DEF ShellInv, ShellTypeOK
  <1>2. HistoryRecordsRuns <=> [][Step]_shellVars
    BY PTL DEF HistoryRecordsRuns
  <1> HIDE DEF Step
  <1> QED BY <1>1, <1>2, ShellInvariant, PTL DEF ShellSpec

-----------------------------------------------------------------------------
\* What the lines read so far say of a mnemonic, and what the table does.
AllWhole(p) == \A q \in LineStarts : q <= p => IsWhole(q)
LinesOf(mn) == {p \in LineStarts : p < opcodeNext /\ AllWhole(p) /\ Mnemonic(p) = mn}
PiecedTogether == \E p \in LineStarts : p < opcodeNext /\ IsEntry(p) /\ ~IsWhole(p)
SaysOf(mn) ==
  IF LinesOf(mn) = {} THEN Matching(mn) # {} => PiecedTogether
  ELSE Matching(mn) # {} /\ findOpcode(mn) = OpcodeDef(Min(LinesOf(mn)))

(* The inductive invariant: the reader stands at a line or at the end, every *)
(* line behind it was whole or one was pieced together with the next, and    *)
(* the table says of each mnemonic what the first line that defines it says. *)
TableInv ==
  /\ opcodeNext \in LineStarts \cup {Len(opcodeFile) + 1}
  /\ (\A p \in LineStarts : p < opcodeNext => IsWhole(p)) \/ PiecedTogether
  /\ \A mn \in DOMAIN OpcodeHash : SaysOf(mn)

\* What an entry leaves behind: the line it began and, if it was whole, no
\* other.
LEMMA EntryRead ==
  ASSUME OpcodeInv, TableInv, ReadOpcode
  PROVE  /\ opcodeNext \in LineStarts /\ IsEntry(opcodeNext) /\ LineStarts \subseteq Nat
         /\ opcodeNext' \in Nat /\ opcodeNext < opcodeNext' /\ opcodeNext \in Nat
         /\ opcodeNext' \in LineStarts \cup {Len(opcodeFile) + 1}
         /\ IsWhole(opcodeNext) => \A q \in LineStarts : q < opcodeNext' => q <= opcodeNext
  <1> DEFINE n == opcodeNext
             f == FormatAt(n)
             m == NextLine(f)
             len == Len(opcodeFile)
  <1>1. n \in Nat \ {0} /\ opcodeFile \in OpcodeFiles /\ len \in Nat /\ IsEntry(n)
    BY WordOfFile DEF OpcodeInv, ReadOpcode, Readable
  <1>2. n \in 1..len /\ f \in n+1..len
    BY <1>1, EntryOfFile, Zenon
  <1>3. f \in 1..len
    BY <1>1, <1>2
  <1>4. /\ m \in f+1..len+1
        /\ \A q \in f+1..m-1 : opcodeFile[q].line <= opcodeFile[f].line
        /\ m \in LineStarts \cup {len + 1}
    BY <1>1, <1>3, NextLineIs, Zenon
  <1>5. opcodeNext' = m
    BY DEF ReadOpcode
  <1>6. n \in LineStarts
    BY <1>1, <1>2 DEF TableInv
  <1>7. LineStarts \subseteq 1..len
    BY <1>1, WordOfFile DEF LineStarts
  <1> HIDE DEF m, f, len
  <1>8. ASSUME IsWhole(n), NEW q \in LineStarts, q < m PROVE q <= n
    <2> SUFFICES ASSUME n < q PROVE FALSE
      BY <1>1, <1>7
    <2>1. opcodeFile[f].line = opcodeFile[n].line
      BY <1>8 DEF IsWhole, f
    <2>2. q \in 1..len /\ q - 1 \in 1..len /\ n <= q - 1 /\ n \in 1..len /\ q > 1
      BY <1>1, <1>2, <1>7
    <2>3. opcodeFile[q - 1].line < opcodeFile[q].line
      BY <2>2 DEF LineStarts
    <2>4. opcodeFile[n].line <= opcodeFile[q - 1].line
      BY <1>1, <2>2, WordOfFile DEF len
    <2>5. opcodeFile[q].line <= opcodeFile[f].line
      <3>1. CASE q <= f
        BY <1>1, <1>3, <2>2, <3>1, WordOfFile DEF len
      <3>2. CASE ~(q <= f)
        <4>1. q \in f+1..m-1
          BY <1>3, <1>4, <1>8, <2>2, <3>2
        <4> QED BY <1>4, <4>1, Zenon
      <3> QED BY <3>1, <3>2
    <2>6. /\ opcodeFile[q].line \in Nat /\ opcodeFile[q - 1].line \in Nat
          /\ opcodeFile[n].line \in Nat
      BY <1>1, <2>2, WordOfFile DEF len
    <2> QED BY <2>1, <2>3, <2>4, <2>5, <2>6
  <1>9. m \in Nat /\ n < m
    BY <1>1, <1>2, <1>4
  <1> QED BY <1>1, <1>4, <1>5, <1>6, <1>7, <1>8, <1>9 DEF len

\* The file itself does not change, nor does what it says.
LEMMA FileStays ==
  ASSUME opcodeFile' = opcodeFile
  PROVE  /\ LineStarts' = LineStarts /\ Len(opcodeFile)' = Len(opcodeFile)
         /\ \A p : IsWhole(p)' <=> IsWhole(p)
         /\ \A p : IsEntry(p)' <=> IsEntry(p)
         /\ \A p : AllWhole(p)' <=> AllWhole(p)
         /\ \A p : Mnemonic(p)' = Mnemonic(p)
         /\ \A p : OpcodeDef(p)' = OpcodeDef(p)
  <1>1. LineStarts' = LineStarts /\ Len(opcodeFile)' = Len(opcodeFile)
    BY DEF LineStarts
  <1>2. /\ \A p : MnemonicAt(p)' = MnemonicAt(p)
        /\ \A p : Mnemonic(p)' = Mnemonic(p)
    BY DEF MnemonicAt, Mnemonic
  <1>3. \A p : FormatAt(p)' = FormatAt(p)
    BY <1>2 DEF FormatAt
  <1>4. \A p : IsEntry(p)' <=> IsEntry(p)
    BY <1>2, <1>3, Zenon DEF IsEntry, HasMnemonic, HasFormat, MnemonicFits
  <1>5. \A p : IsWhole(p)' <=> IsWhole(p)
    BY <1>3, <1>4, Zenon DEF IsWhole
  <1>6. \A p : AllWhole(p)' <=> AllWhole(p)
    BY <1>1, <1>5, Zenon DEF AllWhole
  <1>7. \A p : OpcodeDef(p)' = OpcodeDef(p)
    BY <1>2, <1>3, Zenon DEF OpcodeDef
  <1> QED BY <1>1, <1>2, <1>4, <1>5, <1>6, <1>7, Zenon

\* How an entry changes what the lines read so far say.
LEMMA LinesRead ==
  ASSUME OpcodeInv, TableInv, ReadOpcode, NEW mn
  PROVE  /\ LinesOf(mn)' = IF AllWhole(opcodeNext) /\ Mnemonic(opcodeNext) = mn
                            THEN LinesOf(mn) \cup {opcodeNext} ELSE LinesOf(mn)
         /\ PiecedTogether => PiecedTogether'
         /\ ~AllWhole(opcodeNext) => PiecedTogether'
         /\ AllWhole(opcodeNext) => ~PiecedTogether
  <1> DEFINE n == opcodeNext
  <1>0. /\ n \in LineStarts /\ IsEntry(n) /\ LineStarts \subseteq Nat /\ n \in Nat
        /\ n' \in Nat /\ n < n'
        /\ IsWhole(n) => \A q \in LineStarts : q < n' => q <= n
    BY EntryRead, Zenon
  <1>1. opcodeFile' = opcodeFile
    BY DEF ReadOpcode
  <1>2. /\ LineStarts' = LineStarts /\ \A p : IsWhole(p)' <=> IsWhole(p)
        /\ \A p : IsEntry(p)' <=> IsEntry(p)
        /\ \A p : AllWhole(p)' <=> AllWhole(p)
        /\ \A p : Mnemonic(p)' = Mnemonic(p)
    BY <1>1, FileStays, Zenon
  <1>3. LinesOf(mn)' = {p \in LineStarts : p < n' /\ AllWhole(p) /\ Mnemonic(p) = mn}
    BY <1>2, Zenon DEF LinesOf
  <1>4. PiecedTogether' <=> \E p \in LineStarts : p < n' /\ IsEntry(p) /\ ~IsWhole(p)
    BY <1>2, Zenon DEF PiecedTogether
  <1>5. \A p \in LineStarts : p < n => p < n'
    BY <1>0
  <1>6. PiecedTogether => PiecedTogether'
    BY <1>4, <1>5, Zenon DEF PiecedTogether
  <1>7. ~AllWhole(n) => PiecedTogether'
    <2> SUFFICES ASSUME NEW q \in LineStarts, q <= n, ~IsWhole(q) PROVE PiecedTogether'
      BY Zenon DEF AllWhole
    <2>1. CASE q = n
      BY <1>0, <1>4, <2>1, Zenon
    <2>2. CASE q # n
      <3>1. q < n
        BY <1>0, <2>2
      <3> QED BY <1>6, <3>1, Zenon DEF TableInv
    <2> QED BY <2>1, <2>2
  <1>8. AllWhole(n) => ~PiecedTogether
    <2> SUFFICES ASSUME AllWhole(n), NEW q \in LineStarts, q < n, ~IsWhole(q) PROVE FALSE
      BY Zenon DEF PiecedTogether
    <2>1. q <= n
      BY <1>0
    <2> QED BY <2>1, Zenon DEF AllWhole
  <1>9. \A p \in LineStarts : AllWhole(p) => (p < n' <=> p < n \/ p = n)
    <2> SUFFICES ASSUME NEW p \in LineStarts, AllWhole(p) PROVE p < n' <=> p < n \/ p = n
      OBVIOUS
    <2>1. CASE p <= n
      BY <1>0, <2>1
    <2>2. CASE n < p
      <3>1. n <= p
        BY <1>0, <2>2
      <3>2. IsWhole(n)
        BY <1>0, <3>1, Zenon DEF AllWhole
      <3>3. ~(p < n')
        <4>1. ~(p <= n)
          BY <1>0, <2>2
        <4> QED BY <1>0, <3>2, <4>1, Zenon
      <3>4. ~(p < n) /\ p # n
        BY <1>0, <2>2
      <3> QED BY <3>3, <3>4
    <2> QED BY <1>0, <2>1, <2>2
  <1>10. LinesOf(mn)' = IF AllWhole(n) /\ Mnemonic(n) = mn
                        THEN LinesOf(mn) \cup {n} ELSE LinesOf(mn)
    <2> HIDE DEF n
    <2>1. n' = opcodeNext' /\ n = opcodeNext
      BY DEF n
    <2>2. LinesOf(mn) = {p \in LineStarts : p < n /\ AllWhole(p) /\ Mnemonic(p) = mn}
      BY <2>1, Zenon DEF LinesOf
    <2>3. \A p : p \in LinesOf(mn)' <=>
            p \in LinesOf(mn) \/ (p = n /\ AllWhole(n) /\ Mnemonic(n) = mn)
      BY <1>0, <1>3, <1>9, <2>2, Zenon
    <2> QED BY <2>3, Zenon
  <1> QED BY <1>6, <1>7, <1>8, <1>10

\* One more entry of the file read, the table still says what the lines say.
LEMMA TableRead ==
  ASSUME OpcodeInv, TableInv, ReadOpcode, NEW mn \in DOMAIN OpcodeHash PROVE SaysOf(mn)'
  <1> DEFINE n == opcodeNext
             def == OpcodeDef(n)
             h == OpcodeHash[mn]
             chain == opcodeTable[h]
             size == Len(chain)
             new == Append(chain, def)
  <1>1. /\ n \in LineStarts /\ IsEntry(n) /\ LineStarts \subseteq Nat /\ n \in Nat
        /\ n \in Nat \ {0} /\ opcodeFile \in OpcodeFiles
    BY EntryRead DEF OpcodeInv
  <1>2. h \in 0..OPCODE_TABLE_SIZE-1 /\ chain \in Seq(Definitions) /\ size \in Nat
    BY OpcodeAssumption, LenProperties DEF OpcodeInv
  <1>3. /\ OpcodeHash[Mnemonic(n)] \in 0..OPCODE_TABLE_SIZE-1
        /\ def \in Definitions /\ def.mn = Mnemonic(n)
    BY <1>1, EntryOfFile, Zenon
  <1>4. opcodeTable'[h] = IF h = OpcodeHash[Mnemonic(n)] THEN new ELSE chain
    <2>1. opcodeTable' = [opcodeTable EXCEPT ![OpcodeHash[Mnemonic(n)]] = Append(@, def)]
      BY DEF ReadOpcode, Chained
    <2> HIDE DEF n, def
    <2> QED BY <1>2, <1>3, <2>1 DEF OpcodeInv
  <1>5. /\ LinesOf(mn)' = IF AllWhole(n) /\ Mnemonic(n) = mn
                           THEN LinesOf(mn) \cup {n} ELSE LinesOf(mn)
        /\ PiecedTogether => PiecedTogether'
        /\ ~AllWhole(n) => PiecedTogether'
        /\ AllWhole(n) => ~PiecedTogether
    BY LinesRead, Zenon
  <1>6. \A p : OpcodeDef(p)' = OpcodeDef(p)
    <2>1. opcodeFile' = opcodeFile
      BY DEF ReadOpcode
    <2> QED BY <2>1, FileStays, Zenon
  <1>7. LinesOf(mn) \in SUBSET Nat /\ \A k \in LinesOf(mn) : k <= n
    <2>1. \A k \in LinesOf(mn) : k \in LineStarts /\ k < n
      BY Zenon DEF LinesOf
    <2> HIDE DEF n
    <2>2. ASSUME NEW k \in LinesOf(mn) PROVE k \in Nat /\ k <= n
      <3>1. k \in Nat /\ n \in Nat /\ k < n
        BY <1>1, <2>1, Zenon DEF n
      <3> QED BY <3>1
    <2> QED BY <2>2, Zenon
  <1>8. /\ Matching(mn) = {k \in 1..size : chain[k].mn = mn}
        /\ Matching(mn) \in SUBSET Nat /\ \A k \in Matching(mn) : k \in 1..size /\ k <= size + 1
    <2>1. DOMAIN chain = 1..size
      BY <1>2, LenProperties
    <2>2. Matching(mn) = {k \in 1..size : chain[k].mn = mn}
      BY <2>1 DEF Matching
    <2> HIDE DEF size, chain
    <2> QED BY <1>2, <2>2
  <1>9. SaysOf(mn)
    BY Zenon DEF TableInv
  <1>10. /\ DOMAIN new = 1..size+1 /\ new[size + 1] = def
         /\ \A k \in 1..size : new[k] = chain[k]
    <2> HIDE DEF def, chain
    <2> QED BY <1>2, <1>3, AppendProperties, LenProperties
  <1>11. opcodeTable'[h] = new =>
           /\ Matching(mn)' = {k \in 1..size+1 : new[k].mn = mn}
           /\ findOpcode(mn)' = new[Min(Matching(mn)')]
    <2> HIDE DEF new
    <2> QED BY <1>10 DEF Matching, findOpcode
  <1>12. opcodeTable'[h] = chain => Matching(mn)' = Matching(mn) /\ findOpcode(mn)' = findOpcode(mn)
    BY Zenon DEF Matching, findOpcode
  <1>13. Matching(mn) # {} => Min(Matching(mn)) \in 1..size
    BY <1>8, MinOf, Zenon
  <1> HIDE DEF def, size, new, n
  <1>14. CASE Mnemonic(n) = mn
    <2>1. opcodeTable'[h] = new
      BY <1>4, <1>14
    <2>2. Matching(mn)' = Matching(mn) \cup {size + 1}
      <3> HIDE DEF chain
      <3> QED BY <1>2, <1>3, <1>8, <1>10, <1>11, <1>14, <2>1
    <2>3. CASE LinesOf(mn)' = {}
      <3>1. ~AllWhole(n)
        BY <1>5, <1>14, <2>3
      <3> QED BY <1>5, <2>3, <3>1, Zenon DEF SaysOf
    <2>4. CASE LinesOf(mn)' # {} /\ LinesOf(mn) = {}
      <3>1. AllWhole(n) /\ LinesOf(mn)' = {n}
        BY <1>5, <2>4
      <3>2. Matching(mn)' = {size + 1}
        BY <1>5, <1>9, <2>2, <2>4, <3>1 DEF SaysOf
      <3>3. Min({size + 1}) = size + 1 /\ Min({n}) = n
        <4>1. \A x \in Nat : Min({x}) = x
          BY MinIs
        <4> QED BY <1>1, <1>2, <4>1 DEF n, size
      <3>4. findOpcode(mn)' = def
        BY <1>10, <1>11, <2>1, <3>2, <3>3
      <3>5. findOpcode(mn)' = OpcodeDef(Min(LinesOf(mn)))'
        BY <1>6, <3>1, <3>3, <3>4, Zenon DEF def
      <3> QED BY <2>4, <3>2, <3>5, Zenon DEF SaysOf
    <2>5. CASE LinesOf(mn) # {}
      <3>1. Matching(mn) # {} /\ findOpcode(mn) = OpcodeDef(Min(LinesOf(mn)))
        BY <1>9, <2>5, Zenon DEF SaysOf
      <3>2. Min(Matching(mn)') = Min(Matching(mn))
        <4>1. size + 1 \in Nat
          BY <1>2 DEF size
        <4> QED BY <1>8, <2>2, <3>1, <4>1, MinWith
      <3>3. Min(LinesOf(mn)') = Min(LinesOf(mn)) /\ LinesOf(mn)' # {}
        <4>1. CASE LinesOf(mn)' = LinesOf(mn) \cup {n}
          BY <1>1, <1>7, <2>5, <4>1, MinWith DEF n
        <4>2. CASE LinesOf(mn)' = LinesOf(mn)
          BY <2>5, <4>2
        <4> QED BY <1>5, <4>1, <4>2
      <3>4. findOpcode(mn)' = findOpcode(mn)
        BY <1>10, <1>11, <1>13, <2>1, <3>1, <3>2, Zenon DEF findOpcode
      <3>5. Matching(mn)' # {}
        BY <2>2
      <3>6. findOpcode(mn)' = OpcodeDef(Min(LinesOf(mn)))'
        BY <1>6, <3>1, <3>3, <3>4, Zenon
      <3> QED BY <3>3, <3>5, <3>6, Zenon DEF SaysOf
    <2> QED BY <2>3, <2>4, <2>5
  <1>15. CASE Mnemonic(n) # mn
    <2>1. LinesOf(mn)' = LinesOf(mn)
      BY <1>5, <1>15
    <2>2. Matching(mn)' = Matching(mn)
      <3>1. CASE opcodeTable'[h] = chain
        BY <1>12, <3>1
      <3>2. CASE opcodeTable'[h] = new
        <4> HIDE DEF chain
        <4> QED BY <1>2, <1>3, <1>8, <1>10, <1>11, <1>15, <3>2
      <3> QED BY <1>4, <3>1, <3>2
    <2>3. Matching(mn) # {} => findOpcode(mn)' = findOpcode(mn)
      <3>1. CASE opcodeTable'[h] = chain
        BY <1>12, <3>1
      <3>2. CASE opcodeTable'[h] = new
        BY <1>10, <1>11, <1>13, <2>2, <3>2, Zenon DEF findOpcode
      <3> QED BY <1>4, <3>1, <3>2
    <2>4. CASE LinesOf(mn) = {}
      BY <1>5, <1>9, <2>1, <2>2, <2>4, Zenon DEF SaysOf
    <2>5. CASE LinesOf(mn) # {}
      <3>1. Matching(mn) # {} /\ findOpcode(mn) = OpcodeDef(Min(LinesOf(mn)))
        BY <1>9, <2>5, Zenon DEF SaysOf
      <3>2. findOpcode(mn)' = OpcodeDef(Min(LinesOf(mn)))'
        BY <1>6, <2>1, <2>3, <3>1, Zenon
      <3> QED BY <2>1, <2>2, <2>5, <3>1, <3>2, Zenon DEF SaysOf
    <2> QED BY <2>4, <2>5
  <1> QED BY <1>14, <1>15

\* The table is empty and no line has been read.
LEMMA TableInvInit == ShellInit => TableInv
  <1> SUFFICES ASSUME ShellInit PROVE TableInv
    OBVIOUS
  <1>1. /\ opcodeNext = 1 /\ opcodeTable = [h \in 0..OPCODE_TABLE_SIZE-1 |-> <<>>]
        /\ opcodeFile \in OpcodeFiles
    BY DEF ShellInit, OpcodeInit
  <1>2. ASSUME NEW mn \in DOMAIN OpcodeHash PROVE Matching(mn) = {}
    <2>1. opcodeTable[OpcodeHash[mn]] = <<>>
      BY <1>1, OpcodeAssumption
    <2> QED BY <2>1 DEF Matching
  <1>3. Len(opcodeFile) \in Nat /\ DOMAIN opcodeFile = 1..Len(opcodeFile)
    BY <1>1, WordOfFile
  <1>4. \A p \in LineStarts : ~(p < opcodeNext)
    BY <1>1, <1>3 DEF LineStarts
  <1>5. opcodeNext \in LineStarts \cup {Len(opcodeFile) + 1}
    BY <1>1, <1>3 DEF LineStarts
  <1>6. \A mn : LinesOf(mn) = {}
    BY <1>4, Zenon DEF LinesOf
  <1> QED BY <1>2, <1>4, <1>5, <1>6, Zenon DEF TableInv, SaysOf

\* Every step keeps the table what the lines read so far say.
LEMMA TableInvStep == OpcodeInv /\ TableInv /\ [ShellNext]_shellVars => TableInv'
  <1> SUFFICES ASSUME OpcodeInv, TableInv, [ShellNext]_shellVars PROVE TableInv'
    OBVIOUS
  <1>1. CASE ReadOpcode
    <2>1. \A mn \in DOMAIN OpcodeHash : SaysOf(mn)'
      BY <1>1, TableRead, Zenon
    <2>2. /\ LineStarts' = LineStarts /\ Len(opcodeFile)' = Len(opcodeFile)
          /\ \A p : IsWhole(p)' <=> IsWhole(p)
      <3>1. opcodeFile' = opcodeFile
        BY <1>1 DEF ReadOpcode
      <3> QED BY <3>1, FileStays, Zenon
    <2>3. /\ opcodeNext' \in LineStarts \cup {Len(opcodeFile) + 1}
          /\ LineStarts \subseteq Nat /\ opcodeNext \in Nat
          /\ IsWhole(opcodeNext) => \A q \in LineStarts : q < opcodeNext' => q <= opcodeNext
      BY <1>1, EntryRead, Zenon
    <2>4. (\A p \in LineStarts : p < opcodeNext' => IsWhole(p)) \/ PiecedTogether'
      <3>1. PiecedTogether \/ ~AllWhole(opcodeNext) => PiecedTogether'
        BY <1>1, LinesRead, Zenon
      <3>2. opcodeNext <= opcodeNext /\ opcodeNext \in LineStarts
        BY <1>1, <2>3, EntryRead
      <3>3. CASE AllWhole(opcodeNext)
        BY <2>3, <3>2, <3>3, Zenon DEF AllWhole
      <3> QED BY <3>1, <3>3
    <2> QED BY <2>1, <2>2, <2>3, <2>4, Zenon DEF TableInv
  <1>2. CASE UNCHANGED opcodeVars
    <2>1. opcodeFile' = opcodeFile /\ opcodeTable' = opcodeTable /\ opcodeNext' = opcodeNext
      BY <1>2 DEF opcodeVars
    <2>2. /\ LineStarts' = LineStarts /\ Len(opcodeFile)' = Len(opcodeFile)
          /\ \A p : IsWhole(p)' <=> IsWhole(p)
          /\ \A p : IsEntry(p)' <=> IsEntry(p)
          /\ \A p : AllWhole(p)' <=> AllWhole(p)
          /\ \A p : Mnemonic(p)' = Mnemonic(p)
          /\ \A p : OpcodeDef(p)' = OpcodeDef(p)
      BY <2>1, FileStays, Zenon
    <2>3. /\ \A mn : LinesOf(mn)' = LinesOf(mn)
          /\ \A mn : Matching(mn)' = Matching(mn)
          /\ PiecedTogether' <=> PiecedTogether
      BY <2>1, <2>2, Zenon DEF LinesOf, PiecedTogether, Matching
    <2>4. \A mn : findOpcode(mn)' = findOpcode(mn)
      BY <2>1, <2>3, Zenon DEF findOpcode
    <2>5. \A mn \in DOMAIN OpcodeHash : SaysOf(mn)'
      BY <2>2, <2>3, <2>4, Zenon DEF TableInv, SaysOf
    <2> QED BY <2>1, <2>2, <2>3, <2>5, Zenon DEF TableInv
  <1> QED BY <1>1, <1>2, TableSteps

(* A mnemonic has the opcode and the format of the first line that defines   *)
(* it, for every file of words in lines: whatever names share its chain,     *)
(* wherever reading stops, and whatever fscanf pieces together from two      *)
(* lines on the way (opcode.c:65).                                           *)
THEOREM FirstDefinitionStands == ShellSpec => []FirstDefinitionCounts
  <1>1. ASSUME OpcodeInv, TableInv PROVE FirstDefinitionCounts
    <2> DEFINE read == {p \in LineStarts : \A q \in LineStarts : q <= p => IsWhole(q)}
               defining(mn) == {p \in read : Mnemonic(p) = mn}
    <2> SUFFICES ASSUME ~Readable, NEW mn \in DOMAIN OpcodeHash
                 PROVE IF defining(mn) = {}
                       THEN IsOpcode(mn) => \E p \in LineStarts : IsEntry(p) /\ ~IsWhole(p)
                       ELSE IsOpcode(mn) /\ findOpcode(mn) = OpcodeDef(Min(defining(mn)))
      BY Zenon DEF FirstDefinitionCounts
    <2>1. /\ Len(opcodeFile) \in Nat /\ DOMAIN opcodeFile = 1..Len(opcodeFile)
          /\ LineStarts \subseteq 1..Len(opcodeFile) /\ opcodeNext \in Nat
      BY <1>1, WordOfFile DEF OpcodeInv, LineStarts
    <2>2. ~IsWhole(opcodeNext)
      BY Zenon DEF Readable, IsWhole
    <2>3. ASSUME NEW p \in LineStarts, AllWhole(p) PROVE p < opcodeNext
      <3>1. CASE opcodeNext \in LineStarts
        <4>1. ~(opcodeNext <= p)
          BY <2>2, <2>3, <3>1, Zenon DEF AllWhole
        <4> QED BY <2>1, <4>1
      <3>2. CASE opcodeNext = Len(opcodeFile) + 1
        BY <2>1, <3>2
      <3> QED BY <1>1, <3>1, <3>2 DEF TableInv
    <2>4. defining(mn) = LinesOf(mn)
      <3>1. \A p \in LineStarts : p \in read <=> AllWhole(p)
        BY Zenon DEF AllWhole
      <3>2. \A p : p \in defining(mn) <=> p \in LineStarts /\ AllWhole(p) /\ Mnemonic(p) = mn
        BY <3>1, Zenon
      <3>3. \A p : p \in LinesOf(mn) <=> p \in LineStarts /\ AllWhole(p) /\ Mnemonic(p) = mn
        BY <2>3, Zenon DEF LinesOf
      <3> HIDE DEF defining
      <3>4. \A p : p \in defining(mn) <=> p \in LinesOf(mn)
        BY <3>2, <3>3, Zenon
      <3> QED BY <3>4, Zenon
    <2>5. SaysOf(mn)
      BY <1>1, Zenon DEF TableInv
    <2> HIDE DEF defining
    <2> QED BY <2>4, <2>5, Zenon DEF SaysOf, IsOpcode, PiecedTogether
  <1>2. ShellInv => OpcodeInv
    BY PartsOfInv
  <1>3. ShellSpec => []TableInv
    BY <1>2, ShellInvariant, TableInvInit, TableInvStep, PTL DEF ShellSpec
  <1> QED BY <1>1, <1>2, <1>3, ShellInvariant, PTL

-----------------------------------------------------------------------------
\* The last character of the line that is no blank, and what is between the
\* name and it.
LastSolid == Max({k \in DOMAIN input : input[k] \notin Blank})
Arguments == SubSeq(input, AfterName, LastSolid)
FieldsAt(q) == FieldsFrom(Arguments)[q - AfterName + 1]

\* A line that is not blank, cut into its name and the rest.
LEMMA CutLine ==
  ASSUME input \in Seq(Char), At(Start) # NUL
  PROVE  /\ Start \in 1..LastSolid /\ End \in Start+1..LastSolid+1
         /\ AfterName \in End..Len(input)+1 /\ LastSolid \in 1..Len(input)
         /\ \A k \in LastSolid+1..Len(input) : input[k] \in Blank
         /\ input[LastSolid] \notin Blank /\ At(AfterName) \notin Blank
         /\ \A k \in End..AfterName-1 : input[k] \in Blank
         /\ Strip(input) = SubSeq(input, Start, LastSolid)
         /\ Strip(input) # <<>>
  <1> DEFINE n == Len(input)
             solid == {k \in DOMAIN input : input[k] \notin Blank}
  <1>0. n \in Nat /\ DOMAIN input = 1..n /\ NUL \notin Char
    BY LenProperties, ParseAssumption
  <1>1. 1 \in 1..n+1
    BY <1>0
  <1>2. Start \in 1..n+1
    BY <1>1, BehindIs DEF Start, JumpBlank
  <1>3. Start \in 1..n
    BY <1>0, <1>2, EndOfText DEF At
  <1>4. input[Start] \notin Blank
    BY <1>1, <1>3, <1>0, BehindIs DEF Start, JumpBlank, CharAt
  <1>5. \A k \in 1..Start-1 : input[k] \in Blank
    <2>1. \A k \in 1..Start-1 : CharAt(input, k) \in Blank
      BY <1>1, BehindIs DEF Start, JumpBlank
    <2>2. \A k \in 1..Start-1 : CharAt(input, k) = input[k]
      BY <1>0, <1>3 DEF CharAt
    <2> QED BY <2>1, <2>2
  <1>6. solid \in SUBSET (0..n) /\ Start \in solid
    BY <1>0, <1>3, <1>4
  <1>7. LastSolid \in solid /\ \A k \in solid : k <= LastSolid
    <2> HIDE DEF solid
    <2>1. Max(solid) \in solid /\ \A k \in solid : k <= Max(solid)
      BY <1>0, <1>6, MaxOf
    <2> QED BY <2>1 DEF LastSolid, solid
  <1>8. LastSolid \in 1..n /\ input[LastSolid] \notin Blank /\ Start \in 1..LastSolid
    BY <1>0, <1>3, <1>6, <1>7
  <1>9. \A k \in LastSolid+1..n : input[k] \in Blank
    <2> SUFFICES ASSUME NEW k \in LastSolid+1..n PROVE input[k] \in Blank
      OBVIOUS
    <2>1. k \in 1..n /\ ~(k <= LastSolid)
      BY <1>0, <1>8
    <2> QED BY <1>0, <1>7, <2>1
  <1>10. Strip(input) = SubSeq(input, Start, LastSolid)
    <2>1. 1 \in 1..n+1 /\ n \in 1-1..n /\ Start \in 1..n /\ LastSolid \in Start..n
      BY <1>0, <1>3, <1>8
    <2>2. Strip(SubSeq(input, 1, n)) = SubSeq(input, Start, LastSolid)
      BY <1>4, <1>5, <1>8, <1>9, <2>1, StripOf
    <2>3. SubSeq(input, 1, n) = input
      BY SubSeqFull
    <2> QED BY <2>2, <2>3
  <1>11. Strip(input) # <<>>
    <2> DEFINE size == LastSolid - Start + 1
               part == SubSeq(input, Start, LastSolid)
    <2>1. Start \in 1..n+1 /\ LastSolid \in Start-1..n /\ size \in Nat \ {0}
      BY <1>0, <1>3, <1>8
    <2>2. Len(part) = size
      BY <2>1, PartOf
    <2> HIDE DEF size, part
    <2>3. part # <<>>
      BY <2>1, <2>2
    <2> QED BY <1>10, <2>3 DEF part
  <1>12. End \in Start..n+1
    BY <1>2, FirstInIs DEF End, NextIn
  <1>13. End # Start
    <2>1. CharAt(input, End) \in Blank \cup {NUL}
      BY <1>2, FirstInIs DEF End, NextIn
    <2>2. CharAt(input, Start) = input[Start] /\ CharAt(input, Start) # NUL
      BY <1>0, <1>3 DEF At, CharAt
    <2> QED BY <1>4, <2>1, <2>2
  <1>14. End <= LastSolid + 1
    <2>1. \A k \in Start..End-1 : CharAt(input, k) \notin Blank \cup {NUL}
      BY <1>2, FirstInIs DEF End, NextIn
    <2> DEFINE l == LastSolid + 1
    <2>2. ASSUME l < End PROVE FALSE
      <3>1. l \in Start..End-1 /\ l \in 1..n /\ l \in LastSolid+1..n
        BY <1>0, <1>8, <1>12, <2>2
      <3> HIDE DEF l
      <3>2. CharAt(input, l) = input[l]
        BY <1>0, <3>1 DEF CharAt
      <3> QED BY <1>9, <2>1, <3>1, <3>2
    <2> HIDE DEF l
    <2>3. l \in Int /\ End \in Int
      BY <1>0, <1>8, <1>12 DEF l
    <2> QED BY <2>2, <2>3 DEF l
  <1>15. End \in Start+1..LastSolid+1 /\ End \in 1..n+1
    BY <1>0, <1>8, <1>12, <1>13, <1>14
  <1>16. AfterName \in End..n+1
    BY <1>15, BehindIs DEF AfterName, JumpBlank
  <1>17. At(AfterName) \notin Blank
    BY <1>15, BehindIs DEF AfterName, JumpBlank, At
  <1>18. \A k \in End..AfterName-1 : input[k] \in Blank
    <2>1. \A k \in End..AfterName-1 : CharAt(input, k) \in Blank
      BY <1>15, BehindIs DEF AfterName, JumpBlank
    <2>2. \A k \in End..AfterName-1 : CharAt(input, k) = input[k]
      BY <1>0, <1>15, <1>16 DEF CharAt
    <2> QED BY <2>1, <2>2
  <1> QED BY <1>8, <1>9, <1>10, <1>11, <1>15, <1>16, <1>17, <1>18

\* The name and what is behind it, where CommandOf finds them.
LEMMA CutName ==
  ASSUME input \in Seq(Char), At(Start) # NUL
  PROVE  /\ NameOf(Strip(input)) = SubSeq(input, Start, End - 1)
         /\ RestOf(Strip(input)) = Strip(SubSeq(input, End, LastSolid))
  <1> DEFINE line == Strip(input)
             n == Len(input)
             m == LastSolid - Start + 1
             e == End - Start + 1
             stops == {k \in DOMAIN line : line[k] \in Blank} \cup {Len(line) + 1}
  <1>0. n \in Nat /\ NUL \notin Char
    BY LenProperties, ParseAssumption
  <1>1. /\ Start \in 1..LastSolid /\ End \in Start+1..LastSolid+1 /\ LastSolid \in 1..n
        /\ line = SubSeq(input, Start, LastSolid)
    BY CutLine
  <1>2. Start \in 1..n+1 /\ LastSolid \in Start-1..n /\ m \in Nat /\ e \in 2..m+1 /\ End \in 1..n+1
    BY <1>0, <1>1
  <1>3. /\ Len(line) = m /\ DOMAIN line = 1..m
        /\ \A k \in 1..m : line[k] = input[Start + k - 1]
    BY <1>1, <1>2, PartOf
  <1>4. End \in 1..n => input[End] \in Blank
    <2>1. CharAt(input, End) \in Blank \cup {NUL}
      BY <1>2, FirstInIs DEF End, NextIn
    <2>2. End \in 1..n => CharAt(input, End) = input[End] /\ CharAt(input, End) # NUL
      BY <1>0, <1>2, EndOfText
    <2> QED BY <2>1, <2>2
  <1>5. \A k \in Start..End-1 : input[k] \notin Blank
    <2>1. \A k \in Start..End-1 : CharAt(input, k) \notin Blank \cup {NUL}
      BY <1>2, FirstInIs DEF End, NextIn
    <2>2. \A k \in Start..End-1 : CharAt(input, k) = input[k]
      BY <1>0, <1>1 DEF CharAt
    <2> QED BY <2>1, <2>2
  <1>6. e \in stops
    <2>1. CASE e = m + 1
      BY <1>3, <2>1
    <2>2. CASE e # m + 1
      <3>1. e \in 1..m /\ Start + e - 1 = End /\ End \in 1..n
        BY <1>0, <1>1, <1>2, <2>2
      <3> HIDE DEF e, m
      <3> QED BY <1>3, <1>4, <3>1
    <2> QED BY <2>1, <2>2
  <1>7. \A k \in stops : e <= k
    <2> SUFFICES ASSUME NEW k \in stops PROVE e <= k
      OBVIOUS
    <2>1. k = m + 1 \/ (k \in 1..m /\ line[k] \in Blank)
      BY <1>3
    <2>2. CASE k = m + 1
      BY <1>2, <2>2
    <2>3. ASSUME k \in 1..m, line[k] \in Blank, k < e PROVE FALSE
      <3>1. Start + k - 1 \in Start..End-1
        BY <1>1, <2>3
      <3> QED BY <1>3, <1>5, <2>3, <3>1
    <2>4. k \in 1..m => (e <= k <=> ~(k < e))
      BY <1>2
    <2> HIDE DEF stops, e, m, line
    <2> QED BY <2>1, <2>2, <2>3, <2>4
  <1>8. FirstWordEnd(line) = e
    <2>1. stops \in SUBSET Nat
      BY <1>2, <1>3
    <2> HIDE DEF e
    <2>2. Min(stops) = e
      <3> HIDE DEF stops
      <3> QED BY <1>6, <1>7, <2>1, MinIs
    <2> HIDE DEF line
    <2> QED BY <2>2 DEF FirstWordEnd
  <1>9. SubSeq(line, 1, e - 1) = SubSeq(input, Start, End - 1)
    <2> DEFINE d == e - 1
    <2>1. 1 \in 1..LastSolid-Start+2 /\ d \in 1-1..LastSolid-Start+1
      BY <1>1
    <2>3. Start + 1 - 1 = Start /\ Start + d - 1 = End - 1
      BY <1>1
    <2> HIDE DEF d
    <2>2. SubSeq(SubSeq(input, Start, LastSolid), 1, d) = SubSeq(input, Start + 1 - 1, Start + d - 1)
      BY <1>2, <2>1, PartOfPart
    <2> QED BY <1>1, <2>2, <2>3 DEF d
  <1>10. SubSeq(line, e, m) = SubSeq(input, End, LastSolid)
    <2>1. e \in 1..LastSolid-Start+2 /\ m \in e-1..LastSolid-Start+1
      BY <1>1
    <2>3. Start + e - 1 = End /\ Start + m - 1 = LastSolid
      BY <1>1
    <2> HIDE DEF e, m
    <2>2. SubSeq(SubSeq(input, Start, LastSolid), e, m) = SubSeq(input, Start + e - 1, Start + m - 1)
      BY <1>2, <2>1, PartOfPart
    <2> QED BY <1>1, <2>2, <2>3
  <1> HIDE DEF line, e, m
  <1> QED BY <1>3, <1>8, <1>9, <1>10 DEF NameOf, RestOf, line

\* The line as the words read so far and the fields from a position on.
Whole(words, q) ==
  IF \A k \in DOMAIN FieldsAt(q) : IsWord(FieldsAt(q)[k])
  THEN Meaning("ok", words \o FieldsAt(q)) ELSE Meaning("INVALID_DELIMITER", <<>>)

\* A line of blanks means no command.
LEMMA BlankLine ==
  ASSUME input \in Seq(Char), At(Start) = NUL
  PROVE  CommandOf(input) = Meaning("COMMAND_EMPTY", <<>>)
  <1> DEFINE n == Len(input)
  <1>7. n \in Nat
    BY LenProperties
  <1>8. NUL \notin Char
    BY ParseAssumption
  <1>0. n \in Nat /\ NUL \notin Char /\ 1 \in 1..n+1 /\ n \in 1-1..n
    <2> HIDE DEF n
    <2> QED BY <1>7, <1>8
  <1>1. Start \in 1..n+1 /\ \A k \in 1..Start-1 : CharAt(input, k) \in Blank
    BY <1>0, BehindIs DEF Start, JumpBlank
  <1>2. Start = n + 1
    BY <1>0, <1>1, EndOfText DEF At
  <1>3. \A k \in 1..n : input[k] \in Blank
    BY <1>0, <1>1, <1>2 DEF CharAt
  <1>4. Strip(SubSeq(input, 1, n)) = <<>>
    BY <1>0, <1>3, StripBlank
  <1>5. SubSeq(input, 1, n) = input
    BY SubSeqFull
  <1>6. Strip(input) = <<>>
    BY <1>4, <1>5
  <1> QED BY <1>6, Zenon DEF CommandOf

\* What a line means that has a name: not lowercase, or without arguments.
LEMMA CommandIs ==
  ASSUME input \in Seq(Char), At(Start) # NUL
  PROVE  /\ (\E k \in Start..End-1 : input[k] \notin Lower) =>
              CommandOf(input) = Meaning("NOT_LOWERCASE", <<>>)
         /\ (\A k \in Start..End-1 : input[k] \in Lower) /\ At(AfterName) = NUL =>
              CommandOf(input) = Meaning("ok", <<SubSeq(input, Start, End - 1)>>)
         /\ (\A k \in Start..End-1 : input[k] \in Lower) /\ At(AfterName) # NUL =>
              /\ CommandOf(input) = Whole(<<SubSeq(input, Start, End - 1)>>, AfterName)
              /\ AfterName \in End..LastSolid /\ Arguments # <<>>
  <1> DEFINE line == Strip(input)
             n == Len(input)
             name == SubSeq(input, Start, End - 1)
             lower == \A k \in Start..End-1 : input[k] \in Lower
  <1>0. n \in Nat /\ NUL \notin Char
    BY LenProperties, ParseAssumption
  <1>1. /\ Start \in 1..LastSolid /\ End \in Start+1..LastSolid+1 /\ LastSolid \in 1..n
        /\ AfterName \in End..n+1
    BY CutLine
  <1>2. /\ \A k \in LastSolid+1..n : input[k] \in Blank
        /\ \A k \in End..AfterName-1 : input[k] \in Blank
        /\ input[LastSolid] \notin Blank /\ At(AfterName) \notin Blank /\ line # <<>>
    BY CutLine
  <1>3. NameOf(line) = name /\ RestOf(line) = Strip(SubSeq(input, End, LastSolid))
    BY CutName
  <1>4. Range(NameOf(line)) \subseteq Lower <=> lower
    <2> DEFINE s == Start
               b == End - 1
    <2>1. s \in 1..n+1 /\ b \in s-1..n
      BY <1>0, <1>1
    <2> HIDE DEF s, b
    <2>2. /\ DOMAIN SubSeq(input, s, b) = 1..b-s+1
          /\ \A k \in 1..b-s+1 : SubSeq(input, s, b)[k] = input[s + k - 1]
      BY <2>1, PartOf
    <2>3. (\A k \in 1..b-s+1 : input[s + k - 1] \in Lower) <=> \A k \in s..b : input[k] \in Lower
      <3>1. \A k \in 1..b-s+1 : s + k - 1 \in s..b
        BY <2>1
      <3>2. \A k \in s..b : k - s + 1 \in 1..b-s+1 /\ s + (k - s + 1) - 1 = k
        BY <2>1
      <3>3. ASSUME \A k \in 1..b-s+1 : input[s + k - 1] \in Lower, NEW k \in s..b
            PROVE  input[k] \in Lower
        <4>1. input[s + (k - s + 1) - 1] \in Lower
          BY <3>2, <3>3
        <4> QED BY <3>2, <4>1
      <3> QED BY <3>1, <3>3
    <2>4. Range(SubSeq(input, s, b)) \subseteq Lower <=> \A k \in s..b : input[k] \in Lower
      BY <2>2, <2>3 DEF Range
    <2> QED BY <1>3, <2>4 DEF s, b
  <1>5. At(AfterName) = NUL => RestOf(line) = <<>>
    <2> SUFFICES ASSUME At(AfterName) = NUL PROVE RestOf(line) = <<>>
      OBVIOUS
    <2>1. AfterName = n + 1
      <3>1. AfterName \in 1..n+1
        BY <1>0, <1>1
      <3> QED BY <1>0, <3>1, EndOfText DEF At
    <2>2. End \in 1..n+1 /\ LastSolid \in End-1..n
      BY <1>0, <1>1
    <2>3. \A k \in End..LastSolid : input[k] \in Blank
      BY <1>0, <1>1, <1>2, <2>1
    <2>4. Strip(SubSeq(input, End, LastSolid)) = <<>>
      BY <2>2, <2>3, StripBlank
    <2> QED BY <1>3, <2>4
  <1>6. At(AfterName) # NUL =>
          AfterName \in End..LastSolid /\ RestOf(line) = Arguments /\ Arguments # <<>>
    <2> SUFFICES ASSUME At(AfterName) # NUL
                 PROVE  AfterName \in End..LastSolid /\ RestOf(line) = Arguments /\ Arguments # <<>>
      OBVIOUS
    <2>1. AfterName \in 1..n /\ input[AfterName] \notin Blank
      <3>1. AfterName \in 1..n+1
        BY <1>0, <1>1
      <3>2. AfterName \in 1..n
        BY <1>0, <3>1, EndOfText DEF At
      <3>3. At(AfterName) = input[AfterName]
        BY <1>0, <3>2 DEF At, CharAt
      <3> QED BY <1>2, <3>2, <3>3
    <2>2. AfterName <= LastSolid
      <3>1. AfterName \notin LastSolid+1..n
        BY <1>2, <2>1
      <3> QED BY <1>0, <1>1, <2>1, <3>1
    <2>3. /\ End \in 1..n+1 /\ LastSolid \in End-1..n /\ AfterName \in End..LastSolid
          /\ LastSolid \in AfterName..LastSolid
      BY <1>0, <1>1, <2>2
    <2>4. \A k \in LastSolid+1..LastSolid : input[k] \in Blank
      BY <1>1
    <2>5. Strip(SubSeq(input, End, LastSolid)) = SubSeq(input, AfterName, LastSolid)
      BY <1>2, <2>1, <2>3, <2>4, StripOf
    <2>6. Arguments # <<>>
      <3> DEFINE size == LastSolid - AfterName + 1
                 part == SubSeq(input, AfterName, LastSolid)
      <3>1. AfterName \in 1..n+1 /\ LastSolid \in AfterName-1..n /\ size \in Nat \ {0}
        BY <1>0, <1>1, <2>1, <2>2
      <3>2. Len(part) = size
        BY <3>1, PartOf
      <3> HIDE DEF size, part
      <3>3. part # <<>>
        BY <3>1, <3>2
      <3> QED BY <3>3 DEF part, Arguments
    <2> QED BY <1>3, <2>3, <2>5, <2>6 DEF Arguments
  <1>7. FieldsAt(AfterName) = Fields(Arguments)
    <2>1. AfterName - AfterName + 1 = 1
      BY <1>0, <1>1
    <2> QED BY <2>1 DEF FieldsAt, Fields
  <1>8. ~lower => CommandOf(input) = Meaning("NOT_LOWERCASE", <<>>)
    <2> HIDE DEF lower
    <2> QED BY <1>2, <1>4, Zenon DEF CommandOf
  <1>9. lower /\ At(AfterName) = NUL => CommandOf(input) = Meaning("ok", <<name>>)
    <2> HIDE DEF lower, name
    <2> QED BY <1>2, <1>3, <1>4, <1>5, Zenon DEF CommandOf
  <1>10. lower /\ At(AfterName) # NUL => CommandOf(input) = Whole(<<name>>, AfterName)
    <2> HIDE DEF lower, name
    <2> QED BY <1>2, <1>3, <1>4, <1>6, <1>7, Zenon DEF CommandOf, Whole
  <1> QED BY <1>6, <1>8, <1>9, <1>10

\* The fields from a position on, in terms of the line.
LEMMA FieldsOfLine ==
  ASSUME input \in Seq(Char), At(Start) # NUL, At(AfterName) # NUL,
         NEW q \in AfterName..LastSolid+1
  PROVE  /\ AfterName \in 1..LastSolid /\ LastSolid \in 1..Len(input) /\ q \in 1..Len(input)+1
         /\ CommaFrom(input, q) \in q..Len(input)+1 /\ FieldsAt(q) \in Seq(Seq(Char))
         /\ CommaFrom(input, q) <= Len(input) =>
              /\ CommaFrom(input, q) <= LastSolid
              /\ FieldsAt(q) = <<Strip(SubSeq(input, q, CommaFrom(input, q) - 1))>>
                               \o FieldsAt(CommaFrom(input, q) + 1)
         /\ CommaFrom(input, q) = Len(input) + 1 =>
              FieldsAt(q) = <<Strip(SubSeq(input, q, LastSolid))>>
  <1> DEFINE n == Len(input)
             l == LastSolid
             a == AfterName
             m == l - a + 1
             k == q - a + 1
             text == Arguments
             c == CommaFrom(input, q)
  <1>0. n \in Nat
    BY LenProperties
  <1>29. \A i : FieldsAt(i) = FieldsFrom(Arguments)[i - AfterName + 1]
    BY DEF FieldsAt
  <1>1. NUL \notin Char
    BY ParseAssumption
  <1>2. a \in 1..l /\ l \in 1..n
    <2>1. /\ Start \in 1..l /\ End \in Start+1..l+1 /\ l \in 1..n
      BY CutLine
    <2>2. (\E i \in Start..End-1 : input[i] \notin Lower) \/ a \in End..l
      BY CutLine, CommandIs
    <2>3. \A i \in l+1..n : input[i] \in Blank
      BY CutLine
    <2>4. a \in End..n+1 /\ At(a) \notin Blank
      BY CutLine
    <2>5. a \in 1..n+1
      BY <2>1, <2>4
    <2>6. a \in 1..n /\ At(a) = input[a]
      BY <1>1, <2>5, EndOfText DEF At
    <2>7. a \notin l+1..n
      BY <2>3, <2>4, <2>6
    <2> HIDE DEF a, l, n
    <2> QED BY <1>0, <2>1, <2>4, <2>6, <2>7
  <1>3. \A i \in l+1..n : input[i] \in Blank
    BY CutLine
  <1> HIDE DEF a, l
  <1>4. q \in a..l+1
    BY DEF a, l
  <1>5. q \in 1..n+1 /\ k \in 1..m+1 /\ m \in Nat /\ a \in 1..n+1 /\ l \in a-1..n
    BY <1>0, <1>2, <1>4
  <1>6. /\ text \in Seq(Char) /\ Len(text) = m /\ \A i \in 1..m : text[i] = input[a + i - 1]
    BY <1>5, PartOf DEF Arguments, a, l
  <1>7. c \in q..n+1
    BY <1>5, FirstInIs DEF CommaFrom
  <1>28. CharAt(input, c) \in {","} \cup {NUL}
    BY <1>5, FirstInIs DEF CommaFrom
  <1>8. \A j \in q..c-1 : CharAt(input, j) \notin {","} \cup {NUL}
    BY <1>5, FirstInIs, Zenon DEF CommaFrom
  <1> HIDE DEF text, c
  <1>9. c <= n => c <= l
    <2>1. c \in 1..n+1
      BY <1>5, <1>7
    <2>2. c \in 1..n => CharAt(input, c) = input[c] /\ CharAt(input, c) # NUL
      BY <1>0, <1>1, <2>1, EndOfText
    <2>3. c \in 1..n => input[c] = ","
      BY <1>28, <2>2
    <2>4. c \in 1..n => c \notin l+1..n
      BY <1>3, <2>3, NoBlank
    <2> QED BY <1>0, <1>2, <2>1, <2>4
  <1>10. FieldsAt(q) \in Seq(Seq(Char))
    <2>1. k \in 1..Len(text)+1
      BY <1>5, <1>6
    <2> HIDE DEF k
    <2>2. FieldsFrom(text)[k] \in Seq(Seq(Char))
      BY <1>6, <2>1, FieldsType
    <2> QED BY <2>2 DEF k, a, text, FieldsAt
  <1> DEFINE e == IF c <= l THEN c - a + 1 ELSE m + 1
  <1>11. e \in k..m+1 /\ (c <= l => e <= m)
    BY <1>0, <1>2, <1>4, <1>5, <1>7
  <1>12. \A j \in k..e-1 : j \in 1..m /\ a + j - 1 \in q..c-1
    BY <1>0, <1>2, <1>4, <1>5, <1>7
  <1>13. c <= l => e \in 1..m /\ a + e - 1 = c /\ c \in 1..n
    BY <1>0, <1>2, <1>4, <1>5, <1>7
  <1>14. c > l => e = m + 1
    BY <1>0, <1>2, <1>5, <1>7
  <1>15. q = a + k - 1 /\ FieldsAt(q) = FieldsFrom(text)[k]
    <2>1. q = a + k - 1
      BY <1>2, <1>4
    <2> QED BY <2>1 DEF k, a, text, FieldsAt
  <1>16. FieldsAt(c + 1) = FieldsFrom(text)[c - a + 1 + 1]
    <2>1. (c + 1) - a + 1 = c - a + 1 + 1
      BY <1>2, <1>5, <1>7
    <2>2. \A i : FieldsAt(i) = FieldsFrom(text)[i - a + 1]
      BY <1>29 DEF a, text
    <2>3. FieldsAt(c + 1) = FieldsFrom(text)[(c + 1) - a + 1]
      BY <2>2, Zenon
    <2> QED BY <2>1, <2>3, Zenon
  <1>17. c \in Int /\ l \in Int /\ c <= n + 1 /\ c - 1 \in q-1..n
    BY <1>0, <1>2, <1>5, <1>7
  <1>18. c <= l => e = c - a + 1
    OBVIOUS
  <1> HIDE DEF e, k, m, n
  <1>19. CharAt(text, e) \in {","} \cup {NUL}
    <2>1. CASE c <= l
      <3>1. CharAt(text, e) = text[e] /\ text[e] = input[c] /\ CharAt(input, c) = input[c]
        BY <1>0, <1>6, <1>11, <1>13, <2>1 DEF CharAt, n
      <3> QED BY <1>28, <3>1
    <2>2. CASE c > l
      <3>1. e = m + 1 /\ ~(e <= m)
        BY <1>5, <1>14, <2>2
      <3>2. CharAt(text, e) = NUL
        BY <1>6, <3>1 DEF CharAt
      <3> QED BY <3>2
    <2>3. c <= l \/ c > l
      BY <1>17
    <2> QED BY <2>1, <2>2, <2>3
  <1>20. ASSUME NEW j \in k..e-1 PROVE CharAt(text, j) \notin {","} \cup {NUL}
    <2>1. j \in 1..m /\ a + j - 1 \in q..c-1
      BY <1>12
    <2>2. CharAt(text, j) = text[j] /\ text[j] = input[a + j - 1]
      BY <1>5, <1>6, <2>1 DEF CharAt
    <2>3. a + j - 1 <= n
      BY <1>0, <1>2, <1>7, <2>1
    <2>4. CharAt(input, a + j - 1) = input[a + j - 1]
      BY <2>3 DEF CharAt, n
    <2> QED BY <1>8, <2>1, <2>2, <2>4
  <1>21. CommaFrom(text, k) = e
    <2>1. k \in 1..Len(text)+1 /\ e \in k..Len(text)+1
      BY <1>5, <1>6, <1>11
    <2>2. text \in Seq(Char)
      BY <1>6
    <2> QED BY <1>19, <1>20, <2>1, <2>2, FirstInAt, Zenon DEF CommaFrom
  <1>22. FieldsFrom(text)[k] =
           IF e > m THEN <<Strip(SubSeq(text, k, e - 1))>>
           ELSE <<Strip(SubSeq(text, k, e - 1))>> \o FieldsFrom(text)[e + 1]
    <2>1. k \in 1..Len(text)+1
      BY <1>5, <1>6
    <2>2. FieldsFrom(text)[k] =
             IF CommaFrom(text, k) > Len(text) THEN <<FieldAt(text, k)>>
             ELSE <<FieldAt(text, k)>> \o FieldsFrom(text)[CommaFrom(text, k) + 1]
      BY <1>6, <2>1, FieldsEquation
    <2> QED BY <1>6, <1>21, <2>2 DEF FieldAt
  <1>23. SubSeq(text, k, e - 1) = SubSeq(input, q, a + (e - 1) - 1)
    <2> DEFINE d == e - 1
    <2>1. k \in 1..l-a+2 /\ d \in k-1..l-a+1
      BY <1>2, <1>5, <1>11 DEF m
    <2> HIDE DEF d
    <2>2. SubSeq(SubSeq(input, a, l), k, d) = SubSeq(input, a + k - 1, a + d - 1)
      BY <1>5, <2>1, PartOfPart DEF n
    <2>3. text = SubSeq(input, a, l)
      BY DEF text, Arguments, a, l
    <2> QED BY <1>15, <2>2, <2>3 DEF d
  <1>24. c <= l => FieldsAt(q) = <<Strip(SubSeq(input, q, c - 1))>> \o FieldsAt(c + 1)
    <2> SUFFICES ASSUME c <= l
                 PROVE  FieldsAt(q) = <<Strip(SubSeq(input, q, c - 1))>> \o FieldsAt(c + 1)
      OBVIOUS
    <2>1. ~(e > m) /\ a + (e - 1) - 1 = c - 1 /\ e + 1 = c - a + 1 + 1
      BY <1>2, <1>5, <1>11, <1>13, <1>17, <1>18
    <2> QED BY <1>15, <1>16, <1>22, <1>23, <2>1
  <1>25. c > l => FieldsAt(q) = <<Strip(SubSeq(input, q, l))>>
    <2> SUFFICES ASSUME c > l PROVE FieldsAt(q) = <<Strip(SubSeq(input, q, l))>>
      OBVIOUS
    <2>1. e > m /\ a + (e - 1) - 1 = l
      BY <1>2, <1>5, <1>14 DEF m
    <2> QED BY <1>15, <1>22, <1>23, <2>1
  <1>26. c = n + 1 => c > l
    BY <1>0, <1>2
  <1>27. a \in 1..l /\ l \in 1..n /\ q \in 1..n+1 /\ c \in q..n+1 /\ FieldsAt(q) \in Seq(Seq(Char))
    BY <1>2, <1>5, <1>7, <1>10
  <1> QED BY <1>9, <1>24, <1>25, <1>26, <1>27 DEF a, l, c, n

\* The first field is empty when there is nothing before its end.
LEMMA FieldMissing ==
  ASSUME input \in Seq(Char), At(Start) # NUL, At(AfterName) # NUL,
         NEW q \in AfterName..LastSolid+1
  PROVE  At(JumpBlank(q)) \in {NUL, ","} =>
           1 \in DOMAIN FieldsAt(q) /\ ~IsWord(FieldsAt(q)[1])
  <1> DEFINE n == Len(input)
             c == JumpBlank(q)
  <1>0. n \in Nat
    BY LenProperties
  <1>1. NUL \notin Char
    BY ParseAssumption
  <1>2. /\ AfterName \in 1..LastSolid /\ LastSolid \in 1..n /\ q \in 1..n+1
    BY FieldsOfLine
  <1>3. c \in q..n+1
    BY <1>2, BehindIs DEF JumpBlank
  <1>10. \A j \in q..c-1 : CharAt(input, j) \in Blank
    BY <1>2, BehindIs DEF JumpBlank
  <1>11. SUFFICES ASSUME At(c) \in {NUL, ","} PROVE 1 \in DOMAIN FieldsAt(q) /\ ~IsWord(FieldsAt(q)[1])
    OBVIOUS
  <1>13. CharAt(input, c) \in {","} \cup {NUL}
    BY <1>11 DEF At
  <1> HIDE DEF c
  <1>4. CommaFrom(input, q) = c
    <2>1. \A j \in q..c-1 : j \in 1..n /\ j \in 1..n+1
      BY <1>0, <1>2, <1>3
    <2>2. \A j \in q..c-1 : CharAt(input, j) \notin {","} \cup {NUL}
      BY <1>10, NoBlank
    <2> QED BY <1>2, <1>3, <1>13, <2>2, FirstInAt, Zenon DEF CommaFrom
  <1>5. \A j \in q..c-1 : input[j] \in Blank
    <2>1. \A j \in q..c-1 : CharAt(input, j) = input[j]
      BY <1>0, <1>2, <1>3 DEF CharAt
    <2> QED BY <1>10, <2>1
  <1>6. ~IsWord(<<>>) /\ <<>> \in Seq(Char)
    BY EmptySeq DEF IsWord
  <1>7. CASE c <= n
    <2> DEFINE b == c - 1
    <2>1. b \in q-1..n /\ c + 1 \in AfterName..LastSolid+1
      <3>1. c <= LastSolid
        BY <1>4, <1>7, FieldsOfLine
      <3> QED BY <1>0, <1>2, <1>3, <3>1
    <2>5. FieldsAt(q) = <<Strip(SubSeq(input, q, b))>> \o FieldsAt(c + 1)
      BY <1>4, <1>7, FieldsOfLine
    <2>2. \A j \in q..b : input[j] \in Blank
      BY <1>5
    <2> HIDE DEF b
    <2>3. Strip(SubSeq(input, q, b)) = <<>>
      BY <1>2, <2>1, <2>2, StripBlank
    <2> DEFINE d == c + 1
               g == FieldsAt(d)
    <2>4. g \in Seq(Seq(Char))
      <3>1. d \in AfterName..LastSolid+1
        BY <2>1
      <3> HIDE DEF d
      <3> QED BY <3>1, FieldsOfLine
    <2>6. FieldsAt(q) = <<<<>>>> \o g
      BY <2>3, <2>5
    <2> HIDE DEF g
    <2>7. 1 \in DOMAIN (<<<<>>>> \o g) /\ (<<<<>>>> \o g)[1] = <<>>
      BY <1>6, <2>4, WordBefore
    <2> QED BY <1>6, <2>6, <2>7
  <1>8. CASE c = n + 1
    <2>1. LastSolid \in q-1..n /\ q \in 1..n+1
      <3>1. q \in AfterName..LastSolid+1
        OBVIOUS
      <3> QED BY <1>0, <1>2, <3>1
    <2>2. \A j \in q..LastSolid : input[j] \in Blank
      <3>1. \A j \in q..LastSolid : j \in q..c-1
        BY <1>0, <1>2, <1>8
      <3> QED BY <1>5, <3>1
    <2>3. Strip(SubSeq(input, q, LastSolid)) = <<>>
      BY <2>1, <2>2, StripBlank
    <2>4. FieldsAt(q) = <<<<>>>>
      BY <1>4, <1>8, <2>3, FieldsOfLine
    <2>5. 1 \in DOMAIN <<<<>>>> /\ <<<<>>>>[1] = <<>>
      OBVIOUS
    <2> QED BY <1>6, <2>4, <2>5, Zenon
  <1>9. c <= n \/ c = n + 1
    BY <1>0, <1>2, <1>3
  <1> QED BY <1>7, <1>8, <1>9

\* An argument is read: the line means what the words with it mean and the rest.
ReadsOn(words, q, word, d) ==
  /\ At(d) = NUL => Whole(words, q) = Meaning("ok", Append(words, word))
  /\ At(d) \notin {NUL, ","} => Whole(words, q) = Meaning("INVALID_DELIMITER", <<>>)
  /\ At(d) = "," =>
       /\ d + 1 \in AfterName..LastSolid+1
       /\ At(JumpBlank(d + 1)) \in {NUL, ","} =>
            Whole(words, q) = Meaning("INVALID_DELIMITER", <<>>)
       /\ Whole(words, q) = Whole(Append(words, word), d + 1)

\* One more word of the line read.
LEMMA WordOfLine ==
  ASSUME input \in Seq(Char), At(Start) # NUL, At(AfterName) # NUL,
         NEW q \in AfterName..LastSolid+1, NEW words \in Seq(Seq(Char)),
         NEW p \in Int, NEW w \in Int, NEW d \in Int, WordAt(input, q, p, w, d)
  PROVE  ReadsOn(words, q, SubSeq(input, p, w - 1), d)
  <1> DEFINE n == Len(input)
             word == SubSeq(input, p, w - 1)
  <1>0. n \in Nat
    BY LenProperties
  <1>1. NUL \notin Char
    BY ParseAssumption
  <1>2. /\ AfterName \in 1..LastSolid /\ LastSolid \in 1..n /\ q \in 1..n+1
    BY FieldsOfLine
  <1>3. p \in q..n /\ w \in p+1..n+1 /\ d \in w..n+1
    BY <1>1, <1>2, WordIs
  <1>4. word \in Seq(Char) /\ IsWord(word)
    BY <1>1, <1>2, WordIs
  <1>5. /\ \A j \in q..p-1 : input[j] \in Blank
        /\ \A j \in p..w-1 : input[j] \notin Blank \cup {","}
        /\ \A j \in w..d-1 : input[j] \in Blank
    BY <1>1, <1>2, WordIs
  <1>6. <<word>> \in Seq(Seq(Char)) /\ DOMAIN <<word>> = 1..1 /\ <<word>>[1] = word
    BY <1>4
  <1>7. words \o <<word>> = Append(words, word)
    BY <1>4, AppendIsConcat
  <1>8. At(d) = NUL => Whole(words, q) = Meaning("ok", Append(words, word))
    <2>1. SUFFICES ASSUME At(d) = NUL PROVE Whole(words, q) = Meaning("ok", Append(words, word))
      OBVIOUS
    <2>2. /\ CommaFrom(input, q) = n + 1
          /\ \A b \in w-1..n : Strip(SubSeq(input, q, b)) = word
      BY <1>1, <1>2, <2>1, WordLast DEF At
    <2>3. LastSolid \in w-1..n
      <3>1. \A k \in LastSolid+1..n : input[k] \in Blank
        BY CutLine
      <3>2. w - 1 \in p..w-1 /\ w - 1 \in 1..n
        BY <1>0, <1>2, <1>3
      <3>3. w - 1 \notin LastSolid+1..n
        BY <1>5, <3>1, <3>2
      <3> QED BY <1>0, <1>2, <3>2, <3>3
    <2>4. FieldsAt(q) = <<word>>
      BY <2>2, <2>3, FieldsOfLine
    <2> HIDE DEF word
    <2>5. \A k \in DOMAIN <<word>> : IsWord(<<word>>[k])
      BY <1>4, <1>6
    <2> QED BY <1>7, <2>4, <2>5, Zenon DEF Whole
  <1>9. At(d) \notin {NUL, ","} => Whole(words, q) = Meaning("INVALID_DELIMITER", <<>>)
    <2>1. SUFFICES ASSUME At(d) \notin {NUL, ","}
                   PROVE  Whole(words, q) = Meaning("INVALID_DELIMITER", <<>>)
      OBVIOUS
    <2> DEFINE c == CommaFrom(input, q)
    <2>2. c \in q..n+1
      BY <1>2, FirstInIs DEF CommaFrom
    <2>3. CharAt(input, c) \in {","} \cup {NUL}
      BY <1>2, FirstInIs DEF CommaFrom
    <2>4. w < d /\ d <= n
      BY <1>1, <1>2, <2>1, WordIs DEF At
    <2>5. d < c
      <3>1. \A j \in q..p-1 : CharAt(input, j) = input[j] /\ j \in 1..n /\ j \in 1..n+1
        BY <1>0, <1>2, <1>3 DEF CharAt
      <3>2. \A j \in p..w-1 : CharAt(input, j) = input[j] /\ j \in 1..n /\ j \in 1..n+1
        BY <1>0, <1>2, <1>3 DEF CharAt
      <3>3. \A j \in w..d-1 : CharAt(input, j) = input[j] /\ j \in 1..n /\ j \in 1..n+1
        BY <1>0, <1>2, <1>3 DEF CharAt
      <3>4. \A j \in 1..n : input[j] # NUL
        BY <1>1, ElementOfSeq
      <3>5. \A j \in q..p-1 : CharAt(input, j) \notin {","} \cup {NUL}
        BY <1>5, <3>1, <3>4, NoBlank
      <3>6. \A j \in p..w-1 : CharAt(input, j) \notin {","} \cup {NUL}
        BY <1>5, <3>2, <3>4, NoBlank
      <3>7. \A j \in w..d-1 : CharAt(input, j) \notin {","} \cup {NUL}
        BY <1>5, <3>3, <3>4, NoBlank
      <3>8. c \notin q..p-1
        BY <2>3, <3>5
      <3>9. c \notin p..w-1
        BY <2>3, <3>6
      <3>10. c \notin w..d-1
        BY <2>3, <3>7
      <3>11. c # d
        BY <2>1, <2>3 DEF At
      <3> HIDE DEF c, n
      <3> QED BY <1>0, <1>2, <1>3, <2>2, <2>4, <3>8, <3>9, <3>10, <3>11
    <2> HIDE DEF c
    <2>6. d \in 1..n /\ c - 1 \in d..n
      BY <1>0, <1>2, <1>3, <2>2, <2>4, <2>5
    <2>7. d <= LastSolid
      <3>1. \A k \in LastSolid+1..n : input[k] \in Blank
        BY CutLine
      <3>2. w \in 1..n+1
        BY <1>0, <1>2, <1>3
      <3>3. CharAt(input, d) \notin Blank
        BY <3>2, BehindIs DEF WordAt
      <3>4. CharAt(input, d) = input[d]
        BY <1>0, <2>6 DEF CharAt
      <3>5. d \notin LastSolid+1..n
        BY <3>1, <3>3, <3>4
      <3> QED BY <1>0, <1>2, <2>6, <3>5
    <2>8. \A b \in d..n : ~IsWord(Strip(SubSeq(input, q, b)))
      BY <1>1, <1>2, <2>1, WordTwice DEF At
    <2>9. \E b \in d..n : 1 \in DOMAIN FieldsAt(q) /\ FieldsAt(q)[1] = Strip(SubSeq(input, q, b))
      <3>1. CASE c <= n
        <4> DEFINE b == c - 1
                   e == c + 1
                   g == FieldsAt(e)
                   f == Strip(SubSeq(input, q, b))
        <4>1. c <= LastSolid /\ FieldsAt(q) = <<f>> \o g
          BY <3>1, FieldsOfLine DEF c
        <4>2. b \in d..n /\ b \in q-1..n /\ e \in AfterName..LastSolid+1
          BY <1>0, <1>2, <2>2, <2>6, <4>1
        <4> HIDE DEF b, e
        <4>3. f \in Seq(Char) /\ g \in Seq(Seq(Char))
          BY <1>2, <4>2, StripType, FieldsOfLine
        <4>4. 1 \in DOMAIN (<<f>> \o g) /\ (<<f>> \o g)[1] = f
          <5> HIDE DEF f, g
          <5> QED BY <4>3, WordBefore
        <4> QED BY <4>1, <4>2, <4>4
      <3>2. CASE c = n + 1
        <4> DEFINE f == Strip(SubSeq(input, q, LastSolid))
        <4>1. FieldsAt(q) = <<f>>
          BY <3>2, FieldsOfLine DEF c
        <4>2. LastSolid \in d..n
          BY <1>0, <1>2, <2>6, <2>7
        <4>3. 1 \in DOMAIN <<f>> /\ <<f>>[1] = f
          OBVIOUS
        <4> QED BY <4>1, <4>2, <4>3
      <3>3. c <= n \/ c = n + 1
        <4> HIDE DEF n, word
        <4>1. q \in 1..n+1
          BY <1>2
        <4> QED BY <1>0, <2>2, <4>1
      <3> QED BY <3>1, <3>2, <3>3
    <2>10. ~\A k \in DOMAIN FieldsAt(q) : IsWord(FieldsAt(q)[k])
      BY <2>8, <2>9
    <2> QED BY <2>10, Zenon DEF Whole
  <1>10. At(d) = "," =>
              /\ d + 1 \in AfterName..LastSolid+1
              /\ At(JumpBlank(d + 1)) \in {NUL, ","} =>
                   Whole(words, q) = Meaning("INVALID_DELIMITER", <<>>)
              /\ Whole(words, q) = Whole(Append(words, word), d + 1)
    <2>1. SUFFICES ASSUME At(d) = ","
                   PROVE  /\ d + 1 \in AfterName..LastSolid+1
                          /\ At(JumpBlank(d + 1)) \in {NUL, ","} =>
                               Whole(words, q) = Meaning("INVALID_DELIMITER", <<>>)
                          /\ Whole(words, q) = Whole(Append(words, word), d + 1)
      OBVIOUS
    <2> DEFINE e == d + 1
               g == FieldsAt(e)
    <2>2. d \in 1..n /\ CommaFrom(input, q) = d /\ Strip(SubSeq(input, q, d - 1)) = word
      <3>1. CharAt(input, d) = "," /\ q \in 1..Len(input)+1
        BY <1>2, <2>1 DEF At
      <3>2. CharAt(input, d) = "," => CommaCuts(input, q, p, w, d)
        <4>1. q \in 1..Len(input)+1
          BY <1>2
        <4> HIDE DEF e, g, word, n
        <4> QED BY <1>1, <4>1, WordComma
      <3> QED BY <3>1, <3>2, Zenon DEF CommaCuts
    <2>9. CommaFrom(input, q) <= n
      BY <1>0, <2>2
    <2>3. d <= LastSolid /\ FieldsAt(q) = <<word>> \o g
      <3>1. /\ CommaFrom(input, q) <= LastSolid
            /\ FieldsAt(q) = <<Strip(SubSeq(input, q, CommaFrom(input, q) - 1))>>
                             \o FieldsAt(CommaFrom(input, q) + 1)
        BY <2>9, FieldsOfLine
      <3> QED BY <2>2, <3>1, Zenon
    <2>4. e \in AfterName..LastSolid+1
      BY <1>2, <1>3, <2>3
    <2> HIDE DEF e, word
    <2>5. g \in Seq(Seq(Char))
      BY <2>4, FieldsOfLine
    <2>6. /\ (\A k \in DOMAIN (<<word>> \o g) : IsWord((<<word>> \o g)[k]))
                <=> IsWord(word) /\ \A k \in DOMAIN g : IsWord(g[k])
          /\ words \o (<<word>> \o g) = Append(words, word) \o g
      <3> HIDE DEF g
      <3>1. word \in Seq(Char) /\ words \in Seq(Seq(Char))
        BY <1>4
      <3>2. (\A k \in DOMAIN (<<word>> \o g) : IsWord((<<word>> \o g)[k]))
                <=> IsWord(word) /\ \A k \in DOMAIN g : IsWord(g[k])
        BY <2>5, <3>1, WordBefore, SMTT(20)
      <3>3. words \o (<<word>> \o g) = Append(words, word) \o g
        BY <2>5, <3>1, AppendBefore
      <3> QED BY <3>2, <3>3
    <2>7. Whole(words, q) = Whole(Append(words, word), e)
      BY <1>4, <2>3, <2>6, Zenon DEF Whole
    <2>8. At(JumpBlank(e)) \in {NUL, ","} => Whole(words, q) = Meaning("INVALID_DELIMITER", <<>>)
      <3>1. SUFFICES ASSUME At(JumpBlank(e)) \in {NUL, ","}
                     PROVE  Whole(words, q) = Meaning("INVALID_DELIMITER", <<>>)
        OBVIOUS
      <3>2. 1 \in DOMAIN g /\ ~IsWord(g[1])
        BY <2>4, <3>1, FieldMissing
      <3> QED BY <2>7, <3>2, Zenon DEF Whole
    <2> QED BY <2>4, <2>7, <2>8 DEF e
  <1> QED BY <1>8, <1>9, <1>10, Zenon DEF ReadsOn

-----------------------------------------------------------------------------
\* In the loop: from a position q on, the fields of the line are still to be read,
\* and the next of them is not empty.
Reading ==
  /\ At(Start) # NUL /\ At(AfterName) # NUL
  /\ \E q \in AfterName..LastSolid+1 :
       /\ pos = JumpBlank(q) /\ At(pos) \notin {NUL, ","}
       /\ CommandOf(input) = Whole(Words, q)

(* The inductive invariant: each string of argv has its NUL, a line that is  *)
(* refused leaves none and one that is not leaves some, and in the loop the  *)
(* words read so far and what is left of the line make what the line means.  *)
SplitInv ==
  /\ AllEnd(buffer, argv)
  /\ parse \in Refusals \cup {"name", "COMMAND_EMPTY"} => Emptied
  /\ parse = "arguments" => Reading
  /\ parse = "ok" => argv # <<>>
  /\ SplitsAsMeant

\* The words a caller reads are the strings of the buffer.
LEMMA WordsAre == Words = Strings(buffer, argv)
  BY DEF Words, Strings, CString, StringIn

\* An empty buffer has no words.
LEMMA NoWords == Emptied => Words = <<>> /\ AllEnd(buffer, argv)
  BY DEF Emptied, Words, AllEnd

\* There is a word for each entry of argv.
LEMMA WordsType ==
  ASSUME ParseTypeOK, AllEnd(buffer, argv)
  PROVE  Words \in Seq(Seq(Char)) /\ Len(Words) = Len(argv)
  <1>1. NUL \notin Char /\ buffer \in Seq(Char \cup {NUL})
    BY ParseAssumption DEF ParseTypeOK
  <1>2. argv \in Seq(Nat)
    <2>1. Len(input) \in Nat
      BY LenProperties DEF ParseTypeOK
    <2>2. 1..Len(input)+1 \subseteq Nat /\ argv \in Seq(1..Len(input)+1)
      BY <2>1 DEF ParseTypeOK
    <2> QED BY <2>2, SeqMonotonic
  <1> QED BY <1>1, <1>2, StringsAre, WordsAre, Zenon

\* A string is stored.
LEMMA StoreWords ==
  ASSUME ParseTypeOK, AllEnd(buffer, argv), NEW start \in 1..Len(input)+1,
         NEW end \in start..Len(input)+1, NEW next, NEW state, Store(start, end, next, state)
  PROVE  /\ AllEnd(buffer, argv)' /\ SubSeq(input, start, end - 1) \in Seq(Char)
         /\ Words' = Append(Words, SubSeq(input, start, end - 1))
         /\ input' = input /\ pos' = next /\ parse' = state /\ argv' # <<>>
  <1> DEFINE word == SubSeq(input, start, end - 1)
  <1>0. Len(input) \in Nat /\ input \in Seq(Char)
    BY LenProperties DEF ParseTypeOK
  <1>1. NUL \notin Char /\ buffer \in Seq(Char \cup {NUL})
    BY ParseAssumption DEF ParseTypeOK
  <1>2. argv \in Seq(Nat)
    <2>2. 1..Len(input)+1 \subseteq Nat /\ argv \in Seq(1..Len(input)+1)
      BY <1>0 DEF ParseTypeOK
    <2> QED BY <2>2, SeqMonotonic
  <1>3. word \in Seq(Char)
    <2> DEFINE b == end - 1
    <2>1. start \in 1..Len(input)+1 /\ b \in start-1..Len(input)
      BY <1>0
    <2> HIDE DEF b
    <2>2. SubSeq(input, start, b) \in Seq(Char)
      BY <1>0, <2>1, PartOf
    <2> QED BY <2>2 DEF b
  <1>4. /\ buffer' = buffer \o word \o <<NUL>> /\ argv' = Append(argv, Len(buffer) + 1)
        /\ input' = input /\ pos' = next /\ parse' = state
    BY Zenon DEF Store, Saved
  <1> HIDE DEF word
  <1>5. /\ AllEnd(buffer \o word \o <<NUL>>, Append(argv, Len(buffer) + 1))
        /\ Strings(buffer \o word \o <<NUL>>, Append(argv, Len(buffer) + 1))
             = Append(Strings(buffer, argv), word)
    BY <1>1, <1>2, <1>3, StringsAppend, Zenon
  <1>6. Words' = Strings(buffer', argv') /\ AllEnd(buffer, argv)' = AllEnd(buffer', argv')
    BY DEF Words, Strings, CString, StringIn, AllEnd
  <1>7. Words' = Append(Words, word) /\ AllEnd(buffer, argv)'
    BY <1>4, <1>5, <1>6, WordsAre, Zenon
  <1>8. Append(argv, Len(buffer) + 1) # <<>>
    <2> DEFINE at == Len(buffer) + 1
    <2>1. at \in Nat
      BY <1>1, LenProperties
    <2> HIDE DEF at
    <2>2. Append(argv, at) # <<>>
      BY <1>2, <2>1, AppendProperties
    <2> QED BY <2>2 DEF at
  <1> QED BY <1>3, <1>4, <1>7, <1>8 DEF word

\* What is said of the line alone stays so while the line does.
LEMMA SameLine ==
  ASSUME input' = input
  PROVE  /\ At(Start)' = At(Start) /\ At(AfterName)' = At(AfterName)
         /\ AfterName' = AfterName /\ LastSolid' = LastSolid
         /\ \A q : FieldsAt(q)' = FieldsAt(q) /\ JumpBlank(q)' = JumpBlank(q)
  <1>1. Start' = Start /\ \A q : JumpBlank(q)' = JumpBlank(q)
    BY DEF Start, JumpBlank
  <1>2. AfterName' = AfterName
    BY DEF AfterName, End, NextIn, Start, JumpBlank
  <1>3. LastSolid' = LastSolid
    BY DEF LastSolid
  <1>4. At(Start)' = At(Start) /\ At(AfterName)' = At(AfterName)
    BY <1>1, <1>2, Zenon DEF At
  <1>5. \A q : FieldsAt(q)' = FieldsAt(q)
    BY <1>2, <1>3, Zenon DEF FieldsAt, Arguments
  <1> QED BY <1>1, <1>2, <1>3, <1>4, <1>5

\* What a step leaves that ends in the loop, with a result, or in an error.
LEMMA LoopSplits ==
  ASSUME input' = input, AllEnd(buffer, argv)', parse' = "arguments",
         At(Start) # NUL, At(AfterName) # NUL, NEW q \in AfterName..LastSolid+1,
         pos' = JumpBlank(q), At(JumpBlank(q)) \notin {NUL, ","},
         CommandOf(input) = Whole(Words', q)
  PROVE  SplitInv'
  <1>1. Whole(Words, q)' = Whole(Words', q)
    BY SameLine, Zenon DEF Whole
  <1>2. At(pos)' = At(JumpBlank(q))
    BY DEF At
  <1>3. Reading'
    <2>1. At(Start)' # NUL' /\ At(AfterName)' # NUL'
      BY SameLine, Zenon DEF NUL
    <2>2. q \in (AfterName..LastSolid+1)'
      BY SameLine
    <2>3. (pos = JumpBlank(q))' /\ (At(pos) \notin {NUL, ","})'
      BY <1>2, SameLine, Zenon DEF NUL
    <2>4. (CommandOf(input) = Whole(Words, q))'
      BY <1>1, Zenon
    <2> QED BY <2>1, <2>2, <2>3, <2>4 DEF Reading
  <1>4. SplitsAsMeant' /\ (parse \in Refusals \cup {"name", "COMMAND_EMPTY"} => Emptied)'
    BY DEF SplitsAsMeant, Results, Refusals
  <1> QED BY <1>3, <1>4 DEF SplitInv

\* Success with the words the line means keeps the invariant.
LEMMA ResultSplits ==
  ASSUME input' = input, AllEnd(buffer, argv)', parse' = "ok", argv' # <<>>,
         CommandOf(input) = Meaning("ok", Words')
  PROVE  SplitInv'
  <1>1. SplitsAsMeant'
    BY DEF SplitsAsMeant
  <1>2. parse' # "arguments" /\ parse' \notin Refusals \cup {"name", "COMMAND_EMPTY"}
    BY DEF Refusals
  <1> QED BY <1>1, <1>2 DEF SplitInv

\* An error the line deserves keeps it.
LEMMA ErrorSplits ==
  ASSUME input' = input, Emptied', NEW errCode \in Results, errCode # "ok", parse' = errCode,
         errCode # "ALLOCATION_ERROR" => CommandOf(input) = Meaning(errCode, <<>>)
  PROVE  SplitInv'
  <1>1. Words' = <<>> /\ AllEnd(buffer, argv)'
    BY DEF Emptied, Words, AllEnd
  <1>2. SplitsAsMeant'
    BY <1>1, Zenon DEF SplitsAsMeant
  <1>3. parse' # "arguments"
    BY DEF Results, Refusals
  <1> QED BY <1>1, <1>2, <1>3 DEF SplitInv

\* Leaving through _cleanup_ with such an error keeps it.
LEMMA CleanupSplits ==
  ASSUME NEW errCode \in Refusals, Cleanup(errCode),
         errCode # "ALLOCATION_ERROR" => CommandOf(input) = Meaning(errCode, <<>>)
  PROVE  SplitInv'
  <1>1. input' = input /\ Emptied' /\ parse' = errCode
    BY DEF Cleanup, Emptied
  <1>2. errCode \in Results /\ errCode # "ok"
    BY DEF Results, Refusals
  <1> QED BY <1>1, <1>2, ErrorSplits

\* Reading the name keeps it.
LEMMA NameSplits == ASSUME ParseInv, SplitInv, ParseName PROVE SplitInv'
  <1> DEFINE n == Len(input)
             name == SubSeq(input, Start, End - 1)
  <1>1. /\ input \in Seq(Char) /\ n \in Nat /\ parse = "name" /\ At(Start) # NUL
        /\ \A k \in Start..End-1 : input[k] \in Lower
    BY LenProperties DEF ParseInv, ParseTypeOK, ParseName, NamedInLowercase
  <1>2. Words = <<>> /\ AllEnd(buffer, argv) /\ ParseTypeOK
    BY <1>1, NoWords DEF ParseInv
  <1>3. /\ Start \in 1..LastSolid /\ End \in Start+1..LastSolid+1 /\ LastSolid \in 1..n
        /\ AfterName \in End..n+1
    BY <1>1, CutLine
  <1>4. Start \in 1..n+1 /\ End \in Start..n+1
    BY <1>1, <1>3
  <1>5. Append(<<>>, name) = <<name>>
    OBVIOUS
  <1> HIDE DEF name
  <1>6. CASE At(AfterName) = NUL /\ Store(Start, End, AfterName, "ok")
    <2>1. CommandOf(input) = Meaning("ok", <<name>>)
      BY <1>1, <1>6, CommandIs DEF name
    <2>2. /\ AllEnd(buffer, argv)' /\ Words' = Append(Words, name) /\ input' = input
          /\ parse' = "ok" /\ argv' # <<>>
      BY <1>2, <1>4, <1>6, StoreWords DEF name
    <2>3. CommandOf(input) = Meaning("ok", Words')
      BY <1>2, <1>5, <2>1, <2>2
    <2> QED BY <2>2, <2>3, ResultSplits
  <1>7. CASE At(AfterName) = "," /\ Cleanup("INVALID_DELIMITER")
    <2>1. At(AfterName) # NUL /\ At(AfterName) = ","
      BY <1>7, NoBlank
    <2>2. CommandOf(input) = Whole(<<name>>, AfterName) /\ AfterName \in End..LastSolid
      BY <1>1, <2>1, CommandIs DEF name
    <2>3. AfterName \in AfterName..LastSolid+1
      BY <1>3, <2>2
    <2>4. At(AfterName) \notin Blank
      BY <1>1, CutLine
    <2>5. JumpBlank(AfterName) = AfterName
      <3>1. AfterName \in 1..n+1 /\ AfterName \in AfterName..n+1 /\ AfterName..AfterName-1 = {}
        BY <1>3
      <3> QED BY <1>1, <2>4, <3>1, BehindAt DEF JumpBlank, At
    <2>6. At(JumpBlank(AfterName)) \in {NUL, ","}
      BY <2>1, <2>5, Zenon
    <2>7. 1 \in DOMAIN FieldsAt(AfterName) /\ ~IsWord(FieldsAt(AfterName)[1])
      BY <1>1, <2>1, <2>3, <2>6, FieldMissing, Zenon
    <2>8. CommandOf(input) = Meaning("INVALID_DELIMITER", <<>>)
      BY <2>2, <2>7, Zenon DEF Whole
    <2> QED BY <1>7, <2>8, CleanupSplits DEF Refusals
  <1>8. CASE At(AfterName) \notin {NUL, ","} /\ Store(Start, End, AfterName, "arguments")
    <2>1. At(AfterName) # NUL
      BY <1>8
    <2>2. CommandOf(input) = Whole(<<name>>, AfterName) /\ AfterName \in End..LastSolid
      BY <1>1, <2>1, CommandIs DEF name
    <2>3. AfterName \in AfterName..LastSolid+1
      BY <1>3, <2>2
    <2>4. At(AfterName) \notin Blank
      BY <1>1, CutLine
    <2>5. JumpBlank(AfterName) = AfterName
      <3>1. AfterName \in 1..n+1 /\ AfterName \in AfterName..n+1 /\ AfterName..AfterName-1 = {}
        BY <1>3
      <3> QED BY <1>1, <2>4, <3>1, BehindAt DEF JumpBlank, At
    <2>6. /\ AllEnd(buffer, argv)' /\ Words' = Append(Words, name) /\ input' = input
          /\ pos' = AfterName /\ parse' = "arguments"
      BY <1>2, <1>4, <1>8, StoreWords DEF name
    <2>7. CommandOf(input) = Whole(Words', AfterName)
      BY <1>2, <1>5, <2>2, <2>6
    <2>8. pos' = JumpBlank(AfterName) /\ At(JumpBlank(AfterName)) \notin {NUL, ","}
      BY <1>8, <2>5, <2>6, Zenon
    <2> QED BY <1>1, <2>1, <2>3, <2>6, <2>7, <2>8, LoopSplits
  <1> QED BY <1>6, <1>7, <1>8 DEF ParseName

\* The argument at pos, as it is seen from the position q behind the delimiter.
LEMMA ReadingWord ==
  ASSUME ParseTypeOK, NEW q, pos = JumpBlank(q), At(pos) \notin {NUL, ","},
         WordEnd(pos) \in Int, Delimiter \in Int
  PROVE  WordAt(input, q, pos, WordEnd(pos), Delimiter)
  BY DEF WordAt, WordEnd, NextIn, Delimiter, JumpBlank, At

\* An iteration of the loop keeps it.
LEMMA LoopStepSplits ==
  ASSUME ParseInv, SplitInv, BadDelimiter \/ ParseArgument PROVE SplitInv'
  <1> DEFINE n == Len(input)
             w == WordEnd(pos)
             d == Delimiter
             word == SubSeq(input, pos, w - 1)
  <1>1. /\ input \in Seq(Char) /\ n \in Nat /\ parse = "arguments"
        /\ pos \in 1..n+1 /\ ParseTypeOK /\ AllEnd(buffer, argv)
    BY LenProperties DEF ParseInv, ParseTypeOK, ParseArgument, BadDelimiter, SplitInv
  <1>2. w \in pos..n+1
    BY <1>1, FirstInIs DEF WordEnd, NextIn
  <1>3. d \in w..n+1 /\ d \in 1..n+1
    <2>1. w \in 1..n+1
      BY <1>1, <1>2
    <2> QED BY <1>1, <2>1, BehindIs DEF Delimiter, JumpBlank
  <1>4. pos \in Int /\ w \in Int /\ d \in Int
    BY <1>1, <1>2, <1>3
  <1>5. At(Start) # NUL /\ At(AfterName) # NUL
    BY <1>1 DEF SplitInv, Reading
  <1>6. PICK q \in AfterName..LastSolid+1 :
          /\ pos = JumpBlank(q) /\ At(pos) \notin {NUL, ","}
          /\ CommandOf(input) = Whole(Words, q)
    BY <1>1 DEF SplitInv, Reading
  <1> HIDE DEF w, d
  <1>7. WordAt(input, q, pos, w, d)
    BY <1>1, <1>4, <1>6, ReadingWord, Zenon DEF w, d
  <1>8. Words \in Seq(Seq(Char))
    BY <1>1, WordsType
  <1>9. /\ At(d) = NUL => Whole(Words, q) = Meaning("ok", Append(Words, word))
        /\ At(d) \notin {NUL, ","} => Whole(Words, q) = Meaning("INVALID_DELIMITER", <<>>)
        /\ At(d) = "," =>
             /\ d + 1 \in AfterName..LastSolid+1
             /\ At(JumpBlank(d + 1)) \in {NUL, ","} =>
                  Whole(Words, q) = Meaning("INVALID_DELIMITER", <<>>)
             /\ Whole(Words, q) = Whole(Append(Words, word), d + 1)
    <2> DEFINE v == Words
               p == pos
    <2>1. input \in Seq(Char) /\ v \in Seq(Seq(Char)) /\ p \in Int /\ WordAt(input, q, p, w, d)
      BY <1>1, <1>4, <1>7, <1>8
    <2> HIDE DEF n, v, p
    <2>2. ReadsOn(v, q, SubSeq(input, p, w - 1), d)
      BY <1>4, <1>5, <2>1, WordOfLine
    <2> QED BY <2>2, Zenon DEF v, p, ReadsOn
  <1> HIDE DEF word, n
  <1>10. CASE BadDelimiter
    <2>1. CommandOf(input) = Meaning("INVALID_DELIMITER", <<>>)
      BY <1>6, <1>9, <1>10, Zenon
          DEF BadDelimiter, DelimiterMissing, DelimiterDangling, NextArgument, d
    <2>2. Cleanup("INVALID_DELIMITER")
      BY <1>10 DEF BadDelimiter
    <2> QED BY <2>1, <2>2, CleanupSplits DEF Refusals
  <1>11. CASE ParseArgument
    <2>1. CASE At(d) = NUL /\ Store(pos, w, d, "ok")
      <3>1. /\ AllEnd(buffer, argv)' /\ Words' = Append(Words, word) /\ input' = input
            /\ parse' = "ok" /\ argv' # <<>>
        BY <1>1, <1>2, <2>1, StoreWords DEF word, n
      <3>2. CommandOf(input) = Meaning("ok", Words')
        BY <1>6, <1>9, <2>1, <3>1, Zenon
      <3> QED BY <3>1, <3>2, ResultSplits
    <2>2. CASE At(d) = "," /\ ~DelimiterDangling /\ Store(pos, w, NextArgument, "arguments")
      <3>1. /\ AllEnd(buffer, argv)' /\ Words' = Append(Words, word) /\ input' = input
            /\ pos' = NextArgument /\ parse' = "arguments"
        BY <1>1, <1>2, <2>2, StoreWords DEF word, n
      <3> DEFINE e == d + 1
      <3>2. e \in AfterName..LastSolid+1 /\ CommandOf(input) = Whole(Words', e)
        BY <1>6, <1>9, <2>2, <3>1, Zenon
      <3>3. pos' = JumpBlank(e) /\ At(JumpBlank(e)) \notin {NUL, ","}
        BY <2>2, <3>1, Zenon DEF DelimiterDangling, NextArgument, d
      <3> HIDE DEF e
      <3> QED BY <1>5, <3>1, <3>2, <3>3, LoopSplits
    <2> QED BY <1>11, <2>1, <2>2, Zenon DEF ParseArgument, d, w
  <1> QED BY <1>10, <1>11

\* Every step of the parser keeps it.
LEMMA SplitInvStep == ParseInv /\ SplitInv /\ [ParseNext]_parseVars => SplitInv'
  <1> SUFFICES ASSUME ParseInv, SplitInv, [ParseNext]_parseVars PROVE SplitInv'
    OBVIOUS
  <1>0. input \in Seq(Char) /\ ParseTypeOK /\ AllEnd(buffer, argv)
    BY DEF ParseInv, ParseTypeOK, SplitInv
  <1>1. CASE EmptyInput
    <2>1. CommandOf(input) = Meaning("COMMAND_EMPTY", <<>>)
      BY <1>0, <1>1, BlankLine DEF EmptyInput
    <2>2. input' = input /\ Emptied' /\ parse' = "COMMAND_EMPTY"
      BY <1>1 DEF EmptyInput, ParseInv, Emptied
    <2> QED BY <2>1, <2>2, ErrorSplits DEF Results
  <1>2. CASE NoMemory
    BY <1>2, CleanupSplits DEF NoMemory, Refusals
  <1>3. CASE NotLowercase
    <2>1. CommandOf(input) = Meaning("NOT_LOWERCASE", <<>>)
      BY <1>0, <1>3, CommandIs DEF NotLowercase
    <2> QED BY <1>3, <2>1, CleanupSplits DEF NotLowercase, Refusals
  <1>4. CASE ParseName
    BY <1>4, NameSplits
  <1>5. CASE BadDelimiter \/ ParseArgument
    BY <1>5, LoopStepSplits
  <1>6. CASE ArgumentOutside
    <2>1. /\ parse' = "undefined" /\ buffer' = buffer /\ argv' = argv
      BY <1>6 DEF ArgumentOutside, StoreOutside
    <2>2. AllEnd(buffer, argv)'
      BY <1>0, <2>1 DEF AllEnd
    <2> QED BY <2>1, <2>2 DEF SplitInv, SplitsAsMeant, Results, Refusals
  <1>7. CASE UNCHANGED parseVars
    <2>1. /\ input' = input /\ pos' = pos /\ buffer' = buffer /\ argv' = argv /\ parse' = parse
      BY <1>7 DEF parseVars
    <2>2. AllEnd(buffer, argv)' /\ (Emptied' <=> Emptied) /\ Words' = Words
      BY <1>0, <2>1 DEF AllEnd, Emptied, Words, CString
    <2>3. SplitsAsMeant'
      BY <2>1, <2>2, Zenon DEF SplitInv, SplitsAsMeant, Results, Refusals
    <2>4. CASE parse = "arguments"
      <3>1. PICK q \in AfterName..LastSolid+1 :
              /\ pos = JumpBlank(q) /\ At(pos) \notin {NUL, ","}
              /\ CommandOf(input) = Whole(Words, q)
        BY <2>4 DEF SplitInv, Reading
      <3>2. At(Start) # NUL /\ At(AfterName) # NUL
        BY <2>4 DEF SplitInv, Reading
      <3>3. pos' = JumpBlank(q) /\ At(JumpBlank(q)) \notin {NUL, ","}
        BY <2>1, <3>1, Zenon
      <3> QED BY <2>1, <2>2, <2>4, <3>1, <3>2, <3>3, LoopSplits
    <2>5. CASE parse # "arguments"
      BY <2>1, <2>2, <2>3, <2>5 DEF SplitInv, Refusals
    <2> QED BY <2>4, <2>5
  <1> QED BY <1>1, <1>2, <1>3, <1>4, <1>5, <1>6, <1>7 DEF ParseNext

\* It holds of a line not yet read.
LEMMA SplitInvInit == ParseInit => SplitInv
  <1> SUFFICES ASSUME ParseInit PROVE SplitInv
    OBVIOUS
  <1>1. Emptied /\ parse = "name"
    BY DEF ParseInit, Emptied
  <1> QED BY <1>1, NoWords DEF SplitInv, SplitsAsMeant, Results, Refusals

(* The walk through a line accepts and refuses what the line's meaning does, *)
(* and the strings its callers read are the words of it (parse.c:30).        *)
THEOREM LinesSplitAsMeant == ParseSpec => []SplitsAsMeant
  <1>1. SplitInv => SplitsAsMeant
    BY DEF SplitInv
  <1> QED BY <1>1, SplitInvInit, SplitInvStep, ParseInvariant, PTL DEF ParseSpec

-----------------------------------------------------------------------------
\* The list of the commands: edit, fill and reset are known by the first letter
\* of every spelling.
LEMMA CommandList ==
  /\ DOMAIN SHELL_COMMANDS = 1..13
  /\ \A k \in 1..13 : /\ SHELL_COMMANDS[k].func = "edit" <=> k = 6
                      /\ SHELL_COMMANDS[k].func = "fill" <=> k = 7
                      /\ SHELL_COMMANDS[k].func = "reset" <=> k = 8
  /\ \A k \in 1..13 : \A name \in SHELL_COMMANDS[k].spellings :
       /\ name[1] = "e" <=> k = 6
       /\ name[1] = "f" <=> k = 7
       /\ name[1] = "r" <=> k = 8
  /\ \A k \in 1..13 : SHELL_COMMANDS[k].func # "none"
  <1>1. DOMAIN SHELL_COMMANDS = 1..13
    BY DEF SHELL_COMMANDS
  <1>2. \A k \in 1..13 : /\ SHELL_COMMANDS[k].func = "edit" <=> k = 6
                         /\ SHELL_COMMANDS[k].func = "fill" <=> k = 7
                         /\ SHELL_COMMANDS[k].func = "reset" <=> k = 8
                         /\ SHELL_COMMANDS[k].func # "none"
    BY DEF SHELL_COMMANDS, ShellCmd
  <1>3. \A k \in 1..13 : \A name \in SHELL_COMMANDS[k].spellings :
          /\ name[1] = "e" <=> k = 6
          /\ name[1] = "f" <=> k = 7
          /\ name[1] = "r" <=> k = 8
    BY DEF SHELL_COMMANDS, ShellCmd
  <1> QED BY <1>1, <1>2, <1>3

\* A command that is found is one of the list.
LEMMA FuncIs ==
  ASSUME NEW name
  PROVE  \/ Func(name) = "none" /\ \A k \in 1..13 : name \notin SHELL_COMMANDS[k].spellings
         \/ \E k \in 1..13 : name \in SHELL_COMMANDS[k].spellings
                             /\ Func(name) = SHELL_COMMANDS[k].func
  <1> DEFINE found == {k \in 1..13 : name \in SHELL_COMMANDS[k].spellings}
  <1>1. Func(name) = IF found = {} THEN "none" ELSE SHELL_COMMANDS[Min(found)].func
    BY CommandList, Zenon DEF Func, Matches
  <1>2. found # {} => Min(found) \in found
    <2>1. found \in SUBSET Nat
      OBVIOUS
    <2> HIDE DEF found
    <2> QED BY <2>1, MinOf
  <1> QED BY <1>1, <1>2

\* What a command that writes is called, and what it is.
LEMMA NamedIs ==
  ASSUME NEW words, words # <<>>, NEW k \in 6..8
  PROVE  Named(SHELL_COMMANDS[k].func, words) <=> Func(words[1]) = SHELL_COMMANDS[k].func
  <1> DEFINE name == words[1]
             func == SHELL_COMMANDS[k].func
  <1>1. Named(func, words) <=> name \in SHELL_COMMANDS[k].spellings
    <2>1. k \in 1..13 /\ \A j \in 1..13 : SHELL_COMMANDS[j].func = func <=> j = k
      BY CommandList, SMTT(20)
    <2> HIDE DEF func
    <2> QED BY <2>1, CommandList, Zenon DEF Named
  <1>2. name \in SHELL_COMMANDS[k].spellings => Func(name) = func
    <2>1. \A j \in 1..13 : name \in SHELL_COMMANDS[k].spellings /\ name \in SHELL_COMMANDS[j].spellings => j = k
      BY CommandList, SMTT(20)
    <2> HIDE DEF name, func
    <2>2. k \in 1..13
      OBVIOUS
    <2> QED BY <2>1, <2>2, FuncIs, Zenon DEF func
  <1>3. Func(name) = func => name \in SHELL_COMMANDS[k].spellings
    <2>1. k \in 1..13 /\ \A j \in 1..13 : SHELL_COMMANDS[j].func = func <=> j = k
      BY CommandList, SMTT(20)
    <2>2. func # "none"
      BY <2>1, CommandList
    <2> HIDE DEF name, func
    <2> QED BY <2>1, <2>2, FuncIs, Zenon
  <1> QED BY <1>1, <1>2, <1>3

\* What a line writes, by its command.
LEMMA WrittenIs ==
  ASSUME NEW words, words # <<>>
  PROVE  /\ Func(words[1]) = "edit" => /\ Written(words) = {Number(words[2])}
                                       /\ WrittenValue(words) = Number(words[3])
         /\ Func(words[1]) = "fill" => /\ Written(words) = Number(words[2])..Number(words[3])
                                       /\ WrittenValue(words) = Number(words[4])
         /\ Func(words[1]) = "reset" => Written(words) = Address /\ WrittenValue(words) = 0
         /\ Func(words[1]) \notin {"edit", "fill", "reset"} => Written(words) = {}
  <1>1. /\ SHELL_COMMANDS[6].func = "edit" /\ SHELL_COMMANDS[7].func = "fill"
        /\ SHELL_COMMANDS[8].func = "reset"
    BY CommandList
  <1>2. /\ Named("edit", words) <=> Func(words[1]) = "edit"
        /\ Named("fill", words) <=> Func(words[1]) = "fill"
        /\ Named("reset", words) <=> Func(words[1]) = "reset"
    <2>1. 6 \in 6..8 /\ 7 \in 6..8 /\ 8 \in 6..8
      OBVIOUS
    <2> QED BY <1>1, <2>1, NamedIs
  <1>3. Func(words[1]) = "edit" => ~(Named("fill", words) \/ Named("reset", words))
    BY <1>2
  <1>4. Func(words[1]) = "fill" => ~(Named("edit", words) \/ Named("reset", words))
    BY <1>2
  <1>5. Func(words[1]) = "reset" => ~(Named("fill", words) \/ Named("edit", words))
    BY <1>2
  <1> QED BY <1>2, <1>3, <1>4, <1>5 DEF Written, WrittenValue

-----------------------------------------------------------------------------
\* What has been parsed of a line is what it means.
ShellSplit == phase = "parsing" => SplitInv

\* In the shell the parser's invariant is kept, too.
LEMMA ShellSplitStep == ShellInv /\ ShellSplit /\ [ShellNext]_shellVars => ShellSplit'
  <1> SUFFICES ASSUME ShellInv, ShellSplit, [ShellNext]_shellVars, phase' = "parsing"
               PROVE  SplitInv'
    BY DEF ShellSplit
  <1>1. ASSUME NEW text, BeginParse(text) PROVE SplitInv'
    <2>1. Emptied' /\ parse' = "name"
      BY <1>1 DEF BeginParse, Emptied
    <2>2. AllEnd(buffer, argv)'
      BY <2>1 DEF Emptied, AllEnd
    <2> QED BY <2>1, <2>2 DEF SplitInv, SplitsAsMeant, Results, Refusals
  <1>2. CASE ReadLine \/ ReadRest
    BY <1>1, <1>2 DEF ReadLine, ReadRest, ReadPiece
  <1>3. CASE ReadNothing
    <2>1. BeginParse(input)
      BY <1>3 DEF ReadNothing
    <2> QED BY <1>1, <2>1
  <1>4. CASE Parsing
    <2>1. phase = "parsing" /\ ParseNext
      BY <1>4 DEF Parsing
    <2> QED BY <2>1, SplitInvStep DEF ShellInv, ShellSplit
  <1>5. CASE UNCHANGED shellVars
    <2>1. phase = "parsing" /\ UNCHANGED parseVars
      BY <1>5 DEF shellVars
    <2> QED BY <2>1, SplitInvStep DEF ShellInv, ShellSplit
  <1>6. CASE LoadOpcode \/ LoadOverruns \/ Loaded \/ LoadFails \/ NotACommand \/ FlushDone \/ FlushMore
    BY <1>6 DEF LoadOpcode, LoadOverruns, Loaded, LoadFails, NotACommand, FlushDone, FlushMore
  <1>7. CASE Execute
    BY <1>7 DEF Execute, UnknownCommand, WrongArguments, CommandFails, RunDump, RunEdit,
       RunFill, RunReset, RunPrinting, RunQuit, Executed
  <1> QED BY <1>2, <1>3, <1>4, <1>5, <1>6, <1>7 DEF ShellNext, Work

\* It holds throughout.
LEMMA ShellSplitInvariant == ShellSpec => []ShellSplit
  <1>1. ShellInit => ShellSplit
    BY DEF ShellInit, ShellSplit
  <1> QED BY <1>1, ShellSplitStep, ShellInvariant, PTL DEF ShellSpec

-----------------------------------------------------------------------------
\* What a line that runs does to the memory.
Applies(words, mem, new) ==
  \A a \in Address : new[a] = IF a \in Written(words) THEN WrittenValue(words) ELSE mem[a]

\* The command and its arguments are the words of the line that was typed.
LEMMA CommandWords ==
  ASSUME ShellInv, ShellSplit, IsCommand
  PROVE  /\ CommandOf(input).words = Words /\ Words # <<>> /\ Len(Words) \in Nat
         /\ Command = Func(Words[1])
         /\ Len(Args) = Len(Words) - 1 /\ \A k \in 1..Len(Words)-1 : Args[k] = Words[k+1]
  <1>1. SplitInv /\ ParseTypeOK /\ parse = "ok"
    BY DEF ShellInv, ShellSplit, IsCommand, ParseInv
  <1>2. CommandOf(input) = Meaning("ok", Words)
    BY <1>1 DEF SplitInv, SplitsAsMeant, Results, Refusals
  <1>3. CommandOf(input).words = Words
    BY <1>2 DEF Meaning
  <1>4. Words \in Seq(Seq(Char)) /\ Len(Words) = Len(argv) /\ argv # <<>>
    BY <1>1, WordsType DEF SplitInv
  <1>5. argv \in Seq(1..Len(input)+1)
    BY <1>1 DEF ParseTypeOK
  <1>6. Words # <<>> /\ Len(Words) \in Nat
    <2>1. Len(argv) # 0
      BY <1>4, <1>5, EmptySeq
    <2> QED BY <1>4, <2>1, EmptySeq, LenProperties
  <1>7. /\ Head(Words) = Words[1] /\ Len(Tail(Words)) = Len(Words) - 1
        /\ \A k \in 1..Len(Words)-1 : Tail(Words)[k] = Words[k+1]
    <2> HIDE DEF Words
    <2> QED BY <1>4, <1>6, HeadTailProperties
  <1> QED BY <1>3, <1>6, <1>7 DEF Command, Args

\* edit does to the memory what its line says.
LEMMA EditApplies ==
  ASSUME ShellInv, ShellSplit, RunEdit PROVE Applies(Words, memAddr, memAddr')
  <1>1. IsCommand /\ Command = "edit" /\ EditError(Args) = "ok"
    BY DEF RunEdit, IsRightly, Edit
  <1>2. memAddr' = [memAddr EXCEPT ![Number(Args[1])] = Number(Args[2])]
    BY DEF RunEdit, Edit
  <1>3. Len(Args) = 2
    BY <1>1 DEF EditError
  <1>4. /\ Words # <<>> /\ Command = Func(Words[1])
        /\ Args[1] = Words[2] /\ Args[2] = Words[3]
    <2>1. /\ Words # <<>> /\ Len(Words) \in Nat /\ Len(Args) = Len(Words) - 1
          /\ \A k \in 1..Len(Words)-1 : Args[k] = Words[k+1]
      BY <1>1, CommandWords
    <2>2. Len(Words) - 1 = 2
      BY <1>3, <2>1
    <2>3. \A k \in 1..2 : Args[k] = Words[k+1]
      BY <2>1, <2>2, Zenon
    <2>4. Args[1] = Words[1+1] /\ Args[2] = Words[2+1]
      BY <2>3
    <2> QED BY <1>1, <2>1, <2>4, CommandWords
  <1>5. /\ Written(Words) = {Number(Words[2])} /\ WrittenValue(Words) = Number(Words[3])
    BY <1>1, <1>4, WrittenIs
  <1>6. memAddr \in [Address -> Byte]
    BY DEF ShellInv, MemoryInv, MemoryTypeOK
  <1>7. memAddr' = [memAddr EXCEPT ![Number(Words[2])] = Number(Words[3])]
    BY <1>2, <1>4
  <1> QED BY <1>5, <1>6, <1>7 DEF Applies

\* fill does what its line says.
LEMMA FillApplies ==
  ASSUME ShellInv, ShellSplit, RunFill PROVE Applies(Words, memAddr, memAddr')
  <1>1. IsCommand /\ Command = "fill" /\ FillError(Args) = "ok"
    BY DEF RunFill, IsRightly, Fill
  <1>2. memAddr' = Filled(Number(Args[1]), Number(Args[2]), Number(Args[3]))
    BY DEF RunFill, Fill
  <1>3. Len(Args) = 3
    BY <1>1 DEF FillError
  <1>4. /\ Words # <<>> /\ Command = Func(Words[1])
        /\ Args[1] = Words[2] /\ Args[2] = Words[3] /\ Args[3] = Words[4]
    <2>1. /\ Words # <<>> /\ Len(Words) \in Nat /\ Len(Args) = Len(Words) - 1
          /\ \A k \in 1..Len(Words)-1 : Args[k] = Words[k+1]
      BY <1>1, CommandWords
    <2>2. Len(Words) - 1 = 3
      BY <1>3, <2>1
    <2>3. \A k \in 1..3 : Args[k] = Words[k+1]
      BY <2>1, <2>2, Zenon
    <2>4. Args[1] = Words[1+1] /\ Args[2] = Words[2+1] /\ Args[3] = Words[3+1]
      BY <2>3
    <2> QED BY <1>1, <2>1, <2>4, CommandWords
  <1>5. /\ Written(Words) = Number(Words[2])..Number(Words[3])
        /\ WrittenValue(Words) = Number(Words[4])
    BY <1>1, <1>4, WrittenIs
  <1>7. memAddr' = Filled(Number(Words[2]), Number(Words[3]), Number(Words[4]))
    BY <1>2, <1>4
  <1> QED BY <1>5, <1>7, Zenon DEF Applies, Filled

\* reset does what its line says.
LEMMA ResetApplies ==
  ASSUME ShellInv, ShellSplit, RunReset PROVE Applies(Words, memAddr, memAddr')
  <1>1. IsCommand /\ Command = "reset" /\ memAddr' = [a \in Address |-> 0]
    BY DEF RunReset, IsRightly, Reset
  <1>2. Written(Words) = Address /\ WrittenValue(Words) = 0
    BY <1>1, CommandWords, WrittenIs
  <1> QED BY <1>1, <1>2 DEF Applies

\* The other commands say nothing of the memory.
LEMMA OthersApply ==
  ASSUME ShellInv, ShellSplit, IsCommand, Command \notin {"edit", "fill", "reset"},
         memAddr' = memAddr
  PROVE  Applies(Words, memAddr, memAddr')
  <1>1. Written(Words) = {}
    BY CommandWords, WrittenIs
  <1> QED BY <1>1 DEF Applies

\* A step that leaves no command unrecorded keeps history and memory, or adds
\* to the one what it does to the other.
LEMMA CommandApplies ==
  ASSUME ShellInv, ShellSplit, [ShellNext]_shellVars
  PROVE  \/ UNCHANGED <<memAddr, history, unrecorded>>
         \/ unrecorded' = TRUE
         \/ /\ unrecorded' = unrecorded /\ history' = Append(history, input)
            /\ Applies(CommandOf(input).words, memAddr, memAddr')
  <1>1. ASSUME RecordRun, IsCommand, Applies(Words, memAddr, memAddr')
        PROVE  \/ unrecorded' = TRUE
               \/ /\ unrecorded' = unrecorded /\ history' = Append(history, input)
                  /\ Applies(CommandOf(input).words, memAddr, memAddr')
    <2>1. CommandOf(input).words = Words
      BY <1>1, CommandWords
    <2>2. history' = history \/ history' = Append(history, input)
      BY <1>1, RecordedRun DEF RecordRun
    <2>3. unrecorded' = (unrecorded \/ history' = history)
      BY <1>1 DEF RecordRun
    <2>4. unrecorded \in BOOLEAN
      BY DEF ShellInv, ShellTypeOK
    <2> QED BY <1>1, <2>1, <2>2, <2>3, <2>4, Zenon
  <1>2. CASE RunEdit
    BY <1>1, <1>2, EditApplies DEF RunEdit, IsRightly
  <1>3. CASE RunFill
    BY <1>1, <1>3, FillApplies DEF RunFill, IsRightly
  <1>4. CASE RunReset
    BY <1>1, <1>4, ResetApplies DEF RunReset, IsRightly
  <1>5. CASE RunDump
    <2>1. IsCommand /\ Command = "dump" /\ memAddr' = memAddr /\ RecordRun
      BY <1>5 DEF RunDump, IsRightly, DumpNext, DumpFrom, DumpRange, dumpMemory
    <2> QED BY <1>1, <2>1, OthersApply
  <1>6. CASE RunPrinting
    <2>1. IsCommand /\ Command \notin {"edit", "fill", "reset"} /\ memAddr' = memAddr /\ RecordRun
      BY <1>6 DEF RunPrinting, IsRightly, memoryVars
    <2> QED BY <1>1, <2>1, OthersApply
  <1>7. CASE RunQuit
    <2>1. IsCommand /\ Command = "quit" /\ memAddr' = memAddr /\ RecordRun
      BY <1>7 DEF RunQuit, IsRightly, memoryVars
    <2> QED BY <1>1, <2>1, OthersApply
  <1>8. CASE LoadOpcode \/ LoadOverruns \/ Loaded \/ Parsing \/ NotACommand \/ FlushDone \/ FlushMore
    BY <1>8, Zenon DEF LoadOpcode, LoadOverruns, Loaded, Parsing, NotACommand, FlushDone, FlushMore,
       contextVars, memoryVars
  <1>9. CASE UnknownCommand \/ WrongArguments \/ CommandFails
    BY <1>9, Zenon DEF UnknownCommand, WrongArguments, CommandFails, contextVars, memoryVars
  <1>10. CASE LoadFails \/ ReadLine \/ ReadRest \/ ReadNothing
    BY <1>10, Zenon DEF LoadFails, ReadLine, ReadRest, ReadNothing, ReadPiece, contextVars,
       memoryVars
  <1>11. CASE UNCHANGED shellVars
    BY <1>11 DEF shellVars, contextVars, memoryVars
  <1> QED BY <1>2, <1>3, <1>4, <1>5, <1>6, <1>7, <1>8, <1>9, <1>10, <1>11, Zenon
          DEF ShellNext, Work, Execute

-----------------------------------------------------------------------------
\* The entries of a history that write an address, and what they explain.
WordsOf(line) == CommandOf(line).words
Writers(entries, a) == {k \in DOMAIN entries : a \in Written(WordsOf(entries[k]))}
Explained(entries, mem) ==
  \A a \in Address : Writers(entries, a) # {} =>
    mem[a] = WrittenValue(WordsOf(entries[Max(Writers(entries, a))]))

\* The property, by the history and the memory it is about.
LEMMA ExplainedIs == HistoryExplainsMemory <=> (~unrecorded => Explained(history, memAddr))
  BY DEF HistoryExplainsMemory, Explained, Writers, WordsOf

\* One more line explains what it has written, and leaves the rest explained.
LEMMA OneMoreLine ==
  ASSUME NEW entries \in Seq(Seq(Char)), NEW line \in Seq(Char), NEW mem, NEW new,
         Explained(entries, mem), Applies(WordsOf(line), mem, new)
  PROVE  Explained(Append(entries, line), new)
  <1> DEFINE n == Len(entries)
             more == Append(entries, line)
  <1>1. /\ n \in Nat /\ DOMAIN entries = 1..n /\ DOMAIN more = 1..n+1
        /\ more[n+1] = line /\ \A k \in 1..n : more[k] = entries[k]
    BY LenProperties, AppendProperties
  <1> HIDE DEF n, more
  <1> SUFFICES ASSUME NEW a \in Address, Writers(more, a) # {}
               PROVE  new[a] = WrittenValue(WordsOf(more[Max(Writers(more, a))]))
    BY Zenon DEF Explained, more
  <1>2. CASE a \in Written(WordsOf(line))
    <2>1. n + 1 \in Writers(more, a)
      BY <1>1, <1>2 DEF Writers
    <2>2. Writers(more, a) \in SUBSET (0..n+1) /\ \A k \in Writers(more, a) : k <= n + 1
      BY <1>1 DEF Writers
    <2>3. n + 1 \in Nat
      BY <1>1
    <2>4. Max(Writers(more, a)) = n + 1
      BY <2>1, <2>2, <2>3, MaxIs
    <2>5. new[a] = WrittenValue(WordsOf(line))
      BY <1>2, Zenon DEF Applies
    <2> QED BY <1>1, <2>4, <2>5
  <1>3. CASE a \notin Written(WordsOf(line))
    <2>1. Writers(more, a) = Writers(entries, a)
      <3>1. \A k \in 1..n+1 : k \in 1..n \/ k = n + 1
        BY <1>1
      <3>2. \A k \in 1..n : k \in 1..n+1
        BY <1>1
      <3>3. ASSUME NEW k PROVE k \in Writers(more, a) <=> k \in Writers(entries, a)
        BY <1>1, <1>3, <3>1, <3>2, Zenon DEF Writers
      <3> QED BY <3>3
    <2> DEFINE m == Max(Writers(entries, a))
    <2>2. Writers(entries, a) \in SUBSET (0..n)
      BY <1>1 DEF Writers
    <2>3. m \in Writers(entries, a)
      BY <1>1, <2>1, <2>2, MaxOf
    <2>4. m \in 1..n
      BY <1>1, <2>3 DEF Writers
    <2>5. mem[a] = WrittenValue(WordsOf(entries[m]))
      BY <2>3, Zenon DEF Explained
    <2>6. new[a] = mem[a]
      BY <1>3, Zenon DEF Applies
    <2> QED BY <1>1, <2>1, <2>4, <2>5, <2>6, Zenon
  <1> QED BY <1>2, <1>3

(* A byte of the memory has the value the last command of the history that   *)
(* writes it gave it, as its line is to be read, as long as every command    *)
(* was recorded (history.c:20, commands.c:101).                              *)
THEOREM HistoryExplains == ShellSpec => []HistoryExplainsMemory
  <1>1. ShellInit => HistoryExplainsMemory
    <2> SUFFICES ASSUME ShellInit PROVE HistoryExplainsMemory
      OBVIOUS
    <2>1. \A a : Writers(history, a) = {}
      BY DEF ShellInit, Writers
    <2> QED BY <2>1, ExplainedIs DEF Explained
  <1>2. ShellInv /\ ShellSplit /\ HistoryExplainsMemory /\ [ShellNext]_shellVars
          => HistoryExplainsMemory'
    <2> SUFFICES ASSUME ShellInv, ShellSplit, HistoryExplainsMemory, [ShellNext]_shellVars
                 PROVE  HistoryExplainsMemory'
      OBVIOUS
    <2>1. (HistoryExplainsMemory <=> (~unrecorded => Explained(history, memAddr)))'
      BY ExplainedIs, PTL
    <2>2. Explained(history, memAddr)' <=> Explained(history', memAddr')
      BY DEF Explained, Writers, WordsOf
    <2>3. CASE UNCHANGED <<memAddr, history, unrecorded>>
      BY <2>1, <2>2, <2>3, ExplainedIs, Zenon
    <2>4. CASE unrecorded' = TRUE
      BY <2>1, <2>4
    <2>5. CASE /\ unrecorded' = unrecorded /\ history' = Append(history, input)
               /\ Applies(CommandOf(input).words, memAddr, memAddr')
      <3>1. ASSUME ~unrecorded PROVE Explained(history', memAddr')
        <4>1. history \in Seq(Seq(Char)) /\ input \in Seq(Char)
          BY DEF ShellInv, ShellTypeOK
        <4>2. Explained(history, memAddr)
          BY <3>1, ExplainedIs
        <4> QED BY <2>5, <4>1, <4>2, OneMoreLine DEF WordsOf
      <3> QED BY <2>1, <2>2, <2>5, <3>1
    <2> QED BY <2>3, <2>4, <2>5, CommandApplies
  <1> QED BY <1>1, <1>2, ShellInvariant, ShellSplitInvariant, PTL DEF ShellSpec
==============================================================================
