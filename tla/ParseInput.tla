----------------------------- MODULE ParseInput -----------------------------
(* parseInput of parse.c: a line is split into the strings of argv, which    *)
(* are copied one behind the other into one buffer.  An action is the part   *)
(* before the loop (ParseName and its error exits) or one iteration of it.   *)
(* Positions count from 1; At(k) is the terminating NUL behind the line.     *)
EXTENDS CommandLine

CONSTANTS
  Char,           \* what a line may hold
  Inputs,         \* the lines to be parsed
  ARGC_RESERVE,   \* pointers argv has room for, and grows by (6)
  PTR_SIZE,       \* bytes of a pointer (8)
  AllocMayFail

ASSUME ParseAssumption ==
  /\ ARGC_RESERVE \in Nat \ {0} /\ PTR_SIZE \in Nat \ {0}
  /\ AllocMayFail \in BOOLEAN
  /\ NUL \notin Char /\ \A text \in Inputs : text \in Seq(Char)
  /\ Lower \cap (Blank \cup {",", NUL}) = {}

VARIABLES
  input,          \* rawCmd
  pos,            \* i, where the next argument starts
  buffer,         \* what has been written to the buffer
  argv,           \* where the strings start in it
  argcReserve,    \* pointers argv is believed to have room for
  argvBytes,      \* bytes argv has
  parse           \* what is parsed next, or the result

parseVars == <<input, pos, buffer, argv, argcReserve, argvBytes, parse>>

Refusals == {"NOT_LOWERCASE", "INVALID_DELIMITER", "ALLOCATION_ERROR"}
Results == Refusals \cup {"ok", "COMMAND_EMPTY"}

\* Both arrays are allocated when the line is found not to be blank.
ParseInit ==
  /\ input \in Inputs /\ pos = 1 /\ buffer = <<>> /\ argv = <<>>
  /\ argcReserve = ARGC_RESERVE /\ argvBytes = ARGC_RESERVE * PTR_SIZE
  /\ parse = "name"

\* parseInput is called with this line.
BeginParse(text) ==
  /\ input' = text /\ pos' = 1 /\ buffer' = <<>> /\ argv' = <<>>
  /\ argcReserve' = ARGC_RESERVE /\ argvBytes' = ARGC_RESERVE * PTR_SIZE
  /\ parse' = "name"

-----------------------------------------------------------------------------
At(k) == CharAt(input, k)
NextIn(k, chars) == FirstIn(input, k, chars)
JumpBlank(k) == Behind(input, k)

\* Mutation of WordEnd: an argument ends at a blank only.
WordEndAtBlank(k) == NextIn(k, Blank)

WordEnd(k) == NextIn(k, Blank \cup {","})

Cleanup(errCode) ==
  /\ parse' = errCode /\ buffer' = <<>> /\ argv' = <<>>
  /\ UNCHANGED <<input, pos, argcReserve, argvBytes>>

\* argv grows by ARGC_RESERVE pointers, but realloc is given their number.
Full == Len(argv) + 1 > argcReserve
NewReserve == IF Full THEN argcReserve + ARGC_RESERVE ELSE argcReserve
NewBytes == IF Full THEN NewReserve ELSE argvBytes

\* Mutation of Saved: the argument is terminated by saveToBuffer and its caller.
SavedTwiceTerminated(start, end) ==
  buffer \o SubSeq(input, start, end - 1) \o <<NUL, NUL>>

\* saveToBuffer copies the argument and terminates it.
Saved(start, end) == buffer \o SubSeq(input, start, end - 1) \o <<NUL>>

Store(start, end, next, state) ==
  /\ (Len(argv) + 1) * PTR_SIZE <= NewBytes
  /\ buffer' = Saved(start, end)
  /\ argv' = Append(argv, Len(buffer) + 1)
  /\ argcReserve' = NewReserve /\ argvBytes' = NewBytes
  /\ pos' = next /\ parse' = state
  /\ UNCHANGED input

\* The pointer is written behind the end of argv, or to a null argv.
StoreOutside ==
  /\ \/ (Len(argv) + 1) * PTR_SIZE > NewBytes
     \/ Full /\ AllocMayFail
  /\ parse' = "undefined"
  /\ UNCHANGED <<input, pos, buffer, argv, argcReserve, argvBytes>>

-----------------------------------------------------------------------------
Start == JumpBlank(1)
End == NextIn(Start, Blank)
AfterName == JumpBlank(End)

EmptyInput ==
  /\ parse = "name" /\ At(Start) = NUL
  /\ parse' = "COMMAND_EMPTY"
  /\ UNCHANGED <<input, pos, buffer, argv, argcReserve, argvBytes>>

NoMemory == AllocMayFail /\ parse = "name" /\ At(Start) # NUL /\ Cleanup("ALLOCATION_ERROR")

NamedInLowercase ==
  parse = "name" /\ At(Start) # NUL /\ \A k \in Start..End-1 : input[k] \in Lower

NotLowercase ==
  /\ parse = "name" /\ At(Start) # NUL
  /\ \E k \in Start..End-1 : input[k] \notin Lower
  /\ Cleanup("NOT_LOWERCASE")

\* The name, and whether an argument follows it.
ParseName ==
  /\ NamedInLowercase
  /\ \/ At(AfterName) = NUL /\ Store(Start, End, AfterName, "ok")
     \/ At(AfterName) = "," /\ Cleanup("INVALID_DELIMITER")
     \/ At(AfterName) \notin {NUL, ","} /\ Store(Start, End, AfterName, "arguments")

-----------------------------------------------------------------------------
Delimiter == JumpBlank(WordEnd(pos))
NextArgument == JumpBlank(Delimiter + 1)

\* Behind the argument there is something else than a comma or the end.
DelimiterMissing == At(Delimiter) \notin {NUL, ","}

\* Behind the comma there is no argument.
DelimiterDangling == At(Delimiter) = "," /\ At(NextArgument) \in {NUL, ","}

BadDelimiter ==
  /\ parse = "arguments"
  /\ DelimiterMissing \/ DelimiterDangling
  /\ Cleanup("INVALID_DELIMITER")

\* The argument is stored once what follows it is known to be right.
ParseArgument ==
  /\ parse = "arguments" /\ ~DelimiterMissing /\ ~DelimiterDangling
  /\ \/ At(Delimiter) = NUL /\ Store(pos, WordEnd(pos), Delimiter, "ok")
     \/ At(Delimiter) = "," /\ Store(pos, WordEnd(pos), NextArgument, "arguments")

ArgumentOutside ==
  /\ parse = "arguments" /\ ~DelimiterMissing /\ ~DelimiterDangling
  /\ StoreOutside

ParseNext ==
  \/ EmptyInput \/ NoMemory \/ NotLowercase \/ ParseName
  \/ BadDelimiter \/ ParseArgument \/ ArgumentOutside

ParseSpec == ParseInit /\ [][ParseNext]_parseVars

-----------------------------------------------------------------------------
\* A string of argv, as its readers see it: up to the NUL.
CString(start) ==
  SubSeq(buffer, start, Min({k \in start..Len(buffer) : buffer[k] = NUL}) - 1)
Words == [k \in DOMAIN argv |-> CString(argv[k])]

\* The parser's variables have their types.
ParseTypeOK ==
  /\ input \in Seq(Char) /\ pos \in 1..Len(input)+1
  /\ buffer \in Seq(Char \cup {NUL}) /\ argv \in Seq(1..Len(input)+1)
  /\ argcReserve \in Nat /\ argvBytes \in Nat
  /\ parse \in Results \cup {"name", "arguments", "undefined"}

(* The buffer is allocated with the length of the line and one byte more,    *)
(* before anyone knows how many arguments there are: however the line is     *)
(* split, the arguments with their NULs are never written beyond it.         *)
BufferFits == Len(buffer) <= Len(input) + 1

(* The walk through the line accepts what CommandOf accepts, for the same    *)
(* reason it refuses the rest, and the strings its callers read from the     *)
(* shared buffer are the words of the line.                                  *)
SplitsAsMeant ==
  parse \in Results \ {"ALLOCATION_ERROR"} =>
    Meaning(parse, Words) = CommandOf(input)

(* argv has room for every argument of a line when memory does not run out,  *)
(* as the growing of argv (parse.c:117) is there to ensure.                  *)
ArgvGrows == ~AllocMayFail => parse # "undefined"
=============================================================================
