# A TLA+ model of the SIC/XE shell and assembler

The program is an interactive shell (`20131604.c`) for a SIC/XE simulator: it
dumps and edits a simulated memory, looks opcodes up, keeps a history, and,
which is most of its logic, assembles SIC/XE source files in two passes.  This
project models all of it but the two commands that only list and print files,
has TLC check the models on small instances, and proves with TLAPS that the
safety properties hold of every instance.

## The system

| part | source | state | operations |
|---|---|---|---|
| pass 1 | `assemble_pass1.c` | location counter, line number, statement vector, symbol table | one loop iteration per source line, the closing dummy, the error exit |
| pass 2 | `assemble_pass2.c` | `AssembleState`: addresses, flags, `objcodeBuf`, the delayed text record, modification records | one loop iteration per statement, header, end |
| `assemble()` | `assemble.c` | the statement vector | pass 1, then pass 2 if it returned 0 |
| scanner | `assemble_types.c`, `assemble_matchers.c`, `util.c` | none | a line is split into label, mnemonic and operand tokens, an operand into items |
| symbol table | `symtab.c` on `util.c` | buckets of chains | find, add, empty, print |
| statement vector | `util.c` | array, size, capacity | push (grows), cleanup |
| opcode table | `opcode.c` | buckets of chains | load, find, print |
| assemble command | `cmd_assemble.c` | a source file and the two outputs named after it | open, assemble, remove the outputs of a failure |
| shell loop | `20131604.c` | input line, standard input | read, parse, execute, flush |
| command parser | `parse.c` | argv, buffer | split, release |
| dispatch, history | `execute.c`, `commands.c`, `history.c` | linked list | dispatch, record, print |
| memory | `memory.c`, `commands.c` | 1 MiB, start of next dump | dump, edit, fill, reset |
| shell context | `shell-context.c` | all that survives a command | create, release |
| `dir`, `type` | `dir.c`, `commands.c` | none (`type` leaves its stream open) | print |

The program is one thread.  The parts meet in shared state: pass 1 leaves the
statement vector and the symbol table to pass 2; the symbol table lives in the
shell context, so that the next `assemble` finds it and the `symbol` command
prints it; pass 2 delays object code in `objcodeBuf` and `textRecBuf` and writes
it when a *later* statement ends the record; the input buffer of the main loop is
read by the parser, recorded by the history, and reused to throw the rest of a
long line away.  The hard behaviours are therefore not interleavings of threads
but

- two passes that must agree on the address and the size of every statement;
- the delayed text record, which ends by a flag of a later statement, by its
  length, or not at all;
- state that outlives a statement (`BASE_AVAILABLE`, `firstInstruction`,
  `objcodeLen`, the digits in `objcodeBuf`) or a command (the symbol table, the
  files on disk, the start of the next dump, the input buffer itself);
- numbers cut from long to int, products that overflow, displacements and ranges
  at their ends, arrays that grow by the wrong number of bytes;
- a text walked through by several functions that look ahead over blanks and
  commas, each with its own idea of what a separator is;
- input that comes in pieces of 256 characters, may end anywhere, and is
  consumed by two places of the loop;
- an allocation that fails between two steps, and cleanup after it;
- a file read by words where its author thinks of lines (`opcode.txt`), and one
  read until `feof` whatever else may happen to it (the source);
- termination of the loops.

`PROJECT.json` lists each of these hazards at its line.

## The modules

| module | models | how its state corresponds to the code |
|---|---|---|
| `AsmDefs` | tokens, numbers, opcode kinds | `Line`: a line after `readStatement`; `Operand`: an operand token with prefix (`#`, `@`), first item, item after the comma, and text after the literal's quote |
| `Pass1` | `assemble_pass1.c` | `loc`, `lineNo`, `symtab`, `stVec` as there; `rsize` is `_rsize`; one action per kind of line |
| `Pass2` | `assemble_pass2.c` | fields of `AssembleState` under their names; `baseAvailable` is the flag; `objOut`, `lstOut` are the files as sequences of records |
| `Assemble` | `assemble()` | both passes and the properties that relate them |
| `Loader` | (abstract) | what an object file promises: a memory image that grows one piece of code at a time and never overwrites a byte |
| `HashTable` | `symtab.c` | `buckets[h]` is the chain of bucket `h`, first node first |
| `SymMap` | (abstract) | what a symbol table promises: a map in which a name is defined once |
| `AsmCommand` | `cmd_assemble.c` | `Assemble`, begun again by each command on the table the last one left; `lstFile[f]` and `objFile[f]` are the outputs of source `f`, as the number of the command that wrote them; `tableNo` and `tableFile` remember whose labels the table holds |
| `Text` | `jumpBlank` and its like in `util.c` | a C string read at a position, NUL behind its last character; and, for the properties, what a text cut at its commas is |
| `CommandLine` | (abstract) | what a command line means, defined over the whole line |
| `ParseInput` | `parse.c` | `pos` is `i`; `buffer` is what has been written to the shared buffer, `argv` where its strings start; `argvBytes` are the bytes `argv` really has, `argcReserve` the pointers it is believed to hold |
| `Memory` | `memory.c` and the memory commands of `commands.c` | `memAddr`, `memIdx` as there; `screen` is the last dump, row by row |
| `ByteArray` | (abstract) | what the memory commands promise: an array set a range at a time and shown as it is |
| `OpcodeTable` | `opcode.c` | `opcodeTable[h]` is the chain of bucket `h`; `opcodeFile` is the file as `fscanf` reads it, words in lines; `opcodeNext` is the word read next |
| `Shell` | `20131604.c`, `execute.c`, `history.c`, the dispatch of `commands.c` | `input` is the line buffer, `rest` what stdin still holds of the line, `history` the list, `exitFlag` what the command returned; `phase` is where `main` is |
| `Scanner` | `getTokenSize` and `findToken` (`util.c`), called by `createToken` (`assemble_types.c`) and `processOpcode` (`assemble_pass2.c`) | `at` is where the scan stands, `next` where `findToken` is called next |
| `Literal` | the literal matchers, `BYTE` in both passes, `printTextRec`'s digits | `objcodeBuf[w]` is a word as its hexadecimal digits, most significant first; `shifted` is `i` |
| `MC...` | | instances for TLC |
| `Lemmas` | | facts about numbers, sequences and texts that the proofs share |
| `AssembleProofs`, `CodeProofs`, `OutputProofs`, `CommandProofs`, `HashTableProofs`, `ShellProofs`, `LiteralProofs` | | theorems |

    Pass1 -> Pass2 -> Assemble -> AsmCommand           Assemble  instantiates Loader
    Text -> CommandLine -> ParseInput -> Shell         HashTable instantiates SymMap
    Memory, OpcodeTable -----------------^             Shell     instantiates ByteArray
    CommandLine -> Scanner -> Literal
    Assemble -> AssembleProofs -> CodeProofs -> OutputProofs
    Shell -> ShellProofs, Literal -> LiteralProofs; both and AssembleProofs take Lemmas

An arrow is EXTENDS, "instantiates" is INSTANCE with a refinement mapping.
`Assemble` uses a function for the symbol table where the code has the hash
table: that is what `HashTable` is proved to implement.  To `Assemble` a source
line is a record of tokens, which `Scanner` and `Literal` show to be what the
characters of the line say; the opcode table is a constant, since nothing
changes it once `OpcodeTable` has loaded it.  To `Shell` the `assemble` command
succeeds or fails, and `AsmCommand` has the rest.

An action is a whole loop iteration or a whole handler.  `Pass1!Byte`, for
instance, is lines 105-155 and also everything behind the label
`nextIteration`: the test of `LOC_MAX`, the label, the push, the end of the
loop.  `Pass2!PrintCode` is `printLst` and `printTextRec` together, which every
statement runs.  `Shell!RunFill` is the command with its argument tests, its
return through `executeCommand`, the history and the release of the arguments.
The flags of pass 2 that live for one statement only (`NO_OBJECT_CODE`,
`FLUSH_OBJRECORD`, `FORMAT4_MODIFICATION_RECORD`, `PROCESS_COMPLETE`) are the
parameters and the choice between `PrintNoCode` and `PrintCode`: nothing of them
can be stale, since `assemble_pass2.c:82` clears every flag but
`BASE_AVAILABLE` before each statement, and only that one is a variable.

Abstractions of the assembler:

- The source file is the environment.  Each iteration reads any line of `Lines`
  and may find the end of the file behind it, so that one run checks every
  program over its set of lines.  `MaxLines` is a bound of the model: at the last
  line the file ends (`MayEnd`), or, when `ReadMayFail`, reading has failed
  before it, which gives the pass one empty line after another and no end.
- A name, a register or a mnemonic is a string compared as a whole; a label is
  good or in `BadNames`; a literal is its number of characters (its characters
  are the subject of `Literal`).
- A piece of code is its opcode's name, its bits and its field, not hexadecimal
  digits.  A negative displacement that the code or-s over the opcode (a
  constant that wrapped in the int) is `AllOnes`.
- Messages, columns, the layout of the listing (with `SKIP_LOC_PRINT`) and the
  program name in the header are left out.
- The machine's integers keep their width: `ToInt` is strtol with saturation at
  a long, stored in an int; `3*size` wraps (the Makefile builds without
  optimisation, so that the overflow wraps).

Abstractions of the shell and the scanner:

- A line is a sequence of characters over a small alphabet: a letter a name may
  have, one it may not, a blank, the delimiter, the quote.  A newline is a blank
  to the parser, as it is to `isspace`.  Strings and buffers are read and
  written character by character, since where they end is what the properties
  are about.
- The user is the environment: any line of `Inputs`, any number of them up to
  `MaxReads` reads, with the end of the input anywhere, also in a line.
- `opcode.txt` is a sequence of words, each with what `%x`, `%s` and `%d` make
  of it: a number and what is left of the word behind it, a text, a number.
- What malloc finds in the memory is any element of `Garbage`; what an earlier
  statement left in `objcodeBuf` is any digit of `Stale`.
- `RADIX` and `BYTE_MAX` are constants so that numbers have few digits.
- Commands that only print change nothing but the history; what `dump` prints is
  `screen`, without the column of characters.
- A character beyond ASCII is a negative `char`, as on the machine the Makefile
  builds for.

An allocation may fail when `AllocMayFail`.  Where the code then dereferences a
null pointer, frees what was never initialized, or writes past an array, the
phase (`parse` or `scan`) is `undefined`.  An address of -1 marks END, as in the
code, and a statement with line number 0 is the dummy pass 1 appends.

### Variants of definitions

A definition whose comment begins with *Mutation of* is not part of the model:
it is the definition of that name with a plausible bug in it.  Put in its place
it makes the run named in `PROJECT.json` fail, which shows that the property
says something about the code.

## The runs

The instance for the assembler has records of 6 bytes (the code has 30),
addresses up to 20, displacements of 3 bits (`PC_RANGE` 4), an int of 7 bits, a
vector that grows at the third statement and a modification vector that grows
at the second record.  So 3 to 5 lines, among them instructions of 1 to 4
bytes, literals and storage, reach every limit from both sides: a record filled
exactly or overfilled by one, an address at and behind `LOC_MAX`, a symbol at and
beyond both ends of the displacement, a full vector.  `MaxLines` bounds the
file; every bug found, and every mutation, shows within 4 lines or fewer.

| run | instance | checks | shows |
|---|---|---|---|
| `layout` | 16 kinds of line, 4 lines | `TypeOK`, `AddressesAdvance`, `TextRecordsFit`, `RecordsContiguous`, `ImageIsListing`, `CodeInsideProgram`, `LeavesBuffersByTail`, `LoadsOnce`, `Terminates` | statements lie as far apart as they declare; records have no gap inside and state their length; the object file holds the listed code, once, in order, inside the program; it loads without overlap; a buffer is left for one reason only, text behind a literal that fills its record; the assembly ends |
| `address` | 10 kinds, 5 lines | `SymbolsAreStatementAddresses`, `SymbolsResolve`, `ModificationsComplete`, `StartsElsewhere` | what the machine computes from an encoded reference is the address of the label's statement; a BASE holds until NOBASE or the next BASE; exactly the absolute addresses are relocated; END without an operand names the first instruction that is not at the start address |
| `refused` | 47 kinds, 3 lines, any allocation and any read may fail | `AddressesInRange`, `FailedPass1LeavesNoSymbols`, `OperandsReadBack` | each test of either pass refuses what it must, and the lines it lets through are encoded as written |
| `hashtable` | 4 names, 3 of them in one of 2 buckets | `TypeOK`, `WellFormed`, `ImplementsMap` | the chains implement the map |
| `command` | 8 kinds, 4 lines, 3 commands on 2 source files, any allocation may fail | `CommandTypeOK`, `SymbolsAreOfOutputs`, `TableOfThisProgram`, `FailureLeavesNothing`, `CommandReturns` | the complete outputs of each file are of one assembly of it, and those of the file assembled last have the addresses the table has; no label of an earlier program is used; a failed assembly leaves no output |
| `parse` | every line of up to 7 characters of 4 kinds, room for 3 pointers | `BufferFits`, `SplitsAsMeant` | the parser's walk accepts and refuses what the definition does, hands on the words of the line, and never leaves its buffer |
| `shell` | 23 lines, 3 reads, 2 files of opcodes; 4 bytes of memory, rows of 2, a window of 3, an input buffer of 9 characters | `ShellTypeOK`, `FirstDefinitionCounts`, `HistoryExplainsMemory`, `MemoryIsArray`, `DumpsContinue`, `HistoryRecordsRuns`, `PromptReturns`, `QuitEnds` | memory, history and the start of the next dump follow the commands that ran, and only them; the loop comes back to its prompt |
| `literal` | operands of every shape up to 7 characters, literals up to beyond a record of 3 bytes, words of 2 bytes | `TokenAsMeant`, `ItemsAsMeant`, `LengthsAgree`, `CodeIsLiteral`, `LiteralEnds` | tokens and items end where the line says; both passes give a literal the same length; its digits are printed whatever the buffer held |

Properties about addresses are stated for `PlainProgram`s: numbers an int holds,
threefold too, and literals with nothing behind the quote.  What the code does
to the others is modelled and described below; `TextRecordsFit`,
`ImageIsListing`, `SymbolsAreStatementAddresses` and `Terminates` hold for them
as well.  `RecordsContiguous` and `LeavesBuffersByTail` are stated for assemblies in which
memory does not run out, see below for those in which it does.
`LeavesBuffersByTail` is checked with literals as long as a record and with text
behind them, among them one that fits its record by itself and not with that
text: pass 1 accepts it, pass 2 writes beyond its buffers, and the property says
that this is the only way they are left.

`StartsElsewhere` states what the code computes, which is not what its
declaration says (`assemble_types.h:42`, "the address of the program's first
instruction"): the first instruction is passed over when it is at the start
address, where a program most often has it, because that address is also the
value `firstInstruction` begins with.  The property is exact, so that it
separates this code from one with either meaning.

`ImageIsListing`, `RecordsContiguous` and `LoadsOnce` count the record that is
still in `textRecBuf` as written: whether it ever is, is the question of
`v_lastrecord`.  `SymbolsResolve` leaves out the instruction before END, the
subject of `v_beforeend`.

`SymbolsAreOfOutputs` says less of a file assembled earlier: its listing and
object file stay as they are when another file is assembled, and the table then
has the other's symbols, so that only the outputs of `tableFile` are compared
with it.

The bounds of the shell: seven characters hold a name and three arguments, one
more than argv has room for in `parse`, with blanks and commas on every side of
them.  The memory ends inside a row and inside a window, so that a dump that
reaches the end, stops before it and wraps around all happen within three reads;
a buffer of 9 characters is one the lines of `shell` fill exactly, overfill by a
command of their own, and overfill several times over; `quit` comes short, long
and among blanks.  A byte of the opcode table has 16 values and a mnemonic three
characters, and the files have numbers and names beyond both, a mnemonic defined
twice, a line without its format and a last line that is no entry.  Two words for three
bytes make the last word of a literal a partial one.

`HistoryExplainsMemory` compares the memory with what the recorded lines *mean*
by `CommandLine`, not with what the parser made of them: it relates parser,
dispatch, argument tests, memory and history.

### Runs that find the code at odds with its documents

| run | property | what the code does |
|---|---|---|
| `v_lastrecord` | `LastRecordWritten` | only END, RESB, RESW or a full record writes the delayed record: a program without END loses its last one |
| `v_beforeend` | `SymbolsResolveBeforeEnd` | `pcAddr` of the instruction before END is END's mark -1, from which its displacement is computed: behind `B FIX`, `LDA B` at the end of a program gets 1 in place of -4.  The property leaves out references to a label on END, whose address is -1 itself |
| `v_argv` | `ArgvGrows` | `argv` is reallocated with the number of its pointers in place of their bytes (`parse.c:178`): the seventh string is stored behind its end |
| `v_overlong` | `OnlyLinesRun` | `flushRestInput` is skipped when the parser refuses a line (`20131604.c:52`): what the line holds behind 256 characters is run as the next command |

Other behaviours the model follows and no run is spent on.  In the assembler:

- a size of 2^32 + 1 is cut to 1 and accepted (`assemble_pass1.c:74`); so is a
  RESW whose triple wraps (`:95`), and the location counter may then move
  backwards;
- a label on END gets the address -1, END's mark (`assemble_pass1.c:212`), and an
  extended reference to it sets all bits of the instruction;
- a read error is no end of the file to pass 1, which tests `feof` only (`:21`): given
  a directory named `x.asm`, it stores empty lines until memory runs out;
- a register is compared over the length of the token, so that P is PC
  (`assemble_pass2.c:23`);
- a 12-bit displacement in a format 4 instruction ends up in the upper bits of
  its field (`:375`);
- the count of SHIFTL and SHIFTR is read from the start of the operand, where
  the register is, so that every shift is refused (`:467`);
- pass 1 measures a literal up to the quote, pass 2 up to the end of the token:
  with a comma behind it (`C'A' ,B` is one token) the code may be longer than the
  buffer (`:171`), which is what `LeavesBuffersByTail` allows;
- an odd number of hexadecimal digits prints a digit that an earlier statement
  left (`:183`), and a character beyond ASCII sets all bits of its word above
  itself (`:173`);
- a literal that begins with a blank is refused (`assemble_matchers.c:44`);
- `createToken` fails without an error code (`assemble_types.c:29`): pass 1
  returns 0 without the dummy, and pass 2 drops the last line instead;
- when a modification record cannot be allocated the code of the instruction is
  lost, its record header may stand alone, and the assembly succeeds (`:526`,
  `:98`);
- a failure of pass 2 leaves the symbols of the failed program in the table; an
  output that could not be opened leaves the other one truncated.

In the shell:

- at the end of the input `fgets` fails, nobody looks, and the last line is
  executed again and again (`20131604.c:45`); a last line without a newline is
  executed, and `flushRestInput` then waits for ever for a newline (`:84`);
  before any line was read the buffer holds nothing that was ever written;
- the end of a dump may be followed by the next one at 0, and the memory is
  dumped before anyone has written to it (`shell-context.c:25`);
- `fscanf` looks for the three parts of an opcode across line ends
  (`opcode.c:65`): where a line lacks its format, the number of the next line is
  taken for it and the rest of that line thrown away; reading stops without a
  word where a part is missing, though a comment asks for two parts and the code
  for three (`:63`); the number is cut to a byte (`:72`); a mnemonic longer than 6
  characters is written beyond its array (`LoadOverruns`).

## Fairness

`Spec` has weak fairness of `Next`: the assembler is a loop that nothing
suspends, and each iteration waits for nothing but the source file, which is
finite (`MaxLines`).  `Terminates` and `CommandReturns` are stated for files that
can be read to their end (`~ReadMayFail`): with a read error the code does not
end, and there is nothing to claim.  `CommandSpec` has weak fairness of the steps of a command
that has begun, and none of beginning one: whether the user types another command
is up to the user.  `LiteralSpec` is a function that runs to its end, with weak
fairness of its next step; `ParseSpec` has no fairness, as no run asks it to
end: in the shell that is part of `PromptReturns`, under `ShellSpec`.  `ShellSpec` has weak fairness
of `Work`, what the shell does between two prompts, and none of reading: the user
need not type.

CHECK_DEADLOCK is off everywhere: assembling and parsing end, and no command
need be given.

## What is proved

Every safety property of the passing runs, among them the three refinements
(`ImplementsMap`, `LoadsOnce`, `MemoryIsArray`), for every value of the constants.

Several properties say what a whole sequence amounts to: the code of a listing,
the words of a line, the digits of a literal.  The prover has no induction over
data to offer, so the proofs bring their own: `MinOf`, in `Lemmas`, is the
well-foundedness of the numbers, which is stated of a relation and needs no
schema, and `SetInduction` and `UpTo` follow from it for *sets* of numbers.  That
a recursive function is there at all is then shown by building one step by step
(`JoinsExist`, `SplitsExist`), that it is the one that was meant by `JoinsOnce`
and its like; from there on `FlattenSeq` and `FieldsFrom` can be unfolded, at the
front and at the back.  The definitions use recursive functions, not operators,
for this reason.

`AssembleProofs`, from `RangeAssumption` (limits are positive, a record holds at
least one instruction, an int holds twice the largest address),
`OptabAssumption`, `LinesAssumption` and `LiteralsAssumption`:

- `TypeCorrect`: `Spec => []TypeOK`.
- `RecordsFit`: `Spec => []TextRecordsFit`, with any lines and any failing
  allocations.

`TextRecordsFit` is not inductive: that a record fits behind one more statement
needs to know how long the statement's code is, which depends on what pass 1
accepted, on the opcode table and on the statement being there at all.  The
invariant is

    Inv == TypeOK /\ StatementsOK /\ PositionOK /\ TextRecordsFit

`StatementsOK` says that the stored lines passed the tests of pass 1 (a
literal is one and fits a record, an instruction is known), `PositionOK` where
the passes stand in `stVec`.  `Pass1Cases` and `Pass2Cases` reduce every action
to one of a few effects (a line accepted at an address, refused, a statement
written with or without code), and the invariant is proved for each effect.

From the same assumptions, about pass 1:

- `AddressesStayInRange` and `AddressesAdvanceBySize`: of a plain program every
  address is in `0..LOC_MAX` and the next statement is as far away as the source
  declares.  The invariant `AddressInv` adds where the location counter stands
  (behind the last statement, or before the END that closed the loop) and that
  pass 1 counts its lines, so that only the first statement can be a START.
- `SymbolsKeepTheirStatements`, for assemblies in which memory does not run out:
  the table is that of the stored labels.  (When a Token cannot be allocated,
  the table is emptied and assembling goes on: the assumption is needed.)
- `FailureEmptiesTable`: a failed pass 1 leaves no symbol, whatever allocation
  failed.  Its invariant `SymbolInv` says that whoever leaves pass 1 has pushed
  the dummy or has emptied the table.

`CodeProofs`, about pass 2:

- `InstructionsReachSymbols`: `Spec => []SymbolsResolve`, for every program and
  every width of the displacement.  It needs three invariants: `FollowInv`, that
  what follows an instruction is at the end of it, also in programs whose
  numbers are not plain; `BaseKnown`, that a base register in use is that of the
  last BASE statement and no NOBASE is behind it (`BaseStep`, about
  `BaseInForce`); and
  `ListingInv`, that item i of the listing is statement i.  `SymbolEncoded` and
  `SignedBack` say that the field holds the distance and is read back with its
  sign.
- `CodeStaysInside`: `Spec => []CodeInsideProgram`.  `OrderInv` says that no two
  statements of a plain program overlap, not only neighbours, and that the last
  statement, from which the header takes the length, is never END.
- `InstructionsReadBack`: `Spec => []OperandsReadBack`, for every width of the
  displacement and of a register field that holds every register's number
  (`RegistersFit`).  Its lemmas take the summed fields of a format 2 and of a
  format 3/4 code apart again.
- `StartsPastStart`: `Spec => []StartsElsewhere`, without an assumption.  `EndInv`
  says that nothing but the dummy stands behind an END, and `StartInv` that
  `firstInstruction` is all along that of the first listed instruction away from
  the start address, or still that address, and `pcAddr` what END says once END
  is listed.

`OutputProofs`, about what pass 2 writes:

- `OnlyTailsOverrun`: `Spec => []LeavesBuffersByTail`, whatever the lines: a
  statement that overfills a record is a BYTE whose literal pass 1 let through
  without what stands behind its quote.  That no other line can do it takes the
  whole of `Inv`: every literal was measured, every instruction is known, and
  pass 2 finds a statement behind each it works on.
- `RecordsHaveNoGap`: `Spec => []RecordsContiguous`, when memory does not run
  out.  A record is flushed one statement after the one that made it end, so
  `RecordInv` says where the delayed record ends: where the statement at hand
  begins, unless that is an END (`Filling`).
- `ImageIsThatOfTheListing`: `Spec => []ImageIsListing`, when memory does not run
  out.  `Written = Listed` equates two flattened sequences; `ImageInv` adds what
  a flush relies on: the buffer is empty when its length says so, nothing waits
  behind an END, and the last statement is the dummy, never an END.
- `EveryAddressIsModified`: `Spec => []ModificationsComplete`, when memory does
  not run out.  The vector of addresses grows with the listing
  (`ModificationInv`), and `CodeInv` says that item i is statement i.
- `ImageGrowsOnce`: `Spec => LoadsOnce`, the refinement of `Loader`, when memory
  does not run out.  Each step of pass 2 loads the cells of one item of the
  listing, or none, although the code moves from the buffer to a record only
  later (`LoadedCode` counts the buffer); that the cells are free is `OrderInv`:
  the statements of a plain program do not overlap.  `LoadInv` says how records
  and their headers alternate and that what is loaded comes from the listing.

`CommandProofs`, with `CommandAssumption` added, about any number of commands:
`CommandTypeCorrect`, `OutputsBelongTogether`, `TableIsOfThisProgram`,
`FailedCommandCleansUp`.  The invariant `CommandInv` has two cases.  At the
prompt the assembler's locals are those of no call, so that `Inv` holds of them
while the table is what an earlier command left; a command at work owns the
table (`tableNo = cmdNo`, `tableFile = file`), every entry is the address of a statement of its own
file (`Held`), and `SymbolInv` says when the table is empty.  `FreshInv` is what
makes the assembler's proofs usable here: a new call satisfies `Inv` with any
table.

`HashTableProofs`, from `HashAssumption` (nothing is asked of the hash function
but its range): `TypeCorrect`, `ChainsWellFormed`, and `TableIsMap`, that the
table implements `SymMap`.  The invariant is `TypeOK /\ WellFormed`: a lookup
returns the entry of its name only because a name has one node.

`ShellProofs`, about the parser, from `ParseAssumption`, for every alphabet and
every line: `BufferAlwaysFits`, `ParseTypeCorrect` and `LinesSplitAsMeant`.  That
the arguments fit is not inductive: each argument adds a NUL that the line does
not have.  `ParseInv` says that between two arguments less has been written than
read (`Len(buffer) < pos`), since the delimiter behind an argument has been passed,
and that pays for the NUL.  `LinesSplitAsMeant` is `ParseSpec => []SplitsAsMeant`:
the walk from character to character accepts, refuses and cuts a line as
`CommandOf` defines over the whole of it.  Its invariant `SplitInv` says, in the
loop, that the words read so far and the fields of the rest of the line make the
meaning of the line (`Reading`), and that each string handed on ends at its NUL
(`AllEnd`), so that what follows in the buffer changes none of them.

About the shell, from `MemoryAssumption`, `OpcodeAssumption`, `ParseAssumption` and
`ShellAssumption` as well:

- `MemoryImplementsArray`: the memory commands implement `ByteArray`, for every
  size of memory, row and window.  `MemoryInv` adds that the start of the next
  dump follows from what the screen shows, which the rows alone do not say.
- `DumpsWalkTheMemory`: `ShellSpec => DumpsContinue`, from the same invariant.
- `ShellTypeCorrect` and `HistoryIsOfRuns`, from `ShellInv`, which adds that the
  parser's invariant holds while it is at work and that the line it was given is
  still in the input buffer when the history records it.
- `FirstDefinitionStands`: `ShellSpec => []FirstDefinitionCounts`.  `TableInv` says
  of the words read so far what the property says of the file.  It adds that
  reading stands at the first word of a line, or at the end, and that every line
  behind it was an entry by itself unless one was pieced together with the next.
- `HistoryExplains`: `ShellSpec => []HistoryExplainsMemory`.  It combines
  `SplitInv`, which the shell keeps while it parses (`ShellSplit`): what a command
  finds in `argv` are the words that its line, as the history will have it,
  means.  So a command that writes is the last one of the history that writes
  its range (`EditApplies`, `FillApplies`, `ResetApplies`), and no other does.

`LiteralProofs`, from `TextsAssumption` (an operand begins with a solid character
and has no newline or NUL in it) and `LiteralAssumption` (a hexadecimal digit is
worth 0 to 15, NUL is none; a character has a code of two digits):

- `ItemsCutAsMeant`: `LiteralSpec => []ItemsAsMeant`.  `ScanInv` says what has been
  let through so far (`Grammar`: without quotes, each comma has a word behind it
  and each blank a comma near it) and, while items are cut off, that they and
  the fields of the rest are the fields of the token (`Cutting`).
- `TokenReadAsMeant`: `LiteralSpec => []TokenAsMeant`.  `MeantInv` says what the scan
  has passed (`PassedTo`): every stretch of separators that begins before it has
  one comma and a word behind it, no quote is open, and the scan does not stand
  inside a stretch.  The theorem needs both directions: where the scan ends, the
  first stretch without a comma begins, and a line it refuses has a bad stretch
  or an open quote before that.
- `PassesAgreeOnLength`: `LiteralSpec => []LengthsAgree`.  `LengthInv` keeps the
  length pass 1 measured and the one pass 2 computed beside the token both come
  from.
- `CodeIsThatOfTheLiteral`: `LiteralSpec => []CodeIsLiteral`, for every number of
  bytes in a word and whatever an earlier statement left.  `CodeInv` says what
  each word of `objcodeBuf` holds after any number of characters: its part of the
  digits, behind stale ones.  Where a word begins and how full it is takes
  division with a remainder (`Lemmas`), and the digits printed are the words'
  blocks flattened (`FlattenBlocks`).

Only model-checked: all liveness (`Terminates`, `CommandReturns`, `LiteralEnds`,
`PromptReturns`, `QuitEnds`).  It rests on weak fairness, hence on
ENABLED, which the prover does not reason about.

The assumptions on the constants are evaluated by TLC.  Beyond them,
`InstructionsReadBack` assumes `RegistersFit`; the theorems about records, image
and modifications, and `SymbolsKeepTheirStatements` assume that memory does not run
out (`~AllocMayFail`).  The runs that check these properties satisfy them.

## Not modelled

- `dir` and `type`: they print a directory and a file and change nothing, except
  that `type` never closes the file it has opened (`commands.c`), so that after as
  many of them as a process may have files open, nothing can be opened.
- Write errors of the output streams: `cmd_assemble.c:70` tests none, and no
  document says what the command promises then.
- Messages, the layout of lines, the printing of the opcode table, the symbol
  table and the history, and the ASCII column of a dump: output without a state.
- The release of memory at the end of a command and of the program, and the leak
  of the statement vector's array; nothing is used after it.
- `integerMatcher` and `operandMatcher`, which nothing calls.

## The plan

1. `AsmDefs`, `Pass1`, `Pass2`, `Assemble`: the assembler. *Done.*
2. `HashTable` and `SymMap`: the table is a map. *Done.*
3. `AsmCommand`: commands one after another. *Done.*
4. `Text`, `CommandLine`, `ParseInput`: the splitting of a line, against its
   definition. *Done.*
5. `Memory`, `ByteArray`, `OpcodeTable`, `Shell`: the loop, its input, the
   dispatch, the history and the memory. *Done.*
6. `Scanner`, `Literal`: the characters of an operand and of a literal, through
   both passes. *Done.*
7. Theorems about each: every safety property. *Done.*
8. What could follow: a composition of `Shell` and `AsmCommand` in one
   specification (they share the symbol table only, and the `symbol` command
   only reads it).
