-------------------------------- MODULE Shell --------------------------------
(* The shell: main of 20131604.c, executeCommand of execute.c, the commands  *)
(* of commands.c and the history of history.c, around the parser, the memory *)
(* and the opcode table.  The user types lines of Inputs and may end the      *)
(* input anywhere.  fgets takes a line in pieces of MAX_LEN characters.      *)
EXTENDS ParseInput, Memory, OpcodeTable

CONSTANTS
  MAX_LEN,     \* characters fgets takes (256)
  Upper,       \* the characters from 'A' to 'Z'
  MaxReads     \* bound: lines and pieces of lines read at the prompt

Newline == "\n"

ASSUME ShellAssumption ==
  /\ MAX_LEN \in Nat \ {0} /\ MaxReads \in Nat /\ Newline \in Char
  /\ \A line \in Inputs : Newline \notin Range(line)

VARIABLES
  phase,       \* what main is doing
  rest,        \* what is left of the line after the last fgets
  inputEnded,  \* nothing comes behind it
  reads,       \* pieces read at the prompt
  fresh,       \* history: the last piece was the beginning of a line
  history,     \* the lines recorded, oldest first
  unrecorded,  \* history: a command could not be recorded
  exitFlag     \* what the last command returned

streamVars == <<rest, inputEnded, reads, fresh>>
contextVars == <<memoryVars, opcodeVars, history, unrecorded>>
shellVars == <<parseVars, contextVars, streamVars, phase, exitFlag>>

Errors == {"UNKNOWN_COMMAND", "UNKNOWN_ARGUMENT", "OUT_OF_RANGE", "NOT_HEX",
           "ARGUMENT_TOO_LONG", "INTERNAL_COMMAND_ERROR"}

ShellInit ==
  /\ input = <<>> /\ pos = 1 /\ buffer = <<>> /\ argv = <<>>
  /\ argcReserve = 0 /\ argvBytes = 0 /\ parse = "name"
  /\ MemoryInit /\ OpcodeInit
  /\ phase = "loading" /\ rest = <<>> /\ inputEnded = FALSE
  /\ reads = 0 /\ fresh = FALSE
  /\ history = <<>> /\ unrecorded = FALSE /\ exitFlag = "ok"

-----------------------------------------------------------------------------
\* initShellContext: the opcode table is read before the first prompt.
LoadOpcode ==
  /\ phase = "loading" /\ ReadOpcode
  /\ UNCHANGED <<parseVars, memoryVars, history, unrecorded, streamVars, phase, exitFlag>>

LoadOverruns ==
  /\ phase = "loading" /\ Overruns /\ phase' = "undefined"
  /\ UNCHANGED <<parseVars, contextVars, streamVars, exitFlag>>

Loaded ==
  /\ phase = "loading" /\ ~Readable /\ ~Overruns /\ phase' = "prompt"
  /\ UNCHANGED <<parseVars, contextVars, streamVars, exitFlag>>

\* Without the file of the opcodes, or without memory for the context, the
\* program ends before the first prompt.
LoadFails ==
  /\ phase = "loading" /\ phase' = "ended"
  /\ opcodeNext = 1 \/ AllocMayFail
  /\ UNCHANGED <<parseVars, contextVars, streamVars, exitFlag>>

-----------------------------------------------------------------------------
\* fgets takes up to n characters of a text, in which a newline is the last.
Piece(text, n) == SubSeq(text, 1, Min({n, Len(text)}))
Remainder(text, n) == SubSeq(text, Min({n, Len(text)}) + 1, Len(text))

AtPrompt == phase = "prompt" /\ reads < MaxReads

ReadPiece(text) ==
  /\ BeginParse(Piece(text, MAX_LEN))
  /\ rest' = Remainder(text, MAX_LEN)
  /\ reads' = reads + 1 /\ phase' = "parsing"
  /\ UNCHANGED <<contextVars, exitFlag>>

\* The last line of the input may lack its newline.
ReadLine ==
  /\ AtPrompt /\ rest = <<>> /\ ~inputEnded
  /\ fresh' = TRUE
  /\ \E line \in Inputs :
       \/ ReadPiece(Append(line, Newline)) /\ UNCHANGED inputEnded
       \/ line # <<>> /\ ReadPiece(line) /\ inputEnded' = TRUE

\* A line that was refused has not been read to its end.
ReadRest ==
  /\ AtPrompt /\ rest # <<>>
  /\ fresh' = FALSE
  /\ ReadPiece(rest) /\ UNCHANGED inputEnded

\* At the end of the input fgets fails, and what the buffer holds is parsed
\* once more; before the first line it holds nothing that was ever written.
ReadNothing ==
  /\ AtPrompt /\ rest = <<>>
  /\ fresh' = FALSE /\ inputEnded' = TRUE /\ reads' = reads + 1
  /\ IF reads = 0 THEN phase' = "undefined" /\ UNCHANGED parseVars
     ELSE phase' = "parsing" /\ BeginParse(input)
  /\ UNCHANGED <<contextVars, rest, exitFlag>>

Parsing ==
  /\ phase = "parsing" /\ ParseNext
  /\ phase' = IF parse' = "undefined" THEN "undefined" ELSE "parsing"
  /\ UNCHANGED <<contextVars, streamVars, exitFlag>>

\* Nothing is flushed behind a line that is blank or refused.
NotACommand ==
  /\ phase = "parsing" /\ parse \in Refusals \cup {"COMMAND_EMPTY"}
  /\ phase' = "prompt"
  /\ UNCHANGED <<parseVars, contextVars, streamVars, exitFlag>>

-----------------------------------------------------------------------------
\* SHELL_COMMANDS: the spellings of each command.
ShellCmd(func, spellings) == [func |-> func, spellings |-> spellings]
SHELL_COMMANDS == <<
  ShellCmd("help", {<<"h", "e", "l", "p">>, <<"h">>}),
  ShellCmd("dir", {<<"d", "i", "r">>, <<"d">>}),
  ShellCmd("quit", {<<"q", "u", "i", "t">>, <<"q">>}),
  ShellCmd("history", {<<"h", "i", "s", "t", "o", "r", "y">>, <<"h", "i">>}),
  ShellCmd("dump", {<<"d", "u", "m", "p">>, <<"d", "u">>}),
  ShellCmd("edit", {<<"e", "d", "i", "t">>, <<"e">>}),
  ShellCmd("fill", {<<"f", "i", "l", "l">>, <<"f">>}),
  ShellCmd("reset", {<<"r", "e", "s", "e", "t">>}),
  ShellCmd("opcode", {<<"o", "p", "c", "o", "d", "e">>}),
  ShellCmd("opcodelist", {<<"o", "p", "c", "o", "d", "e", "l", "i", "s", "t">>}),
  ShellCmd("assemble", {<<"a", "s", "s", "e", "m", "b", "l", "e">>}),
  ShellCmd("symbol", {<<"s", "y", "m", "b", "o", "l">>}),
  ShellCmd("type", {<<"t", "y", "p", "e">>})>>

\* Mutation of Matches: the short form is not compared.
MatchesLongForm(name, cmd) == name \in cmd.spellings /\ Len(name) > 2

Matches(name, cmd) == name \in cmd.spellings

\* The command with this name, the first in the list.
Func(name) ==
  LET found == {k \in DOMAIN SHELL_COMMANDS : Matches(name, SHELL_COMMANDS[k])} IN
  IF found = {} THEN "none" ELSE SHELL_COMMANDS[Min(found)].func

Command == Func(Head(Words))
Args == Tail(Words)

\* argc must be 1 more than the arguments the command takes.
Takes(n, args) == IF Len(args) = n THEN "ok" ELSE "UNKNOWN_ARGUMENT"

\* COMMAND_OPCODE: one name in capital letters.
OpcodeError(args) ==
  IF Len(args) = 1 /\ Range(args[1]) \subseteq Upper THEN "ok" ELSE "UNKNOWN_ARGUMENT"

\* What the command finds wrong with its arguments.
ArgumentError(func, args) ==
  CASE func = "dump" -> DumpError(args)
    [] func = "edit" -> EditError(args)
    [] func = "fill" -> FillError(args)
    [] func = "opcode" -> OpcodeError(args)
    [] func \in {"assemble", "type"} -> Takes(1, args)
    [] OTHER -> Takes(0, args)

\* Commands that may fail on their own: a file, an assembly, no memory to sort.
FailsItself(func) == func \in {"assemble", "type"} \/ (func = "symbol" /\ AllocMayFail)

-----------------------------------------------------------------------------
\* updateHistory appends the line as it was read, unless it finds no memory.
Updated(entries) ==
  {Append(entries, input)} \cup (IF AllocMayFail THEN {entries} ELSE {})

\* Mutation of RecordsItself: forgotten, executeCommand records every command.
RecordsItselfNever(func) == FALSE

RecordsItself(func) == func = "history"

\* The command history records itself before it prints; executeCommand records
\* every other.
Recorded(func) ==
  LET own == IF func = "history" THEN Updated(history) ELSE {history} IN
  IF RecordsItself(func) THEN own ELSE UNION {Updated(entries) : entries \in own}

RecordRun ==
  /\ history' \in Recorded(Command)
  /\ unrecorded' = (unrecorded \/ history' = history)

\* Behind every command the arguments are released and the line is flushed.
Executed(flag) ==
  /\ phase = "parsing" /\ parse = "ok"
  /\ exitFlag' = flag /\ phase' = "flushing"
  /\ buffer' = <<>> /\ argv' = <<>>
  /\ UNCHANGED <<input, pos, argcReserve, argvBytes, parse, opcodeVars, streamVars>>

IsCommand == phase = "parsing" /\ parse = "ok"
IsRightly(func) == IsCommand /\ Command = func /\ ArgumentError(func, Args) = "ok"

UnknownCommand ==
  /\ IsCommand /\ Command = "none"
  /\ Executed("UNKNOWN_COMMAND") /\ UNCHANGED contextVars

WrongArguments ==
  /\ IsCommand /\ Command # "none" /\ ArgumentError(Command, Args) # "ok"
  /\ Executed(ArgumentError(Command, Args)) /\ UNCHANGED contextVars

CommandFails ==
  /\ IsCommand /\ FailsItself(Command) /\ ArgumentError(Command, Args) = "ok"
  /\ Executed("INTERNAL_COMMAND_ERROR") /\ UNCHANGED contextVars

\* A memory command: what is done to the memory is the parameter.
RunDump ==
  /\ IsRightly("dump")
  /\ DumpNext(Args) \/ DumpFrom(Args) \/ DumpRange(Args)
  /\ Executed("ok") /\ RecordRun
RunEdit == IsRightly("edit") /\ Edit(Args) /\ Executed("ok") /\ RecordRun
RunFill == IsRightly("fill") /\ Fill(Args) /\ Executed("ok") /\ RecordRun
RunReset == IsRightly("reset") /\ Reset(Args) /\ Executed("ok") /\ RecordRun

\* Commands that only print, or work on files and the symbol table.
RunPrinting ==
  /\ \E func \in {"help", "dir", "history", "opcode", "opcodelist", "assemble",
                  "symbol", "type"} : IsRightly(func)
  /\ Executed("ok") /\ RecordRun /\ UNCHANGED memoryVars

RunQuit ==
  /\ IsRightly("quit")
  /\ exitFlag' = "QUIT_SHELL" /\ phase' = "ended"
  /\ buffer' = <<>> /\ argv' = <<>>
  /\ RecordRun
  /\ UNCHANGED <<input, pos, argcReserve, argvBytes, parse, opcodeVars, streamVars, memoryVars>>

-----------------------------------------------------------------------------
LineEnded == input # <<>> /\ Last(input) = Newline

\* Mutation of FlushSize: the place of the terminating NUL is forgotten.
FlushSizeLessOne == IF input = <<>> THEN 0 ELSE Len(input) - 1

\* flushRestInput reads into the part of the buffer the last piece fills.
FlushSize == Len(input)

FlushDone ==
  /\ phase = "flushing" /\ LineEnded /\ phase' = "prompt"
  /\ UNCHANGED <<parseVars, contextVars, streamVars, exitFlag>>

\* At the end of the input fgets changes nothing: the loop goes round for ever.
FlushMore ==
  /\ phase = "flushing" /\ ~LineEnded /\ rest # <<>>
  /\ input' = Piece(rest, FlushSize) /\ rest' = Remainder(rest, FlushSize)
  /\ UNCHANGED <<pos, buffer, argv, argcReserve, argvBytes, parse>>
  /\ UNCHANGED <<contextVars, inputEnded, reads, fresh, phase, exitFlag>>

Execute ==
  \/ UnknownCommand \/ WrongArguments \/ CommandFails
  \/ RunDump \/ RunEdit \/ RunFill \/ RunReset \/ RunPrinting \/ RunQuit

Work ==
  \/ LoadOpcode \/ LoadOverruns \/ Loaded
  \/ Parsing \/ NotACommand \/ Execute \/ FlushDone \/ FlushMore

ShellNext == Work \/ LoadFails \/ ReadLine \/ ReadRest \/ ReadNothing

\* The program works as long as it need not wait for the user.
ShellSpec == ShellInit /\ [][ShellNext]_shellVars /\ WF_shellVars(Work)

-----------------------------------------------------------------------------
ShellTypeOK ==
  /\ MemoryTypeOK /\ OpcodeTypeOK /\ (phase = "parsing" => ParseTypeOK)
  /\ phase \in {"loading", "prompt", "parsing", "flushing", "ended", "undefined"}
  /\ exitFlag \in Errors \cup {"ok", "QUIT_SHELL"}
  /\ {inputEnded, fresh, unrecorded} \subseteq BOOLEAN
  /\ reads \in 0..MaxReads /\ history \in Seq(Seq(Char))
  /\ rest \in Seq(Char)

(* The memory commands make an array of the memory: the functions of         *)
(* memory.c are only ever called with a range, a dump shows the bytes of its *)
(* range at their addresses, and nothing else changes a byte.                *)
Array == INSTANCE ByteArray WITH
           Size <- MEM_TOTAL, bytes <- memAddr, shown <- Printed
MemoryIsArray == Array!Spec

\* The plain dump command has been carried out.
PlainDump == IsRightly("dump") /\ Args = <<>>

(* Dumps without arguments walk through the memory: each begins behind the   *)
(* last address the dump before it has shown, however that one was asked     *)
(* for, and at 0 behind the end; it shows a whole window or reaches the end. *)
DumpsContinue ==
  [][PlainDump =>
       \E first, last \in Address :
         /\ first = IF DOMAIN Printed = {} THEN 0
                    ELSE (Max(DOMAIN Printed) + 1) % MEM_TOTAL
         /\ \/ last = first + DEFAULT_BYTES - 1
            \/ last = MEM_TOTAL - 1 /\ last < first + DEFAULT_BYTES - 1
         /\ DOMAIN Printed' = first..last]_shellVars

(* A command that ran without an error is recorded once, as it was read; one *)
(* that did not leaves history and memory alone.                             *)
HistoryRecordsRuns ==
  [][IsCommand =>
       IF exitFlag' \in Errors THEN UNCHANGED contextVars
       ELSE IF history' = history THEN AllocMayFail
       ELSE history' = Append(history, input)]_shellVars

\* The addresses an entry of the history writes, and the value.
Named(func, words) == words # <<>> /\ \E k \in DOMAIN SHELL_COMMANDS :
  SHELL_COMMANDS[k].func = func /\ words[1] \in SHELL_COMMANDS[k].spellings
Written(words) ==
  CASE Named("edit", words) -> {Number(words[2])}
    [] Named("fill", words) -> Number(words[2])..Number(words[3])
    [] Named("reset", words) -> Address
    [] OTHER -> {}
WrittenValue(words) ==
  CASE Named("edit", words) -> Number(words[3])
    [] Named("fill", words) -> Number(words[4])
    [] OTHER -> 0

(* The history explains the memory: a byte that a command of the history     *)
(* writes has the value the last of them gave it, as that line is to be read.*)
HistoryExplainsMemory ==
  ~unrecorded => \A a \in Address :
    LET words(k) == CommandOf(history[k]).words
        writers == {k \in DOMAIN history : a \in Written(words(k))} IN
    writers # {} => memAddr[a] = WrittenValue(words(Max(writers)))

(* A piece that was read leads back to the prompt or out of the shell,       *)
(* unless the input ends without a newline.                                  *)
PromptReturns ==
  phase = "parsing" ~> \/ phase \in {"prompt", "ended", "undefined"}
                      \/ (inputEnded /\ Newline \notin Range(input) \cup Range(rest))

\* The quit command ends the shell, short or long, wherever on its line.
IsQuit(words) == Len(words) = 1 /\ Named("quit", words)
QuitEnds ==
  phase = "parsing" /\ IsQuit(CommandOf(input).words)
    ~> phase = "ended" \/ parse = "ALLOCATION_ERROR"

(* Only what begins a line is run as a command: what a line holds behind     *)
(* MAX_LEN characters does not reach the next command (20131604.c:11).       *)
OnlyLinesRun == IsCommand => fresh \/ inputEnded
=============================================================================
