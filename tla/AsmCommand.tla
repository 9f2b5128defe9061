----------------------------- MODULE AsmCommand -----------------------------
(* The shell's assemble command (cmd_assemble.c), given again and again: it  *)
(* opens the source named and the two outputs named after it, calls          *)
(* assemble(), and removes the outputs of an assembly that failed.  There is *)
(* one symbol table, in the shell context: it survives from one command to   *)
(* the next, whatever file that assembles.  Files are opened or not as the   *)
(* file system, the environment, decides.                                    *)
EXTENDS Assemble

CONSTANTS
  Files,         \* the names of the source files, without .asm
  MaxCommands    \* bound: commands given

ASSUME CommandAssumption == MaxCommands \in Nat /\ Files # {}

VARIABLES
  cmd,               \* "shell": waiting for a command; or "assembling"
  cmdNo,             \* number of the last command
  file,              \* the file it names
  exitFlag,          \* what the last command returned
  lstFile, objFile,  \* name -> what is on disk as name.lst and name.obj: the
                     \* number of the command that wrote all of it, Absent
                     \* or Truncated
  tableNo, tableFile \* history: the command whose labels symtab holds, and
                     \* the file it assembled

commandVars == <<cmd, cmdNo, file, exitFlag, lstFile, objFile, tableNo, tableFile>>
allVars == <<vars, commandVars>>

Absent == 0
Truncated == -1
NoFiles == [f \in Files |-> Absent]

CommandInit ==
  /\ Init
  /\ cmd = "shell" /\ cmdNo = 0 /\ exitFlag = "ok" /\ file \in Files
  /\ lstFile = NoFiles /\ objFile = NoFiles /\ tableNo = 0 /\ tableFile = file

-----------------------------------------------------------------------------
\* The locals of assemble() and its callees are new in every call.
FreshLocals ==
  /\ phase' = "pass1" /\ errCode' = "none"
  /\ lineNo' = 1 /\ loc' = 0 /\ stVec' = <<>> /\ rsize' = VEC_INIT
  /\ stIdx' = 1 /\ pcAddr' = 0 /\ baseAddr' = 0 /\ baseAvailable' = FALSE
  /\ startAddr' = 0 /\ firstInstruction' = 0
  /\ objcodeLen' = 0 /\ curTextRecordLen' = 0
  /\ textRecBuf' = <<>> /\ mRecVec' = <<>> /\ objOut' = <<>> /\ lstOut' = <<>>

NewCommand ==
  /\ cmd = "shell" /\ cmdNo < MaxCommands /\ cmdNo' = cmdNo + 1
  /\ file' \in Files

\* Mutation of Refused: the table is emptied before the file is tested.
RefusedAfterEmptying ==
  /\ NewCommand /\ exitFlag' = "error"
  /\ symtab' = EmptySymtab /\ tableNo' = cmdNo' /\ tableFile' = file'
  /\ UNCHANGED <<phase, errCode, lineNo, loc, stVec, rsize, pass2Vars>>
  /\ UNCHANGED <<cmd, lstFile, objFile>>

\* The name has another extension, the source cannot be opened, or there is no
\* memory for the names of the outputs.
Refused ==
  /\ NewCommand /\ exitFlag' = "error"
  /\ UNCHANGED <<vars, cmd, lstFile, objFile, tableNo, tableFile>>

\* The command's own listing or object file is now this; no other is touched.
Put(files, what) == [files EXCEPT ![file'] = what]

\* Both outputs are opened, and so truncated, before either is tested.
OutputsNotOpened ==
  /\ NewCommand /\ exitFlag' = "error"
  /\ \E lstOk, objOk \in BOOLEAN :
       /\ ~(lstOk /\ objOk)
       /\ lstFile' = IF lstOk THEN Put(lstFile, Truncated) ELSE lstFile
       /\ objFile' = IF objOk THEN Put(objFile, Truncated) ELSE objFile
  /\ UNCHANGED <<vars, cmd, tableNo, tableFile>>

\* assemble() cannot allocate its vector: pass 1 never begins.
NoStatementVector ==
  /\ AllocMayFail /\ NewCommand /\ exitFlag' = "error"
  /\ lstFile' = Put(lstFile, Absent) /\ objFile' = Put(objFile, Absent)
  /\ UNCHANGED <<vars, cmd, tableNo, tableFile>>

Truncate ==
  lstFile' = Put(lstFile, Truncated) /\ objFile' = Put(objFile, Truncated)

\* Mutation of Begin: the table of the last assembly is kept.
BeginWithOldTable ==
  /\ NewCommand /\ Truncate
  /\ cmd' = "assembling" /\ FreshLocals
  /\ UNCHANGED <<symtab, tableNo, tableFile, exitFlag>>

\* Pass 1 begins by emptying the table.
Begin ==
  /\ NewCommand /\ Truncate
  /\ cmd' = "assembling" /\ FreshLocals
  /\ symtab' = EmptySymtab /\ tableNo' = cmdNo' /\ tableFile' = file'
  /\ UNCHANGED exitFlag

AssembleStep == cmd = "assembling" /\ Next /\ UNCHANGED commandVars

Returns(flag) ==
  /\ exitFlag' = flag /\ cmd' = "shell" /\ FreshLocals
  /\ UNCHANGED <<symtab, cmdNo, file, tableNo, tableFile>>

ReturnOk ==
  /\ cmd = "assembling" /\ phase = "passed" /\ Returns("ok")
  /\ lstFile' = Put(lstFile, cmdNo) /\ objFile' = Put(objFile, cmdNo)

\* Mutation of ReturnError: the listing is left for the user to look at.
ReturnErrorKeepingListing ==
  /\ cmd = "assembling" /\ phase = "failed" /\ Returns("error")
  /\ objFile' = Put(objFile, Absent) /\ UNCHANGED lstFile

ReturnError ==
  /\ cmd = "assembling" /\ phase = "failed" /\ Returns("error")
  /\ lstFile' = Put(lstFile, Absent) /\ objFile' = Put(objFile, Absent)

Return == ReturnOk \/ ReturnError

CommandNext ==
  \/ Refused \/ OutputsNotOpened \/ NoStatementVector \/ Begin
  \/ AssembleStep \/ ReturnOk \/ ReturnError

\* A command that has begun runs on; whether another is given is up to the user.
CommandSpec ==
  CommandInit /\ [][CommandNext]_allVars /\ WF_allVars(AssembleStep \/ Return)

-----------------------------------------------------------------------------
CommandTypeOK ==
  /\ TypeOK
  /\ cmd \in {"shell", "assembling"} /\ cmdNo \in 0..MaxCommands
  /\ exitFlag \in {"ok", "error"} /\ {file, tableFile} \subseteq Files
  /\ {lstFile, objFile} \subseteq [Files -> {Absent, Truncated} \cup 1..MaxCommands]
  /\ tableNo \in 0..MaxCommands

(* What the user finds at the prompt goes together, whatever files were      *)
(* assembled in which order and whatever failed since: the two complete      *)
(* outputs of a file are of one assembly of it, and the table the symbol     *)
(* command prints is of the last assembly of its file, so that a complete    *)
(* output of that file has the table's addresses.                            *)
SymbolsAreOfOutputs ==
  cmd = "shell" =>
    /\ \A f \in Files : lstFile[f] > 0 /\ objFile[f] > 0 => lstFile[f] = objFile[f]
    /\ lstFile[tableFile] > 0 => lstFile[tableFile] = tableNo
    /\ objFile[tableFile] > 0 => objFile[tableFile] = tableNo
    /\ \A f \in Files : lstFile[f] <= tableNo /\ objFile[f] <= tableNo

\* During an assembly the table holds labels of this source file only, with
\* their addresses, whatever earlier commands left in it.
TableOfThisProgram ==
  cmd = "assembling" =>
    \A n \in DOMAIN symtab : \E i \in 1..Len(stVec) :
      stVec[i].src.label = n /\ stVec[i].loc = symtab[n]

(* A command whose assembly failed leaves neither output behind, and if it   *)
(* was pass 1 that failed, no symbol either.                                 *)
FailureLeavesNothing ==
  [][cmd = "assembling" /\ cmd' = "shell" /\ exitFlag' = "error" =>
       /\ lstFile'[file] = Absent /\ objFile'[file] = Absent
       /\ phase = "failed" /\ ~HasDummy => symtab' = EmptySymtab]_allVars

\* A command that begins to assemble a file that can be read to its end returns
\* to the shell.
CommandReturns ==
  ~ReadMayFail => (cmd = "assembling" ~> (cmd = "shell" \/ phase = "undefined"))
=============================================================================
