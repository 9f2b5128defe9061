---------------------------- MODULE CommandProofs ----------------------------
(* Proofs that the assemble command leaves files and symbols of one assembly *)
(* behind, whatever commands came before it and whatever allocation failed.  *)
EXTENDS AsmCommand, AssembleProofs

\* Every entry of a table is the address of a statement with that label.
Held(table, vec) ==
  \A n \in DOMAIN table : \E i \in 1..Len(vec) :
    vec[i].src.label = n /\ vec[i].loc = table[n]

\* What is on disk under an output's name.
OnDisk == {Absent, Truncated} \cup 1..MaxCommands

CommandsOK ==
  /\ cmd \in {"shell", "assembling"} /\ cmdNo \in 0..MaxCommands
  /\ exitFlag \in {"ok", "error"} /\ {file, tableFile} \subseteq Files
  /\ {lstFile, objFile} \subseteq [Files -> OnDisk]
  /\ tableNo \in 0..cmdNo

\* The outputs of every file, at any time: complete ones are of one assembly,
\* and none is of a later one than the table.
OutputsOK ==
  \A f \in Files :
    /\ lstFile[f] > 0 /\ objFile[f] > 0 => lstFile[f] = objFile[f]
    /\ lstFile[f] <= tableNo /\ objFile[f] <= tableNo

\* Those of the file the table is of: the table's, if they are complete.
TableOutputsOK ==
  lstFile[tableFile] \in {Absent, Truncated, tableNo} /\
  objFile[tableFile] \in {Absent, Truncated, tableNo}

(* The inductive invariant.  At the prompt the invariants of an assembly     *)
(* hold of its fresh locals, but the table is that of an earlier one; a      *)
(* command at work owns the table, and neither output of its file is         *)
(* complete.                                                                 *)
CommandInv ==
  /\ Inv /\ CommandsOK /\ OutputsOK /\ TableOutputsOK
  /\ cmd = "shell" => phase = "pass1"
  /\ cmd = "assembling" =>
       /\ SymbolInv /\ Held(symtab, stVec)
       /\ cmdNo > 0 /\ tableNo = cmdNo /\ tableFile = file

-----------------------------------------------------------------------------
\* The locals of a new call satisfy the invariant of an assembly, with any table.
LEMMA FreshInv ==
  ASSUME FreshLocals, symtab' \in [DOMAIN symtab' -> Int], DOMAIN symtab' \subseteq STRING
  PROVE  Inv'
  <1> USE DEF FreshLocals
  <1>1. VEC_INIT \in Nat
    BY Widths
  <1>2. phase' \in Phases /\ errCode' \in Errors
    BY DEF Phases, Errors
  <1>3. /\ stVec' \in Seq(Statement) /\ textRecBuf' \in Seq(Item) /\ mRecVec' \in Seq(Int)
        /\ lstOut' \in Seq(Item) /\ objOut' \in Seq(ObjRecords)
    OBVIOUS
  <1>4. {pcAddr', baseAddr', startAddr', firstInstruction'} \subseteq Int
    OBVIOUS
  <1>5. /\ lineNo' \in Nat /\ loc' \in Int /\ rsize' \in Nat /\ stIdx' \in Nat \ {0}
        /\ objcodeLen' \in Nat /\ curTextRecordLen' \in Nat
    BY <1>1
  <1>6. baseAvailable' \in BOOLEAN
    BY Zenon
  <1>7. TypeOK'
    BY <1>2, <1>3, <1>4, <1>5, <1>6 DEF TypeOK, ObjRecords
  <1>8. StatementsOK' /\ PositionOK'
    BY DEF StatementsOK, PositionOK
  <1>9. TextRecordsFit'
    BY RangeAssumption DEF TextRecordsFit
  <1> QED BY <1>7, <1>8, <1>9 DEF Inv

\* With the emptied table a command begins like the first.
LEMMA FreshSymbols ==
  ASSUME FreshLocals, symtab' = EmptySymtab PROVE SymbolInv' /\ Held(symtab', stVec')
  BY DEF FreshLocals, SymbolInv, TableOf, Labelled, EmptySymtab, Held

\* A statement behind the others takes no entry away.
LEMMA HeldExtended ==
  ASSUME NEW vec \in Seq(Statement), NEW st \in Statement, NEW table, NEW new,
         Held(table, vec),
         \A n \in DOMAIN new :
           \/ n \in DOMAIN table /\ new[n] = table[n]
           \/ n = st.src.label /\ new[n] = st.loc
  PROVE  Held(new, Append(vec, st))
  <1> DEFINE longer == Append(vec, st)
  <1>1. /\ Len(vec) \in Nat /\ Len(longer) = Len(vec) + 1 /\ longer[Len(vec) + 1] = st
        /\ \A i \in 1..Len(vec) : longer[i] = vec[i]
    BY Extended
  <1> HIDE DEF longer
  <1>2. ASSUME NEW n \in DOMAIN new
        PROVE  \E i \in 1..Len(longer) : longer[i].src.label = n /\ longer[i].loc = new[n]
    <2>1. CASE n \in DOMAIN table /\ new[n] = table[n]
      <3>1. PICK i \in 1..Len(vec) : vec[i].src.label = n /\ vec[i].loc = table[n]
        BY <2>1 DEF Held
      <3>2. i \in 1..Len(longer) /\ longer[i] = vec[i]
        BY <1>1
      <3> QED BY <2>1, <3>1, <3>2
    <2>2. CASE n = st.src.label /\ new[n] = st.loc
      <3>1. Len(vec) + 1 \in 1..Len(longer)
        BY <1>1
      <3> QED BY <1>1, <2>2, <3>1
    <2> QED BY <2>1, <2>2
  <1>3. Held(new, longer)
    BY <1>2 DEF Held
  <1> QED BY <1>3 DEF longer

\* Pass 1 keeps it: an accepted label is new, so that no entry changes.
LEMMA HeldStep ==
  ASSUME Inv, Held(symtab, stVec), Next PROVE Held(symtab', stVec')
  <1>0. stVec \in Seq(Statement)
    BY DEF Inv, TypeOK
  <1>1. CASE Pass1Next
    <2>1. Pass1Effect
      BY <1>1, Pass1Cases DEF Inv, TypeOK
    <2>2. CASE Refusing
      BY <2>2 DEF Refusing, Reject, Undefined, Held, EmptySymtab
    <2>3. ASSUME NEW l \in Lines, TokenAllocFail(l) PROVE Held(symtab', stVec')
      BY <2>3 DEF TokenAllocFail, Held, EmptySymtab
    <2>4. CASE PushDummy
      <3> DEFINE st == [src |-> BlankLine, lineNo |-> 0, loc |-> loc]
      <3>1. st \in Statement /\ stVec' = Append(stVec, st) /\ symtab' = symtab
        BY <2>4, LineFields DEF PushDummy, VecPush, Statement, Inv, TypeOK
      <3> HIDE DEF st
      <3> QED BY <1>0, <3>1, HeldExtended
    <2>5. ASSUME NEW l \in Lines, NEW eof \in BOOLEAN, NEW a \in Int, NEW b \in Int,
                 Accepting(l, eof, a, b)
          PROVE  Held(symtab', stVec')
      <3> DEFINE st == [src |-> l, lineNo |-> lineNo, loc |-> a]
      <3>1. /\ st \in Statement /\ stVec' = Append(stVec, st)
            /\ symtab' = IF DefinesSymbol(l) THEN AddSymbol(l.label, a) ELSE symtab
            /\ st.src = l /\ st.loc = a
        BY <2>5, LineFields DEF Accepting, Accept, Ended, VecPush, Statement, Inv, TypeOK
      <3>2. \A n \in DOMAIN symtab' :
              \/ n \in DOMAIN symtab /\ symtab'[n] = symtab[n]
              \/ n = st.src.label /\ symtab'[n] = st.loc
        BY <3>1 DEF AddSymbol
      <3> HIDE DEF st
      <3> QED BY <1>0, <3>1, <3>2, HeldExtended
    <2> QED BY <2>1, <2>2, <2>3, <2>4, <2>5 DEF Pass1Effect
  <1>2. CASE Pass2Next
    <2>1. Pass2Effect
      BY <1>2, Pass2Cases DEF Inv
    <2>2. UNCHANGED <<stVec, symtab>>
      BY <2>1 DEF Pass2Effect, InitStates, PrintEnd, Fail2, Undefined, PrintNoCode, PrintCode
    <2> QED BY <2>2 DEF Held
  <1> QED BY <1>1, <1>2 DEF Next

-----------------------------------------------------------------------------
\* Writing to the outputs of one file leaves those of the others.
LEMMA PutOne ==
  ASSUME NEW files \in [Files -> OnDisk], NEW f \in Files, NEW what \in OnDisk
  PROVE  /\ [files EXCEPT ![f] = what] \in [Files -> OnDisk]
         /\ \A g \in Files : [files EXCEPT ![f] = what][g] = IF g = f THEN what ELSE files[g]
  OBVIOUS

\* What the numbers of commands on disk are.
LEMMA Numbers ==
  /\ Absent \in OnDisk /\ Truncated \in OnDisk /\ MaxCommands \in Nat
  /\ ~(Absent > 0) /\ ~(Truncated > 0)
  /\ \A n \in Nat : Absent <= n /\ Truncated <= n
  /\ \A n \in 1..MaxCommands : n \in OnDisk
  /\ \A n \in OnDisk : n \in Int
  BY CommandAssumption DEF OnDisk, Absent, Truncated

\* The invariant holds before the first command.
LEMMA CommandInitInv == CommandInit => CommandInv
  <1> SUFFICES ASSUME CommandInit PROVE CommandInv
    OBVIOUS
  <1>1. Inv
    BY InitInv DEF CommandInit
  <1>2. \A f \in Files : lstFile[f] = Absent /\ objFile[f] = Absent
    BY DEF CommandInit, NoFiles
  <1>3. CommandsOK
    <2>1. {lstFile, objFile} \subseteq [Files -> OnDisk]
      BY Numbers DEF CommandInit, NoFiles
    <2> QED BY <2>1, Numbers DEF CommandInit, CommandsOK
  <1>4. OutputsOK
    <2>1. tableNo = 0 /\ Absent <= 0
      BY Numbers DEF CommandInit
    <2> QED BY <1>2, <2>1, Numbers, Zenon DEF OutputsOK
  <1>5. TableOutputsOK
    BY <1>2, <1>3 DEF TableOutputsOK, CommandsOK
  <1> QED BY <1>1, <1>3, <1>4, <1>5 DEF CommandInv, CommandInit, Init, Pass1Init

\* A command that ends before it has begun to assemble.
LEMMA NotBegunInv ==
  ASSUME CommandInv, Refused \/ OutputsNotOpened \/ NoStatementVector PROVE CommandInv'
  <1>1. /\ UNCHANGED <<vars, tableNo, tableFile>> /\ cmd = "shell" /\ cmd' = cmd
        /\ cmdNo' = cmdNo + 1 /\ cmdNo < MaxCommands /\ file' \in Files /\ exitFlag' = "error"
    BY DEF Refused, OutputsNotOpened, NoStatementVector, NewCommand
  <1>2. Inv'
    BY <1>1, NextInv DEF CommandInv
  <1>3. /\ {lstFile, objFile} \subseteq [Files -> OnDisk] /\ tableFile \in Files
        /\ cmdNo \in 0..MaxCommands /\ tableNo \in 0..cmdNo
    BY DEF CommandInv, CommandsOK
  <1>4. /\ \/ lstFile' = lstFile
           \/ \E what \in {Absent, Truncated} : lstFile' = [lstFile EXCEPT ![file'] = what]
        /\ \/ objFile' = objFile
           \/ \E what \in {Absent, Truncated} : objFile' = [objFile EXCEPT ![file'] = what]
    BY DEF Refused, OutputsNotOpened, NoStatementVector, Put
  <1>5. /\ lstFile' \in [Files -> OnDisk]
        /\ \A f \in Files : lstFile'[f] \in {lstFile[f], Absent, Truncated}
    <2>1. CASE lstFile' = lstFile
      BY <1>3, <2>1
    <2>2. ASSUME NEW what \in {Absent, Truncated}, lstFile' = [lstFile EXCEPT ![file'] = what]
          PROVE  /\ lstFile' \in [Files -> OnDisk]
                 /\ \A f \in Files : lstFile'[f] \in {lstFile[f], Absent, Truncated}
      BY <1>1, <1>3, <2>2, Numbers, PutOne
    <2> QED BY <1>4, <2>1, <2>2
  <1>6. /\ objFile' \in [Files -> OnDisk]
        /\ \A f \in Files : objFile'[f] \in {objFile[f], Absent, Truncated}
    <2>1. CASE objFile' = objFile
      BY <1>3, <2>1
    <2>2. ASSUME NEW what \in {Absent, Truncated}, objFile' = [objFile EXCEPT ![file'] = what]
          PROVE  /\ objFile' \in [Files -> OnDisk]
                 /\ \A f \in Files : objFile'[f] \in {objFile[f], Absent, Truncated}
      BY <1>1, <1>3, <2>2, Numbers, PutOne
    <2> QED BY <1>4, <2>1, <2>2
  <1>7. CommandsOK'
    <2>1. cmdNo' \in 0..MaxCommands /\ tableNo' \in 0..cmdNo'
      BY <1>1, <1>3, Numbers
    <2> QED BY <1>1, <1>3, <1>5, <1>6, <2>1 DEF CommandsOK
  <1>8. OutputsOK'
    <2> SUFFICES ASSUME NEW f \in Files
                 PROVE  /\ lstFile'[f] > 0 /\ objFile'[f] > 0 => lstFile'[f] = objFile'[f]
                        /\ lstFile'[f] <= tableNo' /\ objFile'[f] <= tableNo'
      BY DEF OutputsOK
    <2>1. /\ lstFile[f] > 0 /\ objFile[f] > 0 => lstFile[f] = objFile[f]
          /\ lstFile[f] <= tableNo /\ objFile[f] <= tableNo
      BY DEF CommandInv, OutputsOK
    <2>2. tableNo \in Nat /\ tableNo' = tableNo
      BY <1>1, <1>3
    <2> QED BY <1>5, <1>6, <2>1, <2>2, Numbers, Zenon
  <1>9. TableOutputsOK'
    BY <1>1, <1>3, <1>5, <1>6, Zenon DEF CommandInv, TableOutputsOK
  <1>10. phase' = phase
    BY <1>1 DEF vars, pass1Vars
  <1> QED BY <1>1, <1>2, <1>7, <1>8, <1>9, <1>10 DEF CommandInv

\* A command that begins empties the table and truncates both outputs.
LEMMA BeginInv == ASSUME CommandInv, Begin PROVE CommandInv'
  <1>1. /\ FreshLocals /\ symtab' = EmptySymtab /\ cmd' = "assembling" /\ file' \in Files
        /\ lstFile' = [lstFile EXCEPT ![file'] = Truncated]
        /\ objFile' = [objFile EXCEPT ![file'] = Truncated]
        /\ cmdNo' = cmdNo + 1 /\ cmdNo < MaxCommands /\ tableNo' = cmdNo' /\ tableFile' = file'
        /\ exitFlag' = exitFlag
    BY DEF Begin, NewCommand, Truncate, Put
  <1>2. Inv'
    <2>1. EmptySymtab \in [DOMAIN EmptySymtab -> Int] /\ DOMAIN EmptySymtab \subseteq STRING
      BY DEF EmptySymtab
    <2> QED BY <1>1, <2>1, FreshInv
  <1>3. SymbolInv' /\ Held(symtab', stVec')
    BY <1>1, FreshSymbols
  <1>4. /\ lstFile \in [Files -> OnDisk] /\ objFile \in [Files -> OnDisk]
        /\ cmdNo \in 0..MaxCommands /\ tableNo \in 0..cmdNo
    BY DEF CommandInv, CommandsOK
  <1>5. /\ lstFile' \in [Files -> OnDisk] /\ objFile' \in [Files -> OnDisk]
        /\ \A f \in Files : lstFile'[f] = IF f = file' THEN Truncated ELSE lstFile[f]
        /\ \A f \in Files : objFile'[f] = IF f = file' THEN Truncated ELSE objFile[f]
    BY <1>1, <1>4, Numbers, PutOne
  <1>6. CommandsOK' /\ cmdNo' > 0
    <2>1. cmdNo' \in 0..MaxCommands /\ cmdNo' > 0 /\ tableNo' \in 0..cmdNo'
      BY <1>1, <1>4, Numbers
    <2>2. exitFlag' \in {"ok", "error"}
      BY <1>1 DEF CommandInv, CommandsOK
    <2> QED BY <1>1, <1>5, <2>1, <2>2 DEF CommandsOK
  <1>7. OutputsOK'
    <2> SUFFICES ASSUME NEW f \in Files
                 PROVE  /\ lstFile'[f] > 0 /\ objFile'[f] > 0 => lstFile'[f] = objFile'[f]
                        /\ lstFile'[f] <= tableNo' /\ objFile'[f] <= tableNo'
      BY DEF OutputsOK
    <2>1. /\ lstFile[f] > 0 /\ objFile[f] > 0 => lstFile[f] = objFile[f]
          /\ lstFile[f] <= tableNo /\ objFile[f] <= tableNo
      BY DEF CommandInv, OutputsOK
    <2>2. /\ tableNo \in Nat /\ tableNo' \in Nat /\ tableNo <= tableNo'
          /\ lstFile[f] \in Int /\ objFile[f] \in Int
      BY <1>1, <1>4, Numbers
    <2>3. lstFile[f] <= tableNo' /\ objFile[f] <= tableNo'
      BY <2>1, <2>2
    <2> QED BY <1>5, <2>1, <2>2, <2>3, Numbers, Zenon
  <1>8. TableOutputsOK'
    BY <1>1, <1>5, Zenon DEF TableOutputsOK
  <1> QED BY <1>1, <1>2, <1>3, <1>6, <1>7, <1>8 DEF CommandInv

\* A step of the assembly itself.
LEMMA AssembleStepInv == ASSUME CommandInv, AssembleStep PROVE CommandInv'
  <1>1. cmd = "assembling" /\ Next /\ UNCHANGED commandVars
    BY DEF AssembleStep
  <1>2. Inv' /\ SymbolInv'
    BY <1>1, NextInv, SymbolStep DEF CommandInv
  <1>3. Held(symtab', stVec')
    BY <1>1, HeldStep DEF CommandInv
  <1>4. CommandsOK' /\ OutputsOK' /\ TableOutputsOK'
    BY <1>1 DEF CommandInv, CommandsOK, OutputsOK, TableOutputsOK, commandVars
  <1> QED BY <1>1, <1>2, <1>3, <1>4 DEF CommandInv, commandVars

\* A command that returns.
LEMMA ReturnInv == ASSUME CommandInv, Return PROVE CommandInv'
  <1>1. /\ FreshLocals /\ cmd' = "shell" /\ exitFlag' \in {"ok", "error"}
        /\ UNCHANGED <<symtab, cmdNo, tableNo, file, tableFile>>
        /\ cmdNo \in 1..MaxCommands /\ tableNo = cmdNo /\ tableFile = file
    BY CommandAssumption DEF Return, ReturnOk, ReturnError, Returns, CommandInv, CommandsOK
  <1>2. \E what \in {cmdNo, Absent} :
          /\ lstFile' = [lstFile EXCEPT ![file] = what]
          /\ objFile' = [objFile EXCEPT ![file] = what]
    BY <1>1 DEF Return, ReturnOk, ReturnError, Put
  <1>3. Inv'
    BY <1>1, FreshInv DEF CommandInv, Inv, TypeOK
  <1>4. /\ lstFile \in [Files -> OnDisk] /\ objFile \in [Files -> OnDisk] /\ file \in Files
    BY DEF CommandInv, CommandsOK
  <1>5. PICK what \in {cmdNo, Absent} :
          /\ lstFile' \in [Files -> OnDisk] /\ objFile' \in [Files -> OnDisk]
          /\ \A f \in Files : lstFile'[f] = IF f = file THEN what ELSE lstFile[f]
          /\ \A f \in Files : objFile'[f] = IF f = file THEN what ELSE objFile[f]
    BY <1>1, <1>2, <1>4, Numbers, PutOne
  <1>6. CommandsOK'
    <2>1. cmdNo' \in 0..MaxCommands /\ tableNo' \in 0..cmdNo'
      BY <1>1
    <2> QED BY <1>1, <1>4, <1>5, <2>1 DEF CommandsOK
  <1>7. OutputsOK'
    <2> SUFFICES ASSUME NEW f \in Files
                 PROVE  /\ lstFile'[f] > 0 /\ objFile'[f] > 0 => lstFile'[f] = objFile'[f]
                        /\ lstFile'[f] <= tableNo' /\ objFile'[f] <= tableNo'
      BY DEF OutputsOK
    <2>1. /\ lstFile[f] > 0 /\ objFile[f] > 0 => lstFile[f] = objFile[f]
          /\ lstFile[f] <= tableNo /\ objFile[f] <= tableNo
      BY DEF CommandInv, OutputsOK
    <2>2. what <= tableNo /\ tableNo' = tableNo
      BY <1>1, Numbers
    <2> QED BY <1>5, <2>1, <2>2, Zenon
  <1>8. TableOutputsOK'
    BY <1>1, <1>4, <1>5, Zenon DEF TableOutputsOK
  <1>9. phase' = "pass1"
    BY <1>1 DEF FreshLocals
  <1> QED BY <1>1, <1>3, <1>6, <1>7, <1>8, <1>9 DEF CommandInv

\* Nothing happens.
LEMMA CommandStutters == ASSUME CommandInv, UNCHANGED allVars PROVE CommandInv'
  <1>1. UNCHANGED vars /\ UNCHANGED commandVars
    BY DEF allVars
  <1>2. Inv' /\ (cmd = "assembling" => SymbolInv')
    BY <1>1, NextInv, SymbolStep DEF CommandInv
  <1>3. /\ CommandsOK' /\ OutputsOK' /\ TableOutputsOK'
        /\ UNCHANGED <<cmd, cmdNo, tableNo, tableFile, file>>
    BY <1>1 DEF CommandInv, CommandsOK, OutputsOK, TableOutputsOK, commandVars
  <1>4. UNCHANGED <<phase, symtab, stVec>>
    BY <1>1 DEF vars, pass1Vars
  <1> QED BY <1>2, <1>3, <1>4 DEF CommandInv, Held

\* Every step of a session preserves the invariant.
LEMMA CommandNextInv == CommandInv /\ [CommandNext]_allVars => CommandInv'
  <1> SUFFICES ASSUME CommandInv, [CommandNext]_allVars PROVE CommandInv'
    OBVIOUS
  <1> QED BY NotBegunInv, BeginInv, AssembleStepInv, ReturnInv, CommandStutters
          DEF CommandNext, Return

\* So it holds all the time.
LEMMA CommandInvariance == CommandSpec => []CommandInv
  BY CommandInitInv, CommandNextInv, PTL DEF CommandSpec

(* All variables of a session keep their types, those of the assembler       *)
(* included, over any number of commands.                                    *)
THEOREM CommandTypeCorrect == CommandSpec => []CommandTypeOK
  <1>1. CommandInv => CommandTypeOK
    BY CommandAssumption DEF CommandInv, CommandsOK, CommandTypeOK, Inv, OnDisk
  <1> QED BY <1>1, CommandInvariance, PTL

(* What the user finds at the prompt goes together, whatever files were      *)
(* assembled and whatever failed: two complete outputs of a file are of one  *)
(* assembly, and those of the file assembled last have the addresses the     *)
(* symbol command prints.                                                    *)
THEOREM OutputsBelongTogether == CommandSpec => []SymbolsAreOfOutputs
  <1>1. ASSUME CommandInv PROVE SymbolsAreOfOutputs
    <2>1. OutputsOK /\ TableOutputsOK
      BY <1>1 DEF CommandInv
    <2>2. /\ lstFile[tableFile] > 0 => lstFile[tableFile] = tableNo
          /\ objFile[tableFile] > 0 => objFile[tableFile] = tableNo
      BY <2>1, Numbers, Zenon DEF TableOutputsOK
    <2> QED BY <2>1, <2>2, Zenon DEF OutputsOK, SymbolsAreOfOutputs
  <1> QED BY <1>1, CommandInvariance, PTL

(* No label of an earlier program is ever looked up: the table of a command  *)
(* at work holds labels of its own source file, at their addresses.          *)
THEOREM TableIsOfThisProgram == CommandSpec => []TableOfThisProgram
  <1>1. CommandInv => TableOfThisProgram
    BY DEF CommandInv, TableOfThisProgram, Held
  <1> QED BY <1>1, CommandInvariance, PTL

(* A failed assembly leaves no output file, and no symbol if it was pass 1   *)
(* that failed.                                                              *)
THEOREM FailedCommandCleansUp == CommandSpec => FailureLeavesNothing
  <1> DEFINE Fails == cmd = "assembling" /\ cmd' = "shell" /\ exitFlag' = "error" =>
                        /\ lstFile'[file] = Absent /\ objFile'[file] = Absent
                        /\ phase = "failed" /\ ~HasDummy => symtab' = EmptySymtab
  <1>1. CommandInv /\ [CommandNext]_allVars => [Fails]_allVars
    <2> SUFFICES ASSUME CommandInv, CommandNext, cmd = "assembling", cmd' = "shell",
                        exitFlag' = "error"
                 PROVE  /\ lstFile'[file] = Absent /\ objFile'[file] = Absent
                        /\ phase = "failed" /\ ~HasDummy => symtab' = EmptySymtab
      OBVIOUS
    <2>1. ReturnError
      BY DEF CommandNext, Refused, OutputsNotOpened, NoStatementVector, NewCommand, Begin,
             AssembleStep, ReturnOk, Returns, commandVars
    <2>2. /\ lstFile \in [Files -> OnDisk] /\ objFile \in [Files -> OnDisk] /\ file \in Files
      BY DEF CommandInv, CommandsOK
    <2>3. lstFile'[file] = Absent /\ objFile'[file] = Absent
      BY <2>1, <2>2 DEF ReturnError, Returns, Put
    <2> QED BY <2>1, <2>3 DEF ReturnError, Returns, CommandInv, SymbolInv
  <1>2. FailureLeavesNothing <=> [][Fails]_allVars
    BY PTL DEF FailureLeavesNothing
  <1> HIDE DEF Fails
  <1> QED BY <1>1, <1>2, CommandInvariance, PTL DEF CommandSpec
=============================================================================
