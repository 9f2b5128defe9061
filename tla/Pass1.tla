------------------------------- MODULE Pass1 --------------------------------
(* Pass 1 of the assembler (assemble_pass1.c): one action is one iteration   *)
(* of the loop over the source lines.  It assigns an address to every        *)
(* statement, enters the labels in the symbol table and pushes the statement *)
(* for pass 2.  The source file is the environment: each iteration reads any *)
(* line of Lines and finds, or not, the end of the file behind it.           *)
EXTENDS AsmDefs

VARIABLES
  phase,    \* where the assembly stands (see Phases)
  errCode,  \* the error assemble_pass1 or assemble_pass2 returns
  lineNo, loc,
  symtab,   \* label -> address
  stVec,    \* the statements, in source order
  rsize     \* capacity of stVec

pass1Vars == <<phase, errCode, lineNo, loc, symtab, stVec, rsize>>

(* "dummy": the loop has ended, the closing dummy statement is to be pushed; *)
(* "init2", "pass2": pass 1 has returned 0; "passed", "failed": the assembly *)
(* has returned; "undefined": the C program has left defined behaviour.      *)
Phases == {"pass1", "dummy", "init2", "pass2", "passed", "failed", "undefined"}
Errors == {"none", "ADDR_RESOLUTION_FAIL", "SYNTAX_PARSE_FAIL", "ALLOC_FAIL"}

EmptySymtab == [n \in {} |-> 0]

Pass1Init ==
  /\ phase = "pass1" /\ errCode = "none"
  /\ lineNo = 1 /\ loc = 0
  /\ symtab = EmptySymtab
  /\ stVec = <<>> /\ rsize = VEC_INIT

-----------------------------------------------------------------------------
\* Mutation of Reject: the table is not emptied.
RejectKeepingSymbols(code) ==
  /\ phase' = "failed" /\ errCode' = code
  /\ UNCHANGED <<lineNo, loc, symtab, stVec, rsize>>

\* The error exit: pass 1 leaves an empty symbol table behind.
Reject(code) ==
  /\ phase' = "failed" /\ errCode' = code
  /\ symtab' = EmptySymtab
  /\ UNCHANGED <<lineNo, loc, stVec, rsize>>

Undefined ==
  /\ phase' = "undefined"
  /\ UNCHANGED <<errCode, lineNo, loc, symtab, stVec, rsize>>

\* vecPush: a full vector grows first.
VecFull == Len(stVec) = rsize
VecPush(st) ==
  /\ stVec' = Append(stVec, st)
  /\ rsize' = IF VecFull THEN rsize + VEC_INC ELSE rsize

\* The label of a START statement names the program, it is not a symbol.
DefinesSymbol(l) == l.label # NoTok /\ ~(l.mn = "START" /\ ~l.ext)

\* Mutation of LabelAccepted: the label is not looked up.
LabelAcceptedAgain(l) == DefinesSymbol(l) => l.label \notin BadNames

LabelAccepted(l) ==
  DefinesSymbol(l) => l.label \notin BadNames /\ l.label \notin DOMAIN symtab

AddSymbol(name, addr) ==
  [n \in DOMAIN symtab \cup {name} |-> IF n = name THEN addr ELSE symtab[n]]

\* Mutation of Ended: the loop is left at END only.
EndedByEnd(stLoc, eof) == stLoc = -1

\* The loop is left behind END, or when the end of the file has been seen.
Ended(stLoc, eof) == stLoc = -1 \/ eof

Accept(l, eof, stLoc, newLoc) ==
  /\ symtab' = IF DefinesSymbol(l) THEN AddSymbol(l.label, stLoc) ELSE symtab
  /\ VecPush([src |-> l, lineNo |-> lineNo, loc |-> stLoc])
  /\ loc' = newLoc
  /\ phase' = IF Ended(stLoc, eof) THEN "dummy" ELSE "pass1"
  /\ lineNo' = IF stLoc = -1 THEN lineNo ELSE lineNo + 1
  /\ UNCHANGED errCode

\* Mutation of OutOfRange: off by one.
OutOfRangeLate(newLoc) == newLoc > LOC_MAX + 1

\* The location counter behind a statement may be LOC_MAX, not more.
OutOfRange(newLoc) == newLoc > LOC_MAX

(* What every line goes through that its own test accepts: stLoc is the      *)
(* statement's address, newLoc the location counter behind it.  When memory  *)
(* runs out: addSymbol reports a missing node or key but writes to a missing *)
(* name, and a full vector that cannot grow has lost the array that          *)
(* cleanupVec then reads.                                                    *)
NextIteration(l, eof, stLoc, newLoc) ==
  IF OutOfRange(newLoc) \/ ~LabelAccepted(l)
  THEN Reject("SYNTAX_PARSE_FAIL")
  ELSE \/ Accept(l, eof, stLoc, newLoc)
       \/ AllocMayFail /\ DefinesSymbol(l) /\ Reject("ALLOC_FAIL")
       \/ AllocMayFail /\ (DefinesSymbol(l) \/ VecFull) /\ Undefined

\* A line the current statement's own test refuses.
Syntax == Reject("SYNTAX_PARSE_FAIL")

-----------------------------------------------------------------------------
\* One action for each kind of line; l is the line read, eof whether it is
\* the last one.
Reading(l) == phase = "pass1" /\ ~l.torn
Is(l, directive) == l.mn = directive /\ ~l.ext

TornLine(l) == phase = "pass1" /\ l.torn /\ Syntax

BlankOrLabel(l, eof) ==
  Reading(l) /\ l.mn = NoTok /\ NextIteration(l, eof, loc, loc)

Start(l, eof) ==
  /\ Reading(l) /\ Is(l, "START")
  /\ LET addr == ToInt(l.operand.val) IN
     IF /\ lineNo = 1 /\ l.label \notin LongNames
        /\ IsNumber(l.operand) /\ addr \in 0..LOC_MAX
     THEN NextIteration(l, eof, addr, addr)
     ELSE Syntax

Resb(l, eof) ==
  /\ Reading(l) /\ Is(l, "RESB")
  /\ LET size == ToInt(l.operand.val) IN
     IF IsNumber(l.operand) /\ size > 0 /\ size <= LOC_MAX
     THEN NextIteration(l, eof, loc, loc + size)
     ELSE Syntax

\* 3*size is computed in an int, so the test can see a wrapped product.
Resw(l, eof) ==
  /\ Reading(l) /\ Is(l, "RESW")
  /\ LET size == ToInt(l.operand.val) IN
     IF IsNumber(l.operand) /\ size > 0 /\ Wrap(3 * size) <= LOC_MAX
     THEN NextIteration(l, eof, loc, Wrap(loc + 3 * size))
     ELSE Syntax

\* Mutation of LiteralFits: off by one.
LiteralFitsLoosely(o) ==
  o.kind \in {"char", "hex"} /\ LiteralLen(o) <= TRECORD_CODE_LIMIT + 1

LiteralFits(o) ==
  o.kind \in {"char", "hex"} /\ LiteralLen(o) <= TRECORD_CODE_LIMIT

Byte(l, eof) ==
  /\ Reading(l) /\ Is(l, "BYTE")
  /\ IF LiteralFits(l.operand)
     THEN NextIteration(l, eof, loc, loc + LiteralLen(l.operand))
     ELSE Syntax

Word(l, eof) ==
  /\ Reading(l) /\ Is(l, "WORD")
  /\ IF IsNumber(l.operand) /\ ToInt(l.operand.val) \in -(WORD_MAX + 1)..WORD_MAX
     THEN NextIteration(l, eof, loc, loc + 3)
     ELSE Syntax

Base(l, eof) ==
  /\ Reading(l) /\ Is(l, "BASE")
  /\ IF Present(l.operand) THEN NextIteration(l, eof, loc, loc) ELSE Syntax

NoBase(l, eof) ==
  /\ Reading(l) /\ Is(l, "NOBASE")
  /\ IF Present(l.operand) THEN Syntax ELSE NextIteration(l, eof, loc, loc)

(* END is marked by the address -1, which also ends the loop.  Its operand   *)
(* must be a symbol already.                                                 *)
End(l, eof) ==
  /\ Reading(l) /\ Is(l, "END")
  /\ IF Present(l.operand) =>
          IsName(l.operand) /\ l.operand.name \in DOMAIN symtab
     THEN NextIteration(l, eof, -1, loc)
     ELSE Syntax

Instruction(l, eof) ==
  /\ Reading(l) /\ l.mn # NoTok /\ \A d \in Directives : ~Is(l, d)
  /\ IF KnownOpcode(l)
     THEN NextIteration(l, eof, loc, loc + InstructionLen(l))
     ELSE Syntax

\* Mutation of PushDummy: the dummy has the address of the last statement.
PushDummyAtLast ==
  /\ phase = "dummy"
  /\ VecPush([src |-> BlankLine, lineNo |-> 0, loc |-> stVec[Len(stVec)].loc])
  /\ phase' = "init2"
  /\ UNCHANGED <<errCode, lineNo, loc, symtab>>

\* The loop is over: pass 2 finds the end address in a dummy statement.
PushDummy ==
  /\ phase = "dummy"
  /\ VecPush([src |-> BlankLine, lineNo |-> 0, loc |-> loc])
  /\ phase' = "init2"
  /\ UNCHANGED <<errCode, lineNo, loc, symtab>>

-----------------------------------------------------------------------------
(* Allocations that fail.  Reading a line: reported, unless it is the Token  *)
(* itself that cannot be allocated, when createToken sets no error and       *)
(* assemble_pass1 returns 0 with the statements read so far, an emptied      *)
(* table and no dummy; with no line but a statement, cleanupStatement frees  *)
(* what was never initialized.                                               *)
ReadAllocFail ==
  /\ AllocMayFail /\ phase = "pass1"
  /\ \/ Reject("ALLOC_FAIL")
     \/ Undefined

TokenAllocFail(l) ==
  /\ AllocMayFail /\ phase = "pass1" /\ l # BlankLine
  /\ symtab' = EmptySymtab
  /\ phase' = IF stVec = <<>> THEN "undefined" ELSE "init2"
  /\ UNCHANGED <<errCode, lineNo, loc, stVec, rsize>>

\* The dummy itself, or a full vector that cannot grow.
DummyAllocFail ==
  /\ AllocMayFail /\ phase = "dummy"
  /\ \/ Reject("ALLOC_FAIL")
     \/ VecFull /\ Undefined

-----------------------------------------------------------------------------
(* Bound: the file has MaxLines lines at most.  When reading fails, a line   *)
(* is cut short and the end of the file is not found behind it (the loop     *)
(* asks feof, never ferror); if it fails from then on, only empty lines are  *)
(* read, without end.  That loop is cut off behind line MaxLines: pass 1 is  *)
(* then still at work and takes no further step.                             *)
WithinBound == lineNo <= MaxLines
MayEnd(l, eof) == lineNo = MaxLines => eof \/ (ReadMayFail /\ l = BlankLine)

Pass1Next ==
  \/ \E l \in Lines :
       /\ WithinBound
       /\ \/ TornLine(l)
          \/ TokenAllocFail(l)
          \/ \E eof \in BOOLEAN :
            /\ MayEnd(l, eof)
            /\ \/ BlankOrLabel(l, eof) \/ Start(l, eof) \/ Resb(l, eof)
               \/ Resw(l, eof) \/ Byte(l, eof) \/ Word(l, eof) \/ Base(l, eof)
               \/ NoBase(l, eof) \/ End(l, eof) \/ Instruction(l, eof)
  \/ WithinBound /\ ReadAllocFail
  \/ PushDummy \/ DummyAllocFail
=============================================================================
