------------------------------- MODULE Pass2 --------------------------------
(* Pass 2 of the assembler (assemble_pass2.c): one action is one iteration   *)
(* of the loop over the statements pass 1 left.  It encodes instructions and *)
(* data, writes the listing, and packs the code into the text records of the *)
(* object file, which printTextRec delays in a buffer of limited size.       *)
EXTENDS Pass1

VARIABLES
  stIdx,                                \* next statement
  pcAddr, baseAddr, baseAvailable,
  startAddr, firstInstruction,
  objcodeLen,                           \* code not yet put into a record
  curTextRecordLen, textRecBuf,         \* the delayed text record
  mRecVec,                              \* addresses of modification records
  objOut, lstOut                        \* the two output files

pass2Vars == <<stIdx, pcAddr, baseAddr, baseAvailable, startAddr,
               firstInstruction, objcodeLen, curTextRecordLen, textRecBuf,
               mRecVec, objOut, lstOut>>
vars == <<pass1Vars, pass2Vars>>

(* An encoded statement: the opcode bits (named by the mnemonic), the e bit, *)
(* the set of the other addressing bits, and the low-order field; AllOnes   *)
(* when a negative displacement has been or-ed over the opcode.              *)
Code == [mn : STRING, ext : BOOLEAN, mode : SUBSET {"n", "i", "x", "b", "p"},
         field : Int]
NoCode == [mn |-> NoTok, ext |-> FALSE, mode |-> {}, field |-> 0]

\* A piece of code at its address, and what the object file is made of: "T"
\* begins a text record, "body" ends it.
Item == [loc : Int, len : Nat, code : Code]
Rec(kind, addr, len, items) ==
  [kind |-> kind, addr |-> addr, len |-> len, items |-> items]

Pass2Init ==
  /\ stIdx = 1
  /\ pcAddr = 0 /\ baseAddr = 0 /\ baseAvailable = FALSE
  /\ startAddr = 0 /\ firstInstruction = 0
  /\ objcodeLen = 0 /\ curTextRecordLen = 0
  /\ textRecBuf = <<>> /\ mRecVec = <<>>
  /\ objOut = <<>> /\ lstOut = <<>>

-----------------------------------------------------------------------------
\* Operands of format 3/4 instructions.
IsConstant(o) == o.kind = "num" /\ o.val >= 0
IsSymbol(o) == o.kind = "name" /\ o.name \in DOMAIN symtab

ConstantFits(l) ==
  LET range == IF l.ext THEN EXT_RANGE ELSE PC_RANGE
  IN  ToInt(l.operand.val) \in -range..range-1

\* Mutation of PcRelative: off by one.
PcRelativeFar(target, pc) == target - pc \in -PC_RANGE..PC_RANGE

PcRelative(target, pc) == target - pc \in -PC_RANGE..PC_RANGE-1
BaseRelative(target) ==
  baseAvailable /\ target - baseAddr \in 0..2*PC_RANGE-1

Relative(target, pc) ==
  IF PcRelative(target, pc) THEN {"p"}
  ELSE IF BaseRelative(target) THEN {"b"} ELSE {}

\* A 12-bit displacement ends up in the upper bits of a 20-bit field: only
\* the 24-bit instruction is shifted back.
Displacement(l, d) ==
  IF l.ext THEN 256 * (d % (2 * PC_RANGE)) ELSE d % (2 * PC_RANGE)

PrefixMode(o) == CASE o.pre = "#" -> {"i"} [] o.pre = "@" -> {"n"}
                   [] OTHER -> {"n", "i"}
IndexMode(o) == IF o.next = "X" THEN {"x"} ELSE {}

\* Mutation of AbsoluteSymbol: also for a relative address.
ExtendedSymbol(l, pc) == Optab[l.mn] = 3 /\ IsSymbol(l.operand) /\ l.ext

AbsoluteSymbol(l, pc) ==
  /\ Optab[l.mn] = 3 /\ IsSymbol(l.operand)
  /\ l.ext /\ Relative(symtab[l.operand.name], pc) = {}

\* instruction |= disp
Encoding(l, mode, disp) ==
  IF disp >= 0
  THEN [mn |-> l.mn, ext |-> l.ext, mode |-> mode, field |-> disp]
  ELSE [mn |-> AllOnes, ext |-> TRUE, mode |-> {"n", "i", "x", "b", "p"},
        field |-> disp % (2 * (IF l.ext THEN EXT_RANGE ELSE PC_RANGE))]

Format34Code(l, pc) ==
  LET o == l.operand
      bits == PrefixMode(o) \cup IndexMode(o)
      target == symtab[o.name]
      rel == Relative(target, pc)
  IN  CASE ~Present(o)  -> Encoding(l, {"n", "i"}, 0)
        [] IsConstant(o) -> Encoding(l, bits, ToInt(o.val))
        [] OTHER ->
             Encoding(l, bits \cup rel,
               CASE rel = {"p"} -> Displacement(l, target - pc)
                 [] rel = {"b"} -> Displacement(l, target - baseAddr)
                 [] OTHER       -> target)

\* "none", or why the operand of a format 3/4 instruction is refused.
Format34Error(l, pc) ==
  LET o == l.operand IN
  IF Iff(l.mn) = "NO_ARG"
  THEN IF Present(o) THEN "SYNTAX_PARSE_FAIL" ELSE "none"
  ELSE
    CASE ~IsConstant(o) /\ ~IsSymbol(o) -> "SYNTAX_PARSE_FAIL"
      [] IsConstant(o) /\ ~ConstantFits(l) -> "SYNTAX_PARSE_FAIL"
      [] IsSymbol(o) /\ ~l.ext /\ Relative(symtab[o.name], pc) = {} ->
           "ADDR_RESOLUTION_FAIL"
      [] OTHER -> IF o.next \in {NoTok, "X"} THEN "none" ELSE "SYNTAX_PARSE_FAIL"

-----------------------------------------------------------------------------
\* Operands of format 2 instructions.
IsRegister(name) == name \in DOMAIN RegisterNumber
FirstRegister(o) == o.kind = "name" /\ o.pre = NoTok /\ IsRegister(o.name)
FirstNumber(o) == /\ o.kind = "num" /\ o.pre = NoTok
                  /\ ToInt(o.val) \in 0..REG_RANGE-1

\* The count of a SHIFT is read from the start of the operand text again, so
\* it is the first item that is tested.
SecondItem(l) ==
  IF Iff(l.mn) = "SHIFT_OP" THEN FirstNumber(l.operand)
  ELSE IsRegister(l.operand.next)

Format2Ok(l) ==
  LET o == l.operand IN
  CASE Iff(l.mn) = "CONSTANT_ARG" -> FirstNumber(o) /\ o.next = NoTok
    [] Iff(l.mn) = "SINGLE_ARG"   -> FirstRegister(o) /\ o.next = NoTok
    [] OTHER -> FirstRegister(o) /\ o.next # NoTok /\ SecondItem(l)

\* Mutation of Format2Code: the two registers are swapped.
Format2CodeSwapped(l) ==
  LET o == l.operand
      first == IF o.kind = "num" THEN ToInt(o.val) ELSE RegisterNumber[o.name]
      second == IF o.next = NoTok THEN 0 ELSE RegisterNumber[o.next]
  IN  Encoding(l, {}, REG_RANGE * second + first)

Format2Code(l) ==
  LET o == l.operand
      first == IF o.kind = "num" THEN ToInt(o.val) ELSE RegisterNumber[o.name]
      second == IF o.next = NoTok THEN 0 ELSE RegisterNumber[o.next]
  IN  Encoding(l, {}, REG_RANGE * first + second)

InstructionError(l, pc) ==
  LET takesOperand == Optab[l.mn] # 1 /\ Iff(l.mn) # "NO_ARG" IN
  IF takesOperand # Present(l.operand) THEN "SYNTAX_PARSE_FAIL"
  ELSE CASE Optab[l.mn] = 3 -> Format34Error(l, pc)
         [] Optab[l.mn] = 2 /\ ~Format2Ok(l) -> "SYNTAX_PARSE_FAIL"
         [] OTHER -> "none"

InstructionCode(l, pc) ==
  CASE Optab[l.mn] = 3 -> Format34Code(l, pc)
    [] Optab[l.mn] = 2 -> Format2Code(l)
    [] OTHER -> Encoding(l, {}, 0)

-----------------------------------------------------------------------------
\* initStates and the header record.
InitStates ==
  /\ phase = "init2" /\ phase' = "pass2"
  /\ pcAddr' = stVec[1].loc /\ startAddr' = stVec[1].loc
  /\ firstInstruction' = stVec[1].loc
  /\ objOut' = <<Rec("H", stVec[1].loc, stVec[Len(stVec)].loc - stVec[1].loc, <<>>)>>
  /\ UNCHANGED <<errCode, lineNo, loc, symtab, stVec, rsize, stIdx, baseAddr,
                 baseAvailable, objcodeLen, curTextRecordLen, textRecBuf,
                 mRecVec, lstOut>>

Fail2(code) ==
  /\ phase' = "failed" /\ errCode' = code
  /\ UNCHANGED <<lineNo, loc, symtab, stVec, rsize, pass2Vars>>

InitStatesAllocFail ==
  AllocMayFail /\ phase = "init2" /\ Fail2("ALLOC_FAIL")

-----------------------------------------------------------------------------
\* Mutations of EndsRecord: the new code is not counted; the flag is ignored.
EndsRecordLate(flush, codeLen) ==
  curTextRecordLen > 0 /\ (flush \/ curTextRecordLen >= TRECORD_CODE_LIMIT)
EndsRecordByLength(flush, codeLen) ==
  curTextRecordLen > 0 /\ curTextRecordLen + codeLen > TRECORD_CODE_LIMIT

\* printTextRec is called for every statement, with codeLen bytes waiting in
\* objcodeBuf; flush is the statement's FLUSH_OBJRECORD flag.
EndsRecord(flush, codeLen) ==
  /\ curTextRecordLen > 0
  /\ flush \/ curTextRecordLen + codeLen > TRECORD_CODE_LIMIT

\* Mutation of Flushed: only a full record is written.
FlushedWhenFull(flush, codeLen) ==
  IF EndsRecord(flush, codeLen) /\ ~flush
  THEN Append(objOut, Rec("body", 0, curTextRecordLen, textRecBuf))
  ELSE objOut

Flushed(flush, codeLen) ==
  IF EndsRecord(flush, codeLen)
  THEN Append(objOut, Rec("body", 0, curTextRecordLen, textRecBuf))
  ELSE objOut

\* Mutation of KeptLen: what a full record held is subtracted, not dropped.
KeptLenRemainder(flush, codeLen) ==
  IF EndsRecord(flush, codeLen) THEN curTextRecordLen - TRECORD_CODE_LIMIT
  ELSE curTextRecordLen

KeptLen(flush, codeLen) ==
  IF EndsRecord(flush, codeLen) THEN 0 ELSE curTextRecordLen

\* Mutation of Kept: the buffer is not emptied.
KeptForever(flush, codeLen) == textRecBuf

Kept(flush, codeLen) ==
  IF KeptLen(flush, codeLen) = 0 THEN <<>> ELSE textRecBuf

\* A statement without object code: it is listed, and may end a record.
PrintNoCode(flush) ==
  /\ objOut' = Flushed(flush, objcodeLen)
  /\ curTextRecordLen' = KeptLen(flush, objcodeLen)
  /\ textRecBuf' = Kept(flush, objcodeLen)
  /\ lstOut' = Append(lstOut, [loc |-> stVec[stIdx].loc, len |-> 0, code |-> NoCode])
  /\ stIdx' = stIdx + 1
  /\ UNCHANGED <<phase, errCode, lineNo, loc, symtab, stVec, rsize, startAddr,
                 mRecVec, objcodeLen>>

\* The record a piece of code at addr goes into, begun when there is none.
Opened(addr, len) ==
  IF KeptLen(FALSE, len) = 0
  THEN Append(Flushed(FALSE, len), Rec("T", addr, 0, <<>>))
  ELSE Flushed(FALSE, len)

(* A statement with len bytes of code.  absolute: its address field needs a  *)
(* modification record.  When that cannot be allocated printTextRec returns  *)
(* early, and the caller does not look at what it returns.                   *)
PrintCode(len, code, absolute) ==
  LET addr == stVec[stIdx].loc
      item == [loc |-> addr, len |-> len, code |-> code] IN
  /\ lstOut' = Append(lstOut, item)
  /\ objOut' = Opened(addr, len)
  /\ stIdx' = stIdx + 1
  /\ \/ /\ mRecVec' = IF absolute THEN Append(mRecVec, addr + 1) ELSE mRecVec
        /\ textRecBuf' = Append(Kept(FALSE, len), item)
        /\ curTextRecordLen' = KeptLen(FALSE, len) + len
        /\ objcodeLen' = 0
     \/ /\ AllocMayFail /\ absolute
        /\ objcodeLen' = len
        /\ UNCHANGED <<mRecVec, textRecBuf, curTextRecordLen>>
  /\ UNCHANGED <<phase, errCode, lineNo, loc, symtab, stVec, rsize, startAddr>>

-----------------------------------------------------------------------------
\* vecPush on a full mRecVec loses its array when it cannot grow; the closing
\* printModRec, or cleanupVec, then reads it.
MRecVecFull ==
  Len(mRecVec) >= MREC_INIT /\ (Len(mRecVec) - MREC_INIT) % VEC_INC = 0

\* One action for each kind of statement; the last statement of stVec is
\* taken for the dummy and is not processed.
Processing(l) == phase = "pass2" /\ stIdx < Len(stVec) /\ l = stVec[stIdx].src

AddressesSame == UNCHANGED <<pcAddr, baseAddr, baseAvailable, firstInstruction>>

BlankStatement(l) ==
  Processing(l) /\ l.mn = NoTok /\ PrintNoCode(FALSE) /\ AddressesSame

ReserveStatement(l) ==
  /\ Processing(l) /\ (Is(l, "RESB") \/ Is(l, "RESW"))
  /\ PrintNoCode(TRUE) /\ AddressesSame

(* The text record buffer has room for TRECORD_CODE_LIMIT bytes; a longer    *)
(* literal is written past its end.                                          *)
ByteStatement(l) ==
  /\ Processing(l) /\ Is(l, "BYTE")
  /\ LET len == LiteralCodeLen(l.operand) IN
     IF len > TRECORD_CODE_LIMIT
     THEN Undefined /\ UNCHANGED pass2Vars
     ELSE /\ PrintCode(len, [NoCode EXCEPT !.mn = l.mn, !.field = l.operand.val],
                       FALSE)
          /\ AddressesSame

\* The low three bytes of the constant.
WordStatement(l) ==
  /\ Processing(l) /\ Is(l, "WORD")
  /\ PrintCode(3, [NoCode EXCEPT !.mn = l.mn,
                        !.field = ToInt(l.operand.val) % (2 * (WORD_MAX + 1))],
               FALSE)
  /\ AddressesSame

IsDefinedName(o) == IsName(o) /\ o.name \in DOMAIN symtab

BaseStatement(l) ==
  /\ Processing(l) /\ Is(l, "BASE") /\ IsDefinedName(l.operand)
  /\ baseAddr' = symtab[l.operand.name] /\ baseAvailable' = TRUE
  /\ PrintNoCode(FALSE) /\ UNCHANGED <<pcAddr, firstInstruction>>

UndefinedBase(l) ==
  /\ Processing(l) /\ Is(l, "BASE") /\ ~IsDefinedName(l.operand)
  /\ Fail2("SYNTAX_PARSE_FAIL")

NoBaseStatement(l) ==
  /\ Processing(l) /\ Is(l, "NOBASE")
  /\ baseAvailable' = FALSE
  /\ PrintNoCode(FALSE) /\ UNCHANGED <<pcAddr, baseAddr, firstInstruction>>

StartStatement(l) ==
  Processing(l) /\ Is(l, "START") /\ PrintNoCode(FALSE) /\ AddressesSame

\* pcAddr becomes the address where execution starts.
EndStatement(l) ==
  /\ Processing(l) /\ Is(l, "END")
  /\ IF Present(l.operand) /\ ~IsDefinedName(l.operand)
     THEN Fail2("SYNTAX_PARSE_FAIL")
     ELSE /\ pcAddr' = IF Present(l.operand) THEN symtab[l.operand.name]
                       ELSE firstInstruction
          /\ PrintNoCode(TRUE)
          /\ UNCHANGED <<baseAddr, baseAvailable, firstInstruction>>

IsInstruction(l) == l.mn # NoTok /\ \A d \in Directives : ~Is(l, d)

\* Mutation of FirstInstruction: taken at every instruction.
FirstInstructionLatest == stVec[stIdx].loc

\* Taken again at every instruction until it differs from the start address.
FirstInstruction ==
  IF firstInstruction = startAddr THEN stVec[stIdx].loc ELSE firstInstruction

InstructionStatement(l) ==
  /\ Processing(l) /\ IsInstruction(l)
  /\ LET pc == stVec[stIdx + 1].loc IN
     /\ InstructionError(l, pc) = "none"
     /\ pcAddr' = pc
     /\ PrintCode(InstructionLen(l), InstructionCode(l, pc), AbsoluteSymbol(l, pc))
     /\ firstInstruction' = FirstInstruction
     /\ UNCHANGED <<baseAddr, baseAvailable>>

MRecVecAllocFail(l) ==
  /\ AllocMayFail /\ MRecVecFull
  /\ Processing(l) /\ IsInstruction(l)
  /\ LET pc == stVec[stIdx + 1].loc IN
     InstructionError(l, pc) = "none" /\ AbsoluteSymbol(l, pc)
  /\ Undefined /\ UNCHANGED pass2Vars

RefusedInstruction(l) ==
  /\ Processing(l) /\ IsInstruction(l)
  /\ LET error == InstructionError(l, stVec[stIdx + 1].loc) IN
     error # "none" /\ Fail2(error)

AllPrinted == stIdx = Len(stVec)

\* The modification records and the end record.
PrintEnd ==
  /\ phase = "pass2" /\ AllPrinted
  /\ objOut' = objOut \o [i \in DOMAIN mRecVec |-> Rec("M", mRecVec[i], 0, <<>>)]
                       \o <<Rec("E", pcAddr, 0, <<>>)>>
  /\ phase' = "passed"
  /\ UNCHANGED <<errCode, lineNo, loc, symtab, stVec, rsize, stIdx, pcAddr,
                 baseAddr, baseAvailable, startAddr, firstInstruction,
                 objcodeLen, curTextRecordLen, textRecBuf, mRecVec, lstOut>>

Pass2Next ==
  \/ InitStates \/ InitStatesAllocFail \/ PrintEnd
  \/ \E l \in Lines \cup {BlankLine} :
       \/ BlankStatement(l) \/ ReserveStatement(l) \/ ByteStatement(l)
       \/ WordStatement(l) \/ BaseStatement(l) \/ UndefinedBase(l)
       \/ NoBaseStatement(l) \/ StartStatement(l) \/ EndStatement(l)
       \/ InstructionStatement(l) \/ MRecVecAllocFail(l) \/ RefusedInstruction(l)
=============================================================================
