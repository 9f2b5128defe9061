----------------------------- MODULE OutputProofs -----------------------------
(* Proofs about what pass 2 writes: it leaves no buffer, its text records    *)
(* have no gap, the image is that of the listing, every address in it is     *)
(* modified by a record, and it grows without loading a byte twice.          *)
EXTENDS CodeProofs

\* When memory does not run out, no step of pass 1 is undefined.
LEMMA Pass1Defined ==
  ASSUME ~AllocMayFail, Pass1Next, phase # "undefined" PROVE phase' # "undefined"
  <1>1. ASSUME NEW l, NEW eof, NEW a, NEW b, NextIteration(l, eof, a, b)
        PROVE  phase' # "undefined"
    BY <1>1 DEF NextIteration, Reject, Accept, Ended
  <1>2. Syntax => phase' # "undefined"
    BY DEF Syntax, Reject
  <1>3. ASSUME NEW l, NEW eof,
               \/ BlankOrLabel(l, eof) \/ Start(l, eof) \/ Resb(l, eof) \/ Resw(l, eof)
               \/ Byte(l, eof) \/ Word(l, eof) \/ Base(l, eof) \/ NoBase(l, eof)
               \/ End(l, eof) \/ Instruction(l, eof)
        PROVE  phase' # "undefined"
    BY <1>1, <1>2, <1>3 DEF BlankOrLabel, Start, Resb, Resw, Byte, Word, Base, NoBase, End,
                            Instruction
  <1> QED BY <1>2, <1>3 DEF Pass1Next, TornLine, TokenAllocFail, PushDummy, ReadAllocFail,
                            DummyAllocFail

\* The statement pass 2 is at is a literal that text behind its quote makes too
\* long for a record.
TailTooLong ==
  /\ stIdx \in 1..Len(stVec) /\ Is(stVec[stIdx].src, "BYTE")
  /\ LET o == stVec[stIdx].src.operand IN
     /\ o.tail > 0
     /\ LiteralLen(o) <= TRECORD_CODE_LIMIT /\ LiteralCodeLen(o) > TRECORD_CODE_LIMIT

\* Pass 1 has accepted what pass 2 cannot hold: there is text behind the quote.
LEMMA OverlongLiteral ==
  ASSUME Inv, NEW l, Processing(l), Is(l, "BYTE"), LiteralCodeLen(l.operand) > TRECORD_CODE_LIMIT
  PROVE  TailTooLong
  <1>1. /\ l \in Lines \cup {BlankLine} /\ StoredLine(l)
        /\ stIdx \in Nat \ {0} /\ stIdx < Len(stVec) /\ l = stVec[stIdx].src
    BY StatementHere DEF Inv, Processing
  <1>2. l.operand.kind \in {"char", "hex"} /\ LiteralLen(l.operand) <= TRECORD_CODE_LIMIT
    BY <1>1 DEF StoredLine
  <1>3. /\ LiteralLen(l.operand) \in Nat /\ LiteralCodeLen(l.operand) \in Nat
        /\ l.operand.tail = 0 => LiteralLen(l.operand) = LiteralCodeLen(l.operand)
    BY <1>1, <1>2, LiteralLens
  <1>4. l.operand.tail \in Nat
    BY <1>1, LineFields
  <1>5. l.operand.tail # 0
    BY <1>2, <1>3, RangeAssumption
  <1>6. l.operand.tail > 0
    BY <1>4, <1>5
  <1>7. stIdx \in 1..Len(stVec)
    BY <1>1 DEF Inv, TypeOK
  <1> QED BY <1>1, <1>2, <1>6, <1>7 DEF TailTooLong

\* When memory does not run out, that is how pass 2 comes to write beyond its
\* buffer.
LEMMA Pass2Leaves ==
  ASSUME Inv, ~AllocMayFail, Pass2Next, phase # "undefined", phase' = "undefined"
  PROVE  TailTooLong /\ stIdx' = stIdx /\ stVec' = stVec
  <1>1. ASSUME NEW l, \/ BlankStatement(l) \/ ReserveStatement(l) \/ BaseStatement(l)
                      \/ NoBaseStatement(l) \/ StartStatement(l) \/ EndStatement(l)
        PROVE  phase' # "undefined"
    BY <1>1 DEF BlankStatement, ReserveStatement, BaseStatement, NoBaseStatement,
                StartStatement, EndStatement, PrintNoCode, Fail2
  <1>2. ASSUME NEW l, \/ WordStatement(l) \/ UndefinedBase(l) \/ InstructionStatement(l)
                      \/ RefusedInstruction(l)
        PROVE  phase' # "undefined"
    BY <1>2 DEF WordStatement, UndefinedBase, InstructionStatement, RefusedInstruction,
                PrintCode, Fail2
  <1>3. PICK l : ByteStatement(l)
    BY <1>1, <1>2 DEF Pass2Next, InitStates, InitStatesAllocFail, PrintEnd, MRecVecAllocFail
  <1>4. /\ Processing(l) /\ Is(l, "BYTE") /\ LiteralCodeLen(l.operand) > TRECORD_CODE_LIMIT
        /\ stIdx' = stIdx /\ stVec' = stVec
    BY <1>3 DEF ByteStatement, PrintCode, Undefined, pass2Vars
  <1> QED BY <1>4, OverlongLiteral

(* When memory does not run out, the assembler leaves its buffers for one    *)
(* reason only, whatever lines the source file holds: a literal that was     *)
(* accepted without the text behind its quote (pass2.c:171).                 *)
THEOREM OnlyTailsOverrun == Spec => []LeavesBuffersByTail
  <1>1. Init => LeavesBuffersByTail
    BY DEF Init, Pass1Init, LeavesBuffersByTail
  <1>2. ASSUME Inv, LeavesBuffersByTail, [Next]_vars PROVE LeavesBuffersByTail'
    <2> SUFFICES ASSUME phase' = "undefined", ~AllocMayFail PROVE TailTooLong'
      BY DEF LeavesBuffersByTail, TailTooLong
    <2>1. TailTooLong /\ stIdx' = stIdx /\ stVec' = stVec
      <3>1. CASE phase = "undefined"
        <4>1. TailTooLong
          BY <1>2, <3>1 DEF LeavesBuffersByTail, TailTooLong
        <4>2. ~Pass1Next
          BY <3>1 DEF Pass1Next, TornLine, TokenAllocFail, BlankOrLabel, Start, Resb, Resw,
                      Byte, Word, Base, NoBase, End, Instruction, Reading, PushDummy,
                      ReadAllocFail, DummyAllocFail
        <4>3. ~Pass2Next
          BY <3>1 DEF Pass2Next, InitStates, InitStatesAllocFail, PrintEnd, MRecVecAllocFail,
                      BlankStatement, ReserveStatement, ByteStatement, WordStatement,
                      BaseStatement, UndefinedBase, NoBaseStatement, StartStatement,
                      EndStatement, InstructionStatement, RefusedInstruction, Processing
        <4>4. stIdx' = stIdx /\ stVec' = stVec
          BY <1>2, <4>2, <4>3 DEF Next, vars, pass1Vars, pass2Vars
        <4> QED BY <4>1, <4>4
      <3>2. CASE phase # "undefined"
        <4>1. ~Pass1Next
          BY <3>2, Pass1Defined
        <4>2. Pass2Next
          BY <1>2, <3>2, <4>1 DEF Next, vars, pass1Vars
        <4> QED BY <1>2, <3>2, <4>2, Pass2Leaves
      <3> QED BY <3>1, <3>2
    <2> QED BY <2>1, Zenon DEF TailTooLong, Is
  <1> QED BY <1>1, <1>2, Invariance, PTL DEF Spec

-----------------------------------------------------------------------------
\* HoldsAddress of a line and its code.
Holds(l, code) ==
  /\ l.operand.kind = "name" /\ l.ext
  /\ {"b", "p"} \cap code.mode = {} \/ code.mn = AllOnes

(* The steps of pass 2, when memory does not run out: the header, a          *)
(* statement without code, a statement with the code it declares, the end.   *)
ListsNothing(flush) ==
  /\ PrintNoCode(flush) /\ phase = "pass2" /\ stIdx < Len(stVec)
  /\ ~IsInstruction(stVec[stIdx].src)
  /\ flush \/ (DeclaredSize(stVec[stIdx].src) = 0 /\ ~Is(stVec[stIdx].src, "END"))
ListsItem(len, code, absolute) ==
  /\ PrintCode(len, code, absolute) /\ phase = "pass2" /\ stIdx < Len(stVec)
  /\ len = DeclaredSize(stVec[stIdx].src) /\ ~Is(stVec[stIdx].src, "END")
  /\ absolute <=> Holds(stVec[stIdx].src, code)

\* Only an instruction, and no directive, holds the address of a symbol.
LEMMA HoldsNothing ==
  ASSUME NEW l \in Lines \cup {BlankLine}, ~IsInstruction(l), NEW code
  PROVE  ~Holds(l, code)
  BY LineFields DEF Holds, IsInstruction, Is, Directives

\* An accepted instruction holds one if its symbol is not relative.
LEMMA HoldsSymbol ==
  ASSUME TypeOK, NEW l \in Lines \cup {BlankLine}, NEW pc \in Int,
         KnownOpcode(l), InstructionError(l, pc) = "none"
  PROVE  AbsoluteSymbol(l, pc) <=> Holds(l, InstructionCode(l, pc))
  <1> DEFINE o == l.operand
             bits == PrefixMode(o) \cup IndexMode(o)
             target == symtab[o.name]
             rel == Relative(target, pc)
             disp == CASE rel = {"p"} -> Displacement(l, target - pc)
                       [] rel = {"b"} -> Displacement(l, target - baseAddr)
                       [] OTHER       -> target
             code == InstructionCode(l, pc)
  <1> SUFFICES ASSUME l.ext, o.kind = "name" PROVE AbsoluteSymbol(l, pc) <=> Holds(l, code)
    BY DEF AbsoluteSymbol, Holds, IsSymbol
  <1>1. Optab[l.mn] = 3 /\ l.mn # AllOnes
    BY OptabAssumption DEF KnownOpcode
  <1>2. Present(o) /\ ~IsConstant(o)
    BY DEF Present, IsConstant
  <1>3. IsSymbol(o)
    BY <1>1, <1>2 DEF InstructionError, Format34Error
  <1>4. target \in Int /\ baseAddr \in Int
    BY <1>3 DEF IsSymbol, TypeOK
  <1>5. AbsoluteSymbol(l, pc) <=> rel = {}
    BY <1>1, <1>3 DEF AbsoluteSymbol
  <1>6. code = Encoding(l, bits \cup rel, disp)
    BY <1>1, <1>2 DEF InstructionCode, Format34Code
  <1>7. {"b", "p"} \cap bits = {}
    BY DEF PrefixMode, IndexMode
  <1>8. rel = {} \/ rel = {"p"} \/ rel = {"b"}
    BY <1>4, RelativeType
  <1>9. rel # {} => disp \in Nat
    <2>1. \A d \in Int : Displacement(l, d) \in Nat
      BY DisplacementType
    <2>2. target - pc \in Int /\ target - baseAddr \in Int
      BY <1>4
    <2> HIDE DEF target, rel
    <2> QED BY <1>8, <2>1, <2>2
  <1> HIDE DEF bits, rel, disp
  <1>10. CASE rel = {}
    <2>1. {"b", "p"} \cap code.mode = {} \/ code.mn = AllOnes
      <3>1. bits \cup rel = bits
        BY <1>10
      <3> HIDE DEF code
      <3> QED BY <1>6, <1>7, <3>1 DEF Encoding
    <2> QED BY <1>5, <1>10, <2>1 DEF Holds
  <1>11. CASE rel # {}
    <2>1. code.mode = bits \cup rel /\ code.mn = l.mn
      BY <1>6, <1>9, <1>11, EncodingBack
    <2>2. {"b", "p"} \cap code.mode # {}
      BY <1>8, <1>11, <2>1
    <2> QED BY <1>1, <1>5, <1>11, <2>1, <2>2 DEF Holds
  <1> QED BY <1>10, <1>11

\* What the steps of pass 2 write: nothing, an item without code, one with code.
LEMMA Pass2Writes ==
  ASSUME Inv, Pass2Next
  PROVE  \/ InitStates \/ PrintEnd
         \/ phase' \in {"failed", "undefined"} /\ UNCHANGED <<stVec, pass2Vars>>
         \/ \E flush \in BOOLEAN : ListsNothing(flush)
         \/ \E absolute : \E len \in Nat \ {0}, code \in Code : ListsItem(len, code, absolute)
  <1> DEFINE Stops == phase' \in {"failed", "undefined"} /\ UNCHANGED <<stVec, pass2Vars>>
             Writes == \/ \E flush \in BOOLEAN : ListsNothing(flush)
                       \/ \E absolute : \E len \in Nat \ {0}, code \in Code : ListsItem(len, code, absolute)
  <1>1. ASSUME NEW l, Processing(l)
        PROVE  /\ l = stVec[stIdx].src /\ l \in Lines \cup {BlankLine} /\ StoredLine(l)
               /\ phase = "pass2" /\ stIdx < Len(stVec)
    BY <1>1, StatementHere DEF Processing, Inv
  <1>2. ASSUME NEW l, \/ BlankStatement(l) \/ BaseStatement(l) \/ NoBaseStatement(l)
                      \/ StartStatement(l)
        PROVE  Writes
    <2>1. Processing(l) /\ PrintNoCode(FALSE)
      BY <1>2 DEF BlankStatement, BaseStatement, NoBaseStatement, StartStatement
    <2>2. l.mn = NoTok \/ Is(l, "BASE") \/ Is(l, "NOBASE") \/ Is(l, "START")
      BY <1>2 DEF BlankStatement, BaseStatement, NoBaseStatement, StartStatement
    <2>3. DeclaredSize(l) = 0
      BY <1>1, <2>1, <2>2, SizeOfLine
    <2>4. ~Is(l, "END") /\ ~IsInstruction(l)
      BY <2>2 DEF Is, NoTok, IsInstruction, Directives
    <2> QED BY <1>1, <2>1, <2>3, <2>4 DEF ListsNothing
  <1>3. ASSUME NEW l, ReserveStatement(l) \/ EndStatement(l) PROVE Writes \/ Stops
    <2>1. Processing(l) /\ ~IsInstruction(l)
      BY <1>3 DEF ReserveStatement, EndStatement, Is, IsInstruction, Directives
    <2> QED BY <1>1, <1>3, <2>1 DEF ReserveStatement, EndStatement, ListsNothing, Fail2
  <1>4. ASSUME NEW l, ByteStatement(l) PROVE Writes \/ Stops
    <2> DEFINE len == LiteralCodeLen(l.operand)
               code == [NoCode EXCEPT !.mn = l.mn, !.field = l.operand.val]
    <2>1. Processing(l) /\ Is(l, "BYTE") /\ ~Is(l, "END") /\ ~IsInstruction(l)
      BY <1>4 DEF ByteStatement, Is, IsInstruction, Directives
    <2>2. CASE Undefined /\ UNCHANGED pass2Vars
      BY <2>2 DEF Undefined
    <2>3. CASE PrintCode(len, code, FALSE)
      <3>1. len \in Nat \ {0}
        BY <1>1, <2>1, LiteralLens DEF StoredLine, LiteralFits
      <3>2. len = DeclaredSize(l)
        BY <1>1, <2>1, SizeOfLine
      <3>3. code \in Code
        <4>1. l.mn \in STRING /\ l.operand.val \in Int /\ NoTok \in STRING
          BY <1>1, <2>1, LineFields, LiteralsAssumption
        <4> QED BY <4>1 DEF Code, NoCode
      <3> HIDE DEF len, code
      <3>4. ListsItem(len, code, FALSE)
        BY <1>1, <2>1, <2>3, <3>2, HoldsNothing DEF ListsItem
      <3> QED BY <3>1, <3>3, <3>4
    <2> QED BY <1>4, <2>2, <2>3 DEF ByteStatement
  <1>5. ASSUME NEW l, WordStatement(l) PROVE Writes
    <2> DEFINE field == ToInt(l.operand.val) % (2 * (WORD_MAX + 1))
               code == [NoCode EXCEPT !.mn = l.mn, !.field = field]
    <2>1. /\ Processing(l) /\ Is(l, "WORD") /\ ~Is(l, "END") /\ ~IsInstruction(l)
          /\ PrintCode(3, code, FALSE)
      BY <1>5 DEF WordStatement, Is, IsInstruction, Directives
    <2>2. 3 = DeclaredSize(l)
      BY <1>1, <2>1, SizeOfLine
    <2>3. code \in Code
      <3>1. l.mn \in STRING /\ l.operand.val \in Int /\ NoTok \in STRING
        BY <1>1, <2>1, LineFields, LiteralsAssumption
      <3>2. field \in Int
        <4>1. ToInt(l.operand.val) \in Int
          BY <3>1, ToIntType
        <4>2. 2 * (WORD_MAX + 1) \in Nat \ {0}
          BY Widths
        <4>3. field \in 0..(2 * (WORD_MAX + 1))-1
          BY <4>1, <4>2, ModType, Zenon
        <4> QED BY <4>2, <4>3
      <3> HIDE DEF field
      <3> QED BY <3>1, <3>2 DEF Code, NoCode
    <2> HIDE DEF code
    <2>4. ListsItem(3, code, FALSE)
      BY <1>1, <2>1, <2>2, HoldsNothing DEF ListsItem
    <2>5. 3 \in Nat \ {0}
      OBVIOUS
    <2> QED BY <2>3, <2>4, <2>5, Zenon
  <1>6. ASSUME NEW l, InstructionStatement(l) PROVE Writes
    <2> DEFINE pc == stVec[stIdx + 1].loc
               len == InstructionLen(l)
               code == InstructionCode(l, pc)
               absolute == AbsoluteSymbol(l, pc)
    <2>1. /\ Processing(l) /\ IsInstruction(l) /\ InstructionError(l, pc) = "none"
          /\ PrintCode(len, code, absolute)
      BY <1>6 DEF InstructionStatement
    <2>2. KnownOpcode(l) /\ ~Is(l, "END")
      BY <1>1, <2>1 DEF StoredLine, IsInstruction, Directives
    <2>3. len = DeclaredSize(l) /\ len \in Nat \ {0}
      <3>1. Optab[l.mn] \in {1, 2, 3}
        BY <2>2, OptabAssumption DEF KnownOpcode
      <3>2. len \in Nat \ {0}
        BY <3>1 DEF InstructionLen
      <3> QED BY <1>1, <2>1, <2>2, <3>2, SizeOfLine
    <2>4. code \in Code
      BY <1>1, <2>1, <2>2, InstructionType, StatementHere DEF Inv, TypeOK
    <2>5. absolute <=> Holds(l, code)
      BY <1>1, <2>1, <2>2, HoldsSymbol, StatementHere DEF Inv
    <2> HIDE DEF len, code, absolute, pc
    <2>6. ListsItem(len, code, absolute)
      BY <1>1, <2>1, <2>2, <2>3, <2>5 DEF ListsItem
    <2> QED BY <2>3, <2>4, <2>6
  <1>7. ASSUME NEW l, UndefinedBase(l) \/ RefusedInstruction(l) \/ MRecVecAllocFail(l)
        PROVE  Stops
    BY <1>7 DEF UndefinedBase, RefusedInstruction, MRecVecAllocFail, Fail2, Undefined
  <1>8. InitStatesAllocFail => Stops
    BY DEF InitStatesAllocFail, Fail2
  <1> HIDE DEF Stops, Writes
  <1>9. InitStates \/ PrintEnd \/ Stops \/ Writes
    BY <1>2, <1>3, <1>4, <1>5, <1>6, <1>7, <1>8 DEF Pass2Next
  <1> QED BY <1>9 DEF Stops, Writes

\* One more piece of code at the end of the others.
LEMMA FillsNext ==
  ASSUME NEW items \in Seq(Item), NEW item \in Item, NEW addr \in Int, NEW len \in Nat,
         Fills(items, addr, len), item.loc = addr + len
  PROVE  Fills(Append(items, item), addr, len + item.len)
  <1> DEFINE new == Append(items, item)
             n == Len(items)
  <1>1. n \in Nat \ {0} /\ Len(new) = n + 1 /\ new[n + 1] = item /\ \A i \in 1..n : new[i] = items[i]
    BY Extended DEF Fills
  <1>2. \A i \in 1..n : items[i] \in Item
    OBVIOUS
  <1> HIDE DEF new
  <1>3. new # <<>> /\ new[1].loc = addr
    BY <1>1 DEF Fills
  <1>4. item.loc \in Int /\ item.len \in Nat
    BY DEF Item
  <1>5. ASSUME NEW k \in 1..n PROVE new[k + 1].loc = new[k].loc + new[k].len
    <2>1. CASE k < n
      <3>1. new[k] = items[k] /\ new[k + 1] = items[k + 1] /\ k \in 1..Len(items)-1
        BY <1>1, <2>1
      <3> QED BY <3>1 DEF Fills
    <2>2. CASE k = n
      BY <1>1, <2>2 DEF Fills
    <2> QED BY <1>1, <2>1, <2>2
  <1>6. new[n + 1].loc + new[n + 1].len = addr + (len + item.len)
    BY <1>1, <1>4
  <1>7. Fills(new, addr, len + item.len)
    BY <1>1, <1>3, <1>5, <1>6 DEF Fills
  <1> QED BY <1>7 DEF new

(* The records written so far, and the one that is being filled: it ends     *)
(* where the statement at hand begins, unless that is an END.                *)
RecordsOK(recs) ==
  \A i \in 1..Len(recs) : recs[i].kind = "body" =>
    /\ i > 1 /\ recs[i - 1].kind = "T"
    /\ Fills(recs[i].items, recs[i - 1].addr, recs[i].len)
Filling(recs, items, len, next) ==
  len > 0 =>
    /\ Len(recs) > 0 /\ recs[Len(recs)].kind = "T"
    /\ Fills(items, recs[Len(recs)].addr, len)
    /\ next.loc # -1 => recs[Len(recs)].addr + len = next.loc

RecordInv ==
  /\ phase \in {"pass1", "dummy", "init2"} => objOut = <<>> /\ curTextRecordLen = 0
  /\ PlainProgram =>
       /\ RecordsOK(objOut)
       /\ phase = "pass2" => Filling(objOut, textRecBuf, curTextRecordLen, stVec[stIdx])

\* A record that is no body changes nothing, and neither does the body of a
\* record that is filled.
LEMMA RecordsNext ==
  ASSUME NEW recs \in Seq(ObjRecords), NEW rec \in ObjRecords, RecordsOK(recs),
         rec.kind = "body" =>
           /\ Len(recs) > 0 /\ recs[Len(recs)].kind = "T"
           /\ Fills(rec.items, recs[Len(recs)].addr, rec.len)
  PROVE  RecordsOK(Append(recs, rec))
  <1> DEFINE new == Append(recs, rec)
             n == Len(recs)
  <1>1. n \in Nat /\ Len(new) = n + 1 /\ new[n + 1] = rec /\ \A i \in 1..n : new[i] = recs[i]
    BY Extended
  <1> HIDE DEF new
  <1>2. ASSUME NEW i \in 1..n+1, new[i].kind = "body"
        PROVE  /\ i > 1 /\ new[i - 1].kind = "T"
               /\ Fills(new[i].items, new[i - 1].addr, new[i].len)
    <2>1. CASE i \in 1..n
      <3>1. new[i] = recs[i] /\ (i > 1 => new[i - 1] = recs[i - 1])
        BY <1>1, <2>1
      <3> QED BY <1>2, <2>1, <3>1 DEF RecordsOK
    <2>2. CASE i = n + 1
      <3>1. new[i] = rec /\ n > 0 /\ new[i - 1] = recs[n]
        BY <1>1, <1>2, <2>2
      <3> QED BY <1>2, <2>2, <3>1
    <2> QED BY <1>1, <2>1, <2>2
  <1>3. RecordsOK(new)
    BY <1>1, <1>2 DEF RecordsOK
  <1> QED BY <1>3 DEF new

\* The delayed record is written, or it stays.
LEMMA FlushRecords ==
  ASSUME Inv, RecordsOK(objOut), NEW next, Filling(objOut, textRecBuf, curTextRecordLen, next),
         NEW flush \in BOOLEAN, NEW len \in Nat
  PROVE  /\ Flushed(flush, len) \in Seq(ObjRecords) /\ RecordsOK(Flushed(flush, len))
         /\ KeptLen(flush, len) # 0 =>
              /\ Flushed(flush, len) = objOut /\ Kept(flush, len) = textRecBuf
              /\ KeptLen(flush, len) = curTextRecordLen /\ ~flush
  <1> DEFINE rec == Rec("body", 0, curTextRecordLen, textRecBuf)
  <1>1. /\ objOut \in Seq(ObjRecords) /\ rec \in ObjRecords /\ curTextRecordLen \in Nat
        /\ rec.items = textRecBuf /\ rec.len = curTextRecordLen
    BY DEF Inv, TypeOK, ObjRecords, Rec
  <1>2. CASE EndsRecord(flush, len)
    <2>1. curTextRecordLen > 0
      BY <1>2 DEF EndsRecord
    <2>2. Flushed(flush, len) = Append(objOut, rec) /\ KeptLen(flush, len) = 0
      BY <1>2 DEF Flushed, KeptLen
    <2> HIDE DEF rec
    <2>3. Append(objOut, rec) \in Seq(ObjRecords) /\ RecordsOK(Append(objOut, rec))
      BY <1>1, <2>1, RecordsNext DEF Filling
    <2> QED BY <2>2, <2>3
  <1>3. CASE ~EndsRecord(flush, len)
    <2>1. Flushed(flush, len) = objOut /\ KeptLen(flush, len) = curTextRecordLen
      BY <1>3 DEF Flushed, KeptLen
    <2>2. curTextRecordLen # 0 => ~flush
      BY <1>1, <1>3 DEF EndsRecord
    <2> QED BY <1>1, <2>1, <2>2 DEF Kept
  <1> QED BY <1>2, <1>3

\* Of a plain program that pass 2 walks through, only END is marked, and what
\* follows a statement is behind it.
LEMMA NextPlace ==
  ASSUME Inv, AddressInv, PlainProgram, phase = "pass2", stIdx < Len(stVec),
         ~Is(stVec[stIdx].src, "END")
  PROVE  /\ stVec[stIdx].loc \in Int /\ stVec[stIdx].loc # -1
         /\ stVec[stIdx + 1].loc # -1 =>
              stVec[stIdx + 1].loc = stVec[stIdx].loc + DeclaredSize(stVec[stIdx].src)
  <1>1. LaidOut(stVec, phase, loc) /\ stIdx \in 1..Len(stVec)-1
    BY DEF AddressInv, Assembling, Inv, TypeOK
  <1>2. stVec[stIdx].loc \in 0..LOC_MAX
    BY <1>1 DEF LaidOut, InRange
  <1>3. stVec[stIdx].loc # -1
    BY <1>2, Widths
  <1> QED BY <1>1, <1>2, <1>3 DEF LaidOut, Advancing, EndOf

\* A statement without code keeps the record that is filled, or ends it.
LEMMA ListsNothingRecords ==
  ASSUME Inv, AddressInv, RecordInv, NEW flush \in BOOLEAN, ListsNothing(flush)
  PROVE  RecordInv'
  <1>1. /\ phase = "pass2" /\ stIdx < Len(stVec) /\ stIdx' = stIdx + 1
        /\ UNCHANGED <<phase, stVec>> /\ objcodeLen \in Nat
        /\ objOut' = Flushed(flush, objcodeLen)
        /\ curTextRecordLen' = KeptLen(flush, objcodeLen)
        /\ textRecBuf' = Kept(flush, objcodeLen)
    BY DEF ListsNothing, PrintNoCode, Inv, TypeOK
  <1>2. ASSUME PlainProgram
        PROVE  RecordsOK(objOut') /\ Filling(objOut', textRecBuf', curTextRecordLen', stVec[stIdx + 1])
    <2>1. RecordsOK(objOut) /\ Filling(objOut, textRecBuf, curTextRecordLen, stVec[stIdx])
      BY <1>1, <1>2 DEF RecordInv
    <2>2. RecordsOK(objOut')
      BY <1>1, <2>1, FlushRecords
    <2>3. CASE KeptLen(flush, objcodeLen) = 0
      BY <1>1, <2>2, <2>3 DEF Filling
    <2>4. CASE KeptLen(flush, objcodeLen) # 0
      <3>1. /\ objOut' = objOut /\ textRecBuf' = textRecBuf
            /\ curTextRecordLen' = curTextRecordLen /\ ~flush
        BY <1>1, <2>1, <2>4, FlushRecords
      <3>2. DeclaredSize(stVec[stIdx].src) = 0 /\ ~Is(stVec[stIdx].src, "END")
        BY <3>1 DEF ListsNothing
      <3>3. /\ stVec[stIdx].loc # -1
            /\ stVec[stIdx + 1].loc # -1 => stVec[stIdx + 1].loc = stVec[stIdx].loc
        BY <1>1, <1>2, <3>2, NextPlace
      <3> QED BY <2>1, <2>2, <3>1, <3>3 DEF Filling
    <2> QED BY <2>3, <2>4
  <1> QED BY <1>1, <1>2 DEF RecordInv, PlainProgram, Plain

\* A statement with code begins a record or goes on where the record ends.
LEMMA ListsItemRecords ==
  ASSUME Inv, AddressInv, RecordInv, ~AllocMayFail,
         NEW len \in Nat, NEW code \in Code, NEW absolute, ListsItem(len, code, absolute)
  PROVE  RecordInv'
  <1> DEFINE addr == stVec[stIdx].loc
             item == [loc |-> addr, len |-> len, code |-> code]
             rec == Rec("T", addr, 0, <<>>)
             flushed == Flushed(FALSE, len)
             kept == KeptLen(FALSE, len)
             left == Kept(FALSE, len)
  <1>1. /\ phase = "pass2" /\ stIdx < Len(stVec) /\ stIdx' = stIdx + 1
        /\ UNCHANGED <<phase, stVec>>
        /\ objOut' = IF kept = 0 THEN Append(flushed, rec) ELSE flushed
        /\ curTextRecordLen' = kept + len
        /\ textRecBuf' = Append(left, item)
        /\ len = DeclaredSize(stVec[stIdx].src) /\ ~Is(stVec[stIdx].src, "END")
    BY DEF ListsItem, PrintCode, Opened
  <1>2. ASSUME PlainProgram
        PROVE  RecordsOK(objOut') /\ Filling(objOut', textRecBuf', curTextRecordLen', stVec[stIdx + 1])
    <2>1. RecordsOK(objOut) /\ Filling(objOut, textRecBuf, curTextRecordLen, stVec[stIdx])
      BY <1>1, <1>2 DEF RecordInv
    <2>2. /\ addr \in Int /\ addr # -1
          /\ stVec[stIdx + 1].loc # -1 => stVec[stIdx + 1].loc = addr + len
      BY <1>1, <1>2, NextPlace
    <2>3. /\ item \in Item /\ item.loc = addr /\ item.len = len
          /\ rec \in ObjRecords /\ rec.kind = "T" /\ rec.addr = addr
      BY <2>2 DEF Item, Rec, ObjRecords
    <2>4. /\ flushed \in Seq(ObjRecords) /\ RecordsOK(flushed)
          /\ kept # 0 => /\ flushed = objOut /\ left = textRecBuf
                         /\ kept = curTextRecordLen
      BY <2>1, FlushRecords
    <2>5. textRecBuf \in Seq(Item) /\ curTextRecordLen \in Nat /\ objOut \in Seq(ObjRecords)
      BY DEF Inv, TypeOK, ObjRecords
    <2>6. kept = 0 => left = <<>>
      BY DEF Kept
    <2> HIDE DEF item, rec, flushed, kept, left, addr
    <2>7. CASE kept = 0
      <3>1. objOut' = Append(flushed, rec) /\ textRecBuf' = <<item>> /\ curTextRecordLen' = len
        BY <1>1, <2>3, <2>6, <2>7
      <3>2. RecordsOK(objOut')
        BY <2>3, <2>4, <3>1, RecordsNext
      <3>3. Len(objOut') > 0 /\ objOut'[Len(objOut')] = rec
        BY <2>3, <2>4, <3>1
      <3>4. Fills(textRecBuf', addr, len)
        BY <2>3, <3>1 DEF Fills
      <3> QED BY <2>2, <2>3, <3>1, <3>2, <3>3, <3>4 DEF Filling
    <2>8. CASE kept # 0
      <3>1. /\ objOut' = objOut /\ textRecBuf' = Append(textRecBuf, item)
            /\ curTextRecordLen' = curTextRecordLen + len /\ curTextRecordLen > 0
        BY <1>1, <2>4, <2>5, <2>8
      <3> DEFINE begin == objOut[Len(objOut)].addr
      <3>2. /\ Len(objOut) > 0 /\ objOut[Len(objOut)].kind = "T"
            /\ Fills(textRecBuf, begin, curTextRecordLen) /\ begin + curTextRecordLen = addr
        BY <2>1, <2>2, <3>1 DEF Filling, addr
      <3>3. begin \in Int
        <4>1. objOut[Len(objOut)] \in ObjRecords
          BY <2>5, <3>2
        <4> QED BY <4>1 DEF ObjRecords
      <3> HIDE DEF begin
      <3>4. Fills(textRecBuf', begin, curTextRecordLen')
        BY <2>3, <2>5, <3>1, <3>2, <3>3, FillsNext
      <3>5. begin + curTextRecordLen' = addr + len
        BY <2>5, <3>1, <3>2, <3>3
      <3> QED BY <2>1, <2>2, <3>1, <3>2, <3>4, <3>5 DEF Filling, begin
    <2> QED BY <2>7, <2>8
  <1> QED BY <1>1, <1>2 DEF RecordInv, PlainProgram, Plain

\* Header, modification and end records hold no code.
LEMMA OtherRecords ==
  ASSUME Inv, RecordInv, InitStates \/ PrintEnd PROVE RecordInv'
  <1>1. CASE InitStates
    <2>1. /\ phase' = "pass2" /\ curTextRecordLen' = 0
          /\ objOut' = <<Rec("H", stVec[1].loc, stVec[Len(stVec)].loc - stVec[1].loc, <<>>)>>
      BY <1>1 DEF InitStates, RecordInv
    <2>2. RecordsOK(objOut')
      BY <2>1 DEF RecordsOK, Rec
    <2> QED BY <2>1, <2>2 DEF RecordInv, Filling
  <1>2. CASE PrintEnd
    <2> DEFINE mods == [i \in DOMAIN mRecVec |-> Rec("M", mRecVec[i], 0, <<>>)]
               end == <<Rec("E", pcAddr, 0, <<>>)>>
    <2>1. /\ phase = "pass2" /\ phase' = "passed" /\ UNCHANGED stVec
          /\ objOut' = objOut \o mods \o end
          /\ objOut \in Seq(ObjRecords) /\ mRecVec \in Seq(Int) /\ pcAddr \in Int
      BY <1>2 DEF PrintEnd, Inv, TypeOK, ObjRecords
    <2>2. mods \in Seq(ObjRecords) /\ end \in Seq(ObjRecords)
          /\ \A i \in 1..Len(mods) : mods[i].kind = "M"
      <3>1. DOMAIN mRecVec = 1..Len(mRecVec) /\ Len(mRecVec) \in Nat
        BY <2>1
      <3>2. \A i \in 1..Len(mRecVec) : Rec("M", mRecVec[i], 0, <<>>) \in ObjRecords
                                       /\ Rec("M", mRecVec[i], 0, <<>>).kind = "M"
        BY <2>1 DEF Rec, ObjRecords
      <3>3. Rec("E", pcAddr, 0, <<>>) \in ObjRecords
        BY <2>1 DEF Rec, ObjRecords
      <3> QED BY <3>1, <3>2, <3>3
    <2>3. end[1].kind = "E" /\ Len(end) = 1
      BY DEF Rec
    <2> HIDE DEF mods, end
    <2>4. \A i \in 1..Len(objOut') :
            IF i <= Len(objOut) THEN objOut'[i] = objOut[i] ELSE objOut'[i].kind # "body"
      <3>0. objOut \o mods \in Seq(ObjRecords) /\ Len(objOut \o mods) = Len(objOut) + Len(mods)
        BY <2>1, <2>2
      <3>1. Len(objOut') = Len(objOut) + Len(mods) + 1
        <4> DEFINE front == objOut \o mods
        <4>1. front \in Seq(ObjRecords) /\ objOut' = front \o end
          BY <2>1, <3>0
        <4>2. Len(front) = Len(objOut) + Len(mods)
          BY <3>0
        <4> HIDE DEF front
        <4>3. Len(front \o end) = Len(front) + Len(end)
          BY <2>2, <4>1
        <4> QED BY <2>3, <4>1, <4>2, <4>3
      <3>2. ASSUME NEW i \in 1..Len(objOut') PROVE
              IF i <= Len(objOut) THEN objOut'[i] = objOut[i] ELSE objOut'[i].kind # "body"
        <4>1. CASE i <= Len(objOut)
          BY <2>1, <2>2, <4>1
        <4>2. CASE i > Len(objOut) /\ i <= Len(objOut) + Len(mods)
          <5>1. objOut'[i] = mods[i - Len(objOut)] /\ i - Len(objOut) \in 1..Len(mods)
            BY <2>1, <2>2, <4>2
          <5> QED BY <2>1, <2>2, <4>2, <5>1
        <4>3. CASE i = Len(objOut) + Len(mods) + 1
          <5>1. objOut'[i] = end[1]
            BY <2>1, <2>2, <2>3, <4>3
          <5>2. i > Len(objOut)
            BY <2>1, <2>2, <4>3
          <5> QED BY <2>1, <2>3, <5>1, <5>2
        <4> QED BY <2>1, <2>2, <3>1, <4>1, <4>2, <4>3
      <3> QED BY <3>2
    <2>5. RecordsOK(objOut) => RecordsOK(objOut')
      <3> SUFFICES ASSUME RecordsOK(objOut), NEW i \in 1..Len(objOut'), objOut'[i].kind = "body"
                   PROVE  /\ i > 1 /\ objOut'[i - 1].kind = "T"
                          /\ Fills(objOut'[i].items, objOut'[i - 1].addr, objOut'[i].len)
        BY DEF RecordsOK
      <3>1. i <= Len(objOut) /\ objOut'[i] = objOut[i]
        BY <2>4
      <3>2. i \in 1..Len(objOut) /\ Len(objOut) \in Nat
        BY <2>1, <3>1
      <3>3. i > 1 => objOut'[i - 1] = objOut[i - 1]
        BY <2>4, <3>2
      <3> QED BY <3>1, <3>2, <3>3 DEF RecordsOK
    <2>6. RecordInv'
      <3>1. PlainProgram' => PlainProgram
        BY <2>1 DEF PlainProgram, Plain
      <3> QED BY <2>1, <2>5, <3>1 DEF RecordInv
    <2> QED BY <2>6
  <1> QED BY <1>1, <1>2

\* Every step preserves it.
LEMMA RecordStep ==
  ASSUME ~AllocMayFail, Inv, AddressInv, RecordInv, [Next]_vars PROVE RecordInv'
  <1>1. CASE Pass1Next /\ UNCHANGED pass2Vars
    <2>1. phase \in {"pass1", "dummy"}
      <3>1. Pass1Effect
        BY <1>1, Pass1Cases DEF Inv, TypeOK
      <3> QED BY <3>1 DEF Pass1Effect, Accepting, TokenAllocFail, PushDummy
    <2>2. objOut' = <<>> /\ curTextRecordLen' = 0
      BY <1>1, <2>1 DEF RecordInv, pass2Vars
    <2> QED BY <2>2 DEF RecordInv, RecordsOK, Filling
  <1>2. CASE Pass2Next
    <2>1. CASE phase' \in {"failed", "undefined"} /\ UNCHANGED <<stVec, pass2Vars>>
      BY <2>1 DEF RecordInv, pass2Vars, PlainProgram, Plain
    <2> QED BY <1>2, <2>1, Pass2Writes, OtherRecords, ListsNothingRecords, ListsItemRecords
  <1>3. CASE UNCHANGED vars
    BY <1>3 DEF vars, pass1Vars, pass2Vars, RecordInv, PlainProgram, Plain
  <1> QED BY <1>1, <1>2, <1>3 DEF Next

\* It holds at the start, and therefore always.
LEMMA RecordInvariance == ASSUME ~AllocMayFail PROVE Spec => []RecordInv
  <1>1. Init => RecordInv
    BY DEF Init, Pass1Init, Pass2Init, RecordInv, RecordsOK
  <1>2. Inv /\ AddressInv /\ RecordInv /\ [Next]_vars => RecordInv'
    BY RecordStep
  <1> QED BY <1>1, <1>2, Invariance, AddressInvariance, PTL DEF Spec

(* When memory does not run out, the code of every text record of a plain    *)
(* program lies behind one another from the address in the record's header,  *)
(* and its length is the one the record states.                              *)
THEOREM RecordsHaveNoGap == ASSUME ~AllocMayFail PROVE Spec => []RecordsContiguous
  <1>1. RecordInv => RecordsContiguous
    BY DEF RecordInv, RecordsContiguous, RecordsOK, Filling
  <1> QED BY <1>1, RecordInvariance, PTL

-----------------------------------------------------------------------------
\* The code of some records, record by record, and that of some listed items.
ItemsOf(recs) == [i \in DOMAIN recs |-> recs[i].items]
CodeOf(list) == [i \in DOMAIN list |-> IF list[i].len > 0 THEN <<list[i]>> ELSE <<>>]

\* One record more.
LEMMA ItemsNext ==
  ASSUME NEW recs \in Seq(ObjRecords), NEW rec \in ObjRecords
  PROVE  /\ FlattenSeq(ItemsOf(recs)) \in Seq(Item)
         /\ FlattenSeq(ItemsOf(Append(recs, rec))) = FlattenSeq(ItemsOf(recs)) \o rec.items
  <1> DEFINE new == Append(recs, rec)
  <1>1. rec.items \in Seq(Item) /\ \A i \in 1..Len(recs) : recs[i].items \in Seq(Item)
    <2>1. \A r \in ObjRecords : r.items \in Seq(Item)
      BY DEF ObjRecords
    <2> QED BY <2>1, ElementOfSeq
  <1>2. /\ new \in Seq(ObjRecords) /\ Len(new) = Len(recs) + 1 /\ Len(recs) \in Nat
        /\ new[Len(recs) + 1] = rec /\ \A i \in 1..Len(recs) : new[i] = recs[i]
        /\ DOMAIN recs = 1..Len(recs) /\ DOMAIN new = 1..Len(recs)+1
    BY Extended
  <1> HIDE DEF new
  <1>3. ItemsOf(recs) \in Seq(Seq(Item)) /\ Len(ItemsOf(recs)) = Len(recs)
    BY <1>1, <1>2 DEF ItemsOf
  <1>4. ItemsOf(new) = Append(ItemsOf(recs), rec.items)
    <2>1. Append(ItemsOf(recs), rec.items) =
            [i \in 1..Len(recs)+1 |-> IF i = Len(recs) + 1 THEN rec.items ELSE ItemsOf(recs)[i]]
      BY <1>1, <1>2, <1>3
    <2>2. \A i \in 1..Len(recs)+1 :
            new[i].items = IF i = Len(recs) + 1 THEN rec.items ELSE ItemsOf(recs)[i]
      BY <1>2 DEF ItemsOf
    <2> QED BY <1>2, <2>1, <2>2 DEF ItemsOf
  <1> QED BY <1>1, <1>3, <1>4, FlattenAppend DEF new

\* One item more.
LEMMA CodeNext ==
  ASSUME NEW list \in Seq(Item), NEW item \in Item
  PROVE  /\ FlattenSeq(CodeOf(list)) \in Seq(Item)
         /\ FlattenSeq(CodeOf(Append(list, item))) =
              FlattenSeq(CodeOf(list)) \o (IF item.len > 0 THEN <<item>> ELSE <<>>)
  <1> DEFINE new == Append(list, item)
             last == IF item.len > 0 THEN <<item>> ELSE <<>>
  <1>1. last \in Seq(Item)
    OBVIOUS
  <1>2. /\ Len(new) = Len(list) + 1 /\ Len(list) \in Nat
        /\ new[Len(list) + 1] = item /\ \A i \in 1..Len(list) : new[i] = list[i]
        /\ DOMAIN list = 1..Len(list) /\ DOMAIN new = 1..Len(list)+1
    BY Extended
  <1>3. CodeOf(list) \in Seq(Seq(Item)) /\ Len(CodeOf(list)) = Len(list)
    <2>1. \A i \in 1..Len(list) : (IF list[i].len > 0 THEN <<list[i]>> ELSE <<>>) \in Seq(Item)
      OBVIOUS
    <2> QED BY <1>2, <2>1 DEF CodeOf
  <1>4. CodeOf(new) = Append(CodeOf(list), last)
    <2>1. Append(CodeOf(list), last) =
            [i \in 1..Len(list)+1 |-> IF i = Len(list) + 1 THEN last ELSE CodeOf(list)[i]]
      BY <1>1, <1>2, <1>3
    <2>2. \A i \in 1..Len(list)+1 : (IF new[i].len > 0 THEN <<new[i]>> ELSE <<>>) =
            IF i = Len(list) + 1 THEN last ELSE CodeOf(list)[i]
      <3> HIDE DEF new
      <3> QED BY <1>2 DEF CodeOf
    <2> HIDE DEF new
    <2> QED BY <1>2, <2>1, <2>2 DEF CodeOf
  <1> HIDE DEF last
  <1> QED BY <1>1, <1>3, <1>4, FlattenAppend DEF last

(* All code of the listing is in a record or in the buffer, which is empty   *)
(* when its length says so; the last statement is the dummy, and nothing is  *)
(* in the buffer behind an END.                                              *)
ImageInv ==
  /\ phase \in {"pass1", "dummy", "init2"} => textRecBuf = <<>>
  /\ curTextRecordLen = 0 <=> textRecBuf = <<>>
  /\ Written = Listed
  /\ phase \in {"init2", "pass2", "passed"} => ~Is(stVec[Len(stVec)].src, "END")
  /\ phase = "passed" => stIdx = Len(stVec)
  /\ phase \in {"pass2", "passed"} /\ stIdx > 1 /\ Is(stVec[stIdx - 1].src, "END") =>
       textRecBuf = <<>>

\* printTextRec moves code from its buffer to a record.
LEMMA FlushKeeps ==
  ASSUME Inv, ImageInv, NEW flush \in BOOLEAN, NEW len \in Nat
  PROVE  /\ FlattenSeq(ItemsOf(Flushed(flush, len))) \in Seq(Item)
         /\ FlattenSeq(ItemsOf(Flushed(flush, len))) \o Kept(flush, len) = Written
         /\ Written \in Seq(Item)
         /\ KeptLen(flush, len) = 0 <=> Kept(flush, len) = <<>>
         /\ flush => Kept(flush, len) = <<>>
  <1> DEFINE rec == Rec("body", 0, curTextRecordLen, textRecBuf)
             code == FlattenSeq(ItemsOf(objOut))
  <1>1. /\ objOut \in Seq(ObjRecords) /\ rec \in ObjRecords /\ rec.items = textRecBuf
        /\ textRecBuf \in Seq(Item) /\ curTextRecordLen \in Nat
    BY DEF Inv, TypeOK, ObjRecords, Rec
  <1>2. Written = code \o textRecBuf
    BY DEF Written, ItemsOf
  <1>3. code \in Seq(Item) /\ FlattenSeq(ItemsOf(Append(objOut, rec))) = code \o textRecBuf
    BY <1>1, ItemsNext
  <1> HIDE DEF code, rec
  <1>4. Written \in Seq(Item)
    BY <1>1, <1>2, <1>3
  <1>5. CASE EndsRecord(flush, len)
    <2>1. /\ Flushed(flush, len) = Append(objOut, rec) /\ KeptLen(flush, len) = 0
          /\ Kept(flush, len) = <<>>
      BY <1>5 DEF Flushed, KeptLen, Kept, rec
    <2>2. Written \o <<>> = Written
      BY <1>4
    <2> QED BY <1>2, <1>3, <1>4, <2>1, <2>2
  <1>6. CASE ~EndsRecord(flush, len)
    <2>1. /\ Flushed(flush, len) = objOut /\ KeptLen(flush, len) = curTextRecordLen
          /\ Kept(flush, len) = textRecBuf
      BY <1>6 DEF Flushed, KeptLen, Kept, ImageInv
    <2>2. flush => curTextRecordLen = 0
      BY <1>1, <1>6 DEF EndsRecord
    <2> QED BY <1>2, <1>3, <1>4, <2>1, <2>2 DEF ImageInv, code
  <1> QED BY <1>5, <1>6

\* A statement without code.
LEMMA ListsNothingImage ==
  ASSUME Inv, ImageInv, NEW flush \in BOOLEAN, ListsNothing(flush)
  PROVE  ImageInv'
  <1> DEFINE item == [loc |-> stVec[stIdx].loc, len |-> 0, code |-> NoCode]
  <1>1. /\ phase = "pass2" /\ stIdx < Len(stVec) /\ stIdx' = stIdx + 1 /\ stIdx \in Nat
        /\ UNCHANGED <<phase, stVec>> /\ objcodeLen \in Nat
        /\ objOut' = Flushed(flush, objcodeLen)
        /\ curTextRecordLen' = KeptLen(flush, objcodeLen)
        /\ textRecBuf' = Kept(flush, objcodeLen)
        /\ lstOut' = Append(lstOut, item)
        /\ flush \/ ~Is(stVec[stIdx].src, "END")
    BY DEF ListsNothing, PrintNoCode, Inv, TypeOK
  <1>2. Written' = Written
    BY <1>1, FlushKeeps DEF Written, ItemsOf
  <1>3. lstOut \in Seq(Item) /\ item \in Item /\ item.len = 0
    <2>1. stVec[stIdx].loc \in Int /\ NoCode \in Code
      BY StatementHere, <1>1, LiteralsAssumption DEF Inv, Code, NoCode, Processing
    <2>2. item \in Item /\ item.len = 0
      BY <2>1 DEF Item
    <2> QED BY <2>2 DEF Inv, TypeOK
  <1> HIDE DEF item
  <1>4. Listed' = FlattenSeq(CodeOf(Append(lstOut, item))) /\ Listed = FlattenSeq(CodeOf(lstOut))
    BY <1>1 DEF Listed, CodeOf
  <1>5. Listed \in Seq(Item) /\ Listed' = Listed \o <<>>
    <2>1. ~(item.len > 0)
      BY <1>3
    <2> QED BY <1>3, <1>4, <2>1, CodeNext, Zenon
  <1>6. Listed \o <<>> = Listed
    BY <1>5
  <1>7. Written' = Listed'
    BY <1>2, <1>5, <1>6 DEF ImageInv
  <1>8. curTextRecordLen' = 0 <=> textRecBuf' = <<>>
    BY <1>1, FlushKeeps
  <1>9. Is(stVec'[stIdx' - 1].src, "END") => textRecBuf' = <<>>
    BY <1>1, FlushKeeps
  <1>10. ~Is(stVec[Len(stVec)].src, "END")
    BY <1>1 DEF ImageInv
  <1> QED BY <1>1, <1>7, <1>8, <1>9, <1>10 DEF ImageInv

\* A statement with code.
LEMMA ListsItemImage ==
  ASSUME Inv, ImageInv, ~AllocMayFail, NEW len \in Nat \ {0}, NEW code \in Code, NEW absolute,
         ListsItem(len, code, absolute)
  PROVE  ImageInv'
  <1> DEFINE addr == stVec[stIdx].loc
             item == [loc |-> addr, len |-> len, code |-> code]
             rec == Rec("T", addr, 0, <<>>)
             flushed == Flushed(FALSE, len)
             left == Kept(FALSE, len)
             before == FlattenSeq(ItemsOf(flushed))
  <1>1. /\ phase = "pass2" /\ stIdx < Len(stVec) /\ stIdx' = stIdx + 1 /\ stIdx \in Nat
        /\ UNCHANGED <<phase, stVec>>
        /\ objOut' = IF KeptLen(FALSE, len) = 0 THEN Append(flushed, rec) ELSE flushed
        /\ curTextRecordLen' = KeptLen(FALSE, len) + len
        /\ textRecBuf' = Append(left, item)
        /\ lstOut' = Append(lstOut, item)
        /\ ~Is(stVec[stIdx].src, "END")
    BY DEF ListsItem, PrintCode, Opened, Inv, TypeOK
  <1>2. /\ lstOut \in Seq(Item) /\ item \in Item /\ item.len > 0
        /\ rec \in ObjRecords /\ rec.items = <<>>
    <2>1. addr \in Int
      BY StatementHere, <1>1 DEF Inv, Processing
    <2> HIDE DEF addr
    <2>2. item \in Item /\ item.len > 0
      BY <2>1 DEF Item
    <2>3. rec \in ObjRecords /\ rec.items = <<>>
      BY <2>1 DEF Rec, ObjRecords
    <2> QED BY <2>2, <2>3 DEF Inv, TypeOK
  <1>3. flushed \in Seq(ObjRecords) /\ left \in Seq(Item) /\ KeptLen(FALSE, len) \in Nat
    BY FlushType DEF Inv
  <1>4. /\ before \in Seq(Item) /\ before \o left = Written /\ Written \in Seq(Item)
    BY FlushKeeps
  <1>5. FlattenSeq(ItemsOf(objOut')) = before
    <2>1. FlattenSeq(ItemsOf(Append(flushed, rec))) = before \o <<>>
      BY <1>2, <1>3, ItemsNext
    <2>2. before \o <<>> = before
      BY <1>4
    <2> QED BY <1>1, <2>1, <2>2
  <1> HIDE DEF item, rec, flushed, left, before
  <1>6. Written' = Append(Written, item)
    <2>1. Written' = before \o Append(left, item)
      BY <1>1, <1>5 DEF Written, ItemsOf
    <2>2. before \o Append(left, item) = Append(before \o left, item)
      BY <1>2, <1>3, <1>4
    <2> QED BY <1>4, <2>1, <2>2
  <1>7. Listed' = FlattenSeq(CodeOf(Append(lstOut, item))) /\ Listed = FlattenSeq(CodeOf(lstOut))
    BY <1>1 DEF Listed, CodeOf
  <1>8. Listed \in Seq(Item) /\ Listed' = Listed \o <<item>>
    BY <1>2, <1>7, CodeNext
  <1>9. Listed \o <<item>> = Append(Listed, item)
    BY <1>2, <1>8
  <1>10. Written' = Listed'
    BY <1>6, <1>8, <1>9 DEF ImageInv
  <1>11. curTextRecordLen' # 0 /\ textRecBuf' # <<>>
    <2>1. Append(left, item) # <<>>
      BY <1>2, <1>3, SMTT(20)
    <2>2. KeptLen(FALSE, len) + len # 0
      <3>1. \A k \in Nat : k + len # 0
        OBVIOUS
      <3> QED BY <1>3, <3>1
    <2> QED BY <1>1, <2>1, <2>2
  <1>12. ~Is(stVec[Len(stVec)].src, "END")
    BY <1>1 DEF ImageInv
  <1>13. stIdx' - 1 = stIdx
    BY <1>1
  <1> QED BY <1>1, <1>10, <1>11, <1>12, <1>13 DEF ImageInv

\* The header, and the records behind the code, hold none.
LEMMA OtherImage ==
  ASSUME Inv, ImageInv, CodeInv, RecordInv, InitStates \/ PrintEnd PROVE ImageInv'
  <1>1. CASE InitStates
    <2> DEFINE rec == Rec("H", stVec[1].loc, stVec[Len(stVec)].loc - stVec[1].loc, <<>>)
    <2>1. /\ phase = "init2" /\ phase' = "pass2" /\ stIdx = 1 /\ stVec # <<>>
          /\ objOut = <<>> /\ lstOut = <<>> /\ textRecBuf = <<>>
          /\ objOut' = <<rec>>
          /\ UNCHANGED <<stVec, stIdx, curTextRecordLen, textRecBuf, lstOut>>
      BY <1>1 DEF InitStates, RecordInv, CodeInv, ImageInv, Inv, PositionOK
    <2>2. rec \in ObjRecords /\ rec.items = <<>> /\ Append(objOut, rec) = <<rec>>
          /\ objOut \in Seq(ObjRecords)
      <3>1. stVec[1].loc \in Int /\ stVec[Len(stVec)].loc \in Int
        <4>1. stVec[1] \in Statement /\ stVec[Len(stVec)] \in Statement
          BY <2>1 DEF Inv, TypeOK
        <4> QED BY <4>1 DEF Statement
      <3> QED BY <2>1, <3>1 DEF Rec, ObjRecords, Inv, TypeOK
    <2> HIDE DEF rec
    <2>3. /\ FlattenSeq(ItemsOf(objOut)) \in Seq(Item)
          /\ FlattenSeq(ItemsOf(objOut')) = FlattenSeq(ItemsOf(objOut)) \o <<>>
      BY <2>1, <2>2, ItemsNext
    <2>4. Written' = Written
      BY <2>1, <2>3 DEF Written, ItemsOf
    <2>5. Listed' = Listed
      BY <2>1 DEF Listed
    <2> QED BY <2>1, <2>4, <2>5 DEF ImageInv
  <1>2. CASE PrintEnd
    <2> DEFINE mods == [i \in DOMAIN mRecVec |-> Rec("M", mRecVec[i], 0, <<>>)]
               end == <<Rec("E", pcAddr, 0, <<>>)>>
               tail == mods \o end
    <2>1. /\ phase = "pass2" /\ phase' = "passed" /\ stIdx = Len(stVec)
          /\ UNCHANGED <<stVec, stIdx, curTextRecordLen, textRecBuf, lstOut>>
          /\ objOut' = objOut \o mods \o end
          /\ objOut \in Seq(ObjRecords) /\ mRecVec \in Seq(Int) /\ pcAddr \in Int
      BY <1>2 DEF PrintEnd, AllPrinted, Inv, TypeOK, ObjRecords
    <2>2. /\ tail \in Seq(ObjRecords) /\ \A i \in 1..Len(tail) : tail[i].items = <<>>
          /\ objOut' = objOut \o tail
      <3>1. DOMAIN mRecVec = 1..Len(mRecVec) /\ Len(mRecVec) \in Nat
        BY <2>1
      <3>2. \A i \in 1..Len(mRecVec) : Rec("M", mRecVec[i], 0, <<>>) \in ObjRecords
                                       /\ Rec("M", mRecVec[i], 0, <<>>).items = <<>>
        BY <2>1 DEF Rec, ObjRecords
      <3>3. Rec("E", pcAddr, 0, <<>>) \in ObjRecords /\ Rec("E", pcAddr, 0, <<>>).items = <<>>
        BY <2>1 DEF Rec, ObjRecords
      <3>4. /\ mods \in Seq(ObjRecords) /\ \A i \in 1..Len(mods) : mods[i].items = <<>>
            /\ end \in Seq(ObjRecords) /\ Len(end) = 1 /\ end[1].items = <<>>
        BY <3>1, <3>2, <3>3
      <3> HIDE DEF mods, end
      <3>5. objOut' = objOut \o (mods \o end)
        BY <2>1, <3>4, ConcatAssociative, SMTT(20)
      <3>6. \A i \in 1..Len(mods \o end) :
              (mods \o end)[i] = IF i <= Len(mods) THEN mods[i] ELSE end[i - Len(mods)]
        BY <3>4
      <3>7. ASSUME NEW i \in 1..Len(mods \o end) PROVE (mods \o end)[i].items = <<>>
        <4>1. i <= Len(mods) \/ i - Len(mods) = 1
          <5>1. Len(mods \o end) = Len(mods) + 1 /\ Len(mods) \in Nat
            <6>1. mods \in Seq(ObjRecords) /\ end \in Seq(ObjRecords) /\ Len(end) = 1
              BY <3>4
            <6>2. Len(mods \o end) = Len(mods) + Len(end) /\ Len(mods) \in Nat
              BY <6>1, ConcatIs, Zenon
            <6> QED BY <6>1, <6>2, Zenon
          <5> QED BY <5>1
        <4> QED BY <3>4, <3>6, <4>1
      <3> QED BY <3>4, <3>5, <3>7
    <2> HIDE DEF tail
    <2>4. /\ ItemsOf(objOut) \in Seq(Seq(Item)) /\ ItemsOf(tail) \in Seq({<<>>})
          /\ ItemsOf(objOut \o tail) = ItemsOf(objOut) \o ItemsOf(tail)
      <3>1. \A i \in 1..Len(objOut) : objOut[i].items \in Seq(Item)
        <4>1. \A r \in ObjRecords : r.items \in Seq(Item)
          BY DEF ObjRecords
        <4> QED BY <2>1, <4>1, ElementOfSeq
      <3>2. /\ DOMAIN objOut = 1..Len(objOut) /\ Len(objOut) \in Nat
            /\ DOMAIN tail = 1..Len(tail) /\ Len(tail) \in Nat
        BY <2>1, <2>2
      <3>3. ItemsOf(objOut) \in Seq(Seq(Item)) /\ Len(ItemsOf(objOut)) = Len(objOut)
        BY <3>1, <3>2 DEF ItemsOf
      <3>4. ItemsOf(tail) \in Seq({<<>>}) /\ Len(ItemsOf(tail)) = Len(tail)
        BY <2>2, <3>2 DEF ItemsOf
      <3> DEFINE all == objOut \o tail
                 n == Len(objOut)
                 m == Len(tail)
      <3>5. /\ DOMAIN all = 1..n+m
            /\ \A i \in 1..n+m : all[i] = IF i <= n THEN objOut[i] ELSE tail[i - n]
        BY <2>1, <2>2, <3>2
      <3>6. ItemsOf(objOut) \o ItemsOf(tail) =
              [i \in 1..n+m |-> IF i <= n THEN ItemsOf(objOut)[i] ELSE ItemsOf(tail)[i - n]]
        <4>1. ItemsOf(tail) \in Seq(Seq(Item))
          BY <3>4, EmptySeq, SeqMonotonic
        <4> DEFINE a == ItemsOf(objOut)
                   b == ItemsOf(tail)
        <4>2. a \in Seq(Seq(Item)) /\ b \in Seq(Seq(Item)) /\ Len(a) = n /\ Len(b) = m
          BY <3>3, <3>4, <4>1
        <4> HIDE DEF a, b, n, m
        <4>3. a \o b = [i \in 1..Len(a)+Len(b) |-> IF i <= Len(a) THEN a[i] ELSE b[i - Len(a)]]
          BY <4>2, ConcatIs, Zenon
        <4> QED BY <4>2, <4>3, Zenon DEF a, b
      <3> HIDE DEF all
      <3>7. ASSUME NEW i \in 1..n+m
            PROVE  all[i].items = IF i <= n THEN ItemsOf(objOut)[i] ELSE ItemsOf(tail)[i - n]
        <4>1. CASE i <= n
          <5>1. i \in 1..n
            BY <3>2, <4>1
          <5> QED BY <3>2, <3>5, <4>1, <5>1 DEF ItemsOf
        <4>2. CASE ~(i <= n)
          <5>1. i - n \in 1..m
            BY <3>2, <4>2
          <5> QED BY <3>2, <3>5, <4>2, <5>1 DEF ItemsOf
        <4> QED BY <4>1, <4>2
      <3>8. ItemsOf(all) = [i \in 1..n+m |-> all[i].items]
        BY <3>5 DEF ItemsOf
      <3>9. ItemsOf(all) = ItemsOf(objOut) \o ItemsOf(tail)
        BY <3>6, <3>7, <3>8
      <3> QED BY <3>3, <3>4, <3>9 DEF all
    <2>5. Written' = Written
      <3>1. FlattenSeq(ItemsOf(objOut) \o ItemsOf(tail)) = FlattenSeq(ItemsOf(objOut))
        BY <2>4, FlattenEmpty
      <3> QED BY <2>1, <2>2, <2>4, <3>1 DEF Written, ItemsOf
    <2>6. Listed' = Listed
      BY <2>1 DEF Listed
    <2> QED BY <2>1, <2>5, <2>6 DEF ImageInv
  <1> QED BY <1>1, <1>2

\* Pass 1 leaves the output alone, and puts the dummy last.
LEMMA Pass1Image ==
  ASSUME ~AllocMayFail, Inv, ImageInv, Pass1Next, UNCHANGED pass2Vars PROVE ImageInv'
  <1>1. Pass1Effect
    BY Pass1Cases DEF Inv, TypeOK
  <1>2. /\ phase \in {"pass1", "dummy"} /\ textRecBuf' = <<>>
        /\ UNCHANGED <<objOut, lstOut, curTextRecordLen, textRecBuf>>
    BY <1>1 DEF Pass1Effect, Accepting, TokenAllocFail, PushDummy, ImageInv, pass2Vars
  <1>3. Written' = Written /\ Listed' = Listed
    BY <1>2 DEF Written, Listed
  <1>4. CASE PushDummy
    <2> DEFINE st == [src |-> BlankLine, lineNo |-> 0, loc |-> loc]
    <2>1. /\ st \in Statement /\ st.src = BlankLine /\ stVec \in Seq(Statement)
      BY LineFields DEF Statement, Inv, TypeOK
    <2>2. stVec' = Append(stVec, st) /\ phase' = "init2"
      BY <1>4 DEF PushDummy, VecPush
    <2>3. ~Is(BlankLine, "END")
      BY DEF Is, BlankLine, NoTok
    <2> HIDE DEF st
    <2>4. stVec'[Len(stVec')] = st
      BY <2>1, <2>2
    <2> QED BY <1>2, <1>3, <2>1, <2>2, <2>3, <2>4 DEF ImageInv
  <1>5. CASE ~PushDummy
    <2>1. phase' \in {"pass1", "dummy", "failed", "undefined"}
      BY <1>1, <1>5 DEF Pass1Effect, Refusing, Reject, Undefined, Accepting, Accept, Ended, TokenAllocFail
    <2> QED BY <1>2, <1>3, <2>1 DEF ImageInv
  <1> QED BY <1>4, <1>5

\* Every step keeps the written code that of the listing.
LEMMA ImageStep ==
  ASSUME ~AllocMayFail, Inv, CodeInv, RecordInv, ImageInv, [Next]_vars PROVE ImageInv'
  <1>1. CASE Pass2Next
    <2>1. CASE phase' \in {"failed", "undefined"} /\ UNCHANGED <<stVec, pass2Vars>>
      BY <2>1 DEF ImageInv, pass2Vars, Written, Listed
    <2> QED BY <1>1, <2>1, Pass2Writes, OtherImage, ListsNothingImage, ListsItemImage
  <1>2. CASE UNCHANGED vars
    BY <1>2 DEF vars, pass1Vars, pass2Vars, ImageInv, Written, Listed, Is
  <1> QED BY <1>1, <1>2, Pass1Image DEF Next

(* When memory does not run out, the object file and the buffer hold the     *)
(* code of the listing, all of it, once and in order, and behind an END      *)
(* nothing is left in the buffer, whatever the source file is.               *)
THEOREM ImageIsThatOfTheListing == ASSUME ~AllocMayFail PROVE Spec => []ImageIsListing
  <1>1. Init => ImageInv
    <2> SUFFICES ASSUME Init PROVE ImageInv
      OBVIOUS
    <2>1. objOut = <<>> /\ textRecBuf = <<>> /\ lstOut = <<>> /\ curTextRecordLen = 0 /\ phase = "pass1"
      BY DEF Init, Pass1Init, Pass2Init
    <2>2. Written = Listed
      <3>1. \A s : Len(s) = 0 => FlattenSeq(s) = s
        BY DEF FlattenSeq
      <3>2. ItemsOf(objOut) = <<>> /\ CodeOf(lstOut) = <<>>
        BY <2>1 DEF ItemsOf, CodeOf
      <3>3. FlattenSeq(ItemsOf(objOut)) = <<>> /\ FlattenSeq(CodeOf(lstOut)) = <<>>
        BY <3>1, <3>2
      <3> QED BY <2>1, <3>3 DEF Written, Listed, ItemsOf, CodeOf
    <2> QED BY <2>1, <2>2 DEF ImageInv
  <1>2. Inv /\ CodeInv /\ RecordInv /\ ImageInv /\ [Next]_vars => ImageInv'
    BY ImageStep
  <1>3. Inv /\ ImageInv /\ EndInv => ImageIsListing
    <2> SUFFICES ASSUME Inv, ImageInv, EndInv, phase = "passed",
                        NEW i \in 1..Len(stVec), Is(stVec[i].src, "END")
                 PROVE  textRecBuf = <<>>
      BY DEF ImageInv, ImageIsListing
    <2>1. Len(stVec) \in Nat
      BY DEF Inv, TypeOK
    <2>2. i = Len(stVec) - 1
      BY <2>1 DEF ImageInv, EndInv
    <2> QED BY <2>1, <2>2 DEF ImageInv
  <1> QED BY <1>1, <1>2, <1>3, Invariance, CodeInvariance, EndInvariance, RecordInvariance, PTL DEF Spec

-----------------------------------------------------------------------------
\* The modification records that a listing calls for, statement by statement.
Modified(vec, list) ==
  [i \in DOMAIN list |-> IF Holds(vec[i].src, list[i].code) THEN <<list[i].loc + 1>> ELSE <<>>]

\* One statement more.
LEMMA ModifiedNext ==
  ASSUME NEW vec, NEW list \in Seq(Item), NEW item \in Item
  PROVE  /\ FlattenSeq(Modified(vec, list)) \in Seq(Int)
         /\ FlattenSeq(Modified(vec, Append(list, item))) =
              FlattenSeq(Modified(vec, list)) \o
                (IF Holds(vec[Len(list) + 1].src, item.code) THEN <<item.loc + 1>> ELSE <<>>)
  <1> DEFINE new == Append(list, item)
             last == IF Holds(vec[Len(list) + 1].src, item.code) THEN <<item.loc + 1>> ELSE <<>>
  <1>0. \A it \in Item : it.loc + 1 \in Int
    BY DEF Item
  <1>1. last \in Seq(Int)
    BY <1>0
  <1>2. /\ Len(new) = Len(list) + 1 /\ Len(list) \in Nat
        /\ new[Len(list) + 1] = item /\ \A i \in 1..Len(list) : new[i] = list[i]
        /\ DOMAIN list = 1..Len(list) /\ DOMAIN new = 1..Len(list)+1
    BY Extended
  <1>3. Modified(vec, list) \in Seq(Seq(Int)) /\ Len(Modified(vec, list)) = Len(list)
    <2>1. \A i \in 1..Len(list) :
            (IF Holds(vec[i].src, list[i].code) THEN <<list[i].loc + 1>> ELSE <<>>) \in Seq(Int)
      <3>1. \A i \in 1..Len(list) : list[i].loc + 1 \in Int
        BY <1>0, ElementOfSeq
      <3> QED BY <3>1
    <2> QED BY <1>2, <2>1 DEF Modified
  <1>4. Modified(vec, new) = Append(Modified(vec, list), last)
    <2>1. Append(Modified(vec, list), last) =
            [i \in 1..Len(list)+1 |-> IF i = Len(list) + 1 THEN last ELSE Modified(vec, list)[i]]
      BY <1>1, <1>2, <1>3
    <2>2. \A i \in 1..Len(list)+1 :
            (IF Holds(vec[i].src, new[i].code) THEN <<new[i].loc + 1>> ELSE <<>>) =
            IF i = Len(list) + 1 THEN last ELSE Modified(vec, list)[i]
      <3> HIDE DEF new
      <3> QED BY <1>2 DEF Modified
    <2> HIDE DEF new, last
    <2> QED BY <1>2, <2>1, <2>2 DEF Modified
  <1> HIDE DEF last
  <1> QED BY <1>1, <1>3, <1>4, FlattenAppend DEF last

(* The vector of modification records keeps step with the listing, and       *)
(* printModRec writes it between the code and the end record.                *)
ModificationInv ==
  /\ phase \in {"pass1", "dummy", "init2"} => mRecVec = <<>>
  /\ phase \in {"pass2", "passed"} => mRecVec = FlattenSeq(Modified(stVec, lstOut))
  /\ phase = "passed" =>
       \A k \in 1..Len(mRecVec) :
         /\ objOut[Len(objOut) - Len(mRecVec) - 1 + k].kind = "M"
         /\ objOut[Len(objOut) - Len(mRecVec) - 1 + k].addr = mRecVec[k]

\* A statement without code.
LEMMA ListsNothingModifies ==
  ASSUME Inv, CodeInv, ModificationInv, NEW flush \in BOOLEAN, ListsNothing(flush)
  PROVE  ModificationInv'
  <1> DEFINE item == [loc |-> stVec[stIdx].loc, len |-> 0, code |-> NoCode]
  <1>1. /\ phase = "pass2" /\ stIdx < Len(stVec) /\ stIdx \in Nat \ {0}
        /\ stVec \in Seq(Statement) /\ lstOut \in Seq(Item)
        /\ UNCHANGED <<phase, stVec, mRecVec>>
        /\ lstOut' = Append(lstOut, item)
        /\ ~IsInstruction(stVec[stIdx].src)
    BY DEF ListsNothing, PrintNoCode, Inv, TypeOK
  <1>2. Len(lstOut) + 1 = stIdx
    BY <1>1 DEF CodeInv, ListingInv
  <1>3. ~Holds(stVec[stIdx].src, NoCode)
    <2>1. Processing(stVec[stIdx].src)
      BY <1>1 DEF Processing
    <2> QED BY <1>1, <2>1, StatementHere, HoldsNothing DEF Inv
  <1>4. item \in Item /\ item.code = NoCode
    <2>1. stVec[stIdx].loc \in Int /\ NoCode \in Code
      BY StatementHere, <1>1, LiteralsAssumption DEF Inv, Code, NoCode, Processing
    <2> QED BY <2>1 DEF Item
  <1> HIDE DEF item
  <1>5. /\ FlattenSeq(Modified(stVec, lstOut)) \in Seq(Int)
        /\ FlattenSeq(Modified(stVec, lstOut')) = FlattenSeq(Modified(stVec, lstOut)) \o <<>>
    BY <1>1, <1>2, <1>3, <1>4, ModifiedNext
  <1>6. FlattenSeq(Modified(stVec, lstOut)) \o <<>> = FlattenSeq(Modified(stVec, lstOut))
    BY <1>5, ConcatEmptySeq
  <1> QED BY <1>1, <1>5, <1>6 DEF ModificationInv

\* A statement with code.
LEMMA ListsItemModifies ==
  ASSUME Inv, CodeInv, ModificationInv, ~AllocMayFail, NEW len \in Nat, NEW code \in Code,
         NEW absolute, ListsItem(len, code, absolute)
  PROVE  ModificationInv'
  <1> DEFINE addr == stVec[stIdx].loc
             item == [loc |-> addr, len |-> len, code |-> code]
  <1>1. /\ phase = "pass2" /\ stIdx < Len(stVec) /\ stIdx \in Nat \ {0}
        /\ stVec \in Seq(Statement) /\ lstOut \in Seq(Item)
        /\ UNCHANGED <<phase, stVec>>
        /\ lstOut' = Append(lstOut, item)
        /\ mRecVec' = IF absolute THEN Append(mRecVec, addr + 1) ELSE mRecVec
        /\ absolute <=> Holds(stVec[stIdx].src, code)
    BY DEF ListsItem, PrintCode, Inv, TypeOK
  <1>2. Len(lstOut) + 1 = stIdx
    BY <1>1 DEF CodeInv, ListingInv
  <1>3. addr \in Int /\ addr + 1 \in Int
    BY StatementHere, <1>1 DEF Inv, Processing
  <1>4. item \in Item /\ item.code = code /\ item.loc = addr
    <2> HIDE DEF addr
    <2> QED BY <1>3 DEF Item
  <1> DEFINE recs == FlattenSeq(Modified(stVec, lstOut))
             last == IF Holds(stVec[stIdx].src, code) THEN <<addr + 1>> ELSE <<>>
  <1> HIDE DEF item, addr
  <1>5. recs \in Seq(Int) /\ FlattenSeq(Modified(stVec, lstOut')) = recs \o last
    BY <1>1, <1>2, <1>4, ModifiedNext
  <1>6. mRecVec = recs
    BY <1>1 DEF ModificationInv
  <1> HIDE DEF recs
  <1>7. recs \o <<>> = recs /\ recs \o <<addr + 1>> = Append(recs, addr + 1)
    BY <1>3, <1>5
  <1>8. mRecVec' = recs \o last
    BY <1>1, <1>6, <1>7
  <1> QED BY <1>1, <1>5, <1>8 DEF ModificationInv

\* The header, and the closing records.
LEMMA OtherModifies ==
  ASSUME Inv, CodeInv, ModificationInv, InitStates \/ PrintEnd PROVE ModificationInv'
  <1>1. CASE InitStates
    <2>1. /\ phase' = "pass2" /\ mRecVec' = <<>> /\ lstOut' = <<>>
      BY <1>1 DEF InitStates, CodeInv, ModificationInv
    <2>2. FlattenSeq(<<>>) = <<>>
      BY DEF FlattenSeq
    <2>3. Modified(stVec', lstOut') = <<>>
      BY <2>1 DEF Modified
    <2> QED BY <2>1, <2>2, <2>3 DEF ModificationInv
  <1>2. CASE PrintEnd
    <2> DEFINE mods == [i \in DOMAIN mRecVec |-> Rec("M", mRecVec[i], 0, <<>>)]
               end == <<Rec("E", pcAddr, 0, <<>>)>>
               n == Len(objOut)
               m == Len(mRecVec)
    <2>1. /\ phase = "pass2" /\ phase' = "passed" /\ UNCHANGED <<stVec, lstOut, mRecVec>>
          /\ objOut' = objOut \o mods \o end
          /\ objOut \in Seq(ObjRecords) /\ mRecVec \in Seq(Int) /\ pcAddr \in Int
      BY <1>2 DEF PrintEnd, Inv, TypeOK, ObjRecords
    <2>2. /\ mods \in Seq(ObjRecords) /\ end \in Seq(ObjRecords) /\ Len(end) = 1
          /\ Len(mods) = m /\ n \in Nat /\ m \in Nat
          /\ \A k \in 1..m : mods[k].kind = "M" /\ mods[k].addr = mRecVec[k]
      <3>1. DOMAIN mRecVec = 1..m /\ n \in Nat /\ m \in Nat
        BY <2>1
      <3>2. \A k \in 1..m : /\ Rec("M", mRecVec[k], 0, <<>>) \in ObjRecords
                            /\ Rec("M", mRecVec[k], 0, <<>>).kind = "M"
                            /\ Rec("M", mRecVec[k], 0, <<>>).addr = mRecVec[k]
        BY <2>1 DEF Rec, ObjRecords
      <3>3. Rec("E", pcAddr, 0, <<>>) \in ObjRecords
        BY <2>1 DEF Rec, ObjRecords
      <3>4. end \in Seq(ObjRecords) /\ Len(end) = 1
        BY <3>3
      <3>5. mods \in Seq(ObjRecords) /\ Len(mods) = m
        BY <3>1, <3>2
      <3> QED BY <3>1, <3>2, <3>4, <3>5
    <2> HIDE DEF mods, end
    <2> DEFINE front == objOut \o mods
    <2>3. /\ front \in Seq(ObjRecords) /\ Len(front) = n + m
          /\ \A k \in 1..m : front[n + k] = mods[k]
      <3>1. /\ front \in Seq(ObjRecords) /\ Len(front) = Len(objOut) + Len(mods)
            /\ \A i \in 1..Len(objOut)+Len(mods) :
                 front[i] = IF i <= Len(objOut) THEN objOut[i] ELSE mods[i - Len(objOut)]
        <4>1. objOut \in Seq(ObjRecords) /\ mods \in Seq(ObjRecords)
          BY <2>1, <2>2
        <4> QED BY <4>1, ConcatProperties
      <3> HIDE DEF front
      <3>2. ASSUME NEW k \in 1..m PROVE front[n + k] = mods[k]
        <4>1. n + k \in 1..n+m /\ ~(n + k <= n) /\ (n + k) - n = k
          BY <2>2
        <4> QED BY <2>2, <3>1, <4>1
      <3> QED BY <2>2, <3>1, <3>2
    <2> HIDE DEF front
    <2>4. /\ Len(objOut') = n + m + 1
          /\ \A k \in 1..m : objOut'[n + k] = mods[k]
      <3>1. /\ Len(objOut') = Len(front) + Len(end)
            /\ \A i \in 1..Len(front)+Len(end) :
                 objOut'[i] = IF i <= Len(front) THEN front[i] ELSE end[i - Len(front)]
        <4>1. front \in Seq(ObjRecords) /\ end \in Seq(ObjRecords) /\ objOut' = front \o end
          BY <2>1, <2>2, <2>3 DEF front
        <4>2. /\ Len(front \o end) = Len(front) + Len(end)
              /\ \A i \in 1..Len(front)+Len(end) :
                   (front \o end)[i] = IF i <= Len(front) THEN front[i] ELSE end[i - Len(front)]
          BY <4>1, ConcatProperties
        <4> QED BY <4>1, <4>2
      <3>2. ASSUME NEW k \in 1..m PROVE objOut'[n + k] = mods[k]
        <4>1. n + k \in 1..n+m+1 /\ n + k <= n + m
          BY <2>2
        <4> QED BY <2>2, <2>3, <3>1, <4>1
      <3> QED BY <2>2, <2>3, <3>1, <3>2
    <2>5. ASSUME NEW k \in 1..m
          PROVE  /\ objOut'[Len(objOut') - m - 1 + k].kind = "M"
                 /\ objOut'[Len(objOut') - m - 1 + k].addr = mRecVec[k]
      <3>1. Len(objOut') - m - 1 + k = n + k
        BY <2>2, <2>4
      <3> QED BY <2>2, <2>4, <3>1
    <2> QED BY <2>1, <2>5 DEF ModificationInv
  <1> QED BY <1>1, <1>2

\* Every step preserves it.
LEMMA ModificationStep ==
  ASSUME ~AllocMayFail, Inv, CodeInv, ModificationInv, [Next]_vars PROVE ModificationInv'
  <1>1. CASE Pass1Next /\ UNCHANGED pass2Vars
    <2>1. phase \in {"pass1", "dummy"} /\ phase' # "pass2" /\ phase' # "passed"
      <3>1. Pass1Effect
        BY <1>1, Pass1Cases DEF Inv, TypeOK
      <3> QED BY <3>1 DEF Pass1Effect, Refusing, Reject, Undefined, Accepting, Accept, Ended,
                          TokenAllocFail, PushDummy
    <2> QED BY <1>1, <2>1 DEF ModificationInv, pass2Vars
  <1>2. CASE Pass2Next
    <2>1. CASE phase' \in {"failed", "undefined"} /\ UNCHANGED <<stVec, pass2Vars>>
      BY <2>1 DEF ModificationInv
    <2> QED BY <1>2, <2>1, Pass2Writes, OtherModifies, ListsNothingModifies, ListsItemModifies
  <1>3. CASE UNCHANGED vars
    BY <1>3 DEF vars, pass1Vars, pass2Vars, ModificationInv
  <1> QED BY <1>1, <1>2, <1>3 DEF Next

(* When memory does not run out, exactly the format 4 instructions that hold *)
(* an absolute address have a modification record, at the byte behind the    *)
(* opcode and in program order, and all of these are written before the end  *)
(* record, however many the source file calls for.                           *)
THEOREM EveryAddressIsModified == ASSUME ~AllocMayFail PROVE Spec => []ModificationsComplete
  <1>1. Init => ModificationInv
    BY DEF Init, Pass1Init, Pass2Init, ModificationInv
  <1>2. Inv /\ CodeInv /\ ModificationInv /\ [Next]_vars => ModificationInv'
    BY ModificationStep
  <1>3. CodeInv /\ ModificationInv => ModificationsComplete
    <2> SUFFICES ASSUME CodeInv, ModificationInv, Assembling
                 PROVE  mRecVec = FlattenSeq([i \in DOMAIN lstOut |->
                          IF HoldsAddress(i) THEN <<lstOut[i].loc + 1>> ELSE <<>>])
      BY DEF ModificationInv, ModificationsComplete
    <2>1. Modified(stVec, lstOut) = [i \in DOMAIN lstOut |->
            IF HoldsAddress(i) THEN <<lstOut[i].loc + 1>> ELSE <<>>]
      BY DEF Modified, Holds, HoldsAddress
    <2>2. CASE phase \in {"pass1", "dummy", "init2"}
      <3>1. FlattenSeq(<<>>) = <<>>
        BY DEF FlattenSeq
      <3>2. mRecVec = <<>> /\ Modified(stVec, lstOut) = <<>>
        BY <2>2 DEF CodeInv, ModificationInv, Modified
      <3> QED BY <2>1, <3>1, <3>2
    <2>3. CASE phase \in {"pass2", "passed"}
      BY <2>1, <2>3 DEF ModificationInv
    <2> QED BY <2>2, <2>3 DEF Assembling
  <1> QED BY <1>1, <1>2, <1>3, Invariance, CodeInvariance, PTL DEF Spec

-----------------------------------------------------------------------------
\* The bytes a piece of code covers, and those of some records and the buffer.
Cells(item) == {<<item.loc + b, item>> : b \in 0..item.len - 1}
Headers(recs) == {i \in 1..Len(recs) : recs[i].kind = "T"}
CellsAt(recs, buf, i) ==
  IF i < Len(recs) /\ recs[i + 1].kind = "body"
  THEN PlacedFrom(recs[i].addr, recs[i + 1].items)
  ELSE PlacedFrom(recs[i].addr, buf)
CellsIn(recs, buf) == UNION {CellsAt(recs, buf, i) : i \in Headers(recs)}

\* The loaded code, by what is written and what is buffered.
LEMMA LoadedIs == LoadedCode = IF PlainProgram THEN CellsIn(objOut, textRecBuf) ELSE {}
  BY DEF LoadedCode, CellsIn, CellsAt, RecordAt, Headers, TextHeaders

\* A loader puts items without gaps where the listing says.
LEMMA PlacedIs ==
  ASSUME NEW items \in Seq(Item), NEW addr \in Int, NEW len \in Nat, Fills(items, addr, len)
  PROVE  PlacedFrom(addr, items) = UNION {Cells(items[k]) : k \in DOMAIN items}
  <1> DEFINE n == Len(items)
             At(p) == p = [k \in DOMAIN items |->
                             IF k = 1 THEN addr ELSE p[k - 1] + items[k - 1].len]
             locs == [k \in DOMAIN items |-> items[k].loc]
             place == CHOOSE p : p = [k \in DOMAIN items |->
                                        IF k = 1 THEN addr ELSE p[k - 1] + items[k - 1].len]
  <1>1. /\ n \in Nat \ {0} /\ DOMAIN items = 1..n
        /\ items[1].loc = addr
        /\ \A k \in 1..n-1 : items[k + 1].loc = items[k].loc + items[k].len
    BY DEF Fills
  <1>2. At(locs)
    <2>1. ASSUME NEW k \in 1..n
          PROVE  locs[k] = IF k = 1 THEN addr ELSE locs[k - 1] + items[k - 1].len
      <3>1. CASE k = 1
        BY <1>1, <3>1
      <3>2. CASE k # 1
        <4>1. k - 1 \in 1..n-1 /\ k - 1 \in 1..n /\ (k - 1) + 1 = k
          BY <1>1, <3>2
        <4>2. items[k].loc = items[k - 1].loc + items[k - 1].len
          BY <1>1, <4>1
        <4> QED BY <1>1, <3>2, <4>1, <4>2
      <3> QED BY <3>1, <3>2
    <2> QED BY <1>1, <2>1
  <1>3. At(place)
    BY <1>2, Zenon
  <1>4. PlacedFrom(addr, items) =
          UNION {{<<place[k] + b, items[k]>> : b \in 0..items[k].len - 1} : k \in DOMAIN items}
    BY Zenon DEF PlacedFrom
  <1>5. \A k \in 1..n : place[k] = items[k].loc
    <2> DEFINE T == {k \in 1..n : place[k] = items[k].loc}
    <2> HIDE DEF place
    <2>0. \A k \in 1..n : place[k] = IF k = 1 THEN addr ELSE place[k - 1] + items[k - 1].len
      BY <1>1, <1>3
    <2>1. 1 \in T
      BY <1>1, <2>0
    <2>2. ASSUME NEW k \in 1..n-1, k \in T PROVE k + 1 \in T
      <3>1. k + 1 \in 1..n /\ k + 1 # 1 /\ (k + 1) - 1 = k
        BY <1>1
      <3>2. place[k + 1] = place[k] + items[k].len
        BY <2>0, <3>1
      <3> QED BY <1>1, <2>2, <3>1, <3>2
    <2> HIDE DEF T
    <2>3. \A k \in 1..n : k \in T
      BY <1>1, <2>1, <2>2, UpTo
    <2> QED BY <2>3 DEF T
  <1> HIDE DEF place
  <1>6. \A k \in DOMAIN items :
          {<<place[k] + b, items[k]>> : b \in 0..items[k].len - 1} = Cells(items[k])
    BY <1>1, <1>5 DEF Cells
  <1>7. {{<<place[k] + b, items[k]>> : b \in 0..items[k].len - 1} : k \in DOMAIN items} =
        {Cells(items[k]) : k \in DOMAIN items}
    <2> DEFINE piece(k) == {<<place[k] + b, items[k]>> : b \in 0..items[k].len - 1}
    <2>1. \A k \in DOMAIN items : piece(k) = Cells(items[k])
      BY <1>6
    <2> HIDE DEF piece
    <2>2. {piece(k) : k \in DOMAIN items} = {Cells(items[k]) : k \in DOMAIN items}
      BY <2>1
    <2> QED BY <2>2 DEF piece
  <1> QED BY <1>4, <1>7

\* One item more.
LEMMA PlacedNext ==
  ASSUME NEW items \in Seq(Item), NEW item \in Item, NEW addr \in Int, NEW len \in Nat,
         Fills(items, addr, len), item.loc = addr + len
  PROVE  PlacedFrom(addr, Append(items, item)) = PlacedFrom(addr, items) \cup Cells(item)
  <1> DEFINE new == Append(items, item)
             n == Len(items)
  <1>1. /\ new \in Seq(Item) /\ n \in Nat /\ new[n + 1] = item
        /\ DOMAIN new = 1..n+1 /\ DOMAIN items = 1..n /\ \A i \in 1..n : new[i] = items[i]
    BY Extended
  <1>2. Fills(new, addr, len + item.len) /\ len + item.len \in Nat
    <2>1. item.len \in Nat
      BY DEF Item
    <2> QED BY <2>1, FillsNext
  <1>3. PlacedFrom(addr, items) = UNION {Cells(items[k]) : k \in DOMAIN items}
    BY PlacedIs
  <1> HIDE DEF new
  <1>4. PlacedFrom(addr, new) = UNION {Cells(new[k]) : k \in DOMAIN new}
    BY <1>1, <1>2, PlacedIs
  <1>5. \A k \in 1..n+1 : Cells(new[k]) = IF k = n + 1 THEN Cells(item) ELSE Cells(items[k])
    <2>1. \A k \in 1..n+1 : k = n + 1 \/ (k \in 1..n /\ k # n + 1)
      BY <1>1
    <2> QED BY <1>1, <2>1
  <1>6. ASSUME NEW c PROVE c \in PlacedFrom(addr, new) <=> c \in PlacedFrom(addr, items) \cup Cells(item)
    <2>1. c \in PlacedFrom(addr, new) <=> \E k \in 1..n+1 : c \in Cells(new[k])
      BY <1>1, <1>4
    <2>2. c \in PlacedFrom(addr, items) <=> \E k \in 1..n : c \in Cells(items[k])
      BY <1>1, <1>3
    <2>3. \A k \in 1..n : k \in 1..n+1 /\ k # n + 1
      BY <1>1
    <2>4. n + 1 \in 1..n+1 /\ \A k \in 1..n+1 : k = n + 1 \/ k \in 1..n
      BY <1>1
    <2> HIDE DEF n
    <2> QED BY <1>5, <2>1, <2>2, <2>3, <2>4
  <1> QED BY <1>6 DEF new

\* The first item.
LEMMA PlacedFirst ==
  ASSUME NEW item \in Item PROVE PlacedFrom(item.loc, <<item>>) = Cells(item)
  <1> DEFINE items == <<item>>
  <1>1. items \in Seq(Item) /\ DOMAIN items = {1} /\ items[1] = item
    OBVIOUS
  <1>2. item.loc \in Int /\ item.len \in Nat
    BY DEF Item
  <1>3. Fills(items, item.loc, item.len)
    BY <1>1, <1>2 DEF Fills
  <1> HIDE DEF items
  <1>4. PlacedFrom(item.loc, items) = UNION {Cells(items[k]) : k \in DOMAIN items}
    BY <1>1, <1>2, <1>3, PlacedIs
  <1> QED BY <1>1, <1>4 DEF items

(* Every text record has its code behind it, except the last one while it is *)
(* in the buffer; what is loaded comes from the listing.                     *)
Shape(recs) ==
  \A i \in 1..Len(recs) : recs[i].kind = "T" /\ i < Len(recs) => recs[i + 1].kind = "body"
Open(recs) == recs # <<>> /\ recs[Len(recs)].kind = "T"

LoadInv ==
  /\ phase \in {"pass1", "dummy", "init2"} => objOut = <<>> /\ curTextRecordLen = 0
  /\ phase = "pass2" =>
       /\ Shape(objOut) /\ (curTextRecordLen # 0 <=> Open(objOut))
       /\ \A c \in LoadedCode : \E i \in 1..Len(lstOut) :
            lstOut[i].len > 0 /\ c \in Cells(lstOut[i])

\* A record is closed: the code moves from the buffer to the file.
LEMMA CloseCells ==
  ASSUME NEW recs \in Seq(ObjRecords), NEW rec \in ObjRecords, rec.kind = "body",
         Shape(recs), Open(recs), NEW buf
  PROVE  /\ Shape(Append(recs, rec)) /\ ~Open(Append(recs, rec))
         /\ CellsIn(Append(recs, rec), buf) = CellsIn(recs, rec.items)
  <1> DEFINE new == Append(recs, rec)
             n == Len(recs)
  <1>1. /\ n \in Nat \ {0} /\ Len(new) = n + 1 /\ new[n + 1] = rec
        /\ new # <<>> /\ \A i \in 1..n : new[i] = recs[i]
    BY DEF Open
  <1> HIDE DEF new
  <1>2. Shape(new)
    <2> SUFFICES ASSUME NEW i \in 1..n+1, new[i].kind = "T", i < n + 1 PROVE new[i + 1].kind = "body"
      BY <1>1 DEF Shape
    <2>1. i \in 1..n /\ recs[i].kind = "T"
      BY <1>1
    <2>2. CASE i < n
      <3>1. i + 1 \in 1..n /\ recs[i + 1].kind = "body"
        BY <1>1, <2>1, <2>2 DEF Shape
      <3> QED BY <1>1, <3>1
    <2>3. CASE i = n
      BY <1>1, <2>3
    <2> QED BY <2>1, <2>2, <2>3
  <1>3. ~Open(new)
    BY <1>1 DEF Open
  <1>4. Headers(new) = Headers(recs)
    <2>1. \A i : i \in 1..n+1 <=> i \in 1..n \/ i = n + 1
      BY <1>1
    <2> QED BY <1>1, <2>1 DEF Headers
  <1>5. ASSUME NEW i \in Headers(recs) PROVE CellsAt(new, buf, i) = CellsAt(recs, rec.items, i)
    <2>1. i \in 1..n /\ recs[i].kind = "T" /\ new[i] = recs[i]
      BY <1>1 DEF Headers
    <2>2. CASE i < n
      <3>1. i + 1 \in 1..n /\ recs[i + 1].kind = "body" /\ new[i + 1] = recs[i + 1] /\ i < n + 1
        BY <1>1, <2>1, <2>2 DEF Shape
      <3> QED BY <1>1, <2>1, <2>2, <3>1 DEF CellsAt
    <2>3. CASE i = n
      BY <1>1, <2>1, <2>3 DEF CellsAt
    <2> QED BY <2>1, <2>2, <2>3
  <1>6. CellsIn(new, buf) = CellsIn(recs, rec.items)
    BY <1>4, <1>5, Zenon DEF CellsIn
  <1> QED BY <1>2, <1>3, <1>6 DEF new

\* A record is begun: what is in the buffer is put where it says.
LEMMA OpenCells ==
  ASSUME NEW recs \in Seq(ObjRecords), NEW rec \in ObjRecords, rec.kind = "T",
         Shape(recs), ~Open(recs), NEW old, NEW buf
  PROVE  /\ Shape(Append(recs, rec)) /\ Open(Append(recs, rec))
         /\ CellsIn(Append(recs, rec), buf) = CellsIn(recs, old) \cup PlacedFrom(rec.addr, buf)
  <1> DEFINE new == Append(recs, rec)
             n == Len(recs)
  <1>1. /\ n \in Nat /\ Len(new) = n + 1 /\ new[n + 1] = rec /\ new # <<>>
        /\ \A i \in 1..n : new[i] = recs[i]
    OBVIOUS
  <1>2. \A i \in Headers(recs) : i \in 1..n /\ i < n /\ recs[i + 1].kind = "body" /\ i + 1 \in 1..n
    <2>1. recs = <<>> <=> n = 0
      BY <1>1, EmptySeq
    <2> QED BY <1>1, <2>1 DEF Headers, Open, Shape
  <1> HIDE DEF new
  <1>3. Shape(new)
    <2> SUFFICES ASSUME NEW i \in 1..n+1, new[i].kind = "T", i < n + 1 PROVE new[i + 1].kind = "body"
      BY <1>1 DEF Shape
    <2>1. i \in Headers(recs)
      BY <1>1 DEF Headers
    <2> QED BY <1>1, <1>2, <2>1
  <1>4. Open(new)
    BY <1>1 DEF Open
  <1>5. Headers(new) = Headers(recs) \cup {n + 1}
    <2>1. \A i : i \in 1..n+1 <=> i \in 1..n \/ i = n + 1
      BY <1>1
    <2> QED BY <1>1, <2>1 DEF Headers
  <1>6. ASSUME NEW i \in Headers(recs) PROVE CellsAt(new, buf, i) = CellsAt(recs, old, i)
    <2>1. i \in 1..n /\ i + 1 \in 1..n /\ i < n /\ i < n + 1 /\ recs[i + 1].kind = "body"
      BY <1>1, <1>2
    <2> QED BY <1>1, <2>1 DEF CellsAt
  <1>7. CellsAt(new, buf, n + 1) = PlacedFrom(rec.addr, buf)
    BY <1>1 DEF CellsAt
  <1>8. CellsIn(new, buf) = CellsIn(recs, old) \cup PlacedFrom(rec.addr, buf)
    <2>1. CellsIn(new, buf) = UNION ({CellsAt(new, buf, i) : i \in Headers(recs)}
                                     \cup {CellsAt(new, buf, n + 1)})
      BY <1>5, Zenon DEF CellsIn
    <2>2. {CellsAt(new, buf, i) : i \in Headers(recs)} = {CellsAt(recs, old, i) : i \in Headers(recs)}
      BY <1>6, Zenon
    <2> QED BY <1>7, <2>1, <2>2 DEF CellsIn
  <1> QED BY <1>3, <1>4, <1>8 DEF new

\* More code comes into the buffer of the last record.
LEMMA MoreCells ==
  ASSUME NEW recs \in Seq(ObjRecords), Shape(recs), Open(recs), NEW old, NEW buf, NEW more,
         PlacedFrom(recs[Len(recs)].addr, buf) = PlacedFrom(recs[Len(recs)].addr, old) \cup more
  PROVE  CellsIn(recs, buf) = CellsIn(recs, old) \cup more
  <1> DEFINE n == Len(recs)
             front == {i \in Headers(recs) : i < n}
  <1>1. n \in Nat \ {0} /\ n \in Headers(recs) /\ Headers(recs) = front \cup {n}
    BY DEF Open, Headers
  <1>2. \A i \in front : CellsAt(recs, buf, i) = CellsAt(recs, old, i)
    BY <1>1 DEF Shape, Headers, CellsAt
  <1>3. CellsAt(recs, buf, n) = CellsAt(recs, old, n) \cup more
    BY <1>1 DEF CellsAt
  <1> HIDE DEF front, n
  <1>4. CellsIn(recs, buf) = (UNION {CellsAt(recs, buf, i) : i \in front}) \cup CellsAt(recs, buf, n)
    BY <1>1 DEF CellsIn
  <1>5. CellsIn(recs, old) = (UNION {CellsAt(recs, old, i) : i \in front}) \cup CellsAt(recs, old, n)
    BY <1>1 DEF CellsIn
  <1>6. {CellsAt(recs, buf, i) : i \in front} = {CellsAt(recs, old, i) : i \in front}
    BY <1>2, Zenon
  <1> QED BY <1>3, <1>4, <1>5, <1>6

\* What is in the buffer does not matter when no record is open.
LEMMA ClosedCells ==
  ASSUME NEW recs \in Seq(ObjRecords), Shape(recs), ~Open(recs), NEW old, NEW buf
  PROVE  CellsIn(recs, buf) = CellsIn(recs, old)
  <1> DEFINE n == Len(recs)
  <1>1. n \in Nat /\ (recs = <<>> <=> n = 0)
    BY EmptySeq
  <1>2. \A i \in Headers(recs) : CellsAt(recs, buf, i) = CellsAt(recs, old, i)
    BY <1>1 DEF Shape, Open, Headers, CellsAt
  <1> QED BY <1>2, Zenon DEF CellsIn

\* What printTextRec moves from its buffer stays loaded.
LEMMA FlushCells ==
  ASSUME Inv, phase = "pass2", LoadInv, NEW flush \in BOOLEAN, NEW len \in Nat
  PROVE  LET flushed == Flushed(flush, len) IN
         /\ flushed \in Seq(ObjRecords) /\ Shape(flushed)
         /\ KeptLen(flush, len) \in Nat
         /\ KeptLen(flush, len) # 0 <=> Open(flushed)
         /\ KeptLen(flush, len) # 0 => /\ flushed = objOut /\ Kept(flush, len) = textRecBuf
                                       /\ KeptLen(flush, len) = curTextRecordLen
         /\ CellsIn(flushed, Kept(flush, len)) = CellsIn(objOut, textRecBuf)
  <1> DEFINE rec == Rec("body", 0, curTextRecordLen, textRecBuf)
             flushed == Flushed(flush, len)
             left == Kept(flush, len)
  <1>1. /\ objOut \in Seq(ObjRecords) /\ rec \in ObjRecords /\ curTextRecordLen \in Nat
        /\ rec.items = textRecBuf /\ rec.kind = "body"
    BY DEF Inv, TypeOK, ObjRecords, Rec
  <1>2. Shape(objOut) /\ (curTextRecordLen # 0 <=> Open(objOut))
    BY DEF LoadInv
  <1>3. CASE EndsRecord(flush, len)
    <2>1. flushed = Append(objOut, rec) /\ KeptLen(flush, len) = 0 /\ Open(objOut)
      BY <1>1, <1>2, <1>3 DEF Flushed, KeptLen, EndsRecord
    <2>2. flushed \in Seq(ObjRecords)
      <3> HIDE DEF rec, flushed
      <3> QED BY <1>1, <2>1
    <2> HIDE DEF rec
    <2>3. /\ Shape(Append(objOut, rec)) /\ ~Open(Append(objOut, rec))
          /\ CellsIn(Append(objOut, rec), left) = CellsIn(objOut, rec.items)
      BY <1>1, <1>2, <2>1, CloseCells
    <2> QED BY <1>1, <2>1, <2>2, <2>3
  <1>4. CASE ~EndsRecord(flush, len)
    <2>1. flushed = objOut /\ KeptLen(flush, len) = curTextRecordLen
      BY <1>4 DEF Flushed, KeptLen
    <2>2. CASE curTextRecordLen # 0
      BY <1>1, <1>2, <2>1, <2>2 DEF Kept
    <2>3. CASE curTextRecordLen = 0
      <3>1. CellsIn(objOut, left) = CellsIn(objOut, textRecBuf)
        BY <1>1, <1>2, <2>3, ClosedCells
      <3> QED BY <1>1, <1>2, <2>1, <2>3, <3>1
    <2> QED BY <2>2, <2>3
  <1> QED BY <1>3, <1>4

\* A statement without code changes nothing that is loaded.
LEMMA ListsNothingLoads ==
  ASSUME Inv, LoadInv, NEW flush \in BOOLEAN, ListsNothing(flush)
  PROVE  LoadInv' /\ LoadedCode' = LoadedCode
  <1> DEFINE item == [loc |-> stVec[stIdx].loc, len |-> 0, code |-> NoCode]
  <1>1. /\ phase = "pass2" /\ UNCHANGED <<phase, stVec>> /\ objcodeLen \in Nat
        /\ objOut' = Flushed(flush, objcodeLen)
        /\ curTextRecordLen' = KeptLen(flush, objcodeLen)
        /\ textRecBuf' = Kept(flush, objcodeLen)
        /\ lstOut' = Append(lstOut, item) /\ lstOut \in Seq(Item)
    BY DEF ListsNothing, PrintNoCode, Inv, TypeOK
  <1>2. /\ Shape(objOut') /\ (curTextRecordLen' # 0 <=> Open(objOut'))
        /\ CellsIn(objOut', textRecBuf') = CellsIn(objOut, textRecBuf)
    BY <1>1, FlushCells
  <1>3. PlainProgram' <=> PlainProgram
    BY <1>1 DEF PlainProgram, Plain
  <1>4. LoadedCode' = LoadedCode
    <2>1. LoadedCode' = IF PlainProgram' THEN CellsIn(objOut', textRecBuf') ELSE {}
      BY DEF LoadedCode, CellsIn, CellsAt, RecordAt, Headers, TextHeaders
    <2> QED BY <1>2, <1>3, <2>1, LoadedIs
  <1> HIDE DEF item
  <1>5. Len(lstOut') = Len(lstOut) + 1 /\ \A i \in 1..Len(lstOut) : lstOut'[i] = lstOut[i]
    BY <1>1
  <1>6. ASSUME NEW c \in LoadedCode'
        PROVE  \E i \in 1..Len(lstOut') : lstOut'[i].len > 0 /\ c \in Cells(lstOut'[i])
    <2>1. PICK i \in 1..Len(lstOut) : lstOut[i].len > 0 /\ c \in Cells(lstOut[i])
      BY <1>1, <1>4, <1>6 DEF LoadInv
    <2>2. i \in 1..Len(lstOut') /\ lstOut'[i] = lstOut[i]
      BY <1>1, <1>5, <2>1
    <2> QED BY <2>1, <2>2
  <1> QED BY <1>1, <1>2, <1>4, <1>6 DEF LoadInv

\* A statement with code adds just that.
LEMMA ListsItemLoads ==
  ASSUME Inv, AddressInv, RecordInv, LoadInv, ~AllocMayFail,
         NEW len \in Nat \ {0}, NEW code \in Code, NEW absolute, ListsItem(len, code, absolute)
  PROVE  LET item == [loc |-> stVec[stIdx].loc, len |-> len, code |-> code] IN
         /\ LoadInv'
         /\ LoadedCode' = LoadedCode \cup (IF PlainProgram THEN Cells(item) ELSE {})
  <1> DEFINE addr == stVec[stIdx].loc
             item == [loc |-> addr, len |-> len, code |-> code]
             rec == Rec("T", addr, 0, <<>>)
             flushed == Flushed(FALSE, len)
             kept == KeptLen(FALSE, len)
             left == Kept(FALSE, len)
  <1>1. /\ phase = "pass2" /\ stIdx < Len(stVec) /\ UNCHANGED <<phase, stVec>>
        /\ objOut' = IF kept = 0 THEN Append(flushed, rec) ELSE flushed
        /\ curTextRecordLen' = kept + len
        /\ textRecBuf' = Append(left, item)
        /\ lstOut' = Append(lstOut, item) /\ lstOut \in Seq(Item)
        /\ ~Is(stVec[stIdx].src, "END")
    BY DEF ListsItem, PrintCode, Opened, Inv, TypeOK
  <1>2. addr \in Int
    BY StatementHere, <1>1 DEF Inv, Processing
  <1>3. /\ item \in Item /\ item.loc = addr /\ item.len = len
        /\ rec \in ObjRecords /\ rec.kind = "T" /\ rec.addr = addr
    <2> HIDE DEF addr
    <2> QED BY <1>2 DEF Item, Rec, ObjRecords
  <1>4. /\ flushed \in Seq(ObjRecords) /\ Shape(flushed) /\ kept \in Nat
        /\ kept # 0 <=> Open(flushed)
        /\ kept # 0 => flushed = objOut /\ left = textRecBuf /\ kept = curTextRecordLen
        /\ CellsIn(flushed, left) = CellsIn(objOut, textRecBuf)
    BY <1>1, FlushCells
  <1>5. kept = 0 => left = <<>>
    BY DEF Kept
  <1>6. textRecBuf \in Seq(Item) /\ curTextRecordLen \in Nat /\ objOut \in Seq(ObjRecords)
    BY DEF Inv, TypeOK, ObjRecords
  <1>7. PlainProgram' <=> PlainProgram
    BY <1>1 DEF PlainProgram, Plain
  <1>8. PlainProgram /\ kept # 0 =>
          /\ Fills(textRecBuf, objOut[Len(objOut)].addr, curTextRecordLen)
          /\ objOut[Len(objOut)].addr + curTextRecordLen = addr
    <2> SUFFICES ASSUME PlainProgram, kept # 0
                 PROVE  /\ Fills(textRecBuf, objOut[Len(objOut)].addr, curTextRecordLen)
                        /\ objOut[Len(objOut)].addr + curTextRecordLen = addr
      OBVIOUS
    <2>1. Filling(objOut, textRecBuf, curTextRecordLen, stVec[stIdx])
      BY <1>1 DEF RecordInv
    <2>2. addr # -1
      BY <1>1, NextPlace
    <2>3. curTextRecordLen > 0
      <3> HIDE DEF kept, left, flushed
      <3> QED BY <1>4, <1>6
    <2> QED BY <2>1, <2>2, <2>3 DEF Filling
  <1> HIDE DEF item, rec, flushed, kept, left, addr
  <1>9. kept + len # 0
    BY <1>4
  <1>10. /\ Shape(objOut') /\ (curTextRecordLen' # 0 <=> Open(objOut'))
         /\ PlainProgram => CellsIn(objOut', textRecBuf') = CellsIn(objOut, textRecBuf) \cup Cells(item)
    <2>1. CASE kept = 0
      <3>1. objOut' = Append(flushed, rec) /\ textRecBuf' = <<item>>
        BY <1>1, <1>3, <1>5, <2>1
      <3>2. /\ Shape(Append(flushed, rec)) /\ Open(Append(flushed, rec))
            /\ CellsIn(Append(flushed, rec), <<item>>) =
                 CellsIn(flushed, left) \cup PlacedFrom(rec.addr, <<item>>)
        BY <1>3, <1>4, <2>1, OpenCells
      <3>3. PlacedFrom(addr, <<item>>) = Cells(item)
        BY <1>3, PlacedFirst
      <3> QED BY <1>1, <1>3, <1>4, <1>9, <3>1, <3>2, <3>3
    <2>2. CASE kept # 0
      <3> DEFINE begin == objOut[Len(objOut)].addr
      <3>1. objOut' = objOut /\ textRecBuf' = Append(textRecBuf, item) /\ Shape(objOut) /\ Open(objOut)
        BY <1>1, <1>4, <2>2
      <3>2. begin \in Int
        <4>1. Len(objOut) \in 1..Len(objOut)
          BY <1>6, <3>1, EmptySeq DEF Open
        <4>2. objOut[Len(objOut)] \in ObjRecords
          BY <1>6, <4>1, ElementOfSeq
        <4> QED BY <4>2 DEF ObjRecords
      <3> HIDE DEF begin
      <3>3. PlainProgram => CellsIn(objOut', textRecBuf') = CellsIn(objOut, textRecBuf) \cup Cells(item)
        <4> SUFFICES ASSUME PlainProgram
                     PROVE  CellsIn(objOut, Append(textRecBuf, item)) =
                              CellsIn(objOut, textRecBuf) \cup Cells(item)
          BY <3>1
        <4>1. Fills(textRecBuf, begin, curTextRecordLen) /\ item.loc = begin + curTextRecordLen
          BY <1>3, <1>8, <2>2 DEF begin
        <4>2. PlacedFrom(begin, Append(textRecBuf, item)) = PlacedFrom(begin, textRecBuf) \cup Cells(item)
          BY <1>3, <1>6, <3>2, <4>1, PlacedNext
        <4> QED BY <1>6, <3>1, <4>2, MoreCells DEF begin
      <3> QED BY <1>1, <1>9, <3>1, <3>3
    <2> QED BY <2>1, <2>2
  <1>11. LoadedCode' = LoadedCode \cup (IF PlainProgram THEN Cells(item) ELSE {})
    <2>1. LoadedCode' = IF PlainProgram' THEN CellsIn(objOut', textRecBuf') ELSE {}
      BY DEF LoadedCode, CellsIn, CellsAt, RecordAt, Headers, TextHeaders
    <2> QED BY <1>7, <1>10, <2>1, LoadedIs
  <1>12. /\ Len(lstOut') = Len(lstOut) + 1 /\ Len(lstOut) \in Nat /\ lstOut'[Len(lstOut) + 1] = item
         /\ \A i \in 1..Len(lstOut) : lstOut'[i] = lstOut[i]
    BY <1>1, <1>3, Extended
  <1>13. ASSUME NEW c \in LoadedCode'
         PROVE  \E i \in 1..Len(lstOut') : lstOut'[i].len > 0 /\ c \in Cells(lstOut'[i])
    <2>1. CASE c \in LoadedCode
      <3>1. PICK i \in 1..Len(lstOut) : lstOut[i].len > 0 /\ c \in Cells(lstOut[i])
        BY <1>1, <2>1 DEF LoadInv
      <3>2. i \in 1..Len(lstOut') /\ lstOut'[i] = lstOut[i]
        BY <1>12, <3>1
      <3> QED BY <3>1, <3>2
    <2>2. CASE c \in Cells(item)
      <3>1. Len(lstOut) + 1 \in 1..Len(lstOut') /\ item.len > 0
        BY <1>3, <1>12
      <3> QED BY <1>12, <2>2, <3>1
    <2> QED BY <1>11, <2>1, <2>2
  <1>14. LoadInv'
    BY <1>1, <1>10, <1>13 DEF LoadInv
  <1> QED BY <1>11, <1>14 DEF item, addr


\* Behind the code come modification records and the end record.
LEMMA ClosingRecords ==
  ASSUME Inv, PrintEnd
  PROVE  LET n == Len(objOut) IN
         /\ objOut' \in Seq(ObjRecords) /\ n \in Nat /\ Len(objOut') \in Nat /\ n < Len(objOut')
         /\ \A i \in 1..n : objOut'[i] = objOut[i]
         /\ \A i \in n+1..Len(objOut') : objOut'[i].kind \notin {"T", "body"}
  <1> DEFINE mods == [i \in DOMAIN mRecVec |-> Rec("M", mRecVec[i], 0, <<>>)]
             end == <<Rec("E", pcAddr, 0, <<>>)>>
             n == Len(objOut)
             m == Len(mRecVec)
  <1>1. /\ objOut' = objOut \o mods \o end
        /\ objOut \in Seq(ObjRecords) /\ mRecVec \in Seq(Int) /\ pcAddr \in Int
    BY DEF PrintEnd, Inv, TypeOK, ObjRecords
  <1>2. /\ mods \in Seq(ObjRecords) /\ end \in Seq(ObjRecords) /\ Len(end) = 1
        /\ Len(mods) = m /\ n \in Nat /\ m \in Nat
        /\ (\A k \in 1..m : mods[k].kind = "M") /\ end[1].kind = "E"
    <2>1. DOMAIN mRecVec = 1..m /\ n \in Nat /\ m \in Nat
      BY <1>1
    <2>2. \A k \in 1..m : /\ Rec("M", mRecVec[k], 0, <<>>) \in ObjRecords
                          /\ Rec("M", mRecVec[k], 0, <<>>).kind = "M"
      BY <1>1 DEF Rec, ObjRecords
    <2>3. Rec("E", pcAddr, 0, <<>>) \in ObjRecords /\ Rec("E", pcAddr, 0, <<>>).kind = "E"
      BY <1>1 DEF Rec, ObjRecords
    <2>4. end \in Seq(ObjRecords) /\ Len(end) = 1 /\ end[1].kind = "E"
      BY <2>3
    <2>5. mods \in Seq(ObjRecords) /\ Len(mods) = m
      BY <2>1, <2>2
    <2> QED BY <2>1, <2>2, <2>4, <2>5
  <1> HIDE DEF mods, end
  <1> DEFINE front == objOut \o mods
  <1>3. /\ front \in Seq(ObjRecords) /\ Len(front) = n + m
        /\ \A i \in 1..n+m : front[i] = IF i <= n THEN objOut[i] ELSE mods[i - n]
    <2>1. objOut \in Seq(ObjRecords) /\ mods \in Seq(ObjRecords)
      BY <1>1, <1>2
    <2>2. /\ front \in Seq(ObjRecords) /\ Len(front) = Len(objOut) + Len(mods)
          /\ \A i \in 1..Len(objOut)+Len(mods) :
               front[i] = IF i <= Len(objOut) THEN objOut[i] ELSE mods[i - Len(objOut)]
      BY <2>1, ConcatProperties
    <2> HIDE DEF front
    <2> QED BY <1>2, <2>2
  <1>4. objOut' = front \o end
    BY <1>1
  <1> HIDE DEF front
  <1>5. /\ objOut' \in Seq(ObjRecords) /\ Len(objOut') = n + m + 1
        /\ \A i \in 1..n+m+1 : objOut'[i] = IF i <= n + m THEN front[i] ELSE end[i - (n + m)]
    <2>1. front \in Seq(ObjRecords) /\ end \in Seq(ObjRecords)
      BY <1>2, <1>3
    <2>2. /\ front \o end \in Seq(ObjRecords) /\ Len(front \o end) = Len(front) + Len(end)
          /\ \A i \in 1..Len(front)+Len(end) :
               (front \o end)[i] = IF i <= Len(front) THEN front[i] ELSE end[i - Len(front)]
      BY <2>1, ConcatProperties
    <2>3. Len(front) = n + m /\ Len(end) = 1
      BY <1>2, <1>3
    <2> QED BY <1>4, <2>2, <2>3
  <1>6. ASSUME NEW i \in 1..n PROVE objOut'[i] = objOut[i]
    <2>1. i \in 1..n+m+1 /\ i <= n + m /\ i \in 1..n+m /\ i <= n
      BY <1>2
    <2> QED BY <1>3, <1>5, <2>1
  <1>7. ASSUME NEW i \in n+1..Len(objOut') PROVE objOut'[i].kind \notin {"T", "body"}
    <2>1. CASE i <= n + m
      <3>1. i \in 1..n+m+1 /\ i \in 1..n+m /\ ~(i <= n) /\ i - n \in 1..m
        BY <1>2, <1>5, <2>1
      <3>2. objOut'[i] = mods[i - n]
        BY <1>3, <1>5, <2>1, <3>1
      <3> QED BY <1>2, <3>1, <3>2
    <2>2. CASE ~(i <= n + m)
      <3>0. /\ n \in Nat /\ m \in Nat /\ Len(objOut') = n + m + 1
        BY <1>2, <1>5
      <3>01. i \in n+1..n+m+1
        BY <3>0
      <3> HIDE DEF n, m
      <3>1. i \in 1..n+m+1 /\ i - (n + m) = 1
        BY <2>2, <3>0, <3>01
      <3>2. objOut'[i] = end[1]
        BY <1>5, <2>2, <3>1
      <3> QED BY <1>2, <3>2
    <2> QED BY <2>1, <2>2
  <1> QED BY <1>2, <1>5, <1>6, <1>7

\* The header is no text record, and the closing records leave the code alone.
LEMMA OtherLoads ==
  ASSUME Inv, LoadInv, InitStates \/ PrintEnd PROVE LoadInv' /\ LoadedCode' = LoadedCode
  <1>0. LoadedCode' = IF PlainProgram' THEN CellsIn(objOut', textRecBuf') ELSE {}
    BY DEF LoadedCode, CellsIn, CellsAt, RecordAt, Headers, TextHeaders
  <1>1. CASE InitStates
    <2> DEFINE rec == Rec("H", stVec[1].loc, stVec[Len(stVec)].loc - stVec[1].loc, <<>>)
    <2>1. /\ phase = "init2" /\ phase' = "pass2" /\ objOut = <<>> /\ objOut' = <<rec>>
          /\ curTextRecordLen' = 0
      BY <1>1 DEF InitStates, LoadInv
    <2>2. rec.kind = "H"
      BY DEF Rec
    <2> HIDE DEF rec
    <2>3. Shape(objOut') /\ ~Open(objOut') /\ Headers(objOut) = {} /\ Headers(objOut') = {}
      BY <2>1, <2>2 DEF Shape, Open, Headers
    <2>4. LoadedCode = {} /\ LoadedCode' = {}
      BY <1>0, <2>3, LoadedIs DEF CellsIn
    <2> QED BY <2>1, <2>3, <2>4 DEF LoadInv
  <1>2. CASE PrintEnd
    <2> DEFINE n == Len(objOut)
    <2>1. /\ phase = "pass2" /\ phase' = "passed" /\ UNCHANGED <<stVec, textRecBuf>>
          /\ objOut \in Seq(ObjRecords) /\ Shape(objOut)
      BY <1>2 DEF PrintEnd, Inv, TypeOK, ObjRecords, LoadInv
    <2>2. /\ objOut' \in Seq(ObjRecords) /\ n \in Nat /\ Len(objOut') \in Nat /\ n < Len(objOut')
          /\ \A i \in 1..n : objOut'[i] = objOut[i]
          /\ \A i \in n+1..Len(objOut') : objOut'[i].kind \notin {"T", "body"}
      BY <1>2, ClosingRecords
    <2>3. Headers(objOut') = Headers(objOut)
      <3>1. \A i \in 1..Len(objOut') : i \in 1..n \/ i \in n+1..Len(objOut')
        BY <2>2
      <3>2. \A i \in 1..n : i \in 1..Len(objOut')
        BY <2>2
      <3> QED BY <2>2, <3>1, <3>2 DEF Headers
    <2>4. ASSUME NEW i \in Headers(objOut)
          PROVE  CellsAt(objOut', textRecBuf, i) = CellsAt(objOut, textRecBuf, i)
      <3>1. i \in 1..n /\ objOut'[i] = objOut[i] /\ objOut[i].kind = "T"
        BY <2>2 DEF Headers
      <3>2. CASE i < n
        <4>1. i + 1 \in 1..n /\ i < Len(objOut')
          BY <2>2, <3>1, <3>2
        <4> QED BY <2>2, <3>1, <3>2, <4>1 DEF CellsAt
      <3>3. CASE i = n
        <4>1. i + 1 \in n+1..Len(objOut') /\ ~(i < n)
          BY <2>2, <3>1, <3>3
        <4>2. objOut'[i + 1].kind # "body"
          BY <2>2, <4>1
        <4> QED BY <3>1, <4>1, <4>2 DEF CellsAt
      <3> QED BY <2>2, <3>1, <3>2, <3>3
    <2>5. CellsIn(objOut', textRecBuf) = CellsIn(objOut, textRecBuf)
      BY <2>3, <2>4, Zenon DEF CellsIn
    <2>6. PlainProgram' <=> PlainProgram
      BY <2>1 DEF PlainProgram, Plain
    <2>7. LoadedCode' = LoadedCode
      BY <1>0, <2>1, <2>5, <2>6, LoadedIs
    <2> QED BY <2>1, <2>7 DEF LoadInv
  <1> QED BY <1>1, <1>2

\* The new code of a statement is at free addresses.
LEMMA ItemIsPut ==
  ASSUME Inv, AddressInv, CodeInv, OrderInv, LoadInv, PlainProgram,
         NEW len \in Nat \ {0}, NEW code \in Code, NEW absolute, ListsItem(len, code, absolute),
         LoadedCode' = LoadedCode \cup Cells([loc |-> stVec[stIdx].loc, len |-> len, code |-> code])
  PROVE  Image!Put
  <1> DEFINE addr == stVec[stIdx].loc
             item == [loc |-> addr, len |-> len, code |-> code]
             new == {c \in LoadedCode' : c \notin LoadedCode}
             addresses == {c[1] : c \in new}
  <1>1. /\ phase = "pass2" /\ stIdx < Len(stVec) /\ stIdx \in Nat \ {0} /\ Len(stVec) \in Nat
        /\ stVec \in Seq(Statement) /\ ~Is(stVec[stIdx].src, "END")
    BY DEF ListsItem, Inv, TypeOK
  <1>2. addr \in Int /\ addr # -1
    BY <1>1, NextPlace
  <1>3. item.loc = addr /\ item.len = len
    OBVIOUS
  <1>4. LoadedCode' = LoadedCode \cup Cells(item)
    OBVIOUS
  <1>5. ASSUME NEW c \in LoadedCode PROVE c[1] \in Int /\ c[1] < addr
    <2>1. PICK i \in 1..Len(lstOut) : lstOut[i].len > 0 /\ c \in Cells(lstOut[i])
      BY <1>1 DEF LoadInv
    <2>2. i \in 1..stIdx-1 /\ i \in 1..Len(stVec) /\ stIdx \in 1..Len(stVec) /\ i < stIdx
      BY <1>1, <2>1 DEF CodeInv, ListingInv
    <2>3. Plain(stVec[i].src)
      BY <2>2 DEF PlainProgram
    <2>4. SameStatement(lstOut[i], stVec[i])
      BY <1>1, <2>2 DEF CodeInv, ListingInv
    <2>5. /\ lstOut[i].loc = stVec[i].loc /\ lstOut[i].len = DeclaredSize(stVec[i].src)
          /\ ~Is(stVec[i].src, "END")
      BY <2>1, <2>3, <2>4 DEF SameStatement
    <2>6. LaidOut(stVec, phase, loc) /\ Ordered(stVec, loc)
      BY <1>1 DEF AddressInv, OrderInv, Assembling
    <2>7. stVec[i].loc \in 0..LOC_MAX /\ stVec[i].loc # -1
      <3>1. stVec[i].loc \in 0..LOC_MAX
        BY <2>2, <2>5, <2>6 DEF LaidOut, InRange
      <3> QED BY <3>1, Widths, SMTT(20)
    <2>8. EndOf(stVec[i]) <= addr /\ DeclaredSize(stVec[i].src) \in Nat
      BY <1>2, <2>2, <2>6, <2>7 DEF Ordered
    <2>9. PICK b \in 0..lstOut[i].len-1 : c = <<lstOut[i].loc + b, lstOut[i]>>
      BY <2>1 DEF Cells
    <2>10. c[1] = stVec[i].loc + b
      BY <2>5, <2>9
    <2> DEFINE at == stVec[i].loc
               size == DeclaredSize(stVec[i].src)
    <2>11. /\ at \in Int /\ size \in Nat /\ at + size <= addr
      <3>1. 0..LOC_MAX \subseteq Int
        OBVIOUS
      <3> QED BY <2>5, <2>7, <2>8, <3>1 DEF EndOf
    <2>12. b \in 0..size-1 /\ c[1] = at + b
      BY <2>5, <2>9, <2>10
    <2> HIDE DEF addr, at, size
    <2> QED BY <1>2, <2>11, <2>12
  <1>6. ASSUME NEW c \in Cells(item)
        PROVE  /\ c[1] \in addr..addr+len-1 /\ c = <<c[1], item>> /\ c[2] = item
    <2>1. PICK b \in 0..len-1 : c = <<addr + b, item>>
      BY <1>3 DEF Cells
    <2> HIDE DEF item, addr
    <2> QED BY <1>2, <2>1
  <1> HIDE DEF item, addr
  <1>7. \A a \in addr..addr+len-1 : <<a, item>> \in Cells(item)
    <2> SUFFICES ASSUME NEW a \in addr..addr+len-1 PROVE <<a, item>> \in Cells(item)
      OBVIOUS
    <2>1. a - addr \in 0..len-1 /\ addr + (a - addr) = a
      BY <1>2
    <2> QED BY <1>3, <2>1 DEF Cells
  <1>8. \A c \in Cells(item) : c \notin LoadedCode
    <2> SUFFICES ASSUME NEW c \in Cells(item), c \in LoadedCode PROVE FALSE
      OBVIOUS
    <2>1. c[1] \in addr..addr+len-1 /\ c[1] \in Int /\ c[1] < addr
      BY <1>5, <1>6
    <2> QED BY <1>2, <2>1
  <1>9. new = Cells(item)
    BY <1>4, <1>8
  <1> HIDE DEF new
  <1>10. addresses = addr..addr+len-1
    <2>1. \A a \in addr..addr+len-1 : <<a, item>>[1] = a
      OBVIOUS
    <2>2. \A a \in addr..addr+len-1 : a \in addresses
      BY <1>7, <1>9, <2>1
    <2> QED BY <1>6, <1>9, <2>2
  <1>11. LoadedCode \subseteq LoadedCode'
    BY <1>4
  <1>12. \A c, d \in new : c[2] = d[2]
    BY <1>6, <1>9
  <1>13. \A c, d \in new : c[1] = d[1] => c = d
    BY <1>6, <1>9
  <1>14. addresses \cap {c[1] : c \in LoadedCode} = {}
    <2> SUFFICES ASSUME NEW c \in LoadedCode, c[1] \in addresses PROVE FALSE
      OBVIOUS
    <2> HIDE DEF addresses
    <2> QED BY <1>2, <1>5, <1>10
  <1>15. \A a, b \in addresses : (a..b) \subseteq addresses
    <2> HIDE DEF addresses
    <2> QED BY <1>2, <1>10
  <1> QED BY <1>11, <1>12, <1>13, <1>14, <1>15 DEF Image!Put, Image!Used, new

\* Every step adds one piece of code or none.
LEMMA LoadStep ==
  ASSUME ~AllocMayFail, Inv, AddressInv, CodeInv, OrderInv, RecordInv, LoadInv, [Next]_vars
  PROVE  LoadInv' /\ (Image!Put \/ UNCHANGED LoadedCode)
  <1>0. LoadedCode' = IF PlainProgram' THEN CellsIn(objOut', textRecBuf') ELSE {}
    BY DEF LoadedCode, CellsIn, CellsAt, RecordAt, Headers, TextHeaders
  <1>1. CASE Pass1Next /\ UNCHANGED pass2Vars
    <2>1. phase \in {"pass1", "dummy"} /\ phase' # "pass2"
      <3>1. Pass1Effect
        BY <1>1, Pass1Cases DEF Inv, TypeOK
      <3> QED BY <3>1 DEF Pass1Effect, Refusing, Reject, Undefined, Accepting, Accept, Ended,
                          TokenAllocFail, PushDummy
    <2>2. objOut = <<>> /\ objOut' = <<>> /\ curTextRecordLen' = 0
      BY <1>1, <2>1 DEF LoadInv, pass2Vars
    <2>3. Headers(objOut) = {} /\ Headers(objOut') = {}
      BY <2>2 DEF Headers
    <2>4. LoadedCode = {} /\ LoadedCode' = {}
      BY <1>0, <2>3, LoadedIs DEF CellsIn
    <2> QED BY <2>1, <2>2, <2>4 DEF LoadInv
  <1>2. CASE Pass2Next
    <2>1. CASE phase' \in {"failed", "undefined"} /\ UNCHANGED <<stVec, pass2Vars>>
      <3>1. PlainProgram' <=> PlainProgram
        BY <2>1 DEF PlainProgram, Plain
      <3>2. LoadedCode' = LoadedCode
        BY <1>0, <2>1, <3>1, LoadedIs DEF pass2Vars
      <3> QED BY <2>1, <3>2 DEF LoadInv
    <2>2. ASSUME NEW absolute, NEW len \in Nat \ {0}, NEW code \in Code, ListsItem(len, code, absolute)
          PROVE  LoadInv' /\ (Image!Put \/ UNCHANGED LoadedCode)
      <3> DEFINE item == [loc |-> stVec[stIdx].loc, len |-> len, code |-> code]
      <3>1. LoadInv' /\ LoadedCode' = LoadedCode \cup (IF PlainProgram THEN Cells(item) ELSE {})
        BY <2>2, ListsItemLoads
      <3>2. CASE PlainProgram
        BY <2>2, <3>1, <3>2, ItemIsPut
      <3>3. CASE ~PlainProgram
        BY <3>1, <3>3
      <3> QED BY <3>2, <3>3
    <2> QED BY <1>2, <2>1, <2>2, Pass2Writes, OtherLoads, ListsNothingLoads
  <1>3. CASE UNCHANGED vars
    <2>1. PlainProgram' <=> PlainProgram
      BY <1>3 DEF vars, pass1Vars, PlainProgram, Plain
    <2>2. LoadedCode' = LoadedCode
      BY <1>0, <1>3, <2>1, LoadedIs DEF vars, pass2Vars
    <2> QED BY <1>3, <2>2 DEF LoadInv, vars, pass1Vars, pass2Vars
  <1> QED BY <1>1, <1>2, <1>3 DEF Next

(* When memory does not run out, assembling implements the loader's promise  *)
(* (Loader): the memory image that the object file of a plain program        *)
(* describes grows by one statement's code at a time, at consecutive         *)
(* addresses that are all free, and nothing of it is taken back.             *)
THEOREM ImageGrowsOnce == ASSUME ~AllocMayFail PROVE Spec => LoadsOnce
  <1>1. Init => LoadInv /\ Image!Init
    <2> SUFFICES ASSUME Init PROVE LoadInv /\ Image!Init
      OBVIOUS
    <2>1. objOut = <<>> /\ curTextRecordLen = 0 /\ phase = "pass1"
      BY DEF Init, Pass1Init, Pass2Init
    <2>2. Headers(objOut) = {}
      BY <2>1 DEF Headers
    <2>3. LoadedCode = {}
      BY <2>2, LoadedIs DEF CellsIn
    <2> QED BY <2>1, <2>3 DEF LoadInv, Image!Init
  <1>2. Inv /\ AddressInv /\ CodeInv /\ OrderInv /\ RecordInv /\ LoadInv /\ [Next]_vars
          => LoadInv' /\ [Image!Put]_LoadedCode
    BY LoadStep
  <1> QED BY <1>1, <1>2, Invariance, AddressInvariance, CodeInvariance, OrderInvariance,
             RecordInvariance, PTL DEF Spec, LoadsOnce, Image!Spec

==============================================================================
