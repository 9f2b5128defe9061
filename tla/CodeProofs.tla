------------------------------ MODULE CodeProofs ------------------------------
(* Proofs about what pass 2 makes of the statements: instructions reach the  *)
(* symbols they name, for every program and every width of the displacement, *)
(* say what the source says, and execution starts at one of them.            *)
EXTENDS AssembleProofs

\* A displacement in range is read back from its low bits.
LEMMA SignedBack ==
  ASSUME NEW d \in -PC_RANGE..PC_RANGE-1
  PROVE  Signed(d % (2 * PC_RANGE)) = d
  <1>1. PC_RANGE \in Nat \ {0} /\ 2 * PC_RANGE \in Nat \ {0}
    BY Widths
  <1>2. CASE d >= 0
    <2>1. d \in 0..(2 * PC_RANGE)-1
      BY <1>1, <1>2
    <2>2. d % (2 * PC_RANGE) = d
      BY <1>1, <2>1, ModIdentity
    <2> QED BY <1>1, <1>2, <2>2 DEF Signed
  <1>3. CASE d < 0
    <2>1. d % (2 * PC_RANGE) = d + 2 * PC_RANGE
      BY <1>1, <1>3
    <2> QED BY <1>1, <1>3, <2>1 DEF Signed
  <1> QED BY <1>1, <1>2, <1>3

\* A short instruction with a symbol holds the distance to it, from the
\* program counter or from the base, in its low bits.
LEMMA SymbolEncoded ==
  ASSUME TypeOK, NEW l \in Lines \cup {BlankLine}, NEW pc \in Int,
         Optab[l.mn] = 3, ~l.ext, l.operand.kind = "name",
         InstructionError(l, pc) = "none"
  PROVE  /\ symtab[l.operand.name] \in Int
         /\ \/ /\ "p" \in InstructionCode(l, pc).mode
               /\ PcRelative(symtab[l.operand.name], pc)
               /\ InstructionCode(l, pc).field
                    = (symtab[l.operand.name] - pc) % (2 * PC_RANGE)
            \/ /\ "b" \in InstructionCode(l, pc).mode
               /\ BaseRelative(symtab[l.operand.name])
               /\ InstructionCode(l, pc).field
                    = (symtab[l.operand.name] - baseAddr) % (2 * PC_RANGE)
  <1> DEFINE o == l.operand
             target == symtab[o.name]
             bits == PrefixMode(o) \cup IndexMode(o)
             rel == Relative(target, pc)
  <1>1. Present(o) /\ ~IsConstant(o)
    BY DEF Present, IsConstant
  <1>2. Format34Error(l, pc) = "none" /\ Iff(l.mn) # "NO_ARG"
    BY <1>1 DEF InstructionError
  <1>3. IsSymbol(o)
    BY <1>1, <1>2 DEF Format34Error
  <1>4. target \in Int /\ baseAddr \in Int
    BY <1>3 DEF IsSymbol, TypeOK
  <1>5. rel # {}
    BY <1>1, <1>2, <1>3 DEF Format34Error
  <1>6. \/ rel = {"p"} /\ PcRelative(target, pc)
        \/ rel = {"b"} /\ BaseRelative(target)
    BY <1>5 DEF Relative
  <1>7. \A d \in Int : /\ Displacement(l, d) = d % (2 * PC_RANGE)
                       /\ Displacement(l, d) \in Nat
    BY DisplacementType DEF Displacement
  <1>8. InstructionCode(l, pc) = Format34Code(l, pc)
    BY DEF InstructionCode
  <1> HIDE DEF bits, rel
  <1>9. Format34Code(l, pc) =
          Encoding(l, bits \cup rel,
            CASE rel = {"p"} -> Displacement(l, target - pc)
              [] rel = {"b"} -> Displacement(l, target - baseAddr)
              [] OTHER       -> target)
    BY <1>1 DEF Format34Code, bits, rel
  <1>10. CASE rel = {"p"} /\ PcRelative(target, pc)
    <2>1. Format34Code(l, pc) = Encoding(l, bits \cup rel, Displacement(l, target - pc))
      BY <1>9, <1>10
    <2>2. Displacement(l, target - pc) = (target - pc) % (2 * PC_RANGE)
          /\ Displacement(l, target - pc) >= 0
      BY <1>4, <1>7
    <2>3. /\ Format34Code(l, pc).mode = bits \cup rel
          /\ Format34Code(l, pc).field = (target - pc) % (2 * PC_RANGE)
      BY <2>1, <2>2 DEF Encoding
    <2> QED BY <1>4, <1>8, <1>10, <2>3
  <1>11. CASE rel = {"b"} /\ BaseRelative(target)
    <2>0. rel # {"p"}
      BY <1>11
    <2>1. Format34Code(l, pc) = Encoding(l, bits \cup rel, Displacement(l, target - baseAddr))
      BY <1>9, <1>11, <2>0
    <2>2. Displacement(l, target - baseAddr) = (target - baseAddr) % (2 * PC_RANGE)
          /\ Displacement(l, target - baseAddr) >= 0
      BY <1>4, <1>7
    <2>3. /\ Format34Code(l, pc).mode = bits \cup rel
          /\ Format34Code(l, pc).field = (target - baseAddr) % (2 * PC_RANGE)
      BY <2>1, <2>2 DEF Encoding
    <2> QED BY <1>4, <1>8, <1>11, <2>3
  <1> QED BY <1>6, <1>10, <1>11

-----------------------------------------------------------------------------
\* BaseInForce of a vector of statements.
SetsBase(st) == Is(st.src, "BASE") \/ Is(st.src, "NOBASE")
BaseAt(vec, i) ==
  LET before == {j \in 1..i-1 : SetsBase(vec[j])}
  IN  IF before = {} THEN 0 ELSE CHOOSE j \in before : \A k \in before : k <= j

\* A BASE or NOBASE statement is in force behind itself, and stays so behind
\* any other statement.
LEMMA BaseStep ==
  ASSUME NEW vec, NEW i \in Nat \ {0}
  PROVE  BaseAt(vec, i + 1) = IF SetsBase(vec[i]) THEN i ELSE BaseAt(vec, i)
  <1> DEFINE before(n) == {j \in 1..n-1 : SetsBase(vec[j])}
  <1>1. CASE SetsBase(vec[i])
    <2>1. i \in before(i + 1) /\ \A k \in before(i + 1) : k \in Int /\ k <= i
      BY <1>1
    <2> DEFINE last == CHOOSE j \in before(i + 1) : \A k \in before(i + 1) : k <= j
    <2>2. last \in before(i + 1) /\ \A k \in before(i + 1) : k <= last
      BY <2>1
    <2>3. last = i
      <3> HIDE DEF last, before
      <3> QED BY <2>1, <2>2
    <2>4. BaseAt(vec, i + 1) = last
      BY <2>1 DEF BaseAt
    <2> QED BY <1>1, <2>3, <2>4
  <1>2. CASE ~SetsBase(vec[i])
    <2>1. before(i + 1) = before(i)
      BY <1>2
    <2>2. BaseAt(vec, i + 1) = BaseAt(vec, i)
      <3>1. \A n : BaseAt(vec, n) =
                     IF before(n) = {} THEN 0
                     ELSE CHOOSE j \in before(n) : \A k \in before(n) : k <= j
        BY DEF BaseAt
      <3> HIDE DEF before
      <3> QED BY <2>1, <3>1
    <2> QED BY <1>2, <2>2
  <1> QED BY <1>1, <1>2

-----------------------------------------------------------------------------
(* Whatever the numbers of the program are, what lies behind an instruction  *)
(* is at the end of it: the operands move the counter of no instruction.     *)
Following(vec) ==
  \A i \in 1..Len(vec) - 1 :
    IsInstruction(vec[i].src) /\ vec[i + 1].loc # -1 =>
      vec[i + 1].loc = vec[i].loc + InstructionLen(vec[i].src)

FollowInv ==
  /\ Assembling => Following(stVec)
  /\ phase \in {"pass1", "dummy"} /\ Len(stVec) > 0 =>
       LET last == stVec[Len(stVec)] IN
       IsInstruction(last.src) => loc = last.loc + InstructionLen(last.src)

\* A statement is pushed at the counter, or marked as END.
LEMMA FollowNext ==
  ASSUME NEW vec \in Seq(Statement), NEW st \in Statement, NEW counter \in Int,
         Following(vec),
         Len(vec) > 0 /\ IsInstruction(vec[Len(vec)].src) =>
           counter = vec[Len(vec)].loc + InstructionLen(vec[Len(vec)].src),
         Len(vec) > 0 => st.loc \in {counter, -1}
  PROVE  Following(Append(vec, st))
  <1> DEFINE new == Append(vec, st)
             n == Len(vec)
  <1>1. /\ n \in Nat /\ Len(new) = n + 1 /\ new[n + 1] = st
        /\ \A i \in 1..n : new[i] = vec[i]
    BY Extended
  <1> HIDE DEF new
  <1>2. ASSUME NEW i \in 1..n, IsInstruction(new[i].src), new[i + 1].loc # -1
        PROVE  new[i + 1].loc = new[i].loc + InstructionLen(new[i].src)
    <2>1. CASE i < n
      <3>1. new[i] = vec[i] /\ new[i + 1] = vec[i + 1]
        BY <1>1, <2>1
      <3> QED BY <1>1, <1>2, <2>1, <3>1 DEF Following
    <2>2. CASE i = n
      BY <1>1, <1>2, <2>2
    <2> QED BY <1>1, <2>1, <2>2
  <1>3. Following(new)
    BY <1>1, <1>2 DEF Following
  <1> QED BY <1>3 DEF new

\* A line is accepted: START can only be the first.
LEMMA AcceptFollows ==
  ASSUME Inv, AddressInv, FollowInv, NEW l \in Lines, NEW eof \in BOOLEAN,
         NEW a \in Int, NEW b \in Int, Accepting(l, eof, a, b)
  PROVE  FollowInv'
  <1> DEFINE st == [src |-> l, lineNo |-> lineNo, loc |-> a]
  <1>1. /\ stVec \in Seq(Statement) /\ st \in Statement /\ phase = "pass1" /\ loc \in Int
        /\ stVec' = Append(stVec, st) /\ loc' = b /\ Placed(l, a, b)
        /\ lineNo = Len(stVec) + 1
    BY LineFields DEF Accepting, Accept, Ended, VecPush, Statement, Inv, TypeOK, AddressInv
  <1>2. Len(stVec') = Len(stVec) + 1 /\ stVec'[Len(stVec) + 1] = st /\ Len(stVec) \in Nat
    BY <1>1, Extended
  <1>3. Following(stVec')
    <2>1. Following(stVec) /\ (Len(stVec) > 0 /\ IsInstruction(stVec[Len(stVec)].src) =>
            loc = stVec[Len(stVec)].loc + InstructionLen(stVec[Len(stVec)].src))
      BY <1>1 DEF FollowInv, Assembling
    <2>2. Len(stVec) > 0 => st.loc \in {loc, -1}
      BY <1>1, <1>2 DEF Placed
    <2> HIDE DEF st
    <2> QED BY <1>1, <2>1, <2>2, FollowNext
  <1>4. IsInstruction(l) => b = a + InstructionLen(l)
    BY <1>1 DEF Placed, IsInstruction, Directives
  <1>5. IsInstruction(stVec'[Len(stVec')].src) =>
          loc' = stVec'[Len(stVec')].loc + InstructionLen(stVec'[Len(stVec')].src)
    BY <1>1, <1>2, <1>4
  <1> QED BY <1>3, <1>5 DEF FollowInv, Following, IsInstruction, InstructionLen, Is

\* The dummy is pushed.
LEMMA PushDummyFollows ==
  ASSUME Inv, FollowInv, PushDummy PROVE FollowInv'
  <1> DEFINE st == [src |-> BlankLine, lineNo |-> 0, loc |-> loc]
  <1>1. /\ stVec \in Seq(Statement) /\ st \in Statement /\ phase = "dummy" /\ loc \in Int
        /\ stVec' = Append(stVec, st) /\ phase' = "init2"
    BY LineFields DEF PushDummy, VecPush, Statement, Inv, TypeOK
  <1>2. Following(stVec')
    <2>1. Following(stVec) /\ (Len(stVec) > 0 /\ IsInstruction(stVec[Len(stVec)].src) =>
            loc = stVec[Len(stVec)].loc + InstructionLen(stVec[Len(stVec)].src))
      BY <1>1 DEF FollowInv, Assembling
    <2>2. st.loc = loc
      OBVIOUS
    <2> HIDE DEF st
    <2> QED BY <1>1, <2>1, <2>2, FollowNext
  <1> QED BY <1>1, <1>2 DEF FollowInv, Following, IsInstruction, InstructionLen, Is

\* Every step preserves it.
LEMMA FollowStep == Inv /\ AddressInv /\ FollowInv /\ [Next]_vars => FollowInv'
  <1> SUFFICES ASSUME Inv, AddressInv, FollowInv, [Next]_vars PROVE FollowInv'
    OBVIOUS
  <1> DEFINE Leaving == /\ UNCHANGED stVec /\ phase' \notin {"pass1", "dummy"}
                        /\ Assembling' => Assembling
  <1>0. ASSUME Leaving PROVE FollowInv'
    BY <1>0 DEF FollowInv, Following, IsInstruction, InstructionLen, Is
  <1>1. CASE Pass1Next
    <2>1. Pass1Effect
      BY <1>1, Pass1Cases DEF Inv, TypeOK
    <2>2. CASE phase \in {"pass1", "dummy"} /\ Refusing
      BY <1>0, <2>2 DEF Refusing, Reject, Undefined, Assembling
    <2>3. ASSUME NEW l \in Lines, TokenAllocFail(l) PROVE FollowInv'
      BY <1>0, <2>3 DEF TokenAllocFail, Assembling
    <2> QED BY <2>1, <2>2, <2>3, AcceptFollows, PushDummyFollows DEF Pass1Effect
  <1>2. CASE Pass2Next
    <2>1. Pass2Effect
      BY <1>2, Pass2Cases DEF Inv
    <2>2. /\ UNCHANGED stVec /\ phase \in {"init2", "pass2"}
          /\ phase' \in {"pass2", "passed", "failed", "undefined"}
      BY <2>1 DEF Pass2Effect, InitStates, PrintEnd, Fail2, Undefined, PrintNoCode, PrintCode
    <2> QED BY <1>0, <2>2 DEF Assembling
  <1>3. CASE UNCHANGED vars
    BY <1>3 DEF vars, pass1Vars, FollowInv, Assembling, Following, IsInstruction,
                InstructionLen, Is
  <1> QED BY <1>1, <1>2, <1>3 DEF Next

\* It holds before the first line.
LEMMA FollowInit == Init => FollowInv
  BY DEF Init, Pass1Init, FollowInv, Following

-----------------------------------------------------------------------------
(* What a step of pass 2 that lists the statement at hand does: the item it  *)
(* puts into the listing, and the base register from then on.                *)
BaseChange(l) ==
  \/ Is(l, "BASE") /\ baseAvailable' /\ baseAddr' = symtab[l.operand.name]
  \/ Is(l, "NOBASE") /\ ~baseAvailable'
  \/ ~Is(l, "BASE") /\ ~Is(l, "NOBASE") /\ UNCHANGED <<baseAddr, baseAvailable>>

ItemOf(l, item) ==
  /\ item.loc = stVec[stIdx].loc
  /\ Plain(l) /\ item.len > 0 => item.len = DeclaredSize(l) /\ ~Is(l, "END")
  /\ IsInstruction(l) => LET pc == stVec[stIdx + 1].loc IN
                         /\ item.len = InstructionLen(l)
                         /\ InstructionError(l, pc) = "none"
                         /\ item.code = InstructionCode(l, pc)

Listing(item) ==
  /\ phase = "pass2" /\ stIdx < Len(stVec)
  /\ stIdx' = stIdx + 1 /\ lstOut' = Append(lstOut, item)
  /\ UNCHANGED <<phase, stVec, symtab>>
  /\ objOut # <<>> => objOut' # <<>> /\ objOut'[1] = objOut[1]
  /\ ItemOf(stVec[stIdx].src, item) /\ BaseChange(stVec[stIdx].src)

\* The header stays the first record.
LEMMA AppendKeepsHeader ==
  ASSUME NEW recs \in Seq(ObjRecords), NEW rec \in ObjRecords, recs # <<>>
  PROVE  Append(recs, rec) # <<>> /\ Append(recs, rec)[1] = recs[1]
  OBVIOUS

\* Ending a text record does not touch it.
LEMMA FlushedKeepsHeader ==
  ASSUME Inv, objOut # <<>>, NEW flush \in BOOLEAN, NEW len
  PROVE  /\ Flushed(flush, len) \in Seq(ObjRecords)
         /\ Flushed(flush, len) # <<>> /\ Flushed(flush, len)[1] = objOut[1]
  <1> DEFINE rec == Rec("body", 0, curTextRecordLen, textRecBuf)
  <1>1. objOut \in Seq(ObjRecords) /\ rec \in ObjRecords
    BY DEF Inv, TypeOK, ObjRecords, Rec
  <1>2. Flushed(flush, len) \in {objOut, Append(objOut, rec)}
    BY DEF Flushed
  <1> HIDE DEF rec
  <1>3. Append(objOut, rec) \in Seq(ObjRecords)
    BY <1>1
  <1> QED BY <1>1, <1>2, <1>3, AppendKeepsHeader

\* A statement without code is listed without code.
LEMMA ListsNoCode ==
  ASSUME Inv, NEW l, Processing(l), NEW flush \in BOOLEAN, PrintNoCode(flush), ~IsInstruction(l),
         BaseChange(l)
  PROVE  \E item : Listing(item)
  <1> DEFINE item == [loc |-> stVec[stIdx].loc, len |-> 0, code |-> NoCode]
  <1>1. /\ phase = "pass2" /\ stIdx < Len(stVec) /\ l = stVec[stIdx].src
        /\ stIdx' = stIdx + 1 /\ lstOut' = Append(lstOut, item)
        /\ UNCHANGED <<phase, stVec, symtab>> /\ objOut' = Flushed(flush, objcodeLen)
    BY DEF Processing, PrintNoCode
  <1>2. ItemOf(l, item)
    BY DEF ItemOf
  <1> HIDE DEF item
  <1>3. Listing(item)
    BY <1>1, <1>2, FlushedKeepsHeader DEF Listing
  <1> QED BY <1>3

\* A statement with code is listed with it.
LEMMA ListsCode ==
  ASSUME Inv, NEW l, Processing(l), NEW len, NEW code, NEW absolute,
         PrintCode(len, code, absolute),
         ItemOf(l, [loc |-> stVec[stIdx].loc, len |-> len, code |-> code]),
         BaseChange(l)
  PROVE  \E item : Listing(item)
  <1> DEFINE item == [loc |-> stVec[stIdx].loc, len |-> len, code |-> code]
             rec == Rec("T", stVec[stIdx].loc, 0, <<>>)
  <1>1. /\ phase = "pass2" /\ stIdx < Len(stVec) /\ l = stVec[stIdx].src
        /\ stIdx' = stIdx + 1 /\ lstOut' = Append(lstOut, item)
        /\ UNCHANGED <<phase, stVec, symtab>> /\ objOut' = Opened(stVec[stIdx].loc, len)
    BY DEF Processing, PrintCode
  <1>2. rec \in ObjRecords
    <2>1. stVec[stIdx].loc \in Int
      BY StatementHere DEF Inv
    <2> QED BY <2>1 DEF Rec, ObjRecords
  <1>3. objOut' \in {Flushed(FALSE, len), Append(Flushed(FALSE, len), rec)}
    BY <1>1 DEF Opened
  <1>4. ItemOf(l, item)
    OBVIOUS
  <1> HIDE DEF item, rec
  <1>5. objOut # <<>> => objOut' # <<>> /\ objOut'[1] = objOut[1]
    <2> SUFFICES ASSUME objOut # <<>> PROVE objOut' # <<>> /\ objOut'[1] = objOut[1]
      OBVIOUS
    <2> DEFINE flushed == Flushed(FALSE, len)
    <2>1. flushed \in Seq(ObjRecords) /\ flushed # <<>> /\ flushed[1] = objOut[1]
      BY FlushedKeepsHeader
    <2> HIDE DEF flushed
    <2>2. Append(flushed, rec) # <<>> /\ Append(flushed, rec)[1] = flushed[1]
      BY <1>2, <2>1, AppendKeepsHeader
    <2> QED BY <1>3, <2>1, <2>2 DEF flushed
  <1>6. Listing(item)
    BY <1>1, <1>4, <1>5 DEF Listing
  <1> QED BY <1>6

\* Every step of pass 2 that goes on lists one statement.
LEMMA Pass2Lists ==
  ASSUME Inv, Pass2Next
  PROVE  \/ InitStates \/ PrintEnd \/ phase' \in {"failed", "undefined"}
         \/ \E item : Listing(item)
  <1>1. ASSUME NEW l, \/ BlankStatement(l) \/ ReserveStatement(l) \/ StartStatement(l)
        PROVE  \E item : Listing(item)
    <2>1. Processing(l) /\ ~IsInstruction(l) /\ ~Is(l, "BASE") /\ ~Is(l, "NOBASE")
          /\ AddressesSame
      BY <1>1 DEF BlankStatement, ReserveStatement, StartStatement, IsInstruction, Is,
                  Directives, NoTok
    <2>2. BaseChange(l)
      BY <2>1 DEF BaseChange, AddressesSame
    <2> QED BY <1>1, <2>1, <2>2, ListsNoCode DEF BlankStatement, ReserveStatement,
                                                 StartStatement
  <1>2. ASSUME NEW l, BaseStatement(l) \/ NoBaseStatement(l)
        PROVE  \E item : Listing(item)
    <2>1. Processing(l) /\ ~IsInstruction(l) /\ PrintNoCode(FALSE)
      BY <1>2 DEF BaseStatement, NoBaseStatement, IsInstruction, Directives
    <2>2. CASE BaseStatement(l)
      BY <2>1, <2>2, ListsNoCode DEF BaseStatement, BaseChange
    <2>3. CASE NoBaseStatement(l)
      BY <2>1, <2>3, ListsNoCode DEF NoBaseStatement, BaseChange
    <2> QED BY <1>2, <2>2, <2>3
  <1>3. ASSUME NEW l, EndStatement(l)
        PROVE  phase' = "failed" \/ \E item : Listing(item)
    <2>1. Processing(l) /\ ~IsInstruction(l) /\ ~Is(l, "BASE") /\ ~Is(l, "NOBASE")
      BY <1>3 DEF EndStatement, IsInstruction, Is, Directives
    <2>2. CASE /\ PrintNoCode(TRUE)
               /\ UNCHANGED <<baseAddr, baseAvailable, firstInstruction>>
      BY <2>1, <2>2, ListsNoCode DEF BaseChange
    <2>3. CASE Fail2("SYNTAX_PARSE_FAIL")
      BY <2>3 DEF Fail2
    <2> QED BY <1>3, <2>2, <2>3 DEF EndStatement
  <1>4. ASSUME NEW l, ByteStatement(l)
        PROVE  phase' = "undefined" \/ \E item : Listing(item)
    <2> DEFINE len == LiteralCodeLen(l.operand)
               code == [NoCode EXCEPT !.mn = l.mn, !.field = l.operand.val]
    <2>1. /\ Processing(l) /\ Is(l, "BYTE") /\ ~IsInstruction(l) /\ ~Is(l, "BASE")
          /\ ~Is(l, "NOBASE") /\ ~Is(l, "END") /\ l \in Lines \cup {BlankLine}
      BY <1>4, StatementHere DEF ByteStatement, IsInstruction, Is, Directives, Inv
    <2>2. len = DeclaredSize(l)
      BY <2>1, SizeOfLine
    <2>3. CASE PrintCode(len, code, FALSE) /\ AddressesSame
      <3>1. BaseChange(l)
        BY <2>1, <2>3 DEF BaseChange, AddressesSame
      <3> HIDE DEF len, code
      <3>2. ItemOf(l, [loc |-> stVec[stIdx].loc, len |-> len, code |-> code])
        BY <2>1, <2>2 DEF ItemOf
      <3> QED BY <2>1, <2>3, <3>1, <3>2, ListsCode
    <2>4. CASE Undefined
      BY <2>4 DEF Undefined
    <2> QED BY <1>4, <2>3, <2>4 DEF ByteStatement
  <1>5. ASSUME NEW l, WordStatement(l) PROVE \E item : Listing(item)
    <2> DEFINE code == [NoCode EXCEPT !.mn = l.mn,
                          !.field = ToInt(l.operand.val) % (2 * (WORD_MAX + 1))]
    <2>1. /\ Processing(l) /\ Is(l, "WORD") /\ ~IsInstruction(l) /\ ~Is(l, "BASE")
          /\ ~Is(l, "NOBASE") /\ ~Is(l, "END") /\ l \in Lines \cup {BlankLine}
      BY <1>5, StatementHere DEF WordStatement, IsInstruction, Is, Directives, Inv
    <2>2. DeclaredSize(l) = 3
      BY <2>1, SizeOfLine
    <2>3. PrintCode(3, code, FALSE) /\ AddressesSame
      BY <1>5 DEF WordStatement
    <2>4. BaseChange(l)
      BY <2>1, <2>3 DEF BaseChange, AddressesSame
    <2> HIDE DEF code
    <2>5. ItemOf(l, [loc |-> stVec[stIdx].loc, len |-> 3, code |-> code])
      BY <2>1, <2>2 DEF ItemOf
    <2> QED BY <2>1, <2>3, <2>4, <2>5, ListsCode
  <1>6. ASSUME NEW l, InstructionStatement(l) PROVE \E item : Listing(item)
    <2> DEFINE pc == stVec[stIdx + 1].loc
               code == InstructionCode(l, pc)
               absolute == AbsoluteSymbol(l, pc)
    <2>1. /\ Processing(l) /\ IsInstruction(l) /\ ~Is(l, "BASE") /\ ~Is(l, "NOBASE")
          /\ ~Is(l, "END") /\ l \in Lines \cup {BlankLine} /\ KnownOpcode(l)
      BY <1>6, StatementHere DEF InstructionStatement, IsInstruction, Directives, Inv,
                                 StoredLine
    <2>2. DeclaredSize(l) = InstructionLen(l)
      BY <2>1, SizeOfLine
    <2>3. /\ PrintCode(InstructionLen(l), code, absolute)
          /\ UNCHANGED <<baseAddr, baseAvailable>> /\ InstructionError(l, pc) = "none"
      BY <1>6 DEF InstructionStatement
    <2>4. BaseChange(l)
      BY <2>1, <2>3 DEF BaseChange
    <2>5. ItemOf(l, [loc |-> stVec[stIdx].loc, len |-> InstructionLen(l), code |-> code])
      BY <2>1, <2>2, <2>3 DEF ItemOf
    <2> HIDE DEF code, absolute, pc
    <2> QED BY <2>1, <2>3, <2>4, <2>5, ListsCode
  <1>7. ASSUME NEW l, UndefinedBase(l) \/ RefusedInstruction(l) \/ MRecVecAllocFail(l)
        PROVE  phase' \in {"failed", "undefined"}
    BY <1>7 DEF UndefinedBase, RefusedInstruction, MRecVecAllocFail, Fail2, Undefined
  <1>8. InitStatesAllocFail => phase' = "failed"
    BY DEF InitStatesAllocFail, Fail2
  <1> QED BY <1>1, <1>2, <1>3, <1>4, <1>5, <1>6, <1>7, <1>8 DEF Pass2Next

-----------------------------------------------------------------------------
\* The listed statement i, if it is a short instruction with a symbol and END
\* is not next to it, reaches the symbol: SymbolsResolve of one item.
Reached(item, vec, table, i) ==
  LET l == vec[i].src
      target == table[l.operand.name]
      base == vec[BaseAt(vec, i)].src IN
  /\ IsInstruction(l) /\ Optab[l.mn] = 3 /\ ~l.ext /\ l.operand.kind = "name"
  /\ vec[i + 1].loc # -1
  => \/ /\ "p" \in item.code.mode
        /\ target = item.loc + item.len + Signed(item.code.field)
     \/ /\ "b" \in item.code.mode
        /\ BaseAt(vec, i) > 0 /\ base.mn = "BASE"
        /\ target = table[base.operand.name] + item.code.field

\* The base register holds what the BASE statement in force says.
BaseKnown(vec, table, i, addr) ==
  LET base == vec[BaseAt(vec, i)].src IN
  BaseAt(vec, i) > 0 /\ base.mn = "BASE" /\ addr = table[base.operand.name]

\* The item is that of statement i.
SameStatement(item, st) ==
  /\ item.loc = st.loc
  /\ Plain(st.src) /\ item.len > 0 => item.len = DeclaredSize(st.src) /\ ~Is(st.src, "END")

Header(recs, vec) ==
  /\ recs # <<>>
  /\ recs[1].addr = vec[1].loc /\ recs[1].len = vec[Len(vec)].loc - vec[1].loc

ListingInv ==
  /\ Len(lstOut) = stIdx - 1 /\ stIdx <= Len(stVec)
  /\ Header(objOut, stVec)
  /\ \A i \in 1..stIdx-1 : /\ Reached(lstOut[i], stVec, symtab, i)
                          /\ SameStatement(lstOut[i], stVec[i])

(* The strengthening: before pass 2 there is neither listing nor base; then  *)
(* the listing keeps step with the statements.                               *)
CodeInv ==
  /\ phase \in {"pass1", "dummy", "init2"} => ~baseAvailable /\ lstOut = <<>>
  /\ phase \in {"pass2", "passed"} => ListingInv
  /\ phase = "pass2" /\ baseAvailable => BaseKnown(stVec, symtab, stIdx, baseAddr)

\* The item of an instruction reaches its symbol when it is listed.
LEMMA ItemReached ==
  ASSUME Inv, FollowInv, CodeInv, NEW item, Listing(item)
  PROVE  Reached(item, stVec, symtab, stIdx)
  <1> DEFINE l == stVec[stIdx].src
             pc == stVec[stIdx + 1].loc
             target == symtab[l.operand.name]
             field == item.code.field
  <1>1. /\ phase = "pass2" /\ stIdx \in Nat \ {0} /\ stIdx < Len(stVec)
        /\ l \in Lines \cup {BlankLine} /\ pc \in Int /\ stVec[stIdx].loc \in Int
        /\ StoredLine(l)
    <2>1. Processing(l)
      BY DEF Listing, Processing
    <2> QED BY <2>1, StatementHere DEF Inv
  <1>2. Len(stVec) \in Nat
    BY DEF Inv, TypeOK
  <1> SUFFICES ASSUME IsInstruction(l), Optab[l.mn] = 3, ~l.ext, l.operand.kind = "name",
                      pc # -1
               PROVE  \/ /\ "p" \in item.code.mode
                         /\ target = item.loc + item.len + Signed(field)
                      \/ /\ "b" \in item.code.mode
                         /\ BaseAt(stVec, stIdx) > 0
                         /\ stVec[BaseAt(stVec, stIdx)].src.mn = "BASE"
                         /\ target = symtab[stVec[BaseAt(stVec, stIdx)].src.operand.name]
                                       + field
    BY DEF Reached
  <1>3. /\ item.loc = stVec[stIdx].loc /\ item.len = InstructionLen(l)
        /\ item.code = InstructionCode(l, pc) /\ InstructionError(l, pc) = "none"
    BY DEF Listing, ItemOf
  <1>4. pc = item.loc + item.len
    <2>1. Following(stVec)
      BY <1>1 DEF FollowInv, Assembling
    <2> QED BY <1>1, <1>2, <1>3, <2>1 DEF Following
  <1>5. TypeOK
    BY DEF Inv
  <1>6. target \in Int
    BY <1>1, <1>3, <1>5, SymbolEncoded
  <1>7. CASE /\ "p" \in item.code.mode /\ PcRelative(target, pc)
             /\ field = (target - pc) % (2 * PC_RANGE)
    <2>1. target - pc \in -PC_RANGE..PC_RANGE-1
      BY <1>7 DEF PcRelative
    <2>2. Signed(field) = target - pc
      BY <1>7, <2>1, SignedBack
    <2> HIDE DEF target, pc, field
    <2> QED BY <1>1, <1>4, <1>6, <1>7, <2>2
  <1>8. CASE /\ "b" \in item.code.mode /\ BaseRelative(target)
             /\ field = (target - baseAddr) % (2 * PC_RANGE)
    <2>1. /\ baseAvailable /\ target - baseAddr \in 0..(2 * PC_RANGE)-1
      BY <1>8, Widths DEF BaseRelative
    <2>2. field = target - baseAddr
      BY <1>8, <2>1, Widths, ModIdentity
    <2>3. BaseKnown(stVec, symtab, stIdx, baseAddr)
      BY <1>1, <2>1 DEF CodeInv
    <2>4. baseAddr \in Int
      BY <1>5 DEF TypeOK
    <2> HIDE DEF target, field
    <2> QED BY <1>6, <1>8, <2>2, <2>3, <2>4 DEF BaseKnown
  <1> QED BY <1>1, <1>3, <1>5, <1>7, <1>8, SymbolEncoded

\* The base register follows the BASE statement in force.
LEMMA BaseFollows ==
  ASSUME Inv, CodeInv, NEW item, Listing(item), baseAvailable'
  PROVE  BaseKnown(stVec, symtab, stIdx + 1, baseAddr')
  <1> DEFINE l == stVec[stIdx].src
  <1>1. /\ phase = "pass2" /\ stIdx \in Nat \ {0} /\ BaseChange(l)
    BY DEF Listing, Inv, TypeOK
  <1>2. BaseAt(stVec, stIdx + 1) = IF SetsBase(stVec[stIdx]) THEN stIdx ELSE BaseAt(stVec, stIdx)
    BY <1>1, BaseStep
  <1>3. CASE Is(l, "BASE") /\ baseAddr' = symtab[l.operand.name]
    BY <1>1, <1>2, <1>3 DEF SetsBase, BaseKnown, Is
  <1>4. CASE ~Is(l, "BASE") /\ ~Is(l, "NOBASE") /\ UNCHANGED <<baseAddr, baseAvailable>>
    <2>1. BaseKnown(stVec, symtab, stIdx, baseAddr)
      BY <1>1, <1>4 DEF CodeInv
    <2> QED BY <1>2, <1>4, <2>1 DEF SetsBase, BaseKnown
  <1> QED BY <1>1, <1>3, <1>4 DEF BaseChange

\* A statement is listed.
LEMMA ListingStep ==
  ASSUME Inv, FollowInv, CodeInv, NEW item, Listing(item) PROVE CodeInv'
  <1> DEFINE n == stIdx
  <1>1. /\ phase = "pass2" /\ phase' = "pass2" /\ n \in Nat \ {0} /\ n < Len(stVec)
        /\ stIdx' = n + 1 /\ lstOut' = Append(lstOut, item)
        /\ stVec' = stVec /\ symtab' = symtab
        /\ objOut # <<>> => objOut' # <<>> /\ objOut'[1] = objOut[1]
        /\ ItemOf(stVec[n].src, item) /\ lstOut \in Seq(Item) /\ stVec \in Seq(Statement)
    BY DEF Listing, Inv, TypeOK
  <1>2. ListingInv
    BY <1>1 DEF CodeInv
  <1>3. /\ Len(lstOut) = n - 1 /\ Len(lstOut') = n /\ lstOut'[n] = item
        /\ \A i \in 1..n-1 : lstOut'[i] = lstOut[i]
    BY <1>1, <1>2 DEF ListingInv
  <1>4. Reached(item, stVec, symtab, n) /\ SameStatement(item, stVec[n])
    BY <1>1, ItemReached DEF ItemOf, SameStatement
  <1>5. \A i \in 1..n : /\ Reached(lstOut'[i], stVec, symtab, i)
                       /\ SameStatement(lstOut'[i], stVec[i])
    BY <1>1, <1>2, <1>3, <1>4 DEF ListingInv
  <1>6. Header(objOut', stVec)
    BY <1>1, <1>2 DEF ListingInv, Header
  <1>7. stIdx' <= Len(stVec') /\ Len(lstOut') = stIdx' - 1 /\ 1..stIdx'-1 = 1..n
    BY <1>1, <1>3
  <1>8. ListingInv'
    <2> HIDE DEF n
    <2> QED BY <1>1, <1>5, <1>6, <1>7 DEF ListingInv
  <1>9. baseAvailable' => BaseKnown(stVec', symtab', stIdx', baseAddr')
    BY <1>1, BaseFollows
  <1> QED BY <1>1, <1>8, <1>9 DEF CodeInv

\* The header is written, and nothing is listed yet.
LEMMA InitStatesCode ==
  ASSUME Inv, CodeInv, InitStates PROVE CodeInv'
  <1>1. /\ phase = "init2" /\ phase' = "pass2" /\ stIdx = 1 /\ stVec # <<>>
        /\ UNCHANGED <<stVec, symtab, stIdx, lstOut, baseAvailable>>
        /\ objOut' = <<Rec("H", stVec[1].loc, stVec[Len(stVec)].loc - stVec[1].loc, <<>>)>>
        /\ stVec \in Seq(Statement)
    BY DEF InitStates, Inv, PositionOK, TypeOK
  <1>2. lstOut = <<>> /\ ~baseAvailable
    BY <1>1 DEF CodeInv
  <1>3. Header(objOut', stVec')
    BY <1>1 DEF Header, Rec
  <1>4. Len(lstOut') = stIdx' - 1 /\ stIdx' <= Len(stVec') /\ 1..stIdx'-1 = {}
    BY <1>1, <1>2
  <1>5. ListingInv'
    BY <1>3, <1>4 DEF ListingInv
  <1> QED BY <1>1, <1>2, <1>5 DEF CodeInv

\* The end record is written behind the others.
LEMMA PrintEndCode ==
  ASSUME Inv, CodeInv, PrintEnd PROVE CodeInv'
  <1> DEFINE mods == [i \in DOMAIN mRecVec |-> Rec("M", mRecVec[i], 0, <<>>)]
             end == <<Rec("E", pcAddr, 0, <<>>)>>
  <1>1. /\ phase = "pass2" /\ phase' = "passed"
        /\ UNCHANGED <<stVec, symtab, stIdx, lstOut>> /\ objOut' = objOut \o mods \o end
        /\ objOut \in Seq(ObjRecords) /\ mRecVec \in Seq(Int) /\ pcAddr \in Int
    BY DEF PrintEnd, Inv, TypeOK, ObjRecords
  <1>2. mods \in Seq(ObjRecords) /\ end \in Seq(ObjRecords)
    <2>1. DOMAIN mRecVec = 1..Len(mRecVec) /\ Len(mRecVec) \in Nat
      BY <1>1
    <2>2. \A i \in 1..Len(mRecVec) : Rec("M", mRecVec[i], 0, <<>>) \in ObjRecords
      BY <1>1 DEF Rec, ObjRecords
    <2>3. Rec("E", pcAddr, 0, <<>>) \in ObjRecords
      BY <1>1 DEF Rec, ObjRecords
    <2> QED BY <2>1, <2>2, <2>3
  <1>3. ListingInv
    BY <1>1 DEF CodeInv
  <1> HIDE DEF mods, end
  <1>4. objOut # <<>> => objOut' # <<>> /\ objOut'[1] = objOut[1]
    BY <1>1, <1>2
  <1>5. Header(objOut', stVec')
    BY <1>1, <1>3, <1>4 DEF ListingInv, Header
  <1>6. ListingInv'
    BY <1>1, <1>3, <1>5 DEF ListingInv
  <1> QED BY <1>1, <1>6 DEF CodeInv

\* Every step preserves it.
LEMMA CodeStep == Inv /\ FollowInv /\ CodeInv /\ [Next]_vars => CodeInv'
  <1> SUFFICES ASSUME Inv, FollowInv, CodeInv, [Next]_vars PROVE CodeInv'
    OBVIOUS
  <1>1. CASE Pass1Next /\ UNCHANGED pass2Vars
    <2>1. Pass1Effect
      BY <1>1, Pass1Cases DEF Inv, TypeOK
    <2>2. /\ phase \in {"pass1", "dummy"}
          /\ phase' \in {"pass1", "dummy", "init2", "failed", "undefined"}
      BY <2>1 DEF Pass1Effect, Refusing, Reject, Undefined, Accepting, Accept, Ended,
                  TokenAllocFail, PushDummy
    <2> QED BY <1>1, <2>2 DEF CodeInv, pass2Vars
  <1>2. CASE Pass2Next
    <2>1. CASE phase' \in {"failed", "undefined"}
      BY <2>1 DEF CodeInv
    <2> QED BY <1>2, <2>1, Pass2Lists, InitStatesCode, PrintEndCode, ListingStep
  <1>3. CASE UNCHANGED vars
    BY <1>3 DEF vars, pass1Vars, pass2Vars, CodeInv, ListingInv
  <1> QED BY <1>1, <1>2, <1>3 DEF Next

\* It holds before the first line.
LEMMA CodeInit == Init => CodeInv
  BY DEF Init, Pass1Init, Pass2Init, CodeInv

\* So it holds all the time.
LEMMA CodeInvariance == Spec => [](AddressInv /\ FollowInv /\ CodeInv)
  <1>1. Inv /\ AddressInv /\ FollowInv /\ CodeInv /\ [Next]_vars
          => AddressInv' /\ FollowInv' /\ CodeInv'
    BY AddressStep, FollowStep, CodeStep
  <1>2. Init => AddressInv /\ FollowInv /\ CodeInv
    BY AddressInit, FollowInit, CodeInit
  <1> QED BY <1>1, <1>2, Invariance, PTL DEF Spec

(* A format 3 instruction that is listed reaches the symbol it names,        *)
(* through the program counter or through the base in force, unless END is   *)
(* next to it: processOpcode's displacement is never of the wrong base.      *)
THEOREM InstructionsReachSymbols == Spec => []SymbolsResolve
  <1>1. Inv /\ CodeInv => SymbolsResolve
    <2> SUFFICES ASSUME Inv, CodeInv, Assembling, NEW i \in 1..Len(lstOut),
                        SymbolicFormat3(i), ~Ends(i + 1)
                 PROVE  ResolvesTo(i, symtab[stVec[i].src.operand.name])
      BY DEF SymbolsResolve
    <2>1. phase \in {"pass2", "passed"} /\ ListingInv
      BY DEF CodeInv, Assembling
    <2>2. stIdx \in Nat /\ i \in 1..stIdx-1
      BY <2>1 DEF ListingInv, Inv, TypeOK
    <2>3. Reached(lstOut[i], stVec, symtab, i)
      BY <2>1, <2>2 DEF ListingInv
    <2>4. BaseInForce(i) = BaseAt(stVec, i)
      BY DEF BaseInForce, BaseAt, SetsBase
    <2> QED BY <2>3, <2>4 DEF Reached, ResolvesTo, SymbolicFormat3, Ends
  <1> QED BY <1>1, Invariance, CodeInvariance, PTL

-----------------------------------------------------------------------------
(* Of a plain program no two statements overlap, and all end before the      *)
(* location counter; a statement other than END is the last for pass 2.      *)
Ordered(vec, counter) ==
  /\ \A i \in 1..Len(vec) : vec[i].loc # -1 =>
       DeclaredSize(vec[i].src) \in Nat /\ EndOf(vec[i]) <= counter
  /\ \A i, j \in 1..Len(vec) :
       i < j /\ vec[i].loc # -1 /\ vec[j].loc # -1 => EndOf(vec[i]) <= vec[j].loc

OrderInv ==
  Assembling /\ PlainProgram =>
    /\ Ordered(stVec, loc)
    /\ phase \notin {"pass1", "dummy"} => stVec[Len(stVec)].loc # -1

\* A statement is pushed at the counter, or marked as END.
LEMMA OrderNext ==
  ASSUME NEW vec \in Seq(Statement), NEW st \in Statement, NEW counter \in Int, NEW b \in Int,
         Ordered(vec, counter),
         Len(vec) > 0 => counter <= b /\ st.loc \in {counter, -1},
         st.loc # -1 => DeclaredSize(st.src) \in Nat /\ b = EndOf(st)
  PROVE  Ordered(Append(vec, st), b)
  <1> DEFINE new == Append(vec, st)
             n == Len(vec)
  <1>1. /\ n \in Nat /\ Len(new) = n + 1 /\ new[n + 1] = st
        /\ \A i \in 1..n : new[i] = vec[i]
    BY Extended
  <1>2. \A i \in 1..n : vec[i].loc \in Int
    <2>1. \A i \in 1..n : vec[i] \in Statement
      OBVIOUS
    <2> QED BY <2>1 DEF Statement
  <1> HIDE DEF new
  <1>3. ASSUME NEW i \in 1..n+1, new[i].loc # -1
        PROVE  DeclaredSize(new[i].src) \in Nat /\ EndOf(new[i]) <= b
    <2>1. CASE i \in 1..n
      BY <1>1, <1>2, <1>3, <2>1 DEF Ordered, EndOf
    <2>2. CASE i = n + 1
      <3>1. st.loc \in Int
        BY DEF Statement
      <3> QED BY <1>1, <1>3, <2>2, <3>1 DEF EndOf
    <2> QED BY <1>1, <2>1, <2>2
  <1>4. ASSUME NEW i \in 1..n+1, NEW j \in 1..n+1, i < j, new[i].loc # -1, new[j].loc # -1
        PROVE  EndOf(new[i]) <= new[j].loc
    <2>1. i \in 1..n /\ new[i] = vec[i]
      BY <1>1, <1>4
    <2>2. CASE j \in 1..n
      BY <1>1, <1>4, <2>1, <2>2 DEF Ordered
    <2>3. CASE j = n + 1
      BY <1>1, <1>4, <2>1, <2>3 DEF Ordered
    <2> QED BY <1>1, <2>2, <2>3
  <1>5. Ordered(new, b)
    BY <1>1, <1>3, <1>4 DEF Ordered
  <1> QED BY <1>5 DEF new

\* A line is accepted.
LEMMA AcceptOrder ==
  ASSUME Inv, AddressInv, OrderInv, NEW l \in Lines, NEW eof \in BOOLEAN,
         NEW a \in Int, NEW b \in Int, Accepting(l, eof, a, b)
  PROVE  OrderInv'
  <1> DEFINE st == [src |-> l, lineNo |-> lineNo, loc |-> a]
  <1>1. /\ stVec \in Seq(Statement) /\ st \in Statement /\ phase = "pass1" /\ loc \in Int
        /\ stVec' = Append(stVec, st) /\ loc' = b /\ Placed(l, a, b)
        /\ lineNo = Len(stVec) + 1 /\ phase' \in {"pass1", "dummy"}
    BY LineFields DEF Accepting, Accept, Ended, VecPush, Statement, Inv, TypeOK, AddressInv
  <1>2. ASSUME \A i \in 1..Len(stVec') : Plain(stVec'[i].src)
        PROVE  Ordered(stVec', loc')
    <2>1. /\ \A i \in 1..Len(stVec) : Plain(stVec[i].src)
          /\ Plain(l) /\ Len(stVec) \in Nat
      <3>1. /\ Len(stVec') = Len(stVec) + 1 /\ stVec'[Len(stVec) + 1] = st /\ Len(stVec) \in Nat
            /\ \A i \in 1..Len(stVec) : stVec'[i] = stVec[i]
        BY <1>1, Extended
      <3> QED BY <1>2, <3>1
    <2>2. LaidOut(stVec, "pass1", loc) /\ Ordered(stVec, loc)
      BY <1>1, <2>1 DEF AddressInv, OrderInv, Assembling, PlainProgram
    <2>3. loc \in 0..LOC_MAX
      BY <2>2 DEF LaidOut, CounterBehind
    <2>4. Len(stVec) > 0 => loc <= b /\ a \in {loc, -1}
      BY <1>1, <2>1, <2>3 DEF Placed
    <2>5. Is(l, "START") => DeclaredSize(l) = 0
      BY SizeOfLine
    <2>6. a # -1 => DeclaredSize(l) \in Nat /\ b = a + DeclaredSize(l)
      BY <1>1, <2>1, <2>3, <2>5 DEF Placed
    <2>7. st.loc = a /\ st.src = l
      OBVIOUS
    <2> HIDE DEF st
    <2> QED BY <1>1, <2>2, <2>4, <2>6, <2>7, OrderNext DEF EndOf
  <1> QED BY <1>1, <1>2 DEF OrderInv, PlainProgram, Plain

\* The dummy is pushed.
LEMMA PushDummyOrder ==
  ASSUME Inv, AddressInv, OrderInv, PushDummy PROVE OrderInv'
  <1> DEFINE st == [src |-> BlankLine, lineNo |-> 0, loc |-> loc]
  <1>1. /\ stVec \in Seq(Statement) /\ st \in Statement /\ loc \in Int
        /\ stVec' = Append(stVec, st) /\ loc' = loc /\ phase = "dummy"
    BY LineFields DEF PushDummy, VecPush, Statement, Inv, TypeOK
  <1>2. /\ Len(stVec') = Len(stVec) + 1 /\ stVec'[Len(stVec) + 1] = st /\ Len(stVec) \in Nat
        /\ \A i \in 1..Len(stVec) : stVec'[i] = stVec[i]
    BY <1>1, Extended
  <1>3. ASSUME \A i \in 1..Len(stVec') : Plain(stVec'[i].src)
        PROVE  Ordered(stVec', loc') /\ stVec'[Len(stVec')].loc # -1
    <2>1. LaidOut(stVec, "dummy", loc) /\ Ordered(stVec, loc)
      BY <1>1, <1>2, <1>3 DEF AddressInv, OrderInv, Assembling, PlainProgram
    <2>2. loc \in 0..LOC_MAX
      BY <2>1 DEF LaidOut, CounterBehind
    <2>3. DeclaredSize(BlankLine) = 0
      BY SizeOfLine DEF BlankLine
    <2>4. st.loc = loc /\ st.src = BlankLine
      OBVIOUS
    <2> HIDE DEF st
    <2>5. DeclaredSize(st.src) \in Nat /\ loc = EndOf(st)
      BY <1>1, <2>3, <2>4 DEF EndOf
    <2>6. Ordered(Append(stVec, st), loc)
      BY <1>1, <2>1, <2>4, <2>5, OrderNext
    <2> QED BY <1>1, <1>2, <2>2, <2>4, <2>6, Widths
  <1> QED BY <1>3 DEF OrderInv, PlainProgram, Plain

\* Every step preserves it.
LEMMA OrderStep == Inv /\ AddressInv /\ OrderInv /\ [Next]_vars => OrderInv'
  <1> SUFFICES ASSUME Inv, AddressInv, OrderInv, [Next]_vars PROVE OrderInv'
    OBVIOUS
  <1>1. CASE Pass1Next
    <2>1. Pass1Effect
      BY <1>1, Pass1Cases DEF Inv, TypeOK
    <2>2. CASE Refusing
      BY <2>2 DEF Refusing, Reject, Undefined, Assembling, OrderInv
    <2>3. ASSUME NEW l \in Lines, TokenAllocFail(l) PROVE OrderInv'
      <3>1. CASE phase' = "undefined"
        BY <3>1 DEF OrderInv, Assembling
      <3>2. CASE stVec # <<>>
        <4>1. UNCHANGED <<stVec, loc>> /\ phase = "pass1" /\ stVec \in Seq(Statement)
          BY <2>3 DEF TokenAllocFail, Inv, TypeOK
        <4>2. ASSUME \A i \in 1..Len(stVec') : Plain(stVec'[i].src)
              PROVE  Ordered(stVec', loc') /\ stVec'[Len(stVec')].loc # -1
          <5>1. LaidOut(stVec, "pass1", loc) /\ Ordered(stVec, loc)
            BY <4>1, <4>2 DEF AddressInv, OrderInv, Assembling, PlainProgram
          <5>2. Len(stVec) \in 1..Len(stVec)
            BY <3>2, <4>1
          <5>3. stVec[Len(stVec)].loc # -1
            BY <5>1, <5>2 DEF LaidOut, CounterBehind
          <5> QED BY <4>1, <5>1, <5>3
        <4> QED BY <4>2 DEF OrderInv, PlainProgram, Plain
      <3> QED BY <2>3, <3>1, <3>2 DEF TokenAllocFail
    <2> QED BY <2>1, <2>2, <2>3, AcceptOrder, PushDummyOrder DEF Pass1Effect
  <1>2. CASE Pass2Next
    <2>1. Pass2Effect
      BY <1>2, Pass2Cases DEF Inv
    <2>2. /\ UNCHANGED <<stVec, loc>> /\ phase \in {"init2", "pass2"}
          /\ phase' \in {"pass2", "passed", "failed", "undefined"}
      BY <2>1 DEF Pass2Effect, InitStates, PrintEnd, Fail2, Undefined, PrintNoCode, PrintCode
    <2> QED BY <2>2 DEF Assembling, OrderInv, PlainProgram, Plain
  <1>3. CASE UNCHANGED vars
    BY <1>3 DEF vars, pass1Vars, OrderInv, Assembling, PlainProgram, Plain
  <1> QED BY <1>1, <1>2, <1>3 DEF Next

\* It holds before the first line.
LEMMA OrderInit == Init => OrderInv
  BY DEF Init, Pass1Init, OrderInv, Ordered

\* So it holds all the time.
LEMMA OrderInvariance == Spec => []OrderInv
  BY Invariance, AddressInvariance, OrderInit, OrderStep, PTL DEF Spec

(* All code of a plain program lies inside the range that the header record  *)
(* states: initStates takes the right two addresses, and no statement leaves *)
(* them.                                                                     *)
THEOREM CodeStaysInside == Spec => []CodeInsideProgram
  <1>1. Inv /\ AddressInv /\ CodeInv /\ OrderInv => CodeInsideProgram
    <2> SUFFICES ASSUME Inv, AddressInv, CodeInv, OrderInv, PlainProgram, Assembling,
                        NEW i \in 1..Len(lstOut), lstOut[i].len > 0
                 PROVE  /\ lstOut[i].loc >= objOut[1].addr
                        /\ lstOut[i].loc + lstOut[i].len <= objOut[1].addr + objOut[1].len
      BY DEF CodeInsideProgram
    <2> DEFINE n == Len(stVec)
    <2>1. phase \in {"pass2", "passed"} /\ ListingInv
      BY DEF CodeInv, Assembling
    <2>2. /\ stIdx \in Nat /\ i \in 1..stIdx-1 /\ stIdx <= n /\ n \in Nat
          /\ stVec \in Seq(Statement)
      BY <2>1 DEF ListingInv, Inv, TypeOK
    <2>3. LaidOut(stVec, phase, loc) /\ Ordered(stVec, loc) /\ stVec[n].loc # -1
      BY <2>1 DEF AddressInv, OrderInv
    <2>4. /\ lstOut[i].loc = stVec[i].loc /\ lstOut[i].len = DeclaredSize(stVec[i].src)
          /\ ~Is(stVec[i].src, "END")
      <3>1. Plain(stVec[i].src)
        BY <2>2 DEF PlainProgram
      <3>2. SameStatement(lstOut[i], stVec[i])
        BY <2>1, <2>2 DEF ListingInv
      <3> QED BY <3>1, <3>2 DEF SameStatement
    <2>5. stVec[i].loc \in 0..LOC_MAX
      BY <2>2, <2>3, <2>4 DEF LaidOut, InRange
    <2>6. stVec[i].loc # -1
      BY <2>5, Widths, SMTT(20)
    <2>7. EndOf(stVec[i]) <= stVec[n].loc
      BY <2>2, <2>3, <2>6 DEF Ordered
    <2>8. stVec[1].loc \in Int /\ stVec[n].loc \in Int /\ stVec[i].loc \in Int
      <3>1. stVec[1] \in Statement /\ stVec[n] \in Statement /\ stVec[i] \in Statement
        BY <2>2
      <3> QED BY <3>1 DEF Statement
    <2>9. stVec[1].loc <= stVec[i].loc
      <3>1. CASE i = 1
        BY <2>8, <3>1
      <3>2. CASE i > 1
        <4>1. stVec[1].loc # -1
          BY <2>2, <2>3, <3>2 DEF LaidOut, Advancing
        <4>2. 1 \in 1..n /\ i \in 1..n /\ 1 < i
          BY <2>2, <3>2
        <4>3. EndOf(stVec[1]) <= stVec[i].loc /\ DeclaredSize(stVec[1].src) \in Nat
          BY <2>3, <2>6, <4>1, <4>2 DEF Ordered
        <4> QED BY <2>8, <4>3 DEF EndOf
      <3>3. i = 1 \/ i > 1
        BY <2>2
      <3> QED BY <3>1, <3>2, <3>3
    <2>10. objOut[1].addr = stVec[1].loc /\ objOut[1].len = stVec[n].loc - stVec[1].loc
      BY <2>1 DEF ListingInv, Header
    <2>11. objOut[1].addr + objOut[1].len = stVec[n].loc
      BY <2>8, <2>10
    <2>12. lstOut[i].loc + lstOut[i].len <= objOut[1].addr + objOut[1].len
      BY <2>4, <2>7, <2>11 DEF EndOf
    <2> QED BY <2>4, <2>8, <2>9, <2>10, <2>12
  <1> QED BY <1>1, Invariance, AddressInvariance, CodeInvariance, OrderInvariance, PTL

-----------------------------------------------------------------------------
\* OperandsReadBack of one instruction.
ReadBack(l, code) ==
  LET o == l.operand IN
  /\ code.mn = l.mn \/ o.kind = "name"
  /\ code.mn = AllOnes \/ ("x" \in code.mode <=> Optab[code.mn] = 3 /\ o.next = "X")
  /\ Optab[l.mn] = 3 /\ o.kind = "num" =>
       code.field = o.val /\ {"b", "p"} \cap code.mode = {}
  /\ Optab[l.mn] = 2 =>
       /\ code.field \div REG_RANGE =
            (IF o.kind = "num" THEN o.val ELSE RegisterNumber[o.name])
       /\ o.next # NoTok => code.field % REG_RANGE = RegisterNumber[o.next]

\* The field of a register holds every register number.
RegistersFit == \A name \in DOMAIN RegisterNumber : RegisterNumber[name] < REG_RANGE

\* Two registers beside one another can be taken apart.
LEMMA TakenApart ==
  ASSUME NEW r \in Nat \ {0}, NEW first \in Nat, NEW second \in 0..r-1
  PROVE  (r * first + second) \div r = first /\ (r * first + second) % r = second
  OBVIOUS

\* The number of a register.
LEMMA RegisterNumbers ==
  ASSUME NEW name, IsRegister(name) PROVE RegisterNumber[name] \in Nat
  BY DEF IsRegister, RegisterNumber

\* What fits the field is not negative.
LEMMA EncodingBack ==
  ASSUME NEW l, NEW mode, NEW disp \in Nat
  PROVE  /\ Encoding(l, mode, disp).mn = l.mn /\ Encoding(l, mode, disp).mode = mode
         /\ Encoding(l, mode, disp).field = disp
  BY DEF Encoding

\* An accepted format 2 instruction.
LEMMA Format2Back ==
  ASSUME RegistersFit, NEW l \in Lines \cup {BlankLine}, Plain(l), Format2Ok(l), Optab[l.mn] = 2
  PROVE  ReadBack(l, Format2Code(l))
  <1> DEFINE o == l.operand
             first == IF o.kind = "num" THEN o.val ELSE RegisterNumber[o.name]
             second == IF o.next = NoTok THEN 0 ELSE RegisterNumber[o.next]
             code == Encoding(l, {}, REG_RANGE * first + second)
  <1>1. ToInt(o.val) = o.val /\ o.val \in Int
    BY ToIntIdentity, LineFields DEF Plain
  <1>2. /\ o.kind = "num" => o.val \in 0..REG_RANGE-1 /\ o.next = NoTok
        /\ o.kind # "num" => IsRegister(o.name)
        /\ o.next # NoTok => IsRegister(o.next)
    BY <1>1 DEF Format2Ok, SecondItem, FirstRegister, FirstNumber
  <1>3. REG_RANGE \in Nat \ {0} /\ first \in Nat
    BY <1>2, Widths, RegisterNumbers
  <1>4. second \in 0..REG_RANGE-1
    BY <1>2, <1>3, RegisterNumbers DEF RegistersFit, IsRegister
  <1>5. Format2Code(l) = code
    BY <1>1 DEF Format2Code
  <1> HIDE DEF first, second
  <1>6. REG_RANGE * first + second \in Nat
    BY <1>3, <1>4
  <1>7. code.mn = l.mn /\ code.mode = {} /\ code.field = REG_RANGE * first + second
    BY <1>6, EncodingBack
  <1>8. code.field \div REG_RANGE = first /\ code.field % REG_RANGE = second
    BY <1>3, <1>4, <1>7, TakenApart
  <1> HIDE DEF code
  <1>9. ReadBack(l, code)
    BY <1>7, <1>8 DEF ReadBack, first, second
  <1> QED BY <1>5, <1>9

\* An accepted format 3/4 instruction.
LEMMA Format34Back ==
  ASSUME TypeOK, NEW l \in Lines \cup {BlankLine}, NEW pc \in Int, Plain(l),
         Optab[l.mn] = 3, InstructionError(l, pc) = "none"
  PROVE  ReadBack(l, Format34Code(l, pc))
  <1> DEFINE o == l.operand
             bits == PrefixMode(o) \cup IndexMode(o)
             target == symtab[o.name]
             rel == Relative(target, pc)
             code == Format34Code(l, pc)
  <1>0. "X" # NoTok
    BY DEF NoTok
  <1>1. "x" \in bits <=> o.next = "X"
    BY DEF PrefixMode, IndexMode
  <1>2. {"b", "p"} \cap bits = {}
    BY DEF PrefixMode, IndexMode
  <1>3. CASE ~Present(o)
    <2>1. o = NoOperand
      BY <1>3, LinesAssumption DEF Present, BlankLine
    <2>2. o.next = NoTok /\ o.kind = "none"
      BY <2>1 DEF NoOperand
    <2>3. code = Encoding(l, {"n", "i"}, 0)
      BY <1>3, <2>2 DEF Format34Code, IsConstant
    <2>4. code.mn = l.mn /\ code.mode = {"n", "i"}
      BY <2>3, EncodingBack
    <2> HIDE DEF code
    <2>5. "x" \notin {"n", "i"}
      OBVIOUS
    <2>6. ReadBack(l, code)
      BY <1>0, <2>2, <2>4, <2>5 DEF ReadBack
    <2> QED BY <2>6 DEF code
  <1>4. CASE Present(o) /\ IsConstant(o)
    <2>1. ToInt(o.val) = o.val /\ o.val \in Nat /\ o.kind = "num"
      BY <1>4, ToIntIdentity, LineFields DEF Plain, IsConstant
    <2> HIDE DEF bits
    <2>2. code = Encoding(l, bits, o.val)
      BY <1>4, <2>1 DEF Format34Code, bits
    <2>3. code.mn = l.mn /\ code.mode = bits /\ code.field = o.val
      BY <2>1, <2>2, EncodingBack
    <2> HIDE DEF code
    <2>4. ReadBack(l, code)
      BY <1>1, <1>2, <2>1, <2>3 DEF ReadBack
    <2> QED BY <2>4 DEF code
  <1>5. CASE Present(o) /\ ~IsConstant(o)
    <2>1. IsSymbol(o)
      BY <1>5 DEF InstructionError, Format34Error
    <2>2. o.kind = "name" /\ target \in Int
      BY <2>1 DEF IsSymbol, TypeOK
    <2>3. "x" \notin rel
      BY DEF Relative
    <2> DEFINE disp == CASE rel = {"p"} -> Displacement(l, target - pc)
                         [] rel = {"b"} -> Displacement(l, target - baseAddr)
                         [] OTHER       -> target
    <2>4. code = Encoding(l, bits \cup rel, disp)
      BY <1>5 DEF Format34Code
    <2>5. code.mn = AllOnes \/ (code.mn = l.mn /\ code.mode = bits \cup rel)
      <3> HIDE DEF bits, rel, disp, code
      <3> QED BY <2>4 DEF Encoding
    <2> HIDE DEF code, bits, rel
    <2>6. ReadBack(l, code)
      BY <1>1, <2>2, <2>3, <2>5 DEF ReadBack
    <2> QED BY <2>6 DEF code
  <1> QED BY <1>3, <1>4, <1>5

\* An accepted instruction.
LEMMA InstructionBack ==
  ASSUME TypeOK, RegistersFit, NEW l \in Lines \cup {BlankLine}, NEW pc \in Int, Plain(l),
         KnownOpcode(l), InstructionError(l, pc) = "none"
  PROVE  ReadBack(l, InstructionCode(l, pc))
  <1>1. Optab[l.mn] \in {1, 2, 3}
    BY OpcodeFields
  <1>2. CASE Optab[l.mn] = 3
    BY <1>2, Format34Back DEF InstructionCode
  <1>3. CASE Optab[l.mn] = 2
    <2>1. Format2Ok(l)
      BY <1>3 DEF InstructionError
    <2> QED BY <1>3, <2>1, Format2Back DEF InstructionCode
  <1>4. CASE Optab[l.mn] = 1
    <2> DEFINE code == Encoding(l, {}, 0)
    <2>1. InstructionCode(l, pc) = code
      BY <1>4 DEF InstructionCode
    <2>2. code.mn = l.mn /\ code.mode = {}
      BY EncodingBack
    <2> HIDE DEF code
    <2>3. ReadBack(l, code)
      BY <1>4, <2>2 DEF ReadBack
    <2> QED BY <2>1, <2>3
  <1> QED BY <1>1, <1>2, <1>3, <1>4

ReadInv ==
  phase \in {"pass2", "passed"} =>
    \A i \in 1..Len(lstOut) :
      IsInstruction(stVec[i].src) /\ Plain(stVec[i].src) =>
        ReadBack(stVec[i].src, lstOut[i].code)

\* A listed statement says what its line says.
LEMMA ListingBack ==
  ASSUME RegistersFit, Inv, CodeInv, ReadInv, NEW item, Listing(item), lstOut' \in Seq(Item)
  PROVE  ReadInv'
  <1> DEFINE n == Len(lstOut)
             l == stVec[stIdx].src
             pc == stVec[stIdx + 1].loc
  <1>1. /\ phase = "pass2" /\ stIdx < Len(stVec) /\ UNCHANGED stVec
        /\ lstOut' = Append(lstOut, item) /\ ItemOf(l, item) /\ n = stIdx - 1
        /\ lstOut \in Seq(Item) /\ n \in Nat /\ stIdx \in Nat
    BY DEF Listing, CodeInv, ListingInv, Inv, TypeOK
  <1>2. /\ Len(lstOut') = n + 1 /\ lstOut'[n + 1] = item
        /\ \A i \in 1..n : lstOut'[i] = lstOut[i]
    <2>1. lstOut \in Seq(Item \cup {item})
      BY <1>1
    <2> QED BY <1>1, <2>1, Extended
  <1>3. l \in Lines \cup {BlankLine} /\ StoredLine(l) /\ pc \in Int
    <2>1. Processing(l)
      BY <1>1 DEF Processing
    <2> QED BY <2>1, StatementHere DEF Inv
  <1>4. ASSUME IsInstruction(l), Plain(l) PROVE ReadBack(l, item.code)
    <2>1. KnownOpcode(l)
      BY <1>3, <1>4 DEF StoredLine, IsInstruction
    <2>2. InstructionError(l, pc) = "none" /\ item.code = InstructionCode(l, pc)
      BY <1>1, <1>4 DEF ItemOf
    <2> HIDE DEF l, pc
    <2>3. ReadBack(l, InstructionCode(l, pc))
      BY <1>3, <1>4, <2>1, <2>2, InstructionBack DEF Inv
    <2> QED BY <2>2, <2>3
  <1>5. ASSUME NEW i \in 1..n+1, IsInstruction(stVec[i].src), Plain(stVec[i].src)
        PROVE  ReadBack(stVec[i].src, lstOut'[i].code)
    <2>1. CASE i \in 1..n
      BY <1>1, <1>2, <1>5, <2>1 DEF ReadInv
    <2>2. CASE i = n + 1
      <3>1. i = stIdx /\ stVec[i].src = l
        BY <1>1, <2>2
      <3>2. lstOut'[i] = item
        BY <1>2, <2>2
      <3> HIDE DEF l
      <3>3. ReadBack(l, item.code)
        BY <1>4, <1>5, <3>1
      <3> QED BY <3>1, <3>2, <3>3
    <2> QED BY <1>1, <2>1, <2>2
  <1> QED BY <1>1, <1>2, <1>5 DEF ReadInv

\* Every step preserves it.
LEMMA ReadStep ==
  ASSUME RegistersFit, Inv, CodeInv, ReadInv, [Next]_vars PROVE ReadInv'
  <1>1. CASE Pass1Next /\ UNCHANGED pass2Vars
    <2>1. Pass1Effect
      BY <1>1, Pass1Cases DEF Inv, TypeOK
    <2>2. phase' \in {"pass1", "dummy", "init2", "failed", "undefined"}
      BY <2>1 DEF Pass1Effect, Refusing, Reject, Undefined, Accepting, Accept, Ended,
                  TokenAllocFail, PushDummy
    <2> QED BY <2>2 DEF ReadInv
  <1>2. CASE Pass2Next
    <2>1. CASE InitStates
      <3>1. lstOut' = <<>>
        BY <2>1 DEF InitStates, CodeInv
      <3> QED BY <3>1 DEF ReadInv
    <2>2. CASE PrintEnd
      BY <2>2 DEF PrintEnd, ReadInv, IsInstruction, Is, Plain
    <2>3. CASE phase' \in {"failed", "undefined"}
      BY <2>3 DEF ReadInv
    <2>4. ASSUME NEW item, Listing(item) PROVE ReadInv'
      <3>1. lstOut' \in Seq(Item)
        BY <1>2, NextInv DEF Next, Inv, TypeOK
      <3> QED BY <2>4, <3>1, ListingBack
    <2> QED BY <1>2, <2>1, <2>2, <2>3, <2>4, Pass2Lists
  <1>3. CASE UNCHANGED vars
    BY <1>3 DEF vars, pass1Vars, pass2Vars, ReadInv, IsInstruction, Is, Plain
  <1> QED BY <1>1, <1>2, <1>3 DEF Next

(* What the listing of a plain program holds can be read back: the constant  *)
(* of a format 3/4 instruction, its x bit, and the two registers of a format *)
(* 2 instruction are those of its line, for every width of the fields in     *)
(* which a register number fits.                                             *)
THEOREM InstructionsReadBack == ASSUME RegistersFit PROVE Spec => []OperandsReadBack
  <1>1. Init => ReadInv
    BY DEF Init, Pass1Init, ReadInv
  <1>2. Inv /\ CodeInv /\ ReadInv /\ [Next]_vars => ReadInv'
    BY ReadStep
  <1>3. Inv /\ CodeInv /\ ReadInv => OperandsReadBack
    <2> SUFFICES ASSUME Inv, CodeInv, ReadInv, Assembling, PlainProgram,
                        NEW i \in 1..Len(lstOut), IsInstruction(stVec[i].src)
                 PROVE  ReadBack(stVec[i].src, lstOut[i].code)
      BY DEF OperandsReadBack, ReadBack
    <2>1. phase \in {"pass2", "passed"} /\ ListingInv
      BY DEF CodeInv, Assembling
    <2>2. i \in 1..Len(stVec)
      BY <2>1 DEF ListingInv, Inv, TypeOK
    <2> QED BY <2>1, <2>2 DEF ReadInv, PlainProgram
  <1> QED BY <1>1, <1>2, <1>3, Invariance, CodeInvariance, PTL DEF Spec

-----------------------------------------------------------------------------
(* An END closes the loop of pass 1, so only the dummy stands behind it, and *)
(* not even that when its Token could not be allocated.                      *)
EndInv ==
  /\ phase = "pass1" => \A i \in 1..Len(stVec) : ~Is(stVec[i].src, "END")
  /\ phase = "dummy" => \A i \in 1..Len(stVec)-1 : ~Is(stVec[i].src, "END")
  /\ phase \in {"init2", "pass2", "passed"} =>
       \A i \in 1..Len(stVec)-2 : ~Is(stVec[i].src, "END")

\* Every step preserves it.
LEMMA EndStep == ASSUME Inv, EndInv, [Next]_vars PROVE EndInv'
  <1>1. ASSUME NEW st \in Statement, stVec' = Append(stVec, st), phase = "pass1" \/ phase = "dummy",
               phase' \in {"pass1", "dummy", "init2"},
               Is(st.src, "END") => phase = "pass1" /\ phase' = "dummy",
               phase = "pass1" => phase' # "init2", phase = "dummy" => phase' = "init2"
        PROVE  EndInv'
    <2> DEFINE n == Len(stVec)
    <2>1. /\ Len(stVec') = n + 1 /\ stVec'[n + 1] = st /\ n \in Nat
          /\ \A i \in 1..n : stVec'[i] = stVec[i]
      <3>1. stVec \in Seq(Statement)
        BY DEF Inv, TypeOK
      <3> QED BY <1>1, <3>1, Extended
    <2>2. CASE phase = "pass1"
      <3>1. \A i \in 1..n : ~Is(stVec'[i].src, "END")
        BY <2>1, <2>2 DEF EndInv
      <3>2. phase' = "pass1" => ~Is(stVec'[n + 1].src, "END")
        BY <1>1, <2>1
      <3> QED BY <1>1, <2>1, <2>2, <3>1, <3>2 DEF EndInv
    <2>3. CASE phase = "dummy"
      <3>1. \A i \in 1..n-1 : ~Is(stVec'[i].src, "END")
        BY <2>1, <2>3 DEF EndInv
      <3> QED BY <1>1, <2>1, <2>3, <3>1 DEF EndInv
    <2> QED BY <1>1, <2>2, <2>3
  <1>2. CASE Pass1Next
    <2>1. Pass1Effect
      BY <1>2, Pass1Cases DEF Inv, TypeOK
    <2>2. CASE Refusing
      BY <2>2 DEF Refusing, Reject, Undefined, EndInv
    <2>3. ASSUME NEW l \in Lines, TokenAllocFail(l) PROVE EndInv'
      <3>1. /\ phase = "pass1" /\ UNCHANGED stVec /\ phase' \in {"init2", "undefined"}
        BY <2>3 DEF TokenAllocFail
      <3>2. Len(stVec) \in Nat
        BY DEF Inv, TypeOK
      <3> QED BY <3>1, <3>2 DEF EndInv, Is
    <2>4. ASSUME NEW l \in Lines, NEW eof \in BOOLEAN, NEW a \in Int, NEW b \in Int,
                 Accepting(l, eof, a, b)
          PROVE  EndInv'
      <3> DEFINE st == [src |-> l, lineNo |-> lineNo, loc |-> a]
      <3>1. /\ st \in Statement /\ st.src = l
        BY LineFields DEF Statement, Inv, TypeOK
      <3>0. Is(l, "END") => a = -1
        BY <2>4 DEF Accepting, Placed, Is
      <3>2. /\ stVec' = Append(stVec, st) /\ phase = "pass1" /\ phase' \in {"pass1", "dummy"}
            /\ Is(l, "END") => phase' = "dummy"
        BY <2>4, <3>0 DEF Accepting, Accept, Ended, VecPush
      <3> HIDE DEF st
      <3> QED BY <1>1, <3>1, <3>2
    <2>5. CASE PushDummy
      <3> DEFINE st == [src |-> BlankLine, lineNo |-> 0, loc |-> loc]
      <3>1. /\ st \in Statement /\ st.src = BlankLine
        BY LineFields DEF Statement, Inv, TypeOK
      <3>2. stVec' = Append(stVec, st) /\ phase = "dummy" /\ phase' = "init2"
        BY <2>5 DEF PushDummy, VecPush
      <3>3. ~Is(BlankLine, "END")
        BY DEF Is, BlankLine, NoTok
      <3> HIDE DEF st
      <3> QED BY <1>1, <3>1, <3>2, <3>3
    <2> QED BY <2>1, <2>2, <2>3, <2>4, <2>5 DEF Pass1Effect
  <1>3. CASE Pass2Next
    <2>1. Pass2Effect
      BY <1>3, Pass2Cases DEF Inv
    <2>2. /\ UNCHANGED stVec /\ phase \in {"init2", "pass2"}
          /\ phase' \in {"pass2", "passed", "failed", "undefined"}
      BY <2>1 DEF Pass2Effect, InitStates, PrintEnd, Fail2, Undefined, PrintNoCode, PrintCode
    <2> QED BY <2>2 DEF EndInv, Is
  <1>4. CASE UNCHANGED vars
    BY <1>4 DEF vars, pass1Vars, EndInv, Is
  <1> QED BY <1>2, <1>3, <1>4 DEF Next

\* It holds at the start, and therefore always.
LEMMA EndInvariance == Spec => []EndInv
  <1>1. Init => EndInv
    BY DEF Init, Pass1Init, EndInv
  <1> QED BY <1>1, EndStep, Invariance, PTL DEF Spec

\* What a listed statement does to the two addresses that execution starts at.
StartChange(l) ==
  /\ firstInstruction' = IF IsInstruction(l) THEN FirstInstruction ELSE firstInstruction
  /\ Is(l, "END") => pcAddr' = IF Present(l.operand) THEN symtab[l.operand.name]
                               ELSE firstInstruction
  /\ UNCHANGED startAddr

\* What a step of pass 2 does to firstInstruction and pcAddr.
LEMMA Pass2Starts ==
  ASSUME Inv, Pass2Next, phase = "pass2", phase' = "pass2"
  PROVE  StartChange(stVec[stIdx].src)
  <1>1. ASSUME NEW l, \/ BlankStatement(l) \/ ReserveStatement(l) \/ ByteStatement(l)
                      \/ WordStatement(l) \/ BaseStatement(l) \/ NoBaseStatement(l)
                      \/ StartStatement(l)
        PROVE  StartChange(l) /\ l = stVec[stIdx].src
    <2>1. /\ UNCHANGED firstInstruction
          /\ (\E flush \in BOOLEAN : PrintNoCode(flush)) \/ \E len, code : PrintCode(len, code, FALSE)
      BY <1>1 DEF BlankStatement, ReserveStatement, ByteStatement, WordStatement,
                  BaseStatement, NoBaseStatement, StartStatement, AddressesSame, Undefined
    <2>2. ~IsInstruction(l) /\ ~Is(l, "END") /\ l = stVec[stIdx].src
      BY <1>1 DEF BlankStatement, ReserveStatement, ByteStatement, WordStatement,
                  BaseStatement, NoBaseStatement, StartStatement, IsInstruction, Directives,
                  Is, NoTok, Processing
    <2>3. UNCHANGED startAddr
      BY <2>1 DEF PrintNoCode, PrintCode
    <2> QED BY <2>1, <2>2, <2>3 DEF StartChange
  <1>2. ASSUME NEW l, EndStatement(l) PROVE StartChange(l) /\ l = stVec[stIdx].src
    BY <1>2 DEF EndStatement, StartChange, PrintNoCode, Processing, IsInstruction, Directives,
                Fail2
  <1>3. ASSUME NEW l, InstructionStatement(l) PROVE StartChange(l) /\ l = stVec[stIdx].src
    <2>1. /\ IsInstruction(l) /\ ~Is(l, "END") /\ l = stVec[stIdx].src
          /\ firstInstruction' = FirstInstruction
      BY <1>3 DEF InstructionStatement, IsInstruction, Directives, Processing
    <2>2. UNCHANGED startAddr
      BY <1>3 DEF InstructionStatement, PrintCode
    <2> QED BY <2>1, <2>2 DEF StartChange
  <1>4. ~InitStates /\ ~InitStatesAllocFail /\ ~PrintEnd
    BY DEF InitStates, InitStatesAllocFail, PrintEnd
  <1>5. ASSUME NEW l PROVE ~UndefinedBase(l) /\ ~MRecVecAllocFail(l) /\ ~RefusedInstruction(l)
    BY DEF UndefinedBase, MRecVecAllocFail, RefusedInstruction, Fail2, Undefined
  <1> QED BY <1>1, <1>2, <1>3, <1>4, <1>5 DEF Pass2Next

\* The address of the first instruction that is not at the start address, or
\* the start address when there is none yet.
FirstIs(addr) ==
  \/ Elsewhere = {} /\ addr = startAddr
  \/ \E j \in Elsewhere : addr = stVec[j].loc /\ \A k \in Elsewhere : j <= k
StartIs(o, addr) == IF Present(o) THEN addr = symtab[o.name] ELSE FirstIs(addr)

StartInv ==
  /\ phase \in {"pass2", "passed"} => FirstIs(firstInstruction)
  /\ phase \in {"pass2", "passed"} =>
       \A i \in 1..Len(lstOut) : Is(stVec[i].src, "END") =>
         stIdx = Len(stVec) /\ StartIs(stVec[i].src.operand, pcAddr)

\* An instruction is listed, and may be the first away from the start address.
LEMMA FirstNext ==
  ASSUME Inv, CodeInv, StartInv, NEW item, Listing(item), StartChange(stVec[stIdx].src)
  PROVE  \/ Elsewhere' = {} /\ firstInstruction' = startAddr
         \/ \E j \in Elsewhere' :
               firstInstruction' = stVec[j].loc /\ \A k \in Elsewhere' : j <= k
  <1> DEFINE n == Len(lstOut)
             l == stVec[stIdx].src
             new == IsInstruction(l) /\ stVec[n + 1].loc # startAddr
  <1>1. /\ phase = "pass2" /\ UNCHANGED <<stVec, startAddr>>
        /\ lstOut' = Append(lstOut, item) /\ n = stIdx - 1
        /\ lstOut \in Seq(Item) /\ n \in Nat /\ stIdx = n + 1
    BY SMTT(20) DEF Listing, ItemOf, CodeInv, ListingInv, Inv, TypeOK, StartChange
  <1>2. Len(lstOut') = n + 1
    <2>1. lstOut \in Seq(Item \cup {item})
      BY <1>1
    <2> QED BY <1>1, <2>1, Extended
  <1>3. Elsewhere' = {i \in 1..n+1 : IsInstruction(stVec[i].src) /\ stVec[i].loc # startAddr}
    BY <1>1, <1>2, Zenon DEF Elsewhere, Instructions, IsInstruction, Is
  <1>4. Elsewhere = {i \in 1..n : IsInstruction(stVec[i].src) /\ stVec[i].loc # startAddr}
    BY Zenon DEF Elsewhere, Instructions
  <1>5. l = stVec[n + 1].src /\ 1..n+1 = (1..n) \cup {n + 1}
    BY <1>1
  <1>6. Elsewhere' = IF new THEN Elsewhere \cup {n + 1} ELSE Elsewhere
    <2>1. \A i : i \in Elsewhere' <=> i \in Elsewhere \/ (i = n + 1 /\ new)
      <3> HIDE DEF n, l
      <3> QED BY <1>3, <1>4, <1>5, Zenon
    <2> HIDE DEF new
    <2> QED BY <2>1, Zenon
  <1>7. FirstIs(firstInstruction)
    BY <1>1 DEF StartInv
  <1>8. firstInstruction' =
          IF IsInstruction(l) /\ firstInstruction = startAddr THEN stVec[n + 1].loc
          ELSE firstInstruction
    BY <1>1, Zenon DEF StartChange, FirstInstruction
  <1>9. \A j \in Elsewhere : stVec[j].loc # startAddr /\ j <= n + 1
    <2>1. \A j \in Elsewhere : j \in 1..n /\ stVec[j].loc # startAddr
      BY <1>4, Zenon
    <2> HIDE DEF n
    <2> QED BY <1>1, <2>1
  <1>10. n + 1 <= n + 1
    BY <1>1
  <1> HIDE DEF n, l
  <1>11. CASE ~new
    <2>1. Elsewhere' = Elsewhere
      BY <1>6, <1>11, Zenon
    <2>2. firstInstruction' = firstInstruction
      BY <1>8, <1>11, Zenon
    <2> QED BY <1>7, <2>1, <2>2, Zenon DEF FirstIs
  <1>12. CASE new /\ Elsewhere = {}
    <2>1. firstInstruction' = stVec[n + 1].loc
      BY <1>7, <1>8, <1>12, Zenon DEF FirstIs
    <2>2. Elsewhere' = {n + 1}
      BY <1>6, <1>12
    <2> QED BY <1>10, <2>1, <2>2, Zenon
  <1>13. CASE new /\ Elsewhere # {}
    <2>1. PICK j \in Elsewhere : firstInstruction = stVec[j].loc /\ \A k \in Elsewhere : j <= k
      BY <1>7, <1>13, Zenon DEF FirstIs
    <2>2. firstInstruction' = stVec[j].loc
      BY <1>8, <1>9, <2>1, Zenon
    <2>3. Elsewhere' = Elsewhere \cup {n + 1}
      BY <1>6, <1>13, Zenon
    <2>4. j \in Elsewhere' /\ \A k \in Elsewhere' : j <= k
      BY <1>9, <2>1, <2>3, Zenon
    <2> QED BY <2>2, <2>4, Zenon
  <1> QED BY <1>11, <1>12, <1>13, Zenon

\* A statement is listed; behind an END none is.
LEMMA ListingStarts ==
  ASSUME Inv, CodeInv, EndInv, StartInv, NEW item, Listing(item), StartChange(stVec[stIdx].src)
  PROVE  StartInv'
  <1> DEFINE n == Len(lstOut)
             l == stVec[stIdx].src
  <1>1. /\ phase = "pass2" /\ stIdx < Len(stVec) /\ UNCHANGED <<stVec, symtab>>
        /\ lstOut' = Append(lstOut, item) /\ n = stIdx - 1 /\ stIdx' = stIdx + 1
        /\ lstOut \in Seq(Item) /\ n \in Nat /\ stIdx = n + 1 /\ Len(stVec) \in Nat
        /\ ~IsInstruction(l) => UNCHANGED firstInstruction
    BY SMTT(20) DEF Listing, ItemOf, CodeInv, ListingInv, Inv, TypeOK, StartChange
  <1>2. Len(lstOut') = n + 1
    <2>1. lstOut \in Seq(Item \cup {item})
      BY <1>1
    <2> QED BY <1>1, <2>1, Extended
  <1>3. FirstIs(firstInstruction)'
    <2>1. \/ Elsewhere' = {} /\ firstInstruction' = startAddr
          \/ \E j \in Elsewhere' :
                firstInstruction' = stVec[j].loc /\ \A k \in Elsewhere' : j <= k
      BY FirstNext, Zenon
    <2>2. startAddr' = startAddr /\ stVec' = stVec
      BY <1>1 DEF StartChange
    <2> QED BY <2>1, <2>2, Zenon DEF FirstIs
  <1>4. ASSUME NEW i \in 1..n+1, Is(stVec[i].src, "END")
        PROVE  stIdx' = Len(stVec) /\ StartIs(stVec[i].src.operand, pcAddr)'
    <2>1. i \notin 1..Len(stVec)-2
      BY <1>1, <1>4 DEF EndInv
    <2>2. i = n + 1 /\ stIdx' = Len(stVec)
      BY <1>1, <2>1
    <2>3. i = stIdx /\ stVec[i].src = l
      BY <1>1, <2>2
    <2>4. Is(l, "END") /\ ~IsInstruction(l)
      BY <1>4, <2>3 DEF IsInstruction, Directives
    <2>5. pcAddr' = IF Present(l.operand) THEN symtab[l.operand.name] ELSE firstInstruction'
      BY <1>1, <2>4 DEF StartChange
    <2>6. Present(l.operand) => StartIs(stVec[i].src.operand, pcAddr)'
      BY <1>1, <2>3, <2>5, Zenon DEF StartIs
    <2>7. ~Present(l.operand) => StartIs(stVec[i].src.operand, pcAddr)'
      <3>1. ~Present(l.operand) => pcAddr' = firstInstruction'
        BY <1>1, <2>4, <2>5
      <3> QED BY <1>1, <1>3, <2>3, <3>1, Zenon DEF StartIs, FirstIs
    <2> QED BY <2>2, <2>6, <2>7, Zenon
  <1> QED BY <1>1, <1>2, <1>3, <1>4 DEF StartInv

\* Every step preserves it.
LEMMA StartStep ==
  ASSUME Inv, CodeInv, EndInv, StartInv, [Next]_vars PROVE StartInv'
  <1>1. CASE Pass1Next /\ UNCHANGED pass2Vars
    <2>1. Pass1Effect
      BY <1>1, Pass1Cases DEF Inv, TypeOK
    <2>2. phase' \in {"pass1", "dummy", "init2", "failed", "undefined"}
      BY <2>1 DEF Pass1Effect, Refusing, Reject, Undefined, Accepting, Accept, Ended,
                  TokenAllocFail, PushDummy
    <2> QED BY <2>2 DEF StartInv
  <1>2. CASE Pass2Next
    <2>1. CASE InitStates
      <3>1. lstOut' = <<>> /\ firstInstruction' = startAddr'
        BY <2>1 DEF InitStates, CodeInv
      <3>2. Instructions' = {}
        BY <3>1 DEF Instructions
      <3> QED BY <3>1, <3>2 DEF StartInv, FirstIs, Elsewhere
    <2>2. CASE PrintEnd
      <3>1. /\ phase = "pass2" /\ UNCHANGED <<firstInstruction, startAddr, lstOut, stVec, stIdx,
                                             symtab, pcAddr>>
        BY <2>2 DEF PrintEnd
      <3> QED BY <3>1 DEF StartInv, FirstIs, Elsewhere, Instructions, StartIs, IsInstruction, Is
    <2>3. CASE phase' \in {"failed", "undefined"}
      BY <2>3 DEF StartInv
    <2>4. ASSUME NEW item, Listing(item) PROVE StartInv'
      <3>1. phase = "pass2" /\ phase' = "pass2"
        BY <2>4 DEF Listing
      <3> QED BY <1>2, <2>4, <3>1, Pass2Starts, ListingStarts
    <2> QED BY <1>2, <2>1, <2>2, <2>3, <2>4, Pass2Lists
  <1>3. CASE UNCHANGED vars
    BY <1>3 DEF vars, pass1Vars, pass2Vars, StartInv, FirstIs, Elsewhere, Instructions, StartIs,
                IsInstruction, Is
  <1> QED BY <1>1, <1>2, <1>3 DEF Next

\* The end record holds the address found at END.
LastIsStart ==
  phase = "passed" => objOut # <<>> /\ objOut[Len(objOut)].addr = pcAddr

\* A step keeps the address of the end record that of pcAddr.
LEMMA LastStep == ASSUME Inv, LastIsStart, [Next]_vars PROVE LastIsStart'
  <1>1. CASE PrintEnd
    <2> DEFINE front == objOut \o [i \in DOMAIN mRecVec |-> Rec("M", mRecVec[i], 0, <<>>)]
               end == Rec("E", pcAddr, 0, <<>>)
    <2>1. objOut' = front \o <<end>> /\ UNCHANGED pcAddr /\ end.addr = pcAddr
      <3>1. UNCHANGED pcAddr
        BY <1>1 DEF PrintEnd
      <3>2. objOut' = front \o <<end>>
        BY <1>1 DEF PrintEnd
      <3>3. end.addr = pcAddr
        BY DEF Rec
      <3> QED BY <3>1, <3>2, <3>3
    <2>2. front \in Seq(ObjRecords) /\ end \in ObjRecords
      <3>1. /\ objOut \in Seq(ObjRecords) /\ DOMAIN mRecVec = 1..Len(mRecVec)
            /\ Len(mRecVec) \in Nat /\ \A i \in 1..Len(mRecVec) : mRecVec[i] \in Int
            /\ pcAddr \in Int
        BY DEF Inv, TypeOK, ObjRecords
      <3>2. \A i \in 1..Len(mRecVec) : Rec("M", mRecVec[i], 0, <<>>) \in ObjRecords
        BY <3>1 DEF Rec, ObjRecords
      <3>3. [i \in DOMAIN mRecVec |-> Rec("M", mRecVec[i], 0, <<>>)] \in Seq(ObjRecords)
        BY <3>1, <3>2
      <3>4. end \in ObjRecords
        BY <3>1 DEF Rec, ObjRecords
      <3> QED BY <3>1, <3>3, <3>4
    <2> HIDE DEF front, end
    <2>3. objOut' # <<>> /\ objOut'[Len(objOut')] = end
      BY <2>1, <2>2
    <2> QED BY <2>1, <2>3 DEF LastIsStart
  <1>2. CASE Pass1Next
    <2>1. Pass1Effect
      BY <1>2, Pass1Cases DEF Inv, TypeOK
    <2> QED BY <2>1 DEF Pass1Effect, Refusing, Reject, Undefined, Accepting, Accept, Ended,
                        TokenAllocFail, PushDummy, LastIsStart
  <1>3. CASE Pass2Next /\ ~PrintEnd
    <2>1. phase' # "passed"
      BY <1>3, Pass2Lists DEF InitStates, Listing
    <2> QED BY <2>1 DEF LastIsStart
  <1>4. CASE UNCHANGED vars
    BY <1>4 DEF vars, pass1Vars, pass2Vars, LastIsStart
  <1> QED BY <1>1, <1>2, <1>3, <1>4 DEF Next

(* A program with END starts where END says, or at the first of its          *)
(* instructions that is not at the start address, or, when it has none, at   *)
(* its start address: what becomes of firstInstruction, which is taken again *)
(* as long as it is the start address, for every program (pass2.c:486).      *)
THEOREM StartsPastStart == Spec => []StartsElsewhere
  <1>1. Init => EndInv /\ StartInv /\ LastIsStart
    BY DEF Init, Pass1Init, EndInv, StartInv, LastIsStart
  <1>2. Inv /\ CodeInv /\ EndInv /\ StartInv /\ LastIsStart /\ [Next]_vars
          => EndInv' /\ StartInv' /\ LastIsStart'
    BY EndStep, StartStep, LastStep
  <1>3. StartInv /\ LastIsStart => StartsElsewhere
    BY Zenon DEF StartInv, LastIsStart, StartsElsewhere, StartIs, FirstIs
  <1> QED BY <1>1, <1>2, <1>3, Invariance, CodeInvariance, PTL DEF Spec
==============================================================================
