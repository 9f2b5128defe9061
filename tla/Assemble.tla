------------------------------ MODULE Assemble ------------------------------
(* One call of assemble() (assemble.c): pass 1, then pass 2 when pass 1      *)
(* returned 0.  The properties relate what the two passes and the two output *)
(* files say of the same program.                                            *)
EXTENDS Pass2, SequencesExt

Init == Pass1Init /\ Pass2Init
Next == (Pass1Next /\ UNCHANGED pass2Vars) \/ Pass2Next

\* The assembler is a loop that nothing suspends: a step that can be taken is.
Fairness == WF_vars(Next)
Spec == Init /\ [][Next]_vars /\ Fairness

-----------------------------------------------------------------------------
\* The variables have their types; an address is an int.
TypeOK ==
  /\ phase \in Phases /\ errCode \in Errors
  /\ lineNo \in Nat /\ loc \in Int /\ rsize \in Nat
  /\ symtab \in [DOMAIN symtab -> Int] /\ DOMAIN symtab \subseteq STRING
  /\ stVec \in Seq(Statement)
  /\ stIdx \in Nat \ {0}
  /\ {pcAddr, baseAddr, startAddr, firstInstruction} \subseteq Int
  /\ baseAvailable \in BOOLEAN
  /\ objcodeLen \in Nat /\ curTextRecordLen \in Nat
  /\ textRecBuf \in Seq(Item) /\ mRecVec \in Seq(Int) /\ lstOut \in Seq(Item)
  /\ objOut \in Seq([kind : {"H", "T", "body", "M", "E"}, addr : Int, len : Int,
                     items : Seq(Item)])

-----------------------------------------------------------------------------
(* What the source text declares, in the terms of the manual: the bytes a    *)
(* line takes, on unbounded integers.                                        *)
DeclaredSize(l) ==
  CASE Is(l, "RESB") -> l.operand.val
    [] Is(l, "RESW") -> 3 * l.operand.val
    [] Is(l, "BYTE") -> LiteralCodeLen(l.operand)
    [] Is(l, "WORD") -> 3
    [] l.mn \in DOMAIN Optab -> InstructionLen(l)
    [] OTHER -> 0

\* Numbers whose int is their value, threefold too, and literals with nothing
\* behind the closing quote.
Plain(l) ==
  /\ l.operand.val \in -INT_HALF..INT_HALF-1
  /\ 3 * l.operand.val \in -INT_HALF..INT_HALF-1
  /\ l.operand.tail = 0
PlainProgram == \A i \in 1..Len(stVec) : Plain(stVec[i].src)

\* While stVec and symtab describe the source file.
Assembling == phase \in {"pass1", "dummy", "init2", "pass2", "passed"}

Ends(i) == stVec[i].loc = -1
HasDummy == stVec # <<>> /\ stVec[Len(stVec)].lineNo = 0

(* A label's entry in the table is the address of the one statement that     *)
(* carries the label, and every label of an accepted statement has its entry *)
(* (the loop of assemble_pass1, addSymbol before vecPush).                   *)
SymbolsAreStatementAddresses ==
  Assembling =>
    LET labelled == {i \in 1..Len(stVec) : DefinesSymbol(stVec[i].src)} IN
    /\ DOMAIN symtab = {stVec[i].src.label : i \in labelled}
    /\ \A i \in labelled : symtab[stVec[i].src.label] = stVec[i].loc

(* Consecutive statements lie exactly as far apart as the first of the two   *)
(* declares, and an END keeps its place out of it: pass 1 and the source     *)
(* agree on every address.                                                   *)
AddressesAdvance ==
  Assembling /\ PlainProgram =>
    \A i \in 1..Len(stVec) - 1 :
      /\ ~Ends(i) /\ ~Ends(i + 1) =>
           stVec[i + 1].loc = stVec[i].loc + DeclaredSize(stVec[i].src)
      /\ Ends(i) => i + 1 = Len(stVec)
      /\ Ends(i) /\ i > 1 =>
           stVec[i + 1].loc = stVec[i - 1].loc + DeclaredSize(stVec[i - 1].src)

(* The program stays inside the address space: every address of a statement  *)
(* and the end of the program, the dummy's address, are in 0..LOC_MAX, and   *)
(* only an END has the address -1.                                           *)
AddressesInRange ==
  Assembling /\ PlainProgram =>
    \A i \in 1..Len(stVec) :
      IF Is(stVec[i].src, "END") THEN Ends(i) ELSE stVec[i].loc \in 0..LOC_MAX

-----------------------------------------------------------------------------
\* Code of the object file so far, what is still in the buffer included, and
\* code of the listing.
Written ==
  FlattenSeq([i \in DOMAIN objOut |-> objOut[i].items]) \o textRecBuf
Listed ==
  FlattenSeq([i \in DOMAIN lstOut |-> IF lstOut[i].len > 0 THEN <<lstOut[i]>> ELSE <<>>])

(* The record being filled and every record written hold at most             *)
(* TRECORD_CODE_LIMIT bytes (printTextRec, which adds to its buffer without  *)
(* another test).                                                            *)
TextRecordsFit ==
  /\ curTextRecordLen <= TRECORD_CODE_LIMIT
  /\ \A i \in 1..Len(objOut) :
       objOut[i].kind = "body" => objOut[i].len <= TRECORD_CODE_LIMIT

\* The items fill the len bytes from addr on without a gap.
Fills(items, addr, len) ==
  /\ items # <<>>
  /\ items[1].loc = addr
  /\ \A k \in 1..Len(items) - 1 : items[k + 1].loc = items[k].loc + items[k].len
  /\ items[Len(items)].loc + items[Len(items)].len = addr + len

(* A loader puts the code of a record at consecutive addresses from the one  *)
(* in its header, so no gap and no RESB or RESW may be inside a record, and  *)
(* the length the record states is that of its code.                         *)
RecordsContiguous ==
  PlainProgram /\ ~AllocMayFail =>
    /\ \A i \in 1..Len(objOut) : objOut[i].kind = "body" =>
         /\ i > 1 /\ objOut[i - 1].kind = "T"
         /\ Fills(objOut[i].items, objOut[i - 1].addr, objOut[i].len)
    /\ phase = "pass2" /\ curTextRecordLen > 0 =>
         /\ objOut[Len(objOut)].kind = "T"
         /\ Fills(textRecBuf, objOut[Len(objOut)].addr, curTextRecordLen)

(* The object file holds the code of the listing, all of it, once and in     *)
(* order, and after an END nothing stays in the buffer.                      *)
ImageIsListing ==
  /\ Written = Listed
  /\ phase = "passed" /\ (\E i \in 1..Len(stVec) : Is(stVec[i].src, "END")) =>
       textRecBuf = <<>>

(* ref/SIC_pass2.txt: "write last Text record to object program" before the  *)
(* End record, whatever the program ends with.                               *)
LastRecordWritten == phase = "passed" => curTextRecordLen = 0

\* All code lies between the start address and start plus length of the
\* header record (initStates takes them from the first and the dummy statement).
CodeInsideProgram ==
  PlainProgram /\ Assembling /\ lstOut # <<>> =>
    \A i \in 1..Len(lstOut) : lstOut[i].len > 0 =>
      /\ lstOut[i].loc >= objOut[1].addr
      /\ lstOut[i].loc + lstOut[i].len <= objOut[1].addr + objOut[1].len

-----------------------------------------------------------------------------
\* The BASE or NOBASE statement in force at statement i, 0 when there is none.
BaseInForce(i) ==
  LET before == {j \in 1..i-1 : Is(stVec[j].src, "BASE") \/ Is(stVec[j].src, "NOBASE")}
  IN  IF before = {} THEN 0 ELSE CHOOSE j \in before : \A k \in before : k <= j

Signed(field) == IF field >= PC_RANGE THEN field - 2 * PC_RANGE ELSE field

(* What the machine computes from a format 3 instruction at statement i, by  *)
(* the address of the next instruction and the register B the program is     *)
(* told to hold.                                                             *)
ResolvesTo(i, target) ==
  LET code == lstOut[i].code IN
  \/ "p" \in code.mode /\ target = lstOut[i].loc + lstOut[i].len + Signed(code.field)
  \/ /\ "b" \in code.mode
     /\ BaseInForce(i) > 0
     /\ LET base == stVec[BaseInForce(i)].src IN
        base.mn = "BASE" /\ target = symtab[base.operand.name] + code.field

SymbolicFormat3(i) ==
  LET l == stVec[i].src IN
  /\ IsInstruction(l) /\ Optab[l.mn] = 3 /\ ~l.ext
  /\ l.operand.kind = "name"

(* A listed format 3 instruction reaches the symbol it names, relative to    *)
(* the program counter or to the base in force, unless END is next to it     *)
(* (the displacement of processOpcode, its pcAddr and baseAddr).             *)
SymbolsResolve ==
  Assembling => \A i \in 1..Len(lstOut) :
    SymbolicFormat3(i) /\ ~Ends(i + 1) =>
      ResolvesTo(i, symtab[stVec[i].src.operand.name])

(* assemble_types.h: loc is "the location counter of the statement" and      *)
(* pcAddr is "used for the pc-relative computation of an instruction": then  *)
(* also the instruction before END reaches its symbol, if that has a place   *)
(* of its own and is not END's label.                                        *)
SymbolsResolveBeforeEnd ==
  Assembling => \A i \in 1..Len(lstOut) :
    LET target == symtab[stVec[i].src.operand.name] IN
    SymbolicFormat3(i) /\ target # -1 => ResolvesTo(i, target)

\* Statement i is a format 4 instruction whose code holds an absolute address.
HoldsAddress(i) ==
  /\ stVec[i].src.operand.kind = "name" /\ stVec[i].src.ext
  /\ {"b", "p"} \cap lstOut[i].code.mode = {} \/ lstOut[i].code.mn = AllOnes

\* Exactly the format 4 instructions that hold an absolute address have a
\* modification record, at the byte behind the opcode, in program order.
ModificationsComplete ==
  Assembling =>
    /\ mRecVec = FlattenSeq([i \in DOMAIN lstOut |->
                               IF HoldsAddress(i) THEN <<lstOut[i].loc + 1>> ELSE <<>>])
    /\ phase = "passed" =>
         \A k \in 1..Len(mRecVec) :
           /\ objOut[Len(objOut) - Len(mRecVec) - 1 + k].kind = "M"
           /\ objOut[Len(objOut) - Len(mRecVec) - 1 + k].addr = mRecVec[k]

(* What a listed instruction holds can be read back: the constant of a       *)
(* format 3/4 instruction and the registers of a format 2 instruction are    *)
(* those of its source line (the shifts of processOpcode).  The address of   *)
(* a label on END, -1, may set all its bits.                                 *)
OperandsReadBack ==
  Assembling /\ PlainProgram =>
    \A i \in 1..Len(lstOut) :
      LET o == stVec[i].src.operand
          code == lstOut[i].code IN
      IsInstruction(stVec[i].src) =>
        /\ code.mn = stVec[i].src.mn \/ o.kind = "name"
        /\ code.mn = AllOnes \/ ("x" \in code.mode <=> Optab[code.mn] = 3 /\ o.next = "X")
        /\ Optab[stVec[i].src.mn] = 3 /\ o.kind = "num" =>
             code.field = o.val /\ {"b", "p"} \cap code.mode = {}
        /\ Optab[stVec[i].src.mn] = 2 =>
             /\ code.field \div REG_RANGE =
                  (IF o.kind = "num" THEN o.val ELSE RegisterNumber[o.name])
             /\ o.next # NoTok => code.field % REG_RANGE = RegisterNumber[o.next]

-----------------------------------------------------------------------------
Instructions == {i \in 1..Len(lstOut) : IsInstruction(stVec[i].src)}

Elsewhere == {j \in Instructions : stVec[j].loc # startAddr}

(* The end record starts the program at END's operand.  Without one it is    *)
(* the first instruction that is not at the start address: an instruction    *)
(* that is there is passed over for the next one, as its address is also the *)
(* value firstInstruction begins with (assemble_types.h:42 calls it the      *)
(* address of the first instruction).  With no such instruction the program  *)
(* starts at its start address.                                              *)
StartsElsewhere ==
  phase = "passed" =>
    \A i \in 1..Len(lstOut) : Is(stVec[i].src, "END") =>
      LET operand == stVec[i].src.operand
          addr == objOut[Len(objOut)].addr IN
      IF Present(operand) THEN addr = symtab[operand.name]
      ELSE \/ Elsewhere = {} /\ addr = startAddr
           \/ \E j \in Elsewhere : addr = stVec[j].loc /\ \A k \in Elsewhere : j <= k

\* A failed pass 1 leaves no symbol behind (emptySymbolTable at _cleanup_).
FailedPass1LeavesNoSymbols ==
  phase = "failed" /\ ~HasDummy => symtab = EmptySymtab

(* As long as memory does not run out, pass 2 writes beyond its buffers for  *)
(* one reason only: text behind the quote of a literal, which pass 1 did not *)
(* count (assemble_pass1.c:130) and pass 2 does (assemble_pass2.c:171).      *)
LeavesBuffersByTail ==
  phase = "undefined" /\ ~AllocMayFail =>
    /\ stIdx \in 1..Len(stVec) /\ Is(stVec[stIdx].src, "BYTE")
    /\ LET o == stVec[stIdx].src.operand IN
       /\ o.tail > 0
       /\ LiteralLen(o) <= TRECORD_CODE_LIMIT /\ LiteralCodeLen(o) > TRECORD_CODE_LIMIT

-----------------------------------------------------------------------------
(* What a loader makes of the object file: the items of a record lie behind  *)
(* one another from the address in the header; the delayed record counts as  *)
(* written.                                                                  *)
PlacedFrom(addr, items) ==
  LET place[k \in DOMAIN items] ==
        IF k = 1 THEN addr ELSE place[k - 1] + items[k - 1].len
  IN  UNION {{<<place[k] + b, items[k]>> : b \in 0..items[k].len - 1} : k \in DOMAIN items}
TextHeaders == {i \in 1..Len(objOut) : objOut[i].kind = "T"}
RecordAt(i) ==
  IF i < Len(objOut) /\ objOut[i + 1].kind = "body"
  THEN PlacedFrom(objOut[i].addr, objOut[i + 1].items)
  ELSE PlacedFrom(objOut[i].addr, textRecBuf)
LoadedCode ==
  IF PlainProgram THEN UNION {RecordAt(i) : i \in TextHeaders} ELSE {}

(* The object file of a plain program builds a memory image in which no byte *)
(* is set twice: see Loader.                                                 *)
Image == INSTANCE Loader WITH memory <- LoadedCode
LoadsOnce == Image!Spec

(* assemble() returns when its source can be read to the end; when reading   *)
(* fails the loop over the lines need not end (assemble_pass1.c:21).         *)
Terminates == ~ReadMayFail => <>(phase \in {"passed", "failed", "undefined"})
=============================================================================
