--------------------------- MODULE AssembleProofs ---------------------------
(* Proofs about Assemble for every value of its constants: types, the length *)
(* of text records, and that pass 1 and the source agree on every address.   *)
EXTENDS Assemble, Lemmas

\* A remainder is below its divisor.
LEMMA ModType == ASSUME NEW d \in Int, NEW m \in Nat \ {0} PROVE d % m \in 0..m-1
  OBVIOUS

\* A number below the divisor is its own remainder.
LEMMA ModIdentity == ASSUME NEW m \in Nat \ {0}, NEW d \in 0..m-1 PROVE d % m = d
  OBVIOUS

\* What RangeAssumption says of each limit, ready for arithmetic.
LEMMA Widths == /\ {LOC_MAX, WORD_MAX, PC_RANGE, EXT_RANGE, REG_RANGE} \subseteq Nat \ {0}
                /\ VEC_INIT \in Nat \ {0} /\ VEC_INC \in Nat \ {0}
                /\ INT_HALF \in Nat \ {0} /\ LONG_HALF \in Nat \ {0}
                /\ 2 * INT_HALF \in Nat \ {0} /\ 2 * PC_RANGE \in Nat \ {0}
                /\ 2 * EXT_RANGE \in Nat \ {0} /\ 2 * (WORD_MAX + 1) \in Nat \ {0}
                /\ LONG_HALF >= INT_HALF /\ INT_HALF > 2 * LOC_MAX
  BY RangeAssumption

\* Storing a long in an int gives an int.
LEMMA WrapType == ASSUME NEW v \in Int PROVE Wrap(v) \in -INT_HALF..INT_HALF-1
  <1>1. v + INT_HALF \in Int /\ 2 * INT_HALF \in Nat \ {0}
    BY Widths
  <1>2. (v + INT_HALF) % (2 * INT_HALF) \in 0..(2 * INT_HALF)-1
    BY <1>1, ModType, Zenon
  <1> QED BY <1>2, Widths DEF Wrap

\* A value an int holds is stored as itself.
LEMMA WrapIdentity ==
  ASSUME NEW v \in -INT_HALF..INT_HALF-1 PROVE Wrap(v) = v
  <1>1. v + INT_HALF \in 0..(2 * INT_HALF)-1
    BY Widths
  <1>2. (v + INT_HALF) % (2 * INT_HALF) = v + INT_HALF
    BY <1>1, Widths, ModIdentity
  <1> QED BY <1>2, Widths DEF Wrap

\* strtol's result stored in an int is an int.
LEMMA ToIntType == ASSUME NEW v \in Int PROVE ToInt(v) \in -INT_HALF..INT_HALF-1
  <1>1. Clamp(v) \in Int
    BY Widths DEF Clamp
  <1> QED BY <1>1, WrapType DEF ToInt

\* A number an int holds is read as itself.
LEMMA ToIntIdentity ==
  ASSUME NEW v \in -INT_HALF..INT_HALF-1 PROVE ToInt(v) = v
  <1>1. Clamp(v) = v
    BY Widths DEF Clamp
  <1> QED BY <1>1, WrapIdentity DEF ToInt

-----------------------------------------------------------------------------
\* What pass 1 knows of a line it has accepted.
StoredLine(l) ==
  /\ l \in Lines \cup {BlankLine}
  /\ Is(l, "BYTE") => /\ l.operand.kind \in {"char", "hex"}
                      /\ LiteralLen(l.operand) <= TRECORD_CODE_LIMIT
  /\ IsInstruction(l) => KnownOpcode(l)

(* The statement l is given address a, and b is the location counter behind  *)
(* it: START sets the counter, END is marked by -1, any other statement is   *)
(* at the counter; an instruction moves it by its length, and so does any    *)
(* statement whose numbers are plain.                                        *)
Placed(l, a, b) ==
  /\ a \in Int /\ b \in Int
  /\ \/ Is(l, "START") /\ lineNo = 1 /\ a = b /\ a \in 0..LOC_MAX
     \/ Is(l, "END") /\ a = -1 /\ b = loc
     \/ /\ ~Is(l, "START") /\ ~Is(l, "END") /\ a = loc
        /\ IsInstruction(l) => b = loc + InstructionLen(l)
        /\ Plain(l) /\ loc \in 0..LOC_MAX =>
             b = loc + DeclaredSize(l) /\ DeclaredSize(l) \in Nat

\* The effect of one iteration of pass 1 that accepts its line.
Accepting(l, eof, a, b) ==
  /\ phase = "pass1" /\ Accept(l, eof, a, b)
  /\ StoredLine(l) /\ LabelAccepted(l) /\ Placed(l, a, b) /\ b <= LOC_MAX

\* Every other end of an iteration.
Refusing == \/ Reject("SYNTAX_PARSE_FAIL") \/ Reject("ALLOC_FAIL") \/ Undefined

\* The fields of a line that the environment supplies, or of the blank one.
LEMMA LineFields ==
  ASSUME NEW l \in Lines \cup {BlankLine}
  PROVE  /\ l \in Line
         /\ l.label \in STRING /\ l.mn \in STRING /\ l.ext \in BOOLEAN
         /\ l.operand \in Operand
         /\ l.operand.val \in Int /\ l.operand.tail \in Nat
         /\ l.operand.kind \in {"char", "hex"} => l.operand.val > 0
         /\ l.mn = NoTok => ~l.ext
  <1>0. NoTok \in STRING /\ NoTok \in AddressingPrefixes
    BY LiteralsAssumption DEF AddressingPrefixes
  <1>a. NoOperand \in Operand
    BY <1>0 DEF NoOperand, Operand, OperandKinds
  <1>1. BlankLine \in Line
    BY <1>0, <1>a DEF BlankLine, Line
  <1>2. l \in Line
    BY <1>1, LinesAssumption
  <1>3. l.operand \in Operand /\ l.label \in STRING /\ l.mn \in STRING /\ l.ext \in BOOLEAN
    BY <1>2 DEF Line
  <1>4. l.operand.val \in Int /\ l.operand.tail \in Nat
    BY <1>3 DEF Operand
  <1>5. l.operand.kind \in {"char", "hex"} => l.operand.val > 0
    <2>1. CASE l = BlankLine
      BY <2>1 DEF BlankLine, NoOperand
    <2> QED BY <2>1, LinesAssumption
  <1>6. l.mn = NoTok => ~l.ext
    <2>1. CASE l = BlankLine
      BY <2>1 DEF BlankLine
    <2> QED BY <2>1, LinesAssumption
  <1> QED BY <1>2, <1>3, <1>4, <1>5, <1>6

\* An iteration refuses its line, runs out of memory, or accepts the line with
\* the counter in range.
LEMMA NextIterationCases ==
  ASSUME NEW l, NEW eof, NEW a, NEW b \in Int, NextIteration(l, eof, a, b)
  PROVE  \/ Reject("SYNTAX_PARSE_FAIL") \/ Reject("ALLOC_FAIL") \/ Undefined
         \/ b <= LOC_MAX /\ LabelAccepted(l) /\ Accept(l, eof, a, b)
  BY Widths DEF NextIteration, OutOfRange

\* An opcode is no directive, and its instruction has 1 to 4 bytes.
LEMMA OpcodeFields ==
  ASSUME NEW l \in Lines \cup {BlankLine}, KnownOpcode(l)
  PROVE  /\ l.mn \in DOMAIN Optab /\ l.mn \notin Directives /\ l.mn # NoTok
         /\ Optab[l.mn] \in {1, 2, 3} /\ InstructionLen(l) \in 1..4
  BY OptabAssumption, LineFields DEF KnownOpcode, InstructionLen

\* The size a plain line declares, kind by kind.
LEMMA SizeOfLine ==
  ASSUME NEW l \in Lines \cup {BlankLine}
  PROVE  /\ Is(l, "RESB") => DeclaredSize(l) = l.operand.val
         /\ Is(l, "RESW") => DeclaredSize(l) = 3 * l.operand.val
         /\ Is(l, "BYTE") => DeclaredSize(l) = LiteralCodeLen(l.operand)
         /\ Is(l, "WORD") => DeclaredSize(l) = 3
         /\ Is(l, "BASE") \/ Is(l, "NOBASE") \/ Is(l, "START") \/ Is(l, "END") =>
              DeclaredSize(l) = 0
         /\ l.mn = NoTok => DeclaredSize(l) = 0
         /\ KnownOpcode(l) => DeclaredSize(l) = InstructionLen(l)
  <1>1. \A d \in Directives \cup {NoTok} : d \notin DOMAIN Optab
    BY OptabAssumption
  <1>2. l.mn \notin DOMAIN Optab /\ ~Is(l, "RESB") /\ ~Is(l, "RESW") /\
        ~Is(l, "BYTE") /\ ~Is(l, "WORD") => DeclaredSize(l) = 0
    BY DEF DeclaredSize
  <1>3. Is(l, "BASE") \/ Is(l, "NOBASE") \/ Is(l, "START") \/ Is(l, "END") =>
          DeclaredSize(l) = 0
    BY <1>1, <1>2 DEF Is, Directives
  <1>4. l.mn = NoTok => DeclaredSize(l) = 0
    BY <1>1, <1>2 DEF Is, NoTok
  <1>5. KnownOpcode(l) => DeclaredSize(l) = InstructionLen(l)
    BY <1>1 DEF DeclaredSize, Is, Directives, KnownOpcode
  <1>a. l.operand.val \in Int
    BY LineFields
  <1>6. Is(l, "WORD") => DeclaredSize(l) = 3
    BY <1>1 DEF DeclaredSize, Is, Directives
  <1>7. Is(l, "BYTE") => DeclaredSize(l) = LiteralCodeLen(l.operand)
    BY <1>1 DEF DeclaredSize, Is, Directives
  <1>8. Is(l, "RESW") => DeclaredSize(l) = 3 * l.operand.val
    BY <1>1, <1>a DEF DeclaredSize, Is, Directives
  <1>9. Is(l, "RESB") => DeclaredSize(l) = l.operand.val
    BY <1>1, <1>a DEF DeclaredSize, Is, Directives
  <1> QED BY <1>3, <1>4, <1>5, <1>6, <1>7, <1>8, <1>9

\* Lengths of literals are natural numbers, and both passes agree on those
\* with nothing behind the quote.
LEMMA LiteralLens ==
  ASSUME NEW l \in Lines \cup {BlankLine}, l.operand.kind \in {"char", "hex"}
  PROVE  /\ LiteralLen(l.operand) \in Nat /\ LiteralCodeLen(l.operand) \in Nat \ {0}
         /\ l.operand.tail = 0 => LiteralLen(l.operand) = LiteralCodeLen(l.operand)
  <1>1. l.operand.val \in Nat \ {0} /\ l.operand.tail \in Nat
    BY LineFields
  <1>2. \A n \in Nat : n >= 2 => n \div 2 \in Nat \ {0}
    OBVIOUS
  <1> QED BY <1>1, <1>2 DEF LiteralLen, LiteralCodeLen

\* Of a line without a directive, no directive test is true.
LEMMA NotDirective ==
  ASSUME NEW l, l.mn = NoTok \/ KnownOpcode(l), NEW d \in Directives
  PROVE  ~Is(l, d)
  BY OptabAssumption DEF KnownOpcode, Is, Directives, NoTok

\* What one iteration of pass 1 can come to.
Outcome(l, eof) == phase = "pass1" /\ (Refusing \/ \E a, b \in Int : Accepting(l, eof, a, b))

\* What passes a line's own test reaches one of the three outcomes.
LEMMA IterationOutcome ==
  ASSUME NEW l, NEW eof, NEW a \in Int, NEW b \in Int, phase = "pass1",
         NextIteration(l, eof, a, b), StoredLine(l), Placed(l, a, b)
  PROVE  Outcome(l, eof)
  <1>1. CASE Refusing
    BY <1>1 DEF Outcome
  <1>2. CASE b <= LOC_MAX /\ LabelAccepted(l) /\ Accept(l, eof, a, b)
    <2>1. Accepting(l, eof, a, b)
      BY <1>2 DEF Accepting
    <2> QED BY <2>1 DEF Outcome
  <1> QED BY <1>1, <1>2, NextIterationCases DEF Refusing

(* The iterations that can accept their line, kind by kind.                  *)
LEMMA StartOutcome ==
  ASSUME lineNo \in Nat, loc \in Int, NEW l \in Lines, NEW eof \in BOOLEAN, Start(l, eof)
  PROVE  Outcome(l, eof)
  <1> DEFINE addr == ToInt(l.operand.val)
  <1>1. addr \in Int
    BY LineFields, ToIntType, Widths
  <1>2. StoredLine(l)
    BY DEF Start, StoredLine, IsInstruction, Is, Directives
  <1>3. CASE lineNo = 1 /\ addr \in 0..LOC_MAX /\ NextIteration(l, eof, addr, addr)
    <2>1. Placed(l, addr, addr)
      BY <1>1, <1>3 DEF Start, Placed
    <2>2. phase = "pass1"
      BY DEF Start, Reading
    <2> HIDE DEF addr
    <2> QED BY <1>1, <1>2, <1>3, <2>1, <2>2, IterationOutcome
  <1>4. CASE Syntax
    BY <1>4 DEF Start, Reading, Syntax, Outcome, Refusing
  <1> QED BY <1>3, <1>4 DEF Start

\* A plain number is read as itself, and so is its triple.
LEMMA PlainNumbers ==
  ASSUME NEW l \in Lines \cup {BlankLine}, Plain(l)
  PROVE  /\ ToInt(l.operand.val) = l.operand.val
         /\ Wrap(3 * l.operand.val) = 3 * l.operand.val
  BY ToIntIdentity, WrapIdentity DEF Plain

\* RESB and RESW move the counter by what they declare.
LEMMA ReserveOutcome ==
  ASSUME lineNo \in Nat, loc \in Int, NEW l \in Lines, NEW eof \in BOOLEAN,
         Resb(l, eof) \/ Resw(l, eof)
  PROVE  Outcome(l, eof)
  <1> DEFINE size == ToInt(l.operand.val)
             next == Wrap(loc + 3 * size)
  <1>1. size \in Int /\ l.operand.val \in Int
    BY LineFields, ToIntType, Widths
  <1>2. next \in Int
    BY <1>1, WrapType, Widths
  <1>3. /\ StoredLine(l) /\ phase = "pass1" /\ ~Is(l, "START") /\ ~Is(l, "END")
        /\ ~IsInstruction(l)
    BY DEF Resb, Resw, Reading, StoredLine, IsInstruction, Is, Directives
  <1>4. CASE Syntax
    BY <1>3, <1>4 DEF Syntax, Outcome, Refusing
  <1>5. CASE Is(l, "RESB") /\ size > 0 /\ NextIteration(l, eof, loc, loc + size)
    <2>1. Plain(l) => loc + size = loc + DeclaredSize(l) /\ DeclaredSize(l) \in Nat
      BY <1>1, <1>5, PlainNumbers, SizeOfLine
    <2>2. Placed(l, loc, loc + size)
      BY <1>1, <1>3, <2>1 DEF Placed
    <2>3. loc + size \in Int /\ NextIteration(l, eof, loc, loc + size)
      BY <1>1, <1>5
    <2> HIDE DEF size
    <2> QED BY <1>3, <2>2, <2>3, IterationOutcome
  <1>6. CASE /\ Is(l, "RESW") /\ size > 0 /\ Wrap(3 * size) <= LOC_MAX
             /\ NextIteration(l, eof, loc, next)
    <2>1. ASSUME Plain(l), loc \in 0..LOC_MAX
          PROVE  next = loc + DeclaredSize(l) /\ DeclaredSize(l) \in Nat
      <3>1. size = l.operand.val /\ 3 * size <= LOC_MAX
        BY <1>6, <2>1, PlainNumbers
      <3>2. DeclaredSize(l) = 3 * size /\ DeclaredSize(l) \in Nat
        BY <1>1, <1>6, <3>1, SizeOfLine
      <3>3. loc + 3 * size \in -INT_HALF..INT_HALF-1
        BY <1>1, <1>6, <2>1, <3>1, Widths
      <3> QED BY <3>2, <3>3, WrapIdentity
    <2>2. Placed(l, loc, next)
      BY <1>2, <1>3, <2>1 DEF Placed
    <2> HIDE DEF next
    <2> QED BY <1>2, <1>3, <1>6, <2>2, IterationOutcome
  <1> QED BY <1>4, <1>5, <1>6 DEF Resb, Resw

\* BYTE moves it by the length of its literal, which fits a record.
LEMMA ByteOutcome ==
  ASSUME lineNo \in Nat, loc \in Int, NEW l \in Lines, NEW eof \in BOOLEAN, Byte(l, eof)
  PROVE  Outcome(l, eof)
  <1>1. phase = "pass1" /\ Is(l, "BYTE") /\ ~Is(l, "START") /\ ~Is(l, "END")
    BY DEF Byte, Reading, Is
  <1>2. CASE Syntax
    BY <1>1, <1>2 DEF Syntax, Outcome, Refusing
  <1>3. CASE /\ l.operand.kind \in {"char", "hex"}
             /\ LiteralLen(l.operand) <= TRECORD_CODE_LIMIT
             /\ NextIteration(l, eof, loc, loc + LiteralLen(l.operand))
    <2>1. StoredLine(l) /\ ~IsInstruction(l)
      BY <1>1, <1>3 DEF StoredLine, IsInstruction, Is, Directives
    <2>2. Placed(l, loc, loc + LiteralLen(l.operand))
      BY <1>1, <1>3, <2>1, LiteralLens, SizeOfLine DEF Placed, Plain
    <2> QED BY <1>1, <1>3, <2>1, <2>2, LiteralLens, IterationOutcome
  <1> QED BY <1>2, <1>3 DEF Byte, LiteralFits

\* WORD moves it by three.
LEMMA WordOutcome ==
  ASSUME lineNo \in Nat, loc \in Int, NEW l \in Lines, NEW eof \in BOOLEAN, Word(l, eof)
  PROVE  Outcome(l, eof)
  <1>1. phase = "pass1" /\ Is(l, "WORD") /\ ~Is(l, "START") /\ ~Is(l, "END")
    BY DEF Word, Reading, Is
  <1>2. StoredLine(l) /\ ~IsInstruction(l)
    BY <1>1 DEF StoredLine, IsInstruction, Is, Directives
  <1>3. Placed(l, loc, loc + 3)
    BY <1>1, <1>2, SizeOfLine DEF Placed
  <1>4. CASE Syntax
    BY <1>1, <1>4 DEF Syntax, Outcome, Refusing
  <1>5. CASE NextIteration(l, eof, loc, loc + 3)
    BY <1>1, <1>2, <1>3, <1>5, IterationOutcome
  <1> QED BY <1>4, <1>5 DEF Word

\* Lines that leave the location counter where it is.
LEMMA EmptyOutcome ==
  ASSUME lineNo \in Nat, loc \in Int, NEW l \in Lines, NEW eof \in BOOLEAN,
         BlankOrLabel(l, eof) \/ Base(l, eof) \/ NoBase(l, eof)
  PROVE  Outcome(l, eof)
  <1>1. phase = "pass1" /\ (l.mn = NoTok \/ Is(l, "BASE") \/ Is(l, "NOBASE"))
    BY DEF BlankOrLabel, Base, NoBase, Reading
  <1>2. ~Is(l, "START") /\ ~Is(l, "END") /\ StoredLine(l) /\ ~IsInstruction(l)
    BY <1>1, NotDirective DEF StoredLine, IsInstruction, Is, Directives
  <1>3. Placed(l, loc, loc)
    BY <1>1, <1>2, SizeOfLine DEF Placed
  <1>4. CASE Syntax
    BY <1>1, <1>4 DEF Syntax, Outcome, Refusing
  <1>5. CASE NextIteration(l, eof, loc, loc)
    BY <1>1, <1>2, <1>3, <1>5, IterationOutcome
  <1> QED BY <1>4, <1>5 DEF BlankOrLabel, Base, NoBase

\* END leaves the counter alone and is marked by -1.
LEMMA EndOutcome ==
  ASSUME lineNo \in Nat, loc \in Int, NEW l \in Lines, NEW eof \in BOOLEAN, End(l, eof)
  PROVE  Outcome(l, eof)
  <1>1. phase = "pass1" /\ Is(l, "END")
    BY DEF End, Reading
  <1>2. StoredLine(l) /\ Placed(l, -1, loc)
    BY <1>1 DEF StoredLine, Placed, IsInstruction, Is, Directives
  <1>3. CASE Syntax
    BY <1>1, <1>3 DEF Syntax, Outcome, Refusing
  <1>4. CASE NextIteration(l, eof, -1, loc)
    BY <1>1, <1>2, <1>4, IterationOutcome
  <1> QED BY <1>3, <1>4 DEF End

\* An instruction is stored only with a known opcode.
LEMMA InstructionOutcome ==
  ASSUME lineNo \in Nat, loc \in Int, NEW l \in Lines, NEW eof \in BOOLEAN,
         Instruction(l, eof)
  PROVE  Outcome(l, eof)
  <1>1. phase = "pass1" /\ IsInstruction(l)
    BY DEF Instruction, Reading, IsInstruction
  <1>2. CASE Syntax
    BY <1>1, <1>2 DEF Syntax, Outcome, Refusing
  <1>3. CASE KnownOpcode(l) /\ NextIteration(l, eof, loc, loc + InstructionLen(l))
    <2>1. \A d \in Directives : ~Is(l, d)
      BY <1>1 DEF IsInstruction
    <2>2. StoredLine(l)
      BY <1>3, <2>1 DEF StoredLine, Directives
    <2>3. InstructionLen(l) \in Nat /\ DeclaredSize(l) = InstructionLen(l)
      BY <1>3, OpcodeFields, SizeOfLine
    <2>4. Placed(l, loc, loc + InstructionLen(l))
      BY <2>1, <2>3 DEF Placed, Directives
    <2> QED BY <1>1, <1>3, <2>2, <2>3, <2>4, IterationOutcome
  <1> QED BY <1>2, <1>3 DEF Instruction

\* What pass 1 can do.
Pass1Effect ==
  \/ phase \in {"pass1", "dummy"} /\ Refusing
  \/ \E l \in Lines, eof \in BOOLEAN, a, b \in Int : Accepting(l, eof, a, b)
  \/ \E l \in Lines : TokenAllocFail(l)
  \/ PushDummy

\* Every step of pass 1 is one of the effects above.
LEMMA Pass1Cases ==
  ASSUME lineNo \in Nat, loc \in Int, Pass1Next PROVE Pass1Effect
  <1>1. ASSUME NEW l \in Lines, NEW eof \in BOOLEAN,
               \/ BlankOrLabel(l, eof) \/ Start(l, eof) \/ Resb(l, eof)
               \/ Resw(l, eof) \/ Byte(l, eof) \/ Word(l, eof) \/ Base(l, eof)
               \/ NoBase(l, eof) \/ End(l, eof) \/ Instruction(l, eof)
        PROVE  Pass1Effect
    <2>1. Outcome(l, eof)
      BY <1>1, StartOutcome, ReserveOutcome, ByteOutcome, WordOutcome, EmptyOutcome,
         EndOutcome, InstructionOutcome
    <2> QED BY <2>1 DEF Outcome, Pass1Effect
  <1>2. ASSUME NEW l \in Lines, TornLine(l) PROVE Pass1Effect
    BY <1>2 DEF TornLine, Syntax, Pass1Effect, Refusing
  <1>3. CASE ReadAllocFail \/ DummyAllocFail
    BY <1>3 DEF ReadAllocFail, DummyAllocFail, Pass1Effect, Refusing
  <1>4. CASE PushDummy
    BY <1>4 DEF Pass1Effect
  <1>5. ASSUME NEW l \in Lines, TokenAllocFail(l) PROVE Pass1Effect
    BY <1>5 DEF Pass1Effect
  <1> QED BY <1>1, <1>2, <1>3, <1>4, <1>5 DEF Pass1Next

-----------------------------------------------------------------------------
Modes == {"n", "i", "x", "b", "p"}

\* An encoding is a Code, whether or not the displacement is negative.
LEMMA EncodingType ==
  ASSUME NEW l \in Lines \cup {BlankLine}, NEW mode \in SUBSET Modes, NEW disp \in Int
  PROVE  Encoding(l, mode, disp) \in Code
  <1>1. l.mn \in STRING /\ l.ext \in BOOLEAN /\ AllOnes \in STRING
    BY LineFields, LiteralsAssumption
  <1>2. Modes \in SUBSET Modes
    OBVIOUS
  <1>3. disp % (2 * (IF l.ext THEN EXT_RANGE ELSE PC_RANGE)) \in Int
    <2> DEFINE m == 2 * (IF l.ext THEN EXT_RANGE ELSE PC_RANGE)
    <2>1. m \in Nat \ {0}
      BY Widths
    <2> HIDE DEF m
    <2>2. disp % m \in 0..m-1
      BY <2>1, ModType, Zenon
    <2>3. disp % m \in Int
      BY <2>1, <2>2
    <2> QED BY <2>3 DEF m
  <1>4. CASE disp >= 0
    BY <1>1, <1>4 DEF Encoding, Code, Modes
  <1>5. CASE ~(disp >= 0)
    <2> DEFINE field == disp % (2 * (IF l.ext THEN EXT_RANGE ELSE PC_RANGE))
    <2>1. Encoding(l, mode, disp) =
            [mn |-> AllOnes, ext |-> TRUE, mode |-> Modes, field |-> field]
      BY <1>5 DEF Encoding, Modes
    <2> HIDE DEF field
    <2>2. [mn |-> AllOnes, ext |-> TRUE, mode |-> Modes, field |-> field] \in Code
      BY <1>1, <1>2, <1>3 DEF Code, Modes, field
    <2> QED BY <2>1, <2>2
  <1> QED BY <1>4, <1>5

\* A target is relative to the program counter, to the base, or to neither.
LEMMA RelativeType ==
  ASSUME NEW target \in Int, NEW pc \in Int
  PROVE  Relative(target, pc) \in {{"p"}, {"b"}, {}}
  BY DEF Relative

\* A masked displacement is not negative.
LEMMA DisplacementType ==
  ASSUME NEW l, NEW d \in Int PROVE Displacement(l, d) \in Nat
  <1>1. 2 * PC_RANGE \in Nat \ {0}
    BY Widths
  <1>2. d % (2 * PC_RANGE) \in 0..(2 * PC_RANGE)-1
    BY <1>1, ModType, Zenon
  <1>3. d % (2 * PC_RANGE) \in Nat
    BY <1>1, <1>2
  <1> QED BY <1>3 DEF Displacement

\* An accepted format 3/4 operand has an encoding.
LEMMA Format34Type ==
  ASSUME symtab \in [DOMAIN symtab -> Int], baseAddr \in Int,
         NEW l \in Lines \cup {BlankLine}, NEW pc \in Int,
         Format34Error(l, pc) = "none"
  PROVE  Format34Code(l, pc) \in Code
  <1> DEFINE o == l.operand
             bits == PrefixMode(o) \cup IndexMode(o)
             target == symtab[o.name]
             rel == Relative(target, pc)
             disp == CASE rel = {"p"} -> Displacement(l, target - pc)
                       [] rel = {"b"} -> Displacement(l, target - baseAddr)
                       [] OTHER       -> target
  <1>1. bits \in SUBSET Modes
    BY DEF PrefixMode, IndexMode, Modes
  <1>2. CASE ~Present(o)
    <2>1. ~IsConstant(o)
      BY <1>2 DEF IsConstant, Present
    <2>2. Format34Code(l, pc) = Encoding(l, {"n", "i"}, 0)
      BY <1>2, <2>1 DEF Format34Code
    <2>3. {"n", "i"} \in SUBSET Modes
      BY DEF Modes
    <2> QED BY <2>2, <2>3, EncodingType
  <1>3. CASE Present(o) /\ IsConstant(o)
    <2>1. ToInt(o.val) \in Int
      BY LineFields, ToIntType, Widths
    <2> HIDE DEF bits
    <2>2. Format34Code(l, pc) = Encoding(l, bits, ToInt(o.val))
      BY <1>3 DEF Format34Code, bits
    <2> QED BY <1>1, <2>1, <2>2, EncodingType
  <1>4. CASE Present(o) /\ ~IsConstant(o)
    <2>1. IsSymbol(o)
      BY <1>4 DEF Format34Error
    <2>2. target \in Int
      BY <2>1 DEF IsSymbol
    <2>3. rel \in {{"p"}, {"b"}, {}}
      BY <2>2, RelativeType
    <2>4. disp \in Int
      <3> HIDE DEF rel
      <3>1. Displacement(l, target - pc) \in Int /\ Displacement(l, target - baseAddr) \in Int
        BY <2>2, DisplacementType
      <3> QED BY <2>2, <2>3, <3>1
    <2>5. bits \cup rel \in SUBSET Modes
      BY <1>1, <2>3 DEF Modes
    <2>6. Format34Code(l, pc) = Encoding(l, bits \cup rel, disp)
      BY <1>4 DEF Format34Code
    <2> HIDE DEF bits, rel, disp
    <2> QED BY <2>4, <2>5, <2>6, EncodingType
  <1> QED BY <1>2, <1>3, <1>4

\* An accepted format 2 operand has an encoding.
LEMMA Format2Type ==
  ASSUME NEW l \in Lines \cup {BlankLine}, Format2Ok(l)
  PROVE  Format2Code(l) \in Code
  <1> DEFINE o == l.operand
             first == IF o.kind = "num" THEN ToInt(o.val) ELSE RegisterNumber[o.name]
             second == IF o.next = NoTok THEN 0 ELSE RegisterNumber[o.next]
  <1>1. \A name : IsRegister(name) => RegisterNumber[name] \in Int
    BY DEF IsRegister, RegisterNumber
  <1>2. ToInt(o.val) \in Int
    BY LineFields, ToIntType, Widths
  <1>3. first \in Int
    BY <1>1, <1>2 DEF Format2Ok, FirstNumber, FirstRegister
  <1>4. second \in Int
    BY <1>1 DEF Format2Ok, SecondItem, FirstRegister, FirstNumber
  <1> HIDE DEF first, second
  <1>5. REG_RANGE * first + second \in Int
    BY <1>3, <1>4, Widths
  <1>6. {} \in SUBSET Modes
    OBVIOUS
  <1>7. Format2Code(l) = Encoding(l, {}, REG_RANGE * first + second)
    BY DEF Format2Code, first, second
  <1> QED BY <1>5, <1>6, <1>7, EncodingType

\* An accepted instruction has an encoding.
LEMMA InstructionType ==
  ASSUME symtab \in [DOMAIN symtab -> Int], baseAddr \in Int,
         NEW l \in Lines \cup {BlankLine}, KnownOpcode(l), NEW pc \in Int,
         InstructionError(l, pc) = "none"
  PROVE  InstructionCode(l, pc) \in Code
  <1>1. Optab[l.mn] \in {1, 2, 3}
    BY OpcodeFields
  <1>2. CASE Optab[l.mn] = 3
    <2>1. Format34Error(l, pc) = "none"
      BY <1>2 DEF InstructionError
    <2> QED BY <1>2, <2>1, Format34Type DEF InstructionCode
  <1>3. CASE Optab[l.mn] = 2
    <2>1. Format2Ok(l)
      BY <1>3 DEF InstructionError
    <2> QED BY <1>3, <2>1, Format2Type DEF InstructionCode
  <1>4. CASE Optab[l.mn] = 1
    <2>1. {} \in SUBSET Modes
      OBVIOUS
    <2> QED BY <1>4, <2>1, EncodingType DEF InstructionCode
  <1> QED BY <1>1, <1>2, <1>3, <1>4

-----------------------------------------------------------------------------
(* The inductive invariant: types, what pass 1 knows of the stored lines,    *)
(* and where the two passes stand in the statements.                         *)
StatementsOK == \A i \in 1..Len(stVec) : StoredLine(stVec[i].src)
PositionOK ==
  /\ phase \in {"dummy", "init2", "pass2", "passed"} => stVec # <<>>
  /\ phase \in {"pass1", "dummy", "init2"} => stIdx = 1
  /\ phase = "pass2" => stIdx <= Len(stVec)
Inv == TypeOK /\ StatementsOK /\ PositionOK /\ TextRecordsFit

AddressVars == {pcAddr, baseAddr, firstInstruction}

\* What pass 2 can do: write a statement without or with code, or stop.
Pass2Effect ==
  \/ InitStates \/ PrintEnd
  \/ phase \in {"init2", "pass2"} /\ \E c \in Errors : Fail2(c)
  \/ phase = "pass2" /\ Undefined /\ UNCHANGED pass2Vars
  \/ /\ phase = "pass2" /\ stIdx < Len(stVec)
     /\ {pcAddr', baseAddr', firstInstruction'} \subseteq Int /\ baseAvailable' \in BOOLEAN
     /\ \/ \E flush \in BOOLEAN : PrintNoCode(flush)
        \/ \E len \in 0..TRECORD_CODE_LIMIT, code \in Code, absolute \in BOOLEAN :
             PrintCode(len, code, absolute)

\* The statement pass 2 looks at, and the one behind it, exist.
LEMMA StatementHere ==
  ASSUME TypeOK, StatementsOK, NEW l, Processing(l)
  PROVE  /\ l \in Lines \cup {BlankLine} /\ StoredLine(l)
         /\ phase = "pass2" /\ stIdx \in Nat \ {0} /\ stIdx < Len(stVec)
         /\ stVec[stIdx] \in Statement /\ stVec[stIdx].loc \in Int
         /\ stVec[stIdx + 1] \in Statement /\ stVec[stIdx + 1].loc \in Int
  <1>1. stVec \in Seq(Statement) /\ stIdx \in Nat \ {0} /\ stIdx < Len(stVec)
    BY DEF TypeOK, Processing
  <1>2. stVec[stIdx] \in Statement /\ stVec[stIdx + 1] \in Statement
    BY <1>1
  <1>3. stVec[stIdx].loc \in Int /\ stVec[stIdx + 1].loc \in Int
    BY <1>2 DEF Statement
  <1>4. StoredLine(l)
    BY <1>1 DEF Processing, StatementsOK
  <1> QED BY <1>1, <1>2, <1>3, <1>4 DEF Processing, StoredLine

\* A defined name has an address.
LEMMA SymbolType ==
  ASSUME TypeOK, NEW o, IsDefinedName(o) PROVE symtab[o.name] \in Int
  BY DEF TypeOK, IsDefinedName

\* A directive without code writes a statement without code, or stops at an
\* undefined symbol.
LEMMA PlainStatementEffect ==
  ASSUME TypeOK, StatementsOK, NEW l,
         \/ BlankStatement(l) \/ ReserveStatement(l) \/ BaseStatement(l)
         \/ NoBaseStatement(l) \/ StartStatement(l) \/ EndStatement(l)
  PROVE  Pass2Effect
  <1>1. Processing(l) /\ phase = "pass2" /\ stIdx < Len(stVec)
    BY StatementHere DEF BlankStatement, ReserveStatement, BaseStatement,
                         NoBaseStatement, StartStatement, EndStatement
  <1>2. CASE BlankStatement(l) \/ ReserveStatement(l) \/ StartStatement(l)
    BY <1>1, <1>2 DEF BlankStatement, ReserveStatement, StartStatement,
                      AddressesSame, TypeOK, Pass2Effect
  <1>3. CASE BaseStatement(l)
    BY <1>1, <1>3, SymbolType DEF BaseStatement, TypeOK, Pass2Effect
  <1>4. CASE NoBaseStatement(l)
    BY <1>1, <1>4 DEF NoBaseStatement, TypeOK, Pass2Effect
  <1>5. CASE EndStatement(l)
    BY <1>1, <1>5, SymbolType DEF EndStatement, TypeOK, Pass2Effect, Errors
  <1> QED BY <1>2, <1>3, <1>4, <1>5

\* BYTE writes code that fits a record, or leaves defined behaviour.
LEMMA ByteStatementEffect ==
  ASSUME TypeOK, StatementsOK, NEW l, ByteStatement(l)
  PROVE  Pass2Effect
  <1> DEFINE len == LiteralCodeLen(l.operand)
             code == [NoCode EXCEPT !.mn = l.mn, !.field = l.operand.val]
  <1>1. Processing(l) /\ phase = "pass2" /\ stIdx < Len(stVec)
    BY StatementHere DEF ByteStatement
  <1>2. StoredLine(l) /\ Is(l, "BYTE") /\ l \in Lines \cup {BlankLine}
    BY <1>1, StatementHere DEF ByteStatement
  <1>3. len \in Nat
    BY <1>2, LiteralLens DEF StoredLine
  <1>4. code \in Code
    BY <1>2, LineFields DEF NoCode, Code
  <1>5. CASE len > TRECORD_CODE_LIMIT
    BY <1>1, <1>5 DEF ByteStatement, Pass2Effect
  <1>6. CASE ~(len > TRECORD_CODE_LIMIT)
    <2>1. PrintCode(len, code, FALSE) /\ AddressesSame
      BY <1>6 DEF ByteStatement
    <2>2. len \in 0..TRECORD_CODE_LIMIT
      BY <1>3, <1>6, RangeAssumption
    <2> HIDE DEF len, code
    <2> QED BY <1>1, <1>4, <2>1, <2>2 DEF AddressesSame, TypeOK, Pass2Effect
  <1> QED BY <1>5, <1>6

\* WORD writes three bytes.
LEMMA WordStatementEffect ==
  ASSUME TypeOK, StatementsOK, NEW l, WordStatement(l)
  PROVE  Pass2Effect
  <1> DEFINE field == ToInt(l.operand.val) % (2 * (WORD_MAX + 1))
             code == [NoCode EXCEPT !.mn = l.mn, !.field = field]
  <1>1. Processing(l) /\ phase = "pass2" /\ stIdx < Len(stVec) /\ l \in Lines \cup {BlankLine}
    BY StatementHere DEF WordStatement
  <1>2. field \in Int
    <2>0. l.operand.val \in Int
      BY <1>1, LineFields
    <2>1. ToInt(l.operand.val) \in Int
      BY <2>0, ToIntType, Widths
    <2>2. 2 * (WORD_MAX + 1) \in Nat \ {0}
      BY Widths
    <2>3. field \in 0..(2 * (WORD_MAX + 1))-1
      BY <2>1, <2>2, ModType, Zenon
    <2> QED BY <2>2, <2>3
  <1>3. code \in Code
    <2> HIDE DEF field
    <2> QED BY <1>1, <1>2, LineFields DEF NoCode, Code
  <1>4. PrintCode(3, code, FALSE) /\ AddressesSame
    BY DEF WordStatement
  <1>5. 3 \in 0..TRECORD_CODE_LIMIT
    BY RangeAssumption
  <1> HIDE DEF code
  <1> QED BY <1>1, <1>3, <1>4, <1>5 DEF AddressesSame, TypeOK, Pass2Effect

\* An instruction writes one to four bytes.
LEMMA InstructionStatementEffect ==
  ASSUME TypeOK, StatementsOK, NEW l, InstructionStatement(l)
  PROVE  Pass2Effect
  <1> DEFINE pc == stVec[stIdx + 1].loc
             code == InstructionCode(l, pc)
             absolute == AbsoluteSymbol(l, pc)
  <1>1. /\ phase = "pass2" /\ stIdx < Len(stVec) /\ pc \in Int
        /\ stVec[stIdx].loc \in Int
        /\ l \in Lines \cup {BlankLine} /\ KnownOpcode(l)
    BY StatementHere DEF InstructionStatement, StoredLine
  <1>2. code \in Code
    BY <1>1, InstructionType DEF InstructionStatement, TypeOK
  <1>a. InstructionLen(l) \in 1..4
    BY <1>1, OpcodeFields
  <1>3. InstructionLen(l) \in 0..TRECORD_CODE_LIMIT
    BY <1>a, RangeAssumption
  <1>4. /\ PrintCode(InstructionLen(l), code, absolute)
        /\ pcAddr' = pc
        /\ firstInstruction' = IF firstInstruction = startAddr THEN stVec[stIdx].loc
                               ELSE firstInstruction
        /\ UNCHANGED <<baseAddr, baseAvailable>>
    BY DEF InstructionStatement, FirstInstruction
  <1>5. {pcAddr', baseAddr', firstInstruction'} \subseteq Int /\ baseAvailable' \in BOOLEAN
    BY <1>1, <1>4 DEF TypeOK
  <1>6. absolute \in BOOLEAN
    BY DEF AbsoluteSymbol
  <1> HIDE DEF code, absolute
  <1> QED BY <1>1, <1>2, <1>3, <1>4, <1>5, <1>6 DEF Pass2Effect

\* Every step of pass 2 is one of the effects above.
LEMMA Pass2Cases ==
  ASSUME TypeOK, StatementsOK, Pass2Next PROVE Pass2Effect
  <1>1. CASE InitStates \/ PrintEnd
    BY <1>1 DEF Pass2Effect
  <1>2. CASE InitStatesAllocFail
    BY <1>2 DEF InitStatesAllocFail, Pass2Effect, Errors
  <1>3. ASSUME NEW l, UndefinedBase(l) PROVE Pass2Effect
    BY <1>3 DEF UndefinedBase, Processing, Pass2Effect, Errors
  <1>4. ASSUME NEW l, RefusedInstruction(l) PROVE Pass2Effect
    <2> DEFINE error == InstructionError(l, stVec[stIdx + 1].loc)
    <2>1. error \in Errors
      BY DEF InstructionError, Format34Error, Errors
    <2>2. Fail2(error) /\ phase = "pass2"
      BY <1>4 DEF RefusedInstruction, Processing
    <2> HIDE DEF error
    <2> QED BY <2>1, <2>2 DEF Pass2Effect
  <1>5. ASSUME NEW l, MRecVecAllocFail(l) PROVE Pass2Effect
    BY <1>5 DEF MRecVecAllocFail, Processing, Pass2Effect
  <1> QED BY <1>1, <1>2, <1>3, <1>4, <1>5, PlainStatementEffect, ByteStatementEffect,
             WordStatementEffect, InstructionStatementEffect DEF Pass2Next

-----------------------------------------------------------------------------
ObjRecords == [kind : {"H", "T", "body", "M", "E"}, addr : Int, len : Int,
               items : Seq(Item)]

\* The invariant holds when assemble() begins.
LEMMA InitInv == Init => Inv
  <1> SUFFICES ASSUME Init PROVE Inv
    OBVIOUS
  <1> USE DEF Init, Pass1Init, Pass2Init
  <1>1. symtab \in [DOMAIN symtab -> Int] /\ DOMAIN symtab \subseteq STRING
    BY DEF EmptySymtab
  <1>2. TypeOK
    <2>1. VEC_INIT \in Nat
      BY Widths
    <2>2. phase \in Phases /\ errCode \in Errors
      BY DEF Phases, Errors
    <2>3. /\ stVec \in Seq(Statement) /\ textRecBuf \in Seq(Item) /\ mRecVec \in Seq(Int)
          /\ lstOut \in Seq(Item) /\ objOut \in Seq(ObjRecords)
      OBVIOUS
    <2>4. {pcAddr, baseAddr, startAddr, firstInstruction} \subseteq Int
      OBVIOUS
    <2>5. /\ lineNo \in Nat /\ loc \in Int /\ rsize \in Nat /\ stIdx \in Nat \ {0}
          /\ objcodeLen \in Nat /\ curTextRecordLen \in Nat
      BY <2>1
    <2>6. baseAvailable \in BOOLEAN
      BY Zenon
    <2> QED BY <1>1, <2>2, <2>3, <2>4, <2>5, <2>6 DEF TypeOK, ObjRecords
  <1>3. StatementsOK /\ PositionOK
    BY DEF StatementsOK, PositionOK
  <1>4. TextRecordsFit
    BY RangeAssumption DEF TextRecordsFit
  <1> QED BY <1>2, <1>3, <1>4 DEF Inv

\* A refused line or undefined behaviour preserves the invariant.
LEMMA RefusingInv ==
  ASSUME Inv, Refusing, UNCHANGED pass2Vars PROVE Inv'
  <1>1. EmptySymtab \in [DOMAIN EmptySymtab -> Int] /\ DOMAIN EmptySymtab \subseteq STRING
    BY DEF EmptySymtab
  <1>2. TypeOK'
    BY <1>1 DEF Inv, TypeOK, Refusing, Reject, Undefined, pass2Vars, Phases, Errors
  <1>3. StatementsOK' /\ PositionOK'
    BY DEF Inv, StatementsOK, PositionOK, Refusing, Reject, Undefined, pass2Vars
  <1>4. TextRecordsFit'
    BY DEF Inv, TextRecordsFit, pass2Vars
  <1> QED BY <1>2, <1>3, <1>4 DEF Inv

\* It holds when a Token cannot be allocated.
LEMMA TokenAllocFailInv ==
  ASSUME Inv, NEW l, TokenAllocFail(l), UNCHANGED pass2Vars PROVE Inv'
  <1>1. EmptySymtab \in [DOMAIN EmptySymtab -> Int] /\ DOMAIN EmptySymtab \subseteq STRING
    BY DEF EmptySymtab
  <1>2. TypeOK'
    BY <1>1 DEF Inv, TypeOK, TokenAllocFail, pass2Vars, Phases
  <1>3. StatementsOK' /\ PositionOK'
    BY DEF Inv, StatementsOK, PositionOK, TokenAllocFail, pass2Vars
  <1>4. TextRecordsFit'
    BY DEF Inv, TextRecordsFit, pass2Vars
  <1> QED BY <1>2, <1>3, <1>4 DEF Inv

\* A pushed statement is the last one, and the others stay.
LEMMA PushType ==
  ASSUME stVec \in Seq(Statement), StatementsOK, rsize \in Nat,
         NEW st \in Statement, StoredLine(st.src), VecPush(st)
  PROVE  /\ stVec' \in Seq(Statement) /\ stVec' # <<>> /\ rsize' \in Nat
         /\ StatementsOK'
  <1>0. VEC_INC \in Nat
    BY Widths
  <1>1. stVec' = Append(stVec, st) /\ rsize' \in Nat
    BY <1>0 DEF VecPush
  <1>2. \A i \in 1..Len(stVec') : stVec'[i] = IF i = Len(stVec) + 1 THEN st ELSE stVec[i]
    BY <1>1
  <1>3. Len(stVec') = Len(stVec) + 1
    BY <1>1
  <1>4. \A i \in 1..Len(stVec') : StoredLine(stVec'[i].src)
    BY <1>2, <1>3 DEF StatementsOK
  <1>5. StatementsOK'
    BY <1>4 DEF StatementsOK, StoredLine
  <1> QED BY <1>1, <1>5

\* It holds when a line is accepted.
LEMMA AcceptInv ==
  ASSUME Inv, NEW l \in Lines, NEW eof \in BOOLEAN, NEW a \in Int, NEW b \in Int,
         Accepting(l, eof, a, b), UNCHANGED pass2Vars
  PROVE  Inv'
  <1> DEFINE st == [src |-> l, lineNo |-> lineNo, loc |-> a]
  <1>1. st \in Statement /\ StoredLine(st.src)
    BY LineFields DEF Accepting, Statement, Inv, TypeOK
  <1>2. VecPush(st)
    BY DEF Accepting, Accept, Ended
  <1>3. stVec' \in Seq(Statement) /\ stVec' # <<>> /\ rsize' \in Nat /\ StatementsOK'
    <2>1. stVec \in Seq(Statement) /\ StatementsOK /\ rsize \in Nat
      BY DEF Inv, TypeOK
    <2> HIDE DEF st
    <2> QED BY <1>1, <1>2, <2>1, PushType
  <1>4. symtab' \in [DOMAIN symtab' -> Int] /\ DOMAIN symtab' \subseteq STRING
    <2>1. l.label \in STRING
      BY LineFields
    <2> QED BY <2>1 DEF Accepting, Accept, Ended, AddSymbol, Inv, TypeOK
  <1>5. phase = "pass1" /\ phase' \in {"dummy", "pass1"} /\ lineNo' \in Nat /\ loc' \in Int /\ errCode' = errCode
    <2>1. lineNo \in Nat
      BY DEF Inv, TypeOK
    <2>2. /\ phase = "pass1" /\ phase' = (IF a = -1 \/ eof THEN "dummy" ELSE "pass1")
          /\ lineNo' = (IF a = -1 THEN lineNo ELSE lineNo + 1)
          /\ loc' = b /\ errCode' = errCode
      BY DEF Accepting, Accept, Ended
    <2> QED BY <2>1, <2>2
  <1> HIDE DEF st
  <1>6. TypeOK'
    BY <1>3, <1>4, <1>5 DEF TypeOK, Inv, pass2Vars, Phases
  <1>7. PositionOK' /\ TextRecordsFit'
    BY <1>3, <1>5 DEF PositionOK, TextRecordsFit, Inv, pass2Vars
  <1> QED BY <1>3, <1>6, <1>7 DEF Inv

\* It holds when the dummy is pushed.
LEMMA PushDummyInv ==
  ASSUME Inv, PushDummy, UNCHANGED pass2Vars PROVE Inv'
  <1> DEFINE st == [src |-> BlankLine, lineNo |-> 0, loc |-> loc]
  <1>1. st \in Statement
    BY LineFields DEF Statement, Inv, TypeOK
  <1>2. StoredLine(st.src)
    BY DEF StoredLine, BlankLine, IsInstruction, Is, NoTok
  <1>3. VecPush(st)
    BY DEF PushDummy
  <1>4. stVec' \in Seq(Statement) /\ stVec' # <<>> /\ rsize' \in Nat /\ StatementsOK'
    <2> HIDE DEF st
    <2> QED BY <1>1, <1>2, <1>3, PushType DEF Inv, TypeOK
  <1>5. TypeOK'
    BY <1>4 DEF TypeOK, Inv, PushDummy, pass2Vars, Phases
  <1>6. PositionOK' /\ TextRecordsFit'
    BY <1>4 DEF PositionOK, TextRecordsFit, Inv, PushDummy, pass2Vars
  <1> QED BY <1>4, <1>5, <1>6 DEF Inv

\* It holds when pass 2 begins.
LEMMA InitStatesInv ==
  ASSUME Inv, InitStates PROVE Inv'
  <1> DEFINE rec == Rec("H", stVec[1].loc, stVec[Len(stVec)].loc - stVec[1].loc, <<>>)
  <1>1. stVec \in Seq(Statement) /\ stVec # <<>>
    BY DEF Inv, TypeOK, PositionOK, InitStates
  <1>2. stVec[1] \in Statement /\ stVec[Len(stVec)] \in Statement
    BY <1>1
  <1>3. stVec[1].loc \in Int /\ stVec[Len(stVec)].loc \in Int
    BY <1>2 DEF Statement
  <1>4. rec \in ObjRecords /\ rec.kind # "body"
    BY <1>3 DEF Rec, ObjRecords
  <1>5. objOut' = <<rec>>
    BY DEF InitStates
  <1> HIDE DEF rec
  <1>6. objOut' \in Seq(ObjRecords)
    BY <1>4, <1>5
  <1>7. TypeOK'
    BY <1>3, <1>6 DEF Inv, TypeOK, InitStates, ObjRecords, Phases
  <1>8. StatementsOK' /\ PositionOK'
    BY <1>1 DEF Inv, StatementsOK, PositionOK, InitStates
  <1>9. TextRecordsFit'
    BY <1>4, <1>5 DEF Inv, TextRecordsFit, InitStates
  <1> QED BY <1>7, <1>8, <1>9 DEF Inv

\* One more record behind the others.
LEMMA AppendObjRecords ==
  ASSUME NEW recs \in Seq(ObjRecords), NEW rec \in ObjRecords
  PROVE  /\ Append(recs, rec) \in Seq(ObjRecords)
         /\ \A i \in 1..Len(Append(recs, rec)) :
              Append(recs, rec)[i] = IF i = Len(recs) + 1 THEN rec ELSE recs[i]
         /\ Len(Append(recs, rec)) = Len(recs) + 1
  OBVIOUS

\* What printTextRec leaves of the delayed record.
LEMMA FlushType ==
  ASSUME TypeOK, TextRecordsFit, NEW flush \in BOOLEAN, NEW len \in Nat
  PROVE  /\ Flushed(flush, len) \in Seq(ObjRecords)
         /\ \A i \in 1..Len(Flushed(flush, len)) :
              Flushed(flush, len)[i].kind = "body" =>
                Flushed(flush, len)[i].len <= TRECORD_CODE_LIMIT
         /\ Kept(flush, len) \in Seq(Item)
         /\ KeptLen(flush, len) \in Nat /\ KeptLen(flush, len) <= TRECORD_CODE_LIMIT
         /\ ~flush /\ len <= TRECORD_CODE_LIMIT => KeptLen(flush, len) + len <= TRECORD_CODE_LIMIT
  <1> DEFINE rec == Rec("body", 0, curTextRecordLen, textRecBuf)
  <1>1. /\ objOut \in Seq(ObjRecords) /\ textRecBuf \in Seq(Item)
        /\ curTextRecordLen \in Nat /\ curTextRecordLen <= TRECORD_CODE_LIMIT
        /\ \A i \in 1..Len(objOut) :
             objOut[i].kind = "body" => objOut[i].len <= TRECORD_CODE_LIMIT
    BY DEF TypeOK, TextRecordsFit, ObjRecords
  <1>2. rec \in ObjRecords /\ rec.len <= TRECORD_CODE_LIMIT
    BY <1>1 DEF Rec, ObjRecords
  <1>3. TRECORD_CODE_LIMIT \in Nat
    BY RangeAssumption
  <1>4. /\ KeptLen(flush, len) \in Nat /\ KeptLen(flush, len) <= TRECORD_CODE_LIMIT
        /\ ~flush /\ len <= TRECORD_CODE_LIMIT => KeptLen(flush, len) + len <= TRECORD_CODE_LIMIT
    BY <1>1, <1>3 DEF KeptLen, EndsRecord
  <1>5. Kept(flush, len) \in Seq(Item)
    BY <1>1 DEF Kept
  <1>6. CASE EndsRecord(flush, len)
    <2>1. Flushed(flush, len) = Append(objOut, rec)
      BY <1>6 DEF Flushed
    <2> HIDE DEF rec
    <2> QED BY <1>1, <1>2, <1>4, <1>5, <2>1, AppendObjRecords
  <1>7. CASE ~EndsRecord(flush, len)
    <2>1. Flushed(flush, len) = objOut
      BY <1>7 DEF Flushed
    <2> QED BY <1>1, <1>4, <1>5, <2>1
  <1> QED BY <1>6, <1>7

\* The invariant holds behind a statement without code.
LEMMA PrintNoCodeInv ==
  ASSUME Inv, phase = "pass2", stIdx < Len(stVec), NEW flush \in BOOLEAN, PrintNoCode(flush),
         {pcAddr', baseAddr', firstInstruction'} \subseteq Int, baseAvailable' \in BOOLEAN
  PROVE  Inv'
  <1> DEFINE item == [loc |-> stVec[stIdx].loc, len |-> 0, code |-> NoCode]
  <1>1. TypeOK /\ TextRecordsFit /\ objcodeLen \in Nat /\ stVec \in Seq(Statement)
        /\ stIdx \in Nat \ {0}
    BY DEF Inv, TypeOK
  <1>2. item \in Item
    <2>1. stVec[stIdx] \in Statement
      BY <1>1
    <2>2. NoCode \in Code
      BY LiteralsAssumption DEF NoCode, Code
    <2> QED BY <2>1, <2>2 DEF Item, Statement
  <1>3. lstOut' = Append(lstOut, item)
    BY DEF PrintNoCode
  <1>4. lstOut' \in Seq(Item)
    <2> HIDE DEF item
    <2> QED BY <1>2, <1>3, <1>1 DEF TypeOK
  <1>5. /\ objOut' \in Seq(ObjRecords) /\ textRecBuf' \in Seq(Item) /\ curTextRecordLen' \in Nat
        /\ TextRecordsFit'
    BY <1>1, FlushType DEF PrintNoCode, TextRecordsFit
  <1>6. stIdx' = stIdx + 1 /\ stIdx' \in Nat \ {0} /\ stIdx' <= Len(stVec)
    BY <1>1 DEF PrintNoCode
  <1>7. TypeOK'
    BY <1>1, <1>4, <1>5, <1>6 DEF TypeOK, PrintNoCode, ObjRecords
  <1>8. StatementsOK' /\ PositionOK'
    BY <1>6 DEF Inv, StatementsOK, PositionOK, PrintNoCode
  <1> QED BY <1>5, <1>7, <1>8 DEF Inv

\* The invariant holds behind a statement with code.
LEMMA PrintCodeInv ==
  ASSUME Inv, phase = "pass2", stIdx < Len(stVec), NEW len \in 0..TRECORD_CODE_LIMIT,
         NEW code \in Code, NEW absolute \in BOOLEAN, PrintCode(len, code, absolute),
         {pcAddr', baseAddr', firstInstruction'} \subseteq Int, baseAvailable' \in BOOLEAN
  PROVE  Inv'
  <1> DEFINE addr == stVec[stIdx].loc
             item == [loc |-> addr, len |-> len, code |-> code]
             rec == Rec("T", addr, 0, <<>>)
             flushed == Flushed(FALSE, len)
             kept == Kept(FALSE, len)
             keptLen == KeptLen(FALSE, len)
  <1>0. TRECORD_CODE_LIMIT \in Nat /\ len \in Nat /\ len <= TRECORD_CODE_LIMIT
    BY RangeAssumption
  <1>1. /\ TypeOK /\ TextRecordsFit /\ stVec \in Seq(Statement) /\ stIdx \in Nat \ {0}
        /\ textRecBuf \in Seq(Item) /\ lstOut \in Seq(Item) /\ mRecVec \in Seq(Int)
        /\ curTextRecordLen \in Nat /\ curTextRecordLen <= TRECORD_CODE_LIMIT
    BY DEF Inv, TypeOK, TextRecordsFit
  <1>2. addr \in Int
    <2>1. stVec[stIdx] \in Statement
      BY <1>1
    <2> QED BY <2>1 DEF Statement
  <1>3. item \in Item /\ rec \in ObjRecords /\ rec.kind # "body"
    BY <1>0, <1>1, <1>2 DEF Item, Rec, ObjRecords
  <1>4. /\ flushed \in Seq(ObjRecords) /\ kept \in Seq(Item)
        /\ \A i \in 1..Len(flushed) :
             flushed[i].kind = "body" => flushed[i].len <= TRECORD_CODE_LIMIT
        /\ keptLen \in Nat /\ keptLen + len <= TRECORD_CODE_LIMIT
    BY <1>0, <1>1, FlushType, Zenon
  <1>5. objOut' = IF keptLen = 0 THEN Append(flushed, rec) ELSE flushed
    BY DEF PrintCode, Opened
  <1>6. lstOut' = Append(lstOut, item) /\ stIdx' = stIdx + 1
    BY DEF PrintCode
  <1>7. \/ /\ mRecVec' = IF absolute THEN Append(mRecVec, addr + 1) ELSE mRecVec
           /\ textRecBuf' = Append(kept, item)
           /\ curTextRecordLen' = keptLen + len
           /\ objcodeLen' = 0
        \/ /\ objcodeLen' = len /\ mRecVec' = mRecVec /\ textRecBuf' = textRecBuf
           /\ curTextRecordLen' = curTextRecordLen
    BY DEF PrintCode
  <1> HIDE DEF item, rec, flushed, kept, keptLen, addr
  <1>8. lstOut' \in Seq(Item) /\ textRecBuf' \in Seq(Item)
    <2>1. lstOut' \in Seq(Item)
      BY <1>1, <1>3, <1>6
    <2>2. Append(kept, item) \in Seq(Item)
      BY <1>3, <1>4
    <2> QED BY <1>1, <1>7, <2>1, <2>2
  <1>9. curTextRecordLen' \in Nat /\ curTextRecordLen' <= TRECORD_CODE_LIMIT /\ objcodeLen' \in Nat
    BY <1>0, <1>1, <1>4, <1>7
  <1>10. mRecVec' \in Seq(Int)
    <2>1. Append(mRecVec, addr + 1) \in Seq(Int)
      BY <1>1, <1>2
    <2> QED BY <1>1, <1>7, <2>1
  <1>11. /\ objOut' \in Seq(ObjRecords)
         /\ \A i \in 1..Len(objOut') :
              objOut'[i].kind = "body" => objOut'[i].len <= TRECORD_CODE_LIMIT
    BY <1>3, <1>4, <1>5, AppendObjRecords
  <1>12. stIdx' \in Nat \ {0} /\ stIdx' <= Len(stVec)
    BY <1>1, <1>6
  <1>13. UNCHANGED <<phase, errCode, lineNo, loc, symtab, stVec, rsize, startAddr>>
    BY DEF PrintCode
  <1>14. TypeOK'
    BY <1>1, <1>8, <1>9, <1>10, <1>11, <1>12, <1>13 DEF TypeOK, ObjRecords
  <1>15. StatementsOK' /\ PositionOK' /\ TextRecordsFit'
    BY <1>9, <1>11, <1>12, <1>13 DEF Inv, StatementsOK, PositionOK, TextRecordsFit
  <1> QED BY <1>14, <1>15 DEF Inv

\* Every element of a concatenation is one of its parts.
LEMMA ConcatElements ==
  ASSUME NEW S, NEW a \in Seq(S), NEW b \in Seq(S), NEW i \in 1..Len(a \o b)
  PROVE  \/ \E j \in 1..Len(a) : (a \o b)[i] = a[j]
         \/ \E j \in 1..Len(b) : (a \o b)[i] = b[j]
  <1>1. Len(a \o b) = Len(a) + Len(b)
    OBVIOUS
  <1>2. CASE i <= Len(a)
    BY <1>1, <1>2
  <1>3. CASE i > Len(a)
    <2>1. i - Len(a) \in 1..Len(b) /\ (a \o b)[i] = b[i - Len(a)]
      BY <1>1, <1>3
    <2> QED BY <2>1
  <1> QED BY <1>2, <1>3

\* It holds at the end record.
LEMMA PrintEndInv ==
  ASSUME Inv, PrintEnd PROVE Inv'
  <1> DEFINE mods == [i \in DOMAIN mRecVec |-> Rec("M", mRecVec[i], 0, <<>>)]
             end == <<Rec("E", pcAddr, 0, <<>>)>>
  <1>1. objOut \in Seq(ObjRecords) /\ mRecVec \in Seq(Int) /\ pcAddr \in Int
    BY DEF Inv, TypeOK, ObjRecords
  <1>2. /\ mods \in Seq(ObjRecords) /\ Len(mods) = Len(mRecVec)
        /\ \A i \in 1..Len(mods) : mods[i].kind # "body"
    <2>1. DOMAIN mRecVec = 1..Len(mRecVec) /\ Len(mRecVec) \in Nat
      BY <1>1
    <2>2. \A i \in 1..Len(mRecVec) : Rec("M", mRecVec[i], 0, <<>>) \in ObjRecords
                                      /\ Rec("M", mRecVec[i], 0, <<>>).kind # "body"
      BY <1>1 DEF Rec, ObjRecords
    <2> QED BY <2>1, <2>2
  <1>3. end \in Seq(ObjRecords) /\ Len(end) = 1 /\ end[1].kind # "body"
    BY <1>1 DEF Rec, ObjRecords
  <1>4. objOut' = objOut \o mods \o end
    BY DEF PrintEnd
  <1> HIDE DEF mods, end
  <1>5. objOut' \in Seq(ObjRecords)
    BY <1>1, <1>2, <1>3, <1>4
  <1>6. \A i \in 1..Len(objOut') :
          objOut'[i].kind = "body" => objOut'[i].len <= TRECORD_CODE_LIMIT
    <2>1. \A i \in 1..Len(objOut) :
            objOut[i].kind = "body" => objOut[i].len <= TRECORD_CODE_LIMIT
      BY DEF Inv, TextRecordsFit
    <2>2. objOut \o mods \in Seq(ObjRecords)
      BY <1>1, <1>2
    <2> DEFINE all == objOut \o mods
               Short(rec) == rec.kind = "body" => rec.len <= TRECORD_CODE_LIMIT
    <2>a. objOut \in Seq(ObjRecords) /\ mods \in Seq(ObjRecords) /\ end \in Seq(ObjRecords)
      BY <1>1, <1>2, <1>3
    <2>b. all \in Seq(ObjRecords)
      BY <2>2
    <2>c. \A i \in 1..Len(all) : \/ \E j \in 1..Len(objOut) : all[i] = objOut[j]
                                \/ \E j \in 1..Len(mods) : all[i] = mods[j]
      BY <2>a, ConcatElements
    <2>d. all \o end = objOut \o mods \o end
      OBVIOUS
    <2> HIDE DEF all
    <2>e. \A i \in 1..Len(all \o end) : \/ \E j \in 1..Len(all) : (all \o end)[i] = all[j]
                                       \/ \E j \in 1..Len(end) : (all \o end)[i] = end[j]
      BY <2>a, <2>b, ConcatElements
    <2>3. \A i \in 1..Len(all) : Short(all[i])
      BY <1>2, <2>1, <2>c
    <2>4. \A i \in 1..Len(all \o end) : Short((all \o end)[i])
      BY <1>3, <2>3, <2>e
    <2> QED BY <1>4, <2>4, <2>d
  <1>7. TypeOK'
    BY <1>5 DEF Inv, TypeOK, PrintEnd, AllPrinted, ObjRecords, Phases
  <1>8. StatementsOK' /\ PositionOK' /\ TextRecordsFit'
    BY <1>6 DEF Inv, StatementsOK, PositionOK, TextRecordsFit, PrintEnd
  <1> QED BY <1>7, <1>8 DEF Inv

\* It holds behind every step of pass 2.
LEMMA Pass2Inv ==
  ASSUME Inv, Pass2Effect PROVE Inv'
  <1>1. CASE InitStates
    BY <1>1, InitStatesInv
  <1>2. CASE PrintEnd
    BY <1>2, PrintEndInv
  <1>3. ASSUME NEW c \in Errors, Fail2(c) PROVE Inv'
    BY <1>3 DEF Fail2, pass2Vars, Inv, TypeOK, StatementsOK, PositionOK, TextRecordsFit, Phases
  <1>4. CASE Undefined /\ UNCHANGED pass2Vars
    BY <1>4, RefusingInv DEF Refusing
  <1>5. CASE /\ phase = "pass2" /\ stIdx < Len(stVec)
             /\ {pcAddr', baseAddr', firstInstruction'} \subseteq Int
             /\ baseAvailable' \in BOOLEAN
             /\ \/ \E flush \in BOOLEAN : PrintNoCode(flush)
                \/ \E len \in 0..TRECORD_CODE_LIMIT, code \in Code, absolute \in BOOLEAN :
                     PrintCode(len, code, absolute)
    BY <1>5, PrintNoCodeInv, PrintCodeInv
  <1> QED BY <1>1, <1>2, <1>3, <1>4, <1>5 DEF Pass2Effect

\* Every step of an assembly preserves the invariant.
LEMMA NextInv == Inv /\ [Next]_vars => Inv'
  <1> SUFFICES ASSUME Inv, [Next]_vars PROVE Inv'
    OBVIOUS
  <1>1. CASE Pass1Next /\ UNCHANGED pass2Vars
    <2>1. Pass1Effect
      BY <1>1, Pass1Cases DEF Inv, TypeOK
    <2> QED BY <1>1, <2>1, RefusingInv, AcceptInv, TokenAllocFailInv, PushDummyInv
            DEF Pass1Effect
  <1>2. CASE Pass2Next
    BY <1>2, Pass2Cases, Pass2Inv DEF Inv
  <1>3. CASE UNCHANGED vars
    BY <1>3 DEF vars, pass1Vars, pass2Vars, Inv, TypeOK, StatementsOK, PositionOK,
                TextRecordsFit, StoredLine
  <1> QED BY <1>1, <1>2, <1>3 DEF Next

\* So it holds all the time.
LEMMA Invariance == Spec => []Inv
  BY InitInv, NextInv, PTL DEF Spec

(* Every variable of the two passes keeps its type: no address is taken from *)
(* a statement or a symbol that is not there.                                *)
THEOREM TypeCorrect == Spec => []TypeOK
  <1>1. Inv => TypeOK
    BY DEF Inv
  <1> QED BY <1>1, Invariance, PTL

(* printTextRec never puts more code into a record than its buffer holds,    *)
(* for every source text, also when allocations fail.                        *)
THEOREM RecordsFit == Spec => []TextRecordsFit
  <1>1. Inv => TextRecordsFit
    BY DEF Inv
  <1> QED BY <1>1, Invariance, PTL

-----------------------------------------------------------------------------
\* The address behind a statement.
EndOf(st) == st.loc + DeclaredSize(st.src)

\* AddressesInRange and AddressesAdvance of a vector of statements.
InRange(vec) ==
  \A i \in 1..Len(vec) :
    IF Is(vec[i].src, "END") THEN vec[i].loc = -1 ELSE vec[i].loc \in 0..LOC_MAX
Advancing(vec) ==
  \A i \in 1..Len(vec) - 1 :
    /\ vec[i].loc # -1 /\ vec[i + 1].loc # -1 => vec[i + 1].loc = EndOf(vec[i])
    /\ vec[i].loc = -1 => i + 1 = Len(vec)
    /\ vec[i].loc = -1 /\ i > 1 => vec[i + 1].loc = EndOf(vec[i - 1])

(* Where the location counter stands: behind the last statement, or before   *)
(* the END that closed the loop of pass 1.                                   *)
CounterBehind(vec, ph, counter) ==
  LET n == Len(vec) IN
  /\ counter \in 0..LOC_MAX
  /\ ph = "pass1" => /\ \A i \in 1..n : vec[i].loc # -1
                     /\ n > 0 => counter = EndOf(vec[n])
  /\ ph = "dummy" => /\ n > 0 /\ \A i \in 1..n-1 : vec[i].loc # -1
                     /\ vec[n].loc # -1 => counter = EndOf(vec[n])
                     /\ vec[n].loc = -1 /\ n > 1 => counter = EndOf(vec[n - 1])

LaidOut(vec, ph, counter) ==
  InRange(vec) /\ Advancing(vec) /\ CounterBehind(vec, ph, counter)

\* One more element behind the others.
LEMMA Extended ==
  ASSUME NEW S, NEW vec \in Seq(S), NEW st \in S
  PROVE  /\ Append(vec, st) \in Seq(S)
         /\ Len(Append(vec, st)) = Len(vec) + 1 /\ Len(vec) \in Nat
         /\ Append(vec, st)[Len(vec) + 1] = st
         /\ \A i \in 1..Len(vec) : Append(vec, st)[i] = vec[i]
  OBVIOUS

\* An accepted statement is laid out behind the others.
LEMMA LayNext ==
  ASSUME NEW vec \in Seq(Statement), NEW counter \in Int, NEW st \in Statement, st.src \in Lines \cup {BlankLine},
         NEW ph \in {"pass1", "dummy"}, NEW b \in Int,
         LaidOut(vec, "pass1", counter), b <= LOC_MAX,
         st.loc = -1 => ph = "dummy",
         \/ Is(st.src, "START") /\ vec = <<>> /\ st.loc = b /\ b \in 0..LOC_MAX
         \/ Is(st.src, "END") /\ st.loc = -1 /\ b = counter
         \/ /\ ~Is(st.src, "START") /\ ~Is(st.src, "END") /\ st.loc = counter
            /\ b = counter + DeclaredSize(st.src) /\ DeclaredSize(st.src) \in Nat
  PROVE  LaidOut(Append(vec, st), ph, b)
  <1> DEFINE new == Append(vec, st)
             n == Len(vec)
  <1>1. /\ n \in Nat /\ Len(new) = n + 1 /\ new[n + 1] = st
        /\ \A i \in 1..n : new[i] = vec[i]
    BY Extended
  <1>2. /\ LOC_MAX \in Nat /\ counter \in 0..LOC_MAX
        /\ \A i \in 1..n : vec[i].loc # -1
        /\ n > 0 => counter = EndOf(vec[n])
    BY Widths DEF LaidOut, CounterBehind
  <1>3. Is(st.src, "START") => ~Is(st.src, "END") /\ DeclaredSize(st.src) = 0
    BY SizeOfLine DEF Is
  <1>4. b \in 0..LOC_MAX
    BY <1>2
  <1>5. ~Is(st.src, "END") => st.loc \in 0..LOC_MAX /\ b = EndOf(st)
    BY <1>2, <1>3 DEF EndOf
  <1>6. Is(st.src, "END") => st.loc = -1 /\ b = counter
    BY <1>3
  <1>7. n > 0 => ~Is(st.src, "START")
    BY <1>3
  <1>8. st.loc # -1 <=> ~Is(st.src, "END")
    BY <1>5, <1>6, <1>2
  <1> HIDE DEF new
  <1>9. InRange(new)
    <2>1. \A i \in 1..n : IF Is(new[i].src, "END") THEN new[i].loc = -1
                                                  ELSE new[i].loc \in 0..LOC_MAX
      BY <1>1 DEF InRange, LaidOut
    <2> QED BY <1>1, <1>5, <1>6, <2>1 DEF InRange
  <1>10. Advancing(new)
    <2> SUFFICES ASSUME NEW i \in 1..n
                 PROVE  /\ new[i].loc # -1
                        /\ new[i + 1].loc # -1 => new[i + 1].loc = EndOf(new[i])
      BY <1>1 DEF Advancing
    <2>1. new[i] = vec[i] /\ vec[i].loc # -1
      BY <1>1, <1>2
    <2>2. CASE i < n
      <3>1. new[i + 1] = vec[i + 1] /\ vec[i + 1].loc # -1
        BY <1>1, <1>2, <2>2
      <3> QED BY <1>1, <2>1, <2>2, <3>1 DEF Advancing, LaidOut
    <2>3. CASE i = n
      BY <1>1, <1>2, <1>7, <1>8, <2>1, <2>3
    <2> QED BY <1>1, <2>2, <2>3
  <1>11. CounterBehind(new, ph, b)
    <2>1. \A i \in 1..n : new[i].loc # -1
      BY <1>1, <1>2
    <2>2. st.loc # -1 => b = EndOf(new[n + 1])
      BY <1>1, <1>5, <1>8
    <2>3. st.loc = -1 /\ n > 0 => b = EndOf(new[n])
      BY <1>1, <1>2, <1>6, <1>8
    <2>4. ph = "pass1" => \A i \in 1..n+1 : new[i].loc # -1
      BY <1>1, <2>1
    <2> QED BY <1>1, <1>4, <2>1, <2>2, <2>3, <2>4 DEF CounterBehind
  <1> QED BY <1>9, <1>10, <1>11 DEF LaidOut, new

\* The closing dummy is laid out at the end of the program.
LEMMA LayDummy ==
  ASSUME NEW vec \in Seq(Statement), NEW counter \in Int, NEW st \in Statement,
         LaidOut(vec, "dummy", counter), st.loc = counter, ~Is(st.src, "END"),
         NEW ph, ph \notin {"pass1", "dummy"}
  PROVE  LaidOut(Append(vec, st), ph, counter)
  <1> DEFINE new == Append(vec, st)
             n == Len(vec)
  <1>1. /\ n \in Nat /\ Len(new) = n + 1 /\ new[n + 1] = st
        /\ \A i \in 1..n : new[i] = vec[i]
    BY Extended
  <1>2. /\ counter \in 0..LOC_MAX /\ LOC_MAX \in Nat
        /\ n > 0 /\ \A i \in 1..n-1 : vec[i].loc # -1
        /\ vec[n].loc # -1 => counter = EndOf(vec[n])
        /\ vec[n].loc = -1 /\ n > 1 => counter = EndOf(vec[n - 1])
    BY Widths DEF LaidOut, CounterBehind
  <1> HIDE DEF new
  <1>3. InRange(new)
    <2>1. \A i \in 1..n : IF Is(new[i].src, "END") THEN new[i].loc = -1
                                                  ELSE new[i].loc \in 0..LOC_MAX
      BY <1>1 DEF InRange, LaidOut
    <2> QED BY <1>1, <1>2, <2>1 DEF InRange
  <1>4. Advancing(new)
    <2> SUFFICES ASSUME NEW i \in 1..n
                 PROVE  /\ new[i].loc # -1 /\ new[i + 1].loc # -1 =>
                             new[i + 1].loc = EndOf(new[i])
                        /\ new[i].loc = -1 => i = n
                        /\ new[i].loc = -1 /\ i > 1 => new[i + 1].loc = EndOf(new[i - 1])
      BY <1>1, SMTT(30) DEF Advancing
    <2>1. new[i] = vec[i] /\ (i > 1 => new[i - 1] = vec[i - 1])
      BY <1>1
    <2>2. CASE i < n
      <3>1. new[i + 1] = vec[i + 1] /\ vec[i].loc # -1
        BY <1>1, <1>2, <2>2
      <3> QED BY <1>1, <2>1, <2>2, <3>1 DEF Advancing, LaidOut
    <2>3. CASE i = n
      BY <1>1, <1>2, <2>1, <2>3
    <2> QED BY <1>1, <2>2, <2>3
  <1>5. CounterBehind(new, ph, counter)
    BY <1>2 DEF CounterBehind
  <1> QED BY <1>3, <1>4, <1>5 DEF LaidOut, new

-----------------------------------------------------------------------------
(* The strengthening: of a plain program every statement so far is laid out, *)
(* and pass 1 counts its lines, so that START can only be the first.         *)
AddressInv ==
  /\ phase = "pass1" => lineNo = Len(stVec) + 1
  /\ Assembling /\ PlainProgram => LaidOut(stVec, phase, loc)

\* A line is accepted.
LEMMA AcceptAddresses ==
  ASSUME Inv, AddressInv, NEW l \in Lines, NEW eof \in BOOLEAN, NEW a \in Int, NEW b \in Int,
         Accepting(l, eof, a, b)
  PROVE  AddressInv'
  <1> DEFINE st == [src |-> l, lineNo |-> lineNo, loc |-> a]
  <1>1. /\ stVec \in Seq(Statement) /\ st \in Statement /\ phase = "pass1"
        /\ stVec' = Append(stVec, st) /\ loc \in Int /\ lineNo = Len(stVec) + 1
        /\ Placed(l, a, b) /\ b <= LOC_MAX /\ loc' = b /\ lineNo \in Nat
        /\ phase' = (IF a = -1 \/ eof THEN "dummy" ELSE "pass1")
        /\ lineNo' = IF a = -1 THEN lineNo ELSE lineNo + 1
    BY LineFields DEF Accepting, Accept, Ended, VecPush, Statement, Inv, TypeOK, AddressInv
  <1>2. phase' = "pass1" => lineNo' = Len(stVec') + 1
    BY <1>1
  <1>3. ASSUME \A i \in 1..Len(stVec') : Plain(stVec'[i].src)
        PROVE  LaidOut(stVec', phase', loc')
    <2>1. /\ \A i \in 1..Len(stVec) : Plain(stVec[i].src)
          /\ Plain(l)
      <3>1. /\ Len(stVec') = Len(stVec) + 1 /\ stVec'[Len(stVec) + 1] = st /\ Len(stVec) \in Nat
            /\ \A i \in 1..Len(stVec) : stVec'[i] = stVec[i]
        BY <1>1, Extended
      <3> QED BY <1>3, <3>1
    <2>2. LaidOut(stVec, "pass1", loc)
      BY <1>1, <2>1 DEF AddressInv, Assembling, PlainProgram
    <2>3. loc \in 0..LOC_MAX
      BY <2>2 DEF LaidOut, CounterBehind
    <2>4. \/ Is(l, "START") /\ stVec = <<>> /\ a = b /\ b \in 0..LOC_MAX
          \/ Is(l, "END") /\ a = -1 /\ b = loc
          \/ /\ ~Is(l, "START") /\ ~Is(l, "END") /\ a = loc
             /\ b = loc + DeclaredSize(l) /\ DeclaredSize(l) \in Nat
      BY <1>1, <2>1, <2>3 DEF Placed
    <2>5. phase' \in {"pass1", "dummy"} /\ (a = -1 => phase' = "dummy")
      BY <1>1
    <2> QED BY <1>1, <2>2, <2>4, <2>5, LayNext
  <1> QED BY <1>2, <1>3 DEF AddressInv, PlainProgram, Plain

\* EndOf the loop of pass 1 the layout no longer depends on the phase.
LEMMA LaidOutLater ==
  ASSUME NEW vec, NEW counter, NEW p, NEW q, LaidOut(vec, p, counter),
         q \notin {"pass1", "dummy"}
  PROVE  LaidOut(vec, q, counter)
  BY DEF LaidOut, CounterBehind

\* Steps that leave the statements alone and the loop of pass 1.
LEMMA LeaveAddresses ==
  ASSUME AddressInv, UNCHANGED <<stVec, loc>>, phase' \notin {"pass1", "dummy"},
         Assembling' => Assembling
  PROVE  AddressInv'
  <1>1. ASSUME Assembling', \A i \in 1..Len(stVec') : Plain(stVec'[i].src)
        PROVE  LaidOut(stVec', phase', loc')
    <2>1. LaidOut(stVec, phase, loc)
      BY <1>1 DEF AddressInv, PlainProgram
    <2> QED BY <2>1, LaidOutLater
  <1> QED BY <1>1 DEF AddressInv, PlainProgram, Plain

\* The dummy is pushed.
LEMMA PushDummyAddresses ==
  ASSUME Inv, AddressInv, PushDummy PROVE AddressInv'
  <1> DEFINE st == [src |-> BlankLine, lineNo |-> 0, loc |-> loc]
  <1>1. /\ stVec \in Seq(Statement) /\ st \in Statement /\ loc \in Int
        /\ stVec' = Append(stVec, st) /\ loc' = loc
        /\ phase = "dummy" /\ phase' = "init2" /\ ~Is(st.src, "END")
    BY LineFields DEF PushDummy, VecPush, Statement, Inv, TypeOK, BlankLine, Is, NoTok
  <1>2. ASSUME \A i \in 1..Len(stVec') : Plain(stVec'[i].src)
        PROVE  LaidOut(stVec', phase', loc')
    <2>1. \A i \in 1..Len(stVec) : Plain(stVec[i].src)
      <3>1. /\ Len(stVec') = Len(stVec) + 1 /\ Len(stVec) \in Nat
            /\ \A i \in 1..Len(stVec) : stVec'[i] = stVec[i]
        BY <1>1, Extended
      <3> QED BY <1>2, <3>1
    <2>2. LaidOut(stVec, "dummy", loc)
      BY <1>1, <2>1 DEF AddressInv, Assembling, PlainProgram
    <2> HIDE DEF st
    <2>3. st.loc = loc
      BY DEF st
    <2> QED BY <1>1, <2>2, <2>3, LayDummy
  <1> QED BY <1>1, <1>2 DEF AddressInv, PlainProgram, Plain

\* Every step preserves the layout.
LEMMA AddressStep == Inv /\ AddressInv /\ [Next]_vars => AddressInv'
  <1> SUFFICES ASSUME Inv, AddressInv, [Next]_vars PROVE AddressInv'
    OBVIOUS
  <1>1. CASE Pass1Next
    <2>1. Pass1Effect
      BY <1>1, Pass1Cases DEF Inv, TypeOK
    <2>2. CASE phase \in {"pass1", "dummy"} /\ Refusing
      BY <2>2, LeaveAddresses DEF Refusing, Reject, Undefined, Assembling
    <2>3. ASSUME NEW l \in Lines, TokenAllocFail(l) PROVE AddressInv'
      BY <2>3, LeaveAddresses DEF TokenAllocFail, Assembling
    <2> QED BY <2>1, <2>2, <2>3, AcceptAddresses, PushDummyAddresses DEF Pass1Effect
  <1>2. CASE Pass2Next
    <2>1. Pass2Effect
      BY <1>2, Pass2Cases DEF Inv
    <2>2. /\ UNCHANGED <<stVec, loc>> /\ phase \in {"init2", "pass2"}
          /\ phase' \in {"pass2", "passed", "failed", "undefined"}
      BY <2>1 DEF Pass2Effect, InitStates, PrintEnd, Fail2, Undefined, PrintNoCode, PrintCode
    <2> QED BY <2>2, LeaveAddresses DEF Assembling
  <1>3. CASE UNCHANGED vars
    BY <1>3 DEF vars, pass1Vars, AddressInv, Assembling, PlainProgram, Plain
  <1> QED BY <1>1, <1>2, <1>3 DEF Next

\* It holds before the first line.
LEMMA AddressInit == Init => AddressInv
  BY Widths DEF Init, Pass1Init, AddressInv, LaidOut, InRange, Advancing, CounterBehind

\* So it holds all the time.
LEMMA AddressInvariance == Spec => []AddressInv
  BY Invariance, AddressInit, AddressStep, PTL DEF Spec

(* Pass 1 keeps every address of a plain program in the address space, and   *)
(* marks exactly the ENDs by -1.                                             *)
THEOREM AddressesStayInRange == Spec => []AddressesInRange
  <1>1. AddressInv => AddressesInRange
    BY DEF AddressInv, AddressesInRange, LaidOut, InRange, Ends
  <1> QED BY <1>1, AddressInvariance, PTL

(* Consecutive statements of a plain program lie as far apart as the source  *)
(* declares: the size pass 1 adds is the size the line has.                  *)
THEOREM AddressesAdvanceBySize == Spec => []AddressesAdvance
  <1>1. AddressInv => AddressesAdvance
    BY DEF AddressInv, AddressesAdvance, LaidOut, Advancing, EndOf, Ends
  <1> QED BY <1>1, AddressInvariance, PTL

-----------------------------------------------------------------------------
Labelled(vec) == {i \in 1..Len(vec) : DefinesSymbol(vec[i].src)}

\* The symbol table is that of the statements.
TableOf(table, vec) ==
  /\ DOMAIN table = {vec[i].src.label : i \in Labelled(vec)}
  /\ \A i \in Labelled(vec) : table[vec[i].src.label] = vec[i].loc

(* The strengthening: while there is a table to speak of it is that of the   *)
(* statements, and whoever leaves pass 1 has a dummy or an empty table.      *)
SymbolInv ==
  /\ Assembling /\ ~AllocMayFail => TableOf(symtab, stVec)
  /\ phase \in {"init2", "pass2", "passed", "failed"} => HasDummy \/ symtab = EmptySymtab

\* A statement that defines no symbol, or a new one, is added.
LEMMA TableExtended ==
  ASSUME NEW vec \in Seq(Statement), NEW st \in Statement, NEW table, NEW new,
         TableOf(table, vec),
         DefinesSymbol(st.src) =>
           /\ st.src.label \notin DOMAIN table
           /\ DOMAIN new = DOMAIN table \cup {st.src.label}
           /\ \A n \in DOMAIN table : new[n] = table[n]
           /\ new[st.src.label] = st.loc,
         ~DefinesSymbol(st.src) => new = table
  PROVE  TableOf(new, Append(vec, st))
  <1> DEFINE longer == Append(vec, st)
             n == Len(vec)
  <1>1. /\ n \in Nat /\ Len(longer) = n + 1 /\ longer[n + 1] = st
        /\ \A i \in 1..n : longer[i] = vec[i]
    BY Extended
  <1> HIDE DEF longer
  <1>2. ASSUME DefinesSymbol(st.src) PROVE TableOf(new, longer)
    <2>1. Labelled(longer) = Labelled(vec) \cup {n + 1} /\ n + 1 \notin Labelled(vec)
      BY <1>1, <1>2 DEF Labelled
    <2>2. \A i \in Labelled(vec) : longer[i] = vec[i] /\ vec[i].src.label \in DOMAIN table
      BY <1>1 DEF Labelled, TableOf
    <2>3. {longer[i].src.label : i \in Labelled(longer)}
            = {vec[i].src.label : i \in Labelled(vec)} \cup {st.src.label}
      BY <1>1, <2>1, <2>2
    <2>4. DOMAIN new = {longer[i].src.label : i \in Labelled(longer)}
      BY <1>2, <2>3 DEF TableOf
    <2>5. ASSUME NEW i \in Labelled(longer)
          PROVE  new[longer[i].src.label] = longer[i].loc
      <3>1. CASE i = n + 1
        BY <1>1, <1>2, <3>1
      <3>2. CASE i \in Labelled(vec)
        <4>1. table[vec[i].src.label] = vec[i].loc
          BY <3>2 DEF TableOf
        <4> QED BY <1>2, <2>2, <3>2, <4>1
      <3> QED BY <2>1, <3>1, <3>2
    <2> QED BY <2>4, <2>5 DEF TableOf
  <1>3. ASSUME ~DefinesSymbol(st.src) PROVE TableOf(new, longer)
    <2>1. Labelled(longer) = Labelled(vec)
      BY <1>1, <1>3 DEF Labelled
    <2>2. \A i \in Labelled(vec) : longer[i] = vec[i]
      BY <1>1 DEF Labelled
    <2>3. {longer[i].src.label : i \in Labelled(longer)}
            = {vec[i].src.label : i \in Labelled(vec)}
      BY <2>1, <2>2
    <2> QED BY <1>3, <2>1, <2>2, <2>3 DEF TableOf
  <1> QED BY <1>2, <1>3 DEF longer

\* A line is accepted: its label is not in the table yet.
LEMMA AcceptSymbol ==
  ASSUME Inv, SymbolInv, NEW l \in Lines, NEW eof \in BOOLEAN, NEW a \in Int, NEW b \in Int,
         Accepting(l, eof, a, b)
  PROVE  SymbolInv'
  <1> DEFINE st == [src |-> l, lineNo |-> lineNo, loc |-> a]
  <1>1. /\ stVec \in Seq(Statement) /\ st \in Statement /\ phase = "pass1"
        /\ stVec' = Append(stVec, st) /\ phase' \in {"dummy", "pass1"}
        /\ symtab' = IF DefinesSymbol(l) THEN AddSymbol(l.label, a) ELSE symtab
        /\ DefinesSymbol(l) => l.label \notin DOMAIN symtab
    BY LineFields DEF Accepting, Accept, Ended, VecPush, Statement, Inv, TypeOK, LabelAccepted
  <1>2. ASSUME ~AllocMayFail PROVE TableOf(symtab', stVec')
    <2>1. TableOf(symtab, stVec)
      BY <1>1, <1>2 DEF SymbolInv, Assembling
    <2>2. DefinesSymbol(l) =>
            /\ DOMAIN symtab' = DOMAIN symtab \cup {l.label}
            /\ \A n \in DOMAIN symtab : symtab'[n] = symtab[n]
            /\ symtab'[l.label] = a
      BY <1>1 DEF AddSymbol
    <2>3. st.src = l /\ st.loc = a
      OBVIOUS
    <2> HIDE DEF st
    <2> QED BY <1>1, <2>1, <2>2, <2>3, TableExtended
  <1> QED BY <1>1, <1>2 DEF SymbolInv, TableOf, Labelled, DefinesSymbol, HasDummy

\* The dummy is pushed: it has no label.
LEMMA PushDummySymbols ==
  ASSUME Inv, SymbolInv, PushDummy PROVE SymbolInv'
  <1> DEFINE st == [src |-> BlankLine, lineNo |-> 0, loc |-> loc]
  <1>1. /\ stVec \in Seq(Statement) /\ st \in Statement /\ phase = "dummy"
        /\ stVec' = Append(stVec, st) /\ phase' = "init2" /\ symtab' = symtab
    BY LineFields DEF PushDummy, VecPush, Statement, Inv, TypeOK
  <1>2. ~DefinesSymbol(st.src) /\ st.lineNo = 0
    BY DEF BlankLine, DefinesSymbol
  <1> HIDE DEF st
  <1>3. ASSUME ~AllocMayFail PROVE TableOf(symtab', stVec')
    <2>1. TableOf(symtab, stVec)
      BY <1>1, <1>3 DEF SymbolInv, Assembling
    <2> QED BY <1>1, <1>2, <2>1, TableExtended
  <1>4. HasDummy'
    <2>1. /\ Len(stVec') = Len(stVec) + 1 /\ stVec'[Len(stVec) + 1] = st /\ Len(stVec) \in Nat
      BY <1>1, Extended
    <2>2. stVec' # <<>>
      BY <2>1
    <2> QED BY <1>2, <2>1, <2>2 DEF HasDummy
  <1> QED BY <1>1, <1>3, <1>4 DEF SymbolInv, TableOf, Labelled, DefinesSymbol

\* Every step preserves it.
LEMMA SymbolStep == Inv /\ SymbolInv /\ [Next]_vars => SymbolInv'
  <1> SUFFICES ASSUME Inv, SymbolInv, [Next]_vars PROVE SymbolInv'
    OBVIOUS
  <1>1. CASE Pass1Next
    <2>1. Pass1Effect
      BY <1>1, Pass1Cases DEF Inv, TypeOK
    <2>2. CASE phase \in {"pass1", "dummy"} /\ Refusing
      BY <2>2 DEF Refusing, Reject, Undefined, Assembling, SymbolInv, EmptySymtab
    <2>3. ASSUME NEW l \in Lines, TokenAllocFail(l) PROVE SymbolInv'
      BY <2>3 DEF TokenAllocFail, SymbolInv, EmptySymtab
    <2> QED BY <2>1, <2>2, <2>3, AcceptSymbol, PushDummySymbols DEF Pass1Effect
  <1>2. CASE Pass2Next
    <2>1. Pass2Effect
      BY <1>2, Pass2Cases DEF Inv
    <2>2. /\ UNCHANGED <<stVec, symtab>> /\ phase \in {"init2", "pass2"}
          /\ phase' \in {"pass2", "passed", "failed", "undefined"}
      BY <2>1 DEF Pass2Effect, InitStates, PrintEnd, Fail2, Undefined, PrintNoCode, PrintCode
    <2> QED BY <2>2 DEF Assembling, SymbolInv, TableOf, Labelled, DefinesSymbol, HasDummy,
                        EmptySymtab
  <1>3. CASE UNCHANGED vars
    BY <1>3 DEF vars, pass1Vars, SymbolInv, Assembling, TableOf, Labelled, DefinesSymbol,
                HasDummy, EmptySymtab
  <1> QED BY <1>1, <1>2, <1>3 DEF Next

\* It holds before the first line.
LEMMA SymbolInit == Init => SymbolInv
  BY DEF Init, Pass1Init, SymbolInv, TableOf, Labelled, EmptySymtab

\* So it holds all the time.
LEMMA SymbolInvariance == Spec => []SymbolInv
  BY Invariance, SymbolInit, SymbolStep, PTL DEF Spec

(* When memory does not run out, the symbol table holds exactly the labels   *)
(* of the accepted statements, each at the address of its one statement.     *)
THEOREM SymbolsKeepTheirStatements ==
  ASSUME ~AllocMayFail PROVE Spec => []SymbolsAreStatementAddresses
  <1>1. SymbolInv => SymbolsAreStatementAddresses
    BY DEF SymbolInv, SymbolsAreStatementAddresses, TableOf, Labelled
  <1> QED BY <1>1, SymbolInvariance, PTL

(* A pass 1 that fails, and an assembly that goes on without a dummy         *)
(* statement, leaves no symbol behind, whatever allocation failed.           *)
THEOREM FailureEmptiesTable == Spec => []FailedPass1LeavesNoSymbols
  <1>1. SymbolInv => FailedPass1LeavesNoSymbols
    BY DEF SymbolInv, FailedPass1LeavesNoSymbols
  <1> QED BY <1>1, SymbolInvariance, PTL
==============================================================================
