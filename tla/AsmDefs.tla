------------------------------- MODULE AsmDefs -------------------------------
(* Values shared by the two passes of the SIC/XE assembler: what a line of   *)
(* assembly source is once it has been split into tokens, how numbers behave *)
(* when strtol's result is stored in an int, and what the opcode table says  *)
(* of a mnemonic.  Text is abstracted to the distinctions the passes make.   *)
EXTENDS Integers, Sequences, FiniteSets

CONSTANTS
  LOC_MAX,            \* highest address (0xffff)
  TRECORD_CODE_LIMIT, \* bytes of code in a text record (30)
  WORD_MAX,           \* largest WORD constant (2^23 - 1)
  PC_RANGE,           \* half the range of a 12-bit displacement (1<<11)
  EXT_RANGE,          \* half the range of a 20-bit field (1<<19)
  REG_RANGE,          \* values of a 4-bit register field (1<<4)
  INT_HALF,           \* 2^31: an int holds -INT_HALF .. INT_HALF-1
  LONG_HALF,          \* 2^63: strtol saturates at -LONG_HALF, LONG_HALF-1
  VEC_INIT,           \* first capacity of the statement vector (32)
  MREC_INIT,          \* first capacity of the modification record vector (4)
  VEC_INC,            \* what a full vector grows by (32)
  Optab,              \* opcode table: mnemonic -> format 1, 2 or 3 (3 = 3/4)
  BadNames,           \* labels identifierMatcher refuses
  LongNames,          \* labels longer than PROGRAM_NAME_LIMIT
  Lines,              \* the source lines the environment may supply
  MaxLines,           \* bound: lines of one source file
  ReadMayFail,        \* whether reading the source may fail, from a line on
  AllocMayFail        \* whether malloc and realloc may return NULL

ASSUME RangeAssumption ==
  /\ {LOC_MAX, WORD_MAX, PC_RANGE, EXT_RANGE, REG_RANGE, INT_HALF, LONG_HALF,
      VEC_INIT, MREC_INIT, VEC_INC, MaxLines} \subseteq Nat \ {0}
  /\ TRECORD_CODE_LIMIT \in Nat /\ TRECORD_CODE_LIMIT >= 4
  /\ LONG_HALF >= INT_HALF /\ INT_HALF > 2 * LOC_MAX
  /\ AllocMayFail \in BOOLEAN /\ ReadMayFail \in BOOLEAN

\* A token that is not there (an empty token never exists).
NoTok == ""
\* What follows the first comma when it is not one single item.
Garbled == "A,B"
\* Stands for opcode and address bits that are all set.
AllOnes == "ALL_ONES"

\* True of any string literal; the provers have it of none.
ASSUME LiteralsAssumption == {NoTok, AllOnes} \subseteq STRING

Directives == {"START", "END", "BYTE", "WORD", "RESB", "RESW", "BASE", "NOBASE"}

ASSUME OptabAssumption ==
  /\ DOMAIN Optab \subseteq STRING \ (Directives \cup {NoTok, AllOnes})
  /\ \A mn \in DOMAIN Optab : Optab[mn] \in {1, 2, 3}

(* An operand token.  "num": digits with value val (a leading minus when     *)
(* negative); "name": an identifier; "char", "hex": a literal C'..' or X'..' *)
(* of val characters that its matcher accepts, followed by tail more         *)
(* characters ("C'A' , X" is one token); "bad": a token no statement takes.  *)
(* pre is the addressing prefix, next the item after the first comma.        *)
OperandKinds == {"none", "num", "name", "char", "hex", "bad"}
AddressingPrefixes == {NoTok, "#", "@"}
Operand == [kind : OperandKinds, pre : AddressingPrefixes, val : Int,
            name : STRING, next : STRING, tail : Nat]

NoOperand == [kind |-> "none", pre |-> NoTok, val |-> 0, name |-> NoTok,
              next |-> NoTok, tail |-> 0]

\* torn: the line ends inside a quotation or after a comma, so that
\* getTokenSize refuses it.
Line == [label : STRING, ext : BOOLEAN, mn : STRING, operand : Operand,
         torn : BOOLEAN]

\* An empty line, or a comment.
BlankLine == [label |-> NoTok, ext |-> FALSE, mn |-> NoTok,
              operand |-> NoOperand, torn |-> FALSE]

ASSUME LinesAssumption ==
  /\ Lines \subseteq Line
  /\ \A l \in Lines : /\ l.operand.kind \in {"char", "hex"} => l.operand.val > 0
                      /\ l.mn = NoTok => ~l.ext
                      /\ l.operand.kind = "none" => l.operand = NoOperand

Statement == [src : Line, lineNo : Nat, loc : Int]

-----------------------------------------------------------------------------
\* strtol saturates at the range of a long; storing it in an int keeps the
\* low bits.
Clamp(v) == IF v >= LONG_HALF THEN LONG_HALF - 1
            ELSE IF v < -LONG_HALF THEN -LONG_HALF ELSE v
Wrap(v) == ((v + INT_HALF) % (2 * INT_HALF)) - INT_HALF
ToInt(v) == Wrap(Clamp(v))

Present(o) == o.kind # "none"

\* The whole token is one number: strtol stops at its end.
IsNumber(o) == o.kind = "num" /\ o.pre = NoTok /\ o.next = NoTok

\* The whole token is one name: the only token findSymbol can find.
IsName(o) == o.kind = "name" /\ o.pre = NoTok /\ o.next = NoTok

-----------------------------------------------------------------------------
Iff(mn) ==
  CASE mn = "RSUB"                   -> "NO_ARG"
    [] mn \in {"SHIFTL", "SHIFTR"}   -> "SHIFT_OP"
    [] mn \in {"CLEAR", "TIXR"}      -> "SINGLE_ARG"
    [] mn = "SVC"                    -> "CONSTANT_ARG"
    [] OTHER                         -> "DEFAULT"

\* '+' is allowed before a format 3/4 mnemonic only.
KnownOpcode(l) == l.mn \in DOMAIN Optab /\ (l.ext => Optab[l.mn] = 3)

InstructionLen(l) == IF l.ext THEN Optab[l.mn] + 1 ELSE Optab[l.mn]

\* Mutation of LiteralLen: an odd number of hexadecimal digits is rounded down.
LiteralLenRoundedDown(o) == IF o.kind = "char" THEN o.val ELSE o.val \div 2

\* Bytes pass 1 reserves for a BYTE literal: it counts what the matcher took.
LiteralLen(o) == IF o.kind = "char" THEN o.val ELSE (o.val + 1) \div 2

\* Bytes pass 2 produces for it: it counts up to the end of the token.
LiteralCodeLen(o) ==
  IF o.kind = "char" THEN o.val + o.tail ELSE (o.val + o.tail + 1) \div 2

\* Comparing only as many characters as the token has: "P" matches "PC".
RegisterNumber == [A |-> 0, X |-> 1, L |-> 2, B |-> 3, S |-> 4, T |-> 5,
                   F |-> 6, PC |-> 8, SW |-> 9, P |-> 8]
=============================================================================
