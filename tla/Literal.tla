------------------------------- MODULE Literal -------------------------------
(* The literals C'..' and X'..' of BYTE, from the token to the digits of the *)
(* text record: the matchers and pass 1 measure the literal, pass 2 shifts   *)
(* its characters or digits into objcodeBuf, a word at a time, and prints    *)
(* them from there.  objcodeBuf is never cleared: a word holds what earlier  *)
(* statements shifted into it.  A word is the sequence of its hexadecimal    *)
(* digits, the most significant first.                                       *)
EXTENDS Scanner

CONSTANTS
  SZ,                  \* sizeof(unsigned)
  TRECORD_CODE_LIMIT,  \* bytes of a text record
  HexValue,            \* what isxdigit accepts, and its value
  Ascii,               \* character -> its two digits
  Stale                \* digits an earlier statement left in objcodeBuf

ASSUME LiteralAssumption ==
  /\ SZ \in Nat \ {0} /\ TRECORD_CODE_LIMIT \in Nat \ {0} /\ Stale \subseteq 0..15
  /\ NUL \notin DOMAIN HexValue /\ \A c \in DOMAIN HexValue : HexValue[c] \in 0..15
  /\ \A t \in Texts : Range(t) \subseteq DOMAIN Ascii
  /\ \A c \in DOMAIN Ascii : Ascii[c] \in (0..15) \X (0..15)

VARIABLES
  byteLen,      \* what pass 1 adds to the location counter
  objcodeLen,   \* the length of the code in pass 2
  objcodeBuf,   \* word -> its digits
  shifted,      \* i, characters shifted in
  printed       \* digits printed to textRecBuf

literalVars == <<scanVars, byteLen, objcodeLen, objcodeBuf, shifted, printed>>

Words == 0..((TRECORD_CODE_LIMIT + SZ - 1) \div SZ) - 1

LiteralInit ==
  /\ ScanInit
  /\ byteLen = 0 /\ objcodeLen = 0 /\ shifted = 0 /\ printed = <<>>
  /\ \E d \in Stale : objcodeBuf = [w \in Words |-> [k \in 1..2*SZ |-> d]]

-----------------------------------------------------------------------------
IsChar == token[1] = "C"
IsHex == token[1] = "X"
isEOS(k) == CharAt(token, k) \in Blank \cup {NUL}

\* Where the matchers stop: at the closing quote, or at a character they refuse.
Stop ==
  IF IsChar THEN FirstIn(token, 3, {"'"})
  ELSE Min({k \in 3..Len(token)+1 : CharAt(token, k) \notin DOMAIN HexValue})

\* charLiteralMatcher jumps over every blank but one that comes first.
Matched ==
  /\ IsChar \/ IsHex
  /\ CharAt(token, 2) = "'" /\ ~isEOS(3)
  /\ CharAt(token, Stop) = "'" /\ Stop > 3 /\ isEOS(Stop + 1)

\* Mutation of MeasuredLen: an odd digit has no byte of its own.
MeasuredLenDown == IF IsChar THEN Stop - 3 ELSE (Stop - 3) \div 2

MeasuredLen == IF IsChar THEN Stop - 3 ELSE (Stop - 2) \div 2

FitsRecord == MeasuredLen <= TRECORD_CODE_LIMIT

AtLiteral(phase) == scan = phase /\ UNCHANGED <<text, at, token, items, next>>

\* Pass 1: the literal is matched and measured.
Measure ==
  /\ AtLiteral("found") /\ Matched /\ FitsRecord
  /\ byteLen' = MeasuredLen /\ scan' = "measured"
  /\ UNCHANGED <<objcodeLen, objcodeBuf, shifted, printed>>

RefuseLiteral ==
  /\ AtLiteral("found")
  /\ \/ ~Matched /\ scan' = "INVALID_OPERAND_FORMAT"
     \/ Matched /\ ~FitsRecord /\ scan' = "CONSTANT_TOO_LARGE"
  /\ UNCHANGED <<byteLen, objcodeLen, objcodeBuf, shifted, printed>>

-----------------------------------------------------------------------------
\* Pass 2 takes the last character of the token for the closing quote.
Content == SubSeq(token, 3, Len(token) - 1)
CodeLen == IF IsChar THEN Len(Content) ELSE (Len(Content) + 1) \div 2

\* A code longer than the record is shifted and printed beyond the buffers.
BeginCode ==
  /\ AtLiteral("measured")
  /\ objcodeLen' = CodeLen
  /\ scan' = IF CodeLen > TRECORD_CODE_LIMIT THEN "undefined" ELSE "shifting"
  /\ UNCHANGED <<byteLen, objcodeBuf, shifted, printed>>

\* A character is a signed byte: one beyond ASCII sets all the bits above it.
ShiftedChar(word, c) ==
  IF Ascii[c][1] < 8 THEN SubSeq(word, 3, 2*SZ) \o Ascii[c]
  ELSE [k \in 1..2*SZ-2 |-> 15] \o Ascii[c]

\* strtol makes 0 of what is no digit.
ShiftedDigit(word, c) ==
  Append(Tail(word), IF c \in DOMAIN HexValue THEN HexValue[c] ELSE 0)

\* Mutation of WordOf: a digit counts as a byte.
WordOfByte(k) == k \div SZ

\* The word that character k of the content belongs to, from 0.
WordOf(k) == IF IsChar THEN k \div SZ ELSE (k \div 2) \div SZ

ShiftIn ==
  /\ AtLiteral("shifting") /\ shifted < Len(Content)
  /\ LET c == Content[shifted + 1] IN
     objcodeBuf' = [objcodeBuf EXCEPT ![WordOf(shifted)] =
                      IF IsChar THEN ShiftedChar(@, c) ELSE ShiftedDigit(@, c)]
  /\ shifted' = shifted + 1
  /\ UNCHANGED <<scan, byteLen, objcodeLen, printed>>

\* printTextRec: whole words, and the lower bytes of the last one.
FullWords == FlattenSeq([k \in 1..objcodeLen \div SZ |-> objcodeBuf[k - 1]])
LastWord ==
  LET r == objcodeLen % SZ IN
  IF r = 0 THEN <<>> ELSE SubSeq(objcodeBuf[objcodeLen \div SZ], 2*(SZ-r) + 1, 2*SZ)

PrintCode ==
  /\ AtLiteral("shifting") /\ shifted = Len(Content)
  /\ printed' = FullWords \o LastWord /\ scan' = "printed"
  /\ UNCHANGED <<byteLen, objcodeLen, objcodeBuf, shifted>>

LiteralNext ==
  \/ ScanNext /\ UNCHANGED <<byteLen, objcodeLen, objcodeBuf, shifted, printed>>
  \/ Measure \/ RefuseLiteral \/ BeginCode \/ ShiftIn \/ PrintCode

\* Nothing suspends the scanner and the passes.
LiteralSpec == LiteralInit /\ [][LiteralNext]_literalVars /\ WF_literalVars(LiteralNext)

-----------------------------------------------------------------------------
Answers == {"SYNTAX_PARSE_FAIL", "INVALID_OPERAND_FORMAT", "CONSTANT_TOO_LARGE",
            "no item", "split", "printed", "undefined"}

\* Nothing stands behind the closing quote.
QuoteLast == Stop = Len(token)

(* The two passes agree on the length of a literal, which pass 1 measures up *)
(* to the quote and pass 2 up to the end of the token, when nothing is       *)
(* between the two; then no literal is longer than the record.               *)
LengthsAgree ==
  /\ scan \in {"shifting", "printed"} /\ QuoteLast => objcodeLen = byteLen
  /\ scan = "undefined" => ~QuoteLast

Digits == IF IsChar THEN FlattenSeq([k \in DOMAIN Content |-> Ascii[Content[k]]])
          ELSE [k \in DOMAIN Content |-> HexValue[Content[k]]]

(* What is printed is the literal, whatever the words of objcodeBuf held     *)
(* before, if its characters are ASCII; an odd digit is the last one printed *)
(* of those it belongs to, behind a digit of its word that is stale.         *)
CodeIsLiteral ==
  scan = "printed" /\ QuoteLast =>
    /\ IsChar /\ (\A k \in DOMAIN Content : Ascii[Content[k]][1] < 8) => printed = Digits
    /\ IsHex /\ Len(Content) % 2 = 0 => printed = Digits
    /\ IsHex => \E d \in 0..15, k \in 0..Len(Content) :
         printed \in {Digits, SubSeq(Digits, 1, k) \o <<d>> \o SubSeq(Digits, k + 1, Len(Digits))}

(* The scanner and both passes come to an end with every operand.            *)
LiteralEnds == <>(scan \in Answers)
=============================================================================
