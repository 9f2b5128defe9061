------------------------------ MODULE MCLiteral ------------------------------
(* A word of 2 bytes and a record of 3.  Operands of every shape up to       *)
(* MaxLength characters, and literals with every content up to the limits.   *)
EXTENDS Literal

CONSTANT MaxLength

MCHexValue == [c \in {"1", "A"} |-> IF c = "1" THEN 1 ELSE 10]
MCAscii == [c \in {"1", "A", "C", "X", "'", ",", " ", "*"} |->
  CASE c = "1" -> <<3, 1>> [] c = "A" -> <<4, 1>> [] c = "C" -> <<4, 3>>
    [] c = "X" -> <<5, 8>> [] c = "'" -> <<2, 7>> [] c = "," -> <<2, 12>>
    [] c = " " -> <<2, 0>> [] OTHER -> <<12, 3>>]

SeqUpTo(n, chars) == UNION {[1..m -> chars] : m \in 0..n}
Operands(first, chars, n) == {first \o t : t \in SeqUpTo(n, chars)}
Quoted(first, chars, n) == {t \o <<"'">> : t \in Operands(first, chars, n)}

\* "*" stands for a character beyond ASCII.
MCTexts ==
  Operands(<<"A">>, {"A", "'", ",", " "}, MaxLength)
  \cup Operands(<<",">>, {"A", ","}, 2)
  \cup Operands(<<"X", "'">>, {"1", "'", ",", " "}, MaxLength)
  \cup Operands(<<"C", "'">>, {"1", "'", ",", " "}, MaxLength)
  \cup Quoted(<<"X", "'">>, {"1", "A"}, 7)
  \cup Quoted(<<"C", "'">>, {"A", "1", "*"}, 4)
=============================================================================
