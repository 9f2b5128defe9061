------------------------------- MODULE MCShell -------------------------------
(* A memory of 4 bytes of one bit, addresses of two binary digits, an input  *)
(* buffer of 9 characters.                                                   *)
EXTENDS Shell

\* A text as the sequence of its characters.
Text(s) == [k \in 1..Len(s) |-> SubSeq(s, k, k)]

MCLower == Range(Text("abcdefghijklmnopqrstuvwxyz"))
MCHexValue == [c \in {"0", "1"} |-> IF c = "0" THEN 0 ELSE 1]
MCGarbage == {[a \in 0..3 |-> IF a \in {1, 2} THEN 1 ELSE 0]}

MCLines == {Text(s) : s \in {
  "q", "quit", "  q  ", " quit  ", "hi", "du", "du 10", "du 1,10", "du 10,1", "e 1,1", "e 10,10",
  "f 1,10,0", "f 0,1,1", "reset", " Q     q", "x", "", "opcode A", "symbol", "e 1,1,0,1",
  "Q        hi",
  "du       10",
  "reset                                                       "}}

MCChar == UNION {Range(line) : line \in MCLines} \cup {Newline}

\* Words of the file: a name, a number that is all of its word or not.
Word(line, s) == [line |-> line, text |-> Text(s), hex |-> -1, rest |-> <<>>, dec |-> -1]
Num(line, s, n) == [Word(line, s) EXCEPT !.hex = n, !.dec = n]
NumAnd(line, s, n, name) == [Num(line, s, n) EXCEPT !.rest = Text(name)]

(* A name defined again, a word too many, a number with its name in a word,  *)
(* a line without a format before one that is thrown away for it, and an end *)
(* before the last line; and a file with a name too long for its array.      *)
MCOpcodeFiles == {
  << NumAnd(1, "24A", 36, "A"), Num(1, "3/4", 3),
     Num(2, "4", 4), Word(2, "B"), Num(2, "1", 1), Word(2, "A"),
     Num(3, "5", 5), Word(3, "A"), Num(3, "2", 2),
     Num(4, "7", 7), Word(4, "D"),
     Num(5, "2", 2), Word(5, "C"), Num(5, "3", 3),
     Num(6, "9", 9), Word(6, "A"), Num(6, "1", 1),
     Word(7, "none"), Word(7, "C"), Num(7, "1", 1) >>,
  << Num(1, "4", 4), Word(1, "B"), Num(1, "1", 1), Num(2, "4", 4), Word(2, "none") >> }
MCOpcodeHash ==
  [mn \in {word.text : word \in UNION {Range(file) : file \in MCOpcodeFiles}}
            \cup {Text("A"), Text("B"), Text("C"), Text("D")} |->
     IF mn = Text("D") THEN 1 ELSE 0]
=============================================================================
