----------------------------- MODULE MCAssemble -----------------------------
(* Instances of Assemble for TLC: small widths and limits, and sets of lines *)
(* each chosen for one group of questions.                                   *)
EXTENDS Assemble

MCOptab == [LDA |-> 3, RSUB |-> 3, CLEAR |-> 2, ADDR |-> 2, SHIFTL |-> 2,
            SVC |-> 2, FIX |-> 1]

Num(v) == [NoOperand EXCEPT !.kind = "num", !.val = v]
Name(n) == [NoOperand EXCEPT !.kind = "name", !.name = n]
Literal(kind, n) == [NoOperand EXCEPT !.kind = kind, !.val = n]
Pre(p, o) == [o EXCEPT !.pre = p]
Then(o, item) == [o EXCEPT !.next = item]
WithTail(o, n) == [o EXCEPT !.tail = n]
Bad == [NoOperand EXCEPT !.kind = "bad"]

L(label, mn, operand) ==
  [BlankLine EXCEPT !.label = label, !.mn = mn, !.operand = operand]
Op(mn, operand) == L("", mn, operand)
Ext(label, mn, operand) == [L(label, mn, operand) EXCEPT !.ext = TRUE]
Torn == [BlankLine EXCEPT !.torn = TRUE]

\* Code and storage of every size: text records, gaps and flushes; a size no
\* int holds, and literals with text behind the quote.
LayoutLines == {
  Op("START", Num(3)), Op("LDA", Pre("#", Num(1))), Ext("", "RSUB", NoOperand),
  Op("FIX", NoOperand), Op("BYTE", Literal("char", 5)),
  Op("BYTE", Literal("char", 7)), Op("BYTE", Literal("hex", 3)), Op("WORD", Num(-2)), Op("RESB", Num(2)),
  Op("RESW", Num(1)), BlankLine, Op("END", NoOperand),
  Op("RESB", Num(129)), Op("BYTE", WithTail(Literal("char", 1), 2)),
  Op("BYTE", WithTail(Literal("hex", 2), 1)), Op("BYTE", WithTail(Literal("char", 5), 2))}

\* Labels and the instructions that refer to them from near and far.
AddressLines == {
  L("A", "LDA", Name("B")), L("B", "FIX", NoOperand), Op("RESB", Num(6)),
  Ext("", "LDA", Name("A")), Op("BASE", Name("A")), Op("NOBASE", NoOperand),
  L("C", "LDA", Then(Name("A"), "X")), L("B", "", NoOperand), Op("END", NoOperand),
  L("A", "END", NoOperand)}

\* Lines that some test of pass 1 refuses, and their neighbours that are
\* accepted.
RefusedLines == {
  Torn, BlankLine, L("PROGRAM", "START", Num(1)), L("PROG", "START", Num(2)),
  Op("START", Num(21)), Op("START", Bad), L("1A", "", NoOperand), L("A", "", NoOperand),
  Op("RESB", Num(0)), Op("RESB", Num(20)), Op("RESW", Num(7)), Op("RESW", Num(6)),
  Op("BYTE", Literal("char", 7)), Op("BYTE", Literal("hex", 12)), Op("BYTE", Bad),
  Op("WORD", Num(8)), Op("WORD", Num(7)), Op("BASE", NoOperand), Op("BASE", Name("B")),
  Op("NOBASE", Bad), Op("END", Name("A")), Op("JUNK", NoOperand),
  Ext("", "CLEAR", Name("A"))}

\* Operands of every kind of instruction.
OperandLines == {
  L("A", "LDA", Pre("@", Name("A"))), Op("LDA", NoOperand), Op("LDA", Pre("#", Num(4))),
  Ext("", "LDA", Pre("#", Num(15))), Ext("", "LDA", Num(16)), Op("LDA", Num(-1)),
  Op("LDA", Num(127)), Op("LDA", Then(Num(1), "S")), Op("LDA", Name("T")), Op("RSUB", Num(1)),
  Op("CLEAR", Name("P")), Op("CLEAR", Then(Name("X"), "A")), Op("CLEAR", Bad),
  Op("ADDR", Then(Name("S"), "T")), Op("ADDR", Name("S")), Op("ADDR", Then(Name("S"), Garbled)),
  Op("SHIFTL", Then(Name("A"), "4")), Op("SVC", Num(15)), Op("SVC", Num(16)),
  Op("FIX", Num(1)), Op("FIX", NoOperand), Ext("B", "LDA", Name("B")), Ext("", "LDA", Name("B")),
  L("B", "END", NoOperand)}

\* For the tests of either pass.
RefusableLines == RefusedLines \cup OperandLines
=============================================================================
