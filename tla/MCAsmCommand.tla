---------------------------- MODULE MCAsmCommand ----------------------------
(* Three commands on sources of three lines: labels shared between the       *)
(* programs, errors of both passes, code that memory must be found for, and  *)
(* programs that assemble.                                                   *)
EXTENDS AsmCommand

MCOptab == [LDA |-> 3, FIX |-> 1]

Name(n) == [NoOperand EXCEPT !.kind = "name", !.name = n]
Reserved == [NoOperand EXCEPT !.kind = "num", !.val = 9]
L(label, mn, operand) ==
  [BlankLine EXCEPT !.label = label, !.mn = mn, !.operand = operand]

MCLines == {
  L("A", "FIX", NoOperand), L("B", "LDA", Name("A")), L("", "JUNK", NoOperand),
  L("A", "", NoOperand), L("", "END", NoOperand), L("", "RESB", Reserved),
  [L("", "LDA", Name("A")) EXCEPT !.ext = TRUE], [BlankLine EXCEPT !.torn = TRUE]}
=============================================================================
