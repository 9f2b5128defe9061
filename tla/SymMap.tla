------------------------------- MODULE SymMap -------------------------------
(* What a symbol table promises to the assembler: a map from names to        *)
(* addresses in which a name is defined once, and which can be emptied.      *)
EXTENDS Integers

CONSTANTS Names, Addresses

VARIABLES
  table,   \* the map
  answer   \* what the last call returned

vars == <<table, answer>>

Answer(tag, addr) == [tag |-> tag, loc |-> addr]

Init == table = [n \in {} |-> 0] /\ answer = Answer("none", 0)

Find(n) ==
  /\ answer' = IF n \in DOMAIN table THEN Answer("found", table[n])
               ELSE Answer("null", 0)
  /\ UNCHANGED table

Define(n, addr) ==
  /\ n \notin DOMAIN table
  /\ table' = [m \in DOMAIN table \cup {n} |-> IF m = n THEN addr ELSE table[m]]
  /\ answer' = Answer("added", 0)

Duplicate(n) ==
  n \in DOMAIN table /\ answer' = Answer("duplicate", 0) /\ UNCHANGED table

\* No memory for the entry.
Refuse(n) ==
  n \notin DOMAIN table /\ answer' = Answer("alloc_fail", 0) /\ UNCHANGED table

Empty == table' = [n \in {} |-> 0] /\ answer' = Answer("none", 0)

Next == \/ \E n \in Names : Find(n) \/ Duplicate(n) \/ Refuse(n)
        \/ \E n \in Names, addr \in Addresses : Define(n, addr)
        \/ Empty

Spec == Init /\ [][Next]_vars
=============================================================================
