------------------------------- MODULE Loader -------------------------------
(* What an object file promises to its loader: a memory image that grows one *)
(* piece of code at a time, each at free addresses; nothing is overwritten   *)
(* and nothing taken back.                                                   *)
EXTENDS Integers

VARIABLE memory   \* set of pairs <<address, piece of code that covers it>>

Used == {cell[1] : cell \in memory}

Init == memory = {}

\* A piece of code appears at addresses none of which holds code.
Put == /\ memory \subseteq memory'
       /\ LET new == {cell \in memory' : cell \notin memory}
              addresses == {cell[1] : cell \in new} IN
          /\ \A c, d \in new : c[2] = d[2]
          /\ \A c, d \in new : c[1] = d[1] => c = d
          /\ addresses \cap Used = {}
          /\ \A a, b \in addresses : (a..b) \subseteq addresses

Spec == Init /\ [][Put]_memory
=============================================================================
