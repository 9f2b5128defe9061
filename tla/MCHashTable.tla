---------------------------- MODULE MCHashTable ----------------------------
(* A table of two buckets in which three of four names collide. *)
EXTENDS HashTable

MCHash == [a |-> 0, b |-> 0, c |-> 0, d |-> 1]
MCNames == {"a", "b", "c", "d"}
=============================================================================
