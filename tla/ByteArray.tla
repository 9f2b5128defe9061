------------------------------ MODULE ByteArray ------------------------------
(* What the memory commands promise: an array of bytes of which a dump shows *)
(* a range as it is, and of which a range is set to one value at a time.     *)
EXTENDS Integers

CONSTANTS Size, Byte

VARIABLES
  bytes,   \* the array
  shown    \* address -> byte, what the last dump has shown

vars == <<bytes, shown>>

Address == 0..Size-1

Init == bytes \in [Address -> Byte] /\ shown = [a \in {} |-> 0]

Show(first, last) ==
  /\ first <= last
  /\ shown' = [a \in first..last |-> bytes[a]]
  /\ UNCHANGED bytes

Write(first, last, v) ==
  /\ first <= last
  /\ bytes' = [a \in Address |-> IF a \in first..last THEN v ELSE bytes[a]]
  /\ UNCHANGED shown

Next == \E first, last \in Address :
          Show(first, last) \/ \E v \in Byte : Write(first, last, v)

Spec == Init /\ [][Next]_vars
=============================================================================
