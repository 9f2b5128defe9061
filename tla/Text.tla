-------------------------------- MODULE Text --------------------------------
(* A string of the program: a sequence of characters, read at positions from *)
(* 1 on, with the terminating NUL behind the last.                           *)
EXTENDS Integers, Sequences, SequencesExt

NUL == "NUL"
Blank == {" ", "\n"}  \* what isspace accepts

CharAt(text, k) == IF k <= Len(text) THEN text[k] ELSE NUL

\* The first position from k on with a character of the set, or that of NUL.
FirstIn(text, k, chars) ==
  Min({j \in k..Len(text)+1 : CharAt(text, j) \in chars \cup {NUL}})

\* jumpBlank
Behind(text, k) == Min({j \in k..Len(text)+1 : CharAt(text, j) \notin Blank})

-----------------------------------------------------------------------------
\* What a text means to its reader, whatever the walk through it.
Strip(text) ==
  LET solid == {k \in DOMAIN text : text[k] \notin Blank} IN
  IF solid = {} THEN <<>> ELSE SubSeq(text, Min(solid), Max(solid))

\* The stretches between the commas of a text, from each of its positions on.
FieldsFrom(text) ==
  LET from[k \in 1..Len(text)+1] ==
        LET comma == FirstIn(text, k, {","})
            field == Strip(SubSeq(text, k, comma - 1))
        IN  IF comma > Len(text) THEN <<field>> ELSE <<field>> \o from[comma + 1]
  IN  from

Fields(text) == FieldsFrom(text)[1]

IsWord(text) == text # <<>> /\ Range(text) \cap Blank = {}
=============================================================================
