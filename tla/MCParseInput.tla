---------------------------- MODULE MCParseInput ----------------------------
(* All lines of up to MaxLength characters: a letter a name may contain, one *)
(* it may not, a blank and the delimiter.  fgets leaves a newline at the end  *)
(* only, where it is a blank like any other.                                 *)
EXTENDS ParseInput

CONSTANT MaxLength

MCChar == {"a", "A", " ", ","}

MCInputs == UNION {[1..n -> MCChar] : n \in 0..MaxLength}
=============================================================================
