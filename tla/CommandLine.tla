---------------------------- MODULE CommandLine ----------------------------
(* What a line typed at the prompt means: a name in lower case, and after    *)
(* blanks the arguments, which commas separate and which hold no blank.  It  *)
(* is the definition the parser of parse.c is compared with, and is written  *)
(* over the whole line where the parser walks through it.                    *)
EXTENDS Text

CONSTANT Lower        \* the characters from 'a' to 'z'

\* What is left of a stripped line behind its first word.
FirstWordEnd(line) == Min({k \in DOMAIN line : line[k] \in Blank} \cup {Len(line) + 1})
NameOf(line) == SubSeq(line, 1, FirstWordEnd(line) - 1)
RestOf(line) == Strip(SubSeq(line, FirstWordEnd(line), Len(line)))

Meaning(result, words) == [result |-> result, words |-> words]

CommandOf(text) ==
  LET line == Strip(text)
      fields == Fields(RestOf(line)) IN
  CASE line = <<>> -> Meaning("COMMAND_EMPTY", <<>>)
    [] line # <<>> /\ ~(Range(NameOf(line)) \subseteq Lower) ->
         Meaning("NOT_LOWERCASE", <<>>)
    [] line # <<>> /\ Range(NameOf(line)) \subseteq Lower /\ RestOf(line) = <<>> ->
         Meaning("ok", <<NameOf(line)>>)
    [] OTHER ->
         IF \A k \in DOMAIN fields : IsWord(fields[k])
         THEN Meaning("ok", <<NameOf(line)>> \o fields)
         ELSE Meaning("INVALID_DELIMITER", <<>>)
=============================================================================
