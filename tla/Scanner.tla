------------------------------- MODULE Scanner -------------------------------
(* How an operand is read off a source line: getTokenSize of util.c looks    *)
(* for the end of the token, and findToken cuts the operand of an            *)
(* instruction at its commas.  The two do not share a grammar: the first     *)
(* lets commas through that the second must then accept.                     *)
EXTENDS CommandLine

CONSTANT Texts        \* what lines hold from their operand on

\* readStatement has jumped over the blanks, and freadLine leaves no newline.
ASSUME TextsAssumption ==
  \A t \in Texts :
    /\ t \in Seq(Range(t)) /\ t # <<>> /\ t[1] \notin Blank
    /\ Range(t) \cap {"\n", NUL} = {}

VARIABLES
  text,    \* src
  at,      \* where getTokenSize stands in it
  token,   \* the token it has found
  items,   \* what findToken has cut off the token
  next,    \* where it is called next
  scan     \* what is done next, or the result

scanVars == <<text, at, token, items, next, scan>>

ScanInit ==
  /\ text \in Texts /\ at = 1 /\ token = <<>> /\ items = <<>> /\ next = 1
  /\ scan = "token"

-----------------------------------------------------------------------------
Reading == scan = "token"
Here == CharAt(text, at)
Separators == Blank \cup {","}

Goto(k) == at' = k /\ UNCHANGED <<text, token, items, next, scan>>
ScanFails(error) == scan' = error /\ UNCHANGED <<text, at, token, items, next>>

\* Mutation of CommaAt: a comma is expected right behind the word.
CommaAtOnce == at

\* The comma that belongs to the separator here, blanks before it or not.
CommaAt == IF Here = "," THEN at ELSE Behind(text, at + 1)

EndsToken == Here = NUL \/ (Here \in Blank /\ CharAt(text, CommaAt) # ",")
BehindComma == Behind(text, CommaAt + 1)
CommaLost == CharAt(text, BehindComma) \in {",", NUL}

\* Mutation of AfterComma: the comma is looked at, but not stepped over.
AfterCommaHere == at

\* Reading goes on with what the comma is followed by.
AfterComma == BehindComma

ClosingQuote == FirstIn(text, at + 1, {"'"})

ReadQuoted ==
  /\ Reading /\ Here = "'"
  /\ IF CharAt(text, ClosingQuote) = NUL THEN ScanFails("SYNTAX_PARSE_FAIL")
     ELSE Goto(ClosingQuote + 1)

ReadComma ==
  /\ Reading /\ Here \in Separators /\ ~EndsToken
  /\ IF CommaLost THEN ScanFails("SYNTAX_PARSE_FAIL") ELSE Goto(AfterComma)

ReadOther == Reading /\ Here \notin Separators \cup {"'", NUL} /\ Goto(at + 1)

\* createToken copies the token.
TokenFound ==
  /\ Reading /\ EndsToken
  /\ token' = SubSeq(text, 1, at - 1) /\ scan' = "found"
  /\ UNCHANGED <<text, at, items, next>>

-----------------------------------------------------------------------------
\* findToken(token + next - 1): the item, what is behind it, and whether the
\* delimiter is right.
ItemStart == Behind(token, next)

\* Mutation of ItemEnd: an item ends at a blank only.
ItemEndAtBlank == FirstIn(token, ItemStart, Blank)

ItemEnd == FirstIn(token, ItemStart, Separators)
BehindItem == Behind(token, ItemEnd)
NextItem == Behind(token, BehindItem + 1)

ItemMissing ==
  \/ CharAt(token, ItemStart) \in {",", NUL}
  \/ CharAt(token, BehindItem) \notin {",", NUL}
  \/ CharAt(token, BehindItem) = "," /\ CharAt(token, NextItem) \in {",", NUL}

\* The operand of an instruction is cut into items.
SplitOperand ==
  /\ scan = "found" /\ scan' = "items"
  /\ UNCHANGED <<text, at, token, items, next>>

FindItem ==
  /\ scan = "items" /\ ~ItemMissing
  /\ items' = Append(items, SubSeq(token, ItemStart, ItemEnd - 1))
  /\ \/ CharAt(token, BehindItem) = NUL /\ scan' = "split" /\ UNCHANGED next
     \/ CharAt(token, BehindItem) = "," /\ next' = NextItem /\ UNCHANGED scan
  /\ UNCHANGED <<text, at, token>>

NoItem == scan = "items" /\ ItemMissing /\ ScanFails("no item")

ScanNext ==
  \/ ReadQuoted \/ ReadComma \/ ReadOther \/ TokenFound
  \/ SplitOperand \/ FindItem \/ NoItem

-----------------------------------------------------------------------------
\* Characters outside quotes, and the stretches of separators among them.
Quotes(k) == {j \in 1..k-1 : text[j] = "'"}
Parting(k) == text[k] \in Separators /\ Cardinality(Quotes(k)) % 2 = 0
Stretches ==
  {s \in (1..Len(text)) \X (1..Len(text)) :
     /\ s[1] <= s[2] /\ \A k \in s[1]..s[2] : Parting(k)
     /\ s[1] = 1 \/ ~Parting(s[1] - 1)
     /\ s[2] = Len(text) \/ ~Parting(s[2] + 1)}
CommasOf(s) == {k \in s[1]..s[2] : text[k] = ","}

\* The token ends before the first stretch that holds no comma.
TokenEnd == Min({s[1] : s \in {r \in Stretches : CommasOf(r) = {}}} \cup {Len(text) + 1})

\* Every comma in it parts two items, and every quote in it is closed.
TokenSound ==
  /\ \A s \in Stretches : s[1] < TokenEnd =>
       Cardinality(CommasOf(s)) = 1 /\ s[2] < Len(text)
  /\ Cardinality(Quotes(TokenEnd)) % 2 = 0

(* A token reaches to the first blank that no comma is near and no quotes    *)
(* enclose, and a line with a comma too many or an open quote is refused     *)
(* before that blank only.                                                   *)
TokenAsMeant ==
  /\ scan = "SYNTAX_PARSE_FAIL" => ~TokenSound
  /\ ~Reading /\ scan # "SYNTAX_PARSE_FAIL" =>
       TokenSound /\ token = SubSeq(text, 1, TokenEnd - 1)

(* findToken, called again and again as its callers do, finds what stands    *)
(* between the commas of a token, and refuses no token but one that begins   *)
(* with a comma (or holds quotes, which it knows nothing of).                *)
ItemsAsMeant ==
  "'" \notin Range(token) =>
    /\ scan = "split" => items = Fields(token)
    /\ scan = "no item" => token[1] = ","
=============================================================================
