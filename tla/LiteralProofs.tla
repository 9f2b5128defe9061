---------------------------- MODULE LiteralProofs ----------------------------
(* For every operand, record and word: a token ends where its stretches of   *)
(* blanks and commas say, findToken cuts it as its commas do, and refuses    *)
(* none for a reason of its own, the two passes agree on the length of a     *)
(* literal, and what is printed are its digits.                              *)
EXTENDS Literal, Lemmas, FiniteSetTheorems

\* The characters of the line.
Chars == Range(text)

\* Up to position k nothing is quoted.
Unquoted(k) == \A j \in 1..k-1 : text[j] # "'"

\* Only blanks are at the positions from i to j.
BlanksIn(i, j) == \A k \in i..j : text[k] \in Blank

\* Position k begins a word, or a quoted part.
BeginsWord(k) == CharAt(text, k) \notin Separators \cup {NUL}

\* Behind the comma at j a word follows, no further than k.
WordFollows(j, k) == \E m \in j+1..k : BeginsWord(m) /\ BlanksIn(j + 1, m - 1)

\* A comma is next to the blank at j, before it or behind it.
IsComma(c) == text[c] = ","
CommaNear(j, k) ==
  \E c \in 1..k-1 : IsComma(c) /\ BlanksIn(c + 1, j - 1) /\ BlanksIn(j + 1, c - 1)

\* What getTokenSize has let through up to position k.
Grammar(k) ==
  Unquoted(k) =>
    \A j \in 1..k-1 : /\ IsComma(j) => WordFollows(j, k)
                      /\ text[j] \in Blank => CommaNear(j, k)

LineInv ==
  /\ text \in Seq(Chars) /\ text # <<>> /\ NUL \notin Chars /\ text[1] \notin Blank
  /\ at \in 1..Len(text)+1

\* Results of the scanner that leave a token.
HasToken == scan \notin {"token", "SYNTAX_PARSE_FAIL"}

TokenInv ==
  /\ scan = "token" => token = <<>> /\ items = <<>> /\ next = 1
  /\ scan \in {"token"} \/ HasToken => Grammar(at)
  /\ HasToken => /\ at > 1 /\ token = SubSeq(text, 1, at - 1)
                 /\ CharAt(text, at) \in Blank \cup {NUL}
  /\ scan = "found" => items = <<>> /\ next = 1

(* The cutting: what is cut off and the fields of the rest are the fields of *)
(* the token, and every item but the first is known to have characters.      *)
Cutting ==
  /\ items \in Seq(Seq(Chars))
  /\ next = 1 \/ CharAt(token, next) \notin {",", NUL}
  /\ \E q \in 1..Len(token)+1 :
       next = Behind(token, q) /\ items \o FieldsFrom(token)[q] = Fields(token)

ItemsInv ==
  /\ scan = "items" => Cutting
  /\ scan = "split" => items = Fields(token)
  /\ scan = "no item" /\ "'" \notin Range(token) => token[1] = ","

ScanInv == LineInv /\ TokenInv /\ ItemsInv

\* The scan begins at the first character of a line of Texts.
LEMMA ScanInvInit == LiteralInit => ScanInv
  <1> SUFFICES ASSUME LiteralInit PROVE ScanInv
    OBVIOUS
  <1>1. /\ text \in Texts /\ at = 1 /\ token = <<>> /\ items = <<>> /\ next = 1
        /\ scan = "token"
    BY DEF LiteralInit, ScanInit
  <1>2. text \in Seq(Chars) /\ text # <<>> /\ text[1] \notin Blank /\ NUL \notin Chars
    BY <1>1, TextsAssumption DEF Chars
  <1>3. Len(text) \in Nat
    BY <1>2, LenProperties
  <1>4. LineInv
    BY <1>1, <1>2, <1>3 DEF LineInv
  <1>5. Grammar(at)
    <2>1. \A j \in 1..1-1 : FALSE
      OBVIOUS
    <2> QED BY <1>1, <2>1, Zenon DEF Grammar
  <1> QED BY <1>1, <1>4, <1>5 DEF ScanInv, TokenInv, ItemsInv, HasToken

-----------------------------------------------------------------------------
\* A position further on keeps what is known up to it.
LEMMA GrammarKept ==
  ASSUME LineInv, Grammar(at), NEW k \in Nat, at <= k, Unquoted(k), NEW j \in 1..at-1
  PROVE  /\ IsComma(j) => WordFollows(j, k)
         /\ text[j] \in Blank => CommaNear(j, k)
  <1>0. at \in Nat
    BY DEF LineInv
  <1>1. /\ \A i \in 1..at-1 : i \in 1..k-1
        /\ \A m \in j+1..at : m \in j+1..k
    BY <1>0
  <1>2. Unquoted(at)
    BY <1>1, Zenon DEF Unquoted
  <1>3. /\ IsComma(j) => WordFollows(j, at)
        /\ text[j] \in Blank => CommaNear(j, at)
    BY <1>2, Zenon DEF Grammar
  <1> QED BY <1>1, <1>3, Zenon DEF WordFollows, CommaNear

\* Over other characters nothing more is asked.
LEMMA GrammarOther ==
  ASSUME LineInv, Grammar(at), BeginsWord(at) PROVE Grammar(at + 1)
  <1>0. at \in Nat /\ at + 1 \in Nat /\ at <= at + 1 /\ \A j \in 1..(at+1)-1 : j \in 1..at-1 \/ j = at
    BY DEF LineInv
  <1>1. ~IsComma(at) /\ text[at] \notin Blank
    <2>1. CharAt(text, at) = text[at]
      BY DEF BeginsWord, CharAt
    <2> QED BY <2>1 DEF BeginsWord, IsComma, Separators
  <1> SUFFICES ASSUME Unquoted(at + 1), NEW j \in 1..(at+1)-1
               PROVE  /\ IsComma(j) => WordFollows(j, at + 1)
                      /\ text[j] \in Blank => CommaNear(j, at + 1)
    BY Zenon DEF Grammar
  <1>2. CASE j \in 1..at-1
    BY <1>0, <1>2, GrammarKept, Zenon
  <1>3. CASE j = at
    BY <1>1, <1>3, Zenon
  <1> QED BY <1>0, <1>2, <1>3, Zenon

\* Behind a quote nothing more is asked.
LEMMA GrammarQuoted ==
  ASSUME NEW k \in Nat, NEW j \in 1..k-1, text[j] = "'" PROVE Grammar(k)
  BY DEF Grammar, Unquoted

\* A separator has a comma of its own and a word behind it.
LEMMA GrammarComma ==
  ASSUME LineInv, Grammar(at), NEW c \in Nat, NEW m \in Nat, at <= c, c < m,
         IsComma(c), BlanksIn(at, c - 1), BlanksIn(c + 1, m - 1), BeginsWord(m)
  PROVE  Grammar(m)
  <1>0. at \in Nat /\ at >= 1 /\ at <= m
    BY DEF LineInv
  <1>1. c \in 1..m-1
    BY <1>0
  <1> SUFFICES ASSUME Unquoted(m), NEW j \in 1..m-1
               PROVE  /\ IsComma(j) => WordFollows(j, m)
                      /\ text[j] \in Blank => CommaNear(j, m)
    BY Zenon DEF Grammar
  <1>2. IsComma(c) /\ text[c] \notin Blank
    BY NoBlank DEF IsComma
  <1>3. CASE j \in 1..at-1
    BY <1>0, <1>3, GrammarKept, Zenon
  <1>4. CASE j \in at..c-1
    <2>1. text[j] \in Blank
      BY <1>4, Zenon DEF BlanksIn
    <2>2. /\ \A i \in c+1..j-1 : FALSE
          /\ \A i \in j+1..c-1 : i \in at..c-1
      BY <1>0, <1>4
    <2>3. BlanksIn(c + 1, j - 1) /\ BlanksIn(j + 1, c - 1)
      BY <2>2, Zenon DEF BlanksIn
    <2>4. CommaNear(j, m)
      BY <1>1, <1>2, <2>3, Zenon DEF CommaNear
    <2>5. ~IsComma(j)
      BY <2>1, NoBlank, Zenon DEF IsComma
    <2> QED BY <2>4, <2>5
  <1>5. CASE j = c
    <2>1. m \in c+1..m
      BY <1>0
    <2>2. WordFollows(c, m)
      BY <2>1, Zenon DEF WordFollows
    <2> QED BY <1>2, <1>5, <2>2, Zenon
  <1>6. CASE j \in c+1..m-1
    <2>1. text[j] \in Blank
      BY <1>6, Zenon DEF BlanksIn
    <2>2. /\ \A i \in c+1..j-1 : i \in c+1..m-1
          /\ \A i \in j+1..c-1 : FALSE
      BY <1>0, <1>6
    <2>3. BlanksIn(c + 1, j - 1) /\ BlanksIn(j + 1, c - 1)
      BY <2>2, Zenon DEF BlanksIn
    <2>4. CommaNear(j, m)
      BY <1>1, <1>2, <2>3, Zenon DEF CommaNear
    <2>5. ~IsComma(j)
      BY <2>1, NoBlank, Zenon DEF IsComma
    <2> QED BY <2>4, <2>5
  <1>7. j \in 1..at-1 \/ j \in at..c-1 \/ j = c \/ j \in c+1..m-1
    BY <1>0
  <1> QED BY <1>3, <1>4, <1>5, <1>6, <1>7

-----------------------------------------------------------------------------
\* Steps of the scanner that keep it scanning.
LEMMA ScansOn ==
  ASSUME ScanInv, scan = "token", NEW k \in 1..Len(text)+1, Goto(k), Grammar(k)
  PROVE  ScanInv'
  <1>1. /\ at' = k /\ text' = text /\ token' = token /\ items' = items /\ next' = next
        /\ scan' = "token"
    BY DEF Goto
  <1>2. LineInv'
    BY <1>1 DEF ScanInv, LineInv, Chars
  <1>3. Grammar(at)'
    <2>1. Grammar(at)' <=> Grammar(k)
      BY <1>1, Zenon DEF Grammar, Unquoted, IsComma, WordFollows, CommaNear, BeginsWord, BlanksIn
    <2> QED BY <2>1
  <1>4. TokenInv'
    BY <1>1, <1>3 DEF ScanInv, TokenInv, HasToken
  <1>5. ItemsInv'
    BY <1>1 DEF ItemsInv
  <1> QED BY <1>2, <1>4, <1>5 DEF ScanInv

\* A refused line keeps the invariant.
LEMMA ScanStops ==
  ASSUME ScanInv, UNCHANGED <<text, at, token, items, next>>, scan' = "SYNTAX_PARSE_FAIL"
  PROVE  ScanInv'
  <1>1. LineInv'
    BY DEF ScanInv, LineInv, Chars
  <1>2. TokenInv' /\ ItemsInv'
    BY DEF TokenInv, ItemsInv, HasToken
  <1> QED BY <1>1, <1>2 DEF ScanInv

\* Quoted text goes by as a whole.
LEMMA QuotedStep == ASSUME ScanInv, ReadQuoted PROVE ScanInv'
  <1>0. /\ scan = "token" /\ Len(text) \in Nat /\ text \in Seq(Chars) /\ NUL \notin Chars
        /\ at \in 1..Len(text)+1
    BY LenProperties DEF ReadQuoted, Reading, ScanInv, LineInv
  <1>1. CASE ScanFails("SYNTAX_PARSE_FAIL")
    BY <1>1, ScanStops DEF ScanFails
  <1>2. CASE CharAt(text, ClosingQuote) # NUL /\ Goto(ClosingQuote + 1)
    <2>1. CharAt(text, at) = "'" /\ CharAt(text, at) # NUL
      BY DEF ReadQuoted, Here, NUL
    <2>2. at \in 1..Len(text)
      BY <1>0, <2>1, InsideText
    <2>3. at + 1 \in 1..Len(text)+1
      BY <1>0, <2>2
    <2>4. ClosingQuote \in at+1..Len(text)+1
      BY <1>0, <2>3, FirstInIs DEF ClosingQuote
    <2>5. ClosingQuote \in 1..Len(text)+1
      BY <1>0, <2>2, <2>4
    <2>6. ClosingQuote \in 1..Len(text)
      BY <1>0, <1>2, <2>5, InsideText
    <2>7. ClosingQuote + 1 \in 1..Len(text)+1 /\ at \in 1..(ClosingQuote+1)-1
          /\ ClosingQuote + 1 \in Nat
      BY <1>0, <2>2, <2>4, <2>6
    <2>8. text[at] = "'"
      BY <2>1, <2>2 DEF CharAt
    <2>9. Grammar(ClosingQuote + 1)
      BY <2>7, <2>8, GrammarQuoted
    <2> QED BY <1>0, <1>2, <2>7, <2>9, ScansOn
  <1> QED BY <1>1, <1>2 DEF ReadQuoted

\* A character goes by.
LEMMA OtherStep == ASSUME ScanInv, ReadOther PROVE ScanInv'
  <1>0. /\ scan = "token" /\ Len(text) \in Nat /\ at \in 1..Len(text)+1 /\ LineInv /\ Grammar(at)
        /\ Goto(at + 1)
    BY LenProperties DEF ReadOther, Reading, ScanInv, LineInv, TokenInv
  <1>1. BeginsWord(at)
    BY DEF ReadOther, Here, BeginsWord
  <1>2. CharAt(text, at) # NUL
    BY <1>1 DEF BeginsWord
  <1>3. at \in 1..Len(text)
    BY <1>0, <1>2, InsideText
  <1>4. at + 1 \in 1..Len(text)+1
    BY <1>0, <1>3
  <1> QED BY <1>0, <1>1, <1>4, GrammarOther, ScansOn

\* The comma of a separator, and the word behind it.
LEMMA CommaIsAt ==
  ASSUME LineInv, Here \in Separators, ~EndsToken
  PROVE  /\ at \in 1..Len(text) /\ CommaAt \in at..Len(text)
         /\ IsComma(CommaAt) /\ BlanksIn(at, CommaAt - 1)
         /\ BehindComma \in CommaAt+1..Len(text)+1 /\ BlanksIn(CommaAt + 1, BehindComma - 1)
         /\ CharAt(text, BehindComma) \notin Blank
  <1>0. /\ Len(text) \in Nat /\ text \in Seq(Chars) /\ NUL \notin Chars
        /\ at \in 1..Len(text)+1
    BY LenProperties DEF LineInv
  <1>1. CharAt(text, at) # NUL
    BY DEF EndsToken, Here
  <1>2. at \in 1..Len(text) /\ at + 1 \in 1..Len(text)+1
    <2>1. at \in 1..Len(text)
      BY <1>0, <1>1, InsideText
    <2> QED BY <1>0, <2>1
  <1>3. CharAt(text, at) = text[at]
    BY <1>2 DEF CharAt
  <1>4. ASSUME Here = ","
        PROVE  CommaAt \in at..Len(text) /\ IsComma(CommaAt) /\ BlanksIn(at, CommaAt - 1)
    <2>1. CommaAt = at
      BY <1>4 DEF CommaAt
    <2>2. \A k \in at..at-1 : FALSE
      BY <1>2
    <2>3. IsComma(CommaAt)
      BY <1>3, <1>4, <2>1 DEF IsComma, Here
    <2>4. BlanksIn(at, CommaAt - 1)
      BY <2>1, <2>2, Zenon DEF BlanksIn
    <2>5. CommaAt \in at..Len(text)
      BY <1>2, <2>1
    <2> QED BY <1>0, <2>3, <2>4, <2>5
  <1>5. ASSUME Here \in Blank
        PROVE  CommaAt \in at..Len(text) /\ IsComma(CommaAt) /\ BlanksIn(at, CommaAt - 1)
    <2>1. CharAt(text, CommaAt) = ","
      BY <1>5 DEF EndsToken
    <2>2. CommaAt = Behind(text, at + 1)
      BY <1>5, NoBlank DEF CommaAt
    <2>3. /\ CommaAt \in at+1..Len(text)+1
          /\ \A j \in at+1..CommaAt-1 : CharAt(text, j) \in Blank
      BY <1>0, <1>2, <2>2, BehindIs
    <2>4. CommaAt \in 1..Len(text)+1 /\ CharAt(text, CommaAt) # NUL
      <3>1. CommaAt \in 1..Len(text)+1
        BY <1>0, <1>2, <2>3
      <3> QED BY <2>1, <3>1 DEF NUL
    <2>5. CommaAt \in 1..Len(text)
      BY <1>0, <2>4, InsideText
    <2>6. CommaAt \in at..Len(text)
      BY <1>0, <1>2, <2>3, <2>5
    <2>7. IsComma(CommaAt)
      <3>1. CharAt(text, CommaAt) = text[CommaAt]
        BY <2>5 DEF CharAt
      <3> QED BY <2>1, <3>1, Zenon DEF IsComma
    <2>8. BlanksIn(at, CommaAt - 1)
      <3>1. \A k \in at..CommaAt-1 : k = at \/ k \in at+1..CommaAt-1
        BY <1>2, <2>5
      <3>2. \A k \in at..CommaAt-1 : CharAt(text, k) = text[k]
        BY <1>2, <2>5 DEF CharAt
      <3> QED BY <1>5, <2>3, <3>1, <3>2, Zenon DEF BlanksIn, Here
    <2> QED BY <2>6, <2>7, <2>8
  <1>6. /\ CommaAt \in at..Len(text) /\ IsComma(CommaAt) /\ BlanksIn(at, CommaAt - 1)
    BY <1>4, <1>5 DEF Separators
  <1>7. CommaAt + 1 \in 1..Len(text)+1 /\ CommaAt \in Nat
    BY <1>0, <1>2, <1>6
  <1>8. /\ BehindComma \in CommaAt+1..Len(text)+1
        /\ CharAt(text, BehindComma) \notin Blank
        /\ \A j \in CommaAt+1..BehindComma-1 : CharAt(text, j) \in Blank
    BY <1>0, <1>7, BehindIs DEF BehindComma
  <1>9. BlanksIn(CommaAt + 1, BehindComma - 1)
    <2>1. \A k \in CommaAt+1..BehindComma-1 : k <= Len(text)
      BY <1>0, <1>7, <1>8
    <2>2. \A k \in CommaAt+1..BehindComma-1 : CharAt(text, k) = text[k]
      BY <2>1, Zenon DEF CharAt
    <2> QED BY <1>8, <2>2, Zenon DEF BlanksIn
  <1> QED BY <1>2, <1>6, <1>8, <1>9

\* A comma goes by with the blanks around it.
LEMMA CommaStep == ASSUME ScanInv, ReadComma PROVE ScanInv'
  <1>0. scan = "token" /\ LineInv /\ Grammar(at) /\ Here \in Separators /\ ~EndsToken
    BY DEF ReadComma, Reading, ScanInv, TokenInv
  <1>1. CASE ScanFails("SYNTAX_PARSE_FAIL")
    BY <1>1, ScanStops DEF ScanFails
  <1>2. CASE ~CommaLost /\ Goto(BehindComma)
    <2> DEFINE c == CommaAt
               m == BehindComma
    <2>1. /\ at \in 1..Len(text) /\ c \in at..Len(text) /\ IsComma(c) /\ BlanksIn(at, c - 1)
          /\ m \in c+1..Len(text)+1 /\ BlanksIn(c + 1, m - 1)
          /\ CharAt(text, m) \notin Blank
      BY <1>0, CommaIsAt
    <2>2. BeginsWord(m)
      BY <1>2, <2>1 DEF CommaLost, BeginsWord, Separators
    <2>3. Len(text) \in Nat
      BY <1>0, LenProperties DEF LineInv
    <2> HIDE DEF c, m
    <2>4. c \in Nat /\ m \in Nat /\ at <= c /\ c < m /\ m \in 1..Len(text)+1
      BY <2>1, <2>3
    <2>5. Grammar(m)
      BY <1>0, <2>1, <2>2, <2>4, GrammarComma
    <2> QED BY <1>0, <1>2, <2>4, <2>5, ScansOn DEF m
  <1> QED BY <1>1, <1>2 DEF ReadComma, AfterComma

\* The token ends.
LEMMA FoundStep == ASSUME ScanInv, TokenFound PROVE ScanInv'
  <1>1. /\ scan = "token" /\ EndsToken /\ token' = SubSeq(text, 1, at - 1) /\ scan' = "found"
        /\ text' = text /\ at' = at /\ items' = items /\ next' = next
    BY DEF TokenFound, Reading
  <1>2. CharAt(text, at) \in Blank \cup {NUL}
    BY <1>1 DEF EndsToken, Here
  <1>3. at > 1
    <2>1. /\ text \in Seq(Chars) /\ text # <<>> /\ NUL \notin Chars /\ text[1] \notin Blank
          /\ at \in 1..Len(text)+1
      BY DEF ScanInv, LineInv
    <2>2. Len(text) \in Nat /\ Len(text) # 0
      BY <2>1, LenProperties, EmptySeq
    <2>3. 1 <= Len(text) /\ 1 \in 1..Len(text)
      BY <2>2
    <2>4. text[1] \in Chars
      BY <2>1, <2>3, ElementOfSeq
    <2>5. CharAt(text, 1) = text[1]
      BY <2>3 DEF CharAt
    <2>6. at # 1
      BY <1>2, <2>1, <2>4, <2>5
    <2> QED BY <2>1, <2>6
  <1>4. LineInv'
    BY <1>1 DEF ScanInv, LineInv, Chars
  <1>5. Grammar(at)'
    <2>1. Grammar(at)' <=> Grammar(at)
      BY <1>1, ZenonT(40) DEF Grammar, Unquoted, IsComma, WordFollows, CommaNear, BeginsWord, BlanksIn
    <2> QED BY <1>1, <2>1 DEF ScanInv, TokenInv
  <1>6. TokenInv'
    BY <1>1, <1>2, <1>3, <1>5 DEF ScanInv, TokenInv
  <1>7. ItemsInv'
    BY <1>1 DEF ItemsInv
  <1> QED BY <1>4, <1>6, <1>7 DEF ScanInv

-----------------------------------------------------------------------------
\* The token is the beginning of the line.
LEMMA TokenIs ==
  ASSUME ScanInv, HasToken
  PROVE  /\ token \in Seq(Chars) /\ NUL \notin Chars /\ Len(token) \in Nat \ {0}
         /\ at = Len(token) + 1 /\ at <= Len(text) + 1 /\ Len(text) \in Nat
         /\ \A k \in 1..Len(token) : token[k] = text[k] /\ k \in DOMAIN token
         /\ token[1] \notin Blank
  <1>1. /\ text \in Seq(Chars) /\ NUL \notin Chars /\ at \in 1..Len(text)+1 /\ at > 1
        /\ token = SubSeq(text, 1, at - 1) /\ text[1] \notin Blank
    BY DEF ScanInv, LineInv, TokenInv
  <1>2. Len(text) \in Nat
    BY <1>1, LenProperties
  <1> DEFINE b == at - 1
  <1>3. 1 \in 1..Len(text)+1 /\ b \in (1-1)..Len(text) /\ b \in Nat \ {0} /\ b - 1 + 1 = b
        /\ at = b + 1 /\ at <= Len(text) + 1
    BY <1>1, <1>2
  <1> HIDE DEF b
  <1>4. /\ SubSeq(text, 1, b) \in Seq(Chars) /\ Len(SubSeq(text, 1, b)) = b - 1 + 1
        /\ DOMAIN SubSeq(text, 1, b) = 1..b-1+1
        /\ \A k \in 1..b-1+1 : SubSeq(text, 1, b)[k] = text[1 + k - 1]
    BY <1>1, <1>3, PartOf
  <1>5. token \in Seq(Chars) /\ Len(token) = b /\ DOMAIN token = 1..b
        /\ \A k \in 1..b : token[k] = text[1 + k - 1]
    BY <1>1, <1>3, <1>4, Zenon DEF b
  <1>6. \A k \in 1..b : 1 + k - 1 = k
    BY <1>3
  <1>7. \A k \in 1..b : token[k] = text[k] /\ k \in DOMAIN token
    BY <1>5, <1>6
  <1>8. 1 \in 1..b
    BY <1>3
  <1> QED BY <1>1, <1>2, <1>3, <1>5, <1>7, <1>8

\* What comes behind the scan leaves the token alone.
LEMMA SameToken ==
  ASSUME ScanInv, HasToken, UNCHANGED <<text, at, token>>,
         scan' \notin {"token", "SYNTAX_PARSE_FAIL", "found"}
  PROVE  LineInv' /\ TokenInv'
  <1>1. LineInv'
    BY DEF ScanInv, LineInv, Chars
  <1>2. Grammar(at)' <=> Grammar(at)
    <2>1. text' = text /\ at' = at
      OBVIOUS
    <2> QED BY <2>1, Zenon DEF Grammar, Unquoted, IsComma, WordFollows, CommaNear, BeginsWord, BlanksIn
  <1>3. TokenInv'
    BY <1>2 DEF ScanInv, TokenInv, HasToken
  <1> QED BY <1>1, <1>3

\* Before the first item nothing is cut off.
LEMMA SplitStep == ASSUME ScanInv, SplitOperand PROVE ScanInv'
  <1>1. /\ scan = "found" /\ scan' = "items" /\ HasToken
        /\ text' = text /\ at' = at /\ token' = token /\ items' = <<>> /\ next' = 1
    BY DEF SplitOperand, ScanInv, TokenInv, HasToken
  <1>2. LineInv' /\ TokenInv'
    BY <1>1, SameToken
  <1>3. token \in Seq(Chars) /\ Len(token) \in Nat \ {0} /\ token[1] \notin Blank
    BY <1>1, TokenIs
  <1>4. 1 \in 1..Len(token)+1 /\ 1 <= Len(token) /\ \A j \in 1..1-1 : FALSE
    BY <1>3
  <1>5. CharAt(token, 1) \notin Blank
    BY <1>3, <1>4 DEF CharAt
  <1>6. Behind(token, 1) = 1
    <2>1. 1 \in 1..Len(token)+1 /\ \A j \in 1..1-1 : CharAt(token, j) \in Blank
      BY <1>4
    <2> QED BY <1>3, <1>5, <2>1, BehindAt
  <1>7. <<>> \in Seq(Seq(Chars)) /\ <<>> \o FieldsFrom(token)[1] = Fields(token)
    <2>1. FieldsFrom(token)[1] \in Seq(Seq(Chars))
      BY <1>3, <1>4, FieldsType
    <2>2. <<>> \o FieldsFrom(token)[1] = FieldsFrom(token)[1]
      BY <2>1, ConcatEmptySeq
    <2> QED BY <2>2 DEF Fields
  <1>8. Cutting'
    <2>1. items' \in Seq(Seq(Chars')) /\ next' = 1
      BY <1>1, <1>7
    <2>2. 1 \in 1..Len(token')+1 /\ next' = Behind(token', 1)
          /\ items' \o FieldsFrom(token')[1] = Fields(token')
      BY <1>1, <1>4, <1>6, <1>7
    <2>3. \E q \in 1..Len(token')+1 :
            next' = Behind(token', q) /\ items' \o FieldsFrom(token')[q] = Fields(token')
      BY <2>2
    <2> QED BY <2>1, <2>3 DEF Cutting
  <1>9. ItemsInv'
    BY <1>1, <1>8 DEF ItemsInv
  <1> QED BY <1>2, <1>9 DEF ScanInv

\* The next item begins where the cutting is, and ends as a word does.
LEMMA ItemIs ==
  ASSUME ScanInv, scan = "items", NEW q \in 1..Len(token)+1, next = Behind(token, q)
  PROVE  /\ ItemStart = next /\ next \in 1..Len(token)+1 /\ CharAt(token, next) \notin Blank
         /\ CharAt(token, ItemStart) \notin {",", NUL} =>
              WordAt(token, q, ItemStart, ItemEnd, BehindItem)
  <1>1. token \in Seq(Chars) /\ Len(token) \in Nat
    BY TokenIs DEF HasToken
  <1>2. next \in q..Len(token)+1 /\ CharAt(token, next) \notin Blank
    BY <1>1, BehindIs
  <1>3. next \in 1..Len(token)+1 /\ next \in next..Len(token)+1 /\ \A j \in next..next-1 : FALSE
    BY <1>1, <1>2
  <1>4. ItemStart = next
    <2>1. \A j \in next..next-1 : CharAt(token, j) \in Blank
      BY <1>3
    <2> QED BY <1>1, <1>2, <1>3, <2>1, BehindAt DEF ItemStart
  <1> QED BY <1>2, <1>3, <1>4 DEF WordAt, ItemEnd, BehindItem, Separators

\* findToken takes one more item.
LEMMA FindStep == ASSUME ScanInv, FindItem PROVE ScanInv'
  <1> DEFINE n == Len(token)
             p == ItemStart
             w == ItemEnd
             d == BehindItem
             word == SubSeq(token, p, w - 1)
  <1>1. /\ scan = "items" /\ HasToken /\ ~ItemMissing /\ items' = Append(items, word)
        /\ text' = text /\ at' = at /\ token' = token
        /\ scan' \notin {"token", "SYNTAX_PARSE_FAIL", "found", "no item"}
    BY DEF FindItem, HasToken
  <1>2. LineInv' /\ TokenInv'
    BY <1>1, SameToken
  <1>3. token \in Seq(Chars) /\ NUL \notin Chars /\ n \in Nat
    BY <1>1, TokenIs
  <1>4. PICK q \in 1..n+1 : next = Behind(token, q) /\ items \o FieldsFrom(token)[q] = Fields(token)
    BY <1>1 DEF ScanInv, ItemsInv, Cutting
  <1>5. WordAt(token, q, p, w, d)
    BY <1>1, <1>4, ItemIs DEF ItemMissing
  <1>6. p \in Int /\ w \in Int /\ d \in Int
    <2>1. p \in 1..n+1
      BY <1>1, <1>4, ItemIs
    <2>2. w \in p..n+1
      BY <1>3, <2>1, FirstInIs DEF ItemEnd
    <2>3. w \in 1..n+1
      BY <1>3, <2>1, <2>2
    <2>4. d \in w..n+1
      BY <1>3, <2>3, BehindIs DEF BehindItem
    <2> QED BY <1>3, <2>1, <2>3, <2>4
  <1>7. items \in Seq(Seq(Chars))
    BY <1>1 DEF ScanInv, ItemsInv, Cutting
  <1> HIDE DEF n, p, w, d, word
  <1>8. word \in Seq(Chars) /\ d \in w..n+1 /\ w \in p+1..n+1 /\ p \in q..n
    BY <1>3, <1>4, <1>5, <1>6, WordIs DEF word, n
  <1>9. FieldsFrom(token)[q] = IF CommaFrom(token, q) > n THEN <<FieldAt(token, q)>>
                               ELSE <<FieldAt(token, q)>> \o FieldsFrom(token)[CommaFrom(token, q) + 1]
    BY <1>3, <1>4, FieldsEquation DEF n
  <1>10. ASSUME CharAt(token, d) = NUL, scan' = "split" PROVE ScanInv'
    <2>1. CommaFrom(token, q) = n + 1 /\ \A b \in w-1..n : Strip(SubSeq(token, q, b)) = word
      BY <1>3, <1>4, <1>5, <1>6, <1>10, WordLast DEF n, word
    <2>2. (n + 1) - 1 = n /\ n + 1 > n /\ n \in w-1..n
      BY <1>3, <1>4, <1>8
    <2>3. FieldAt(token, q) = word
      BY <2>1, <2>2 DEF FieldAt
    <2>4. FieldsFrom(token)[q] = <<word>>
      BY <1>9, <2>1, <2>2, <2>3
    <2>5. items' = Fields(token')
      BY <1>1, <1>4, <1>7, <1>8, <2>4, AppendIsConcat
    <2> QED BY <1>2, <1>10, <2>5 DEF ScanInv, ItemsInv
  <1>11. ASSUME CharAt(token, d) = ",", next' = NextItem, scan' = scan PROVE ScanInv'
    <2>1. d \in 1..n /\ CommaFrom(token, q) = d /\ Strip(SubSeq(token, q, d - 1)) = word
      <3>1. q \in 1..Len(token)+1
        BY <1>4 DEF n
      <3>2. CharAt(token, d) = "," => CommaCuts(token, q, p, w, d)
        BY <1>3, <1>5, <1>6, <3>1, WordComma
      <3> QED BY <1>11, <3>2 DEF CommaCuts, n, word
    <2>2. ~(d > n) /\ d + 1 \in 1..n+1
      BY <1>3, <2>1
    <2>3. FieldsFrom(token)[q] = <<word>> \o FieldsFrom(token)[d + 1]
      BY <1>9, <2>1, <2>2 DEF FieldAt
    <2>4. FieldsFrom(token)[d + 1] \in Seq(Seq(Chars))
      BY <1>3, <2>2, FieldsType DEF n
    <2>5. Append(items, word) \o FieldsFrom(token)[d + 1] = Fields(token)
      BY <1>4, <1>7, <1>8, <2>3, <2>4, AppendBefore
    <2>6. next' = Behind(token', d + 1)
      BY <1>1, <1>11 DEF NextItem, d
    <2>7. CharAt(token', next') \notin {",", NUL}
      BY <1>1, <1>11 DEF ItemMissing, d
    <2>8. items' \in Seq(Seq(Chars'))
      <3>1. Chars' = Chars
        BY <1>1 DEF Chars
      <3> QED BY <1>1, <1>7, <1>8, <3>1, AppendProperties
    <2>9. Cutting'
      <3>1. d + 1 \in 1..Len(token')+1 /\ items' \o FieldsFrom(token')[d + 1] = Fields(token')
        BY <1>1, <2>2, <2>5 DEF n
      <3>2. \E r \in 1..Len(token')+1 :
              next' = Behind(token', r) /\ items' \o FieldsFrom(token')[r] = Fields(token')
        BY <2>6, <3>1
      <3> QED BY <2>7, <2>8, <3>2 DEF Cutting
    <2> QED BY <1>1, <1>2, <1>11, <2>9 DEF ScanInv, ItemsInv
  <1> QED BY <1>10, <1>11 DEF FindItem, d

\* What getTokenSize lets through, findToken finds in it, but for a comma in front.
LEMMA MissingStep == ASSUME ScanInv, NoItem PROVE ScanInv'
  <1> DEFINE n == Len(token)
             p == ItemStart
             w == ItemEnd
             d == BehindItem
  <1>1. /\ scan = "items" /\ HasToken /\ ItemMissing /\ scan' = "no item"
        /\ text' = text /\ at' = at /\ token' = token /\ items' = items /\ next' = next
    BY DEF NoItem, ScanFails, HasToken
  <1>2. LineInv' /\ TokenInv'
    BY <1>1, SameToken
  <1>0. SUFFICES ASSUME "'" \notin Range(token) PROVE token[1] = ","
    BY <1>1, <1>2 DEF ScanInv, ItemsInv
  <1>3. /\ token \in Seq(Chars) /\ NUL \notin Chars /\ n \in Nat \ {0}
        /\ at = n + 1 /\ n <= Len(text) /\ Len(text) \in Nat
        /\ \A k \in 1..n : token[k] = text[k] /\ k \in DOMAIN token
    <2>1. /\ token \in Seq(Chars) /\ NUL \notin Chars /\ n \in Nat \ {0}
          /\ at = n + 1 /\ at <= Len(text) + 1 /\ Len(text) \in Nat
          /\ \A k \in 1..n : token[k] = text[k] /\ k \in DOMAIN token
      BY <1>1, TokenIs
    <2> HIDE DEF n
    <2>2. n <= Len(text)
      BY <2>1
    <2> QED BY <2>1, <2>2
  <1>4. PICK q \in 1..n+1 : next = Behind(token, q)
    BY <1>1 DEF ScanInv, ItemsInv, Cutting
  <1>5. next = 1 \/ CharAt(token, next) \notin {",", NUL}
    BY <1>1 DEF ScanInv, ItemsInv, Cutting
  <1>6. p = next /\ (CharAt(token, p) \notin {",", NUL} => WordAt(token, q, p, w, d))
    BY <1>1, <1>4, ItemIs
  <1> HIDE DEF n
  <1>7. Unquoted(at)
    <2>1. at - 1 = n
      BY <1>3
    <2>2. \A j \in 1..n : text[j] \in Range(token)
      BY <1>3, Zenon DEF Range
    <2>3. \A j \in 1..n : text[j] # "'"
      BY <1>0, <2>2, Zenon
    <2> QED BY <2>1, <2>3 DEF Unquoted
  <1>8. \A j \in 1..n : /\ IsComma(j) => WordFollows(j, at)
                        /\ text[j] \in Blank => CommaNear(j, at)
    <2>1. at - 1 = n
      BY <1>3
    <2>2. Grammar(at)
      BY <1>1 DEF ScanInv, TokenInv
    <2> QED BY <1>7, <2>1, <2>2 DEF Grammar
  <1>9. CharAt(text, at) \in Blank \cup {NUL}
    BY <1>1 DEF ScanInv, TokenInv
  <1>10. \A k \in 1..n : CharAt(token, k) = text[k] /\ CharAt(text, k) = text[k]
    BY <1>3 DEF CharAt
  <1>11. CASE CharAt(token, p) \in {",", NUL}
    <2>1. p = 1
      BY <1>5, <1>6, <1>11
    <2>2. 1 \in 1..n
      BY <1>3
    <2>3. CharAt(token, 1) = token[1]
      BY <1>3, <1>10, <2>2 DEF n
    <2>4. token[1] \in Chars
      BY <1>3, <2>2, ElementOfSeq DEF n
    <2> QED BY <1>3, <1>11, <2>1, <2>3, <2>4
  <1>12. CASE CharAt(token, p) \notin {",", NUL}
    <2>0. p \in Int /\ w \in Int /\ d \in Int
      <3>1. p \in 1..n+1
        BY <1>1, <1>4, <1>6, ItemIs DEF n
      <3>2. w \in p..n+1
        BY <1>3, <3>1, FirstInIs DEF ItemEnd, n
      <3>3. w \in 1..n+1
        BY <1>3, <3>1, <3>2
      <3>4. d \in w..n+1
        BY <1>3, <3>3, BehindIs DEF BehindItem, n
      <3> QED BY <1>3, <3>1, <3>3, <3>4
    <2>1. WordAt(token, q, p, w, d)
      BY <1>6, <1>12
    <2> HIDE DEF p, w, d
    <2>2. /\ \A j \in p..w-1 : token[j] \notin Blank \cup {","}
          /\ \A j \in w..d-1 : token[j] \in Blank
      BY <1>3, <1>4, <2>0, <2>1, WordIs DEF n
    <2>7. p \in q..n /\ w \in p+1..n+1 /\ d \in w..n+1
      BY <1>3, <1>4, <2>0, <2>1, WordIs DEF n
    <2>8. n \in Nat
      BY <1>3
    <2>3. q >= 1 /\ p >= 1 /\ w > p /\ d >= w /\ d <= n + 1 /\ w - 1 \in p..w-1 /\ w - 1 \in 1..n
      BY <2>7, <2>8
    <2>4. CASE CharAt(token, d) = ","
      <3>1. CharAt(token, NextItem) \in {",", NUL}
        BY <1>1, <1>12, <2>4 DEF ItemMissing, p, d, NUL
      <3>2. d \in 1..n+1 /\ CharAt(token, d) # NUL
        <4>1. d \in 1..n+1
          BY <2>0, <2>3, <2>8
        <4> QED BY <2>4, <4>1 DEF NUL
      <3>3. d \in 1..n
        BY <1>3, <3>2, InsideText DEF n
      <3>4. IsComma(d)
        BY <1>10, <2>4, <3>3 DEF IsComma
      <3>5. PICK m \in d+1..at : BeginsWord(m) /\ BlanksIn(d + 1, m - 1)
        BY <1>8, <3>3, <3>4 DEF WordFollows
      <3>6. m # at
        BY <1>9, <3>5 DEF BeginsWord, Separators
      <3>7. m \in 1..n /\ m \in d+1..n+1 /\ d + 1 \in 1..n+1
        BY <1>3, <3>3, <3>5, <3>6, SMTT(20)
      <3>8. CharAt(token, m) \notin Separators \cup {NUL}
        BY <1>10, <3>5, <3>7 DEF BeginsWord
      <3>9. \A j \in d+1..m-1 : CharAt(token, j) \in Blank
        <4>1. \A j \in d+1..m-1 : j \in 1..n
          BY <2>0, <2>8, <3>3, <3>7
        <4> QED BY <1>10, <3>5, <4>1, Zenon DEF BlanksIn
      <3>10. Behind(token, d + 1) = m
        <4>1. CharAt(token, m) \notin Blank
          BY <3>8 DEF Separators
        <4> QED BY <1>3, <3>7, <3>9, <4>1, BehindAt DEF n
      <3> QED BY <3>1, <3>8, <3>10 DEF NextItem, d, Separators
    <2>5. CASE CharAt(token, d) \notin {",", NUL}
      <3>1. d \in 1..n
        <4>2. d \in 1..n+1
          BY <2>0, <2>3, <2>8
        <4>1. d \in 1..n+1 /\ CharAt(token, d) # NUL
          BY <2>5, <4>2
        <4> QED BY <1>3, <4>1, InsideText DEF n
      <3>2. text[d] \notin Blank
        <4>3. w \in 1..n+1
          BY <2>0, <2>3, <2>8
        <4>1. d = Behind(token, w) /\ w \in 1..n+1
          BY <2>1, <4>3, Zenon DEF WordAt
        <4>2. CharAt(token, d) \notin Blank
          BY <1>3, <4>1, BehindIs DEF n
        <4> QED BY <1>10, <3>1, <4>2
      <3>3. text[d] # ","
        BY <1>10, <2>5, <3>1
      <3>4. CharAt(token, w) \in Blank
        <4>5. p \in 1..n+1 /\ w \in 1..n
          BY <2>0, <2>3, <2>8, <3>1
        <4>1. w = FirstIn(token, p, Blank \cup {","}) /\ p \in 1..n+1 /\ w \in 1..n
          BY <2>1, <4>5, Zenon DEF WordAt
        <4>2. CharAt(token, w) \in (Blank \cup {","}) \cup {NUL}
          BY <1>3, <4>1, FirstInIs DEF n
        <4>3. CharAt(token, w) # NUL
          <5>1. token[w] \in Chars
            BY <1>3, <4>1, ElementOfSeq DEF n
          <5> QED BY <1>3, <1>10, <4>1, <5>1
        <4>4. CharAt(token, w) # ","
          <5>1. ASSUME CharAt(token, w) = "," PROVE FALSE
            <6>1. CharAt(token, w) \notin Blank
              BY <5>1, NoBlank
            <6>2. d = Behind(token, w)
              BY <2>1 DEF WordAt
            <6>3. w \in w..n+1 /\ w \in 1..n+1 /\ \A j \in w..w-1 : FALSE
              BY <2>8, <4>5
            <6>4. \A j \in w..w-1 : CharAt(token, j) \in Blank
              BY <6>3
            <6>5. d = w
              BY <1>3, <6>1, <6>2, <6>3, <6>4, BehindAt DEF n
            <6> QED BY <2>5, <5>1, <6>5
          <5> QED BY <5>1
        <4> QED BY <4>2, <4>3, <4>4
      <3>5. w # d
        <4>1. CharAt(token, d) = text[d]
          BY <1>10, <3>1
        <4> QED BY <3>2, <3>4, <4>1
      <3>6. w \in 1..n /\ w < d
        BY <2>0, <2>3, <2>8, <3>1, <3>5
      <3>7. text[w] \in Blank
        BY <1>10, <3>4, <3>6
      <3>8. PICK c \in 1..at-1 : IsComma(c) /\ BlanksIn(c + 1, w - 1) /\ BlanksIn(w + 1, c - 1)
        BY <1>8, <3>6, <3>7 DEF CommaNear
      <3>9. text[c] = "," /\ text[c] \notin Blank
        BY <3>8, NoBlank DEF IsComma
      <3>10. text[w - 1] \notin Blank \cup {","}
        BY <1>3, <2>2, <2>3
      <3>11. c # w /\ c # d /\ c # w - 1
        <4>1. c # w
          BY <3>7, <3>9
        <4>2. c # d
          BY <3>3, <3>9
        <4>3. c # w - 1
          BY <3>9, <3>10
        <4> QED BY <4>1, <4>2, <4>3
      <3>12. ~(w - 1 \in c+1..w-1)
        BY <3>8, <3>10 DEF BlanksIn
      <3>13. ~(d \in w+1..c-1)
        BY <3>2, <3>8 DEF BlanksIn
      <3>14. ~(c \in w..d-1)
        <4>1. ASSUME c \in w..d-1 PROVE FALSE
          <5>1. token[c] \in Blank
            BY <2>2, <4>1
          <5>2. c \in 1..n
            BY <2>0, <2>3, <2>8, <4>1
          <5> QED BY <1>3, <3>9, <5>1, <5>2
        <4> QED BY <4>1
      <3>15. c \in Int /\ c <= n
        BY <1>3
      <3>16. w - 1 \in c+1..w-1 \/ d \in w+1..c-1 \/ c \in w..d-1 \/ c = w - 1 \/ c = d
        <4>1. c < w - 1 \/ c > d \/ c = w - 1 \/ c = d \/ (c >= w /\ c < d)
          BY <2>0, <3>6, <3>15
        <4> QED BY <2>0, <3>6, <3>15, <4>1
      <3> QED BY <3>11, <3>12, <3>13, <3>14, <3>16
    <2>6. CharAt(token, d) # NUL
      BY <1>1, <1>12 DEF ItemMissing, p, d, NUL
    <2> QED BY <2>4, <2>5, <2>6
  <1> QED BY <1>11, <1>12

\* The passes leave line and token alone.
LEMMA PassesKeep ==
  ASSUME ScanInv, HasToken, UNCHANGED <<text, at, token, items, next>>,
         scan' \notin {"token", "SYNTAX_PARSE_FAIL", "found", "items", "split", "no item"}
  PROVE  ScanInv'
  <1>1. LineInv' /\ TokenInv'
    BY SameToken
  <1> QED BY <1>1 DEF ScanInv, ItemsInv

\* Every step keeps the invariant of scanning.
LEMMA ScanInvStep == ScanInv /\ [LiteralNext]_literalVars => ScanInv'
  <1> SUFFICES ASSUME ScanInv, [LiteralNext]_literalVars PROVE ScanInv'
    OBVIOUS
  <1>1. CASE ScanNext
    BY <1>1, QuotedStep, CommaStep, OtherStep, FoundStep, SplitStep, FindStep, MissingStep DEF ScanNext
  <1>2. CASE Measure \/ RefuseLiteral \/ BeginCode \/ ShiftIn \/ PrintCode
    <2>1. UNCHANGED <<text, at, token, items, next>> /\ scan \in {"found", "measured", "shifting"}
      BY <1>2 DEF Measure, RefuseLiteral, BeginCode, ShiftIn, PrintCode, AtLiteral
    <2>2. scan' \in {"measured", "INVALID_OPERAND_FORMAT", "CONSTANT_TOO_LARGE", "undefined",
                     "shifting", "printed"}
      BY <1>2 DEF Measure, RefuseLiteral, BeginCode, ShiftIn, PrintCode, AtLiteral
    <2> QED BY <2>1, <2>2, PassesKeep DEF HasToken
  <1>3. CASE UNCHANGED literalVars
    <2>1. /\ text' = text /\ at' = at /\ token' = token /\ items' = items /\ next' = next
          /\ scan' = scan
      BY <1>3 DEF literalVars, scanVars
    <2>2. LineInv' /\ Chars' = Chars
      BY <2>1 DEF ScanInv, LineInv, Chars
    <2>3. Grammar(at)' <=> Grammar(at)
      BY <2>1, ZenonT(40) DEF Grammar, Unquoted, IsComma, WordFollows, CommaNear, BeginsWord, BlanksIn
    <2>4. TokenInv'
      BY <2>1, <2>3 DEF ScanInv, TokenInv, HasToken
    <2>5. ItemsInv'
      BY <2>1, <2>2 DEF ScanInv, ItemsInv, Cutting
    <2> QED BY <2>2, <2>4, <2>5 DEF ScanInv
  <1> QED BY <1>1, <1>2, <1>3 DEF LiteralNext

\* The invariant of scanning holds throughout.
LEMMA ScanInvariant == LiteralSpec => []ScanInv
  BY ScanInvInit, ScanInvStep, PTL DEF LiteralSpec

(* findToken cuts a token into what stands between its commas, and refuses   *)
(* none that getTokenSize has let through but one that begins with a comma   *)
(* or holds quotes (util.c:184, assemble_pass2.c:318).                       *)
THEOREM ItemsCutAsMeant == LiteralSpec => []ItemsAsMeant
  <1>1. ScanInv => ItemsAsMeant
    BY DEF ScanInv, ItemsInv, ItemsAsMeant
  <1> QED BY <1>1, ScanInvariant, PTL

-----------------------------------------------------------------------------
(* Both passes have measured: pass 1 a literal that it has matched and that  *)
(* fits a record, pass 2 what stands between the quote and the end of the    *)
(* token.                                                                    *)
LengthInv ==
  /\ scan \in {"measured", "shifting", "printed", "undefined"} =>
       Matched /\ FitsRecord /\ byteLen = MeasuredLen
  /\ scan \in {"shifting", "printed"} => objcodeLen = CodeLen /\ CodeLen <= TRECORD_CODE_LIMIT
  /\ scan = "undefined" => CodeLen > TRECORD_CODE_LIMIT

\* A literal has its quotes, and characters between them.
LEMMA MatchedIs ==
  ASSUME ScanInv, HasToken, Matched
  PROVE  /\ token \in Seq(Chars) /\ Len(token) \in Nat /\ Stop \in 4..Len(token)
         /\ Content \in Seq(Chars) /\ Len(Content) = Len(token) - 3 /\ Len(Content) \in Nat
         /\ \A k \in 1..Len(Content) : Content[k] = token[k + 2]
         /\ IsHex /\ ~IsChar => \A k \in 3..Stop-1 : token[k] \in DOMAIN HexValue
  <1> DEFINE n == Len(token)
  <1>1. token \in Seq(Chars) /\ NUL \notin Chars /\ n \in Nat \ {0}
    BY TokenIs
  <1>2. CharAt(token, Stop) = "'" /\ Stop > 3 /\ CharAt(token, 2) = "'" /\ ~isEOS(3)
    BY DEF Matched
  <1> HIDE DEF n
  <1>3. 3 \in 1..n+1
    <2>1. 2 <= n
      BY <1>2 DEF CharAt, NUL, n
    <2> QED BY <1>1, <2>1
  <1>4. /\ Stop \in 3..n+1
        /\ ~IsChar => \A k \in 3..Stop-1 : CharAt(token, k) \in DOMAIN HexValue
    <2>1. CASE IsChar
      <3>1. FirstIn(token, 3, {"'"}) \in 3..n+1
        BY <1>1, <1>3, FirstInIs DEF n
      <3> QED BY <2>1, <3>1 DEF Stop
    <2>2. CASE ~IsChar
      <3> DEFINE stops == {k \in 3..n+1 : CharAt(token, k) \notin DOMAIN HexValue}
      <3>1. n + 1 \in stops
        <4>1. n + 1 \in 3..n+1 /\ ~(n + 1 <= n)
          BY <1>1, <1>3
        <4>2. CharAt(token, n + 1) = NUL
          BY <4>1 DEF CharAt, n
        <4> QED BY <4>1, <4>2, LiteralAssumption
      <3>2. stops \in SUBSET Nat
        BY <1>1
      <3>3. Stop = Min(stops)
        BY <2>2 DEF Stop, n
      <3>4. \A k \in 3..n+1 : k \notin stops => CharAt(token, k) \in DOMAIN HexValue
        OBVIOUS
      <3>5. stops \subseteq 3..n+1
        OBVIOUS
      <3> HIDE DEF stops
      <3>6. Stop \in stops /\ \A k \in stops : Stop <= k
        BY <3>1, <3>2, <3>3, MinOf
      <3>7. Stop \in 3..n+1
        BY <3>5, <3>6
      <3>8. \A k \in 3..Stop-1 : k \in 3..n+1 /\ ~(Stop <= k)
        BY <1>1, <3>7
      <3> QED BY <3>4, <3>6, <3>7, <3>8
    <2> QED BY <2>1, <2>2
  <1>5. Stop \in 4..n
    <2>1. Stop \in 1..n+1 /\ CharAt(token, Stop) # NUL
      BY <1>1, <1>2, <1>4 DEF NUL
    <2>2. Stop \in 1..n
      BY <1>1, <2>1, InsideText DEF n
    <2>3. Stop > 3
      BY <1>2
    <2> QED BY <1>1, <2>2, <2>3
  <1> DEFINE b == n - 1
  <1>6. b \in (3-1)..n /\ b - 3 + 1 = n - 3 /\ n - 3 \in Nat
    BY <1>1, <1>5
  <1> HIDE DEF b
  <1>7. /\ SubSeq(token, 3, b) \in Seq(Chars) /\ Len(SubSeq(token, 3, b)) = b - 3 + 1
        /\ \A k \in 1..b-3+1 : SubSeq(token, 3, b)[k] = token[3 + k - 1]
    BY <1>1, <1>3, <1>6, PartOf DEF n
  <1>8. Content \in Seq(Chars) /\ Len(Content) = n - 3
        /\ \A k \in 1..n-3 : Content[k] = token[3 + k - 1]
    BY <1>6, <1>7, Zenon DEF Content, b, n
  <1>9. \A k \in 1..n-3 : 3 + k - 1 = k + 2
    BY <1>6
  <1>10. \A k \in 1..Len(Content) : Content[k] = token[k + 2]
    BY <1>8, <1>9
  <1>11. ~IsChar => \A k \in 3..Stop-1 : token[k] \in DOMAIN HexValue
    <2>1. \A k \in 3..Stop-1 : k <= n
      BY <1>1, <1>5
    <2>2. \A k \in 3..Stop-1 : CharAt(token, k) = token[k]
      BY <2>1, Zenon DEF CharAt, n
    <2> QED BY <1>4, <2>2
  <1> QED BY <1>1, <1>5, <1>6, <1>8, <1>10, <1>11 DEF n

\* When nothing stands behind the quote, both passes see the same characters.
LEMMA SameLength ==
  ASSUME ScanInv, HasToken, Matched, QuoteLast PROVE CodeLen = MeasuredLen
  <1>1. Len(Content) = Stop - 3 /\ Stop \in Nat /\ (Stop - 3) + 1 = Stop - 2
    BY MatchedIs DEF QuoteLast
  <1> QED BY <1>1, Zenon DEF CodeLen, MeasuredLen

\* Every step keeps what is known of the lengths.
LEMMA LengthStep ==
  ASSUME ScanInv, LengthInv, [LiteralNext]_literalVars PROVE LengthInv'
  <1>1. CASE ScanNext
    <2>1. scan' \in {"token", "SYNTAX_PARSE_FAIL", "found", "items", "split", "no item"}
      BY <1>1 DEF ScanNext, ReadQuoted, ReadComma, ReadOther, TokenFound, SplitOperand, FindItem,
         NoItem, ScanFails, Goto, Reading
    <2> QED BY <2>1 DEF LengthInv
  <1>2. CASE RefuseLiteral
    <2>1. scan' \in {"INVALID_OPERAND_FORMAT", "CONSTANT_TOO_LARGE"}
      BY <1>2 DEF RefuseLiteral
    <2> QED BY <2>1 DEF LengthInv
  <1>3. ASSUME token' = token
        PROVE  /\ Matched' <=> Matched
               /\ FitsRecord' <=> FitsRecord
               /\ MeasuredLen' = MeasuredLen /\ CodeLen' = CodeLen
    <2>1. IsChar' = IsChar /\ IsHex' = IsHex /\ Stop' = Stop /\ Content' = Content
      BY <1>3, Zenon DEF IsChar, IsHex, Stop, Content
    <2>2. MeasuredLen' = MeasuredLen /\ CodeLen' = CodeLen
      BY <2>1, Zenon DEF MeasuredLen, CodeLen
    <2>3. Matched' <=> Matched
      BY <1>3, <2>1, Zenon DEF Matched, isEOS
    <2> QED BY <2>2, <2>3 DEF FitsRecord
  <1>4. CASE Measure
    BY <1>3, <1>4 DEF Measure, AtLiteral, LengthInv
  <1>5. CASE BeginCode
    <2>1. /\ scan = "measured" /\ token' = token /\ byteLen' = byteLen /\ objcodeLen' = CodeLen
          /\ scan' = IF CodeLen > TRECORD_CODE_LIMIT THEN "undefined" ELSE "shifting"
      BY <1>5 DEF BeginCode, AtLiteral
    <2>2. Matched' /\ FitsRecord' /\ byteLen' = MeasuredLen' /\ objcodeLen' = CodeLen'
      BY <1>3, <2>1 DEF LengthInv
    <2>3. CodeLen \in Nat /\ TRECORD_CODE_LIMIT \in Nat
      <3>1. Len(Content) \in Nat
        BY <2>1, MatchedIs DEF LengthInv, HasToken
      <3> QED BY <3>1, LiteralAssumption DEF CodeLen
    <2>4. CASE CodeLen > TRECORD_CODE_LIMIT
      BY <1>3, <2>1, <2>2, <2>4 DEF LengthInv
    <2>5. CASE CodeLen <= TRECORD_CODE_LIMIT
      <3>1. scan' = "shifting"
        BY <2>1, <2>3, <2>5
      <3> QED BY <1>3, <2>1, <2>2, <2>5, <3>1 DEF LengthInv
    <2> QED BY <2>3, <2>4, <2>5
  <1>6. CASE ShiftIn
    BY <1>3, <1>6 DEF ShiftIn, AtLiteral, LengthInv
  <1>7. CASE PrintCode
    BY <1>3, <1>7 DEF PrintCode, AtLiteral, LengthInv
  <1>8. CASE UNCHANGED literalVars
    <2>1. token' = token /\ scan' = scan /\ byteLen' = byteLen /\ objcodeLen' = objcodeLen
      BY <1>8 DEF literalVars, scanVars
    <2> QED BY <1>3, <2>1 DEF LengthInv
  <1> QED BY <1>1, <1>2, <1>4, <1>5, <1>6, <1>7, <1>8 DEF LiteralNext

\* The invariant of the lengths holds throughout.
LEMMA LengthInvariant == LiteralSpec => []LengthInv
  <1>1. LiteralInit => LengthInv
    BY DEF LiteralInit, ScanInit, LengthInv
  <1>2. ScanInv /\ LengthInv /\ [LiteralNext]_literalVars => LengthInv'
    BY LengthStep
  <1> QED BY <1>1, <1>2, ScanInvariant, PTL DEF LiteralSpec

(* Pass 1 and pass 2 give a literal the same length when nothing stands      *)
(* behind its quote, and then it fits the record (assemble_pass1.c:123,      *)
(* assemble_pass2.c:169).                                                    *)
THEOREM PassesAgreeOnLength == LiteralSpec => []LengthsAgree
  <1>1. ScanInv /\ LengthInv => LengthsAgree
    <2> SUFFICES ASSUME ScanInv, LengthInv PROVE LengthsAgree
      OBVIOUS
    <2>1. CASE scan \in {"shifting", "printed"} /\ QuoteLast
      <3>1. objcodeLen = byteLen
        BY <2>1, SameLength DEF LengthInv, HasToken
      <3> QED BY <2>1, <3>1 DEF LengthsAgree
    <2>2. CASE scan = "undefined" /\ QuoteLast
      <3>1. MeasuredLen <= TRECORD_CODE_LIMIT /\ MeasuredLen > TRECORD_CODE_LIMIT
        BY <2>2, SameLength DEF LengthInv, HasToken, FitsRecord
      <3>2. MeasuredLen \in Int /\ TRECORD_CODE_LIMIT \in Int
        <4>1. Matched /\ HasToken
          BY <2>2 DEF LengthInv, HasToken
        <4>2. Stop \in Int
          BY <4>1, MatchedIs
        <4> QED BY <4>2, LiteralAssumption DEF MeasuredLen
      <3> QED BY <3>1, <3>2
    <2> QED BY <2>1, <2>2 DEF LengthsAgree
  <1> QED BY <1>1, ScanInvariant, LengthInvariant, PTL

-----------------------------------------------------------------------------
\* Digits of a word.
WordSize == 2 * SZ

\* How many digits of word w are among the first u.
InWord(w, u) ==
  IF u <= w * WordSize THEN 0
  ELSE IF u >= w * WordSize + WordSize THEN WordSize
  ELSE u - w * WordSize

\* Word w holds those of the first u digits that belong to it, behind the old ones.
WordHolds(word, d, digits, w, u) ==
  /\ word \in Seq(0..15) /\ Len(word) = WordSize
  /\ \A j \in 1..WordSize :
       word[j] = IF j + InWord(w, u) <= WordSize THEN d
                 ELSE digits[w * WordSize + (j + InWord(w, u) - WordSize)]

\* A word of objcodeBuf has two digits for each of its bytes.
LEMMA SizeIs == WordSize \in Nat \ {0} /\ SZ \in Nat \ {0} /\ WordSize = 2 * SZ
  BY LiteralAssumption DEF WordSize

\* A word shows at most all of its digits.
LEMMA InWordIs ==
  ASSUME NEW w \in Nat, NEW u \in Nat PROVE InWord(w, u) \in 0..WordSize /\ w * WordSize \in Nat
  <1> DEFINE b == w * WordSize
  <1>1. b \in Nat /\ WordSize \in Nat
    BY SizeIs, ProductIsNat
  <1> HIDE DEF b
  <1>2. (IF u <= b THEN 0 ELSE IF u >= b + WordSize THEN WordSize ELSE u - b) \in 0..WordSize
    BY <1>1
  <1> QED BY <1>1, <1>2, Zenon DEF InWord, b

\* The word with m more digits, those behind the first u.
ShiftedWord(new, word, digits, u, m) ==
  /\ new \in Seq(0..15) /\ Len(new) = WordSize
  /\ \A j \in 1..WordSize :
       new[j] = IF j + m <= WordSize THEN word[j + m] ELSE digits[u + (j + m - WordSize)]

\* m digits shifted into the word they belong to.
LEMMA ShiftHolds ==
  ASSUME NEW word, NEW new, NEW d, NEW digits, NEW w \in Nat, NEW u \in Nat, NEW m \in Nat \ {0},
         w * WordSize <= u, u + m <= w * WordSize + WordSize,
         WordHolds(word, d, digits, w, u), ShiftedWord(new, word, digits, u, m)
  PROVE  WordHolds(new, d, digits, w, u + m)
  <1> DEFINE b == w * WordSize
             z == WordSize
             i == InWord(w, u)
             k == InWord(w, u + m)
  <1>1. b \in Nat /\ z \in Nat \ {0} /\ b <= u /\ u + m <= b + z
    BY SizeIs, ProductIsNat
  <1>2. i = IF u <= b THEN 0 ELSE IF u >= b + z THEN z ELSE u - b
    BY DEF InWord
  <1>3. k = IF u + m <= b THEN 0 ELSE IF u + m >= b + z THEN z ELSE (u + m) - b
    BY DEF InWord
  <1>4. \A j \in 1..z : word[j] = IF j + i <= z THEN d ELSE digits[b + (j + i - z)]
    BY DEF WordHolds
  <1>5. \A j \in 1..z : new[j] = IF j + m <= z THEN word[j + m] ELSE digits[u + (j + m - z)]
    BY DEF ShiftedWord
  <1> HIDE DEF i, k, b
  <1>6. i = u - b /\ k = (u + m) - b
    BY <1>1, <1>2, <1>3
  <1>7. ASSUME NEW j \in 1..z PROVE new[j] = IF j + k <= z THEN d ELSE digits[b + (j + k - z)]
    <2>1. CASE j + m <= z
      <3>1. j + m \in 1..z /\ (j + m) + i = j + k
        BY <1>1, <1>6, <2>1
      <3>2. new[j] = word[j + m]
        BY <1>5, <2>1
      <3> DEFINE p == j + m
      <3>3. p \in 1..z /\ p + i = j + k /\ new[j] = word[p]
        BY <3>1, <3>2
      <3> HIDE DEF p, z
      <3>4. CASE j + k <= z
        <4>1. p + i <= z
          BY <3>3, <3>4
        <4>2. word[p] = d
          BY <1>4, <3>3, <4>1, Zenon
        <4> QED BY <3>3, <3>4, <4>2
      <3>5. CASE ~(j + k <= z)
        <4>1. ~(p + i <= z) /\ b + (p + i - z) = b + (j + k - z)
          <5>1. b \in Nat /\ z \in Nat /\ i \in Int /\ k \in Int
            BY <1>1, <1>6 DEF z
          <5> QED BY <3>3, <3>5, <5>1
        <4>2. word[p] = digits[b + (p + i - z)]
          BY <1>4, <3>3, <4>1, Zenon
        <4> QED BY <3>3, <3>5, <4>1, <4>2
      <3> QED BY <3>4, <3>5
    <2>2. CASE ~(j + m <= z)
      <3>1. u + (j + m - z) = b + (j + k - z) /\ ~(j + k <= z)
        BY <1>1, <1>6, <2>2
      <3> QED BY <1>5, <2>2, <3>1, Zenon
    <2> QED BY <2>1, <2>2
  <1> QED BY <1>7 DEF WordHolds, ShiftedWord, b, k

\* They do not count in the other words.
LEMMA OtherHolds ==
  ASSUME NEW word, NEW d, NEW digits, NEW w \in Nat, NEW v \in Nat, v # w,
         NEW u \in Nat, NEW m \in Nat,
         w * WordSize <= u, u + m <= w * WordSize + WordSize,
         WordHolds(word, d, digits, v, u)
  PROVE  WordHolds(word, d, digits, v, u + m)
  <1> DEFINE b == w * WordSize
             c == v * WordSize
             z == WordSize
  <1>1. b \in Nat /\ c \in Nat /\ z \in Nat \ {0} /\ b <= u /\ u + m <= b + z
    BY SizeIs, ProductIsNat
  <1>2. c + z <= b \/ b + z <= c
    <2>1. v < w \/ w < v
      OBVIOUS
    <2> QED BY <1>1, <2>1, LaterRow
  <1> HIDE DEF b, c
  <1>3. (IF u <= c THEN 0 ELSE IF u >= c + z THEN z ELSE u - c)
          = (IF u + m <= c THEN 0 ELSE IF u + m >= c + z THEN z ELSE (u + m) - c)
    BY <1>1, <1>2
  <1>4. InWord(v, u) = InWord(v, u + m)
    BY <1>3, Zenon DEF InWord, c
  <1> QED BY <1>4, Zenon DEF WordHolds

\* A byte of row w is in that row or a later one.
LEMMA RowOf ==
  ASSUME NEW w \in Nat, NEW a \in Nat, NEW c \in Nat \ {0}, w * c <= a PROVE w <= a \div c
  <1> DEFINE q == a \div c
             r == a % c
             b == q * c
             e == w * c
  <1>1. q \in Nat /\ r \in 0..c-1 /\ a = b + r /\ b \in Nat /\ e \in Nat /\ e <= a
    BY Division, ProductIsNat
  <1>2. q < w => b + c <= e
    BY <1>1, LaterRow
  <1> HIDE DEF q, r, b, e
  <1>3. q <= w /\ q # w => q < w
    BY <1>1
  <1>4. w <= q
    BY <1>1, <1>2
  <1> QED BY <1>4 DEF q

\* A word that holds a byte of the record.
LEMMA WordIn == ASSUME NEW w \in Nat, w * SZ < TRECORD_CODE_LIMIT PROVE w \in Words
  <1> DEFINE l == TRECORD_CODE_LIMIT + SZ - 1
             q == l \div SZ
             b == w * SZ
  <1>1. SZ \in Nat \ {0} /\ TRECORD_CODE_LIMIT \in Nat \ {0} /\ l \in Nat
    BY LiteralAssumption
  <1>2. b \in Nat /\ (w + 1) * SZ = b + SZ /\ b < TRECORD_CODE_LIMIT
    BY <1>1, ProductIsNat
  <1>3. b + SZ <= l
    <2> HIDE DEF b
    <2> QED BY <1>1, <1>2
  <1>4. w + 1 <= q /\ q \in Nat
    <2>1. w + 1 \in Nat /\ (w + 1) * SZ <= l
      BY <1>2, <1>3
    <2> HIDE DEF l
    <2> QED BY <1>1, <2>1, RowOf, Division
  <1>5. Words = 0..q-1
    BY DEF Words
  <1> HIDE DEF q
  <1> QED BY <1>4, <1>5

\* The word that a character or digit of the content belongs to.
LEMMA WordOfIs ==
  ASSUME NEW k \in Nat, NEW h \in Nat, h < TRECORD_CODE_LIMIT,
         h = IF IsChar THEN k ELSE k \div 2
  PROVE  /\ WordOf(k) \in Words /\ WordOf(k) \in Nat
         /\ IsChar => /\ WordOf(k) * WordSize <= 2 * k
                      /\ 2 * k + 2 <= WordOf(k) * WordSize + WordSize
         /\ ~IsChar => /\ WordOf(k) * WordSize <= k
                       /\ k + 1 <= WordOf(k) * WordSize + WordSize
  <1> DEFINE w == h \div SZ
             r == h % SZ
             b == w * SZ
  <1>1. SZ \in Nat \ {0} /\ TRECORD_CODE_LIMIT \in Nat \ {0} /\ WordSize = 2 * SZ
    BY LiteralAssumption DEF WordSize
  <1>2. w \in Nat /\ r \in 0..SZ-1 /\ h = b + r /\ b \in Nat
    BY <1>1, Division, ProductIsNat
  <1>3. WordOf(k) = w
    BY DEF WordOf
  <1>4. w * WordSize = 2 * b
    BY <1>1, <1>2
  <1>5. w \in Words
    <2>1. b < TRECORD_CODE_LIMIT
      <3> HIDE DEF w, r, b
      <3> QED BY <1>1, <1>2
    <2> QED BY <1>2, <2>1, WordIn
  <1> HIDE DEF w, r, b
  <1>6. IsChar => 2 * b <= 2 * k /\ 2 * k + 2 <= 2 * b + WordSize
    <2>1. CASE IsChar
      <3>1. h = k
        BY <2>1
      <3> QED BY <1>1, <1>2, <3>1
    <2> QED BY <2>1
  <1>7. ~IsChar => 2 * b <= k /\ k + 1 <= 2 * b + WordSize
    <2>1. CASE ~IsChar
      <3>1. k = 2 * h \/ k = 2 * h + 1
        BY <2>1
      <3> QED BY <1>1, <1>2, <3>1
    <2> QED BY <2>1
  <1> QED BY <1>2, <1>3, <1>4, <1>5, <1>6, <1>7

-----------------------------------------------------------------------------
\* The characters are ASCII, and nothing stands behind the quote.
Plain == QuoteLast /\ (IsChar => \A k \in DOMAIN Content : Ascii[Content[k]][1] < 8)

\* How many digits have been shifted in.
Fresh == IF IsChar THEN 2 * shifted ELSE shifted

\* Every word of objcodeBuf holds its part of them behind the digit d.
CodeFrom(d) ==
  /\ DOMAIN objcodeBuf = Words
  /\ scan \notin {"shifting", "printed"} =>
       shifted = 0 /\ objcodeBuf = [w \in Words |-> [k \in 1..2*SZ |-> d]]
  /\ scan = "shifting" => shifted \in 0..Len(Content)
  /\ scan = "shifting" /\ Plain =>
       \A w \in Words : WordHolds(objcodeBuf[w], d, Digits, w, Fresh)

CodeInv == text \in Texts /\ CodeIsLiteral /\ \E d \in 0..15 : CodeFrom(d)

\* The two digits of a character.
LEMMA PairIs == ASSUME NEW S, NEW x \in S \X S PROVE x \in Seq(S) /\ Len(x) = 2
  <1>1. x = <<x[1], x[2]>> /\ x[1] \in S /\ x[2] \in S
    OBVIOUS
  <1> DEFINE a == x[1]
             b == x[2]
  <1>2. a \in S /\ b \in S /\ x = <<a, b>>
    BY <1>1
  <1> HIDE DEF a, b
  <1>3. <<a, b>> \in Seq(S) /\ Len(<<a, b>>) = 2
    BY <1>2
  <1> QED BY <1>2, <1>3

\* The digits of the literal.
LEMMA DigitsAre ==
  ASSUME ScanInv, HasToken, Matched, QuoteLast, text \in Texts
  PROVE  /\ Digits \in Seq(0..15)
         /\ IsChar => /\ Len(Digits) = 2 * Len(Content)
                      /\ \A k \in 1..Len(Content), j \in 1..2 :
                           /\ Digits[(k - 1) * 2 + j] = Ascii[Content[k]][j]
                           /\ Ascii[Content[k]] \in (0..15) \X (0..15)
         /\ ~IsChar => /\ Len(Digits) = Len(Content)
                       /\ \A k \in 1..Len(Content) : /\ Digits[k] = HexValue[Content[k]]
                                                     /\ Content[k] \in DOMAIN HexValue
                                                     /\ HexValue[Content[k]] \in 0..15
  <1> DEFINE n == Len(Content)
  <1>1. /\ Content \in Seq(Chars) /\ n \in Nat /\ n = Len(token) - 3 /\ Len(token) \in Nat
        /\ \A k \in 1..n : Content[k] = token[k + 2]
        /\ IsHex /\ ~IsChar => \A k \in 3..Stop-1 : token[k] \in DOMAIN HexValue
    BY MatchedIs
  <1>2. DOMAIN Content = 1..n /\ \A k \in 1..n : Content[k] \in Chars
    BY <1>1, LenProperties, ElementOfSeq
  <1>3. CASE IsChar
    <2> DEFINE s == [k \in 1..n |-> Ascii[Content[k]]]
               S == 0..15
    <2>1. Digits = FlattenSeq(s)
      BY <1>2, <1>3 DEF Digits
    <2>2. \A k \in 1..n : Ascii[Content[k]] \in S \X S
      <3>1. Chars \subseteq DOMAIN Ascii
        BY LiteralAssumption DEF Chars
      <3> QED BY <1>2, <3>1, LiteralAssumption
    <2>3. ASSUME NEW x \in S \X S PROVE x \in Seq(S) /\ Len(x) = 2
      BY PairIs
    <2>4. s \in Seq(Seq(S)) /\ Len(s) = n /\ \A k \in 1..n : s[k] = Ascii[Content[k]]
      <3>1. \A k \in 1..n : Ascii[Content[k]] \in Seq(S)
        BY <2>2, <2>3
      <3> HIDE DEF S, n
      <3>2. s \in Seq(Seq(S))
        BY <1>1, <3>1, IsASeq
      <3>3. Len(s) = n
        BY <1>1
      <3> QED BY <3>2, <3>3
    <2>5. \A k \in 1..n : Len(s[k]) = 2
      BY <2>2, <2>3, <2>4
    <2> HIDE DEF s, S
    <2>6. /\ FlattenSeq(s) \in Seq(S) /\ Len(FlattenSeq(s)) = n * 2
          /\ \A k \in 1..n, j \in 1..2 : FlattenSeq(s)[(k - 1) * 2 + j] = s[k][j]
      <3>1. /\ FlattenSeq(s) \in Seq(S) /\ Len(FlattenSeq(s)) = Len(s) * 2
            /\ \A k \in 1..Len(s), j \in 1..2 : FlattenSeq(s)[(k - 1) * 2 + j] = s[k][j]
        <4> DEFINE b == 2
        <4>1. s \in Seq(Seq(S)) /\ b \in Nat \ {0} /\ \A k \in 1..Len(s) : Len(s[k]) = b
          BY <2>4, <2>5
        <4> HIDE DEF b
        <4>2. FlattenSeq(s) \in Seq(S) /\ Blocks(FlattenSeq(s), s, b)
          BY <4>1, FlattenBlocks
        <4> QED BY <4>2, Zenon DEF b, Blocks
      <3> QED BY <2>4, <3>1
    <2>7. n * 2 = 2 * n
      BY <1>1
    <2>8. Digits \in Seq(0..15) /\ Len(Digits) = 2 * n
      BY <2>1, <2>6, <2>7 DEF S
    <2>9. ASSUME NEW k \in 1..n, NEW j \in 1..2
          PROVE  /\ Digits[(k - 1) * 2 + j] = Ascii[Content[k]][j]
                 /\ Ascii[Content[k]] \in (0..15) \X (0..15)
      BY <2>1, <2>2, <2>4, <2>6, Zenon DEF S
    <2> QED BY <1>3, <2>8, <2>9
  <1>4. CASE ~IsChar
    <2>1. IsHex
      BY <1>4 DEF Matched
    <2>2. Digits = [k \in 1..n |-> HexValue[Content[k]]]
      BY <1>2, <1>4 DEF Digits
    <2>3. ASSUME NEW k \in 1..n
          PROVE  Content[k] \in DOMAIN HexValue /\ HexValue[Content[k]] \in 0..15
      <3>1. k + 2 \in 3..Stop-1
        BY <1>1 DEF QuoteLast
      <3>2. Content[k] \in DOMAIN HexValue
        BY <1>1, <1>4, <2>1, <3>1
      <3> QED BY <3>2, LiteralAssumption
    <2>4. Digits \in Seq(0..15) /\ Len(Digits) = n
      <3> DEFINE s == [k \in 1..n |-> HexValue[Content[k]]]
      <3> HIDE DEF n
      <3>1. s \in Seq(0..15)
        <4> DEFINE S == 0..15
        <4>1. \A k \in 1..n : HexValue[Content[k]] \in S
          BY <2>3
        <4> HIDE DEF S
        <4>2. s \in Seq(S)
          BY <1>1, <4>1, IsASeq
        <4> QED BY <4>2 DEF S
      <3>2. Len(s) = n
        BY <1>1
      <3> QED BY <2>2, <3>1, <3>2
    <2> QED BY <1>4, <2>2, <2>3, <2>4
  <1> QED BY <1>3, <1>4

\* What follows from the token alone.
LEMMA SameDigits ==
  ASSUME token' = token
  PROVE  /\ IsChar' <=> IsChar
         /\ IsHex' <=> IsHex
         /\ Content' = Content /\ Digits' = Digits
         /\ QuoteLast' <=> QuoteLast
         /\ Plain' <=> Plain
  <1>1. /\ IsChar' <=> IsChar
        /\ IsHex' <=> IsHex
    BY Zenon DEF IsChar, IsHex
  <1>2. Stop' = Stop /\ Content' = Content
    BY <1>1, Zenon DEF Stop, Content, IsChar
  <1>3. QuoteLast' <=> QuoteLast
    BY <1>2, Zenon DEF QuoteLast
  <1>4. Digits' = Digits
    BY <1>1, <1>2, Zenon DEF Digits, IsChar, Content
  <1>5. Plain' <=> Plain
    BY <1>1, <1>2, <1>3, Zenon DEF Plain
  <1> QED BY <1>1, <1>2, <1>3, <1>4, <1>5

\* Nothing is shifted in yet.
LEMMA BeginStep ==
  ASSUME NEW d \in 0..15, CodeFrom(d), BeginCode, ScanInv, LengthInv PROVE CodeFrom(d)'
  <1>1. /\ token' = token /\ objcodeBuf' = objcodeBuf /\ shifted' = shifted
        /\ scan = "measured" /\ scan' \in {"undefined", "shifting"}
    BY DEF BeginCode, AtLiteral
  <1>2. /\ DOMAIN objcodeBuf = Words
        /\ shifted = 0 /\ objcodeBuf = [w \in Words |-> [k \in 1..2*SZ |-> d]]
    BY <1>1 DEF CodeFrom
  <1>3. Content' = Content /\ Digits' = Digits /\ Fresh' = 0 /\ Len(Content) \in Nat
    <2>1. Content' = Content /\ Digits' = Digits
      BY <1>1, SameDigits
    <2>2. Fresh' = 0
      BY <1>1, <1>2 DEF Fresh
    <2>3. Len(Content) \in Nat
      BY <1>1, MatchedIs DEF HasToken, LengthInv
    <2> QED BY <2>1, <2>2, <2>3
  <1>4. ASSUME NEW w \in Words PROVE WordHolds(objcodeBuf'[w], d, Digits, w, 0)
    <2> DEFINE word == [k \in 1..2*SZ |-> d]
               z == 2 * SZ
    <2>1. objcodeBuf'[w] = word
      BY <1>1, <1>2
    <2>2. z \in Nat /\ z = WordSize
      BY SizeIs
    <2>3. word \in Seq(0..15) /\ Len(word) = z /\ \A j \in 1..z : word[j] = d
      <3> HIDE DEF z
      <3>1. [k \in 1..z |-> d] \in Seq(0..15) /\ Len([k \in 1..z |-> d]) = z
        BY <2>2, IsASeq
      <3> QED BY <3>1 DEF z
    <2>4. InWord(w, 0) = 0
      <3>1. w \in Nat
        BY DEF Words
      <3>2. w * WordSize \in Nat
        BY <3>1, InWordIs
      <3>3. 0 <= w * WordSize
        <4> DEFINE b == w * WordSize
        <4>1. b \in Nat
          BY <3>2
        <4> HIDE DEF b
        <4>2. 0 <= b
          BY <4>1
        <4> QED BY <4>2 DEF b
      <3> QED BY <3>3, Zenon DEF InWord
    <2> HIDE DEF word, z
    <2>5. \A j \in 1..WordSize : j + 0 <= WordSize
      BY <2>2
    <2> QED BY <2>1, <2>2, <2>3, <2>4, <2>5 DEF WordHolds
  <1>5. scan' = "shifting" => shifted' \in 0..Len(Content)'
    BY <1>1, <1>2, <1>3
  <1>6. DOMAIN objcodeBuf' = Words
    BY <1>1, <1>2
  <1>7. \A w \in Words : WordHolds(objcodeBuf'[w], d, Digits', w, Fresh')
    BY <1>3, <1>4
  <1>8. scan' \notin {"shifting", "printed"} =>
          shifted' = 0 /\ objcodeBuf' = [w \in Words |-> [k \in 1..2*SZ |-> d]]
    BY <1>1, <1>2
  <1> QED BY <1>5, <1>6, <1>7, <1>8 DEF CodeFrom, WordHolds, InWord, WordSize

\* A character or a digit is shifted into its word.
LEMMA NewWord ==
  ASSUME ScanInv, LengthInv, HasToken, Matched, Plain, text \in Texts,
         NEW word \in Seq(0..15), Len(word) = WordSize, shifted \in 0..Len(Content)-1,
         NEW m, m = IF IsChar THEN 2 ELSE 1, NEW new,
         new = LET c == Content[shifted + 1] IN
               IF IsChar THEN ShiftedChar(word, c) ELSE ShiftedDigit(word, c)
  PROVE  ShiftedWord(new, word, Digits, Fresh, m)
  <1> DEFINE n == Len(Content)
             c == Content[shifted + 1]
             z == WordSize
  <1>1. n \in Nat /\ Content \in Seq(Chars) /\ DOMAIN Content = 1..n
    BY MatchedIs, LenProperties
  <1>2. shifted \in Nat /\ shifted + 1 \in 1..n /\ (shifted + 1) - 1 = shifted
    BY <1>1
  <1>3. z \in Nat \ {0} /\ z = 2 * SZ /\ SZ \in Nat \ {0} /\ z - 2 \in Nat /\ z - 1 \in Nat
    BY SizeIs
  <1>4. CASE IsChar
    <2> DEFINE x == Ascii[c]
               part == SubSeq(word, 3, z)
    <2>1. x[1] < 8
      BY <1>1, <1>2, <1>4 DEF Plain
    <2>2. x \in (0..15) \X (0..15) /\ \A j \in 1..2 : Digits[shifted * 2 + j] = x[j]
      BY <1>2, <1>4, DigitsAre DEF Plain
    <2>3. new = part \o x /\ m = 2 /\ Fresh = 2 * shifted
      BY <1>3, <1>4, <2>1 DEF ShiftedChar, Fresh
    <2>4. x \in Seq(0..15) /\ Len(x) = 2
      <3> HIDE DEF x
      <3> QED BY <2>2, PairIs
    <2>5. /\ part \in Seq(0..15) /\ Len(part) = z - 2
          /\ \A j \in 1..z-2 : part[j] = word[j + 2]
      <3> DEFINE S == 0..15
      <3>1. 3 \in 1..Len(word)+1 /\ z \in 3-1..Len(word)
        BY <1>3
      <3> HIDE DEF S, z
      <3>2. /\ part \in Seq(S) /\ Len(part) = z - 3 + 1
            /\ \A j \in 1..z-3+1 : part[j] = word[3 + j - 1]
        BY <3>1, PartOf, SMTT(20) DEF S
      <3>3. z - 3 + 1 = z - 2 /\ \A j \in 1..z-2 : 3 + j - 1 = j + 2
        BY <1>3
      <3> QED BY <3>2, <3>3 DEF S
    <2> HIDE DEF part, x, z, c
    <2>6. /\ part \o x \in Seq(0..15) /\ Len(part \o x) = (z - 2) + 2
          /\ \A j \in 1..(z - 2)+2 : (part \o x)[j] = IF j <= z - 2 THEN part[j] ELSE x[j - (z - 2)]
      <3> DEFINE S == 0..15
      <3>1. part \in Seq(S) /\ x \in Seq(S)
        BY <2>4, <2>5
      <3> HIDE DEF S
      <3>2. /\ part \o x \in Seq(S) /\ Len(part \o x) = Len(part) + Len(x)
            /\ \A j \in 1..Len(part)+Len(x) :
                 (part \o x)[j] = IF j <= Len(part) THEN part[j] ELSE x[j - Len(part)]
        BY <3>1, ConcatProperties, Zenon
      <3> QED BY <2>4, <2>5, <3>2, Zenon DEF S
    <2>7. (z - 2) + 2 = z
      BY <1>3
    <2>8. ASSUME NEW j \in 1..z
          PROVE  new[j] = IF j + m <= z THEN word[j + m] ELSE Digits[Fresh + (j + m - z)]
      <3>1. CASE j <= z - 2
        <4>1. j \in 1..z-2 /\ j + 2 <= z
          BY <1>3, <3>1
        <4>2. new[j] = word[j + 2]
          BY <2>3, <2>5, <2>6, <2>7, <3>1, <4>1
        <4> QED BY <2>3, <4>1, <4>2
      <3>2. CASE ~(j <= z - 2)
        <4> DEFINE i == j - (z - 2)
        <4>1. /\ ~(j + 2 <= z) /\ i \in 1..2
              /\ 2 * shifted + (j + 2 - z) = shifted * 2 + i
          BY <1>2, <1>3, <3>2
        <4>2. new[j] = x[i]
          BY <2>3, <2>6, <2>7, <3>2
        <4> HIDE DEF i
        <4>3. new[j] = Digits[shifted * 2 + i]
          BY <2>2, <4>1, <4>2
        <4> QED BY <2>3, <4>1, <4>3
      <3> QED BY <3>1, <3>2
    <2> QED BY <2>3, <2>6, <2>7, <2>8 DEF ShiftedWord, z
  <1>5. CASE ~IsChar
    <2> DEFINE x == HexValue[c]
               part == Tail(word)
    <2>1. c \in DOMAIN HexValue /\ x \in 0..15 /\ Digits[shifted + 1] = x
      BY <1>2, <1>5, DigitsAre DEF Plain
    <2>2. new = Append(part, x) /\ m = 1 /\ Fresh = shifted
      BY <1>5, <2>1 DEF ShiftedDigit, Fresh
    <2>3. /\ part \in Seq(0..15) /\ Len(part) = z - 1
          /\ \A j \in 1..z-1 : part[j] = word[j + 1]
      <3>1. word # <<>>
        BY <1>3
      <3> DEFINE S == 0..15
      <3>2. word \in Seq(S)
        OBVIOUS
      <3> HIDE DEF S
      <3>3. /\ Tail(word) \in Seq(S) /\ Len(Tail(word)) = Len(word) - 1
            /\ \A j \in 1..Len(Tail(word)) : Tail(word)[j] = word[j + 1]
        BY <3>1, <3>2, HeadTailProperties
      <3> QED BY <3>3 DEF S
    <2> HIDE DEF part, x, z, c
    <2>4. /\ Append(part, x) \in Seq(0..15) /\ Len(Append(part, x)) = (z - 1) + 1
          /\ \A j \in 1..z-1 : Append(part, x)[j] = part[j]
          /\ Append(part, x)[(z - 1) + 1] = x
      <3> DEFINE S == 0..15
      <3>1. part \in Seq(S) /\ x \in S
        BY <2>1, <2>3
      <3> HIDE DEF S
      <3>2. /\ Append(part, x) \in Seq(S) /\ Len(Append(part, x)) = Len(part) + 1
            /\ \A j \in 1..Len(part) : Append(part, x)[j] = part[j]
            /\ Append(part, x)[Len(part) + 1] = x
        BY <3>1, AppendProperties
      <3> QED BY <2>3, <3>2 DEF S
    <2>5. (z - 1) + 1 = z
      BY <1>3
    <2>6. ASSUME NEW j \in 1..z
          PROVE  new[j] = IF j + m <= z THEN word[j + m] ELSE Digits[Fresh + (j + m - z)]
      <3>1. CASE j <= z - 1
        <4>1. j \in 1..z-1 /\ j + 1 <= z
          BY <1>3, <3>1
        <4>2. new[j] = word[j + 1]
          BY <2>2, <2>3, <2>4, <4>1
        <4> QED BY <2>2, <4>1, <4>2
      <3>2. CASE ~(j <= z - 1)
        <4>1. j = z /\ ~(j + 1 <= z) /\ shifted + (j + 1 - z) = shifted + 1
          BY <1>2, <1>3, <3>2
        <4>2. new[j] = x
          BY <2>2, <2>4, <2>5, <4>1
        <4> QED BY <2>1, <2>2, <4>1, <4>2
      <3> QED BY <3>1, <3>2
    <2> QED BY <2>2, <2>4, <2>5, <2>6 DEF ShiftedWord, z
  <1> QED BY <1>4, <1>5


\* One more character shifted in makes the digits up to it those of the literal.
LEMMA ShiftStep ==
  ASSUME NEW d \in 0..15, CodeFrom(d), ShiftIn, ScanInv, LengthInv, text \in Texts
  PROVE  CodeFrom(d)'
  <1> DEFINE c == Content[shifted + 1]
             w == WordOf(shifted)
             n == Len(Content)
             word == objcodeBuf[w]
             new == IF IsChar THEN ShiftedChar(word, c) ELSE ShiftedDigit(word, c)
             m == IF IsChar THEN 2 ELSE 1
  <1>1. /\ scan = "shifting" /\ scan' = scan /\ token' = token
        /\ shifted < n /\ shifted' = shifted + 1
        /\ objcodeBuf' = [objcodeBuf EXCEPT ![w] = new]
    BY DEF ShiftIn, AtLiteral
  <1>2. HasToken /\ Matched /\ CodeLen <= TRECORD_CODE_LIMIT /\ objcodeLen = CodeLen
    BY <1>1 DEF HasToken, LengthInv
  <1>3. n \in Nat /\ shifted \in 0..n-1 /\ DOMAIN objcodeBuf = Words
    <2>1. n \in Nat
      BY <1>2, MatchedIs
    <2>2. shifted \in 0..n
      BY <1>1 DEF CodeFrom
    <2> QED BY <1>1, <2>1, <2>2 DEF CodeFrom
  <1>4. /\ IsChar' <=> IsChar
        /\ Content' = Content /\ Digits' = Digits
        /\ Plain' <=> Plain
    BY <1>1, SameDigits
  <1>5. /\ w \in Words /\ w \in Nat /\ Fresh \in Nat /\ m \in Nat \ {0} /\ Fresh' = Fresh + m
        /\ w * WordSize <= Fresh /\ Fresh + m <= w * WordSize + WordSize
    <2> DEFINE h == IF IsChar THEN shifted ELSE shifted \div 2
    <2>1. shifted \in Nat /\ TRECORD_CODE_LIMIT \in Nat
      BY <1>3, LiteralAssumption
    <2>2. h \in Nat /\ h < CodeLen /\ CodeLen \in Nat
      <3>1. CASE IsChar
        BY <1>1, <1>3, <2>1, <3>1 DEF CodeLen
      <3>2. CASE ~IsChar
        <4>1. shifted \div 2 < (n + 1) \div 2
          <5> HIDE DEF n
          <5> QED BY <1>1, <1>3, <2>1
        <4> QED BY <1>3, <2>1, <3>2, <4>1 DEF CodeLen
      <3> QED BY <3>1, <3>2
    <2>3. h < TRECORD_CODE_LIMIT
      BY <1>2, <2>1, <2>2
    <2>4. /\ w \in Words /\ w \in Nat
          /\ IsChar => w * WordSize <= 2 * shifted /\ 2 * shifted + 2 <= w * WordSize + WordSize
          /\ ~IsChar => w * WordSize <= shifted /\ shifted + 1 <= w * WordSize + WordSize
      BY <2>1, <2>2, <2>3, WordOfIs
    <2> HIDE DEF w
    <2>5. CASE IsChar
      <3>1. Fresh = 2 * shifted /\ m = 2 /\ Fresh' = 2 * (shifted + 1)
        BY <1>1, <1>4, <2>5 DEF Fresh
      <3> QED BY <2>1, <2>4, <2>5, <3>1
    <2>6. CASE ~IsChar
      <3>1. Fresh = shifted /\ m = 1 /\ Fresh' = shifted + 1
        BY <1>1, <1>4, <2>6 DEF Fresh
      <3> QED BY <2>1, <2>4, <2>6, <3>1
    <2> QED BY <2>5, <2>6
  <1>6. ASSUME Plain, NEW v \in Words
        PROVE  WordHolds(objcodeBuf'[v], d, Digits, v, Fresh + m)
    <2>1. WordHolds(objcodeBuf[v], d, Digits, v, Fresh) /\ WordHolds(word, d, Digits, w, Fresh)
      BY <1>1, <1>5, <1>6 DEF CodeFrom
    <2>2. v \in Nat
      BY DEF Words
    <2>3. CASE v = w
      <3>1. objcodeBuf'[v] = new
        BY <1>1, <1>3, <1>5, <2>3
      <3>2. word \in Seq(0..15) /\ Len(word) = WordSize
        BY <2>1 DEF WordHolds
      <3> HIDE DEF w, word, n
      <3>3. shifted \in 0..Len(Content)-1
        BY <1>3 DEF n
      <3>4. ShiftedWord(new, word, Digits, Fresh, m)
        <4>1. new = LET x == Content[shifted + 1] IN
                    IF IsChar THEN ShiftedChar(word, x) ELSE ShiftedDigit(word, x)
          OBVIOUS
        <4>2. m = IF IsChar THEN 2 ELSE 1
          OBVIOUS
        <4> HIDE DEF new, m
        <4> QED BY <1>2, <1>6, <3>2, <3>3, <4>1, <4>2, NewWord
      <3> HIDE DEF new, m
      <3>5. WordHolds(new, d, Digits, w, Fresh + m)
        BY <1>5, <2>1, <3>4, ShiftHolds
      <3> QED BY <2>3, <3>1, <3>5
    <2>4. CASE v # w
      <3>1. objcodeBuf'[v] = objcodeBuf[v]
        BY <1>1, <1>3, <2>4
      <3> HIDE DEF w, m
      <3>2. m \in Nat
        BY <1>5
      <3>3. WordHolds(objcodeBuf[v], d, Digits, v, Fresh + m)
        BY <1>5, <2>1, <2>2, <2>4, <3>2, OtherHolds
      <3> QED BY <3>1, <3>3
    <2> QED BY <2>3, <2>4
  <1>7. DOMAIN objcodeBuf' = Words /\ shifted' \in 0..Len(Content)'
    BY <1>1, <1>3, <1>4
  <1> HIDE DEF w, m, new
  <1>8. scan' = "shifting" /\ Plain' =>
          \A v \in Words : WordHolds(objcodeBuf'[v], d, Digits', v, Fresh')
    BY <1>4, <1>5, <1>6
  <1> QED BY <1>1, <1>7, <1>8 DEF CodeFrom, WordHolds, InWord, WordSize
-----------------------------------------------------------------------------
\* When every word holds its part of the digits, printTextRec prints them.
LEMMA PrintIs ==
  ASSUME NEW d, NEW D \in Seq(0..15), objcodeLen \in Nat \ {0}, objcodeLen <= TRECORD_CODE_LIMIT,
         Len(D) = 2 * objcodeLen,
         \A w \in Words : w <= (objcodeLen - 1) \div SZ =>
           WordHolds(objcodeBuf[w], d, D, w, 2 * objcodeLen)
  PROVE  FullWords \o LastWord = D
  <1> DEFINE l == objcodeLen
             f == l \div SZ
             r == l % SZ
             z == WordSize
             b == f * z
             s == [k \in 1..f |-> objcodeBuf[k - 1]]
             S == 0..15
  <1>1. l \in Nat \ {0} /\ SZ \in Nat \ {0} /\ z = 2 * SZ /\ z \in Nat \ {0}
    BY SizeIs
  <1>2. f \in Nat /\ r \in 0..SZ-1 /\ l = f * SZ + r /\ f * SZ \in Nat
    BY <1>1, Division, ProductIsNat
  <1>3. b = 2 * (f * SZ) /\ b \in Nat
    <2> HIDE DEF f, r
    <2> QED BY <1>1, <1>2
  <1>4. 2 * l = b + 2 * r
    <2> DEFINE e == f * SZ
    <2>1. e \in Nat /\ r \in Nat /\ l = e + r /\ b = 2 * e
      BY <1>2, <1>3
    <2> HIDE DEF e, r, b, l
    <2> QED BY <2>1
  <1> HIDE DEF f, r, b, l
  <1>5. ASSUME NEW w \in Nat, w * SZ < l PROVE WordHolds(objcodeBuf[w], d, D, w, 2 * l)
    <2> DEFINE e == w * SZ
    <2>1. e \in Nat /\ e < l
      BY <1>1, <1>5, ProductIsNat
    <2> HIDE DEF e
    <2>2. e <= l - 1 /\ l - 1 \in Nat /\ e < TRECORD_CODE_LIMIT
      BY <1>1, <2>1, LiteralAssumption DEF l
    <2>3. w <= (l - 1) \div SZ
      BY <1>1, <2>2, RowOf DEF e
    <2>4. w \in Words
      BY <2>2, WordIn DEF e
    <2> QED BY <2>3, <2>4 DEF l
  <1>6. ASSUME NEW w \in 0..f-1 PROVE WordHolds(objcodeBuf[w], d, D, w, 2 * l) /\ w * z + z <= b
    <2>1. w \in Nat /\ w < f
      BY <1>2
    <2>2. w * SZ + SZ <= f * SZ /\ w * SZ \in Nat
      BY <1>1, <1>2, <2>1, LaterRow, ProductIsNat
    <2>3. w * SZ < l
      <3> DEFINE e == w * SZ
                 g == f * SZ
      <3>1. e \in Nat /\ g \in Nat /\ e + SZ <= g /\ l = g + r /\ r \in Nat
        BY <1>2, <2>2
      <3> HIDE DEF e, g
      <3>2. e < l
        BY <1>1, <3>1
      <3> QED BY <3>2 DEF e
    <2>4. w * z + z <= b
      BY <1>1, <1>2, <2>1, LaterRow DEF b
    <2> QED BY <1>5, <2>1, <2>3, <2>4
  <1>7. s \in Seq(Seq(S)) /\ Len(s) = f /\ \A k \in 1..Len(s) : Len(s[k]) = z
    <2>1. \A k \in 1..f : objcodeBuf[k - 1] \in Seq(S) /\ Len(objcodeBuf[k - 1]) = z
      <3> TAKE k \in 1..f
      <3>1. k - 1 \in 0..f-1
        BY <1>2
      <3> QED BY <1>6, <3>1 DEF WordHolds
    <2> HIDE DEF S, z
    <2>2. s \in Seq(Seq(S)) /\ Len(s) = f
      BY <1>2, <2>1, IsASeq
    <2> QED BY <2>1, <2>2
  <1>8. FullWords \in Seq(S) /\ Blocks(FullWords, s, z)
    <2>1. FullWords = FlattenSeq(s)
      BY DEF FullWords, f, l
    <2> HIDE DEF S, s, z
    <2> QED BY <1>1, <1>7, <2>1, FlattenBlocks
  <1>9. /\ Len(FullWords) = b
        /\ \A w \in 0..f-1, j \in 1..z : FullWords[w * z + j] = objcodeBuf[w][j]
    <2>1. Len(FullWords) = b
      BY <1>7, <1>8 DEF Blocks, b
    <2>2. ASSUME NEW w \in 0..f-1, NEW j \in 1..z PROVE FullWords[w * z + j] = objcodeBuf[w][j]
      <3> DEFINE i == w + 1
      <3>1. i \in 1..f /\ i - 1 = w
        BY <1>2
      <3>2. FullWords[(i - 1) * z + j] = s[i][j]
        BY <1>7, <1>8, <3>1 DEF Blocks
      <3>3. s[i] = objcodeBuf[w]
        BY <3>1
      <3> HIDE DEF i, s
      <3> QED BY <3>1, <3>2, <3>3
    <2> QED BY <2>1, <2>2
  <1>10. r # 0 => WordHolds(objcodeBuf[f], d, D, f, 2 * l)
    <2> SUFFICES ASSUME r # 0 PROVE WordHolds(objcodeBuf[f], d, D, f, 2 * l)
      OBVIOUS
    <2>1. f * SZ < l
      <3> DEFINE e == f * SZ
      <3>1. e \in Nat /\ l = e + r /\ r \in Nat \ {0}
        BY <1>2
      <3> HIDE DEF e
      <3>2. e < l
        BY <3>1
      <3> QED BY <3>2 DEF e
    <2> QED BY <1>2, <1>5, <2>1
  <1>11. /\ LastWord \in Seq(S) /\ Len(LastWord) = 2 * r
         /\ \A i \in 1..2*r : LastWord[i] = objcodeBuf[f][i + (z - 2 * r)]
    <2>1. CASE r = 0
      <3>1. LastWord = <<>>
        BY <2>1 DEF LastWord, r, l
      <3> QED BY <2>1, <3>1
    <2>2. CASE r # 0
      <3> DEFINE word == objcodeBuf[f]
                 a == 2 * (SZ - r) + 1
      <3>1. word \in Seq(S) /\ Len(word) = z
        BY <1>10, <2>2 DEF WordHolds
      <3>2. LastWord = SubSeq(word, a, z)
        BY <1>1, <2>2, Zenon DEF LastWord, r, l, f
      <3>3. a \in 1..Len(word)+1 /\ z \in a-1..Len(word) /\ z - a + 1 = 2 * r /\ a \in Nat
        BY <1>1, <1>2, <2>2, <3>1
      <3> HIDE DEF S, a, z, word
      <3>4. /\ SubSeq(word, a, z) \in Seq(S) /\ Len(SubSeq(word, a, z)) = z - a + 1
            /\ \A i \in 1..z-a+1 : SubSeq(word, a, z)[i] = word[a + i - 1]
        BY <3>1, <3>3, PartOf
      <3>5. \A i \in 1..2*r : a + i - 1 = i + (z - 2 * r)
        BY <1>1, <1>2 DEF a
      <3> QED BY <3>2, <3>3, <3>4, <3>5 DEF word
    <2> QED BY <2>1, <2>2
  <1> DEFINE all == FullWords \o LastWord
  <1>12. /\ all \in Seq(S) /\ Len(all) = b + 2 * r
         /\ \A p \in 1..b+2*r : all[p] = IF p <= b THEN FullWords[p] ELSE LastWord[p - b]
    <2> HIDE DEF S
    <2>1. /\ all \in Seq(S) /\ Len(all) = Len(FullWords) + Len(LastWord)
          /\ \A p \in 1..Len(FullWords)+Len(LastWord) :
               all[p] = IF p <= Len(FullWords) THEN FullWords[p] ELSE LastWord[p - Len(FullWords)]
      BY <1>8, <1>11, ConcatProperties
    <2> QED BY <1>9, <1>11, <2>1, Zenon
  <1> HIDE DEF all, S, s
  <1>13. ASSUME NEW p \in 1..b+2*r PROVE all[p] = D[p]
    <2>1. CASE p <= b
      <3> DEFINE w == (p - 1) \div z
                 j == ((p - 1) % z) + 1
                 e == w * z
      <3>1. p - 1 \in Nat /\ w \in Nat /\ j \in 1..z /\ p = e + j /\ e \in Nat
        <4>1. p - 1 \in Nat
          BY <1>2, <1>3
        <4>2. w \in Nat /\ (p - 1) % z \in 0..z-1 /\ p - 1 = e + ((p - 1) % z)
          BY <1>1, <4>1, Division
        <4>3. e \in Nat
          BY <1>1, <4>2, ProductIsNat
        <4> DEFINE o == (p - 1) % z
        <4> HIDE DEF w, e, o, z
        <4>4. o \in 0..z-1 /\ p - 1 = e + o /\ z \in Nat
          BY <1>1, <4>2 DEF o
        <4>5. o + 1 \in 1..z /\ p = e + (o + 1)
          BY <4>1, <4>3, <4>4
        <4> QED BY <4>1, <4>2, <4>3, <4>5 DEF o
      <3> HIDE DEF w, j, e
      <3>2. w < f
        <4>1. ASSUME f <= w PROVE FALSE
          <5>1. b <= e
            <6>1. CASE f = w
              BY <1>3, <6>1 DEF b, e
            <6>2. CASE f < w
              <7>1. b + z <= e
                BY <1>1, <1>2, <3>1, <6>2, LaterRow DEF b, e
              <7> QED BY <1>1, <1>3, <3>1, <7>1
            <6> QED BY <1>2, <3>1, <4>1, <6>1, <6>2
          <5> QED BY <1>1, <1>3, <2>1, <3>1, <5>1
        <4> QED BY <1>2, <3>1, <4>1
      <3>3. w \in 0..f-1
        BY <1>2, <3>1, <3>2
      <3>4. all[p] = objcodeBuf[w][j]
        BY <1>9, <1>12, <2>1, <3>1, <3>3 DEF e
      <3>5. InWord(w, 2 * l) = z
        <4>1. e + z <= b
          BY <1>6, <3>3 DEF e
        <4>2. 2 * l >= e + z /\ ~(2 * l <= e)
          BY <1>1, <1>2, <1>3, <1>4, <3>1, <4>1
        <4> QED BY <4>2, Zenon DEF InWord, e
      <3>6. objcodeBuf[w][j] = IF j + z <= z THEN d ELSE D[e + (j + z - z)]
        BY <1>6, <3>1, <3>3, <3>5 DEF WordHolds, e
      <3>7. ~(j + z <= z) /\ e + (j + z - z) = p
        BY <1>1, <3>1
      <3> QED BY <3>4, <3>6, <3>7
    <2>2. CASE ~(p <= b)
      <3> DEFINE i == p - b
                 j == i + (z - 2 * r)
      <3>1. r # 0 /\ i \in 1..2*r /\ j \in 1..z /\ j + 2 * r = i + z
        BY <1>1, <1>2, <1>3, <2>2
      <3>2. all[p] = objcodeBuf[f][j]
        BY <1>11, <1>12, <2>2, <3>1
      <3>3. InWord(f, 2 * l) = 2 * r
        <4>1. ~(2 * l <= b) /\ ~(2 * l >= b + z) /\ 2 * l - b = 2 * r
          BY <1>1, <1>2, <1>3, <1>4, <3>1
        <4> QED BY <4>1, Zenon DEF InWord, b
      <3> HIDE DEF j
      <3>4. objcodeBuf[f][j] = IF j + 2 * r <= z THEN d ELSE D[b + (j + 2 * r - z)]
        BY <1>10, <3>1, <3>3 DEF WordHolds, b
      <3>5. ~(j + 2 * r <= z) /\ b + (j + 2 * r - z) = p
        <4>1. i \in Nat /\ j \in Nat /\ p \in Int /\ z \in Nat /\ i = p - b /\ r \in Nat /\ b \in Nat
          BY <1>1, <1>2, <1>3, <3>1
        <4> HIDE DEF i, z
        <4> QED BY <3>1, <4>1
      <3> QED BY <3>2, <3>4, <3>5
    <2> QED BY <2>1, <2>2
  <1>14. all = D
    <2>1. Len(all) = Len(D) /\ D \in Seq(S) /\ Len(D) = b + 2 * r
      BY <1>4, <1>12 DEF l, S
    <2>2. \A p \in 1..Len(all) : all[p] = D[p]
      BY <1>13, <2>1
    <2> QED BY <1>12, <2>1, <2>2, SeqEqual
  <1> QED BY <1>14 DEF all


\* The digits with d put in behind the first k.
WithStale(digits, k, d) == SubSeq(digits, 1, k) \o <<d>> \o SubSeq(digits, k + 1, Len(digits))

\* What stands where in them.
StaleBehind(all, digits, k, d) ==
  /\ all \in Seq(0..15) /\ Len(all) = Len(digits) + 1
  /\ \A p \in 1..Len(digits)+1 :
       all[p] = IF p <= k THEN digits[p] ELSE IF p = k + 1 THEN d ELSE digits[p - 1]

\* The digits of a literal with a stale one before the last.
LEMMA WithStaleIs ==
  ASSUME NEW D \in Seq(0..15), NEW k \in 0..Len(D), NEW d \in 0..15
  PROVE  StaleBehind(WithStale(D, k, d), D, k, d)
  <1> DEFINE S == 0..15
             n == Len(D)
             front == SubSeq(D, 1, k)
             one == <<d>>
             a == k + 1
             back == SubSeq(D, a, n)
             all == (front \o one) \o back
  <1>1. n \in Nat /\ k \in 0..n /\ D \in Seq(S) /\ d \in S
    BY LenProperties
  <1> HIDE DEF n, S
  <1>2. front \in Seq(S) /\ Len(front) = k /\ \A p \in 1..k : front[p] = D[p]
    <2>1. 1 \in 1..n+1 /\ k \in (1-1)..n /\ k - 1 + 1 = k /\ \A p \in 1..k : 1 + p - 1 = p
      BY <1>1
    <2>2. /\ front \in Seq(S) /\ Len(front) = k - 1 + 1
          /\ \A p \in 1..k-1+1 : front[p] = D[1 + p - 1]
      BY <1>1, <2>1, PartOf DEF n
    <2> QED BY <2>1, <2>2
  <1>3. one \in Seq(S) /\ Len(one) = 1 /\ one[1] = d
    BY <1>1
  <1>4. back \in Seq(S) /\ Len(back) = n - k /\ \A p \in 1..n-k : back[p] = D[k + p]
    <2>1. a \in 1..n+1 /\ n \in a-1..n /\ n - a + 1 = n - k /\ \A p \in 1..n-k : a + p - 1 = k + p
      BY <1>1
    <2> HIDE DEF a
    <2>2. /\ back \in Seq(S) /\ Len(back) = n - a + 1
          /\ \A p \in 1..n-a+1 : back[p] = D[a + p - 1]
      BY <1>1, <2>1, PartOf DEF n
    <2> QED BY <2>1, <2>2
  <1> HIDE DEF front, one, back
  <1>5. /\ front \o one \in Seq(S) /\ Len(front \o one) = k + 1
        /\ \A p \in 1..k+1 : (front \o one)[p] = IF p <= k THEN front[p] ELSE one[p - k]
    <2>1. /\ front \o one \in Seq(S) /\ Len(front \o one) = Len(front) + Len(one)
          /\ \A p \in 1..Len(front)+Len(one) :
               (front \o one)[p] = IF p <= Len(front) THEN front[p] ELSE one[p - Len(front)]
      BY <1>2, <1>3, ConcatProperties
    <2> QED BY <1>2, <1>3, <2>1, Zenon
  <1> DEFINE c == k + 1
             m == n - k
  <1>6. /\ all \in Seq(S) /\ Len(all) = c + m
        /\ \A p \in 1..c+m : all[p] = IF p <= c THEN (front \o one)[p] ELSE back[p - c]
    <2> DEFINE first == front \o one
    <2>0. first \in Seq(S) /\ Len(first) = c
      BY <1>5
    <2> HIDE DEF first
    <2>1. /\ first \o back \in Seq(S) /\ Len(first \o back) = Len(first) + Len(back)
          /\ \A p \in 1..Len(first)+Len(back) :
               (first \o back)[p] = IF p <= Len(first) THEN first[p] ELSE back[p - Len(first)]
      BY <1>4, <2>0, ConcatProperties
    <2>2. Len(back) = m
      BY <1>4
    <2> HIDE DEF m, c
    <2>3. /\ first \o back \in Seq(S) /\ Len(first \o back) = c + m
          /\ \A p \in 1..c+m : (first \o back)[p] = IF p <= c THEN first[p] ELSE back[p - c]
      BY <2>0, <2>1, <2>2, Zenon
    <2> QED BY <2>3 DEF first
  <1> HIDE DEF all
  <1>7. ASSUME NEW p \in 1..n+1
        PROVE  all[p] = IF p <= k THEN D[p] ELSE IF p = k + 1 THEN d ELSE D[p - 1]
    <2>1. p \in 1..c+m
      BY <1>1
    <2>2. CASE p <= k
      <3>1. p <= c /\ p \in 1..c /\ p \in 1..k
        BY <1>1, <2>2
      <3> QED BY <1>2, <1>5, <1>6, <2>1, <2>2, <3>1
    <2>3. CASE p = k + 1
      <3>1. p <= c /\ p \in 1..c /\ ~(p <= k) /\ p - k = 1
        BY <1>1, <2>3
      <3> QED BY <1>3, <1>5, <1>6, <2>1, <2>3, <3>1
    <2>4. CASE p > k + 1
      <3>1. ~(p <= c) /\ p - c \in 1..m /\ k + (p - c) = p - 1 /\ ~(p <= k) /\ p # k + 1
        BY <1>1, <2>4
      <3>2. all[p] = back[p - c]
        BY <1>6, <2>1, <3>1
      <3>3. back[p - c] = D[k + (p - c)]
        BY <1>4, <3>1
      <3> QED BY <3>1, <3>2, <3>3
    <2> QED BY <1>1, <2>2, <2>3, <2>4
  <1>8. Len(all) = n + 1 /\ WithStale(D, k, d) = all
    <2>1. Len(all) = n + 1
      BY <1>1, <1>6
    <2> QED BY <2>1 DEF WithStale, all, front, one, back, n
  <1> QED BY <1>6, <1>7, <1>8 DEF StaleBehind, n, S

\* The word that an odd digit ends in, and the place of the stale one.
LastOf(l) == (l - 1) \div SZ
StaleAt(l) == LastOf(l) * WordSize

(* An odd digit leaves a stale one at the front of the last word: the words  *)
(* hold the digits with that one among them.                                 *)
LEMMA OddHolds ==
  ASSUME NEW d \in 0..15, NEW D \in Seq(0..15), NEW l \in Nat \ {0}, Len(D) = 2 * l - 1,
         NEW word, NEW w \in 0..LastOf(l), WordHolds(word, d, D, w, 2 * l - 1)
  PROVE  /\ StaleAt(l) \in 0..Len(D)
         /\ WordHolds(word, d, WithStale(D, StaleAt(l), d), w, 2 * l)
  <1> DEFINE z == WordSize
             e == LastOf(l)
             k == StaleAt(l)
             o == (l - 1) % SZ
             b == w * z
             u == 2 * l
  <1>1. SZ \in Nat \ {0} /\ z = 2 * SZ /\ z \in Nat \ {0} /\ l - 1 \in Nat
    BY SizeIs
  <1>2. e \in Nat /\ o \in 0..SZ-1 /\ l - 1 = e * SZ + o /\ e * SZ \in Nat
    BY <1>1, Division, ProductIsNat DEF LastOf
  <1> HIDE DEF o
  <1>3. k = 2 * (e * SZ)
    <2> HIDE DEF e
    <2>1. e * (2 * SZ) = 2 * (e * SZ)
      BY <1>1, <1>2
    <2> QED BY <1>1, <2>1 DEF StaleAt, e
  <1>4. k \in Nat /\ k + 2 <= u /\ u <= k + z /\ u \in Nat
    <2> DEFINE a == e * SZ
    <2>1. a \in Nat /\ l - 1 = a + o /\ k = 2 * a
      BY <1>2, <1>3
    <2> HIDE DEF a, e, k
    <2> QED BY <1>1, <1>2, <2>1
  <1>5. w \in Nat /\ b \in Nat /\ (w = e => b = k) /\ (w < e => b + z <= k)
    <2>1. w \in Nat
      BY <1>2
    <2>2. b \in Nat
      BY <1>1, <2>1, ProductIsNat
    <2>3. w < e => b + z <= k
      BY <1>1, <1>2, <2>1, LaterRow DEF StaleAt
    <2>4. w = e => b = k
      BY DEF StaleAt
    <2> QED BY <2>1, <2>2, <2>3, <2>4
  <1> DEFINE i == InWord(w, u - 1)
             j == InWord(w, u)
             ins == WithStale(D, k, d)
  <1>6. /\ i = IF u - 1 <= b THEN 0 ELSE IF u - 1 >= b + z THEN z ELSE u - 1 - b
        /\ j = IF u <= b THEN 0 ELSE IF u >= b + z THEN z ELSE u - b
    BY DEF InWord
  <1>7. /\ Len(D) = u - 1 /\ Len(D) + 1 = u /\ k \in 0..Len(D)
        /\ \A p \in 1..u : ins[p] = IF p <= k THEN D[p] ELSE IF p = k + 1 THEN d ELSE D[p - 1]
    <2>1. Len(D) = u - 1 /\ Len(D) + 1 = u /\ k \in 0..Len(D)
      BY <1>4
    <2>2. StaleBehind(ins, D, k, d)
      BY <2>1, WithStaleIs
    <2> HIDE DEF u, k, ins
    <2> QED BY <2>1, <2>2 DEF StaleBehind
  <1>8. /\ word \in Seq(0..15) /\ Len(word) = z
        /\ \A q \in 1..z : word[q] = IF q + i <= z THEN d ELSE D[b + (q + i - z)]
    BY DEF WordHolds
  <1> HIDE DEF b, u, i, j, ins, z, k, e
  <1>9. ASSUME NEW q \in 1..z
        PROVE  word[q] = IF q + j <= z THEN d ELSE ins[b + (q + j - z)]
    <2>1. CASE w < e
      <3>1. i = z /\ j = z
        BY <1>1, <1>4, <1>5, <1>6, <2>1
      <3>2. ~(q + z <= z) /\ b + (q + z - z) = b + q /\ b + q \in 1..u /\ b + q <= k
        BY <1>1, <1>4, <1>5, <2>1
      <3>3. word[q] = D[b + q] /\ ins[b + q] = D[b + q]
        BY <1>7, <1>8, <3>1, <3>2
      <3> QED BY <3>1, <3>2, <3>3
    <2>2. CASE w = e
      <3>1. b = k /\ i = u - 1 - k /\ j = u - k
        BY <1>1, <1>4, <1>5, <1>6, <2>2
      <3>2. i \in Nat /\ j = i + 1 /\ k + j = u
        BY <1>4, <3>1
      <3>3. CASE q + j <= z
        <4>1. q + i <= z
          BY <1>1, <3>2, <3>3
        <4> QED BY <1>8, <3>3, <4>1
      <3>4. CASE q + j = z + 1
        <4>1. q + i <= z /\ ~(q + j <= z) /\ k + (q + j - z) = k + 1 /\ k + 1 \in 1..u /\ ~(k + 1 <= k)
          BY <1>1, <1>4, <3>2, <3>4
        <4> QED BY <1>7, <1>8, <3>1, <4>1
      <3>5. CASE q + j > z + 1
        <4> DEFINE p == k + (q + j - z)
        <4>1. /\ ~(q + i <= z) /\ ~(q + j <= z) /\ p \in 1..u /\ ~(p <= k) /\ p # k + 1
              /\ p - 1 = k + (q + i - z)
          BY <1>1, <1>4, <3>2, <3>5
        <4> HIDE DEF p
        <4>2. word[q] = D[k + (q + i - z)] /\ ins[p] = D[p - 1]
          BY <1>7, <1>8, <3>1, <4>1
        <4>3. word[q] = ins[p]
          BY <4>1, <4>2
        <4> QED BY <3>1, <4>1, <4>3 DEF p
      <3> QED BY <1>1, <3>2, <3>3, <3>4, <3>5
    <2>3. w < e \/ w = e
      <3>1. w \in 0..e
        BY DEF e
      <3> QED BY <1>2, <3>1
    <2> QED BY <2>1, <2>2, <2>3
  <1> QED BY <1>7, <1>8, <1>9 DEF WordHolds, z, j, b, ins, u, k

\* What is printed is the literal.
LEMMA PrintStep ==
  ASSUME NEW d \in 0..15, CodeFrom(d), PrintCode, ScanInv, LengthInv, text \in Texts
  PROVE  CodeFrom(d)' /\ CodeIsLiteral'
  <1> DEFINE n == Len(Content)
             l == objcodeLen
  <1>1. /\ scan = "shifting" /\ scan' = "printed" /\ token' = token /\ shifted = n
        /\ objcodeBuf' = objcodeBuf /\ printed' = FullWords \o LastWord
    BY DEF PrintCode, AtLiteral
  <1>2. CodeFrom(d)'
    <2>1. DOMAIN objcodeBuf' = Words
      BY <1>1 DEF CodeFrom
    <2> QED BY <1>1, <2>1 DEF CodeFrom
  <1>3. /\ IsChar' <=> IsChar
        /\ IsHex' <=> IsHex
        /\ Content' = Content /\ Digits' = Digits
        /\ QuoteLast' <=> QuoteLast
    BY <1>1, SameDigits
  <1>4. HasToken /\ Matched /\ l = CodeLen /\ l <= TRECORD_CODE_LIMIT
    BY <1>1 DEF HasToken, LengthInv
  <1>5. n \in Nat \ {0}
    <2>1. Stop \in 4..Len(token) /\ n = Len(token) - 3 /\ Len(token) \in Nat
      BY <1>4, MatchedIs
    <2> QED BY <2>1
  <1>6. ASSUME Plain, NEW w \in Words PROVE WordHolds(objcodeBuf[w], d, Digits, w, Fresh)
    BY <1>1, <1>6 DEF CodeFrom
  <1>7. ASSUME QuoteLast, IsChar, \A k \in DOMAIN Content : Ascii[Content[k]][1] < 8
        PROVE  printed' = Digits
    <2>1. Plain /\ Fresh = 2 * l /\ l \in Nat \ {0}
      BY <1>1, <1>4, <1>5, <1>7 DEF Plain, Fresh, CodeLen
    <2>2. Digits \in Seq(0..15) /\ Len(Digits) = 2 * l
      BY <1>4, <1>7, DigitsAre DEF CodeLen
    <2> QED BY <1>1, <1>4, <1>6, <2>1, <2>2, PrintIs
  <1>8. IsHex => ~IsChar
    BY DEF IsHex, IsChar
  <1>9. ASSUME QuoteLast, IsHex, n % 2 = 0 PROVE printed' = Digits
    <2>1. Plain /\ Fresh = n
      BY <1>1, <1>8, <1>9 DEF Plain, Fresh
    <2>2. l \in Nat \ {0} /\ n = 2 * l
      <3>1. l = (n + 1) \div 2
        BY <1>4, <1>8, <1>9 DEF CodeLen
      <3> HIDE DEF n, l
      <3> QED BY <1>5, <1>9, <3>1
    <2>3. Digits \in Seq(0..15) /\ Len(Digits) = 2 * l
      BY <1>4, <1>8, <1>9, <2>2, DigitsAre
    <2> QED BY <1>1, <1>4, <1>6, <2>1, <2>2, <2>3, PrintIs
  <1>10. ASSUME QuoteLast, IsHex, n % 2 # 0
         PROVE  \E k \in 0..n : printed' = WithStale(Digits, k, d)
    <2> DEFINE e == LastOf(l)
               k == StaleAt(l)
    <2>1. Plain /\ Fresh = n
      BY <1>1, <1>8, <1>10 DEF Plain, Fresh
    <2>2. l \in Nat \ {0} /\ n = 2 * l - 1
      <3>1. l = (n + 1) \div 2
        BY <1>4, <1>8, <1>10 DEF CodeLen
      <3> HIDE DEF n, l
      <3> QED BY <1>5, <1>10, <3>1
    <2>3. Digits \in Seq(0..15) /\ Len(Digits) = 2 * l - 1 /\ Len(Digits) = n
      BY <1>4, <1>8, <1>10, <2>2, DigitsAre
    <2>4. e \in Nat
      <3>1. l - 1 \in Nat
        BY <2>2
      <3> QED BY <3>1, SizeIs, Division DEF LastOf
    <2> HIDE DEF l, n
    <2>5. ASSUME NEW w \in Words, w <= e
          PROVE  /\ k \in 0..Len(Digits)
                 /\ WordHolds(objcodeBuf[w], d, WithStale(Digits, k, d), w, 2 * l)
      <3>1. w \in 0..e
        BY <2>4, <2>5 DEF Words
      <3>2. WordHolds(objcodeBuf[w], d, Digits, w, 2 * l - 1)
        BY <1>6, <2>1, <2>2
      <3> QED BY <2>2, <2>3, <3>1, <3>2, OddHolds
    <2>6. 0 \in Words
      <3>1. 0 * SZ < TRECORD_CODE_LIMIT
        BY LiteralAssumption
      <3> QED BY <3>1, WordIn
    <2>7. k \in 0..Len(Digits)
      BY <2>4, <2>5, <2>6
    <2> DEFINE D == WithStale(Digits, k, d)
    <2>8. D \in Seq(0..15) /\ Len(D) = 2 * l
      <3> HIDE DEF k
      <3>1. D \in Seq(0..15) /\ Len(D) = Len(Digits) + 1
        BY <2>3, <2>7, WithStaleIs DEF StaleBehind
      <3> HIDE DEF D
      <3> QED BY <2>2, <2>3, <3>1
    <2>9. \A w \in Words : w <= e => WordHolds(objcodeBuf[w], d, D, w, 2 * l)
      BY <2>5
    <2> HIDE DEF D
    <2>10. FullWords \o LastWord = D
      BY <1>4, <2>2, <2>8, <2>9, PrintIs DEF l, LastOf
    <2> QED BY <1>1, <2>3, <2>7, <2>10 DEF D
  <1>11. CodeIsLiteral'
    <2> SUFFICES ASSUME QuoteLast
                 PROVE  /\ IsChar /\ (\A k \in DOMAIN Content : Ascii[Content[k]][1] < 8)
                             => printed' = Digits
                        /\ IsHex /\ n % 2 = 0 => printed' = Digits
                        /\ IsHex => \E x \in 0..15, k \in 0..n :
                             printed' \in {Digits, WithStale(Digits, k, x)}
      BY <1>3 DEF CodeIsLiteral, WithStale, IsChar, IsHex, QuoteLast
    <2>1. ASSUME IsHex
          PROVE \E x \in 0..15, k \in 0..n : printed' \in {Digits, WithStale(Digits, k, x)}
      <3>1. CASE n % 2 = 0
        <4>1. printed' = Digits /\ 0 \in 0..n
          BY <1>5, <1>9, <2>1, <3>1
        <4> QED BY <4>1
      <3>2. CASE n % 2 # 0
        BY <1>10, <2>1, <3>2
      <3> QED BY <3>1, <3>2
    <2> QED BY <1>7, <1>9, <2>1
  <1> QED BY <1>2, <1>11

\* Every step keeps the invariant of the printed code.
LEMMA CodeInvStep ==
  ScanInv /\ LengthInv /\ CodeInv /\ [LiteralNext]_literalVars => CodeInv'
  <1> SUFFICES ASSUME ScanInv, LengthInv, CodeInv, [LiteralNext]_literalVars PROVE CodeInv'
    OBVIOUS
  <1>1. PICK d \in 0..15 : CodeFrom(d)
    BY DEF CodeInv
  <1>2. text' = text
    BY DEF LiteralNext, literalVars, scanVars, ScanNext, ReadQuoted, ReadComma, ReadOther, TokenFound,
       SplitOperand, FindItem, NoItem, ScanFails, Goto, Reading, Measure, RefuseLiteral, BeginCode,
       ShiftIn, PrintCode, AtLiteral
  <1>3. text \in Texts /\ text' \in Texts
    BY <1>2 DEF CodeInv
  <1>4. ASSUME scan \notin {"shifting", "printed"}, scan' \notin {"shifting", "printed"},
               objcodeBuf' = objcodeBuf, shifted' = shifted
        PROVE  CodeInv'
    <2>1. CodeFrom(d)'
      BY <1>1, <1>4 DEF CodeFrom
    <2>2. CodeIsLiteral'
      BY <1>4 DEF CodeIsLiteral
    <2> QED BY <1>3, <2>1, <2>2 DEF CodeInv
  <1>5. CASE ScanNext /\ UNCHANGED <<byteLen, objcodeLen, objcodeBuf, shifted, printed>>
    <2>1. /\ scan \in {"token", "found", "items"}
          /\ scan' \in {"token", "SYNTAX_PARSE_FAIL", "found", "items", "split", "no item"}
      BY <1>5 DEF ScanNext, ReadQuoted, ReadComma, ReadOther, TokenFound, SplitOperand, FindItem,
         NoItem, ScanFails, Goto, Reading
    <2> QED BY <1>4, <1>5, <2>1
  <1>6. CASE Measure \/ RefuseLiteral
    <2>1. /\ scan = "found" /\ objcodeBuf' = objcodeBuf /\ shifted' = shifted
          /\ scan' \in {"measured", "INVALID_OPERAND_FORMAT", "CONSTANT_TOO_LARGE"}
      BY <1>6 DEF Measure, RefuseLiteral, AtLiteral
    <2> QED BY <1>4, <2>1
  <1>7. CASE BeginCode
    <2>1. CodeFrom(d)'
      BY <1>1, <1>7, BeginStep
    <2>2. CodeIsLiteral'
      BY <1>7 DEF BeginCode, CodeIsLiteral
    <2> QED BY <1>3, <2>1, <2>2 DEF CodeInv
  <1>8. CASE ShiftIn
    <2>1. CodeFrom(d)'
      BY <1>1, <1>3, <1>8, ShiftStep
    <2>2. CodeIsLiteral'
      BY <1>8 DEF ShiftIn, AtLiteral, CodeIsLiteral
    <2> QED BY <1>3, <2>1, <2>2 DEF CodeInv
  <1>9. CASE PrintCode
    BY <1>1, <1>3, <1>9, PrintStep DEF CodeInv
  <1>10. CASE UNCHANGED literalVars
    <2>1. /\ token' = token /\ scan' = scan /\ objcodeBuf' = objcodeBuf /\ shifted' = shifted
          /\ printed' = printed
      BY <1>10 DEF literalVars, scanVars
    <2>2. /\ IsChar' <=> IsChar
          /\ IsHex' <=> IsHex
          /\ Content' = Content /\ Digits' = Digits
          /\ QuoteLast' <=> QuoteLast
          /\ Plain' <=> Plain
      BY <2>1, SameDigits
    <2>3. Fresh' = Fresh
      BY <2>1, <2>2 DEF Fresh
    <2>4. CodeFrom(d)'
      BY <1>1, <2>1, <2>2, <2>3 DEF CodeFrom, WordHolds, InWord, WordSize
    <2>5. CodeIsLiteral'
      BY <2>1, <2>2 DEF CodeInv, CodeIsLiteral
    <2> QED BY <1>3, <2>4, <2>5 DEF CodeInv
  <1> QED BY <1>5, <1>6, <1>7, <1>8, <1>9, <1>10 DEF LiteralNext

\* The invariant of the printed code holds throughout.
LEMMA CodeInvariant == LiteralSpec => []CodeInv
  <1>1. LiteralInit => CodeInv
    <2> SUFFICES ASSUME LiteralInit PROVE CodeInv
      OBVIOUS
    <2>1. scan = "token" /\ text \in Texts /\ shifted = 0
      BY DEF LiteralInit, ScanInit
    <2>2. PICK d \in Stale : objcodeBuf = [w \in Words |-> [k \in 1..2*SZ |-> d]]
      BY DEF LiteralInit
    <2>3. d \in 0..15 /\ CodeFrom(d)
      BY <2>1, <2>2, LiteralAssumption DEF CodeFrom
    <2> QED BY <2>1, <2>3 DEF CodeInv, CodeIsLiteral
  <1> QED BY <1>1, CodeInvStep, ScanInvariant, LengthInvariant, PTL DEF LiteralSpec

(* Whatever earlier statements left in the words of objcodeBuf, pass 2       *)
(* prints the digits of a literal that nothing follows; of an odd number of  *)
(* hexadecimal digits the last is behind a stale one                         *)
(* (assemble_pass2.c:169, assemble_pass2.c:449).                             *)
THEOREM CodeIsThatOfTheLiteral == LiteralSpec => []CodeIsLiteral
  <1>1. CodeInv => CodeIsLiteral
    BY DEF CodeInv
  <1> QED BY <1>1, CodeInvariant, PTL

-----------------------------------------------------------------------------
\* An even number of quotes is before position k.
Outside(k) == Cardinality(Quotes(k)) % 2 = 0
IsQuote(k) == text[k] = "'"
IsSeparator(k) == text[k] \in Separators

\* The characters from a to e are a stretch of separators.
IsStretch(a, e) ==
  /\ a \in 1..Len(text) /\ e \in a..Len(text)
  /\ \A k \in a..e : Parting(k)
  /\ a = 1 \/ ~Parting(a - 1)
  /\ e = Len(text) \/ ~Parting(e + 1)

(* What getTokenSize has passed: it stands outside quotes and not within a   *)
(* stretch, and every stretch before it has one comma and a word behind it.  *)
PassedTo(k) ==
  /\ Outside(k)
  /\ k = 1 \/ k > Len(text) \/ ~Parting(k - 1) \/ ~IsSeparator(k)
  /\ \A s \in Stretches : s[1] < k => Cardinality(CommasOf(s)) = 1 /\ s[2] < Len(text)

MeantInv == (Reading => PassedTo(at)) /\ TokenAsMeant

\* There is a number of quotes before a position.
LEMMA QuotesFinite ==
  ASSUME NEW k \in Nat PROVE IsFiniteSet(Quotes(k)) /\ Cardinality(Quotes(k)) \in Nat
  <1>1. IsFiniteSet(1..k-1)
    BY FS_Interval
  <1>2. Quotes(k) \subseteq 1..k-1
    BY DEF Quotes
  <1>3. IsFiniteSet(Quotes(k))
    BY <1>1, <1>2, FS_Subset
  <1> QED BY <1>3, FS_CardinalityType

\* A quote opens or closes.
LEMMA QuoteTurns ==
  ASSUME NEW k \in Nat \ {0}, IsQuote(k) PROVE Outside(k + 1) <=> ~Outside(k)
  <1>1. \A j \in 1..(k+1)-1 : j \in 1..k-1 \/ j = k
    OBVIOUS
  <1>2. k \in 1..(k+1)-1 /\ 1..k-1 \subseteq 1..(k+1)-1 /\ k \notin 1..k-1
    OBVIOUS
  <1>3. Quotes(k + 1) = Quotes(k) \cup {k} /\ k \notin Quotes(k)
    BY <1>1, <1>2 DEF Quotes, IsQuote
  <1>4. IsFiniteSet(Quotes(k)) /\ Cardinality(Quotes(k)) \in Nat
    BY QuotesFinite
  <1>5. Cardinality(Quotes(k + 1)) = Cardinality(Quotes(k)) + 1
    BY <1>3, <1>4, FS_AddElement
  <1> DEFINE c == Cardinality(Quotes(k))
  <1> HIDE DEF c
  <1>6. c \in Nat /\ Cardinality(Quotes(k + 1)) = c + 1
    BY <1>4, <1>5 DEF c
  <1>7. (c + 1) % 2 = 0 <=> ~(c % 2 = 0)
    BY <1>6
  <1> QED BY <1>6, <1>7 DEF Outside, c

\* Other characters do not.
LEMMA QuoteNone ==
  ASSUME NEW a \in Nat \ {0}, NEW b \in Nat, a <= b, \A j \in a..b-1 : ~IsQuote(j)
  PROVE  Outside(b) <=> Outside(a)
  <1>1. \A j \in 1..b-1 : j \in 1..a-1 \/ j \in a..b-1
    OBVIOUS
  <1>2. \A j \in 1..a-1 : j \in 1..b-1
    OBVIOUS
  <1>3. Quotes(b) = Quotes(a)
    BY <1>1, <1>2, Zenon DEF Quotes, IsQuote
  <1> QED BY <1>3 DEF Outside

\* A separator parts where no quote is open.
LEMMA PartingIs == ASSUME NEW k PROVE Parting(k) <=> IsSeparator(k) /\ Outside(k)
  BY DEF Parting, IsSeparator, Outside

\* A separator is not a quote.
LEMMA NoQuote == ASSUME NEW k, IsSeparator(k) PROVE ~IsQuote(k)
  BY DEF IsSeparator, IsQuote, Separators, Blank

\* Commas and blanks are separators.
LEMMA CommaParts ==
  ASSUME NEW k PROVE (IsComma(k) => IsSeparator(k)) /\ (text[k] \in Blank => IsSeparator(k))
  BY DEF IsComma, IsSeparator, Separators

\* The elements of Stretches are stretches.
LEMMA StretchIs == \A s \in Stretches : IsStretch(s[1], s[2]) /\ s = <<s[1], s[2]>>
  <1> SUFFICES ASSUME NEW s \in Stretches PROVE IsStretch(s[1], s[2]) /\ s = <<s[1], s[2]>>
    OBVIOUS
  <1>1. s \in (1..Len(text)) \X (1..Len(text))
    BY DEF Stretches
  <1>2. /\ s[1] <= s[2] /\ \A k \in s[1]..s[2] : Parting(k)
        /\ s[1] = 1 \/ ~Parting(s[1] - 1)
        /\ s[2] = Len(text) \/ ~Parting(s[2] + 1)
    BY DEF Stretches
  <1>3. s[1] \in 1..Len(text) /\ s[2] \in 1..Len(text) /\ s = <<s[1], s[2]>>
    BY <1>1
  <1>4. s[2] \in s[1]..Len(text)
    BY <1>2, <1>3
  <1> QED BY <1>2, <1>3, <1>4 DEF IsStretch

\* A stretch is an element of Stretches, with its commas.
LEMMA StretchOf ==
  ASSUME NEW a, NEW e, IsStretch(a, e)
  PROVE  /\ <<a, e>> \in Stretches /\ <<a, e>>[1] = a /\ <<a, e>>[2] = e
         /\ CommasOf(<<a, e>>) = {k \in a..e : IsComma(k)}
  <1>1. a \in 1..Len(text) /\ e \in 1..Len(text) /\ a <= e
    BY DEF IsStretch
  <1>2. <<a, e>>[1] = a /\ <<a, e>>[2] = e
    OBVIOUS
  <1> DEFINE s == <<a, e>>
  <1>3. s \in (1..Len(text)) \X (1..Len(text)) /\ s[1] = a /\ s[2] = e
    BY <1>1, <1>2
  <1> HIDE DEF s
  <1>4. s \in Stretches
    BY <1>1, <1>3 DEF Stretches, IsStretch
  <1>5. CommasOf(s) = {k \in a..e : IsComma(k)}
    BY <1>3 DEF CommasOf, IsComma
  <1> QED BY <1>3, <1>4, <1>5 DEF s

\* A separator at the front of a stretch has one.
LEMMA StretchFrom ==
  ASSUME Len(text) \in Nat, NEW a \in 1..Len(text), Parting(a), a = 1 \/ ~Parting(a - 1)
  PROVE  \E e \in a..Len(text) : IsStretch(a, e)
  <1> DEFINE n == Len(text)
             ends == {k \in a..n+1 : k = n + 1 \/ ~Parting(k)}
             m == Min(ends)
             e == m - 1
  <1>1. ends \in SUBSET Nat /\ n + 1 \in ends
    OBVIOUS
  <1>2. m \in ends /\ \A k \in ends : m <= k
    <2> HIDE DEF ends
    <2> QED BY <1>1, MinOf
  <1> HIDE DEF m
  <1>3. m \in a..n+1 /\ (m = n + 1 \/ ~Parting(m)) /\ m # a
    BY <1>2
  <1>4. e \in a..n /\ m = e + 1
    BY <1>3
  <1>5. ASSUME NEW k \in a..e PROVE Parting(k)
    <2>1. k \in a..n+1 /\ ~(m <= k)
      BY <1>3, <1>4
    <2> QED BY <1>2, <2>1
  <1>6. e = n \/ ~Parting(e + 1)
    <2>1. m = n + 1 => e = n
      BY <1>3
    <2> QED BY <1>3, <1>4, <2>1
  <1> HIDE DEF e
  <1> QED BY <1>4, <1>5, <1>6 DEF IsStretch

\* One that begins in a run of them begins with it and holds all of the run.
LEMMA StretchOver ==
  ASSUME Len(text) \in Nat, NEW a, NEW e, IsStretch(a, e),
         NEW p \in Nat \ {0}, NEW q \in Nat, q <= Len(text), \A k \in p..q : Parting(k), a \in p..q
  PROVE  a = p /\ e >= q
  <1>1. a \in 1..Len(text) /\ e \in a..Len(text)
    BY DEF IsStretch
  <1>2. (a = 1 \/ ~Parting(a - 1)) /\ (e = Len(text) \/ ~Parting(e + 1))
    BY DEF IsStretch
  <1>3. ~(a > p)
    <2>1. ASSUME a > p PROVE FALSE
      <3>1. a - 1 \in p..q /\ a # 1
        BY <1>1, <2>1
      <3> QED BY <1>2, <3>1
    <2> QED BY <2>1
  <1>4. ~(e < q)
    <2>1. ASSUME e < q PROVE FALSE
      <3>1. e + 1 \in p..q /\ e # Len(text)
        BY <1>1, <2>1
      <3> QED BY <1>2, <3>1
    <2> QED BY <2>1
  <1> QED BY <1>1, <1>3, <1>4

\* The commas of a stretch can be counted.
LEMMA CommasFinite ==
  ASSUME Len(text) \in Nat, NEW s \in Stretches
  PROVE  IsFiniteSet(CommasOf(s)) /\ (CommasOf(s) = {} => Cardinality(CommasOf(s)) # 1)
  <1>1. s[1] \in Int /\ s[2] \in Int
    BY StretchIs DEF IsStretch
  <1>2. IsFiniteSet(s[1]..s[2]) /\ CommasOf(s) \subseteq s[1]..s[2]
    BY <1>1, FS_Interval DEF CommasOf
  <1>3. IsFiniteSet(CommasOf(s))
    BY <1>2, FS_Subset
  <1>4. Cardinality({}) = 0
    BY FS_EmptySet
  <1> QED BY <1>3, <1>4

-----------------------------------------------------------------------------
\* No stretch without a comma has been passed.
LEMMA EndBehind ==
  ASSUME Len(text) \in Nat, NEW k \in 1..Len(text)+1, PassedTo(k)
  PROVE  /\ TokenEnd \in k..Len(text)+1
         /\ TokenEnd # Len(text) + 1 =>
              \E s \in Stretches : s[1] = TokenEnd /\ CommasOf(s) = {}
  <1> DEFINE n == Len(text)
             bare == {r \in Stretches : CommasOf(r) = {}}
             ends == {s[1] : s \in bare} \cup {n + 1}
  <1>1. \A s \in bare : s \in Stretches /\ CommasOf(s) = {} /\ s[1] \in 1..n
    BY StretchIs DEF IsStretch
  <1>2. ends \in SUBSET Nat /\ ends # {}
    BY <1>1
  <1>3. TokenEnd = Min(ends)
    BY DEF TokenEnd
  <1>4. Min(ends) \in ends
    <2> HIDE DEF ends
    <2> QED BY <1>2, MinOf
  <1>5. \A s \in bare : ~(s[1] < k)
    BY <1>1, CommasFinite DEF PassedTo
  <1> DEFINE m == Min(ends)
  <1>6. m = n + 1 \/ \E s \in bare : m = s[1]
    BY <1>4
  <1> HIDE DEF m, ends, bare
  <1>7. ASSUME NEW s \in bare, m = s[1]
        PROVE  m \in k..n+1 /\ \E r \in Stretches : r[1] = m /\ CommasOf(r) = {}
    <2>1. m \in k..n+1
      BY <1>1, <1>5, <1>7
    <2> QED BY <1>1, <1>7, <2>1
  <1> QED BY <1>3, <1>6, <1>7 DEF m

\* The token ends where there is a stretch without a comma, or the line ends.
LEMMA EndHere ==
  ASSUME Len(text) \in Nat, NEW k \in 1..Len(text)+1, PassedTo(k),
         k = Len(text) + 1 \/ \E s \in Stretches : s[1] = k /\ CommasOf(s) = {}
  PROVE  TokenEnd = k /\ TokenSound
  <1> DEFINE n == Len(text)
             ends == {s[1] : s \in {r \in Stretches : CommasOf(r) = {}}} \cup {n + 1}
  <1>1. \A s \in Stretches : s[1] \in 1..n
    BY StretchIs DEF IsStretch
  <1>2. ends \in SUBSET Nat /\ k \in ends
    BY <1>1
  <1>3. ASSUME NEW x \in ends PROVE k <= x
    <2>1. CASE x = n + 1
      BY <2>1
    <2>2. ASSUME NEW s \in Stretches, CommasOf(s) = {}, x = s[1] PROVE k <= x
      <3>1. ~(s[1] < k)
        BY <2>2, CommasFinite DEF PassedTo
      <3> QED BY <1>1, <2>2, <3>1
    <2>3. x = n + 1 \/ \E s \in Stretches : CommasOf(s) = {} /\ x = s[1]
      OBVIOUS
    <2> QED BY <2>1, <2>2, <2>3
  <1>4. TokenEnd = Min(ends)
    BY DEF TokenEnd
  <1> HIDE DEF ends
  <1>5. TokenEnd = k
    BY <1>2, <1>3, <1>4, MinIs
  <1> QED BY <1>5 DEF TokenSound, PassedTo, Outside

\* Behind a quote that nothing closes no stretch begins, and the line ends in it.
LEMMA OpenQuote ==
  ASSUME Len(text) \in Nat, NEW k \in 1..Len(text), PassedTo(k), IsQuote(k),
         \A j \in k+1..Len(text) : ~IsQuote(j)
  PROVE  ~TokenSound
  <1> DEFINE n == Len(text)
  <1>1. ASSUME NEW j \in k+1..n+1 PROVE ~Outside(j)
    <2>1. Outside(k + 1) <=> ~Outside(k)
      BY QuoteTurns
    <2>2. \A i \in k+1..j-1 : ~IsQuote(i)
      OBVIOUS
    <2>3. Outside(j) <=> Outside(k + 1)
      <3>1. k + 1 \in Nat \ {0} /\ j \in Nat /\ k + 1 <= j
        OBVIOUS
      <3> QED BY <2>2, <3>1, QuoteNone
    <2> QED BY <2>1, <2>3 DEF PassedTo
  <1>2. k \in 1..n+1
    OBVIOUS
  <1>3. /\ TokenEnd \in k..n+1
        /\ TokenEnd # n + 1 => \E s \in Stretches : s[1] = TokenEnd /\ CommasOf(s) = {}
    BY <1>2, EndBehind
  <1>4. ASSUME NEW s \in Stretches, s[1] \in k..n PROVE FALSE
    <2>1. Parting(s[1])
      <3>1. s[1] \in s[1]..s[2]
        BY StretchIs DEF IsStretch
      <3> QED BY <3>1, StretchIs DEF IsStretch
    <2>2. IsSeparator(s[1]) /\ Outside(s[1])
      BY <2>1, PartingIs
    <2>3. s[1] # k
      BY <2>2, NoQuote
    <2>4. s[1] \in k+1..n+1
      BY <1>4, <2>3
    <2> QED BY <1>1, <2>2, <2>4
  <1>5. TokenEnd = n + 1
    <2>1. TokenEnd # n + 1 => TokenEnd \in k..n
      BY <1>3
    <2> QED BY <1>3, <1>4, <2>1
  <1>6. n + 1 \in k+1..n+1
    OBVIOUS
  <1> QED BY <1>1, <1>5, <1>6 DEF TokenSound, Outside

\* From a separator up to what stands behind its comma.
LEMMA CommaRun ==
  ASSUME LineInv, PassedTo(at), Here \in Separators, ~EndsToken
  PROVE  /\ Len(text) \in Nat /\ at \in 1..Len(text)
         /\ BehindComma \in CommaAt+1..Len(text)+1 /\ CommaAt \in at..Len(text)
         /\ \A k \in at..BehindComma-1 : /\ Parting(k)
                                         /\ IsComma(k) => k = CommaAt
         /\ IsComma(CommaAt) /\ Outside(BehindComma) /\ (at = 1 \/ ~Parting(at - 1))
  <1> DEFINE c == CommaAt
             m == BehindComma
             n == Len(text)
  <1>1. /\ at \in 1..n /\ c \in at..n /\ IsComma(c) /\ BlanksIn(at, c - 1)
        /\ m \in c+1..n+1 /\ BlanksIn(c + 1, m - 1)
    BY CommaIsAt
  <1>2. n \in Nat
    BY LenProperties DEF LineInv
  <1> HIDE DEF c, m
  <1>3. ASSUME NEW k \in at..m-1 PROVE IsSeparator(k) /\ (IsComma(k) => k = c)
    <2>1. k \in at..c-1 \/ k = c \/ k \in c+1..m-1
      BY <1>1, <1>2
    <2>2. k # c => text[k] \in Blank
      BY <1>1, <2>1, Zenon DEF BlanksIn
    <2>3. text[k] \in Blank => ~IsComma(k)
      BY NoBlank DEF IsComma
    <2> QED BY <1>1, <2>2, <2>3, CommaParts
  <1>4. \A k \in at..m-1 : ~IsQuote(k)
    BY <1>3, NoQuote
  <1>5. ASSUME NEW k \in at..m PROVE Outside(k)
    <2>1. at \in Nat \ {0} /\ k \in Nat /\ at <= k
      BY <1>1, <1>2
    <2>2. \A j \in at..k-1 : j \in at..m-1
      BY <1>1, <1>2
    <2>3. Outside(k) <=> Outside(at)
      BY <1>4, <2>1, <2>2, QuoteNone
    <2> QED BY <2>3 DEF PassedTo
  <1>6. \A k \in at..m-1 : k \in at..m
    BY <1>1, <1>2
  <1>7. \A k \in at..m-1 : Parting(k)
    BY <1>3, <1>5, <1>6, PartingIs
  <1>8. m \in at..m /\ at \in at..m-1 /\ ~(at > n)
    BY <1>1, <1>2
  <1>9. at = 1 \/ ~Parting(at - 1)
    BY <1>3, <1>8 DEF PassedTo
  <1> QED BY <1>1, <1>2, <1>3, <1>5, <1>7, <1>8, <1>9 DEF c, m

\* No word behind the comma: the stretch has two commas, or the line ends in it.
LEMMA LostComma ==
  ASSUME LineInv, PassedTo(at), Here \in Separators, ~EndsToken, CommaLost
  PROVE  ~TokenSound
  <1> DEFINE c == CommaAt
             m == BehindComma
             n == Len(text)
  <1>1. /\ n \in Nat /\ at \in 1..n /\ c \in at..n /\ m \in c+1..n+1
        /\ \A k \in at..m-1 : Parting(k)
        /\ IsComma(c) /\ Outside(m) /\ (at = 1 \/ ~Parting(at - 1))
    BY CommaRun
  <1>2. CharAt(text, m) \in {",", NUL}
    BY DEF CommaLost
  <1>3. NUL \notin Chars /\ text \in Seq(Chars)
    BY DEF LineInv
  <1> HIDE DEF c, m
  <1>4. m = n + 1 \/ IsComma(m)
    <2>1. m \in 1..n+1
      BY <1>1
    <2>2. CASE m \in 1..n
      <3>1. CharAt(text, m) = text[m] /\ text[m] \in Chars
        BY <1>1, <1>3, <2>2, ElementOfSeq DEF CharAt
      <3> QED BY <1>2, <1>3, <3>1 DEF IsComma
    <2> QED BY <1>1, <2>1, <2>2
  <1>5. PICK e \in at..n : IsStretch(at, e)
    <2>1. at \in at..m-1
      BY <1>1
    <2> QED BY <1>1, <2>1, StretchFrom
  <1> DEFINE s == <<at, e>>
  <1>6. s \in Stretches /\ s[1] = at /\ s[2] = e /\ CommasOf(s) = {k \in at..e : IsComma(k)}
    BY <1>5, StretchOf
  <1> HIDE DEF s
  <1>7. ASSUME NEW r \in Stretches, r[1] = at PROVE r[2] >= m - 1 /\ c \in CommasOf(r)
    <2>1. IsStretch(r[1], r[2])
      BY StretchIs
    <2>2. at \in Nat \ {0} /\ m - 1 \in Nat /\ m - 1 <= n /\ at \in at..m-1
      BY <1>1
    <2> DEFINE q == m - 1
    <2>3. q \in Nat /\ q <= n /\ at \in at..q /\ \A k \in at..q : Parting(k)
      BY <1>1, <2>2
    <2> HIDE DEF q
    <2>4. r[2] >= q
      BY <1>1, <1>7, <2>1, <2>2, <2>3, StretchOver
    <2>5. c \in r[1]..r[2]
      <3>1. r[2] \in Int
        BY <2>1 DEF IsStretch
      <3> QED BY <1>1, <1>7, <2>4, <3>1 DEF q
    <2> QED BY <1>1, <2>4, <2>5 DEF CommasOf, IsComma, q
  <1>8. at < TokenEnd
    <2>1. at \in 1..n+1
      BY <1>1
    <2>2. /\ TokenEnd \in at..n+1
          /\ TokenEnd # n + 1 => \E r \in Stretches : r[1] = TokenEnd /\ CommasOf(r) = {}
      BY <1>1, <2>1, EndBehind
    <2>3. TokenEnd # at
      <3>1. at # n + 1
        BY <1>1
      <3> QED BY <1>7, <2>2, <3>1
    <2> QED BY <1>1, <2>2, <2>3
  <1>9. ASSUME TokenSound PROVE FALSE
    <2>1. Cardinality(CommasOf(s)) = 1 /\ e < n
      BY <1>6, <1>8, <1>9 DEF TokenSound
    <2>2. e >= m - 1 /\ c \in CommasOf(s)
      BY <1>6, <1>7
    <2>3. m # n + 1
      BY <1>1, <1>5, <2>1, <2>2
    <2>4. IsComma(m) /\ m \in 1..n
      BY <1>1, <1>4, <2>3
    <2>5. Parting(m)
      BY <1>1, <2>4, PartingIs, CommaParts
    <2>6. \A k \in at..m : Parting(k)
      <3>1. \A k \in at..m : k \in at..m-1 \/ k = m
        BY <1>1
      <3> QED BY <1>1, <2>5, <3>1
    <2>7. e >= m
      <3>1. at \in Nat \ {0} /\ m \in Nat /\ m <= n /\ at \in at..m
        BY <1>1, <2>4
      <3> QED BY <1>1, <1>5, <2>6, <3>1, StretchOver
    <2>8. m \in CommasOf(s)
      <3>1. m \in at..e
        BY <1>1, <1>5, <2>7
      <3> QED BY <1>6, <2>4, <3>1
    <2>9. IsFiniteSet(CommasOf(s))
      BY <1>1, <1>6, CommasFinite
    <2>10. PICK x : CommasOf(s) = {x}
      BY <2>1, <2>9, FS_Singleton
    <2>11. c # m
      BY <1>1
    <2> QED BY <2>2, <2>8, <2>10, <2>11
  <1> QED BY <1>9


\* The stretch of a separator with one comma, and a word behind it.
LEMMA PassComma ==
  ASSUME LineInv, PassedTo(at), Here \in Separators, ~EndsToken, ~CommaLost
  PROVE  PassedTo(BehindComma)
  <1> DEFINE c == CommaAt
             m == BehindComma
             n == Len(text)
  <1>1. /\ n \in Nat /\ at \in 1..n /\ c \in at..n /\ m \in c+1..n+1
        /\ \A k \in at..m-1 : Parting(k) /\ (IsComma(k) => k = c)
        /\ IsComma(c) /\ Outside(m)
    BY CommaRun
  <1>2. CharAt(text, m) \notin {",", NUL} /\ CharAt(text, m) \notin Blank
    BY CommaIsAt DEF CommaLost
  <1> HIDE DEF c, m
  <1>3. m \in 1..n /\ ~IsSeparator(m)
    <2>1. m \in 1..n+1
      BY <1>1
    <2>2. m \in 1..n
      <3>1. CharAt(text, m) # NUL
        BY <1>2, Zenon
      <3> QED BY <1>1, <2>1, <3>1, InsideText
    <2>3. CharAt(text, m) = text[m]
      BY <2>2 DEF CharAt
    <2> QED BY <1>2, <2>2, <2>3 DEF IsSeparator, Separators
  <1>4. ASSUME NEW s \in Stretches, s[1] < m PROVE Cardinality(CommasOf(s)) = 1 /\ s[2] < n
    <2>1. IsStretch(s[1], s[2])
      BY StretchIs
    <2>2. CASE s[1] < at
      BY <2>2 DEF PassedTo
    <2>3. CASE s[1] >= at
      <3> DEFINE q == m - 1
      <3>1. q \in Nat /\ q <= n /\ \A k \in at..q : Parting(k)
        BY <1>1
      <3>2. s[1] \in at..q
        <4>1. s[1] \in Int
          BY <2>1 DEF IsStretch
        <4> QED BY <1>1, <1>3, <1>4, <2>3, <4>1
      <3>3. at \in Nat \ {0}
        BY <1>1
      <3> HIDE DEF q
      <3>4. s[1] = at /\ s[2] >= q
        BY <1>1, <2>1, <3>1, <3>2, <3>3, StretchOver
      <3>5. s[2] = q
        <4>1. ~Parting(m)
          BY <1>3, PartingIs
        <4>2. s[2] \in s[1]..n /\ \A k \in s[1]..s[2] : Parting(k)
          BY <2>1 DEF IsStretch
        <4>3. m \notin s[1]..s[2]
          BY <4>1, <4>2
        <4>4. m <= s[2] => m \in s[1]..s[2]
          BY <1>1, <1>3, <3>4, <4>2
        <4> QED BY <1>1, <1>3, <3>4, <4>2, <4>3, <4>4 DEF q
      <3>6. c \in at..q /\ \A k \in at..q : k \in at..m-1
        BY <1>1, <1>3 DEF q
      <3>7. CommasOf(s) = {c}
        BY <1>1, <3>4, <3>5, <3>6 DEF CommasOf, IsComma
      <3>8. Cardinality({c}) = 1
        BY FS_Singleton
      <3> QED BY <1>1, <1>3, <3>5, <3>7, <3>8 DEF q
    <2>4. s[1] \in Int
      BY <2>1 DEF IsStretch
    <2> QED BY <1>1, <2>2, <2>3, <2>4
  <1> QED BY <1>1, <1>3, <1>4 DEF PassedTo, m

\* Over a quoted part, or over a character, no stretch is passed.
LEMMA PassNothing ==
  ASSUME Len(text) \in Nat, at \in 1..Len(text), PassedTo(at), NEW k \in at+1..Len(text)+1,
         Outside(k), ~IsSeparator(k - 1), \A j \in at..k-1 : ~Parting(j)
  PROVE  PassedTo(k)
  <1>1. ~Parting(k - 1)
    BY PartingIs
  <1>2. ASSUME NEW s \in Stretches, s[1] < k PROVE s[1] < at
    <2>1. s[1] \in 1..Len(text) /\ s[1] \in s[1]..s[2] /\ \A j \in s[1]..s[2] : Parting(j)
      BY StretchIs DEF IsStretch
    <2>2. s[1] \notin at..k-1
      BY <2>1
    <2> QED BY <1>2, <2>1, <2>2
  <1> QED BY <1>1, <1>2 DEF PassedTo

\* Behind the closing quote the scan has passed what it met.
LEMMA PassQuotes ==
  ASSUME LineInv, PassedTo(at), Here = "'", CharAt(text, ClosingQuote) # NUL
  PROVE  PassedTo(ClosingQuote + 1)
  <1> DEFINE q == ClosingQuote
             n == Len(text)
  <1>1. n \in Nat /\ text \in Seq(Chars) /\ NUL \notin Chars /\ at \in 1..n+1
    BY LenProperties DEF LineInv
  <1>2. at \in 1..n /\ IsQuote(at)
    <2>1. CharAt(text, at) = "'" /\ CharAt(text, at) # NUL
      BY DEF Here, NUL
    <2>2. at \in 1..n
      BY <1>1, <2>1, InsideText
    <2> QED BY <2>1, <2>2 DEF CharAt, IsQuote
  <1>3. at + 1 \in 1..n+1
    BY <1>1, <1>2
  <1>4. /\ q \in at+1..n+1 /\ CharAt(text, q) \in {"'"} \cup {NUL}
        /\ \A j \in at+1..q-1 : CharAt(text, j) \notin {"'"} \cup {NUL}
    BY <1>1, <1>3, FirstInIs DEF ClosingQuote
  <1>5. CharAt(text, q) = "'"
    BY <1>4
  <1> HIDE DEF q
  <1>6. q \in at+1..n /\ IsQuote(q)
    <2>1. q \in 1..n+1 /\ CharAt(text, q) # NUL
      BY <1>1, <1>2, <1>4, <1>5 DEF NUL
    <2>2. q \in 1..n
      BY <1>1, <2>1, InsideText
    <2>3. IsQuote(q)
      BY <1>5, <2>2 DEF CharAt, IsQuote
    <2> QED BY <1>4, <2>2, <2>3
  <1>7. \A j \in at+1..q-1 : ~IsQuote(j)
    <2>1. \A j \in at+1..q-1 : j <= n
      BY <1>1, <1>2, <1>6
    <2>2. \A j \in at+1..q-1 : CharAt(text, j) = text[j]
      BY <2>1, Zenon DEF CharAt
    <2> QED BY <1>4, <2>2 DEF IsQuote
  <1>8. ASSUME NEW j \in at+1..q PROVE ~Outside(j)
    <2>1. at + 1 \in Nat \ {0} /\ j \in Nat /\ at + 1 <= j /\ \A i \in at+1..j-1 : i \in at+1..q-1
      BY <1>1, <1>2, <1>6
    <2>2. Outside(j) <=> Outside(at + 1)
      BY <1>7, <2>1, QuoteNone
    <2>3. Outside(at + 1) <=> ~Outside(at)
      BY <1>2, QuoteTurns
    <2> QED BY <2>2, <2>3 DEF PassedTo
  <1>9. Outside(q + 1)
    <2>1. q \in Nat \ {0} /\ q \in at+1..q
      BY <1>1, <1>2, <1>6
    <2> QED BY <1>6, <1>8, <2>1, QuoteTurns
  <1>10. \A j \in at..q : ~Parting(j)
    <2>1. \A j \in at..q : j = at \/ j \in at+1..q
      BY <1>1, <1>2, <1>6
    <2>2. ~Parting(at)
      BY <1>2, PartingIs, NoQuote
    <2> QED BY <1>8, <2>1, <2>2, PartingIs
  <1> DEFINE k == q + 1
  <1>11. /\ k \in at+1..n+1 /\ Outside(k) /\ k - 1 = q /\ ~IsSeparator(k - 1)
         /\ \A j \in at..k-1 : ~Parting(j)
    <2>1. k \in at+1..n+1 /\ k - 1 = q
      BY <1>1, <1>2, <1>6
    <2>2. ~IsSeparator(q)
      BY <1>6, NoQuote
    <2> HIDE DEF k
    <2> QED BY <1>9, <1>10, <2>1, <2>2 DEF k
  <1> HIDE DEF k
  <1>12. PassedTo(k)
    BY <1>1, <1>2, <1>11, PassNothing
  <1> QED BY <1>12 DEF k, q

\* Behind a character that is neither separator nor quote, too.
LEMMA PassOther ==
  ASSUME LineInv, PassedTo(at), Here \notin Separators \cup {"'", NUL} PROVE PassedTo(at + 1)
  <1> DEFINE n == Len(text)
             k == at + 1
  <1>1. n \in Nat /\ at \in 1..n+1
    BY LenProperties DEF LineInv
  <1>2. at \in 1..n
    BY <1>1, InsideText DEF Here
  <1>3. ~IsSeparator(at) /\ ~IsQuote(at)
    <2>1. CharAt(text, at) = text[at]
      BY <1>2 DEF CharAt
    <2> QED BY <2>1 DEF Here, IsSeparator, IsQuote
  <1>4. at \in Nat \ {0} /\ k \in Nat /\ at <= k /\ \A j \in at..k-1 : j = at
    BY <1>1, <1>2
  <1>5. k \in at+1..n+1 /\ k - 1 = at
    BY <1>1, <1>2
  <1> HIDE DEF k
  <1>6. Outside(k)
    BY <1>3, <1>4, QuoteNone DEF PassedTo
  <1>7. \A j \in at..k-1 : ~Parting(j)
    BY <1>3, <1>4, PartingIs
  <1>8. ~IsSeparator(k - 1)
    BY <1>3, <1>5
  <1>9. PassedTo(k)
    BY <1>1, <1>2, <1>5, <1>6, <1>7, <1>8, PassNothing
  <1> QED BY <1>9 DEF k

\* The token ends at a stretch of blanks, or with the line.
LEMMA EndIsMeant ==
  ASSUME LineInv, PassedTo(at), EndsToken PROVE TokenEnd = at /\ TokenSound
  <1> DEFINE n == Len(text)
             b == Behind(text, at + 1)
  <1>1. n \in Nat /\ at \in 1..n+1 /\ text \in Seq(Chars) /\ NUL \notin Chars
    BY LenProperties DEF LineInv
  <1>2. CASE Here = NUL
    <2>1. at = n + 1
      <3>1. ASSUME at \in 1..n PROVE FALSE
        <4>1. CharAt(text, at) = text[at] /\ text[at] \in Chars
          BY <1>1, <3>1, ElementOfSeq DEF CharAt
        <4> QED BY <1>1, <1>2, <4>1 DEF Here
      <3> QED BY <1>1, <3>1
    <2> QED BY <1>1, <2>1, EndHere
  <1>3. CASE Here \in Blank /\ CharAt(text, CommaAt) # ","
    <2>1. Here # NUL /\ Here # ","
      BY <1>3, NoBlank
    <2>2. at \in 1..n
      BY <1>1, <2>1, InsideText DEF Here
    <2>3. text[at] \in Blank /\ at + 1 \in 1..n+1
      <3>1. CharAt(text, at) = text[at]
        BY <2>2 DEF CharAt
      <3>2. at + 1 \in 1..n+1
        BY <1>1, <2>2
      <3> QED BY <1>3, <3>1, <3>2 DEF Here
    <2>4. CommaAt = b
      BY <2>1 DEF CommaAt
    <2>5. /\ b \in at+1..n+1 /\ CharAt(text, b) \notin Blank
          /\ \A j \in at+1..b-1 : CharAt(text, j) \in Blank
      BY <1>1, <2>3, BehindIs
    <2>6. CharAt(text, b) # ","
      BY <1>3, <2>4
    <2> HIDE DEF b
    <2>7. IsSeparator(at) /\ Parting(at)
      BY <2>3, CommaParts, PartingIs DEF PassedTo
    <2>8. at = 1 \/ ~Parting(at - 1)
      <3>1. ~(at > n)
        BY <1>1, <2>2
      <3> QED BY <2>7, <3>1 DEF PassedTo
    <2>9. PICK e \in at..n : IsStretch(at, e)
      BY <1>1, <2>2, <2>7, <2>8, StretchFrom
    <2>10. e < b
      <3>1. ASSUME b <= e PROVE FALSE
        <4>1. b \in at..e /\ b \in 1..n
          BY <1>1, <2>2, <2>5, <2>9, <3>1
        <4>2. IsSeparator(b)
          BY <2>9, <4>1, PartingIs DEF IsStretch
        <4>3. CharAt(text, b) = text[b]
          BY <4>1 DEF CharAt
        <4> QED BY <2>5, <2>6, <4>2, <4>3 DEF IsSeparator, Separators
      <3> QED BY <1>1, <2>2, <2>5, <2>9, <3>1
    <2>11. ASSUME NEW k \in at..e PROVE ~IsComma(k)
      <3>1. (k = at \/ k \in at+1..b-1) /\ k \in 1..n
        BY <1>1, <2>2, <2>5, <2>9, <2>10
      <3>2. CharAt(text, k) = text[k]
        BY <3>1 DEF CharAt
      <3>3. text[k] \in Blank
        BY <2>3, <2>5, <3>1, <3>2
      <3> QED BY <3>3, NoBlank DEF IsComma
    <2>12. /\ <<at, e>> \in Stretches /\ <<at, e>>[1] = at
           /\ CommasOf(<<at, e>>) = {k \in at..e : IsComma(k)}
      BY <2>9, StretchOf
    <2>13. CommasOf(<<at, e>>) = {}
      BY <2>11, <2>12
    <2>14. \E s \in Stretches : s[1] = at /\ CommasOf(s) = {}
      BY <2>12, <2>13
    <2> QED BY <1>1, <2>14, EndHere
  <1> QED BY <1>2, <1>3 DEF EndsToken

-----------------------------------------------------------------------------
\* What is said of the line alone stays so.
LEMMA SameLine ==
  ASSUME text' = text
  PROVE  /\ TokenSound' <=> TokenSound
         /\ TokenEnd' = TokenEnd
         /\ Stretches' = Stretches
         /\ \A k : PassedTo(k)' <=> PassedTo(k)
  <1>1. /\ \A k : Quotes(k)' = Quotes(k)
        /\ \A k : Parting(k)' <=> Parting(k)
        /\ \A s : CommasOf(s)' = CommasOf(s)
    BY Zenon DEF Quotes, Parting, CommasOf
  <1>2. Stretches' = Stretches
    <2>1. \A s \in (1..Len(text)) \X (1..Len(text)) :
            /\ (\A k \in s[1]..s[2] : Parting(k)') <=> (\A k \in s[1]..s[2] : Parting(k))
            /\ Parting(s[1] - 1)' <=> Parting(s[1] - 1)
            /\ Parting(s[2] + 1)' <=> Parting(s[2] + 1)
      BY <1>1, Zenon
    <2> QED BY <2>1 DEF Stretches
  <1>3. TokenEnd' = TokenEnd
    BY <1>2, Zenon DEF TokenEnd, CommasOf
  <1>4. TokenSound' <=> TokenSound
    BY <1>1, <1>2, <1>3, Zenon DEF TokenSound
  <1>5. \A k : PassedTo(k)' <=> PassedTo(k)
    BY <1>1, <1>2, Zenon DEF PassedTo, Outside, IsSeparator
  <1> QED BY <1>2, <1>3, <1>4, <1>5

\* The scan goes on behind what it has passed.
LEMMA MeantOn ==
  ASSUME NEW k, Reading, Goto(k), PassedTo(k) PROVE MeantInv'
  <1>1. text' = text /\ at' = k /\ scan' = "token"
    BY DEF Goto, Reading
  <1>2. PassedTo(at)'
    <2>1. PassedTo(k)' <=> PassedTo(k)
      BY <1>1, SameLine
    <2> QED BY <1>1, <2>1, Zenon DEF PassedTo, Outside, Quotes, Parting, IsSeparator, Stretches, CommasOf
  <1> QED BY <1>1, <1>2 DEF MeantInv, TokenAsMeant, Reading

\* A line is refused when its token is not sound.
LEMMA MeantFails ==
  ASSUME ScanFails("SYNTAX_PARSE_FAIL"), ~TokenSound PROVE MeantInv'
  <1>1. text' = text /\ scan' = "SYNTAX_PARSE_FAIL"
    BY DEF ScanFails
  <1> QED BY <1>1, SameLine DEF MeantInv, TokenAsMeant, Reading

\* A token that has been found stays as it is.
LEMMA MeantKept ==
  ASSUME MeantInv, text' = text, token' = token, HasToken, HasToken' PROVE MeantInv'
  BY SameLine DEF MeantInv, TokenAsMeant, Reading, HasToken

\* Every step keeps the invariant of the token's end.
LEMMA MeantStep == ScanInv /\ MeantInv /\ [LiteralNext]_literalVars => MeantInv'
  <1> SUFFICES ASSUME ScanInv, MeantInv, [LiteralNext]_literalVars PROVE MeantInv'
    OBVIOUS
  <1>0. LineInv /\ (Reading => PassedTo(at)) /\ Len(text) \in Nat
    BY LenProperties DEF ScanInv, LineInv, MeantInv
  <1>1. CASE ReadQuoted
    <2>1. Reading /\ Here = "'"
      BY <1>1 DEF ReadQuoted
    <2>2. CASE CharAt(text, ClosingQuote) = NUL /\ ScanFails("SYNTAX_PARSE_FAIL")
      <3> DEFINE n == Len(text)
                 q == ClosingQuote
      <3>1. text \in Seq(Chars) /\ NUL \notin Chars /\ at \in 1..n+1
        BY <1>0 DEF LineInv
      <3>2. at \in 1..n /\ IsQuote(at)
        <4>1. CharAt(text, at) = "'" /\ CharAt(text, at) # NUL
          BY <2>1 DEF Here, NUL
        <4>2. at \in 1..n
          BY <1>0, <3>1, <4>1, InsideText
        <4> QED BY <4>1, <4>2 DEF CharAt, IsQuote
      <3>3. /\ q \in at+1..n+1
            /\ \A j \in at+1..q-1 : CharAt(text, j) \notin {"'"} \cup {NUL}
        <4>1. at + 1 \in 1..n+1
          BY <1>0, <3>2
        <4> QED BY <3>1, <4>1, FirstInIs DEF ClosingQuote
      <3> HIDE DEF q
      <3>4. q = n + 1
        <4>1. ASSUME q \in 1..n PROVE FALSE
          <5>1. CharAt(text, q) = text[q] /\ text[q] \in Chars
            BY <3>1, <4>1, ElementOfSeq DEF CharAt
          <5> QED BY <2>2, <3>1, <5>1 DEF q
        <4> QED BY <1>0, <3>2, <3>3, <4>1
      <3>5. \A j \in at+1..n : ~IsQuote(j)
        <4>1. \A j \in at+1..n : j \in at+1..q-1 /\ j <= n
          BY <1>0, <3>4
        <4> QED BY <3>3, <4>1 DEF CharAt, IsQuote
      <3>6. ~TokenSound
        BY <1>0, <2>1, <3>2, <3>5, OpenQuote
      <3> QED BY <2>2, <3>6, MeantFails
    <2>3. CASE CharAt(text, ClosingQuote) # NUL /\ Goto(ClosingQuote + 1)
      <3>1. PassedTo(ClosingQuote + 1)
        BY <1>0, <2>1, <2>3, PassQuotes
      <3> QED BY <2>1, <2>3, <3>1, MeantOn
    <2> QED BY <1>1, <2>2, <2>3 DEF ReadQuoted
  <1>2. CASE ReadComma
    <2>1. Reading /\ Here \in Separators /\ ~EndsToken
      BY <1>2 DEF ReadComma
    <2>2. CASE CommaLost /\ ScanFails("SYNTAX_PARSE_FAIL")
      BY <1>0, <2>1, <2>2, LostComma, MeantFails
    <2>3. CASE ~CommaLost /\ Goto(BehindComma)
      <3>1. PassedTo(BehindComma)
        BY <1>0, <2>1, <2>3, PassComma
      <3> QED BY <2>1, <2>3, <3>1, MeantOn
    <2> QED BY <1>2, <2>2, <2>3 DEF ReadComma, AfterComma
  <1>3. CASE ReadOther
    <2>1. Reading /\ Goto(at + 1) /\ Here \notin Separators \cup {"'", NUL}
      BY <1>3 DEF ReadOther
    <2>2. PassedTo(at + 1)
      BY <1>0, <2>1, PassOther
    <2> QED BY <2>1, <2>2, MeantOn
  <1>4. CASE TokenFound
    <2>1. /\ Reading /\ EndsToken /\ token' = SubSeq(text, 1, at - 1) /\ scan' = "found"
          /\ text' = text
      BY <1>4 DEF TokenFound
    <2>2. TokenEnd = at /\ TokenSound
      BY <1>0, <2>1, EndIsMeant
    <2>3. TokenEnd' = at /\ TokenSound'
      BY <2>1, <2>2, SameLine
    <2> QED BY <2>1, <2>3 DEF MeantInv, TokenAsMeant, Reading
  <1>5. CASE SplitOperand \/ FindItem \/ NoItem
    <2>1. text' = text /\ token' = token /\ HasToken /\ HasToken'
      BY <1>5 DEF SplitOperand, FindItem, NoItem, ScanFails, HasToken
    <2> QED BY <2>1, MeantKept
  <1>6. CASE Measure \/ RefuseLiteral \/ BeginCode \/ ShiftIn \/ PrintCode
    <2>1. text' = text /\ token' = token /\ HasToken /\ HasToken'
      BY <1>6 DEF Measure, RefuseLiteral, BeginCode, ShiftIn, PrintCode, AtLiteral, HasToken
    <2> QED BY <2>1, MeantKept
  <1>7. CASE UNCHANGED literalVars
    <2>1. text' = text /\ token' = token /\ at' = at /\ scan' = scan
      BY <1>7 DEF literalVars, scanVars
    <2>2. PassedTo(at)' <=> PassedTo(at)
      <3>1. /\ Quotes(at)' = Quotes(at)
            /\ Stretches' = Stretches
            /\ Parting(at - 1)' <=> Parting(at - 1)
            /\ \A s : CommasOf(s)' = CommasOf(s)
        BY <2>1, SameLine, Zenon DEF Quotes, Parting, CommasOf
      <3> QED BY <2>1, <3>1, Zenon DEF PassedTo, Outside, IsSeparator
    <2> QED BY <2>1, <2>2, SameLine DEF MeantInv, TokenAsMeant, Reading
  <1> QED BY <1>1, <1>2, <1>3, <1>4, <1>5, <1>6, <1>7 DEF LiteralNext, ScanNext

\* The invariant of the token's end holds throughout.
LEMMA MeantInvariant == LiteralSpec => []MeantInv
  <1>1. LiteralInit => MeantInv
    <2> SUFFICES ASSUME LiteralInit PROVE MeantInv
      OBVIOUS
    <2>1. at = 1 /\ scan = "token"
      BY DEF LiteralInit, ScanInit
    <2>2. Quotes(1) = {}
      <3>1. \A j \in 1..1-1 : FALSE
        OBVIOUS
      <3> QED BY <3>1 DEF Quotes
    <2>3. Outside(1)
      BY <2>2, FS_EmptySet DEF Outside
    <2>4. \A s \in Stretches : ~(s[1] < 1)
      BY StretchIs DEF IsStretch
    <2>5. PassedTo(1)
      BY <2>3, <2>4 DEF PassedTo
    <2> QED BY <2>1, <2>5 DEF MeantInv, TokenAsMeant, Reading
  <1> QED BY <1>1, MeantStep, ScanInvariant, PTL DEF LiteralSpec

(* getTokenSize reads a token up to the first stretch of blanks outside      *)
(* quotes that has no comma, and refuses a line only when a stretch before   *)
(* that has a comma too many, ends the line, or a quote is open              *)
(* (util.c:137).                                                             *)
THEOREM TokenReadAsMeant == LiteralSpec => []TokenAsMeant
  <1>1. MeantInv => TokenAsMeant
    BY DEF MeantInv
  <1> QED BY <1>1, MeantInvariant, PTL
=============================================================================
