-------------------------------- MODULE Lemmas --------------------------------
(* Facts about numbers, sequences and texts that proofs of several modules   *)
(* need.                                                                     *)
EXTENDS Text, WellFoundedInduction, SequenceTheorems, TLAPS

\* The bytes of an array.
LEMMA ProductIsNat == ASSUME NEW a \in Nat, NEW b \in Nat PROVE a * b \in Nat
  OBVIOUS

\* A set of naturals that is not empty has a least element, the one Min names.
LEMMA MinOf ==
  ASSUME NEW S \in SUBSET Nat, S # {}
  PROVE  Min(S) \in S /\ \A x \in S : Min(S) <= x
  <1>1. IsWellFoundedOn(OpToRel(<, Nat), Nat)
    BY NatLessThanWellFounded
  <1>2. PICK m \in S : \A y \in S : ~(<<y, m>> \in OpToRel(<, Nat))
    BY <1>1, WFMin, Zenon
  <1>3. ASSUME NEW y \in S, y < m PROVE <<y, m>> \in OpToRel(<, Nat)
    <2>1. <<y, m>> \in Nat \X Nat /\ <<y, m>>[1] = y /\ <<y, m>>[2] = m
      OBVIOUS
    <2> QED BY <2>1, <1>3, Zenon DEF OpToRel
  <1>4. \A y \in S : ~(y < m)
    BY <1>2, <1>3, Zenon
  <1>5. \A y \in S : m <= y
    BY <1>4
  <1> QED BY <1>5 DEF Min

\* It is the only one.
LEMMA MinIs ==
  ASSUME NEW S \in SUBSET Nat, NEW m \in S, \A x \in S : m <= x
  PROVE  Min(S) = m
  <1>1. Min(S) \in S /\ \A x \in S : Min(S) <= x
    BY MinOf
  <1>2. Min(S) <= m /\ m <= Min(S) /\ m \in Nat /\ Min(S) \in Nat
    BY <1>1
  <1> HIDE DEF Min
  <1> QED BY <1>2

\* A greater element does not change the least.
LEMMA MinWith ==
  ASSUME NEW S \in SUBSET Nat, S # {}, NEW n \in Nat, \A x \in S : x <= n
  PROVE  Min(S \cup {n}) = Min(S)
  <1>1. Min(S) \in S /\ \A x \in S : Min(S) <= x
    BY MinOf
  <1> DEFINE m == Min(S)
  <1>2. m \in S \cup {n} /\ \A x \in S \cup {n} : m <= x
    BY <1>1
  <1> HIDE DEF m
  <1>3. Min(S \cup {n}) = m
    BY <1>2, MinIs
  <1> QED BY <1>3 DEF m

\* Where FirstIn stops.
LEMMA FirstInIs ==
  ASSUME NEW S, NEW text \in Seq(S), NEW k \in 1..Len(text)+1, NEW chars
  PROVE  /\ FirstIn(text, k, chars) \in k..Len(text)+1
         /\ CharAt(text, FirstIn(text, k, chars)) \in chars \cup {NUL}
         /\ \A j \in k..FirstIn(text, k, chars)-1 : CharAt(text, j) \notin chars \cup {NUL}
  <1> DEFINE stops == {j \in k..Len(text)+1 : CharAt(text, j) \in chars \cup {NUL}}
             first == Min(stops)
  <1>1. Len(text) \in Nat
    BY LenProperties
  <1>2. Len(text) + 1 \in stops
    BY <1>1 DEF CharAt
  <1>3. stops \in SUBSET Nat /\ stops # {}
    BY <1>1, <1>2
  <1>4. first \in stops /\ \A j \in stops : first <= j
    BY <1>3, MinOf
  <1>5. FirstIn(text, k, chars) = first
    BY DEF FirstIn
  <1> HIDE DEF first
  <1>6. first \in k..Len(text)+1 /\ CharAt(text, first) \in chars \cup {NUL}
    BY <1>4
  <1>7. ASSUME NEW j \in k..first-1 PROVE CharAt(text, j) \notin chars \cup {NUL}
    <2>1. j \in k..Len(text)+1 /\ ~(first <= j)
      BY <1>1, <1>6
    <2> QED BY <1>4, <2>1
  <1> QED BY <1>5, <1>6, <1>7

\* There is no other place for it to stop.
LEMMA FirstInAt ==
  ASSUME NEW S, NEW text \in Seq(S), NEW k \in 1..Len(text)+1, NEW chars,
         NEW e \in k..Len(text)+1, CharAt(text, e) \in chars \cup {NUL},
         \A j \in k..e-1 : CharAt(text, j) \notin chars \cup {NUL}
  PROVE  FirstIn(text, k, chars) = e
  <1> DEFINE first == FirstIn(text, k, chars)
  <1>1. Len(text) \in Nat
    BY LenProperties
  <1>2. /\ first \in k..Len(text)+1 /\ CharAt(text, first) \in chars \cup {NUL}
        /\ \A j \in k..first-1 : CharAt(text, j) \notin chars \cup {NUL}
    BY FirstInIs
  <1> HIDE DEF first
  <1>3. ~(first < e)
    <2>1. first < e => first \in k..e-1
      BY <1>1, <1>2
    <2> QED BY <1>2, <2>1
  <1>4. ~(e < first)
    <2>1. e < first => e \in k..first-1
      BY <1>1, <1>2
    <2> QED BY <1>2, <2>1
  <1>5. first = e
    BY <1>1, <1>2, <1>3, <1>4
  <1> QED BY <1>5 DEF first

\* Where jumpBlank stops.
LEMMA BehindIs ==
  ASSUME NEW S, NEW text \in Seq(S), NEW k \in 1..Len(text)+1
  PROVE  /\ Behind(text, k) \in k..Len(text)+1
         /\ CharAt(text, Behind(text, k)) \notin Blank
         /\ \A j \in k..Behind(text, k)-1 : CharAt(text, j) \in Blank
  <1> DEFINE stops == {j \in k..Len(text)+1 : CharAt(text, j) \notin Blank}
             first == Min(stops)
  <1>1. Len(text) \in Nat
    BY LenProperties
  <1>2. Len(text) + 1 \in stops
    <2>1. NUL \notin Blank
      BY DEF NUL, Blank
    <2>2. CharAt(text, Len(text) + 1) = NUL
      BY <1>1 DEF CharAt
    <2> QED BY <1>1, <2>1, <2>2
  <1>3. stops \in SUBSET Nat /\ stops # {}
    BY <1>1, <1>2
  <1>4. first \in stops /\ \A j \in stops : first <= j
    BY <1>3, MinOf
  <1>5. Behind(text, k) = first
    BY DEF Behind
  <1> HIDE DEF first
  <1>6. first \in k..Len(text)+1 /\ CharAt(text, first) \notin Blank
    BY <1>4
  <1>7. ASSUME NEW j \in k..first-1 PROVE CharAt(text, j) \in Blank
    <2>1. j \in k..Len(text)+1 /\ ~(first <= j)
      BY <1>1, <1>6
    <2> QED BY <1>4, <2>1
  <1> QED BY <1>5, <1>6, <1>7

\* It does not move when there is no blank.
LEMMA BehindAt ==
  ASSUME NEW S, NEW text \in Seq(S), NEW k \in 1..Len(text)+1,
         NEW e \in k..Len(text)+1, CharAt(text, e) \notin Blank,
         \A j \in k..e-1 : CharAt(text, j) \in Blank
  PROVE  Behind(text, k) = e
  <1> DEFINE first == Behind(text, k)
  <1>1. Len(text) \in Nat
    BY LenProperties
  <1>2. /\ first \in k..Len(text)+1 /\ CharAt(text, first) \notin Blank
        /\ \A j \in k..first-1 : CharAt(text, j) \in Blank
    BY BehindIs
  <1> HIDE DEF first
  <1>3. ~(first < e)
    <2>1. first < e => first \in k..e-1
      BY <1>1, <1>2
    <2> QED BY <1>2, <2>1
  <1>4. ~(e < first)
    <2>1. e < first => e \in k..first-1
      BY <1>1, <1>2
    <2> QED BY <1>2, <2>1
  <1>5. first = e
    BY <1>1, <1>2, <1>3, <1>4
  <1> QED BY <1>5 DEF first

\* What is not the terminating NUL is within the line.
LEMMA InsideText ==
  ASSUME NEW text, Len(text) \in Nat, NEW k \in 1..Len(text)+1, CharAt(text, k) # NUL
  PROVE  k \in 1..Len(text)
  BY DEF CharAt

\* A terminated string added to a buffer.
LEMMA Terminated ==
  ASSUME NEW C, NEW buf \in Seq(C \cup {NUL}), NEW text \in Seq(C),
         NEW start \in 1..Len(text)+1, NEW end \in start..Len(text)+1
  PROVE  /\ buf \o SubSeq(text, start, end - 1) \o <<NUL>> \in Seq(C \cup {NUL})
         /\ Len(buf \o SubSeq(text, start, end - 1) \o <<NUL>>) = Len(buf) + (end - start) + 1
  <1>1. Len(text) \in Nat /\ Len(buf) \in Nat
    BY LenProperties
  <1>2. \A i \in start..end-1 : text[i] \in C \cup {NUL}
    BY <1>1, ElementOfSeq
  <1> DEFINE word == SubSeq(text, start, end - 1)
  <1>3. word \in Seq(C \cup {NUL}) /\ Len(word) = end - start
    <2>1. start \in Int /\ end - 1 \in Int
      BY <1>1
    <2>2. /\ word \in Seq(C \cup {NUL})
          /\ Len(word) = IF start <= end - 1 THEN (end - 1) - start + 1 ELSE 0
      BY <2>1, <1>2, SubSeqProperties, Zenon
    <2> QED BY <2>1, <2>2, <1>1
  <1>4. <<NUL>> \in Seq(C \cup {NUL}) /\ Len(<<NUL>>) = 1
    OBVIOUS
  <1> HIDE DEF word
  <1>5. buf \o word \in Seq(C \cup {NUL}) /\ Len(buf \o word) = Len(buf) + Len(word)
    BY <1>3, ConcatProperties, Zenon
  <1>6. /\ (buf \o word) \o <<NUL>> \in Seq(C \cup {NUL})
        /\ Len((buf \o word) \o <<NUL>>) = Len(buf \o word) + Len(<<NUL>>)
    BY <1>4, <1>5, ConcatProperties, Zenon
  <1>7. /\ (buf \o word) \o <<NUL>> \in Seq(C \cup {NUL})
        /\ Len((buf \o word) \o <<NUL>>) = Len(buf) + (end - start) + 1
    BY <1>1, <1>3, <1>4, <1>5, <1>6
  <1> QED BY <1>7 DEF word
\* Division by the length of a row.
LEMMA Division ==
  ASSUME NEW a \in Nat, NEW c \in Nat \ {0}
  PROVE  /\ a \div c \in Nat /\ a % c \in 0..c-1
         /\ a = (a \div c) * c + (a % c)
  OBVIOUS

\* A row begins behind the end of every row before it.
LEMMA LaterRow ==
  ASSUME NEW q \in Nat, NEW r \in Nat, NEW c \in Nat \ {0}, q < r
  PROVE  q * c + c <= r * c
  <1>1. PICK d \in Nat : r = q + 1 + d
    <2>1. r - q - 1 \in Nat /\ r = q + 1 + (r - q - 1)
      OBVIOUS
    <2> QED BY <2>1
  <1>2. r * c = q * c + c + d * c
    BY <1>1
  <1>3. d * c \in Nat /\ q * c \in Nat
    BY ProductIsNat
  <1> QED BY <1>2, <1>3
-----------------------------------------------------------------------------
\* Induction over the naturals, about the set of those that have a property.
LEMMA SetInduction ==
  ASSUME NEW S, 0 \in S, \A n \in Nat : n \in S => n + 1 \in S
  PROVE  \A n \in Nat : n \in S
  <1> DEFINE T == {n \in Nat : n \notin S}
  <1>1. ASSUME T # {} PROVE FALSE
    <2>1. T \in SUBSET Nat
      OBVIOUS
    <2>2. Min(T) \in T /\ \A x \in T : Min(T) <= x
      BY <1>1, <2>1, MinOf
    <2> DEFINE m == Min(T)
    <2>3. m \in Nat /\ m \notin S /\ m # 0 /\ \A x \in T : m <= x
      BY <2>2
    <2> HIDE DEF m, T
    <2>4. m - 1 \in Nat /\ ~(m <= m - 1)
      BY <2>3
    <2>5. m - 1 \in S
      BY <2>3, <2>4 DEF T
    <2>6. (m - 1) + 1 \in S
      BY <2>4, <2>5
    <2> QED BY <2>3, <2>6
  <1> QED BY <1>1

\* The same up to a bound, from 1 on.
LEMMA UpTo ==
  ASSUME NEW n \in Nat, NEW S, 1 \in S, \A k \in 1..n-1 : k \in S => k + 1 \in S
  PROVE  \A k \in 1..n : k \in S
  <1> DEFINE T == {k \in Nat : k \in 1..n => k \in S}
  <1>1. 0 \in T
    OBVIOUS
  <1>2. ASSUME NEW k \in Nat, k \in T PROVE k + 1 \in T
    <2>1. CASE k = 0
      BY <2>1
    <2>2. CASE k # 0 /\ k + 1 \in 1..n
      <3>1. k \in 1..n-1 /\ k \in S
        BY <1>2, <2>2
      <3> QED BY <3>1
    <2> QED BY <2>1, <2>2
  <1> HIDE DEF T
  <1>3. \A k \in Nat : k \in T
    BY <1>1, <1>2, SetInduction
  <1> QED BY <1>3 DEF T

\* What FlattenSeq joins, one sequence after the other.
JoinsTo(g, s, m) == g = [i \in 1..m |-> IF i = 1 THEN s[i] ELSE g[i - 1] \o s[i]]
Joins(g, s) == JoinsTo(g, s, Len(s))

\* One more sequence joined to those before it.
LEMMA JoinsNext ==
  ASSUME NEW S, NEW s \in Seq(Seq(S)), NEW m \in Nat, m < Len(s),
         NEW g, JoinsTo(g, s, m), \A i \in 1..m : g[i] \in Seq(S)
  PROVE  \E h : JoinsTo(h, s, m + 1) /\ \A i \in 1..m+1 : h[i] \in Seq(S)
  <1> DEFINE last == IF m = 0 THEN s[1] ELSE g[m] \o s[m + 1]
             h == [i \in 1..m+1 |-> IF i = m + 1 THEN last ELSE g[i]]
  <1>1. last \in Seq(S)
    <2>1. s[1] \in Seq(S) /\ s[m + 1] \in Seq(S)
      BY ElementOfSeq
    <2>2. CASE m = 0
      BY <2>1, <2>2
    <2>3. CASE m # 0
      <3>1. g[m] \in Seq(S)
        BY <2>3
      <3>2. g[m] \o s[m + 1] \in Seq(S)
        BY <2>1, <3>1, ConcatProperties
      <3> QED BY <2>3, <3>2
    <2> QED BY <2>2, <2>3
  <1>2. \A i \in 1..m : g[i] = (IF i = 1 THEN s[i] ELSE g[i - 1] \o s[i])
    BY DEF JoinsTo
  <1> HIDE DEF last
  <1>3. h[m + 1] = last /\ DOMAIN h = 1..m+1 /\ \A i \in 1..m : h[i] = g[i]
    OBVIOUS
  <1>4. ASSUME NEW i \in 1..m+1
        PROVE  h[i] = IF i = 1 THEN s[i] ELSE h[i - 1] \o s[i]
    <2>1. CASE i \in 1..m
      <3>1. i # 1 => i - 1 \in 1..m
        BY <2>1
      <3>2. i # 1 => h[i - 1] = g[i - 1]
        BY <1>3, <3>1
      <3> HIDE DEF h
      <3> QED BY <1>2, <1>3, <2>1, <3>2
    <2>2. CASE i = m + 1
      <3>1. m # 0 => h[m] = g[m]
        BY <1>3
      <3> HIDE DEF h
      <3> QED BY <1>3, <2>2, <3>1 DEF last
    <2> QED BY <2>1, <2>2
  <1>5. \A i \in 1..m+1 : h[i] \in Seq(S)
    BY <1>1, <1>3
  <1>6. h = [i \in 1..m+1 |-> h[i]]
    BY <1>3
  <1> HIDE DEF h
  <1>7. JoinsTo(h, s, m + 1)
    BY <1>4, <1>6 DEF JoinsTo
  <1> QED BY <1>5, <1>7

\* The sequences of a sequence can be joined one after another.
LEMMA JoinsExist ==
  ASSUME NEW S, NEW s \in Seq(Seq(S))
  PROVE  \E g : Joins(g, s) /\ \A i \in 1..Len(s) : g[i] \in Seq(S)
  <1> DEFINE Some(m) == \E g : JoinsTo(g, s, m) /\ \A i \in 1..m : g[i] \in Seq(S)
             T == {m \in Nat : m <= Len(s) => Some(m)}
  <1>1. 0 \in T
    <2> DEFINE e == [i \in 1..0 |-> IF i = 1 THEN s[i] ELSE s[i - 1] \o s[i]]
    <2>1. JoinsTo(e, s, 0) /\ \A i \in 1..0 : e[i] \in Seq(S)
      BY DEF JoinsTo
    <2>2. Some(0)
      BY <2>1
    <2> HIDE DEF Some
    <2> QED BY <2>2
  <1>2. ASSUME NEW m \in Nat, m \in T PROVE m + 1 \in T
    <2>1. ASSUME m + 1 <= Len(s) PROVE Some(m + 1)
      <3>1. m < Len(s) /\ m <= Len(s)
        BY <2>1, LenProperties
      <3>2. Some(m)
        <4> HIDE DEF Some
        <4> QED BY <1>2, <3>1
      <3> QED BY <3>1, <3>2, JoinsNext
    <2> HIDE DEF Some
    <2> QED BY <2>1
  <1>3. \A m \in Nat : m \in T
    <2> HIDE DEF T
    <2> QED BY <1>1, <1>2, SetInduction
  <1>4. Some(Len(s))
    <2> HIDE DEF Some
    <2> QED BY <1>3, LenProperties
  <1> QED BY <1>4 DEF Joins

\* There is one way to join them.
LEMMA JoinsOnce ==
  ASSUME NEW s, Len(s) \in Nat, NEW g, NEW h, Joins(g, s), Joins(h, s)
  PROVE  \A i \in 1..Len(s) : g[i] = h[i]
  <1> DEFINE T == {i \in 1..Len(s) : g[i] = h[i]}
  <1>1. CASE Len(s) = 0
    BY <1>1
  <1>2. CASE Len(s) # 0
    <2>1. 1 \in T
      BY <1>2 DEF Joins, JoinsTo
    <2>2. ASSUME NEW k \in 1..Len(s)-1, k \in T PROVE k + 1 \in T
      <3>1. k + 1 \in 1..Len(s) /\ k + 1 # 1 /\ (k + 1) - 1 = k
        OBVIOUS
      <3>2. g[k + 1] = g[k] \o s[k + 1] /\ h[k + 1] = h[k] \o s[k + 1]
        BY <3>1 DEF Joins, JoinsTo
      <3> QED BY <2>2, <3>1, <3>2
    <2> HIDE DEF T
    <2>3. \A k \in 1..Len(s) : k \in T
      BY <2>1, <2>2, UpTo
    <2> QED BY <2>3 DEF T
  <1> QED BY <1>1, <1>2

\* FlattenSeq is the last of the joins.
LEMMA FlattenIs ==
  ASSUME NEW s, Len(s) \in Nat \ {0}, NEW g, Joins(g, s)
  PROVE  FlattenSeq(s) = g[Len(s)]
  <1> DEFINE f == CHOOSE f : f = [i \in 1..Len(s) |-> IF i = 1 THEN s[i] ELSE f[i - 1] \o s[i]]
  <1>1. Joins(f, s)
    BY DEF Joins, JoinsTo
  <1>2. Len(s) # 0
    OBVIOUS
  <1>3. FlattenSeq(s) = f[Len(s)]
    BY <1>2, Zenon DEF FlattenSeq
  <1> HIDE DEF f
  <1> QED BY <1>1, <1>3, JoinsOnce

\* What stands where in a concatenation.
LEMMA ConcatIs ==
  ASSUME NEW S, NEW s \in Seq(S), NEW t \in Seq(S)
  PROVE  /\ s \o t \in Seq(S) /\ Len(s) \in Nat /\ Len(t) \in Nat
         /\ Len(s \o t) = Len(s) + Len(t)
         /\ s \o t = [i \in 1..Len(s)+Len(t) |-> IF i <= Len(s) THEN s[i] ELSE t[i - Len(s)]]
  <1> DEFINE st == s \o t
  <1>1. /\ Len(s) \in Nat /\ Len(t) \in Nat
        /\ st \in Seq(S) /\ Len(st) = Len(s) + Len(t)
        /\ \A i \in 1..Len(s)+Len(t) : st[i] = IF i <= Len(s) THEN s[i] ELSE t[i - Len(s)]
    BY LenProperties, ConcatProperties
  <1> HIDE DEF st
  <1>2. st = [i \in 1..Len(s)+Len(t) |-> st[i]]
    BY <1>1
  <1> QED BY <1>1, <1>2 DEF st

\* One sequence more.
LEMMA FlattenAppend ==
  ASSUME NEW S, NEW s \in Seq(Seq(S)), NEW x \in Seq(S)
  PROVE  /\ FlattenSeq(s) \in Seq(S)
         /\ FlattenSeq(Append(s, x)) = FlattenSeq(s) \o x
  <1> DEFINE n == Len(s)
             t == Append(s, x)
  <1>1. /\ n \in Nat /\ t \in Seq(Seq(S)) /\ Len(t) = n + 1 /\ t[n + 1] = x
        /\ \A i \in 1..n : t[i] = s[i]
    BY LenProperties, AppendProperties
  <1> HIDE DEF t
  <1>2. PICK g : Joins(g, t) /\ \A i \in 1..n+1 : g[i] \in Seq(S)
    BY <1>1, JoinsExist
  <1>3. FlattenSeq(t) = g[n + 1]
    BY <1>1, <1>2, FlattenIs
  <1>4. CASE n = 0
    <2>1. s = <<>> /\ FlattenSeq(s) = s
      BY <1>4, EmptySeq DEF FlattenSeq
    <2>2. g[1] = x
      BY <1>1, <1>2, <1>4 DEF Joins, JoinsTo
    <2>3. <<>> \o x = x
      OBVIOUS
    <2>4. FlattenSeq(t) = x
      BY <1>3, <1>4, <2>2
    <2>5. FlattenSeq(s) = <<>> /\ <<>> \in Seq(S)
      BY <2>1, EmptySeq
    <2> QED BY <2>3, <2>4, <2>5 DEF t
  <1>5. CASE n # 0
    <2> DEFINE h == [i \in 1..n |-> g[i]]
    <2>0. \A i \in 1..n+1 : g[i] = IF i = 1 THEN t[i] ELSE g[i - 1] \o t[i]
      BY <1>1, <1>2 DEF Joins, JoinsTo
    <2>1. ASSUME NEW i \in 1..n PROVE h[i] = IF i = 1 THEN s[i] ELSE h[i - 1] \o s[i]
      <3>1. i \in 1..n+1 /\ t[i] = s[i] /\ h[i] = g[i]
        BY <1>1
      <3>2. i # 1 => h[i - 1] = g[i - 1]
        OBVIOUS
      <3> HIDE DEF h
      <3> QED BY <2>0, <3>1, <3>2
    <2>2. Joins(h, s)
      BY <2>1 DEF Joins, JoinsTo
    <2>3. FlattenSeq(s) = h[n]
      BY <1>1, <1>5, <2>2, FlattenIs
    <2>4. h[n] = g[n] /\ g[n] \in Seq(S)
      BY <1>1, <1>2, <1>5
    <2>5. g[n + 1] = g[n] \o x
      <3>1. n + 1 \in 1..n+1 /\ n + 1 # 1 /\ (n + 1) - 1 = n
        BY <1>1, <1>5
      <3> QED BY <1>1, <2>0, <3>1
    <2> QED BY <1>3, <2>3, <2>4, <2>5 DEF t
  <1> QED BY <1>1, <1>4, <1>5

(* What is joined of blocks of the same length: block i stands behind those  *)
(* before it.                                                                *)
BlocksTo(g, s, k, m) ==
  /\ Len(g[k]) = k * m
  /\ \A i \in 1..k, j \in 1..m : g[k][(i - 1) * m + j] = s[i][j]

\* One more block behind blocks of the same length.
LEMMA NextBlock ==
  ASSUME NEW S, NEW m \in Nat \ {0}, NEW s \in Seq(Seq(S)), NEW k \in 1..Len(s)-1, NEW g,
         g[k] \in Seq(S), g[k + 1] = g[k] \o s[k + 1], BlocksTo(g, s, k, m), Len(s[k + 1]) = m
  PROVE  BlocksTo(g, s, k + 1, m)
  <1> DEFINE t == g[k]
             x == s[k + 1]
             e == k * m
  <1>1. t \in Seq(S) /\ x \in Seq(S) /\ Len(t) = e /\ Len(x) = m /\ g[k + 1] = t \o x
    <2>1. k + 1 \in 1..Len(s)
      BY LenProperties
    <2>2. x \in Seq(S)
      BY <2>1, ElementOfSeq
    <2> QED BY <2>2 DEF BlocksTo
  <1>2. k \in Nat /\ e \in Nat
    BY LenProperties, ProductIsNat
  <1>3. \A i \in 1..k, j \in 1..m : t[(i - 1) * m + j] = s[i][j]
    BY DEF BlocksTo
  <1>4. (k + 1) * m = e + m /\ ((k + 1) - 1) * m = e
    BY <1>2
  <1> HIDE DEF t, x, e
  <1>5. /\ Len(t \o x) = e + m
        /\ \A p \in 1..e+m : (t \o x)[p] = IF p <= e THEN t[p] ELSE x[p - e]
    <2>1. /\ Len(t \o x) = Len(t) + Len(x)
          /\ \A p \in 1..Len(t)+Len(x) : (t \o x)[p] = IF p <= Len(t) THEN t[p] ELSE x[p - Len(t)]
      BY <1>1, ConcatProperties, Zenon
    <2> QED BY <1>1, <2>1, Zenon
  <1>6. ASSUME NEW i \in 1..k+1, NEW j \in 1..m PROVE (t \o x)[(i - 1) * m + j] = s[i][j]
    <2>1. CASE i \in 1..k
      <3> DEFINE b == (i - 1) * m
      <3>1. b \in Nat /\ b + m <= e
        <4>1. i - 1 \in Nat /\ i - 1 < k
          BY <1>2, <2>1
        <4> QED BY <1>2, <4>1, ProductIsNat, LaterRow DEF e
      <3>2. t[b + j] = s[i][j]
        BY <1>3, <2>1
      <3> HIDE DEF b
      <3>3. b + j \in 1..e+m /\ b + j <= e
        BY <1>2, <3>1
      <3>4. (t \o x)[b + j] = s[i][j]
        BY <1>5, <3>2, <3>3
      <3> QED BY <3>4 DEF b
    <2>2. CASE i = k + 1
      <3>1. (i - 1) * m = e
        BY <1>4, <2>2
      <3>2. e + j \in 1..e+m /\ ~(e + j <= e) /\ (e + j) - e = j
        BY <1>2
      <3>3. (t \o x)[e + j] = x[j]
        BY <1>5, <3>2
      <3>4. x[j] = s[i][j]
        BY <2>2 DEF x
      <3> QED BY <3>1, <3>3, <3>4
    <2>3. i \in 1..k \/ i = k + 1
      BY <1>2
    <2> QED BY <2>1, <2>2, <2>3
  <1> QED BY <1>1, <1>4, <1>5, <1>6 DEF BlocksTo

Blocks(flat, s, m) ==
  /\ Len(flat) = Len(s) * m
  /\ \A i \in 1..Len(s), j \in 1..m : flat[(i - 1) * m + j] = s[i][j]

\* Sequences of one length, flattened, stand block behind block.
LEMMA FlattenBlocks ==
  ASSUME NEW S, NEW m \in Nat \ {0}, NEW s \in Seq(Seq(S)), \A i \in 1..Len(s) : Len(s[i]) = m
  PROVE  FlattenSeq(s) \in Seq(S) /\ Blocks(FlattenSeq(s), s, m)
  <1> DEFINE n == Len(s)
  <1>1. n \in Nat
    BY LenProperties
  <1>2. CASE n = 0
    <2>1. s = <<>> /\ FlattenSeq(s) = <<>> /\ <<>> \in Seq(S) /\ Len(<<>>) = 0
      BY <1>2, EmptySeq DEF FlattenSeq
    <2>2. \A i \in 1..n : FALSE
      BY <1>2
    <2>3. n * m = 0
      BY <1>2
    <2>4. FlattenSeq(s) \in Seq(S) /\ Len(FlattenSeq(s)) = n * m
      BY <2>1, <2>3
    <2> QED BY <2>2, <2>4, Zenon DEF Blocks
  <1>3. CASE n # 0
    <2>1. PICK g : Joins(g, s) /\ \A i \in 1..n : g[i] \in Seq(S)
      BY JoinsExist
    <2>2. FlattenSeq(s) = g[n]
      BY <1>1, <1>3, <2>1, FlattenIs
    <2>3. \A i \in 1..n : g[i] = IF i = 1 THEN s[i] ELSE g[i - 1] \o s[i]
      BY <2>1 DEF Joins, JoinsTo
    <2> DEFINE T == {k \in 1..n : BlocksTo(g, s, k, m)}
    <2>4. 1 \in T
      <3>1. g[1] = s[1] /\ Len(s[1]) = m /\ 1 \in 1..n
        BY <1>1, <1>3, <2>3
      <3>2. \A i \in 1..1, j \in 1..m : i = 1 /\ (i - 1) * m + j = j
        OBVIOUS
      <3>3. 1 * m = m
        OBVIOUS
      <3> QED BY <3>1, <3>2, <3>3 DEF BlocksTo
    <2>5. ASSUME NEW k \in 1..n-1, k \in T PROVE k + 1 \in T
      <3>1. k + 1 \in 1..n /\ k + 1 # 1 /\ (k + 1) - 1 = k /\ k \in 1..n
        BY <1>1
      <3>2. g[k + 1] = g[k] \o s[k + 1] /\ g[k] \in Seq(S) /\ Len(s[k + 1]) = m
        BY <2>1, <2>3, <3>1
      <3> QED BY <2>5, <3>1, <3>2, NextBlock
    <2> HIDE DEF T
    <2>6. \A k \in 1..n : k \in T
      BY <1>1, <2>4, <2>5, UpTo
    <2>7. n \in 1..n /\ g[n] \in Seq(S)
      BY <1>1, <1>3, <2>1
    <2>8. BlocksTo(g, s, n, m)
      BY <2>6, <2>7 DEF T
    <2> QED BY <2>2, <2>7, <2>8 DEF BlocksTo, Blocks
  <1> QED BY <1>2, <1>3

\* Empty sequences at the end.
LEMMA FlattenEmpty ==
  ASSUME NEW S, NEW s \in Seq(Seq(S)), NEW t \in Seq({<<>>})
  PROVE  FlattenSeq(s \o t) = FlattenSeq(s)
  <1> DEFINE u == s \o t
             n == Len(s)
             m == Len(t)
             T == {k \in Nat : k <= m => FlattenSeq(SubSeq(u, 1, n + k)) = FlattenSeq(s)}
  <1>1. n \in Nat /\ m \in Nat /\ \A i \in 1..m : t[i] = <<>>
    BY LenProperties, ElementOfSeq
  <1>2. t \in Seq(Seq(S))
    <2>1. <<>> \in Seq(S)
      BY EmptySeq
    <2> QED BY <2>1, SeqMonotonic
  <1>3. /\ u \in Seq(Seq(S)) /\ Len(u) = n + m
        /\ \A i \in 1..n : u[i] = s[i]
        /\ \A i \in 1..m : u[n + i] = <<>>
    BY <1>1, <1>2
  <1> HIDE DEF u
  <1>4. 0 \in T
    <2>1. SubSeq(u, 1, n + 0) = s
      BY <1>1, <1>3
    <2> QED BY <2>1
  <1>5. ASSUME NEW k \in Nat, k \in T PROVE k + 1 \in T
    <2> SUFFICES ASSUME k + 1 <= m PROVE FlattenSeq(SubSeq(u, 1, n + (k + 1))) = FlattenSeq(s)
      OBVIOUS
    <2> DEFINE front == SubSeq(u, 1, n + k)
    <2>1. front \in Seq(Seq(S))
      BY <1>1, <1>3
    <2>2. SubSeq(u, 1, n + (k + 1)) = Append(front, <<>>)
      <3>1. /\ 1 \in 1..Len(u) /\ n + (k + 1) \in 1..Len(u)
            /\ n + (k + 1) - 1 = n + k
            /\ u[n + (k + 1)] = <<>>
        BY <1>1, <1>3
      <3> DEFINE i == n + (k + 1)
      <3>2. SubSeq(u, 1, i) = SubSeq(u, 1, i - 1) \o <<u[i]>>
        <4>1. i \in 1..Len(u)
          BY <3>1
        <4> HIDE DEF i
        <4> QED BY <1>3, <3>1, <4>1, SubSeqRecursiveSecond
      <3>3. i - 1 = n + k
        BY <3>1
      <3> HIDE DEF front
      <3>4. front \o <<<<>>>> = Append(front, <<>>)
        BY <2>1, AppendIsConcat
      <3> QED BY <3>1, <3>2, <3>3, <3>4 DEF front
    <2>3. FlattenSeq(front) = FlattenSeq(s)
      BY <1>1, <1>5
    <2> HIDE DEF front
    <2>4. <<>> \in Seq(S)
      BY EmptySeq
    <2>5. /\ FlattenSeq(front) \in Seq(S)
          /\ FlattenSeq(Append(front, <<>>)) = FlattenSeq(front) \o <<>>
      BY <2>1, <2>4, FlattenAppend
    <2>6. FlattenSeq(front) \o <<>> = FlattenSeq(front)
      BY <2>5, ConcatEmptySeq
    <2> QED BY <2>2, <2>3, <2>5, <2>6
  <1>6. \A k \in Nat : k \in T
    <2> HIDE DEF T
    <2> QED BY <1>4, <1>5, SetInduction
  <1>7. SubSeq(u, 1, n + m) = u
    BY <1>1, <1>3
  <1>8. FlattenSeq(SubSeq(u, 1, n + m)) = FlattenSeq(s)
    <2>1. m \in T
      BY <1>1, <1>6
    <2> QED BY <1>1, <2>1
  <1> QED BY <1>7, <1>8 DEF u

-----------------------------------------------------------------------------
\* A set of naturals with a bound has a greatest element, the one Max names.
LEMMA MaxOf ==
  ASSUME NEW n \in Nat, NEW S \in SUBSET (0..n), S # {}
  PROVE  Max(S) \in S /\ \A x \in S : x <= Max(S)
  <1> DEFINE T == {n - x : x \in S}
             m == Min(T)
  <1>1. T \in SUBSET Nat /\ T # {}
    <2>1. \A x \in S : n - x \in Nat
      OBVIOUS
    <2> QED BY <2>1
  <1>2. m \in T /\ \A y \in T : m <= y
    BY <1>1, MinOf
  <1> HIDE DEF m
  <1>3. PICK g \in S : m = n - g
    BY <1>2
  <1>4. \A x \in S : g >= x
    <2> SUFFICES ASSUME NEW x \in S PROVE g >= x
      OBVIOUS
    <2>1. n - x \in T
      OBVIOUS
    <2>2. m <= n - x
      BY <1>2, <2>1
    <2> QED BY <1>3, <2>2
  <1> DEFINE t == Max(S)
  <1>5. t \in S /\ \A x \in S : t >= x
    BY <1>3, <1>4 DEF Max
  <1> HIDE DEF t
  <1>6. \A x \in S : x <= t
    BY <1>5
  <1> QED BY <1>5, <1>6 DEF t

\* The greatest element is the one Max names.
LEMMA MaxIs ==
  ASSUME NEW n \in Nat, NEW S \in SUBSET (0..n), NEW m \in S, \A x \in S : x <= m
  PROVE  Max(S) = m
  <1> DEFINE t == Max(S)
  <1>1. t \in S /\ \A x \in S : x <= t
    BY MaxOf
  <1> HIDE DEF t
  <1>2. t = m
    BY <1>1
  <1> QED BY <1>2 DEF t

\* A part of a text.
LEMMA PartOf ==
  ASSUME NEW C, NEW text \in Seq(C), NEW a \in 1..Len(text)+1, NEW b \in a-1..Len(text)
  PROVE  /\ SubSeq(text, a, b) \in Seq(C)
         /\ Len(SubSeq(text, a, b)) = b - a + 1 /\ b - a + 1 \in Nat
         /\ DOMAIN SubSeq(text, a, b) = 1..b-a+1
         /\ \A k \in 1..b-a+1 : SubSeq(text, a, b)[k] = text[a + k - 1]
  <1>1. Len(text) \in Nat /\ a \in Int /\ b \in Int
    BY LenProperties
  <1>2. \A i \in a..b : text[i] \in C
    BY <1>1, ElementOfSeq
  <1> DEFINE part == SubSeq(text, a, b)
  <1>3. /\ part \in Seq(C)
        /\ Len(part) = IF a <= b THEN b - a + 1 ELSE 0
        /\ \A k \in 1..b-a+1 : part[k] = text[a + k - 1]
    BY <1>1, <1>2, SubSeqProperties
  <1>4. DOMAIN part = 1..Len(part)
    BY <1>3, LenProperties
  <1> HIDE DEF part
  <1>5. Len(part) = b - a + 1 /\ b - a + 1 \in Nat
    BY <1>1, <1>3
  <1> QED BY <1>3, <1>4, <1>5 DEF part

\* A part of a part.
LEMMA PartOfPart ==
  ASSUME NEW C, NEW text \in Seq(C), NEW a \in 1..Len(text)+1, NEW b \in a-1..Len(text),
         NEW c \in 1..b-a+2, NEW d \in c-1..b-a+1
  PROVE  SubSeq(SubSeq(text, a, b), c, d) = SubSeq(text, a + c - 1, a + d - 1)
  <1> DEFINE part == SubSeq(text, a, b)
             inner == SubSeq(part, c, d)
             direct == SubSeq(text, a + c - 1, a + d - 1)
  <1>0. Len(text) \in Nat
    BY LenProperties
  <1>1. /\ part \in Seq(C) /\ Len(part) = b - a + 1 /\ b - a + 1 \in Nat
        /\ \A k \in 1..b-a+1 : part[k] = text[a + k - 1]
    BY PartOf
  <1> HIDE DEF part
  <1>2. /\ inner \in Seq(C) /\ Len(inner) = d - c + 1
        /\ \A k \in 1..d-c+1 : inner[k] = part[c + k - 1]
    <2>1. c \in 1..Len(part)+1 /\ d \in c-1..Len(part)
      BY <1>1
    <2> QED BY <1>1, <2>1, PartOf
  <1>3. /\ direct \in Seq(C) /\ Len(direct) = d - c + 1
        /\ \A k \in 1..d-c+1 : direct[k] = text[a + c - 1 + k - 1]
    <2> DEFINE i == a + c - 1
               j == a + d - 1
    <2>1. i \in 1..Len(text)+1 /\ j \in i-1..Len(text) /\ j - i + 1 = d - c + 1
      BY <1>0
    <2> HIDE DEF i, j
    <2>2. /\ SubSeq(text, i, j) \in Seq(C) /\ Len(SubSeq(text, i, j)) = j - i + 1
          /\ \A k \in 1..j-i+1 : SubSeq(text, i, j)[k] = text[i + k - 1]
      BY <2>1, PartOf
    <2>3. /\ SubSeq(text, i, j) \in Seq(C) /\ Len(SubSeq(text, i, j)) = d - c + 1
          /\ \A k \in 1..d-c+1 : SubSeq(text, i, j)[k] = text[i + k - 1]
      BY <2>1, <2>2
    <2> QED BY <2>3 DEF i, j
  <1> HIDE DEF inner, direct
  <1>4. ASSUME NEW k \in 1..d-c+1 PROVE inner[k] = direct[k]
    <2>1. c + k - 1 \in 1..b-a+1 /\ a + (c + k - 1) - 1 = a + c - 1 + k - 1
      BY <1>0
    <2> QED BY <1>1, <1>2, <1>3, <2>1
  <1>5. inner = direct
    BY <1>2, <1>3, <1>4, SeqEqual
  <1> QED BY <1>5 DEF inner, direct, part

\* What is left of a part of a text without the blanks around it.
LEMMA StripOf ==
  ASSUME NEW C, NEW text \in Seq(C), NEW a \in 1..Len(text)+1, NEW b \in a-1..Len(text),
         NEW first \in a..b, NEW last \in first..b,
         text[first] \notin Blank, text[last] \notin Blank,
         \A k \in a..first-1 : text[k] \in Blank, \A k \in last+1..b : text[k] \in Blank
  PROVE  Strip(SubSeq(text, a, b)) = SubSeq(text, first, last)
  <1> DEFINE part == SubSeq(text, a, b)
             solid == {k \in DOMAIN part : part[k] \notin Blank}
             f == first - a + 1
             l == last - a + 1
             n == b - a + 1
  <1>0. Len(text) \in Nat
    BY LenProperties
  <1>1. n \in Nat /\ DOMAIN part = 1..n /\ \A k \in 1..n : part[k] = text[a + k - 1]
    BY PartOf
  <1> HIDE DEF part
  <1>2. f \in 1..n /\ l \in f..n /\ a + f - 1 = first /\ a + l - 1 = last
    BY <1>0
  <1>3. f \in solid /\ l \in solid
    <2> HIDE DEF f, l, n
    <2>1. l \in 1..n
      BY <1>1, <1>2
    <2> QED BY <1>1, <1>2, <2>1
  <1>4. ASSUME NEW k \in solid PROVE f <= k /\ k <= l
    <2>1. k \in 1..n /\ text[a + k - 1] \notin Blank
      BY <1>1
    <2>2. a + k - 1 \notin a..first-1 /\ a + k - 1 \notin last+1..b
      BY <2>1
    <2> QED BY <1>0, <2>1, <2>2
  <1>5. solid \in SUBSET Nat /\ solid \in SUBSET (0..n)
    BY <1>1
  <1>6. Min(solid) = f /\ Max(solid) = l
    <2> HIDE DEF solid, f, l, n
    <2> QED BY <1>1, <1>3, <1>4, <1>5, MinIs, MaxIs
  <1>7. Strip(part) = SubSeq(part, f, l)
    <2>1. solid # {}
      BY <1>3
    <2> HIDE DEF f, l
    <2> QED BY <1>6, <2>1 DEF Strip
  <1>8. SubSeq(part, f, l) = SubSeq(text, a + f - 1, a + l - 1)
    <2>1. f \in 1..b-a+2 /\ l \in f-1..b-a+1
      BY <1>0
    <2> HIDE DEF f, l
    <2> QED BY <2>1, PartOfPart DEF part
  <1> QED BY <1>2, <1>7, <1>8 DEF part

\* Of nothing but blanks nothing is left.
LEMMA StripBlank ==
  ASSUME NEW C, NEW text \in Seq(C), NEW a \in 1..Len(text)+1, NEW b \in a-1..Len(text),
         \A k \in a..b : text[k] \in Blank
  PROVE  Strip(SubSeq(text, a, b)) = <<>>
  <1> DEFINE part == SubSeq(text, a, b)
             n == b - a + 1
  <1>0. Len(text) \in Nat
    BY LenProperties
  <1>1. n \in Nat /\ DOMAIN part = 1..n /\ \A k \in 1..n : part[k] = text[a + k - 1]
    BY PartOf
  <1>2. \A k \in 1..n : a + k - 1 \in a..b
    BY <1>0
  <1> HIDE DEF part, n
  <1>3. {k \in DOMAIN part : part[k] \notin Blank} = {}
    BY <1>1, <1>2
  <1> QED BY <1>3 DEF Strip, part

\* What is left of a text without the blanks around it, whatever is.
LEMMA StripIs ==
  ASSUME NEW C, NEW text \in Seq(C), NEW a \in 1..Len(text)+1, NEW b \in a-1..Len(text)
  PROVE  \/ /\ \A k \in a..b : text[k] \in Blank
            /\ Strip(SubSeq(text, a, b)) = <<>>
         \/ \E first \in a..b : \E last \in first..b :
              /\ text[first] \notin Blank /\ text[last] \notin Blank
              /\ \A k \in a..first-1 : text[k] \in Blank
              /\ \A k \in last+1..b : text[k] \in Blank
              /\ Strip(SubSeq(text, a, b)) = SubSeq(text, first, last)
  <1> DEFINE solid == {k \in a..b : text[k] \notin Blank}
  <1>0. Len(text) \in Nat
    BY LenProperties
  <1>1. CASE solid = {}
    BY <1>1, StripBlank
  <1>2. CASE solid # {}
    <2> DEFINE first == Min(solid)
               last == Max(solid)
    <2>1. solid \in SUBSET Nat /\ solid \in SUBSET (0..Len(text))
      BY <1>0
    <2>2. /\ first \in solid /\ \A x \in solid : first <= x
          /\ last \in solid /\ \A x \in solid : x <= last
      <3> HIDE DEF solid
      <3> QED BY <1>0, <1>2, <2>1, MinOf, MaxOf
    <2> HIDE DEF first, last
    <2>3. first \in a..b /\ last \in first..b /\ text[first] \notin Blank /\ text[last] \notin Blank
      BY <1>0, <2>2
    <2>4. ASSUME NEW k \in a..first-1 PROVE text[k] \in Blank
      <3>1. k \in a..b /\ ~(first <= k)
        BY <1>0, <2>3
      <3> QED BY <2>2, <3>1
    <2>5. ASSUME NEW k \in last+1..b PROVE text[k] \in Blank
      <3>1. k \in a..b /\ ~(k <= last)
        BY <1>0, <2>3
      <3> QED BY <2>2, <3>1
    <2>6. Strip(SubSeq(text, a, b)) = SubSeq(text, first, last)
      BY <2>3, <2>4, <2>5, StripOf
    <2> HIDE DEF solid
    <2> QED BY <2>3, <2>4, <2>5, <2>6
  <1> QED BY <1>1, <1>2

\* What is left of a text are characters of it.
LEMMA StripType ==
  ASSUME NEW C, NEW text \in Seq(C), NEW a \in 1..Len(text)+1, NEW b \in a-1..Len(text)
  PROVE  Strip(SubSeq(text, a, b)) \in Seq(C)
  <1>0. Len(text) \in Nat
    BY LenProperties
  <1>1. CASE \A k \in a..b : text[k] \in Blank
    BY <1>1, StripBlank, EmptySeq
  <1>2. CASE ~\A k \in a..b : text[k] \in Blank
    <2>1. PICK first \in a..b : \E last \in first..b :
                 /\ text[first] \notin Blank /\ text[last] \notin Blank
                 /\ \A k \in a..first-1 : text[k] \in Blank
                 /\ \A k \in last+1..b : text[k] \in Blank
                 /\ Strip(SubSeq(text, a, b)) = SubSeq(text, first, last)
      BY <1>2, StripIs
    <2>2. PICK last \in first..b : Strip(SubSeq(text, a, b)) = SubSeq(text, first, last)
      BY <2>1
    <2>3. first \in 1..Len(text)+1 /\ last \in first-1..Len(text)
      BY <1>0
    <2> QED BY <2>2, <2>3, PartOf
  <1> QED BY <1>1, <1>2

-----------------------------------------------------------------------------
\* What FieldsFrom(text) is from position lo on.
CommaFrom(text, k) == FirstIn(text, k, {","})
FieldAt(text, k) == Strip(SubSeq(text, k, CommaFrom(text, k) - 1))
SplitsFrom(g, text, lo) ==
  g = [k \in lo..Len(text)+1 |->
         IF CommaFrom(text, k) > Len(text) THEN <<FieldAt(text, k)>>
         ELSE <<FieldAt(text, k)>> \o g[CommaFrom(text, k) + 1]]

\* A comma, or the end, is not before the position it is looked for from.
LEMMA CommaIs ==
  ASSUME NEW C, NEW text \in Seq(C), NEW k \in 1..Len(text)+1
  PROVE  /\ CommaFrom(text, k) \in k..Len(text)+1 /\ FieldAt(text, k) \in Seq(C)
         /\ CommaFrom(text, k) <= Len(text) => CommaFrom(text, k) + 1 \in k+1..Len(text)+1
  <1> DEFINE e == CommaFrom(text, k)
  <1>0. Len(text) \in Nat
    BY LenProperties
  <1>1. e \in k..Len(text)+1
    BY FirstInIs DEF CommaFrom
  <1> HIDE DEF e
  <1>2. e - 1 \in k-1..Len(text)
    BY <1>0, <1>1
  <1>3. Strip(SubSeq(text, k, e - 1)) \in Seq(C)
    BY <1>2, StripType
  <1>4. e <= Len(text) => e + 1 \in k+1..Len(text)+1
    BY <1>0, <1>1
  <1> QED BY <1>1, <1>3, <1>4 DEF e, FieldAt

\* A split from a position on begins one position earlier as well.
LEMMA SplitsBefore ==
  ASSUME NEW C, NEW text \in Seq(C), NEW lo \in 1..Len(text)+1, NEW g,
         SplitsFrom(g, text, lo + 1)
  PROVE  \E h : SplitsFrom(h, text, lo)
  <1> DEFINE n == Len(text)
             Part(f, k) == IF CommaFrom(text, k) > n THEN <<FieldAt(text, k)>>
                           ELSE <<FieldAt(text, k)>> \o f[CommaFrom(text, k) + 1]
             h == [k \in lo..n+1 |-> IF k = lo THEN Part(g, lo) ELSE g[k]]
  <1>0. n \in Nat
    BY LenProperties
  <1>1. /\ DOMAIN h = lo..n+1 /\ h[lo] = Part(g, lo)
        /\ \A k \in lo+1..n+1 : h[k] = g[k] /\ g[k] = Part(g, k)
    <2>1. \A k \in lo+1..n+1 : k \in lo..n+1 /\ k # lo
      BY <1>0
    <2>2. lo \in lo..n+1
      BY <1>0
    <2>3. g = [k \in lo+1..n+1 |-> Part(g, k)]
      BY DEF SplitsFrom
    <2> HIDE DEF Part
    <2>4. \A k \in lo+1..n+1 : g[k] = Part(g, k)
      BY <2>3
    <2> QED BY <2>1, <2>2, <2>4
  <1>3. h = [k \in lo..n+1 |-> h[k]]
    <2> HIDE DEF Part
    <2> QED OBVIOUS
  <1> HIDE DEF h
  <1>2. ASSUME NEW k \in lo..n+1 PROVE h[k] = Part(h, k)
    <2>1. k \in 1..n+1
      BY <1>0
    <2>2. CommaFrom(text, k) <= n => CommaFrom(text, k) + 1 \in k+1..n+1
      BY <2>1, CommaIs
    <2>3. CommaFrom(text, k) \in k..n+1
      BY <2>1, CommaIs
    <2>4. CommaFrom(text, k) <= n => CommaFrom(text, k) + 1 \in lo+1..n+1
      BY <1>0, <2>2
    <2>5. CommaFrom(text, k) <= n => h[CommaFrom(text, k) + 1] = g[CommaFrom(text, k) + 1]
      BY <1>1, <2>4
    <2>6. Part(h, k) = Part(g, k)
      BY <1>0, <2>3, <2>5
    <2>7. k = lo \/ k \in lo+1..n+1
      BY <1>0
    <2> HIDE DEF Part
    <2> QED BY <1>1, <2>6, <2>7
  <1>4. SplitsFrom(h, text, lo)
    BY <1>2, <1>3 DEF SplitsFrom
  <1> QED BY <1>4

\* Every text can be split at its commas.
LEMMA SplitsExist ==
  ASSUME NEW C, NEW text \in Seq(C) PROVE \E g : SplitsFrom(g, text, 1)
  <1> DEFINE n == Len(text)
             Some(lo) == \E g : SplitsFrom(g, text, lo)
             T == {m \in Nat : m <= n + 1 => Some(n + 2 - m)}
  <1>0. n \in Nat
    BY LenProperties
  <1>1. 0 \in T
    <2>1. n+2..n+1 = {}
      BY <1>0
    <2> DEFINE e == [k \in n+2..n+1 |-> <<>>]
    <2>2. SplitsFrom(e, text, n + 2)
      BY <2>1 DEF SplitsFrom
    <2>3. Some(n + 2)
      BY <2>2
    <2>4. n + 2 - 0 = n + 2
      BY <1>0
    <2> HIDE DEF Some
    <2> QED BY <2>3, <2>4
  <1>2. ASSUME NEW m \in Nat, m \in T PROVE m + 1 \in T
    <2> SUFFICES ASSUME m + 1 <= n + 1 PROVE Some(n + 2 - (m + 1))
      OBVIOUS
    <2> DEFINE lo == n + 2 - (m + 1)
    <2>1. lo \in 1..n+1 /\ lo + 1 = n + 2 - m /\ m <= n + 1
      BY <1>0
    <2> HIDE DEF lo
    <2>2. Some(lo + 1)
      <3> HIDE DEF Some
      <3> QED BY <1>2, <2>1
    <2>3. Some(lo)
      BY <2>1, <2>2, SplitsBefore
    <2> QED BY <2>3 DEF lo
  <1>3. \A m \in Nat : m \in T
    <2> HIDE DEF T
    <2> QED BY <1>1, <1>2, SetInduction
  <1>4. Some(n + 2 - (n + 1))
    <2> HIDE DEF Some
    <2>1. n + 1 \in Nat /\ n + 1 <= n + 1
      BY <1>0
    <2> QED BY <1>3, <2>1
  <1>5. n + 2 - (n + 1) = 1
    BY <1>0
  <1>6. Some(1)
    <2> HIDE DEF Some
    <2> QED BY <1>4, <1>5
  <1> QED BY <1>6

\* The equation behind FieldsFrom, and its type.
LEMMA FieldsEquation ==
  ASSUME NEW C, NEW text \in Seq(C), NEW k \in 1..Len(text)+1
  PROVE  FieldsFrom(text)[k] =
           IF CommaFrom(text, k) > Len(text) THEN <<FieldAt(text, k)>>
           ELSE <<FieldAt(text, k)>> \o FieldsFrom(text)[CommaFrom(text, k) + 1]
  <1> DEFINE from == CHOOSE f : f = [i \in 1..Len(text)+1 |->
                       IF FirstIn(text, i, {","}) > Len(text)
                       THEN <<Strip(SubSeq(text, i, FirstIn(text, i, {","}) - 1))>>
                       ELSE <<Strip(SubSeq(text, i, FirstIn(text, i, {","}) - 1))>>
                            \o f[FirstIn(text, i, {","}) + 1]]
  <1>1. FieldsFrom(text) = from
    BY Zenon DEF FieldsFrom
  <1>2. PICK g : SplitsFrom(g, text, 1)
    BY SplitsExist
  <1>3. g = [i \in 1..Len(text)+1 |->
                       IF FirstIn(text, i, {","}) > Len(text)
                       THEN <<Strip(SubSeq(text, i, FirstIn(text, i, {","}) - 1))>>
                       ELSE <<Strip(SubSeq(text, i, FirstIn(text, i, {","}) - 1))>>
                            \o g[FirstIn(text, i, {","}) + 1]]
    BY <1>2, Zenon DEF SplitsFrom, FieldAt, CommaFrom
  <1>4. from = [i \in 1..Len(text)+1 |->
                       IF FirstIn(text, i, {","}) > Len(text)
                       THEN <<Strip(SubSeq(text, i, FirstIn(text, i, {","}) - 1))>>
                       ELSE <<Strip(SubSeq(text, i, FirstIn(text, i, {","}) - 1))>>
                            \o from[FirstIn(text, i, {","}) + 1]]
    BY <1>3, Zenon
  <1> HIDE DEF from
  <1>5. from[k] = IF FirstIn(text, k, {","}) > Len(text)
                  THEN <<Strip(SubSeq(text, k, FirstIn(text, k, {","}) - 1))>>
                  ELSE <<Strip(SubSeq(text, k, FirstIn(text, k, {","}) - 1))>>
                       \o from[FirstIn(text, k, {","}) + 1]
    BY <1>4, Zenon
  <1> QED BY <1>1, <1>5 DEF FieldAt, CommaFrom

\* The fields of a text are texts over its characters.
LEMMA FieldsType ==
  ASSUME NEW C, NEW text \in Seq(C), NEW k \in 1..Len(text)+1
  PROVE  FieldsFrom(text)[k] \in Seq(Seq(C))
  <1> DEFINE n == Len(text)
             Typed(i) == \A j \in i..n+1 : FieldsFrom(text)[j] \in Seq(Seq(C))
             T == {m \in Nat : m <= n + 1 => Typed(n + 2 - m)}
  <1>0. n \in Nat
    BY LenProperties
  <1>1. 0 \in T
    BY <1>0
  <1>2. ASSUME NEW m \in Nat, m \in T PROVE m + 1 \in T
    <2> SUFFICES ASSUME m + 1 <= n + 1 PROVE Typed(n + 2 - (m + 1))
      OBVIOUS
    <2> DEFINE lo == n + 2 - (m + 1)
    <2>1. lo \in 1..n+1 /\ lo + 1 = n + 2 - m /\ m <= n + 1
      BY <1>0
    <2> HIDE DEF lo
    <2>2. Typed(lo + 1)
      <3> HIDE DEF Typed
      <3> QED BY <1>2, <2>1
    <2> DEFINE c == CommaFrom(text, lo)
    <2>3. /\ c \in lo..n+1 /\ FieldAt(text, lo) \in Seq(C)
          /\ c <= n => c + 1 \in lo+1..n+1
      BY <2>1, CommaIs
    <2>4. FieldsFrom(text)[lo] = IF c > n THEN <<FieldAt(text, lo)>>
                                 ELSE <<FieldAt(text, lo)>> \o FieldsFrom(text)[c + 1]
      BY <2>1, FieldsEquation
    <2> HIDE DEF c
    <2>5. <<FieldAt(text, lo)>> \in Seq(Seq(C))
      BY <2>3
    <2>6. c <= n => FieldsFrom(text)[c + 1] \in Seq(Seq(C))
      BY <2>2, <2>3
    <2>7. c <= n => <<FieldAt(text, lo)>> \o FieldsFrom(text)[c + 1] \in Seq(Seq(C))
      BY <2>5, <2>6, ConcatProperties
    <2>8. FieldsFrom(text)[lo] \in Seq(Seq(C))
      BY <1>0, <2>3, <2>4, <2>5, <2>7
    <2>9. \A j \in lo..n+1 : j = lo \/ j \in lo+1..n+1
      BY <1>0, <2>1
    <2>10. Typed(lo)
      BY <2>2, <2>8, <2>9
    <2> QED BY <2>10 DEF lo
  <1>3. \A m \in Nat : m \in T
    <2> HIDE DEF T
    <2> QED BY <1>1, <1>2, SetInduction
  <1>4. Typed(n + 2 - (n + 1))
    <2> HIDE DEF Typed
    <2>1. n + 1 \in Nat /\ n + 1 <= n + 1
      BY <1>0
    <2> QED BY <1>3, <2>1
  <1>5. n + 2 - (n + 1) = 1
    BY <1>0
  <1>6. Typed(1)
    <2> HIDE DEF Typed
    <2> QED BY <1>4, <1>5
  <1> QED BY <1>6

-----------------------------------------------------------------------------
\* A text without a NUL ends behind its last character.
LEMMA EndOfText ==
  ASSUME NEW C, NUL \notin C, NEW text \in Seq(C), NEW k \in 1..Len(text)+1
  PROVE  /\ CharAt(text, k) = NUL <=> k = Len(text) + 1
         /\ k \in 1..Len(text) => CharAt(text, k) = text[k]
         /\ CharAt(text, k) # NUL => k \in 1..Len(text)
  <1>0. Len(text) \in Nat
    BY LenProperties
  <1>1. \A i \in 1..Len(text) : text[i] # NUL
    BY ElementOfSeq
  <1> QED BY <1>0, <1>1 DEF CharAt

\* Comma, blanks and NUL are different characters.
LEMMA NoBlank == "," \notin Blank /\ NUL \notin Blank /\ NUL # ","
  BY DEF Blank, NUL

\* A word at p, read by one that jumps over blanks: up to w, and D behind it.
WordAt(text, q, p, w, d) ==
  /\ p = Behind(text, q) /\ CharAt(text, p) \notin {NUL, ","}
  /\ w = FirstIn(text, p, Blank \cup {","}) /\ d = Behind(text, w)

\* A word found in a text: blanks, the word, blanks behind it.
LEMMA WordIs ==
  ASSUME NEW C, NUL \notin C, NEW text \in Seq(C), NEW q \in 1..Len(text)+1,
         NEW p \in Int, NEW w \in Int, NEW d \in Int, WordAt(text, q, p, w, d)
  PROVE  /\ p \in q..Len(text) /\ w \in p+1..Len(text)+1 /\ d \in w..Len(text)+1
         /\ \A j \in q..p-1 : text[j] \in Blank
         /\ \A j \in p..w-1 : text[j] \notin Blank \cup {","}
         /\ \A j \in w..d-1 : text[j] \in Blank
         /\ SubSeq(text, p, w - 1) \in Seq(C) /\ IsWord(SubSeq(text, p, w - 1))
         /\ CharAt(text, d) \notin {NUL, ","} => w < d /\ d <= Len(text)
  <1> DEFINE n == Len(text)
  <1>0. n \in Nat
    BY LenProperties
  <1>1. p \in q..n+1
    BY BehindIs DEF WordAt
  <1>16. CharAt(text, p) \notin Blank /\ CharAt(text, p) \notin {NUL, ","}
    BY BehindIs DEF WordAt
  <1>13. \A j \in q..p-1 : CharAt(text, j) \in Blank
    BY BehindIs DEF WordAt
  <1>2. p \in 1..n+1 /\ p \in 1..n /\ p \in q..n
    <2>1. p \in 1..n+1
      BY <1>0, <1>1
    <2>2. p \in 1..n
      BY <1>16, <2>1, EndOfText
    <2> QED BY <1>0, <1>1, <2>1, <2>2
  <1>3. w \in p..n+1
    BY <1>2, FirstInIs DEF WordAt
  <1>17. CharAt(text, w) \in (Blank \cup {","}) \cup {NUL}
    BY <1>2, FirstInIs, Zenon DEF WordAt
  <1>14. \A j \in p..w-1 : CharAt(text, j) \notin (Blank \cup {","}) \cup {NUL}
    BY <1>2, FirstInIs, Zenon DEF WordAt
  <1>4. w # p /\ w \in p+1..n+1 /\ w \in 1..n+1
    <2>1. w # p
      BY <1>16, <1>17
    <2> QED BY <1>0, <1>2, <1>3, <2>1
  <1>5. d \in w..n+1
    BY <1>4, BehindIs DEF WordAt
  <1>18. CharAt(text, d) \notin Blank
    BY <1>4, BehindIs DEF WordAt
  <1>15. \A j \in w..d-1 : CharAt(text, j) \in Blank
    BY <1>4, BehindIs DEF WordAt
  <1>6. \A j \in 1..n : CharAt(text, j) = text[j]
    BY <1>0 DEF CharAt
  <1>7. \A j \in q..p-1 : j \in 1..n
    BY <1>0, <1>2
  <1>8. \A j \in p..w-1 : j \in 1..n
    BY <1>0, <1>2, <1>4
  <1>9. \A j \in w..d-1 : j \in 1..n
    BY <1>0, <1>4, <1>5
  <1>10. /\ \A j \in q..p-1 : text[j] \in Blank
         /\ \A j \in p..w-1 : text[j] \notin Blank \cup {","}
         /\ \A j \in w..d-1 : text[j] \in Blank
    BY <1>13, <1>14, <1>15, <1>6, <1>7, <1>8, <1>9
  <1>11. SubSeq(text, p, w - 1) \in Seq(C) /\ IsWord(SubSeq(text, p, w - 1))
    <2> DEFINE b == w - 1
               word == SubSeq(text, p, b)
    <2>1. p \in 1..n+1 /\ b \in p-1..n /\ b - p + 1 \in Nat \ {0}
      BY <1>0, <1>2, <1>4
    <2> HIDE DEF b
    <2>2. /\ word \in Seq(C) /\ Len(word) = b - p + 1 /\ DOMAIN word = 1..b-p+1
          /\ \A k \in 1..b-p+1 : word[k] = text[p + k - 1]
      BY <2>1, PartOf
    <2> HIDE DEF word
    <2>3. \A k \in 1..b-p+1 : word[k] \notin Blank
      <3>1. \A k \in 1..b-p+1 : p + k - 1 \in p..b
        BY <2>1, <1>2
      <3> QED BY <1>10, <2>2, <3>1 DEF b
    <2>4. word # <<>>
      BY <2>1, <2>2
    <2>5. Range(word) \cap Blank = {}
      BY <2>2, <2>3 DEF Range
    <2> QED BY <2>2, <2>4, <2>5 DEF IsWord, word, b
  <1>19. d \in 1..n+1
    BY <1>0, <1>4, <1>5
  <1>12. CharAt(text, d) \notin {NUL, ","} => w < d /\ d <= n
    <2>1. SUFFICES ASSUME CharAt(text, d) \notin {NUL, ","} PROVE w < d /\ d <= n
      OBVIOUS
    <2>2. d # w
      BY <1>17, <1>18, <2>1
    <2>3. d \in 1..n
      BY <1>19, <2>1, EndOfText
    <2> QED BY <1>0, <1>4, <1>5, <2>2, <2>3
  <1> QED BY <1>2, <1>4, <1>5, <1>10, <1>11, <1>12

\* The field from q on, up to the comma at d, is the word from p up to w.
CommaCuts(text, q, p, w, d) ==
  /\ d \in 1..Len(text) /\ CommaFrom(text, q) = d
  /\ Strip(SubSeq(text, q, d - 1)) = SubSeq(text, p, w - 1)

\* Behind the word there is a comma: it is the field.
LEMMA WordComma ==
  ASSUME NEW C, NUL \notin C, NEW text \in Seq(C), NEW q \in 1..Len(text)+1,
         NEW p \in Int, NEW w \in Int, NEW d \in Int, WordAt(text, q, p, w, d)
  PROVE  CharAt(text, d) = "," => CommaCuts(text, q, p, w, d)
  <1> DEFINE n == Len(text)
  <1>0. n \in Nat
    BY LenProperties
  <1>1. p \in q..n /\ w \in p+1..n+1 /\ d \in w..n+1
    BY WordIs
  <1>5. /\ \A j \in q..p-1 : text[j] \in Blank
        /\ \A j \in p..w-1 : text[j] \notin Blank \cup {","}
        /\ \A j \in w..d-1 : text[j] \in Blank
    BY WordIs
  <1>6. SUFFICES ASSUME CharAt(text, d) = ","
                 PROVE  /\ d \in 1..n /\ CommaFrom(text, q) = d
                        /\ Strip(SubSeq(text, q, d - 1)) = SubSeq(text, p, w - 1)
    BY Zenon DEF CommaCuts
  <1>2. d \in 1..n+1 /\ d \in 1..n /\ d \in q..n+1
    <2>1. d \in 1..n+1 /\ d \in q..n+1
      BY <1>0, <1>1
    <2> QED BY <1>6, <2>1, NoBlank, EndOfText
  <1>3. CommaFrom(text, q) = d
    <2>1. ASSUME NEW j \in q..d-1 PROVE CharAt(text, j) \notin {","} \cup {NUL}
      <3>1. j \in 1..n /\ j \in 1..n+1 /\ j # n + 1
        BY <1>0, <1>2
      <3>2. CharAt(text, j) = text[j] /\ text[j] # NUL
        BY <3>1, EndOfText
      <3>3. j \in q..p-1 \/ j \in p..w-1 \/ j \in w..d-1
        BY <1>0, <1>1
      <3> QED BY <1>5, <3>2, <3>3, NoBlank
    <2>2. CharAt(text, d) \in {","} \cup {NUL}
      BY <1>6
    <2> QED BY <1>2, <2>1, <2>2, FirstInAt, Zenon DEF CommaFrom
  <1>4. Strip(SubSeq(text, q, d - 1)) = SubSeq(text, p, w - 1)
    <2> DEFINE b == d - 1
               l == w - 1
    <2>1. /\ b \in q-1..n /\ p \in q..b /\ l \in p..b /\ l + 1 = w
      BY <1>0, <1>1, <1>2
    <2>2. p \in p..w-1 /\ l \in p..w-1
      BY <1>0, <1>1
    <2>3. text[p] \notin Blank /\ text[l] \notin Blank
      BY <1>5, <2>2
    <2>4. \A j \in l+1..b : text[j] \in Blank
      BY <1>5, <2>1
    <2> HIDE DEF b, l
    <2>5. \A j \in q..p-1 : text[j] \in Blank
      BY <1>5
    <2>6. Strip(SubSeq(text, q, b)) = SubSeq(text, p, l)
      BY <2>1, <2>3, <2>4, <2>5, StripOf
    <2> QED BY <2>6 DEF b, l
  <1> QED BY <1>2, <1>3, <1>4

\* Nothing is behind the word: it is the last field, wherever the text is cut.
LEMMA WordLast ==
  ASSUME NEW C, NUL \notin C, NEW text \in Seq(C), NEW q \in 1..Len(text)+1,
         NEW p \in Int, NEW w \in Int, NEW d \in Int, WordAt(text, q, p, w, d)
  PROVE  CharAt(text, d) = NUL =>
           /\ CommaFrom(text, q) = Len(text) + 1
           /\ \A b \in w-1..Len(text) : Strip(SubSeq(text, q, b)) = SubSeq(text, p, w - 1)
  <1> DEFINE n == Len(text)
  <1>0. n \in Nat
    BY LenProperties
  <1>1. p \in q..n /\ w \in p+1..n+1 /\ d \in w..n+1
    BY WordIs
  <1>5. /\ \A j \in q..p-1 : text[j] \in Blank
        /\ \A j \in p..w-1 : text[j] \notin Blank \cup {","}
        /\ \A j \in w..d-1 : text[j] \in Blank
    BY WordIs
  <1>6. SUFFICES ASSUME CharAt(text, d) = NUL
                 PROVE  /\ CommaFrom(text, q) = n + 1
                        /\ \A b \in w-1..n :
                             Strip(SubSeq(text, q, b)) = SubSeq(text, p, w - 1)
    OBVIOUS
  <1>2. d = n + 1 /\ d \in q..n+1
    <2>1. d \in 1..n+1 /\ d \in q..n+1
      BY <1>0, <1>1
    <2> QED BY <1>6, <2>1, EndOfText
  <1>3. CommaFrom(text, q) = d
    <2>1. ASSUME NEW j \in q..d-1 PROVE CharAt(text, j) \notin {","} \cup {NUL}
      <3>1. j \in 1..n /\ j \in 1..n+1 /\ j # n + 1
        BY <1>0, <1>2
      <3>2. CharAt(text, j) = text[j] /\ text[j] # NUL
        BY <3>1, EndOfText
      <3>3. j \in q..p-1 \/ j \in p..w-1 \/ j \in w..d-1
        BY <1>0, <1>1
      <3> QED BY <1>5, <3>2, <3>3, NoBlank
    <2>2. CharAt(text, d) \in {","} \cup {NUL}
      BY <1>6
    <2> QED BY <1>2, <2>1, <2>2, FirstInAt, Zenon DEF CommaFrom
  <1>4. ASSUME NEW b \in w-1..n PROVE Strip(SubSeq(text, q, b)) = SubSeq(text, p, w - 1)
    <2> DEFINE l == w - 1
    <2>1. /\ b \in q-1..n /\ p \in q..b /\ l \in p..b /\ l + 1 = w
      BY <1>0, <1>1, <1>2
    <2>2. p \in p..w-1 /\ l \in p..w-1
      BY <1>0, <1>1
    <2>3. text[p] \notin Blank /\ text[l] \notin Blank
      BY <1>5, <2>2
    <2>4. \A j \in l+1..b : text[j] \in Blank
      <3>1. \A j \in w..b : j \in w..d-1
        BY <1>0, <1>1, <1>2
      <3> QED BY <1>5, <2>1, <3>1
    <2> HIDE DEF l
    <2>5. \A j \in q..p-1 : text[j] \in Blank
      BY <1>5
    <2>6. Strip(SubSeq(text, q, b)) = SubSeq(text, p, l)
      BY <2>1, <2>3, <2>4, <2>5, StripOf, ZenonT(40)
    <2> QED BY <2>6 DEF l
  <1> QED BY <1>2, <1>3, <1>4

\* Another word is behind the word: what reaches to it is no word.
LEMMA WordTwice ==
  ASSUME NEW C, NUL \notin C, NEW text \in Seq(C), NEW q \in 1..Len(text)+1,
         NEW p \in Int, NEW w \in Int, NEW d \in Int, WordAt(text, q, p, w, d),
         NEW b \in d..Len(text)
  PROVE  CharAt(text, d) \notin {NUL, ","} => ~IsWord(Strip(SubSeq(text, q, b)))
  <1> DEFINE n == Len(text)
  <1>0. n \in Nat
    BY LenProperties
  <1>12. SUFFICES ASSUME CharAt(text, d) \notin {NUL, ","}
                  PROVE  ~IsWord(Strip(SubSeq(text, q, b)))
    OBVIOUS
  <1>1. p \in q..n /\ w \in p+1..n+1 /\ d \in w..n+1 /\ w < d
    BY <1>12, WordIs
  <1>11. /\ \A j \in p..w-1 : text[j] \notin Blank \cup {","}
        /\ \A j \in w..d-1 : text[j] \in Blank
    BY WordIs
  <1>2. text[p] \notin Blank /\ text[w] \in Blank /\ text[d] \notin Blank
    <2>1. p \in p..w-1 /\ w \in w..d-1 /\ w \in 1..n+1 /\ d \in 1..n
      BY <1>0, <1>1
    <2>2. CharAt(text, d) \notin Blank
      BY <2>1, BehindIs DEF WordAt
    <2>3. CharAt(text, d) = text[d]
      BY <1>0, <2>1 DEF CharAt
    <2> QED BY <1>11, <2>1, <2>2, <2>3
  <1>3. b \in q-1..n /\ p \in q..b /\ d \in q..b
    BY <1>0, <1>1
  <1>4. PICK first \in q..b : \E last \in first..b :
               /\ text[first] \notin Blank /\ text[last] \notin Blank
               /\ \A k \in q..first-1 : text[k] \in Blank
               /\ \A k \in last+1..b : text[k] \in Blank
               /\ Strip(SubSeq(text, q, b)) = SubSeq(text, first, last)
    BY <1>2, <1>3, StripIs
  <1>5. PICK last \in first..b :
               /\ \A k \in q..first-1 : text[k] \in Blank
               /\ \A k \in last+1..b : text[k] \in Blank
               /\ Strip(SubSeq(text, q, b)) = SubSeq(text, first, last)
    BY <1>4
  <1>6. first <= p /\ d <= last
    <2>1. p \notin q..first-1 /\ d \notin last+1..b
      BY <1>2, <1>5
    <2> QED BY <1>0, <1>3, <2>1
  <1> DEFINE word == SubSeq(text, first, last)
             k == w - first + 1
  <1>7. k \in 1..last-first+1 /\ first + k - 1 = w /\ first \in 1..n+1 /\ last \in first-1..n
    BY <1>0, <1>1, <1>6
  <1>8. /\ DOMAIN word = 1..last-first+1
        /\ \A i \in 1..last-first+1 : word[i] = text[first + i - 1]
    BY <1>7, PartOf
  <1> HIDE DEF k, word
  <1>9. word[k] \in Blank /\ k \in DOMAIN word
    BY <1>2, <1>7, <1>8
  <1>10. Range(word) \cap Blank # {}
    BY <1>9 DEF Range
  <1> QED BY <1>5, <1>10 DEF IsWord, word

\* A field before others.
LEMMA WordBefore ==
  ASSUME NEW C, NEW f \in Seq(C), NEW g \in Seq(Seq(C))
  PROVE  /\ <<f>> \o g \in Seq(Seq(C)) /\ 1 \in DOMAIN (<<f>> \o g) /\ (<<f>> \o g)[1] = f
         /\ (\A k \in DOMAIN (<<f>> \o g) : IsWord((<<f>> \o g)[k]))
              <=> IsWord(f) /\ \A k \in DOMAIN g : IsWord(g[k])
  <1> DEFINE fg == <<f>> \o g
             m == Len(g)
  <1>1. <<f>> \in Seq(Seq(C)) /\ Len(<<f>>) = 1 /\ <<f>>[1] = f
    OBVIOUS
  <1>2. m \in Nat /\ DOMAIN g = 1..m
    BY LenProperties
  <1>3. /\ fg \in Seq(Seq(C)) /\ Len(fg) = 1 + m
        /\ \A k \in 1..1+m : fg[k] = IF k <= 1 THEN <<f>>[k] ELSE g[k - 1]
    BY <1>1, ConcatProperties
  <1>4. DOMAIN fg = 1..1+m
    BY <1>3, LenProperties
  <1> HIDE DEF fg, m
  <1>5. 1 \in DOMAIN fg /\ fg[1] = f
    BY <1>1, <1>2, <1>3, <1>4
  <1>6. \A k \in 1..m : k + 1 \in 1..1+m /\ fg[k + 1] = g[k]
    <2> SUFFICES ASSUME NEW k \in 1..m PROVE k + 1 \in 1..1+m /\ fg[k + 1] = g[k]
      OBVIOUS
    <2>1. k + 1 \in 1..1+m /\ ~(k + 1 <= 1) /\ (k + 1) - 1 = k
      BY <1>2
    <2> QED BY <1>3, <2>1
  <1>7. \A k \in 1..1+m : k = 1 \/ (k - 1 \in 1..m /\ fg[k] = g[k - 1])
    <2> SUFFICES ASSUME NEW k \in 1..1+m PROVE k = 1 \/ (k - 1 \in 1..m /\ fg[k] = g[k - 1])
      OBVIOUS
    <2>1. k = 1 \/ (k - 1 \in 1..m /\ ~(k <= 1))
      BY <1>2
    <2> QED BY <1>3, <2>1
  <1>8. (\A k \in DOMAIN fg : IsWord(fg[k])) <=> IsWord(f) /\ \A k \in DOMAIN g : IsWord(g[k])
    <2>1. ASSUME \A k \in DOMAIN fg : IsWord(fg[k])
          PROVE  IsWord(f) /\ \A k \in DOMAIN g : IsWord(g[k])
      <3>1. \A k \in 1..m : IsWord(fg[k + 1])
        BY <1>4, <1>6, <2>1
      <3> QED BY <1>2, <1>5, <1>6, <2>1, <3>1
    <2>2. ASSUME IsWord(f), \A k \in DOMAIN g : IsWord(g[k]), NEW k \in DOMAIN fg
          PROVE  IsWord(fg[k])
      <3>1. CASE k = 1
        BY <1>5, <2>2, <3>1
      <3>2. CASE k # 1
        <4>1. k - 1 \in 1..m /\ fg[k] = g[k - 1]
          BY <1>4, <1>7, <2>2, <3>2
        <4>2. IsWord(g[k - 1])
          BY <1>2, <2>2, <4>1
        <4> QED BY <4>1, <4>2
      <3> QED BY <3>1, <3>2
    <2> QED BY <2>1, <2>2
  <1> QED BY <1>3, <1>5, <1>8 DEF fg

\* A sequence with one element more before it.
LEMMA AppendBefore ==
  ASSUME NEW C, NEW f \in C, NEW g \in Seq(C), NEW words \in Seq(C)
  PROVE  words \o (<<f>> \o g) = Append(words, f) \o g
  <1>1. (words \o <<f>>) \o g = words \o (<<f>> \o g)
    <2> DEFINE one == <<f>>
    <2>1. one \in Seq(C)
      OBVIOUS
    <2> HIDE DEF one
    <2>2. (words \o one) \o g = words \o (one \o g)
      BY <2>1, ConcatAssociative
    <2> QED BY <2>2 DEF one
  <1>2. words \o <<f>> = Append(words, f)
    BY AppendIsConcat
  <1> QED BY <1>1, <1>2

\* The string at a place of a buffer.
StringIn(buf, start) ==
  SubSeq(buf, start, Min({k \in start..Len(buf) : buf[k] = NUL}) - 1)
EndsIn(buf, start) == start \in 1..Len(buf) /\ \E j \in start..Len(buf) : buf[j] = NUL

\* A C string ends before its NUL.
LEMMA StringIs ==
  ASSUME NEW S, NEW buf \in Seq(S), NEW start \in 1..Len(buf), NEW end \in start..Len(buf),
         buf[end] = NUL, \A k \in start..end-1 : buf[k] # NUL
  PROVE  StringIn(buf, start) = SubSeq(buf, start, end - 1)
  <1> DEFINE stops == {k \in start..Len(buf) : buf[k] = NUL}
  <1>0. Len(buf) \in Nat
    BY LenProperties
  <1>1. stops \in SUBSET Nat /\ end \in stops
    BY <1>0
  <1>2. \A k \in stops : end <= k
    <2> SUFFICES ASSUME NEW k \in stops PROVE end <= k
      OBVIOUS
    <2>1. k \notin start..end-1 /\ k \in start..Len(buf)
      OBVIOUS
    <2> QED BY <1>0, <2>1
  <1>3. Min(stops) = end
    <2> HIDE DEF stops
    <2> QED BY <1>1, <1>2, MinIs
  <1> QED BY <1>3 DEF StringIn

\* What is written behind a string does not change it.
LEMMA StringStays ==
  ASSUME NEW C, NUL \notin C, NEW buf \in Seq(C \cup {NUL}), NEW more \in Seq(C \cup {NUL}),
         NEW start, EndsIn(buf, start)
  PROVE  /\ StringIn(buf \o more, start) = StringIn(buf, start)
         /\ StringIn(buf, start) \in Seq(C) /\ EndsIn(buf \o more, start)
  <1> DEFINE stops == {k \in start..Len(buf) : buf[k] = NUL}
             end == Min(stops)
             all == buf \o more
  <1>0. Len(buf) \in Nat /\ Len(more) \in Nat
    BY LenProperties
  <1>1. start \in 1..Len(buf) /\ stops \in SUBSET Nat /\ stops # {}
    BY <1>0 DEF EndsIn
  <1>2. end \in stops /\ \A k \in stops : end <= k
    <2> HIDE DEF stops
    <2> QED BY <1>1, MinOf
  <1> HIDE DEF end
  <1>3. end \in start..Len(buf) /\ buf[end] = NUL
    BY <1>2
  <1>4. \A k \in start..end-1 : buf[k] # NUL
    <2> SUFFICES ASSUME NEW k \in start..end-1 PROVE buf[k] # NUL
      OBVIOUS
    <2>1. k \in start..Len(buf) /\ ~(end <= k)
      BY <1>0, <1>1, <1>3
    <2> QED BY <1>2, <2>1
  <1>5. /\ all \in Seq(C \cup {NUL}) /\ Len(all) = Len(buf) + Len(more)
        /\ \A k \in 1..Len(buf) : all[k] = buf[k]
    BY <1>0, ConcatProperties
  <1> HIDE DEF all
  <1>6. /\ start \in 1..Len(all) /\ end \in start..Len(all) /\ all[end] = NUL
        /\ \A k \in start..end-1 : all[k] # NUL
    <2>1. start \in 1..Len(all) /\ end \in start..Len(all) /\ end \in 1..Len(buf)
      BY <1>0, <1>1, <1>3, <1>5
    <2>2. \A k \in start..end-1 : k \in 1..Len(buf)
      BY <1>0, <1>1, <1>3
    <2> QED BY <1>3, <1>4, <1>5, <2>1, <2>2
  <1>7. StringIn(buf, start) = SubSeq(buf, start, end - 1)
    BY <1>1, <1>3, <1>4, StringIs
  <1>8. StringIn(all, start) = SubSeq(all, start, end - 1)
    BY <1>5, <1>6, StringIs
  <1> DEFINE b == end - 1
  <1>9. /\ start \in 1..Len(buf)+1 /\ b \in start-1..Len(buf)
        /\ start \in 1..Len(all)+1 /\ b \in start-1..Len(all)
    BY <1>0, <1>1, <1>3, <1>5
  <1>10. \A k \in 1..b-start+1 : start + k - 1 \in start..b /\ start + k - 1 \in 1..Len(buf)
    BY <1>0, <1>1, <1>9
  <1>14. \A k \in start..b : buf[k] # NUL
    BY <1>4
  <1> HIDE DEF b
  <1>11. SubSeq(buf, start, b) = SubSeq(all, start, b)
    <2>1. /\ SubSeq(buf, start, b) \in Seq(C \cup {NUL})
          /\ Len(SubSeq(buf, start, b)) = b - start + 1
          /\ \A k \in 1..b-start+1 : SubSeq(buf, start, b)[k] = buf[start + k - 1]
      BY <1>9, PartOf
    <2>2. /\ SubSeq(all, start, b) \in Seq(C \cup {NUL})
          /\ Len(SubSeq(all, start, b)) = b - start + 1
          /\ \A k \in 1..b-start+1 : SubSeq(all, start, b)[k] = all[start + k - 1]
      BY <1>5, <1>9, PartOf
    <2>3. \A k \in 1..b-start+1 : SubSeq(buf, start, b)[k] = SubSeq(all, start, b)[k]
      BY <1>5, <1>10, <2>1, <2>2
    <2> QED BY <2>1, <2>2, <2>3, SeqEqual
  <1>12. SubSeq(buf, start, b) \in Seq(C)
    <2>1. \A k \in start..b : buf[k] \in C
      <3>1. \A k \in start..b : k \in 1..Len(buf)
        BY <1>0, <1>1, <1>9
      <3>2. \A k \in 1..Len(buf) : buf[k] \in C \cup {NUL}
        BY ElementOfSeq
      <3> QED BY <1>14, <3>1, <3>2
    <2>2. start \in Int /\ b \in Int
      BY <1>1, <1>9
    <2> QED BY <2>1, <2>2, SubSeqProperties
  <1>13. EndsIn(all, start)
    BY <1>6 DEF EndsIn
  <1> QED BY <1>7, <1>8, <1>11, <1>12, <1>13 DEF all, b

\* The string that is added.
LEMMA StringAdded ==
  ASSUME NEW C, NUL \notin C, NEW buf \in Seq(C \cup {NUL}), NEW word \in Seq(C)
  PROVE  /\ StringIn(buf \o word \o <<NUL>>, Len(buf) + 1) = word
         /\ EndsIn(buf \o word \o <<NUL>>, Len(buf) + 1)
  <1> DEFINE n == Len(buf)
             m == Len(word)
             all == buf \o word \o <<NUL>>
             last == <<NUL>>
  <1>0. n \in Nat /\ m \in Nat
    BY LenProperties
  <1>1. word \in Seq(C \cup {NUL}) /\ last \in Seq(C \cup {NUL}) /\ Len(last) = 1 /\ last[1] = NUL
    <2>1. word \in Seq(C \cup {NUL})
      BY SeqMonotonic
    <2> QED BY <2>1
  <1> HIDE DEF last
  <1>2. /\ buf \o word \in Seq(C \cup {NUL}) /\ Len(buf \o word) = n + m
        /\ \A k \in 1..n+m : (buf \o word)[k] = IF k <= n THEN buf[k] ELSE word[k - n]
    BY <1>1, ConcatProperties
  <1>3. /\ all \in Seq(C \cup {NUL}) /\ Len(all) = (n + m) + 1
        /\ \A k \in 1..(n + m)+1 : all[k] = IF k <= n + m THEN (buf \o word)[k] ELSE last[k - (n + m)]
    BY <1>1, <1>2, ConcatProperties DEF last
  <1> HIDE DEF all
  <1> DEFINE start == n + 1
             end == (n + m) + 1
  <1>4. start \in 1..Len(all) /\ end \in start..Len(all)
    BY <1>0, <1>3
  <1>5. all[end] = NUL
    <2>1. end \in 1..(n + m)+1 /\ ~(end <= n + m) /\ end - (n + m) = 1
      BY <1>0
    <2> HIDE DEF end
    <2> QED BY <1>1, <1>3, <2>1
  <1>6. \A k \in 1..m : all[n + k] = word[k]
    <2> SUFFICES ASSUME NEW k \in 1..m PROVE all[n + k] = word[k]
      OBVIOUS
    <2>1. n + k \in 1..n+m /\ n + k \in 1..(n + m)+1 /\ n + k <= n + m /\ ~(n + k <= n) /\ (n + k) - n = k
      BY <1>0
    <2> QED BY <1>2, <1>3, <2>1
  <1>7. \A k \in start..end-1 : all[k] # NUL
    <2> SUFFICES ASSUME NEW k \in start..end-1 PROVE all[k] # NUL
      OBVIOUS
    <2>1. k - n \in 1..m /\ n + (k - n) = k
      BY <1>0
    <2>2. word[k - n] \in C
      BY <2>1, ElementOfSeq
    <2>3. all[n + (k - n)] = word[k - n]
      BY <1>6, <2>1
    <2> QED BY <2>1, <2>2, <2>3
  <1> HIDE DEF start, end
  <1>8. StringIn(all, start) = SubSeq(all, start, end - 1)
    BY <1>3, <1>4, <1>5, <1>7, StringIs
  <1> DEFINE b == end - 1
  <1>9. start \in 1..Len(all)+1 /\ b \in start-1..Len(all) /\ b - start + 1 = m /\ start = n + 1
    BY <1>0, <1>3, <1>4 DEF start, end
  <1> HIDE DEF b
  <1>10. /\ SubSeq(all, start, b) \in Seq(C \cup {NUL}) /\ Len(SubSeq(all, start, b)) = b - start + 1
         /\ \A k \in 1..b-start+1 : SubSeq(all, start, b)[k] = all[start + k - 1]
    BY <1>3, <1>9, PartOf
  <1>11. \A k \in 1..m : SubSeq(all, start, b)[k] = word[k]
    <2> SUFFICES ASSUME NEW k \in 1..m PROVE SubSeq(all, start, b)[k] = word[k]
      OBVIOUS
    <2>1. start + k - 1 = n + k
      BY <1>0, <1>9
    <2> QED BY <1>6, <1>9, <1>10, <2>1
  <1>12. SubSeq(all, start, b) = word
    BY <1>1, <1>9, <1>10, <1>11, SeqEqual
  <1>13. EndsIn(all, start)
    BY <1>4, <1>5 DEF EndsIn
  <1> QED BY <1>8, <1>12, <1>13 DEF all, b, start

\* The strings of a buffer, and one more.
Strings(buf, starts) == [k \in DOMAIN starts |-> StringIn(buf, starts[k])]
AllEnd(buf, starts) == \A k \in DOMAIN starts : EndsIn(buf, starts[k])

\* The strings of a buffer, one for each start.
LEMMA StringsAre ==
  ASSUME NEW C, NUL \notin C, NEW buf \in Seq(C \cup {NUL}), NEW starts \in Seq(Nat),
         AllEnd(buf, starts)
  PROVE  Strings(buf, starts) \in Seq(Seq(C)) /\ Len(Strings(buf, starts)) = Len(starts)
  <1>1. <<>> \in Seq(C \cup {NUL})
    BY EmptySeq
  <1>2. \A k \in DOMAIN starts : StringIn(buf, starts[k]) \in Seq(C)
    BY <1>1, StringStays DEF AllEnd
  <1>3. DOMAIN starts = 1..Len(starts) /\ Len(starts) \in Nat
    BY LenProperties
  <1>4. Strings(buf, starts) = [k \in 1..Len(starts) |-> StringIn(buf, starts[k])]
    BY <1>3 DEF Strings
  <1> QED BY <1>2, <1>3, <1>4, IsASeq

\* One more word behind the strings of a buffer changes none of them.
LEMMA StringsAppend ==
  ASSUME NEW C, NUL \notin C, NEW buf \in Seq(C \cup {NUL}), NEW starts \in Seq(Nat),
         AllEnd(buf, starts), NEW word \in Seq(C)
  PROVE  /\ AllEnd(buf \o word \o <<NUL>>, Append(starts, Len(buf) + 1))
         /\ Strings(buf \o word \o <<NUL>>, Append(starts, Len(buf) + 1))
              = Append(Strings(buf, starts), word)
  <1> DEFINE last == <<NUL>>
             all == buf \o word \o last
             start == Len(buf) + 1
             more == Append(starts, start)
             n == Len(starts)
             old == Strings(buf, starts)
             new == Strings(all, more)
  <1>0. n \in Nat /\ DOMAIN starts = 1..n /\ Len(buf) \in Nat
    BY LenProperties
  <1>1. word \in Seq(C \cup {NUL}) /\ last \in Seq(C \cup {NUL})
    <2>1. word \in Seq(C \cup {NUL})
      BY SeqMonotonic
    <2> QED BY <2>1
  <1>2. StringIn(all, start) = word /\ EndsIn(all, start)
    BY StringAdded
  <1> HIDE DEF last
  <1>3. all = buf \o (word \o last) /\ word \o last \in Seq(C \cup {NUL})
    <2>1. word \o last \in Seq(C \cup {NUL})
      BY <1>1, ConcatProperties
    <2>2. (buf \o word) \o last = buf \o (word \o last)
      BY <1>1, ConcatAssociative
    <2> QED BY <2>1, <2>2
  <1> HIDE DEF all
  <1>4. \A k \in 1..n : StringIn(all, starts[k]) = StringIn(buf, starts[k]) /\ EndsIn(all, starts[k])
    <2> SUFFICES ASSUME NEW k \in 1..n
                 PROVE  StringIn(all, starts[k]) = StringIn(buf, starts[k]) /\ EndsIn(all, starts[k])
      OBVIOUS
    <2>1. EndsIn(buf, starts[k])
      BY <1>0 DEF AllEnd
    <2> DEFINE tail == word \o last
    <2>2. tail \in Seq(C \cup {NUL}) /\ all = buf \o tail
      BY <1>3
    <2> HIDE DEF tail
    <2>3. /\ StringIn(buf \o tail, starts[k]) = StringIn(buf, starts[k])
          /\ EndsIn(buf \o tail, starts[k])
      <3> DEFINE s == starts[k]
      <3>1. tail \in Seq(C \cup {NUL}) /\ EndsIn(buf, s)
        BY <2>1, <2>2
      <3> HIDE DEF s, n
      <3>2. StringIn(buf \o tail, s) = StringIn(buf, s)
        BY <3>1, StringStays
      <3>3. EndsIn(buf \o tail, s)
        BY <3>1, StringStays
      <3> QED BY <3>2, <3>3 DEF s
    <2> QED BY <2>2, <2>3
  <1>5. /\ more \in Seq(Nat) /\ Len(more) = n + 1 /\ more[n + 1] = start
        /\ \A k \in 1..n : more[k] = starts[k]
    <2>1. start \in Nat
      BY <1>0
    <2> HIDE DEF start
    <2> QED BY <2>1, AppendProperties
  <1>6. DOMAIN more = 1..n+1
    BY <1>5, LenProperties
  <1> HIDE DEF more, start
  <1>7. \A k \in 1..n+1 : k \in 1..n \/ k = n + 1
    BY <1>0
  <1>8. AllEnd(all, more)
    BY <1>2, <1>4, <1>5, <1>6, <1>7 DEF AllEnd
  <1>9. old \in Seq(Seq(C)) /\ Len(old) = n
    BY StringsAre
  <1>10. \A k \in 1..n : old[k] = StringIn(buf, starts[k])
    BY <1>0 DEF Strings
  <1>11. new \in Seq(Seq(C \cup {NUL})) /\ Len(new) = n + 1
    <2>1. \A k \in 1..n+1 : StringIn(all, more[k]) \in Seq(C \cup {NUL})
      <3>1. all \in Seq(C \cup {NUL})
        BY <1>3, ConcatProperties
      <3>2. <<>> \in Seq(C \cup {NUL})
        BY EmptySeq
      <3>3. \A k \in 1..n+1 : StringIn(all, more[k]) \in Seq(C)
        BY <1>6, <1>8, <3>1, <3>2, StringStays DEF AllEnd
      <3>4. Seq(C) \subseteq Seq(C \cup {NUL})
        BY SeqMonotonic
      <3> QED BY <3>3, <3>4
    <2>2. new = [k \in 1..n+1 |-> StringIn(all, more[k])]
      BY <1>6 DEF Strings
    <2>3. n + 1 \in Nat
      BY <1>0
    <2> HIDE DEF new
    <2> QED BY <2>1, <2>2, <2>3, IsASeq
  <1>12. \A k \in 1..n+1 : new[k] = StringIn(all, more[k])
    BY <1>6 DEF Strings
  <1> HIDE DEF old, new
  <1> DEFINE app == Append(old, word)
  <1>13. /\ app \in Seq(Seq(C)) /\ Len(app) = n + 1 /\ app[n + 1] = word
         /\ \A k \in 1..n : app[k] = old[k]
    BY <1>9, AppendProperties
  <1>14. app \in Seq(Seq(C \cup {NUL}))
    <2>1. Seq(C) \subseteq Seq(C \cup {NUL})
      BY SeqMonotonic
    <2> HIDE DEF app
    <2> QED BY <1>13, <2>1, SeqMonotonic
  <1> HIDE DEF app
  <1>15. \A k \in 1..n+1 : new[k] = app[k]
    BY <1>2, <1>4, <1>5, <1>7, <1>10, <1>12, <1>13
  <1>16. new = app
    <2> DEFINE T == Seq(C \cup {NUL})
    <2>1. new \in Seq(T) /\ app \in Seq(T) /\ Len(new) = Len(app) /\ Len(new) = n + 1
      BY <1>11, <1>13, <1>14
    <2> HIDE DEF T, n
    <2>2. \A k \in 1..Len(new) : new[k] = app[k]
      BY <1>15, <2>1
    <2> QED BY <2>1, <2>2, SeqEqual
  <1> QED BY <1>8, <1>16 DEF new, app, old, all, more, start, last
==============================================================================
