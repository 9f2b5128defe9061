--------------------------- MODULE HashTableProofs ---------------------------
(* For every set of names, number of buckets and hash function: the chains   *)
(* stay well formed, and the table is the map the assembler takes it for.    *)
EXTENDS HashTable, TLAPS

\* A name has a bucket.
LEMMA BucketOf == ASSUME NEW n \in Names PROVE Hash[n] \in 0..NumBuckets-1
  BY HashAssumption

\* The bucket of a name holds a chain.
LEMMA ChainType ==
  ASSUME TypeOK, NEW n \in Names PROVE Chain(n) \in Seq(Node)
  BY BucketOf DEF TypeOK, Chain

\* An answer is one of those the calls give.
LEMMA AnswerType ==
  ASSUME NEW tag \in Answers, NEW addr \in Int
  PROVE  Answer(tag, addr) \in [tag : Answers, loc : Int]
  BY DEF Answer

\* In a well formed table a name has one node at most, so that the first
\* match is the only one.
LEMMA OnlyMatch ==
  ASSUME TypeOK, WellFormed, NEW n \in Names, NEW k \in Matches(n)
  PROVE  /\ Matches(n) = {k} /\ FirstMatch(n) = k
         /\ Chain(n)[FirstMatch(n)].loc \in Addresses
  <1>1. Chain(n) \in Seq(Node) /\ Hash[n] \in 0..NumBuckets-1
    BY ChainType, BucketOf
  <1>2. \A j \in Matches(n) : j = k
    BY <1>1 DEF Matches, Chain, WellFormed
  <1>3. Matches(n) = {k} /\ k \in Nat
    BY <1>1, <1>2 DEF Matches
  <1>4. FirstMatch(n) = k
    BY <1>3 DEF FirstMatch, Min
  <1>5. k \in 1..Len(Chain(n))
    BY <1>1 DEF Matches
  <1>6. Chain(n)[k] \in Node
    BY <1>1, <1>5
  <1>7. Chain(n)[k].loc \in Addresses
    BY <1>6 DEF Node
  <1> QED BY <1>3, <1>4, <1>7

\* What addSymbol does to the chains, and to what findSymbol sees of them.
LEMMA AddSymbolChains ==
  ASSUME TypeOK, NEW n \in Names, NEW addr \in Addresses, AddSymbol(n, addr)
  PROVE  /\ buckets' \in [0..NumBuckets-1 -> Seq(Node)]
         /\ Chain(n)' = Append(Chain(n), [name |-> n, loc |-> addr])
         /\ \A h \in 0..NumBuckets-1 : h # Hash[n] => buckets'[h] = buckets[h]
  <1>1. [name |-> n, loc |-> addr] \in Node
    BY DEF Node
  <1> QED
    BY <1>1, BucketOf DEF TypeOK, AddSymbol, Chain

\* A new node is the one match of its name and changes no other name's.
LEMMA AddSymbolMatches ==
  ASSUME TypeOK, WellFormed, NEW n \in Names, NEW addr \in Addresses,
         ~IsDefined(n), AddSymbol(n, addr), NEW m \in Names
  PROVE  /\ Matches(m)' = IF m = n THEN {Len(Chain(n)) + 1} ELSE Matches(m)
         /\ \A k \in Matches(m)' :
              Chain(m)'[k] = IF m = n THEN [name |-> n, loc |-> addr] ELSE Chain(m)[k]
  <1>1. Chain(n) \in Seq(Node) /\ Chain(m) \in Seq(Node)
    BY ChainType
  <1>2. Chain(n)' = Append(Chain(n), [name |-> n, loc |-> addr])
    BY AddSymbolChains
  <1>3. CASE m = n
    <2>1. \A k \in 1..Len(Chain(n)) : Chain(n)[k].name # n
      BY <1>1 DEF IsDefined, Matches
    <2> QED BY <1>1, <1>2, <1>3, <2>1 DEF Matches
  <1>4. CASE m # n /\ Hash[m] = Hash[n]
    <2>1. Chain(m)' = Append(Chain(m), [name |-> n, loc |-> addr])
      BY <1>2, <1>4 DEF Chain
    <2> QED BY <1>1, <1>4, <2>1 DEF Matches
  <1>5. CASE Hash[m] # Hash[n]
    <2>1. Chain(m)' = Chain(m)
      BY <1>5, AddSymbolChains, BucketOf DEF Chain
    <2> QED BY <1>5, <2>1 DEF Matches
  <1> QED BY <1>3, <1>4, <1>5

-----------------------------------------------------------------------------
\* The types alone are not inductive: what findSymbol answers has its type
\* only in a well formed table.
Inv == TypeOK /\ WellFormed

\* The empty table satisfies the invariant.
LEMMA InitInv == Init => Inv
  <1>1. Answer("none", 0) \in [tag : Answers, loc : Int]
    BY AnswerType DEF Answers
  <1> QED BY <1>1 DEF Init, Inv, TypeOK, WellFormed, EmptyBuckets

\* A label that is not in the table may be added.
LEMMA DefineLabelInv ==
  ASSUME Inv, NEW n \in Names, NEW addr \in Addresses, DefineLabel(n, addr)
  PROVE  Inv'
  <1>1. AddSymbol(n, addr) /\ ~IsDefined(n) /\ TypeOK /\ WellFormed
    BY DEF DefineLabel, Inv
  <1>2. answer' \in [tag : Answers, loc : Int]
    BY AnswerType DEF DefineLabel, Answers
  <1>3. TypeOK'
    BY <1>1, <1>2, AddSymbolChains DEF DefineLabel, TypeOK
  <1>4. ASSUME NEW h \in 0..NumBuckets-1, NEW k \in DOMAIN buckets'[h]
        PROVE  /\ Hash[buckets'[h][k].name] = h
               /\ \A j \in DOMAIN buckets'[h] :
                    buckets'[h][j].name = buckets'[h][k].name => j = k
    <2>1. CASE h = Hash[n]
      <3>1. Chain(n) \in Seq(Node) /\ buckets[h] = Chain(n)
        BY <2>1, <1>1, ChainType DEF Chain
      <3>2. buckets'[h] = Append(Chain(n), [name |-> n, loc |-> addr])
        BY <2>1, <1>1, AddSymbolChains DEF Chain
      <3>3. \A i \in 1..Len(Chain(n)) : Chain(n)[i].name # n
        BY <1>1, <3>1 DEF IsDefined, Matches
      <3>4. \A i \in 1..Len(Chain(n)) : buckets'[h][i] = Chain(n)[i]
        BY <3>1, <3>2
      <3>5. buckets'[h][Len(Chain(n)) + 1].name = n
        BY <3>1, <3>2
      <3>6. DOMAIN buckets'[h] = 1..Len(Chain(n)) + 1
        BY <3>1, <3>2
      <3>7. \A i \in 1..Len(Chain(n)) :
              /\ Hash[Chain(n)[i].name] = h
              /\ \A j \in 1..Len(Chain(n)) :
                   Chain(n)[j].name = Chain(n)[i].name => j = i
        BY <1>1, <3>1 DEF WellFormed
      <3>8. ASSUME NEW i \in 1..Len(Chain(n)) + 1
            PROVE  Hash[buckets'[h][i].name] = h
        BY <2>1, <3>4, <3>5, <3>7, <3>8
      <3>9. ASSUME NEW i \in 1..Len(Chain(n)) + 1, NEW j \in 1..Len(Chain(n)) + 1,
                   buckets'[h][j].name = buckets'[h][i].name
            PROVE  j = i
        BY <3>1, <3>3, <3>4, <3>5, <3>7, <3>9
      <3>10. k \in 1..Len(Chain(n)) + 1
        BY <3>6
      <3>11. ASSUME NEW j \in DOMAIN buckets'[h],
                    buckets'[h][j].name = buckets'[h][k].name
             PROVE  j = k
        BY <3>6, <3>9, <3>10, <3>11
      <3> QED BY <3>8, <3>10, <3>11
    <2>2. CASE h # Hash[n]
      <3>1. buckets'[h] = buckets[h]
        BY <2>2, <1>1, AddSymbolChains
      <3> QED BY <1>1, <3>1 DEF WellFormed
    <2> QED BY <2>1, <2>2
  <1> QED BY <1>3, <1>4 DEF Inv, WellFormed

\* Every call preserves the invariant.
LEMMA NextInv == Inv /\ [Next]_vars => Inv'
  <1> SUFFICES ASSUME Inv, [Next]_vars PROVE Inv'
    OBVIOUS
  <1>1. ASSUME NEW n \in Names, Find(n) PROVE Inv'
    <2>1. CASE IsDefined(n)
      <3>1. PICK k : k \in Matches(n)
        BY <2>1 DEF IsDefined
      <3>2. Chain(n)[FirstMatch(n)].loc \in Int
        BY <3>1, OnlyMatch, HashAssumption DEF Inv
      <3>3. answer' \in [tag : Answers, loc : Int]
        BY <1>1, <2>1, <3>2, AnswerType DEF Find, Answers
      <3> QED BY <1>1, <3>3 DEF Find, Inv, TypeOK, WellFormed
    <2>2. CASE ~IsDefined(n)
      <3>1. answer' \in [tag : Answers, loc : Int]
        BY <1>1, <2>2, AnswerType DEF Find, Answers
      <3> QED BY <1>1, <3>1 DEF Find, Inv, TypeOK, WellFormed
    <2> QED BY <2>1, <2>2
  <1>2. ASSUME NEW n \in Names, DuplicateLabel(n) PROVE Inv'
    <2>1. answer' \in [tag : Answers, loc : Int]
      BY <1>2, AnswerType DEF DuplicateLabel, Answers
    <2> QED BY <1>2, <2>1 DEF DuplicateLabel, Inv, TypeOK, WellFormed
  <1>3. ASSUME NEW n \in Names, AddSymbolAllocFail(n) PROVE Inv'
    <2>1. Answer("alloc_fail", 0) \in [tag : Answers, loc : Int]
      BY AnswerType DEF Answers
    <2>2. answer' \in [tag : Answers, loc : Int]
      BY <1>3, <2>1 DEF AddSymbolAllocFail, Inv, TypeOK
    <2> QED BY <1>3, <2>2 DEF AddSymbolAllocFail, Inv, TypeOK, WellFormed
  <1>4. ASSUME NEW n \in Names, NEW addr \in Addresses, DefineLabel(n, addr)
        PROVE  Inv'
    BY <1>4, DefineLabelInv
  <1>5. CASE EmptySymbolTable
    <2>1. answer' \in [tag : Answers, loc : Int]
      BY <1>5, AnswerType DEF EmptySymbolTable, Answers
    <2> QED BY <1>5, <2>1 DEF EmptySymbolTable, Inv, TypeOK, WellFormed, EmptyBuckets
  <1>6. CASE UNCHANGED vars
    BY <1>6 DEF vars, Inv, TypeOK, WellFormed
  <1> QED BY <1>1, <1>2, <1>3, <1>4, <1>5, <1>6 DEF Next

(* Chains of nodes stay chains of nodes, and answers answers, under all the  *)
(* calls of findSymbol, addSymbol and emptySymbolTable.                      *)
THEOREM TypeCorrect == Spec => []TypeOK
  <1>1. Inv => TypeOK
    BY DEF Inv
  <1> QED BY <1>1, InitInv, NextInv, PTL DEF Spec

(* A node is always where findSymbol looks for it, and no name has two.      *)
THEOREM ChainsWellFormed == Spec => []WellFormed
  <1>1. Inv => WellFormed
    BY DEF Inv
  <1> QED BY <1>1, InitInv, NextInv, PTL DEF Spec

-----------------------------------------------------------------------------
\* The map the table stands for.
View == [n \in {m \in Names : IsDefined(m)} |-> Chain(n)[FirstMatch(n)].loc]

\* What leaves the buckets alone leaves the map alone.
LEMMA SameView ==
  ASSUME buckets' = buckets PROVE View' = View /\ \A n \in Names : IsDefined(n)' = IsDefined(n)
  BY DEF View, IsDefined, Matches, FirstMatch, Chain

\* Adding a label defines it in the map and leaves the other labels alone.
LEMMA DefineView ==
  ASSUME Inv, NEW n \in Names, NEW addr \in Addresses, DefineLabel(n, addr)
  PROVE  View' = [m \in DOMAIN View \cup {n} |-> IF m = n THEN addr ELSE View[m]]
  <1>1. TypeOK /\ WellFormed /\ TypeOK' /\ WellFormed' /\ ~IsDefined(n)
        /\ AddSymbol(n, addr)
    BY DefineLabelInv DEF Inv, DefineLabel
  <1>2. \A m \in Names :
          /\ Matches(m)' = IF m = n THEN {Len(Chain(n)) + 1} ELSE Matches(m)
          /\ \A k \in Matches(m)' :
               Chain(m)'[k] = IF m = n THEN [name |-> n, loc |-> addr] ELSE Chain(m)[k]
    BY <1>1, AddSymbolMatches
  <1>3. \A m \in Names : IsDefined(m)' <=> m = n \/ IsDefined(m)
    BY <1>2 DEF IsDefined
  <1>4. Chain(n)'[FirstMatch(n)'].loc = addr
    <2>1. Len(Chain(n)) + 1 \in Matches(n)'
      BY <1>2
    <2>2. FirstMatch(n)' = Len(Chain(n)) + 1
      <3>1. Chain(n) \in Seq(Node)
        BY <1>1, ChainType
      <3> QED BY <1>2, <3>1 DEF FirstMatch, Min
    <2> QED BY <1>2, <2>1, <2>2
  <1>5. ASSUME NEW m \in Names, m # n, IsDefined(m)
        PROVE  Chain(m)'[FirstMatch(m)'] = Chain(m)[FirstMatch(m)]
    <2>1. Matches(m)' = Matches(m)
      BY <1>2, <1>5
    <2>2. FirstMatch(m)' = FirstMatch(m)
      BY <2>1 DEF FirstMatch
    <2>3. PICK k : k \in Matches(m)
      BY <1>5 DEF IsDefined
    <2>4. FirstMatch(m) \in Matches(m)
      BY <1>1, <2>3, OnlyMatch
    <2> QED BY <1>2, <1>5, <2>1, <2>2, <2>4
  <1>6. {m \in Names : IsDefined(m)}' = {m \in Names : IsDefined(m)} \cup {n}
    BY <1>3
  <1> QED BY <1>3, <1>4, <1>5, <1>6 DEF View

(* The buckets implement the map of SymMap: findSymbol answers what was      *)
(* added last under a name, whatever the hash function does.                 *)
THEOREM TableIsMap == Spec => ImplementsMap
  <1>1. Init => Map!Init
    <2> SUFFICES ASSUME Init PROVE Map!Init
      OBVIOUS
    <2>1. \A n \in Names : ~IsDefined(n)
      BY BucketOf DEF Init, IsDefined, Matches, Chain, EmptyBuckets
    <2> QED BY <2>1 DEF Init, Map!Init, Answer, Map!Answer
  <1>2. Inv /\ Inv' /\ [Next]_vars => [Map!Next]_Map!vars
    <2> SUFFICES ASSUME Inv, Inv', [Next]_vars PROVE [Map!Next]_Map!vars
      OBVIOUS
    <2>1. ASSUME NEW n \in Names, Find(n) PROVE Map!Find(n)
      <3>1. View' = View
        BY <2>1, SameView DEF Find
      <3> QED BY <2>1, <3>1 DEF Find, Map!Find, View, Answer, Map!Answer
    <2>2. ASSUME NEW n \in Names, DuplicateLabel(n) PROVE Map!Duplicate(n)
      <3>1. View' = View
        BY <2>2, SameView DEF DuplicateLabel
      <3> QED BY <2>2, <3>1 DEF DuplicateLabel, Map!Duplicate, View, Answer, Map!Answer
    <2>3. ASSUME NEW n \in Names, AddSymbolAllocFail(n)
          PROVE  Map!Refuse(n) \/ UNCHANGED Map!vars
      <3>1. View' = View
        BY <2>3, SameView DEF AddSymbolAllocFail
      <3> QED BY <2>3, <3>1 DEF AddSymbolAllocFail, Map!Refuse, Map!vars, View,
                                Answer, Map!Answer
    <2>4. ASSUME NEW n \in Names, NEW addr \in Addresses, DefineLabel(n, addr)
          PROVE  Map!Define(n, addr)
      BY <2>4, DefineView DEF DefineLabel, Map!Define, View, Answer, Map!Answer
    <2>5. ASSUME EmptySymbolTable PROVE Map!Empty
      <3>1. \A n \in Names : ~IsDefined(n)'
        BY <2>5, BucketOf DEF EmptySymbolTable, IsDefined, Matches, Chain, EmptyBuckets
      <3>2. {m \in Names : IsDefined(m)}' = {}
        BY <3>1
      <3> QED BY <2>5, <3>2 DEF EmptySymbolTable, Map!Empty, Answer, Map!Answer
    <2>6. CASE UNCHANGED vars
      <3>1. View' = View
        BY <2>6, SameView DEF vars
      <3> QED BY <2>6, <3>1 DEF vars, Map!vars, View
    <2> QED BY <2>1, <2>2, <2>3, <2>4, <2>5, <2>6 DEF Next, Map!Next
  <1> QED BY <1>1, <1>2, InitInv, NextInv, PTL DEF Spec, ImplementsMap, Map!Spec
=============================================================================
