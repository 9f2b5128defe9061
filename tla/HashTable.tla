------------------------------ MODULE HashTable ------------------------------
(* The symbol table of symtab.c on the hash table of util.c: an array of     *)
(* buckets, each a chain of nodes that grows at its end.  Its client is the  *)
(* label handling of assemble_pass1, which looks a label up before it adds   *)
(* it; the shell keeps one table for all its assemblies.                     *)
EXTENDS Integers, Sequences, FiniteSetsExt

CONSTANTS
  Names, Addresses,
  NumBuckets,    \* size of the table (20)
  Hash,          \* hash_adler32 reduced to the size of the table
  AllocMayFail

ASSUME HashAssumption ==
  /\ NumBuckets \in Nat \ {0}
  /\ Hash \in [Names -> 0..NumBuckets-1]
  /\ Addresses \subseteq Int
  /\ AllocMayFail \in BOOLEAN

VARIABLES
  buckets,   \* bucket -> chain of nodes, first node first
  answer,    \* what the last call returned
  running    \* FALSE once the program has dereferenced a null pointer

vars == <<buckets, answer, running>>

Node == [name : Names, loc : Addresses]
Answer(tag, addr) == [tag |-> tag, loc |-> addr]
Answers == {"none", "found", "null", "added", "duplicate", "alloc_fail"}
\* Mutation of EmptyBuckets: off by one.
EmptyBucketsOneMore == [h \in 0..NumBuckets |-> <<>>]

EmptyBuckets == [h \in 0..NumBuckets-1 |-> <<>>]

Init == buckets = EmptyBuckets /\ answer = Answer("none", 0) /\ running = TRUE

-----------------------------------------------------------------------------
Chain(n) == buckets[Hash[n]]
Matches(n) == {k \in DOMAIN Chain(n) : Chain(n)[k].name = n}

\* findSymbol walks the chain and stops at the first node with the name.
FirstMatch(n) == Min(Matches(n))
\* Mutation of IsDefined: only the first node of the chain is compared.
IsDefinedFirst(n) == Chain(n) # <<>> /\ Chain(n)[1].name = n

IsDefined(n) == Matches(n) # {}

Find(n) ==
  /\ answer' = IF IsDefined(n) THEN Answer("found", Chain(n)[FirstMatch(n)].loc)
               ELSE Answer("null", 0)
  /\ UNCHANGED <<buckets, running>>

\* addSymbol makes the new node the last of its chain.
AddSymbol(n, addr) ==
  buckets' = [buckets EXCEPT ![Hash[n]] = Append(@, [name |-> n, loc |-> addr])]

DefineLabel(n, addr) ==
  /\ ~IsDefined(n)
  /\ AddSymbol(n, addr)
  /\ answer' = Answer("added", 0)
  /\ UNCHANGED running

DuplicateLabel(n) ==
  /\ IsDefined(n)
  /\ answer' = Answer("duplicate", 0)
  /\ UNCHANGED <<buckets, running>>

\* Without a node or a key addSymbol returns NULL; without memory for the name
\* alone it goes on to write to it.
AddSymbolAllocFail(n) ==
  /\ AllocMayFail /\ ~IsDefined(n)
  /\ \/ answer' = Answer("alloc_fail", 0) /\ UNCHANGED <<buckets, running>>
     \/ running' = FALSE /\ UNCHANGED <<buckets, answer>>

EmptySymbolTable ==
  /\ buckets' = EmptyBuckets
  /\ answer' = Answer("none", 0)
  /\ UNCHANGED running

Next ==
  /\ running
  /\ \/ \E n \in Names : Find(n) \/ DuplicateLabel(n) \/ AddSymbolAllocFail(n)
     \/ \E n \in Names, addr \in Addresses : DefineLabel(n, addr)
     \/ EmptySymbolTable

Spec == Init /\ [][Next]_vars

-----------------------------------------------------------------------------
\* The buckets hold chains of nodes.
TypeOK ==
  /\ buckets \in [0..NumBuckets-1 -> Seq(Node)]
  /\ answer \in [tag : Answers, loc : Int]
  /\ running \in BOOLEAN

(* Every node lies in the bucket of its name, where findSymbol looks for it, *)
(* and no chain holds a name twice, so that the first match is the only one. *)
WellFormed ==
  \A h \in 0..NumBuckets-1 : \A k \in DOMAIN buckets[h] :
    /\ Hash[buckets[h][k].name] = h
    /\ \A j \in DOMAIN buckets[h] : buckets[h][j].name = buckets[h][k].name => j = k

(* The table is the map that SymMap describes, whatever the hash function.   *)
Map == INSTANCE SymMap WITH
         table <- [n \in {m \in Names : IsDefined(m)} |-> Chain(n)[FirstMatch(n)].loc]
ImplementsMap == Map!Spec
=============================================================================
