---------------------------- MODULE OpcodeTable ----------------------------
(* The opcode table of opcode.c: read from a file once into the chains of a  *)
(* hash table, then only searched.  The file is what fscanf sees, words in   *)
(* lines: an entry is a hexadecimal number, a mnemonic and a decimal format, *)
(* looked for across line ends, and what is left of the format's line is     *)
(* thrown away.  Reading stops without a word at the first line where no     *)
(* entry is found.                                                           *)
EXTENDS Integers, Sequences, SequencesExt

CONSTANTS
  OpcodeFiles,         \* what the file may hold: the words of its lines
  OPCODE_TABLE_SIZE,   \* 20
  MNEMONIC_MAXLEN,     \* characters mnemonic[] has room for (6)
  BYTE_VALUES,         \* 256
  OpcodeHash           \* mnemonic -> hash_adler32 reduced to the size

(* A word of the file: hex is the number %x reads at its beginning and rest  *)
(* what it leaves for %s, nothing if the word is all hexadecimal; dec is     *)
(* the number %d reads.  They are -1 when there is no digit.                 *)
FileWord ==
  [line : Nat, text : DOMAIN OpcodeHash, hex : Nat \cup {-1},
   rest : DOMAIN OpcodeHash \cup {<<>>}, dec : Nat \cup {-1}]

ASSUME OpcodeAssumption ==
  /\ OPCODE_TABLE_SIZE \in Nat \ {0} /\ BYTE_VALUES \in Nat \ {0}
  /\ MNEMONIC_MAXLEN \in Nat
  /\ \A file \in OpcodeFiles :
       /\ file \in Seq(FileWord)
       /\ \A p, q \in DOMAIN file : p <= q => file[p].line <= file[q].line
  /\ \A mn \in DOMAIN OpcodeHash : OpcodeHash[mn] \in 0..OPCODE_TABLE_SIZE-1

VARIABLES
  opcodeFile,          \* what it holds
  opcodeTable,         \* bucket -> chain of OpcodeDef
  opcodeNext           \* the word of the file read next

opcodeVars == <<opcodeFile, opcodeTable, opcodeNext>>

OpcodeInit ==
  /\ opcodeFile \in OpcodeFiles
  /\ opcodeTable = [h \in 0..OPCODE_TABLE_SIZE-1 |-> <<>>]
  /\ opcodeNext = 1

-----------------------------------------------------------------------------
\* What fscanf finds from word p on: the mnemonic may be the rest of the
\* number's word, and the format may be words of a later line.
MnemonicAt(p) == IF opcodeFile[p].rest = <<>> THEN p + 1 ELSE p
Mnemonic(p) ==
  IF opcodeFile[p].rest = <<>> THEN opcodeFile[p + 1].text ELSE opcodeFile[p].rest
FormatAt(p) == MnemonicAt(p) + 1

HasMnemonic(p) ==
  p <= Len(opcodeFile) /\ opcodeFile[p].hex >= 0 /\ MnemonicAt(p) <= Len(opcodeFile)
HasFormat(p) == FormatAt(p) <= Len(opcodeFile) /\ opcodeFile[FormatAt(p)].dec >= 0

\* %s has no width: a longer mnemonic is written beyond its array.
MnemonicFits(p) == Len(Mnemonic(p)) <= MNEMONIC_MAXLEN
IsEntry(p) == HasMnemonic(p) /\ MnemonicFits(p) /\ HasFormat(p)

\* The first word of the line behind that of word p.
NextLine(p) ==
  Min({q \in p+1..Len(opcodeFile) : opcodeFile[q].line > opcodeFile[p].line}
      \cup {Len(opcodeFile) + 1})

Format(number) ==
  CASE number = 1 -> "FORMAT1" [] number = 2 -> "FORMAT2" [] OTHER -> "FORMAT34"

\* The number is cast to a byte.
OpcodeDef(p) ==
  [mn |-> Mnemonic(p), hex |-> opcodeFile[p].hex % BYTE_VALUES,
   fm |-> Format(opcodeFile[FormatAt(p)].dec)]

Readable == IsEntry(opcodeNext)
Overruns == HasMnemonic(opcodeNext) /\ ~MnemonicFits(opcodeNext)

\* Mutation of Chained: the new node becomes the root of its chain.
ChainedFirst(chain, node) == <<node>> \o chain

\* The new node becomes the last of its chain.
Chained(chain, node) == Append(chain, node)

ReadOpcode ==
  /\ Readable
  /\ opcodeTable' = [opcodeTable EXCEPT ![OpcodeHash[Mnemonic(opcodeNext)]] =
                       Chained(@, OpcodeDef(opcodeNext))]
  /\ opcodeNext' = NextLine(FormatAt(opcodeNext))
  /\ UNCHANGED opcodeFile

\* findOpcode walks the chain of the mnemonic and stops at the first match.
Matching(mn) ==
  IF mn \in DOMAIN OpcodeHash
  THEN LET chain == opcodeTable[OpcodeHash[mn]] IN {k \in DOMAIN chain : chain[k].mn = mn}
  ELSE {}
IsOpcode(mn) == Matching(mn) # {}
findOpcode(mn) == opcodeTable[OpcodeHash[mn]][Min(Matching(mn))]

-----------------------------------------------------------------------------
OpcodeTypeOK ==
  /\ opcodeFile \in OpcodeFiles
  /\ opcodeNext \in 1..Len(opcodeFile)+1
  /\ \A h \in 0..OPCODE_TABLE_SIZE-1 : \A k \in DOMAIN opcodeTable[h] :
       /\ opcodeTable[h][k].hex \in 0..BYTE_VALUES-1
       /\ opcodeTable[h][k].fm \in {"FORMAT1", "FORMAT2", "FORMAT34"}

\* Lines, by their first words, and those that are an entry by themselves.
LineStarts ==
  {p \in DOMAIN opcodeFile : p > 1 => opcodeFile[p - 1].line < opcodeFile[p].line}
IsWhole(p) == IsEntry(p) /\ opcodeFile[FormatAt(p)].line = opcodeFile[p].line

(* A mnemonic has the opcode and the format of the first line that defines   *)
(* it, being whole itself and not behind a line that is not: whatever names  *)
(* share its chain and whatever is read later, the entries too that are      *)
(* pieced together from two lines.  Without such a piecing together, a       *)
(* mnemonic no line defines is unknown.                                      *)
FirstDefinitionCounts ==
  LET read == {p \in LineStarts : \A q \in LineStarts : q <= p => IsWhole(q)} IN
  ~Readable => \A mn \in DOMAIN OpcodeHash :
    LET defining == {p \in read : Mnemonic(p) = mn} IN
    IF defining = {}
    THEN IsOpcode(mn) => \E p \in LineStarts : IsEntry(p) /\ ~IsWhole(p)
    ELSE IsOpcode(mn) /\ findOpcode(mn) = OpcodeDef(Min(defining))
=============================================================================
