----------------------------- MODULE IndexData -----------------------------
(***************************************************************************)
(* The index data of a word: Indexer (zimwriter/src/indexersource.cpp)     *)
(* collects where the word occurs and packs it, IndexArticle               *)
(* (zimlib/src/indexarticle.cpp) unpacks it for the search, and zimDump    *)
(* prints it.                                                              *)
(*                                                                         *)
(* The entries of a category (title, headings, text) make a block of their *)
(* own.  The first entry is in the parameter of the article; the others    *)
(* are in the block, as differences to the article before and, within an   *)
(* article, to the position before.                                        *)
(***************************************************************************)
EXTENDS Integers, Sequences, SequencesExt

CONSTANTS
  Width, Word,    \* as in ZInt
  Aid,            \* the indexes of articles
  Pos,            \* the positions of words in them
  Category,       \* the weights in use, of 0 .. 3
  MaxEntries      \* bound: how often the word occurs

ZInt == INSTANCE ZInt

(* The first byte of every number has a zero among its leading bits.       *)
ASSUME WidthAssumption ==
  /\ Width \in Nat \ {0, 1} /\ Word \in Nat
  /\ Word =< (Width - 1) * (Width - 1)

ASSUME IndexAssumption ==
  /\ Aid \subseteq ZInt!Number /\ Pos \subseteq ZInt!Number
  /\ Category \subseteq 0 .. 3 /\ MaxEntries \in Nat

(* Two numbers of an occurrence take Width - 1 bytes each at most: the     *)
(* data of a word has a length that is a number as well.                   *)
ASSUME LengthAssumption == 2 * (Width - 1) * MaxEntries < 2 ^ Word

VARIABLES
  wordentries,    \* the stream of the word in MStream
  parameter,      \* of the index article, without the flags: numbers
  zdata,          \* its data: bytes
  flags,          \* the categories that the word occurs in
  read,           \* IndexArticle::entries, by category
  dumped,         \* what zimDump prints, by category
  cat, offset,    \* the category read next, and where its block begins
  pc

vars == <<wordentries, parameter, zdata, flags, read, dumped, cat, offset, pc>>

Minus(a, b) == (a - b) % 2 ^ Word
Plus(a, b) == (a + b) % 2 ^ Word

NoEntries == [c \in 0 .. 3 |-> <<>>]

Init ==
  /\ wordentries = <<>>
  /\ parameter = <<>> /\ zdata = <<>> /\ flags = {}
  /\ read = NoEntries /\ dumped = NoEntries
  /\ cat = 0 /\ offset = 0
  /\ pc = "index"

-----------------------------------------------------------------------------
(* Zimindexer::insertWord.  Articles come in the order of their indexes.   *)
(* Positions grow within one, but may go back: a title that ends inside of *)
(* a UTF-8 character has its last word inserted again, further to the      *)
(* front, when the text begins.                                            *)
InsertWord ==
  /\ pc = "index"
  /\ Len(wordentries) < MaxEntries
  /\ \E aid \in Aid, pos \in Pos, weight \in Category :
       /\ wordentries # <<>> => aid >= wordentries[Len(wordentries)].aid
       /\ wordentries' = Append(wordentries, [aid |-> aid, pos |-> pos, weight |-> weight])
  /\ UNCHANGED <<parameter, zdata, flags, read, dumped, cat, offset, pc>>

Entry(index, pos) == [aid |-> index, pos |-> pos]

(* currentData *)
CurrentData(c) ==
  FoldLeft(LAMBDA own, w : IF w.weight = c THEN Append(own, Entry(w.aid, w.pos)) ELSE own,
           <<>>, wordentries)

BugFromFirst(entries, i) == entries[i - 1].aid

(* lastidx and lastpos before the i-th entry; the first one does not set   *)
(* them.                                                                   *)
LastIdx(entries, i) == IF i = 2 THEN 0 ELSE entries[i - 1].aid
LastPos(entries, i) == IF i = 2 THEN 0 ELSE entries[i - 1].pos

PutPos(entries, i) ==
  IF entries[i].aid = LastIdx(entries, i)
  THEN Minus(entries[i].pos, LastPos(entries, i))
  ELSE entries[i].pos

Packed(entries, i) == <<Minus(entries[i].aid, LastIdx(entries, i)), PutPos(entries, i)>>

Block(c) ==
  LET entries == CurrentData(c)
  IN ZInt!PutAll[FlattenSeq([i \in 1 .. Len(entries) - 1 |-> Packed(entries, i + 1)])]

FirstEntry(c) ==
  LET entries == CurrentData(c)
  IN IF entries = <<>> THEN <<>>
     ELSE <<Len(Block(c)), entries[1].aid, entries[1].pos>>

(* Indexer::fetchData; the numbers of the parameter are packed and         *)
(* unpacked as well.                                                       *)
FetchData ==
  /\ pc = "index"
  /\ wordentries # <<>>
  /\ flags' = {c \in 0 .. 3 : CurrentData(c) # <<>>}
  /\ LET numbers == FirstEntry(0) \o FirstEntry(1) \o FirstEntry(2) \o FirstEntry(3)
     IN parameter' = ZInt!GetAll[ZInt!PutAll[numbers]]
  /\ zdata' = Block(0) \o Block(1) \o Block(2) \o Block(3)
  /\ pc' = "read"
  /\ UNCHANGED <<wordentries, read, dumped, cat, offset>>

-----------------------------------------------------------------------------
(* Both readers take a category after the other from parameter and data.   *)

First == Entry(parameter[2], parameter[3])

(* The pairs of numbers in the block; an end between the two of a pair     *)
(* would be an "invalid index entry" to IndexArticle.                      *)
Pairs ==
  LET numbers == ZInt!GetAll[SubSeq(zdata, offset + 1, offset + parameter[1])]
  IN [i \in 1 .. Len(numbers) \div 2 |-> <<numbers[2 * i - 1], numbers[2 * i]>>]

(* IndexArticle::readEntriesZ adds up the indexes; the sum of positions    *)
(* that it forms is not what it stores.                                    *)
AddEntry(entries, pair) ==
  LET before == IF Len(entries) = 1 THEN 0 ELSE Last(entries).aid
  IN Append(entries, Entry(Plus(before, pair[1]), pair[2]))

(* ZimDumper::dumpIndex *)
AddDumped(entries, pair) ==
  LET before == IF Len(entries) = 1 THEN Entry(0, 0) ELSE Last(entries)
  IN Append(entries, IF pair[1] = 0
                     THEN Entry(before.aid, Plus(before.pos, pair[2]))
                     ELSE Entry(Plus(before.aid, pair[1]), pair[2]))

NextBlock(len) == offset + len

ReadCategory ==
  /\ pc = "read"
  /\ cat \in flags
  /\ read' = [read EXCEPT ![cat] = FoldLeft(AddEntry, <<First>>, Pairs)]
  /\ dumped' = [dumped EXCEPT ![cat] = FoldLeft(AddDumped, <<First>>, Pairs)]
  /\ offset' = NextBlock(parameter[1])
  /\ parameter' = SubSeq(parameter, 4, Len(parameter))
  /\ cat' = cat + 1
  /\ UNCHANGED <<wordentries, zdata, flags, pc>>

SkipCategory ==
  /\ pc = "read"
  /\ cat =< 3 /\ cat \notin flags
  /\ cat' = cat + 1
  /\ UNCHANGED <<wordentries, parameter, zdata, flags, read, dumped, offset, pc>>

Next == InsertWord \/ FetchData \/ ReadCategory \/ SkipCategory

Spec == Init /\ [][Next]_vars

-----------------------------------------------------------------------------
(* The categories that have been read. *)
Done == {c \in 0 .. 3 : pc = "read" /\ c < cat}

(* The readers use up the parameter and the data: each length is that of   *)
(* its block, and each block ends where the next begins.                   *)
TypeOK ==
  /\ wordentries \in Seq([aid : Aid, pos : ZInt!Number, weight : 0 .. 3])
  /\ offset \in 0 .. Len(zdata)
  /\ cat \in 0 .. 4 /\ pc \in {"index", "read"}
  /\ cat = 4 => parameter = <<>> /\ offset = Len(zdata)

(* A search finds the word in the right articles, as often as it is there, *)
(* in each category.                                                       *)
ArticlesRight ==
  \A c \in Done :
    /\ Len(read[c]) = Len(CurrentData(c))
    /\ \A i \in DOMAIN read[c] : read[c][i].aid = CurrentData(c)[i].aid

(* zimDump prints what the indexer found, positions included, also those   *)
(* that go back within an article.                                         *)
DumpRight == \A c \in Done : dumped[c] = CurrentData(c)

(* The positions that the search ranks by are those of the words.          *)
(* Violated: within an article readEntriesZ stores the difference.         *)
PositionsRight == \A c \in Done : read[c] = CurrentData(c)
=============================================================================
