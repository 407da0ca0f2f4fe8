------------------------------ MODULE Indexing ------------------------------
(***************************************************************************)
(* From the bytes of articles to the occurrences a search gets: Zimindexer *)
(* parses the articles (ArticleParser), and IndexData packs what it found  *)
(* of a word, and unpacks it.  The word is one of those articles, or one   *)
(* that occurs in any others.                                              *)
(***************************************************************************)
EXTENDS IndexData

CONSTANTS
  Parsed,     \* the indexes of the articles that are parsed here
  Letter, Follow, Trail, Alphanumeric, Entity, Heading, TrivialWords,
  Token, MaxTokens     \* as in ArticleParser

VARIABLES
  parser, tag, inTitle, aid, streams, stage, tagged, cut, title, text, count

P == INSTANCE ArticleParser WITH Aid <- Parsed

ASSUME ParsedAssumption == Parsed \subseteq Aid

(* A byte is a letter, a first byte of UTF-8, which has others behind it,  *)
(* or neither, as those of tags and entities; a weight is that of a        *)
(* category; articles and entities are made of bytes.                      *)
ASSUME BytesAssumption ==
  /\ Letter \cap DOMAIN Follow = {}
  /\ {"<", "&", "/"} \cap (Letter \cup DOMAIN Follow) = {}
  /\ \A ch \in DOMAIN Follow : Follow[ch] \in Nat \ {0}
  /\ \A h \in DOMAIN Heading : Heading[h] \in 0 .. 3
  /\ \A t \in Token : t.bytes \in Seq(Range(t.bytes))
  /\ \A e \in DOMAIN Entity : Entity[e] \in Seq(Range(Entity[e]))

articleVars == <<parser, tag, inTitle, aid, streams, stage, tagged, cut, title, text, count>>

indexingVars == <<vars, articleVars>>

IndexingInit == Init /\ P!Init

(* Indexer::createIndex parses all articles before it fetches a word. *)
ParseArticles ==
  /\ pc = "index" /\ wordentries = <<>>
  /\ P!Next
  /\ UNCHANGED vars

OtherArticles ==
  /\ aid = -1
  /\ InsertWord
  /\ UNCHANGED articleVars

(* What MStream has of the word: a Wordentry keeps a position in a word of *)
(* the machine.                                                            *)
StreamOf(word) ==
  FoldLeft(LAMBDA own, e :
             IF e.word = word
             THEN Append(own, [aid |-> e.aid, pos |-> e.pos % 2 ^ Word, weight |-> e.weight])
             ELSE own,
           <<>>, streams)

TakeWord ==
  /\ pc = "index" /\ wordentries = <<>>
  /\ stage = "idle"
  /\ \E i \in DOMAIN streams :
       /\ wordentries' = StreamOf(streams[i].word)
       /\ Len(wordentries') =< MaxEntries
  /\ UNCHANGED <<parameter, zdata, flags, read, dumped, cat, offset, pc, articleVars>>

Unpack ==
  /\ FetchData \/ ReadCategory \/ SkipCategory
  /\ UNCHANGED articleVars

IndexingNext == ParseArticles \/ OtherArticles \/ TakeWord \/ Unpack

IndexingSpec == IndexingInit /\ [][IndexingNext]_indexingVars

WordsRight == P!WordsRight
PositionsGrow == P!PositionsGrow

(* The members of the parser are what its states rely on, whatever broken  *)
(* pieces an article has, so that a word never begins before the one that  *)
(* came before it.                                                         *)
ParserSound == P!TypeOK /\ PositionsGrow

(* What was packed is read: the lengths, the articles and the positions.   *)
ReadersRight == TypeOK /\ ArticlesRight /\ DumpRight
=============================================================================
