--------------------------- MODULE ArticleParser ---------------------------
(***************************************************************************)
(* The words of articles: ArticleParser (zimwriter/src/articleparser.cpp)  *)
(* reads the bytes of an article and tells Zimindexer (zimindexer.cpp)     *)
(* about tags and words, which keeps the words, in what heading they are   *)
(* and where.                                                              *)
(*                                                                         *)
(* Letters stand for themselves in either case.  A text comes in tokens,   *)
(* each a few bytes: letters, entities, tags, or pieces of them.           *)
(***************************************************************************)
EXTENDS Integers, Sequences, SequencesExt

CONSTANTS
  Letter,        \* the bytes that std::isalnum accepts
  Follow,        \* for each first byte of UTF-8: how many bytes follow
  Trail,         \* the bytes that may follow
  Alphanumeric,  \* the characters of UTF-8 that zim::isalnum accepts
  Entity,        \* the table of parseEntityChar, by name
  Heading,       \* the weights of h1, h2, h3 and b
  TrivialWords,
  Aid,           \* the indexes of the articles indexed
  Token,         \* what titles and texts are made of
  MaxTokens      \* bound: the tokens of all articles

VARIABLES
  parser,        \* the ArticleParser: its members, and the calls it makes
  tag,           \* ArticleParseEventEx: the heading that is open
  inTitle, aid,
  streams,       \* all that is in MStream, in the order it came
  stage,         \* "idle", "title", "text"
  tagged,        \* history: a heading was open before the article
  cut,           \* history: its title ended inside of a character of a word
  title, text,   \* history: the tokens of the article
  count          \* how many tokens there have been

vars == <<parser, tag, inTitle, aid, streams, stage, tagged, cut, title, text, count>>

NewParser ==
  [state |-> "0", word |-> <<>>, entity |-> <<>>, pos |-> 0,
   utf8char |-> <<>>, utf8counter |-> 0, events |-> <<>>]

Init ==
  /\ parser = NewParser
  /\ tag = <<>> /\ inTitle = FALSE /\ aid = -1 /\ streams = <<>>
  /\ stage = "idle"
  /\ tagged = FALSE /\ cut = FALSE /\ title = <<>> /\ text = <<>> /\ count = 0

-----------------------------------------------------------------------------
(* parse(ch), by the state of the parser p. *)

In(p, state) == [p EXCEPT !.state = state]

(* A call of onTag, onEndtag or onWord. *)
Tell(p, on, pos) ==
  [p EXCEPT !.events = Append(@, [on |-> on, text |-> p.word, pos |-> pos])]

BugAtEnd(p, size) == p.pos

(* Where a word of this many bytes began. *)
Began(p, size) == p.pos - size

OnWord(p, size) == Tell(p, "word", Began(p, size))

Lead(p, ch) == [p EXCEPT !.utf8char = <<ch>>, !.utf8counter = Follow[ch]]

Outside(p, ch) ==
  CASE ch = "<" -> In(p, "tag0")
    [] ch = "&" -> In(p, "ent")
    [] ch \in DOMAIN Follow -> [In(Lead(p, ch), "utf8") EXCEPT !.word = <<>>]
    [] ch \in Letter -> [In(p, "word") EXCEPT !.word = <<ch>>]
    [] OTHER -> p

InTag0(p, ch) ==
  CASE ch = "/" -> [In(p, "endtag") EXCEPT !.word = <<>>]
    [] ch \in Letter -> [In(p, "tag") EXCEPT !.word = <<ch>>]
    [] OTHER -> p

InTag(p, ch) ==
  IF ch \in Letter THEN [p EXCEPT !.word = Append(@, ch)]
  ELSE In(Tell(p, p.state, p.pos), IF ch = ">" THEN "0" ELSE "tagskip")

InWord(p, ch) ==
  CASE ch = "&" -> In(p, "wordent")
    [] ch \in DOMAIN Follow -> In(Lead(p, ch), "wordutf8")
    [] ch \in Letter -> [p EXCEPT !.word = Append(@, ch)]
    [] OTHER -> In(OnWord(p, Len(p.word)), IF ch = "<" THEN "tag0" ELSE "0")

(* The word before a character that is not part of it, if there is one. *)
Leave(p, size) == In(IF p.state = "wordutf8" THEN OnWord(p, size) ELSE p, "0")

InUtf8(p, ch) ==
  LET char == Append(p.utf8char, ch)
      q == [p EXCEPT !.utf8char = char, !.utf8counter = @ - 1]
  IN CASE ch \notin Trail -> Leave(p, Len(p.word) + Len(p.utf8char))
       [] ch \in Trail /\ p.utf8counter > 1 -> q
       [] ch \in Trail /\ p.utf8counter = 1 ->
            IF char \in Alphanumeric
            THEN [In(q, "word") EXCEPT !.word = @ \o char]
            ELSE Leave(q, Len(p.word) + Len(char) - 1)

Byte(p, ch) ==
  LET q == CASE p.state = "0" -> Outside(p, ch)
             [] p.state = "tag0" -> InTag0(p, ch)
             [] p.state \in {"tag", "endtag"} -> InTag(p, ch)
             [] p.state = "tagskip" -> IF ch = ">" THEN In(p, "0") ELSE p
             [] p.state \in {"ent", "wordent"} -> [p EXCEPT !.entity = Append(@, ch)]
             [] p.state = "word" -> InWord(p, ch)
             [] p.state \in {"utf8", "wordutf8"} -> InUtf8(p, ch)
  IN [q EXCEPT !.pos = @ + 1]

(* parseEntityChar parses what the entity stands for; that is never the    *)
(* end of another one.                                                     *)
Expansion(entity) == IF entity \in DOMAIN Entity THEN Entity[entity] ELSE <<" ">>

BugNotCleared(p) == p
Cleared(p) == [p EXCEPT !.entity = <<>>]

EndEntity(p) ==
  LET q == In(p, IF p.state = "ent" THEN "0" ELSE "word")
  IN [Cleared(FoldLeft(Byte, q, Expansion(p.entity))) EXCEPT !.pos = @ + 1]

Parse(p, ch) ==
  IF ch = ";" /\ p.state \in {"ent", "wordent"} THEN EndEntity(p) ELSE Byte(p, ch)

(* endparse *)
Ended(p) ==
  CASE p.state \in {"word", "wordent"} -> In(OnWord(p, Len(p.word)), "0")
    [] p.state = "wordutf8" -> OnWord(p, Len(p.word))
    [] OTHER -> p

-----------------------------------------------------------------------------
(* The Zimindexer. *)

Weight(heading) ==
  IF heading # <<>> THEN Heading[heading] ELSE IF inTitle THEN 0 ELSE 3

Hear(z, e) ==
  CASE e.on = "tag" /\ e.text \in DOMAIN Heading -> [z EXCEPT !.tag = e.text]
    [] e.on = "endtag" /\ e.text \in DOMAIN Heading -> [z EXCEPT !.tag = <<>>]
    [] e.on = "word" /\ e.text \notin TrivialWords ->
         [z EXCEPT !.new = Append(@, [word |-> e.text, aid |-> aid, pos |-> e.pos,
                                      weight |-> Weight(z.tag)])]
    [] OTHER -> z

(* The parser has become p, and the indexer has heard of it. *)
Told(p) ==
  LET z == FoldLeft(Hear, [tag |-> tag, new |-> <<>>], p.events)
  IN /\ parser' = [p EXCEPT !.events = <<>>]
     /\ tag' = z.tag
     /\ streams' = streams \o z.new

(* process: a new parser for the next article that is indexed. *)
Process ==
  /\ stage = "idle"
  /\ \E a \in Aid : a > aid /\ aid' = a
  /\ parser' = NewParser /\ inTitle' = TRUE
  /\ stage' = "title"
  /\ tagged' = (tag # <<>>) /\ cut' = FALSE /\ title' = <<>> /\ text' = <<>>
  /\ UNCHANGED <<tag, streams, count>>

ParseToken ==
  /\ stage \in {"title", "text"}
  /\ count < MaxTokens
  /\ \E t \in Token :
       /\ Told(FoldLeft(Parse, parser, t.bytes))
       /\ IF stage = "title" THEN title' = Append(title, t) /\ UNCHANGED text
          ELSE text' = Append(text, t) /\ UNCHANGED title
  /\ count' = count + 1
  /\ UNCHANGED <<inTitle, aid, stage, tagged, cut>>

EndTitle ==
  /\ stage = "title"
  /\ Told(Ended(parser))
  /\ inTitle' = FALSE
  /\ stage' = "text"
  /\ cut' = (parser.state = "wordutf8")
  /\ UNCHANGED <<aid, tagged, title, text, count>>

EndText ==
  /\ stage = "text"
  /\ Told(Ended(parser))
  /\ stage' = "idle"
  /\ UNCHANGED <<inTitle, aid, tagged, cut, title, text, count>>

Next == Process \/ ParseToken \/ EndTitle \/ EndText

Spec == Init /\ [][Next]_vars

-----------------------------------------------------------------------------
(* What the words of an article are, by its tokens.  A token is a "letter" *)
(* that a word has in it, as the bytes "as" or as an entity; "shy", a      *)
(* hyphen that words are spelled without; a heading tag with the name      *)
(* "as", "open" or "close"; a "break" that is none of these; or "odd", the *)
(* piece of an entity, of a tag or of a character, or the entity of "&".   *)

Whole == title \o text

(* Both tokens are in the title, or both are in the text. *)
SamePart(i, j) == i =< Len(title) <=> j =< Len(title)

(* Nothing between i and j ends a word. *)
Joined(i, j) ==
  SamePart(i, j) /\ \A k \in i .. j : Whole[k].is \in {"letter", "shy"}

FirstOfWord(i) ==
  /\ Whole[i].is = "letter"
  /\ ~\E k \in 1 .. i - 1 : Whole[k].is = "letter" /\ Joined(k, i)

Spelled(i) ==
  LET own == {j \in i .. Len(Whole) : Whole[j].is = "letter" /\ Joined(i, j)}
  IN FlattenSeq([j \in 1 .. Len(Whole) |-> IF j \in own THEN Whole[j].as ELSE <<>>])

(* The heading that is open at i, if none was before the article. *)
HeadingAt(i) ==
  LET tags == {k \in 1 .. i - 1 : Whole[k].is \in {"open", "close"}}
      lastTag == CHOOSE k \in tags : \A j \in tags : j =< k
  IN IF tags = {} \/ Whole[lastTag].is = "close" THEN <<>> ELSE Whole[lastTag].as

ExpectedWeight(i) ==
  IF HeadingAt(i) # <<>> THEN Heading[HeadingAt(i)]
  ELSE IF i =< Len(title) THEN 0 ELSE 3

Bytes(i) == Whole[i].bytes

(* How many bytes there are before the token. *)
OffsetOf(i) == Len(FlattenSeq([k \in 1 .. i - 1 |-> Bytes(k)]))

Expected ==
  LET firsts == SelectSeq([i \in 1 .. Len(Whole) |-> i], FirstOfWord)
      all == [n \in 1 .. Len(firsts) |->
                [word |-> Spelled(firsts[n]), pos |-> OffsetOf(firsts[n]),
                 weight |-> ExpectedWeight(firsts[n])]]
  IN SelectSeq(all, LAMBDA w : w.word \notin TrivialWords)

Found == SelectSeq(streams, LAMBDA e : e.aid = aid)

Tokens == {Whole[i] : i \in DOMAIN Whole}

TypeOK ==
  /\ parser.state \in {"0", "tag0", "tag", "endtag", "tagskip", "ent",
                        "word", "wordent", "utf8", "wordutf8"}
  /\ parser.state \in {"word", "wordent", "wordutf8", "tag", "utf8"} =>
       (parser.word = <<>> <=> parser.state = "utf8")
  /\ parser.state \in {"utf8", "wordutf8"} =>
       parser.utf8counter + Len(parser.utf8char) = Follow[parser.utf8char[1]] + 1
  /\ parser.utf8counter >= 0 /\ parser.events = <<>>
  /\ tag = <<>> \/ tag \in DOMAIN Heading
  /\ \A i \in DOMAIN streams :
       /\ streams[i].aid \in Aid /\ streams[i].pos >= 0
       /\ streams[i].weight \in 0 .. 3

(* An article yields its words, with the weight of the heading each is in, *)
(* and, if it has no entities, the place of each.  That holds unless it    *)
(* has odd tokens or the article before has left a heading open.           *)
WordsRight ==
  stage = "idle" /\ aid >= 0 /\ ~tagged /\ (\A t \in Tokens : t.is # "odd") =>
    /\ Len(Found) = Len(Expected)
    /\ \A i \in DOMAIN Found :
         /\ Found[i].word = Expected[i].word
         /\ Found[i].weight = Expected[i].weight
         /\ (\A t \in Tokens : t.bytes[1] # "&") => Found[i].pos = Expected[i].pos

(* Words do not overlap: each begins behind the one before it, through     *)
(* entities and broken characters, whatever is in the text and wherever    *)
(* the title ends but inside of a character of a word: that word is told   *)
(* again, and further to the front, when the text goes on.                 *)
PositionsGrow ==
  ~cut => \A i, j \in DOMAIN streams :
            i < j /\ streams[i].aid = aid /\ streams[j].aid = aid =>
              streams[i].pos + Len(streams[i].word) =< streams[j].pos
=============================================================================
