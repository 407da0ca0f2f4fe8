------------------------------- MODULE Search -------------------------------
(***************************************************************************)
(* Full text search: Search::search and find (zimlib/src/search.cpp), and  *)
(* the SearchSource (zimwriter/src/search.cpp) that hands the articles     *)
(* found, and the redirects to them, to a ZimCreator.                      *)
(*                                                                         *)
(* An article is its index in url order, from 0.  Titles and words are     *)
(* sequences of letters in the order of their numbers.  A token of the     *)
(* search is a step, and so is an article that is handed out.  Priorities  *)
(* are real numbers and stay out: results are sorted in any order.         *)
(***************************************************************************)
EXTENDS Integers, Sequences, SequencesExt, FiniteSetsExt

CONSTANTS
  File,          \* the files there may be, each with its index
  Expr,          \* the expressions searched for
  Prefix,        \* what find is asked for
  A,             \* the namespace of articles
  SearchLimit,
  Width          \* bits of an unsigned

ASSUME SearchAssumption == A \in Int /\ SearchLimit \in Nat /\ Width \in Nat \ {0}

VARIABLES
  file,          \* its entries, their order by title, and its words
  phase,
  expr, left,    \* what is searched for, and the tokens that are left
  index,         \* the results by article
  asked, hits,   \* the last find: what was asked, and its results
  results,
  \* members of SearchSource
  nextArticle, aids, nextRedirect,
  handed         \* history: the articles handed out

searching == <<expr, left, index, asked, hits, results>>
sourcing  == <<nextArticle, aids, nextRedirect, handed>>
searchVars == <<file, phase, searching, sourcing>>

Size == Len(file.entry)
Entry(a) == file.entry[a + 1]
NoTarget == -1
IsRedirect(a) == Entry(a).to # NoTarget
ByTitle(p) == file.byTitle[p + 1]     \* the article at a position by title

Nothing  == [x \in {} |-> x]
NotAsked == [for |-> "nothing"]

SearchInit ==
  /\ file \in File
  /\ phase = "idle"
  /\ expr = <<>> /\ left = <<>> /\ index = Nothing
  /\ asked = NotAsked /\ hits = <<>> /\ results = <<>>
  /\ nextArticle = 0 /\ aids = {} /\ nextRedirect = Size /\ handed = <<>>

-----------------------------------------------------------------------------
(* find *)

(* std::string::compare *)
Greater(s, t) ==
  \/ IsStrictPrefix(t, s)
  \/ \E i \in DOMAIN s \cap DOMAIN t :
       s[i] > t[i] /\ \A j \in 1 .. i - 1 : s[j] = t[j]

(* Files as ZimCreator writes them (ListsInOrder): entries in the order of *)
(* titles, each once.  An index is of articles that are there.             *)
Written(f) ==
  /\ f.entry \in Seq([ns : Int, title : Seq(Int), to : Int])
  /\ f.byTitle \in Seq(0 .. Len(f.entry) - 1)
  /\ Len(f.byTitle) = Len(f.entry)
  /\ \A a \in 0 .. Len(f.entry) - 1 : \E p \in DOMAIN f.byTitle : f.byTitle[p] = a
  /\ \A p \in DOMAIN f.byTitle : \A q \in 1 .. p - 1 :
       LET d == f.entry[f.byTitle[q] + 1]
           e == f.entry[f.byTitle[p] + 1]
       IN /\ f.byTitle[q] # f.byTitle[p]
          /\ d.ns < e.ns \/ (d.ns = e.ns /\ ~Greater(d.title, e.title))
  /\ \A word \in DOMAIN f.words :
       f.words[word] \in [1 .. 4 -> Seq([index : 0 .. Len(f.entry) - 1, pos : Nat])]

ASSUME FileAssumption == \A f \in File : Written(f)

ASSUME InputAssumption ==
  /\ Prefix \subseteq Seq(Int)
  /\ Expr \subseteq Seq([word : Seq(Int), plus : Nat])

(* Where findByTitle may begin: at an article of that title, any if there  *)
(* are several, or where it would be (FindsRight of Lookup); at the end if *)
(* there is no such namespace.                                             *)
FoundAt(ns, title) ==
  {p \in 0 .. Size - 1 : Entry(ByTitle(p)).ns = ns /\ Entry(ByTitle(p)).title = title}

Below(ns, title) ==
  {p \in 0 .. Size - 1 : \/ Entry(ByTitle(p)).ns < ns
                         \/ Entry(ByTitle(p)).ns = ns /\ Greater(title, Entry(ByTitle(p)).title)}

FindByTitle(ns, title) ==
  CASE FoundAt(ns, title) # {} -> FoundAt(ns, title)
    [] FoundAt(ns, title) = {} /\ (\E a \in 0 .. Size - 1 : Entry(a).ns = ns) ->
         {Cardinality(Below(ns, title))}
    [] OTHER -> {Size}

(* The articles from a position on, as long as they are good ones and not  *)
(* more than the limit.                                                    *)
Run(start, good) ==
  LET ends == {p \in start .. Size :
                 p = Size \/ p - start >= SearchLimit \/ ByTitle(p) \notin good}
  IN SubSeq(file.byTitle, start + 1, Min(ends))

Begin(title, prefix) == SubSeq(title, 1, Min({Len(title), Len(prefix)}))

BugWholeTitle(a, ns, prefix) == Entry(a).ns = ns /\ ~Greater(Entry(a).title, prefix)

PrefixMatches(a, ns, prefix) ==
  Entry(a).ns = ns /\ ~Greater(Begin(Entry(a).title, prefix), prefix)

FindResults(ns, prefix) ==
  {Run(start, {a \in 0 .. Size - 1 : PrefixMatches(a, ns, prefix)}) :
     start \in FindByTitle(ns, prefix)}

Find ==
  /\ phase = "idle"
  /\ \E ns \in {Entry(a).ns : a \in 0 .. Size - 1}, prefix \in Prefix :
       asked' = [for |-> "prefix", ns |-> ns, prefix |-> prefix]
  /\ hits' \in FindResults(asked'.ns, asked'.prefix)
  /\ UNCHANGED <<file, phase, expr, left, index, results, sourcing>>

(* find from a title to another one, the last one included *)
FindRange ==
  /\ phase = "idle"
  /\ \E ns \in {Entry(a).ns : a \in 0 .. Size - 1}, begin \in Prefix, end \in Prefix :
       /\ asked' = [for |-> "range", ns |-> ns, begin |-> begin, end |-> end]
       /\ \E start \in FindByTitle(ns, begin) :
            hits' = Run(start, {a \in 0 .. Size - 1 : Entry(a).ns = ns /\ ~Greater(Entry(a).title, end)})
  /\ UNCHANGED <<file, phase, expr, left, index, results, sourcing>>

-----------------------------------------------------------------------------
(* search *)

Search ==
  /\ phase = "idle"
  /\ expr' \in Expr
  /\ left' = expr'
  /\ phase' = "tokens"
  /\ asked' = NotAsked /\ hits' = <<>>
  /\ UNCHANGED <<file, index, results, sourcing>>

Unsigned(n) == n % 2 ^ Width

NewResult == [words |-> Nothing, posList |-> Nothing]
NewWord   == [count |-> 0, addweight |-> 1]

At(f, x, default) == IF x \in DOMAIN f THEN f[x] ELSE default

With(f, x, value) == [y \in DOMAIN f \cup {x} |-> IF y = x THEN value ELSE f[y]]

(* foundWord, of the result of article a *)
FoundWord(found, word, a, pos, addweight) ==
  LET result == At(found, a, NewResult)
      attr   == At(result.words, word, NewWord)
      attr2  == [count |-> attr.count + 1,
                 addweight |-> Unsigned(attr.addweight + addweight)]
  IN With(found, a, [words   |-> With(result.words, word, attr2),
                     posList |-> With(result.posList, pos, word)])

(* What the index has of a word: all entries, with their categories. *)
Postings(word) ==
  FlattenSeq([i \in 1 .. 4 |->
    [j \in DOMAIN file.words[word][i] |->
       [a |-> file.words[word][i][j].index, pos |-> file.words[word][i][j].pos, cat |-> i - 1]]])

BugWeight(plus, cat) == plus + 3 + cat

WeightOf(plus, cat) == plus + 3 - cat

(* The words that the index has entries of: getTotalCount > 0 *)
Indexed == {word \in DOMAIN file.words : \E cat \in 1 .. 4 : file.words[word][cat] # <<>>}

InIndex(token) ==
  /\ index' = FoldLeft(LAMBDA found, e :
                         FoundWord(found, token.word, e.a, e.pos, WeightOf(token.plus, e.cat)),
                       index, Postings(token.word))
  /\ UNCHANGED <<asked, hits>>

(* A word without entries is looked for at the begin of titles.            *)
InTitles(token) ==
  /\ asked' = [for |-> "prefix", ns |-> A, prefix |-> token.word]
  /\ hits' \in FindResults(A, token.word)
  /\ index' = FoldLeft(LAMBDA found, a :
                         FoundWord(found, token.word, a, 0,
                                   Unsigned(token.plus + 3 - Len(Entry(a).title))),
                       index, hits')

Token ==
  /\ phase = "tokens" /\ left # <<>>
  /\ left' = Tail(left)
  /\ CASE Head(left).word = <<>> -> UNCHANGED <<index, asked, hits>>
       [] Head(left).word \in Indexed \ {<<>>} -> InIndex(Head(left))
       [] OTHER -> InTitles(Head(left))
  /\ UNCHANGED <<file, phase, expr, results, sourcing>>

BugAnyPosition(a) == DOMAIN index[a].posList # {}

ManyPositions(a) == Cardinality(DOMAIN index[a].posList) > 1

(* Articles with one position are left out, unless all are like that.      *)
Filtered ==
  LET many == {a \in DOMAIN index : ManyPositions(a)}
  IN IF many # {} THEN many ELSE DOMAIN index

(* The end of search, and of the constructor of SearchSource: it has no    *)
(* redirect to look at before it has handed out the last result.           *)
Sort ==
  /\ phase = "tokens" /\ left = <<>>
  /\ results' \in SetToSeqs(Filtered)
  /\ nextArticle' = 0 /\ aids' = {} /\ nextRedirect' = Size
  /\ phase' = "found"
  /\ UNCHANGED <<file, expr, left, index, asked, hits, handed>>

-----------------------------------------------------------------------------
(* getNextArticle of SearchSource *)

(* The first redirect to one of these articles from a position on.         *)
RedirectFrom(p, these) ==
  Min({Size} \cup {a \in p .. Size - 1 : IsRedirect(a) /\ Entry(a).to \in these})

BugNotNoted(a) == aids

Noted(a) == aids \cup {a}

HandResult ==
  /\ phase = "found" /\ nextArticle < Len(results)
  /\ LET a == results[nextArticle + 1]
     IN handed' = Append(handed, a) /\ aids' = Noted(a)
  /\ nextArticle' = nextArticle + 1
  /\ nextRedirect' = IF nextArticle' = Len(results) THEN RedirectFrom(0, aids')
                     ELSE nextRedirect
  /\ UNCHANGED <<file, phase, searching>>

HandRedirect ==
  /\ phase = "found" /\ nextArticle = Len(results)
  /\ nextRedirect < Size
  /\ handed' = Append(handed, nextRedirect)
  /\ nextRedirect' = RedirectFrom(nextRedirect + 1, aids)
  /\ UNCHANGED <<file, phase, searching, nextArticle, aids>>

(* No article: that was all. *)
HandNothing ==
  /\ phase \in {"found", "end"} /\ nextArticle = Len(results)
  /\ nextRedirect = Size
  /\ phase' = "end"
  /\ UNCHANGED <<file, searching, sourcing>>

SearchNext ==
  \/ Find \/ FindRange \/ Search \/ Token \/ Sort
  \/ HandResult \/ HandRedirect \/ HandNothing

SearchSpec == SearchInit /\ [][SearchNext]_searchVars

-----------------------------------------------------------------------------
Done == phase \in {"found", "end"}

Articles == 0 .. Size - 1

(* Of articles listed by title: what is left out comes after the rest, and *)
(* nothing is left out before the limit.                                   *)
ListedFirst(all) ==
  /\ \A i \in DOMAIN hits : \A j \in 1 .. i - 1 : hits[i] # hits[j]
  /\ all \ ToSet(hits) # {} => Len(hits) = SearchLimit
  /\ \A i \in DOMAIN hits, a \in all \ ToSet(hits) :
       ~Greater(Entry(hits[i]).title, Entry(a).title)

(* find yields the articles of a namespace whose titles begin with the     *)
(* prefix, or lie in the range, and no others, wherever the binary search  *)
(* hits; only of several articles whose whole title is the prefix, or the  *)
(* begin of the range, some may be missing.                                *)
PrefixFound ==
  /\ asked.for = "prefix" =>
       LET all == {a \in Articles : Entry(a).ns = asked.ns
                                      /\ IsPrefix(asked.prefix, Entry(a).title)}
           longer == {a \in all : Entry(a).title # asked.prefix}
       IN /\ ToSet(hits) \subseteq all
          /\ ListedFirst(longer)
          /\ all # longer /\ SearchLimit > 0 => hits # <<>> /\ Head(hits) \in all \ longer
  /\ asked.for = "range" =>
       LET all == {a \in Articles : Entry(a).ns = asked.ns
                                      /\ ~Greater(asked.begin, Entry(a).title)
                                      /\ ~Greater(Entry(a).title, asked.end)}
       IN /\ ToSet(hits) \subseteq all
          /\ ListedFirst({a \in all : Entry(a).title # asked.begin})

(* The article is one that find yields for a title.                        *)
TitleHit(a, word) ==
  LET all == {b \in Articles : Entry(b).ns = A /\ IsPrefix(word, Entry(b).title)}
  IN a \in all /\ Cardinality({b \in all : Greater(Entry(a).title, Entry(b).title)}) < SearchLimit

(* No two articles have one title: which are found, is certain.            *)
Certain ==
  \A a, b \in Articles :
    a # b /\ Entry(a).ns = A /\ Entry(b).ns = A => Entry(a).title # Entry(b).title

Words == {expr[i].word : i \in DOMAIN expr} \ {<<>>}

Occurrences(a, word) ==
  IF word \in Indexed
  THEN {e \in UNION {{cat} \X DOMAIN file.words[word][cat] : cat \in 1 .. 4} :
          file.words[word][e[1]][e[2]].index = a}
  ELSE {}

OccursAt(word, a) == {file.words[word][e[1]][e[2]].pos : e \in Occurrences(a, word)}

UsedIn(words, a) == UNION {OccursAt(word, a) : word \in words}

TitledIn(words, a) == {0 : word \in {w \in words \ Indexed : TitleHit(a, w)}}

PositionsOf(a) == UsedIn(Words, a) \cup TitledIn(Words, a)

(* The results are the articles in which a word of the expression is, or   *)
(* whose titles begin with one that the index does not know, each once: of *)
(* them those with more than one position, if there are any.               *)
ResultsRight ==
  Done /\ Certain =>
    LET many == {a \in Articles : Cardinality(PositionsOf(a)) > 1}
        some == {a \in Articles : PositionsOf(a) # {}}
    IN /\ ToSet(results) = IF many # {} THEN many ELSE some
       /\ Len(results) = Cardinality(ToSet(results))

TokensOf(word) == {i \in DOMAIN expr : expr[i].word = word}

Count(a, word) ==
  Cardinality(TokensOf(word)) *
    (IF word \in Indexed THEN Cardinality(Occurrences(a, word)) ELSE 1)

Weight(a, word) ==
  1 + MapThenSumSet(
        LAMBDA i : IF word \in Indexed
                   THEN MapThenSumSet(LAMBDA e : expr[i].plus + 4 - e[1], Occurrences(a, word))
                   ELSE expr[i].plus + 3 - Len(Entry(a).title),
        TokensOf(word))

(* The priority of a result is computed from true sums: each occurrence of *)
(* a word counts once for every time it is in the expression, with the     *)
(* weights of its category and of its plusses.  Only those of words found  *)
(* as titles may wrap: a title of more than three letters weighs less than *)
(* nothing.                                                                *)
WeightsRight ==
  Done => \A a \in DOMAIN index : \A word \in DOMAIN index[a].words :
    /\ word \in Indexed \/ Certain => index[a].words[word].count = Count(a, word)
    /\ word \in Indexed => index[a].words[word].addweight = Weight(a, word)
    /\ Certain => index[a].words[word].addweight = Unsigned(Weight(a, word))

(* The source hands out the results in their order, and behind them every  *)
(* redirect to one of them, each once and in the order of urls, and no     *)
(* more, ever.  Of the redirects behind the results each leads to one of   *)
(* them.  A result may be a redirect itself, as find does not skip them:   *)
(* it comes a second time if it leads to a result, and if it does not, it  *)
(* is handed out without what it leads to.                                 *)
HandedRight ==
  phase = "end" =>
    LET redirects == {a \in Articles : IsRedirect(a) /\ Entry(a).to \in ToSet(results)}
        rest == SubSeq(handed, Len(results) + 1, Len(handed))
    IN /\ IsPrefix(results, handed)
       /\ ToSet(rest) = redirects
       /\ \A i \in DOMAIN rest : \A j \in 1 .. i - 1 : rest[j] < rest[i]
=============================================================================
