------------------------------- MODULE Lookup -------------------------------
(***************************************************************************)
(* Finding articles in a zim file: the binary searches of FileImpl         *)
(* (namespaces) and File (urls and titles), with the answers they cache    *)
(* (zimlib/src/fileimpl.cpp and file.cpp).                                 *)
(*                                                                         *)
(* The entries of the file are those of the variable dir, in the order of  *)
(* their urls; they do not change.  A pass of a loop is a step.  Getting   *)
(* an entry may fail: a read that does leaves the stream in its error      *)
(* state for good, a seek that does (a part of the file cannot be opened)  *)
(* does not.  Indexes count from 0, as in the code.                        *)
(***************************************************************************)
EXTENDS Integers, Sequences

CONSTANTS
  Directory,    \* the directories a file may have
  Namespace,    \* the namespaces asked for
  Key           \* the urls and titles asked for

Entries == [ns : Int, url : Int, title : Int]

(* The list of entries that a lookup by url or by title runs through. *)
Listed(d, by, p) ==
  IF by = "url" THEN d.entries[p + 1] ELSE d.entries[d.titleIdx[p + 1] + 1]

KeyOf(by, entry) == IF by = "url" THEN entry.url ELSE entry.title

(* What ZimCreator writes: both lists are in the order of namespace and    *)
(* key, urls strictly; as they hold the same entries, both have the same   *)
(* namespace at the same position.                                         *)
ASSUME DirectoryAssumption ==
  /\ Namespace \subseteq Int /\ Key \subseteq Int
  /\ \A d \in Directory :
       /\ d.entries \in Seq(Entries)
       /\ d.titleIdx \in Seq(0 .. Len(d.entries) - 1)
       /\ Len(d.titleIdx) = Len(d.entries)
       /\ \A p, q \in 0 .. Len(d.entries) - 1 :
            p < q => \A by \in {"url", "title"} :
                       \/ Listed(d, by, p).ns < Listed(d, by, q).ns
                       \/ /\ Listed(d, by, p).ns = Listed(d, by, q).ns
                          /\ KeyOf(by, Listed(d, by, p)) =< KeyOf(by, Listed(d, by, q))
       /\ \A p \in 0 .. Len(d.entries) - 1 :
            Listed(d, "title", p).ns = Listed(d, "url", p).ns

VARIABLES
  dir,            \* the directory: entries in url order, and the title index
  broken,         \* the stream is in its error state
  failed,         \* history: getting an entry has failed
  \* members of FileImpl
  namespaceBeginCache, namespaceEndCache,
  namespaces,
  \* the call under way
  pc,
  call,           \* what was asked: [op, by, ns, key]
  ch,             \* the namespace whose offsets are looked up
  lower, upper,   \* lower and upper, or l and u
  l,              \* the begin offset that findx has got
  answer          \* what the last call returned

caches == <<namespaceBeginCache, namespaceEndCache, namespaces>>
vars == <<dir, broken, failed, caches, pc, call, ch, lower, upper, l, answer>>

N == Len(dir.entries)     \* getCountArticles()

NoAnswer == [kind |-> "none"]
Error    == [kind |-> "error"]
Found(found, idx) == [kind |-> "find", found |-> found, idx |-> idx]
Has(yes)    == [kind |-> "has", yes |-> yes]
Names(list) == [kind |-> "names", list |-> list]

Empty == [x \in {} |-> x]

Init ==
  /\ dir \in Directory
  /\ broken = FALSE /\ failed = FALSE
  /\ namespaceBeginCache = Empty /\ namespaceEndCache = Empty /\ namespaces = <<>>
  /\ pc = "idle" /\ call = [op |-> "none"] /\ ch = 0
  /\ lower = 0 /\ upper = 0 /\ l = 0 /\ answer = NoAnswer

Return(value) == pc' = "idle" /\ answer' = value

BugMore == upper > lower

(* A search goes on while more than one entry is left. *)
More == upper - lower > 1

BugAtEnd == upper >= N - 1

(* getNamespaces has got to the end. *)
AtEnd == upper >= N

Middle == lower + (upper - lower) \div 2

Narrow(up) ==
  IF up THEN upper' = Middle /\ UNCHANGED lower
  ELSE lower' = Middle /\ UNCHANGED upper

(* The steps that read an entry; in all others getDirent is not called. *)
Reads ==
  \/ pc = "begin" /\ ch \notin DOMAIN namespaceBeginCache
  \/ pc \in {"beginLoop", "endLoop"} /\ More
  \/ pc \in {"search", "first"}
  \/ pc = "has" /\ l < N
  \/ pc = "names" /\ ~AtEnd

(* getDirent fails to read the entry, or the stream has failed before. *)
Throws ==
  /\ Reads /\ N > 0
  /\ Return(Error)
  /\ failed' = TRUE
  /\ broken' \in {broken, TRUE}
  /\ UNCHANGED <<dir, caches, call, ch, lower, upper, l>>

(* getDirent(0) of an empty file: "article index out of range" *)
ThrowsEmpty ==
  /\ Reads /\ N = 0
  /\ Return(Error)
  /\ UNCHANGED <<dir, broken, failed, caches, call, ch, lower, upper, l>>

-----------------------------------------------------------------------------
(* findx, findxByTitle and hasNamespace begin with the begin offset. *)
Ask ==
  /\ pc = "idle"
  /\ \E ns \in Namespace, key \in Key, by \in {"url", "title"} :
       call' \in {[op |-> "find", by |-> by, ns |-> ns, key |-> key],
                  [op |-> "has", ns |-> ns]}
  /\ ch' = call'.ns
  /\ pc' = "begin"
  /\ answer' = NoAnswer
  /\ UNCHANGED <<dir, broken, failed, caches, lower, upper, l>>

(* getNamespaceBeginOffset *)

AfterBegin(offset) ==
  /\ l' = offset
  /\ pc' = IF call.op = "has" THEN "has" ELSE "end"

BeginCached ==
  /\ pc = "begin"
  /\ ch \in DOMAIN namespaceBeginCache
  /\ AfterBegin(namespaceBeginCache[ch])
  /\ UNCHANGED <<dir, broken, failed, caches, call, ch, lower, upper, answer>>

BeginStart ==
  /\ pc = "begin"
  /\ ch \notin DOMAIN namespaceBeginCache
  /\ N > 0 /\ ~broken
  /\ lower' = 0 /\ upper' = N
  /\ pc' = "beginLoop"
  /\ UNCHANGED <<dir, broken, failed, caches, call, ch, l, answer>>

BugStrict(m) == Listed(dir, "url", m).ns > ch

NotBefore(m) == Listed(dir, "url", m).ns >= ch

BeginStep ==
  /\ pc = "beginLoop"
  /\ More
  /\ ~broken
  /\ Narrow(NotBefore(Middle))
  /\ UNCHANGED <<dir, broken, failed, caches, pc, call, ch, l, answer>>

(* The first entry is looked at apart: the loop never looks at index 0. *)
BeginResult == IF Listed(dir, "url", 0).ns < ch THEN upper ELSE lower

BeginDone ==
  /\ pc = "beginLoop"
  /\ ~More
  /\ namespaceBeginCache' =
       [n \in DOMAIN namespaceBeginCache \cup {ch} |->
          IF n = ch THEN BeginResult ELSE namespaceBeginCache[n]]
  /\ AfterBegin(BeginResult)
  /\ UNCHANGED <<dir, broken, failed, namespaceEndCache, namespaces, call, ch,
                 lower, upper, answer>>

(* getNamespaceEndOffset *)

(* findx goes on from l to the end offset, or gives up. *)
AfterEnd(offset) ==
  IF call.op = "names"
  THEN /\ upper' = offset
       /\ pc' = "names"
       /\ UNCHANGED <<lower, answer>>
  ELSE IF l = offset
  THEN /\ Return(Found(FALSE, N))
       /\ UNCHANGED <<lower, upper>>
  ELSE /\ lower' = l /\ upper' = offset
       /\ pc' = "search"
       /\ UNCHANGED answer

EndCached ==
  /\ pc = "end"
  /\ ch \in DOMAIN namespaceEndCache
  /\ AfterEnd(namespaceEndCache[ch])
  /\ UNCHANGED <<dir, broken, failed, caches, call, ch, l>>

EndStart ==
  /\ pc = "end"
  /\ ch \notin DOMAIN namespaceEndCache
  /\ lower' = 0 /\ upper' = N
  /\ pc' = "endLoop"
  /\ UNCHANGED <<dir, broken, failed, caches, call, ch, l, answer>>

Behind(m) == Listed(dir, "url", m).ns > ch

EndStep ==
  /\ pc = "endLoop"
  /\ More
  /\ ~broken
  /\ Narrow(Behind(Middle))
  /\ UNCHANGED <<dir, broken, failed, caches, pc, call, ch, l, answer>>

EndDone ==
  /\ pc = "endLoop"
  /\ ~More
  /\ namespaceEndCache' =
       [n \in DOMAIN namespaceEndCache \cup {ch} |->
          IF n = ch THEN upper ELSE namespaceEndCache[n]]
  /\ AfterEnd(upper)
  /\ UNCHANGED <<dir, broken, failed, namespaceBeginCache, namespaces, call, ch, l>>

-----------------------------------------------------------------------------
(* The loop of findx and findxByTitle. *)

Probe(p) == Listed(dir, call.by, p)

Before(entry) ==
  \/ call.ns < entry.ns
  \/ call.ns = entry.ns /\ call.key < KeyOf(call.by, entry)

Hit(entry) == call.ns = entry.ns /\ call.key = KeyOf(call.by, entry)

SearchStep ==
  /\ pc = "search"
  /\ More
  /\ ~broken
  /\ IF Hit(Probe(Middle))
     THEN Return(Found(TRUE, Middle)) /\ UNCHANGED <<lower, upper>>
     ELSE Narrow(Before(Probe(Middle))) /\ UNCHANGED <<pc, answer>>
  /\ UNCHANGED <<dir, broken, failed, caches, call, ch, l>>

BugAlwaysLower(key) == lower

(* Where an article that is not there would be. *)
WouldBe(key) == IF call.key < key THEN lower ELSE upper

(* The last entry is compared by its url or title only. *)
SearchDone ==
  /\ pc = "search"
  /\ ~More
  /\ ~broken
  /\ LET key == KeyOf(call.by, Probe(lower))
     IN Return(IF call.key = key THEN Found(TRUE, lower)
               ELSE Found(FALSE, WouldBe(key)))
  /\ UNCHANGED <<dir, broken, failed, caches, call, ch, lower, upper, l>>

-----------------------------------------------------------------------------
(* hasNamespace: is there an entry at the offset, and is it of this one? *)
AtOffset(offset) == offset < N /\ Listed(dir, "url", offset).ns = call.ns

HasNamespace ==
  /\ pc = "has"
  /\ l < N => ~broken
  /\ Return(Has(AtOffset(l)))
  /\ UNCHANGED <<dir, broken, failed, caches, call, ch, lower, upper, l>>

(* getNamespaces: from the first entry of a namespace to that of the next. *)

AskNames ==
  /\ pc = "idle"
  /\ call' = [op |-> "names"]
  /\ IF namespaces # <<>>
     THEN Return(Names(namespaces))
     ELSE pc' = "first" /\ answer' = NoAnswer
  /\ UNCHANGED <<dir, broken, failed, caches, ch, lower, upper, l>>

NextName(p) ==
  /\ namespaces' = Append(namespaces, Listed(dir, "url", p).ns)
  /\ ch' = Listed(dir, "url", p).ns
  /\ pc' = "end"

NamesFirst ==
  /\ pc = "first"
  /\ N > 0 /\ ~broken
  /\ NextName(0)
  /\ UNCHANGED <<dir, broken, failed, namespaceBeginCache, namespaceEndCache, call,
                 lower, upper, l, answer>>

NamesStep ==
  /\ pc = "names"
  /\ ~AtEnd
  /\ ~broken
  /\ NextName(upper)
  /\ UNCHANGED <<dir, broken, failed, namespaceBeginCache, namespaceEndCache, call,
                 lower, upper, l, answer>>

NamesDone ==
  /\ pc = "names"
  /\ AtEnd
  /\ Return(Names(namespaces))
  /\ UNCHANGED <<dir, broken, failed, caches, call, ch, lower, upper, l>>

Continue ==
  \/ BeginCached \/ BeginStart \/ BeginStep \/ BeginDone
  \/ EndCached \/ EndStart \/ EndStep \/ EndDone
  \/ SearchStep \/ SearchDone
  \/ HasNamespace \/ NamesFirst \/ NamesStep \/ NamesDone
  \/ ThrowsEmpty

Next == Ask \/ AskNames \/ Continue \/ Throws

(* A call runs on once it has begun; nobody need make one, and reads need  *)
(* not fail, unless the stream has failed before.                          *)
Spec == Init /\ [][Next]_vars /\ WF_vars(Continue) /\ WF_vars(broken /\ Throws)

-----------------------------------------------------------------------------
Positions == 0 .. N - 1

(* What is before the entry that a find asks for, and the entry itself. *)
Less(entry) ==
  \/ entry.ns < call.ns
  \/ entry.ns = call.ns /\ KeyOf(call.by, entry) < call.key

InFile(ns) == \E p \in Positions : Listed(dir, "url", p).ns = ns

TypeOK ==
  /\ broken \in BOOLEAN /\ failed \in BOOLEAN
  /\ broken => failed
  /\ \A n \in DOMAIN namespaceBeginCache : namespaceBeginCache[n] \in 0 .. N
  /\ \A n \in DOMAIN namespaceEndCache : namespaceEndCache[n] \in 1 .. N
  /\ lower \in 0 .. N /\ upper \in 0 .. N /\ l \in 0 .. N
  /\ pc \in {"beginLoop", "endLoop", "search"} => lower < upper
  /\ pc = "names" => upper > 0
  /\ answer.kind = "find" => answer.idx \in 0 .. N

(* What the caches of getNamespaceBeginOffset and getNamespaceEndOffset    *)
(* remember, however the searches that filled them ended, is where the     *)
(* namespace begins and ends; only before the first namespace is the end   *)
(* not found.                                                              *)
OffsetsRight ==
  /\ \A n \in DOMAIN namespaceBeginCache : \A p \in Positions :
       p < namespaceBeginCache[n] <=> Listed(dir, "url", p).ns < n
  /\ \A n \in DOMAIN namespaceEndCache :
       n >= Listed(dir, "url", 0).ns =>
         \A p \in Positions :
           p < namespaceEndCache[n] <=> Listed(dir, "url", p).ns =< n

(* At any point of a search, however the ones before it ended: its bounds  *)
(* stay in the directory and never cross, an entry is left to look at, and *)
(* the offsets it may rely on are right.                                   *)
OffsetsSound == TypeOK /\ OffsetsRight

(* findx and findxByTitle find an article just when there is one, and the  *)
(* position they return is that of such an article (for namespaces that    *)
(* are not before the first one of the file).                              *)
FindRight ==
  answer.kind = "find" /\ call.ns >= Listed(dir, "url", 0).ns =>
    /\ answer.found <=> \E p \in Positions : Hit(Listed(dir, call.by, p))
    /\ answer.found => answer.idx < N /\ Hit(Listed(dir, call.by, answer.idx))

(* An article that is not found, in a namespace that the file has, yields  *)
(* the position where it would be: from there on iterators of find and     *)
(* findByTitle list what follows, as the searches by a prefix do.          *)
InsertionPoint ==
  answer.kind = "find" /\ ~answer.found /\ InFile(call.ns) =>
    \A p \in Positions : p < answer.idx <=> Less(Listed(dir, call.by, p))

(* What a search answers is right, found or not. *)
FindsRight == FindRight /\ InsertionPoint

(* hasNamespace is right for every namespace, those before the first and   *)
(* behind the last one of the file included; getNamespaces names every     *)
(* namespace of the file once, in their order.  That holds as long as      *)
(* getting an entry has not failed: the code keeps the names it has got by *)
(* then, and takes them for the whole list in the next call.               *)
NamespacesRight ==
  /\ answer.kind = "has" => (answer.yes <=> InFile(call.ns))
  /\ answer.kind = "names" /\ ~failed =>
       /\ \A p \in Positions : \E i \in DOMAIN answer.list :
            answer.list[i] = Listed(dir, "url", p).ns
       /\ \A i \in DOMAIN answer.list : InFile(answer.list[i])
       /\ \A i, j \in DOMAIN answer.list : i < j => answer.list[i] < answer.list[j]

(* Every search comes to an end. *)
CallsReturn == pc # "idle" ~> pc = "idle"
=============================================================================
