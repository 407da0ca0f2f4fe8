---------------------------- MODULE LookupProofs ----------------------------
(***************************************************************************)
(* Proofs about Lookup, for every directory that ZimCreator may write: the *)
(* searches leave nothing wrong in the caches, find what is there, and     *)
(* stop where it would be.  Then proofs about Search, which builds on      *)
(* them, for any file and expression: what find yields, which results a    *)
(* search has, and what a source of articles makes of them.                *)
(***************************************************************************)
EXTENDS Lookup, Search, FiniteSetTheorems, SequenceTheorems, WellFoundedInduction, TLAPS

(* The namespace at a position, the same in both lists. *)
Ns(p) == Listed(dir, "url", p).ns

KeyAt(by, p) == KeyOf(by, Listed(dir, by, p))

Calls ==
  [op : {"none", "names"}] \cup [op : {"has"}, ns : Namespace]
    \cup [op : {"find"}, by : {"url", "title"}, ns : Namespace, key : Key]

Phase == {"idle", "begin", "beginLoop", "has", "end", "endLoop", "search", "first", "names"}

(* Where a namespace begins, and where it ends. *)
BeginsAt(n, offset) == \A p \in Positions : p < offset <=> Ns(p) < n
EndsAt(n, offset)   == \A p \in Positions : p < offset <=> Ns(p) =< n

(* Before the first namespace of the file the end is not found. *)
EndFound(n, offset) == n >= Ns(0) => EndsAt(n, offset)

Typing ==
  /\ dir \in Directory
  /\ TypeOK
  /\ pc \in Phase /\ call \in Calls /\ ch \in Int
  /\ namespaces \in Seq(Int)
  /\ DOMAIN namespaceBeginCache \subseteq Int /\ DOMAIN namespaceEndCache \subseteq Int
  /\ DOMAIN namespaceBeginCache # {} \/ pc \notin {"idle", "begin", "first"} => N > 0

(* Which call is in which phase, and what it looks for. *)
Phases ==
  /\ pc # "idle" => answer = NoAnswer
  /\ pc \in {"begin", "beginLoop"} => call.op \in {"has", "find"}
  /\ pc \in {"end", "endLoop"} => call.op \in {"find", "names"}
  /\ pc = "has" => call.op = "has"
  /\ pc = "search" => call.op = "find"
  /\ pc \in {"first", "names"} => call.op = "names"
  /\ pc # "idle" /\ call.op \in {"has", "find"} => ch = call.ns
  /\ pc \in {"has", "end", "endLoop", "search"} /\ call.op \in {"has", "find"} =>
       BeginsAt(ch, l)

(* What the bounds of a loop have between them. *)
Narrowed ==
  /\ pc = "beginLoop" => /\ lower > 0 => Ns(lower) < ch
                         /\ upper < N => Ns(upper) >= ch
  /\ pc = "endLoop" => /\ lower > 0 => Ns(lower) =< ch
                       /\ upper < N => Ns(upper) > ch
  /\ pc = "search" /\ call.ns >= Ns(0) =>
       /\ \A p \in Positions : p < lower => Less(Listed(dir, call.by, p))
       /\ \A p \in Positions : p >= upper => Before(Listed(dir, call.by, p))
       /\ Ns(lower) = call.ns

(* The names that getNamespaces has got; ch is the last of them. *)
Named(n) == \E i \in 1 .. Len(namespaces) : namespaces[i] = n

NamesSound ==
  /\ \A i \in 1 .. Len(namespaces) : InFile(namespaces[i])
  /\ \A i, j \in 1 .. Len(namespaces) : i < j => namespaces[i] < namespaces[j]
  /\ pc = "first" => namespaces = <<>>
  /\ ~failed /\ namespaces # <<>> /\ ~(call.op = "names" /\ pc # "idle") =>
       \A p \in Positions : Named(Ns(p))
  /\ call.op = "names" /\ pc \in {"end", "endLoop"} =>
       /\ InFile(ch)
       /\ \A i \in 1 .. Len(namespaces) : namespaces[i] =< ch
       /\ \A p \in Positions : Ns(p) =< ch => Named(Ns(p))
  /\ pc = "names" =>
       /\ namespaces # <<>>
       /\ \A p \in Positions : p < upper => Named(Ns(p))
       /\ \A p \in Positions, i \in 1 .. Len(namespaces) : p >= upper => namespaces[i] < Ns(p)

IInv ==
  Typing /\ OffsetsRight /\ Phases /\ Narrowed /\ NamesSound /\ FindsRight /\ NamespacesRight

-----------------------------------------------------------------------------
By == {"url", "title"}

(* What the assumption on directories says of the one at hand. *)
LEMMA DirectoryFacts ==
  ASSUME dir \in Directory
  PROVE  /\ N \in Nat
         /\ \A p \in Positions : Ns(p) \in Int
         /\ \A p \in Positions, by \in By :
              KeyAt(by, p) \in Int /\ Listed(dir, by, p).ns = Ns(p)
<1>1. /\ dir.entries \in Seq(Entries)
      /\ dir.titleIdx \in Seq(0 .. N - 1)
      /\ Len(dir.titleIdx) = N
  BY DirectoryAssumption DEF N
<1>2. N \in Nat
  BY <1>1 DEF N
<1>3. ASSUME NEW p \in Positions
      PROVE  Listed(dir, "url", p) \in Entries /\ Listed(dir, "title", p) \in Entries
  <2>1. p + 1 \in 1 .. N
    BY <1>2 DEF Positions
  <2>2. dir.titleIdx[p + 1] \in 0 .. N - 1
    BY <2>1, <1>1
  <2>3. dir.titleIdx[p + 1] + 1 \in 1 .. N
    BY <2>2, <1>2
  <2> QED
    BY <2>1, <2>3, <1>1 DEF Listed, N
<1>4. \A p \in Positions : Listed(dir, "title", p).ns = Listed(dir, "url", p).ns
  BY DirectoryAssumption DEF Positions, N
<1>5. \A p \in Positions : Ns(p) \in Int
  BY <1>3 DEF Ns, Entries
<1>6. ASSUME NEW p \in Positions, NEW by \in By
      PROVE  KeyAt(by, p) \in Int /\ Listed(dir, by, p).ns = Ns(p)
  BY <1>3, <1>4 DEF Ns, KeyAt, KeyOf, By, Entries
<1> QED
  BY <1>2, <1>5, <1>6

LEMMA Sorted ==
  ASSUME dir \in Directory, NEW p \in Positions, NEW q \in Positions, p =< q
  PROVE  /\ Ns(p) =< Ns(q)
         /\ \A by \in By : Ns(p) = Ns(q) => KeyAt(by, p) =< KeyAt(by, q)
<1>0. /\ N \in Nat /\ Ns(p) \in Int /\ Ns(q) \in Int
      /\ \A by \in By : /\ KeyAt(by, p) \in Int /\ KeyAt(by, q) \in Int
                        /\ Listed(dir, by, p).ns = Ns(p) /\ Listed(dir, by, q).ns = Ns(q)
  BY DirectoryFacts
<1>1. CASE p = q
  BY <1>0, <1>1
<1>2. CASE p # q
  <2>1. p < q
    BY <1>2, <1>0 DEF Positions
  <2>2. \A by \in {"url", "title"} :
           \/ Listed(dir, by, p).ns < Listed(dir, by, q).ns
           \/ /\ Listed(dir, by, p).ns = Listed(dir, by, q).ns
              /\ KeyOf(by, Listed(dir, by, p)) =< KeyOf(by, Listed(dir, by, q))
    BY <2>1, DirectoryAssumption DEF Positions, N
  <2>3. \A by \in By : Ns(p) < Ns(q) \/ (Ns(p) = Ns(q) /\ KeyAt(by, p) =< KeyAt(by, q))
    BY <2>2, <1>0 DEF By, KeyAt
  <2>4. "url" \in By
    BY DEF By
  <2> QED
    BY <2>3, <2>4, <1>0
<1> QED
  BY <1>1, <1>2

-----------------------------------------------------------------------------
(* Steps that end a call with no answer to a question, or go on with one.  *)
LEMMA NoQuestionAnswered ==
  ASSUME answer' \in {NoAnswer, Error}
  PROVE  FindsRight' /\ NamespacesRight'
BY DEF FindsRight, FindRight, InsertionPoint, NamespacesRight, NoAnswer, Error

LEMMA CachesKept ==
  ASSUME IInv, UNCHANGED <<dir, caches>>
  PROVE  OffsetsRight'
BY DEF IInv, OffsetsRight, caches, Positions, N

(* Steps of searches, which do not touch the names. *)
LEMMA NamesKept ==
  ASSUME IInv, UNCHANGED <<dir, failed, namespaces>>,
         call'.op # "names" \/ pc' = "idle", pc' \notin {"first", "names"},
         call.op # "names" \/ pc = "idle"
  PROVE  NamesSound'
BY DEF IInv, Phases, NamesSound, Named, InFile, Ns, Positions, N

LEMMA AskStep ==
  ASSUME IInv, Ask
  PROVE  IInv'
<1> USE DEF Ask
<1>1. /\ call' \in Calls /\ call'.op \in {"find", "has"} /\ call'.ns \in Int
  BY DirectoryAssumption DEF Calls
<1>2. Typing'
  BY <1>1 DEF IInv, Typing, TypeOK, Phase, caches, N, NoAnswer
<1>3. OffsetsRight'
  BY CachesKept
<1>4. Phases'
  BY DEF Phases
<1>5. Narrowed'
  BY DEF Narrowed
<1>6. NamesSound'
  BY <1>1, NamesKept DEF caches
<1>7. FindsRight' /\ NamespacesRight'
  BY NoQuestionAnswered
<1> QED
  BY <1>2, <1>3, <1>4, <1>5, <1>6, <1>7 DEF IInv

LEMMA BeginCachedStep ==
  ASSUME IInv, BeginCached
  PROVE  IInv'
<1> USE DEF BeginCached, AfterBegin
<1>1. /\ pc' = IF call.op = "has" THEN "has" ELSE "end"
      /\ call.op \in {"has", "find"} /\ ch = call.ns /\ answer = NoAnswer
      /\ call' = call /\ ch' = ch /\ dir' = dir /\ l' = namespaceBeginCache[ch]
  BY DEF IInv, Phases
<1>2. Typing'
  BY <1>1 DEF IInv, Typing, TypeOK, Phase, caches, N
<1>3. OffsetsRight'
  BY CachesKept
<1>4. BeginsAt(ch, namespaceBeginCache[ch])
  BY DEF IInv, OffsetsRight, BeginsAt, Ns
<1>5. Phases'
  BY <1>1, <1>4 DEF Phases, BeginsAt, Ns, Positions, N
<1>6. Narrowed'
  BY <1>1 DEF Narrowed
<1>7. NamesSound'
  BY <1>1, NamesKept DEF caches
<1>8. FindsRight' /\ NamespacesRight'
  BY <1>1, NoQuestionAnswered
<1> QED
  BY <1>2, <1>3, <1>5, <1>6, <1>7, <1>8 DEF IInv

LEMMA BeginStartStep ==
  ASSUME IInv, BeginStart
  PROVE  IInv'
<1> USE DEF BeginStart
<1>1. call.op \in {"has", "find"} /\ ch = call.ns /\ answer = NoAnswer /\ N \in Nat
  BY DirectoryFacts DEF IInv, Phases, Typing
<1>2. Typing'
  BY <1>1 DEF IInv, Typing, TypeOK, Phase, caches, N
<1>3. OffsetsRight'
  BY CachesKept
<1>5. Phases'
  BY <1>1 DEF Phases
<1>6. Narrowed'
  BY <1>1 DEF Narrowed, N
<1>7. NamesSound'
  BY <1>1, NamesKept DEF caches
<1>8. FindsRight' /\ NamespacesRight'
  BY <1>1, NoQuestionAnswered
<1> QED
  BY <1>2, <1>3, <1>5, <1>6, <1>7, <1>8 DEF IInv

(* The entry in the middle is strictly between the bounds. *)
LEMMA MiddleBetween ==
  ASSUME Typing, More
  PROVE  /\ Middle \in Positions
         /\ lower < Middle /\ Middle < upper /\ 0 < Middle
<1>1. /\ lower \in 0 .. N /\ upper \in 0 .. N /\ upper - lower > 1 /\ N \in Nat
  BY DirectoryFacts DEF Typing, TypeOK, More
<1>2. /\ (upper - lower) \div 2 \in Nat
      /\ (upper - lower) \div 2 > 0 /\ (upper - lower) \div 2 < upper - lower
  BY <1>1
<1> QED
  BY <1>1, <1>2 DEF Middle, Positions

LEMMA BeginStepStep ==
  ASSUME IInv, BeginStep
  PROVE  IInv'
<1> USE DEF BeginStep, Narrow
<1>1. /\ call.op \in {"has", "find"} /\ ch = call.ns /\ answer = NoAnswer
      /\ Middle \in Positions /\ lower < Middle /\ Middle < upper /\ 0 < Middle
      /\ N \in Nat /\ Ns(Middle) \in Int /\ ch \in Int
  BY MiddleBetween, DirectoryFacts DEF IInv, Phases, Typing
<1>2. Typing'
  BY <1>1 DEF IInv, Typing, TypeOK, Phase, caches, N, Positions
<1>3. OffsetsRight'
  BY CachesKept
<1>5. Phases'
  BY <1>1 DEF Phases
<1>6. Narrowed'
  BY <1>1 DEF IInv, Typing, TypeOK, Narrowed, N, NotBefore, Ns
<1>7. NamesSound'
  BY <1>1, NamesKept DEF caches
<1>8. FindsRight' /\ NamespacesRight'
  BY <1>1, NoQuestionAnswered
<1> QED
  BY <1>2, <1>3, <1>5, <1>6, <1>7, <1>8 DEF IInv

(* The loop ends where the namespace begins. *)
LEMMA BeginResultRight ==
  ASSUME IInv, pc = "beginLoop", ~More
  PROVE  BeginResult \in 0 .. N /\ BeginsAt(ch, BeginResult)
<1>1. /\ lower \in 0 .. N /\ upper \in 0 .. N /\ upper = lower + 1 /\ N \in Nat
      /\ dir \in Directory /\ ch \in Int /\ 0 \in Positions /\ lower \in Positions
      /\ \A p \in Positions : Ns(p) \in Int
  BY DirectoryFacts DEF IInv, Typing, TypeOK, More, Positions
<1>2. \A p \in Positions, q \in Positions : p =< q => Ns(p) =< Ns(q)
  BY <1>1, Sorted
<1>3. CASE Ns(0) < ch
  <2>1. BeginResult = upper
    BY <1>3 DEF BeginResult, Ns
  <2>2. Ns(lower) < ch
    BY <1>1, <1>3 DEF IInv, Narrowed
  <2>3. ASSUME NEW p \in Positions PROVE p < upper <=> Ns(p) < ch
    <3>1. CASE p < upper
      <4>1. p =< lower
        BY <3>1, <1>1 DEF Positions
      <4> QED
        BY <4>1, <3>1, <2>2, <1>1, <1>2
    <3>2. CASE ~(p < upper)
      <4>1. upper < N /\ upper \in Positions /\ upper =< p
        BY <3>2, <1>1 DEF Positions
      <4>2. Ns(upper) >= ch
        BY <4>1 DEF IInv, Narrowed
      <4> QED
        BY <4>1, <4>2, <3>2, <1>1, <1>2
    <3> QED
      BY <3>1, <3>2
  <2> QED
    BY <2>1, <2>3, <1>1 DEF BeginsAt
<1>4. CASE ~(Ns(0) < ch)
  <2>1. BeginResult = lower
    BY <1>4 DEF BeginResult, Ns
  <2>2. ~(Ns(lower) < ch)
    BY <1>1, <1>2, <1>4 DEF Positions
  <2>3. lower = 0
    BY <2>2, <1>1 DEF IInv, Narrowed
  <2>4. ASSUME NEW p \in Positions PROVE ~(p < 0) /\ ~(Ns(p) < ch)
    BY <1>1, <1>2, <1>4 DEF Positions
  <2> QED
    BY <2>1, <2>3, <2>4, <1>1 DEF BeginsAt
<1> QED
  BY <1>3, <1>4

LEMMA BeginDoneStep ==
  ASSUME IInv, BeginDone
  PROVE  IInv'
<1> USE DEF BeginDone, AfterBegin
<1>1. BeginResult \in 0 .. N /\ BeginsAt(ch, BeginResult)
  BY BeginResultRight
<1>2. /\ pc' = IF call.op = "has" THEN "has" ELSE "end"
      /\ call.op \in {"has", "find"} /\ ch = call.ns /\ answer = NoAnswer
      /\ call' = call /\ ch' = ch /\ dir' = dir /\ l' = BeginResult
  BY DEF IInv, Phases
<1>3. /\ DOMAIN namespaceBeginCache' = DOMAIN namespaceBeginCache \cup {ch}
      /\ \A n \in DOMAIN namespaceBeginCache' :
           namespaceBeginCache'[n] = IF n = ch THEN BeginResult ELSE namespaceBeginCache[n]
  OBVIOUS
<1>4. Typing'
  <2>1. \A n \in DOMAIN namespaceBeginCache' : namespaceBeginCache'[n] \in 0 .. N
    BY <1>1, <1>3 DEF IInv, Typing, TypeOK
  <2> QED
    BY <1>1, <1>2, <1>3, <2>1 DEF IInv, Typing, TypeOK, Phase, N
<1>5. OffsetsRight'
  BY <1>1, <1>2, <1>3 DEF IInv, OffsetsRight, BeginsAt, Ns, Positions, N
<1>6. Phases'
  BY <1>1, <1>2 DEF Phases, BeginsAt, Ns, Positions, N
<1>7. Narrowed'
  BY <1>2 DEF Narrowed
<1>8. NamesSound'
  BY <1>2, NamesKept
<1>9. FindsRight' /\ NamespacesRight'
  BY <1>2, NoQuestionAnswered
<1> QED
  BY <1>4, <1>5, <1>6, <1>7, <1>8, <1>9 DEF IInv

(* A bound of the loop for the end moves, where an entry is looked at.     *)
LEMMA EndStartStep ==
  ASSUME IInv, EndStart
  PROVE  IInv'
<1> USE DEF EndStart
<1>1. /\ call.op \in {"find", "names"} /\ answer = NoAnswer /\ N \in Nat /\ N > 0
  BY DirectoryFacts DEF IInv, Phases, Typing
<1>2. Typing'
  BY <1>1 DEF IInv, Typing, TypeOK, Phase, caches, N
<1>3. OffsetsRight'
  BY CachesKept
<1>5. Phases'
  BY <1>1 DEF IInv, Phases, BeginsAt, Ns, Positions, N
<1>6. Narrowed'
  BY <1>1 DEF Narrowed, N
<1>7. NamesSound'
  BY <1>1 DEF IInv, NamesSound, Named, InFile, Ns, Positions, N, caches
<1>8. FindsRight' /\ NamespacesRight'
  BY <1>1, NoQuestionAnswered
<1> QED
  BY <1>2, <1>3, <1>5, <1>6, <1>7, <1>8 DEF IInv

LEMMA EndStepStep ==
  ASSUME IInv, EndStep
  PROVE  IInv'
<1> USE DEF EndStep, Narrow
<1>1. /\ call.op \in {"find", "names"} /\ answer = NoAnswer
      /\ Middle \in Positions /\ lower < Middle /\ Middle < upper /\ 0 < Middle
      /\ N \in Nat /\ Ns(Middle) \in Int /\ ch \in Int
  BY MiddleBetween, DirectoryFacts DEF IInv, Phases, Typing
<1>2. Typing'
  BY <1>1 DEF IInv, Typing, TypeOK, Phase, caches, N, Positions
<1>3. OffsetsRight'
  BY CachesKept
<1>5. Phases'
  BY <1>1 DEF IInv, Phases, BeginsAt, Ns, Positions, N
<1>6. Narrowed'
  BY <1>1 DEF IInv, Typing, TypeOK, Narrowed, N, Behind, Ns
<1>7. NamesSound'
  BY <1>1 DEF IInv, NamesSound, Named, InFile, Ns, Positions, N, caches
<1>8. FindsRight' /\ NamespacesRight'
  BY <1>1, NoQuestionAnswered
<1> QED
  BY <1>2, <1>3, <1>5, <1>6, <1>7, <1>8 DEF IInv

(* The loop ends where the namespace ends, unless that is before the file. *)
LEMMA EndResultRight ==
  ASSUME IInv, pc = "endLoop", ~More
  PROVE  upper \in 1 .. N /\ EndFound(ch, upper)
<1>1. /\ lower \in 0 .. N /\ upper \in 1 .. N /\ upper = lower + 1 /\ N \in Nat
      /\ dir \in Directory /\ ch \in Int /\ 0 \in Positions /\ lower \in Positions
      /\ \A p \in Positions : Ns(p) \in Int
  BY DirectoryFacts DEF IInv, Typing, TypeOK, More, Positions
<1>2. \A p \in Positions, q \in Positions : p =< q => Ns(p) =< Ns(q)
  BY <1>1, Sorted
<1>3. ASSUME ch >= Ns(0), NEW p \in Positions PROVE p < upper <=> Ns(p) =< ch
  <2>2. Ns(lower) =< ch
    BY <1>1, <1>3 DEF IInv, Narrowed
  <2>3. CASE p < upper
    <3>1. p =< lower
      BY <2>3, <1>1 DEF Positions
    <3> QED
      BY <3>1, <2>2, <2>3, <1>1, <1>2
  <2>4. CASE ~(p < upper)
    <3>1. upper < N /\ upper \in Positions /\ upper =< p
      BY <2>4, <1>1 DEF Positions
    <3>2. Ns(upper) > ch
      BY <3>1, <2>4 DEF IInv, Narrowed
    <3> QED
      BY <3>1, <3>2, <2>4, <1>1, <1>2
  <2> QED
    BY <2>3, <2>4
<1> QED
  BY <1>1, <1>3 DEF EndFound, EndsAt

(* findx and getNamespaces go on with the end offset, or give up.          *)
LEMMA AfterEndStep ==
  ASSUME IInv, pc \in {"end", "endLoop"}, NEW offset \in 1 .. N, EndFound(ch, offset),
         AfterEnd(offset), UNCHANGED <<dir, broken, failed, call, ch, l, namespaces>>
  PROVE  /\ pc' \in Phase /\ lower' \in 0 .. N /\ upper' \in 0 .. N
         /\ pc' \notin {"begin", "beginLoop", "end", "endLoop", "has", "first"}
         /\ pc' = "search" => lower' < upper'
         /\ pc' = "names" => upper' > 0
         /\ answer'.kind = "find" => answer'.idx \in 0 .. N
         /\ Phases' /\ Narrowed' /\ NamesSound' /\ FindsRight' /\ NamespacesRight'
<1>1. /\ N \in Nat /\ dir \in Directory /\ ch \in Int /\ l \in 0 .. N /\ 0 \in Positions
      /\ lower \in 0 .. N /\ upper \in 0 .. N
      /\ \A p \in Positions : Ns(p) \in Int
      /\ \A p \in Positions, by \in By :
              KeyAt(by, p) \in Int /\ Listed(dir, by, p).ns = Ns(p)
      /\ call \in Calls /\ call.op \in {"find", "names"} /\ answer = NoAnswer
  BY DirectoryFacts DEF IInv, Typing, TypeOK, Phases, Positions
<1>2. \A p \in Positions, q \in Positions : p =< q => Ns(p) =< Ns(q)
  BY <1>1, Sorted
<1>3. UNCHANGED <<dir, call, ch, l, namespaces, failed>> /\ N' = N /\ Positions' = Positions
  BY DEF N, Positions
<1>4. CASE call.op = "names"
  <2>1. /\ upper' = offset /\ pc' = "names" /\ lower' = lower /\ answer' = answer
    BY <1>4 DEF AfterEnd
  <2>2. Phases' /\ Narrowed'
    BY <2>1, <1>1, <1>3, <1>4 DEF Phases, Narrowed
  <2>3. FindsRight' /\ NamespacesRight'
    BY <2>1, <1>1, NoQuestionAnswered
  <2>4. EndsAt(ch, offset) /\ namespaces # <<>>
    <3>1. InFile(ch)
      BY <1>4 DEF IInv, NamesSound
    <3>2. ch >= Ns(0)
      BY <3>1, <1>1, <1>2 DEF InFile, Ns, Positions
    <3>3. Named(ch)
      BY <3>1, <1>1, <1>4 DEF IInv, NamesSound, InFile, Ns
    <3> QED
      BY <3>2, <3>3 DEF EndFound, Named
  <2>5. NamesSound'
    <3>1. \A i \in 1 .. Len(namespaces) : namespaces[i] \in Int /\ namespaces[i] =< ch
      BY <1>4 DEF IInv, NamesSound, Typing
    <3>2. \A p \in Positions : p < offset => Named(Ns(p))
      BY <2>4, <1>4 DEF IInv, NamesSound, EndsAt
    <3>3. \A p \in Positions, i \in 1 .. Len(namespaces) : p >= offset => namespaces[i] < Ns(p)
      BY <2>4, <3>1, <1>1 DEF EndsAt, Positions
    <3> QED
      BY <2>1, <2>4, <3>2, <3>3, <1>3, <1>4 DEF IInv, NamesSound, Named, InFile, Ns
  <2> QED
    BY <2>1, <2>2, <2>3, <2>5, <1>1 DEF Phase, NoAnswer
<1>5. CASE call.op = "find"
  <2>1. /\ ch = call.ns /\ BeginsAt(ch, l) /\ call.by \in By /\ call.key \in Int
    BY <1>1, <1>5, DirectoryAssumption DEF IInv, Phases, Calls, By
  <2>2. NamesSound'
    <3>1. pc' \in {"idle", "search"}
      BY <1>5 DEF AfterEnd, Return
    <3> QED
      BY <3>1, <1>3, <1>5, NamesKept
  <2>3. CASE l = offset
    <3>1. /\ pc' = "idle" /\ answer' = Found(FALSE, N) /\ lower' = lower /\ upper' = upper
      BY <2>3, <1>5 DEF AfterEnd, Return
    <3>2. Phases' /\ Narrowed'
      BY <3>1 DEF Phases, Narrowed
    <3>3. ~InFile(ch)
      <4>1. CASE ch >= Ns(0)
        BY <4>1, <2>1, <2>3, <1>1 DEF EndFound, EndsAt, BeginsAt, InFile, Ns
      <4>2. CASE ~(ch >= Ns(0))
        BY <4>2, <1>1, <1>2 DEF InFile, Ns, Positions
      <4> QED
        BY <4>1, <4>2
    <3>4. \A p \in Positions : ~Hit(Listed(dir, call.by, p))
      BY <3>3, <2>1, <1>1 DEF Hit, InFile, Ns
    <3>5. FindsRight' /\ NamespacesRight'
      BY <3>1, <3>3, <3>4, <2>1, <1>3
      DEF FindsRight, FindRight, InsertionPoint, NamespacesRight, Found, Hit, InFile
    <3> QED
      BY <3>1, <3>2, <3>5, <2>2, <1>1 DEF Phase, Found
  <2>4. CASE l # offset
    <3>1. /\ pc' = "search" /\ lower' = l /\ upper' = offset /\ answer' = answer
      BY <2>4, <1>5 DEF AfterEnd
    <3>2. l < offset
      <4>1. CASE ch >= Ns(0)
        <5>1. \A p \in Positions : p < l => p < offset
          BY <4>1, <2>1, <1>1 DEF EndFound, EndsAt, BeginsAt
        <5>2. CASE l = 0
          BY <5>2
        <5>3. CASE l > 0
          <6>1. l - 1 \in Positions /\ l - 1 < l
            BY <5>3, <1>1 DEF Positions
          <6> QED
            BY <6>1, <5>1, <2>4, <1>1
        <5> QED
          BY <5>2, <5>3, <1>1
      <4>2. CASE ~(ch >= Ns(0))
        BY <4>2, <2>1, <1>1 DEF BeginsAt
      <4> QED
        BY <4>1, <4>2
    <3>3. Phases'
      BY <3>1, <2>1, <1>1, <1>3, <1>5 DEF Phases, BeginsAt, Ns
    <3>4. ASSUME ch >= Ns(0)
          PROVE  /\ \A p \in Positions : p < l => Less(Listed(dir, call.by, p))
                 /\ \A p \in Positions : p >= offset => Before(Listed(dir, call.by, p))
                 /\ Ns(l) = ch
      <4>1. EndsAt(ch, offset)
        BY <3>4 DEF EndFound
      <4>2. l \in Positions
        BY <3>2, <1>1 DEF Positions
      <4>3. Ns(l) =< ch /\ ~(Ns(l) < ch)
        BY <4>1, <4>2, <3>2, <2>1, <1>1 DEF EndsAt, BeginsAt
      <4>4. ASSUME NEW p \in Positions, p < l PROVE Less(Listed(dir, call.by, p))
        <5>1. Ns(p) < ch
          BY <4>4, <2>1 DEF BeginsAt
        <5> QED
          BY <5>1, <2>1, <1>1 DEF Less
      <4>5. ASSUME NEW p \in Positions, p >= offset PROVE Before(Listed(dir, call.by, p))
        <5>1. ~(Ns(p) =< ch)
          BY <4>1, <4>5, <1>1 DEF EndsAt, Positions
        <5> QED
          BY <5>1, <2>1, <1>1 DEF Before
      <4> QED
        BY <4>2, <4>3, <4>4, <4>5, <1>1
    <3>5. Narrowed'
      BY <3>1, <3>4, <2>1, <1>3 DEF Narrowed, Ns, Less, Before
    <3>6. FindsRight' /\ NamespacesRight'
      BY <3>1, <1>1, NoQuestionAnswered
    <3> QED
      BY <3>1, <3>2, <3>3, <3>5, <3>6, <2>2, <1>1 DEF Phase, NoAnswer
  <2> QED
    BY <2>3, <2>4
<1> QED
  BY <1>1, <1>4, <1>5
LEMMA EndCachedStep ==
  ASSUME IInv, EndCached
  PROVE  IInv'
<1> USE DEF EndCached
<1> DEFINE offset == namespaceEndCache[ch]
<1>1. offset \in 1 .. N /\ UNCHANGED <<dir, broken, failed, caches, call, ch, l>>
  BY DEF IInv, Typing, TypeOK
<1>2. EndFound(ch, offset)
  BY DEF IInv, OffsetsRight, EndFound, EndsAt, Ns
<1>3. AfterEnd(offset) /\ namespaces' = namespaces
  BY DEF caches
<1> HIDE DEF offset
<1>4. /\ pc' \in Phase /\ lower' \in 0 .. N /\ upper' \in 0 .. N
      /\ pc' \notin {"begin", "beginLoop", "end", "endLoop", "has", "first"}
      /\ pc' = "search" => lower' < upper'
      /\ pc' = "names" => upper' > 0
      /\ answer'.kind = "find" => answer'.idx \in 0 .. N
      /\ Phases' /\ Narrowed' /\ NamesSound' /\ FindsRight' /\ NamespacesRight'
  BY <1>1, <1>2, <1>3, AfterEndStep
<1>5. Typing'
  BY <1>1, <1>4 DEF IInv, Typing, TypeOK, caches, N
<1>6. OffsetsRight'
  BY <1>1, CachesKept
<1> QED
  BY <1>4, <1>5, <1>6 DEF IInv

LEMMA EndDoneStep ==
  ASSUME IInv, EndDone
  PROVE  IInv'
<1> USE DEF EndDone
<1>1. upper \in 1 .. N /\ EndFound(ch, upper)
  BY EndResultRight
<1>2. UNCHANGED <<dir, broken, failed, namespaceBeginCache, namespaces, call, ch, l>>
  OBVIOUS
<1>3. /\ DOMAIN namespaceEndCache' = DOMAIN namespaceEndCache \cup {ch}
      /\ \A n \in DOMAIN namespaceEndCache' :
           namespaceEndCache'[n] = IF n = ch THEN upper ELSE namespaceEndCache[n]
  OBVIOUS
<1>4. /\ pc' \in Phase /\ lower' \in 0 .. N /\ upper' \in 0 .. N
      /\ pc' \notin {"begin", "beginLoop", "end", "endLoop", "has", "first"}
      /\ pc' = "search" => lower' < upper'
      /\ pc' = "names" => upper' > 0
      /\ answer'.kind = "find" => answer'.idx \in 0 .. N
      /\ Phases' /\ Narrowed' /\ NamesSound' /\ FindsRight' /\ NamespacesRight'
  BY <1>1, <1>2, AfterEndStep
<1>5. Typing'
  <2>1. \A n \in DOMAIN namespaceEndCache' : namespaceEndCache'[n] \in 1 .. N
    BY <1>1, <1>3 DEF IInv, Typing, TypeOK
  <2> QED
    BY <1>2, <1>3, <1>4, <2>1 DEF IInv, Typing, TypeOK, N
<1>6. OffsetsRight'
  BY <1>1, <1>2, <1>3 DEF IInv, OffsetsRight, EndFound, EndsAt, Ns, Positions, N
<1> QED
  BY <1>4, <1>5, <1>6 DEF IInv

-----------------------------------------------------------------------------
(* What a search compares, of the entry at a position.                     *)
LEMMA Compared ==
  ASSUME Typing, call.op = "find", NEW p \in Positions
  PROVE  /\ call.by \in By /\ call.ns \in Int /\ call.key \in Int
         /\ Ns(p) \in Int /\ KeyAt(call.by, p) \in Int
         /\ Less(Listed(dir, call.by, p)) <=>
              Ns(p) < call.ns \/ (Ns(p) = call.ns /\ KeyAt(call.by, p) < call.key)
         /\ Before(Listed(dir, call.by, p)) <=>
              call.ns < Ns(p) \/ (Ns(p) = call.ns /\ call.key < KeyAt(call.by, p))
         /\ Hit(Listed(dir, call.by, p)) <=>
              call.ns = Ns(p) /\ call.key = KeyAt(call.by, p)
<1>1. call.by \in By /\ call.ns \in Int /\ call.key \in Int
  BY DirectoryAssumption DEF Typing, Calls, By
<1>2. /\ Ns(p) \in Int /\ KeyAt(call.by, p) \in Int
      /\ Listed(dir, call.by, p).ns = Ns(p)
  BY <1>1, DirectoryFacts DEF Typing
<1> QED
  BY <1>1, <1>2 DEF Less, Before, Hit, KeyAt

(* What is not after an entry that is before, or not before one that is    *)
(* after.                                                                  *)
LEMMA ComparedSorted ==
  ASSUME Typing, call.op = "find", NEW p \in Positions, NEW q \in Positions, p =< q
  PROVE  /\ Less(Listed(dir, call.by, q)) => Less(Listed(dir, call.by, p))
         /\ Before(Listed(dir, call.by, p)) => Before(Listed(dir, call.by, q))
<1>1. Ns(p) =< Ns(q) /\ (Ns(p) = Ns(q) => KeyAt(call.by, p) =< KeyAt(call.by, q))
  BY Sorted, Compared DEF Typing
<1> QED
  BY <1>1, Compared

LEMMA SearchStepStep ==
  ASSUME IInv, SearchStep
  PROVE  IInv'
<1> USE DEF SearchStep, Narrow
<1>1. /\ call.op = "find" /\ ch = call.ns /\ answer = NoAnswer
      /\ Middle \in Positions /\ lower < Middle /\ Middle < upper /\ 0 < Middle
      /\ N \in Nat /\ lower \in 0 .. N /\ upper \in 0 .. N
  BY MiddleBetween, DirectoryFacts DEF IInv, Phases, Typing, TypeOK
<1>2. UNCHANGED <<dir, broken, failed, caches, call, ch, l>> /\ N' = N /\ Positions' = Positions
  BY DEF N, Positions
<1>3. OffsetsRight'
  BY CachesKept
<1>4. NamesSound'
  <2>1. pc' \in {"idle", "search"}
    BY DEF Return
  <2> QED
    BY <1>1, <1>2, <2>1, NamesKept DEF caches
<1>5. CASE Hit(Probe(Middle))
  <2>1. /\ pc' = "idle" /\ answer' = Found(TRUE, Middle) /\ lower' = lower /\ upper' = upper
    BY <1>5 DEF Return
  <2>2. Typing' /\ Phases' /\ Narrowed'
    BY <1>1, <1>2, <2>1 DEF IInv, Typing, TypeOK, Phases, Narrowed, Phase, caches, Found, Positions
  <2>3. FindsRight' /\ NamespacesRight'
    BY <1>1, <1>2, <1>5, <2>1
    DEF FindsRight, FindRight, InsertionPoint, NamespacesRight, Found, Hit, Probe, Positions
  <2> QED
    BY <1>3, <1>4, <2>2, <2>3 DEF IInv
<1>6. CASE ~Hit(Probe(Middle))
  <2>1. /\ pc' = pc /\ answer' = answer /\ lower' \in 0 .. N /\ upper' \in 0 .. N
        /\ lower' < upper'
        /\ Before(Probe(Middle)) => upper' = Middle /\ lower' = lower
        /\ ~Before(Probe(Middle)) => lower' = Middle /\ upper' = upper
    BY <1>1, <1>6 DEF Positions
  <2>2. Typing' /\ Phases'
    BY <1>1, <1>2, <2>1 DEF IInv, Typing, TypeOK, Phases, Phase, caches, NoAnswer, BeginsAt, Ns
  <2>3. ASSUME call.ns >= Ns(0)
        PROVE  /\ \A p \in Positions : p < lower' => Less(Listed(dir, call.by, p))
               /\ \A p \in Positions : p >= upper' => Before(Listed(dir, call.by, p))
               /\ Ns(lower') = call.ns
    <3>1. /\ \A p \in Positions : p < lower => Less(Listed(dir, call.by, p))
          /\ \A p \in Positions : p >= upper => Before(Listed(dir, call.by, p))
          /\ Ns(lower) = call.ns
      BY <2>3 DEF IInv, Narrowed
    <3>2. CASE Before(Probe(Middle))
      BY <1>1, <2>1, <3>1, <3>2, ComparedSorted DEF Probe, IInv, Positions
    <3>3. CASE ~Before(Probe(Middle))
      <4>1. Less(Listed(dir, call.by, Middle))
        BY <1>1, <1>6, <3>3, Compared DEF Probe, IInv
      <4>2. \A p \in Positions : p < Middle => Less(Listed(dir, call.by, p))
        BY <1>1, <4>1, ComparedSorted DEF IInv, Positions
      <4>3. Ns(Middle) = call.ns
        <5>1. lower \in Positions
          BY <1>1 DEF Positions
        <5>2. Ns(Middle) =< call.ns /\ Ns(Middle) \in Int
          BY <1>1, <4>1, Compared DEF IInv
        <5>3. Ns(lower) =< Ns(Middle)
          BY <1>1, <5>1, Sorted DEF IInv, Typing, Positions
        <5> QED
          BY <3>1, <5>2, <5>3, <1>1, Compared DEF IInv
      <4> QED
        BY <2>1, <3>1, <3>3, <4>2, <4>3
    <3> QED
      BY <3>2, <3>3
  <2>4. Narrowed'
    BY <1>2, <2>1, <2>3 DEF Narrowed, Ns, Less, Before
  <2>5. FindsRight' /\ NamespacesRight'
    BY <1>1, <2>1, NoQuestionAnswered
  <2> QED
    BY <1>3, <1>4, <2>2, <2>4, <2>5 DEF IInv
<1> QED
  BY <1>5, <1>6

(* The last entry of a search has the namespace that it is for.            *)
LEMMA SearchDoneStep ==
  ASSUME IInv, SearchDone
  PROVE  IInv'
<1> USE DEF SearchDone
<1> DEFINE key == KeyAt(call.by, lower)
<1>1. /\ call.op = "find" /\ ch = call.ns /\ answer = NoAnswer
      /\ N \in Nat /\ lower \in 0 .. N /\ upper \in 0 .. N /\ upper = lower + 1
      /\ lower \in Positions /\ 0 \in Positions /\ BeginsAt(ch, l)
  BY DirectoryFacts DEF IInv, Phases, Typing, TypeOK, More, Positions
<1>2. UNCHANGED <<dir, broken, failed, caches, call, ch, lower, upper, l>>
      /\ N' = N /\ Positions' = Positions
  BY DEF N, Positions
<1>3. /\ pc' = "idle"
      /\ call.key = key => answer' = Found(TRUE, lower)
      /\ call.key # key => answer' = Found(FALSE, IF call.key < key THEN lower ELSE upper)
  BY DEF Return, Probe, KeyAt, WouldBe
<1> HIDE DEF key
<1>4. OffsetsRight' /\ NamesSound' /\ Phases' /\ Narrowed'
  BY <1>1, <1>2, <1>3, CachesKept, NamesKept DEF caches, Phases, Narrowed
<1>5. Typing'
  BY <1>1, <1>2, <1>3 DEF IInv, Typing, TypeOK, Phase, caches, Found
<1>6. /\ answer'.kind = "find" /\ answer'.found \in BOOLEAN
      /\ answer'.found => answer'.idx = lower /\ call.key = key
      /\ ~answer'.found => call.key # key
      /\ ~answer'.found /\ call.key < key => answer'.idx = lower
      /\ ~answer'.found /\ ~(call.key < key) => answer'.idx = upper
  <2>1. CASE call.key = key
    <3>1. answer'.kind = "find" /\ answer'.found = TRUE /\ answer'.idx = lower
      BY <2>1, <1>3 DEF Found
    <3> QED
      BY <3>1, <2>1, Zenon
  <2>2. CASE call.key # key
    <3>1. /\ answer'.kind = "find" /\ answer'.found = FALSE
          /\ call.key < key => answer'.idx = lower
          /\ ~(call.key < key) => answer'.idx = upper
      BY <2>2, <1>3 DEF Found
    <3> QED
      BY <3>1, <2>2, Zenon
  <2> QED
    BY <2>1, <2>2
<1>7. /\ key \in Int /\ call.key \in Int /\ call.ns \in Int
      /\ \A p \in Positions : Ns(p) \in Int
  BY <1>1, Compared DEF key, IInv
<1>8. ASSUME call.ns >= Ns(0)
      PROVE  /\ \A p \in Positions : p < lower => Less(Listed(dir, call.by, p))
             /\ \A p \in Positions : p >= upper => Before(Listed(dir, call.by, p))
             /\ Ns(lower) = call.ns
  BY <1>8 DEF IInv, Narrowed
<1>9. FindRight'
  <2>1. SUFFICES ASSUME call.ns >= Ns(0)
                 PROVE  /\ answer'.found <=> \E p \in Positions : Hit(Listed(dir, call.by, p))
                        /\ answer'.found => lower < N /\ Hit(Listed(dir, call.by, lower))
    BY <1>2, <1>6 DEF FindRight, Hit, Ns
  <2>2. Hit(Listed(dir, call.by, lower)) <=> call.key = key
    BY <1>1, <1>8, <2>1, Compared DEF key, IInv
  <2>3. ASSUME NEW p \in Positions, Hit(Listed(dir, call.by, p)) PROVE p = lower
    <3>1. ~Less(Listed(dir, call.by, p)) /\ ~Before(Listed(dir, call.by, p))
      BY <1>1, <2>3, Compared DEF IInv
    <3> QED
      BY <1>1, <1>8, <2>1, <3>1 DEF Positions
  <2> QED
    BY <1>1, <1>6, <2>2, <2>3 DEF Positions
<1>10. InsertionPoint'
  <2>1. SUFFICES ASSUME ~answer'.found, InFile(call.ns)
                 PROVE  \A p \in Positions : p < answer'.idx <=> Less(Listed(dir, call.by, p))
    BY <1>2, <1>6 DEF InsertionPoint, InFile, Less
  <2>2. call.ns >= Ns(0)
    <3>1. PICK p \in Positions : Ns(p) = call.ns
      BY <2>1 DEF InFile, Ns
    <3> QED
      BY <3>1, <1>1, <1>7, Sorted DEF Positions, IInv, Typing
  <2>3. Less(Listed(dir, call.by, lower)) <=> key < call.key
    BY <1>1, <1>8, <2>2, Compared DEF key, IInv
  <2>4. ASSUME NEW p \in Positions
        PROVE  p < answer'.idx <=> Less(Listed(dir, call.by, p))
    <3>1. CASE p < lower
      BY <3>1, <1>1, <1>6, <1>8, <2>1, <2>2 DEF Positions
    <3>2. CASE p = lower
      BY <3>2, <1>1, <1>6, <1>7, <2>1, <2>3 DEF Positions
    <3>3. CASE p > lower
      <4>1. Before(Listed(dir, call.by, p))
        BY <3>3, <1>1, <1>8, <2>2 DEF Positions
      <4>2. ~Less(Listed(dir, call.by, p))
        BY <4>1, <1>1, Compared DEF IInv
      <4> QED
        BY <4>2, <3>3, <1>1, <1>6, <2>1 DEF Positions
    <3> QED
      BY <3>1, <3>2, <3>3, <1>1 DEF Positions
  <2> QED
    BY <2>4
<1>11. NamespacesRight'
  BY <1>6 DEF NamespacesRight
<1> QED
  BY <1>4, <1>5, <1>9, <1>10, <1>11 DEF IInv, FindsRight
-----------------------------------------------------------------------------
LEMMA HasNamespaceStep ==
  ASSUME IInv, HasNamespace
  PROVE  IInv'
<1> USE DEF HasNamespace, Return
<1>1. /\ call.op = "has" /\ ch = call.ns /\ BeginsAt(ch, l)
      /\ N \in Nat /\ l \in 0 .. N /\ ch \in Int
      /\ \A p \in Positions : Ns(p) \in Int
  BY DirectoryFacts DEF IInv, Phases, Typing, TypeOK
<1>2. UNCHANGED <<dir, broken, failed, caches, call, ch, lower, upper, l>>
      /\ N' = N /\ Positions' = Positions
  BY DEF N, Positions
<1>3. pc' = "idle" /\ answer' = Has(AtOffset(l))
  OBVIOUS
<1>4. OffsetsRight' /\ NamesSound' /\ Phases' /\ Narrowed'
  BY <1>1, <1>2, <1>3, CachesKept, NamesKept DEF caches, Phases, Narrowed
<1>5. Typing'
  BY <1>1, <1>2, <1>3 DEF IInv, Typing, TypeOK, Phase, caches, Has
<1>6. AtOffset(l) <=> InFile(call.ns)
  <2>1. ASSUME NEW p \in Positions, Ns(p) = ch PROVE l < N /\ Ns(l) = ch
    <3>1. ~(p < l)
      BY <1>1, <2>1 DEF BeginsAt
    <3>2. l \in Positions /\ l =< p /\ l < N
      BY <1>1, <3>1 DEF Positions
    <3>3. Ns(l) =< Ns(p) /\ ~(Ns(l) < ch)
      BY <1>1, <3>2, Sorted DEF BeginsAt, IInv, Typing
    <3> QED
      BY <1>1, <2>1, <3>2, <3>3
  <2>2. l < N => l \in Positions
    BY <1>1 DEF Positions
  <2> QED
    BY <1>1, <2>1, <2>2 DEF AtOffset, InFile, Ns
<1>7. FindsRight' /\ NamespacesRight'
  BY <1>2, <1>3, <1>6
  DEF FindsRight, FindRight, InsertionPoint, NamespacesRight, Has, InFile
<1> QED
  BY <1>4, <1>5, <1>7 DEF IInv

(* The names got so far are those of the whole file, while getting an      *)
(* entry has not failed.                                                   *)
LEMMA NamesAnswered ==
  ASSUME NamesSound, Typing, ~failed,
         \A p \in Positions : Named(Ns(p)),
         UNCHANGED <<dir, failed>>, answer' = Names(namespaces)
  PROVE  NamespacesRight'
<1>1. DOMAIN namespaces = 1 .. Len(namespaces)
  BY DEF Typing
<1>2. answer'.kind = "names" /\ answer'.list = namespaces
  BY DEF Names
<1>3. Positions' = Positions
  BY DEF Positions, N
<1>4. \A p \in Positions : \E i \in DOMAIN namespaces : namespaces[i] = Ns(p)
  BY <1>1 DEF Named
<1>5. /\ \A i \in DOMAIN namespaces : InFile(namespaces[i])
      /\ \A i, j \in DOMAIN namespaces : i < j => namespaces[i] < namespaces[j]
  BY <1>1 DEF NamesSound
<1> QED
  BY <1>2, <1>3, <1>4, <1>5 DEF NamespacesRight, InFile, Ns

LEMMA AskNamesStep ==
  ASSUME IInv, AskNames
  PROVE  IInv'
<1> USE DEF AskNames, Return
<1>1. /\ call' = [op |-> "names"] /\ call' \in Calls
      /\ UNCHANGED <<dir, broken, failed, caches, ch, lower, upper, l>>
      /\ N' = N /\ Positions' = Positions
  BY DEF Calls, N, Positions
<1>2. OffsetsRight'
  BY CachesKept
<1>3. CASE namespaces # <<>>
  <2>1. pc' = "idle" /\ answer' = Names(namespaces)
    BY <1>3
  <2>2. Typing' /\ Phases' /\ Narrowed'
    BY <1>1, <2>1 DEF IInv, Typing, TypeOK, Phases, Narrowed, Phase, caches, Names
  <2>3. NamesSound'
    BY <1>1, <2>1 DEF IInv, NamesSound, Named, InFile, Ns, caches
  <2>4. FindsRight'
    BY <2>1 DEF FindsRight, FindRight, InsertionPoint, Names
  <2>5. NamespacesRight'
    <3>1. CASE failed
      BY <3>1, <1>1, <2>1 DEF NamespacesRight, Names
    <3>2. CASE ~failed
      <4>1. \A p \in Positions : Named(Ns(p))
        BY <3>2, <1>3 DEF IInv, NamesSound
      <4> QED
        BY <3>2, <4>1, <1>1, <2>1, NamesAnswered DEF IInv
    <3> QED
      BY <3>1, <3>2
  <2> QED
    BY <1>2, <2>2, <2>3, <2>4, <2>5 DEF IInv
<1>4. CASE namespaces = <<>>
  <2>1. pc' = "first" /\ answer' = NoAnswer
    BY <1>4
  <2>2. Typing' /\ Phases' /\ Narrowed'
    BY <1>1, <2>1 DEF IInv, Typing, TypeOK, Phases, Narrowed, Phase, caches, NoAnswer
  <2>3. NamesSound'
    BY <1>1, <1>4, <2>1 DEF IInv, NamesSound, Named, InFile, Ns, caches
  <2>4. FindsRight' /\ NamespacesRight'
    BY <2>1, NoQuestionAnswered
  <2> QED
    BY <1>2, <2>2, <2>3, <2>4 DEF IInv
<1> QED
  BY <1>3, <1>4

(* The name of the entry at p, the first of its namespace, comes last.     *)
LEMMA NextNameStep ==
  ASSUME IInv, NEW p \in Positions, NextName(p), pc \in {"first", "names"}, call.op = "names",
         UNCHANGED <<dir, broken, failed, namespaceBeginCache, namespaceEndCache, call,
                     lower, upper, l, answer>>,
         \A i \in 1 .. Len(namespaces) : namespaces[i] < Ns(p),
         \A q \in Positions : q < p => Named(Ns(q))
  PROVE  IInv'
<1>1. /\ namespaces' = Append(namespaces, Ns(p)) /\ ch' = Ns(p) /\ pc' = "end"
      /\ namespaces \in Seq(Int) /\ answer' = NoAnswer
      /\ Ns(p) \in Int /\ N \in Nat /\ N > 0
      /\ \A q \in Positions : Ns(q) \in Int
  BY DirectoryFacts DEF NextName, Ns, IInv, Typing, Phases, Positions
<1>2. N' = N /\ Positions' = Positions
  BY DEF N, Positions
<1>3. /\ namespaces' \in Seq(Int) /\ Len(namespaces') = Len(namespaces) + 1
      /\ \A i \in 1 .. Len(namespaces) : namespaces'[i] = namespaces[i] /\ namespaces[i] \in Int
      /\ namespaces'[Len(namespaces) + 1] = Ns(p)
      /\ Len(namespaces) \in Nat
  BY <1>1
<1>4. Typing'
  BY <1>1, <1>2, <1>3 DEF IInv, Typing, TypeOK, Phase
<1>5. OffsetsRight'
  BY <1>2 DEF IInv, OffsetsRight
<1>6. Phases' /\ Narrowed'
  BY <1>1 DEF Phases, Narrowed
<1>7. NamesSound'
  <2>1. \A i \in 1 .. Len(namespaces') : i \in 1 .. Len(namespaces) \/ i = Len(namespaces) + 1
    BY <1>3
  <2>2. \A i \in 1 .. Len(namespaces') : InFile(namespaces'[i])
    BY <1>3, <2>1 DEF IInv, NamesSound, InFile, Ns
  <2>3. \A i, j \in 1 .. Len(namespaces') : i < j => namespaces'[i] < namespaces'[j]
    <3>1. ASSUME NEW i \in 1 .. Len(namespaces'), NEW j \in 1 .. Len(namespaces'), i < j
          PROVE  namespaces'[i] < namespaces'[j]
      <4>1. i \in 1 .. Len(namespaces)
        BY <1>3, <3>1
      <4>2. CASE j \in 1 .. Len(namespaces)
        BY <1>3, <3>1, <4>1, <4>2 DEF IInv, NamesSound
      <4>3. CASE j = Len(namespaces) + 1
        BY <1>3, <4>1, <4>3
      <4> QED
        BY <2>1, <4>2, <4>3
    <3> QED
      BY <3>1
  <2>4. \A i \in 1 .. Len(namespaces') : namespaces'[i] =< Ns(p)
    BY <1>1, <1>3, <2>1
  <2>5. InFile(Ns(p))
    BY DEF InFile, Ns
  <2>6. ASSUME NEW q \in Positions, Ns(q) =< Ns(p)
        PROVE  \E i \in 1 .. Len(namespaces') : namespaces'[i] = Ns(q)
    <3>1. CASE q < p
      <4>1. PICK i \in 1 .. Len(namespaces) : namespaces[i] = Ns(q)
        BY <3>1 DEF Named
      <4> QED
        BY <4>1, <1>3
    <3>2. CASE ~(q < p)
      <4>1. p =< q
        BY <3>2, <1>1 DEF Positions
      <4>2. Ns(p) =< Ns(q)
        BY <4>1, Sorted DEF IInv, Typing
      <4>3. Ns(q) = Ns(p)
        BY <4>2, <2>6, <1>1
      <4> QED
        BY <4>3, <1>3
    <3> QED
      BY <3>1, <3>2
  <2> QED
    BY <1>1, <1>2, <2>2, <2>3, <2>4, <2>5, <2>6 DEF NamesSound, Named, InFile, Ns
<1>8. FindsRight' /\ NamespacesRight'
  BY <1>1, NoQuestionAnswered
<1> QED
  BY <1>4, <1>5, <1>6, <1>7, <1>8 DEF IInv

LEMMA NamesFirstStep ==
  ASSUME IInv, NamesFirst
  PROVE  IInv'
<1>1. /\ 0 \in Positions /\ call.op = "names" /\ namespaces = <<>>
      /\ \A q \in Positions : ~(q < 0)
  BY DirectoryFacts DEF IInv, Typing, Phases, NamesSound, NamesFirst, Positions
<1> QED
  BY <1>1, NextNameStep DEF NamesFirst

LEMMA NamesStepStep ==
  ASSUME IInv, NamesStep
  PROVE  IInv'
<1>1. upper \in Positions /\ call.op = "names" /\ pc = "names"
  BY DirectoryFacts DEF IInv, Typing, TypeOK, Phases, NamesStep, AtEnd, Positions
<1>2. /\ \A q \in Positions : q < upper => Named(Ns(q))
      /\ \A i \in 1 .. Len(namespaces) : namespaces[i] < Ns(upper)
  BY <1>1 DEF IInv, NamesSound, Positions
<1> QED
  BY <1>1, <1>2, NextNameStep DEF NamesStep

LEMMA NamesDoneStep ==
  ASSUME IInv, NamesDone
  PROVE  IInv'
<1> USE DEF NamesDone, Return
<1>1. /\ call.op = "names" /\ pc' = "idle" /\ answer' = Names(namespaces)
      /\ UNCHANGED <<dir, broken, failed, caches, call, ch, lower, upper, l>>
      /\ N' = N /\ Positions' = Positions /\ N \in Nat
      /\ \A p \in Positions : p < upper
  BY DirectoryFacts DEF IInv, Phases, Typing, TypeOK, N, Positions, AtEnd
<1>2. OffsetsRight'
  BY CachesKept
<1>3. \A p \in Positions : Named(Ns(p))
  BY <1>1 DEF IInv, NamesSound
<1>4. Typing' /\ Phases' /\ Narrowed'
  BY <1>1 DEF IInv, Typing, TypeOK, Phases, Narrowed, Phase, caches, Names
<1>5. NamesSound'
  BY <1>1, <1>3 DEF IInv, NamesSound, Named, InFile, Ns, caches
<1>6. FindsRight'
  BY <1>1 DEF FindsRight, FindRight, InsertionPoint, Names
<1>7. NamespacesRight'
  <2>1. CASE failed
    BY <2>1, <1>1 DEF NamespacesRight, Names
  <2>2. CASE ~failed
    BY <2>2, <1>1, <1>3, NamesAnswered DEF IInv
  <2> QED
    BY <2>1, <2>2
<1> QED
  BY <1>2, <1>4, <1>5, <1>6, <1>7 DEF IInv

-----------------------------------------------------------------------------
(* A call that throws leaves the caches as they are, and the names that    *)
(* getNamespaces has got.                                                  *)
LEMMA ThrowStep ==
  ASSUME IInv, pc # "idle", Return(Error),
         failed' = TRUE \/ (N = 0 /\ failed' = failed /\ broken' = broken),
         broken' \in {broken, TRUE},
         UNCHANGED <<dir, caches, call, ch, lower, upper, l>>
  PROVE  IInv'
<1>1. /\ pc' = "idle" /\ answer' = Error /\ N' = N /\ Positions' = Positions
      /\ failed \in BOOLEAN /\ broken \in BOOLEAN
  BY DEF Return, N, Positions, IInv, Typing, TypeOK
<1>2. N = 0 => Positions = {}
  BY DEF Positions
<1>3. OffsetsRight'
  BY CachesKept
<1>4. DOMAIN namespaceBeginCache # {} => N > 0
  BY DEF IInv, Typing
<1>5. broken' \in BOOLEAN /\ failed' \in BOOLEAN /\ (broken' => failed')
  <2>1. broken => failed
    BY DEF IInv, Typing, TypeOK
  <2>2. CASE failed' = TRUE
    <3>1. broken' = broken \/ broken' = TRUE
      OBVIOUS
    <3> QED
      BY <1>1, <2>2, <3>1, Zenon
  <2>3. CASE failed' = failed /\ broken' = broken
    BY <1>1, <2>1, <2>3, Zenon
  <2> QED
    BY <2>2, <2>3
<1>6. Typing' /\ Phases' /\ Narrowed'
  BY <1>1, <1>4, <1>5 DEF IInv, Typing, TypeOK, Phases, Narrowed, Phase, caches, Error
<1>7. NamesSound'
  BY <1>1, <1>2 DEF IInv, NamesSound, Named, InFile, Ns, caches
<1>8. FindsRight' /\ NamespacesRight'
  BY <1>1, NoQuestionAnswered
<1> QED
  BY <1>3, <1>6, <1>7, <1>8 DEF IInv

LEMMA ThrowsStep ==
  ASSUME IInv, Throws \/ ThrowsEmpty
  PROVE  IInv'
<1>1. pc # "idle"
  BY DEF Throws, ThrowsEmpty, Reads
<1> QED
  BY <1>1, ThrowStep DEF Throws, ThrowsEmpty

LEMMA StutterStep ==
  ASSUME IInv, UNCHANGED vars
  PROVE  IInv'
<1>1. UNCHANGED <<dir, broken, failed, namespaceBeginCache, namespaceEndCache, namespaces>>
      /\ UNCHANGED <<pc, call, ch, lower, upper, l, answer>>
      /\ N' = N /\ Positions' = Positions
  BY DEF vars, caches, N, Positions
<1>2. Typing' /\ OffsetsRight'
  BY <1>1 DEF IInv, Typing, TypeOK, OffsetsRight
<1>3. Phases' /\ Narrowed'
  BY <1>1 DEF IInv, Phases, Narrowed, BeginsAt, Ns, Less, Before
<1>4. NamesSound'
  BY <1>1 DEF IInv, NamesSound, Named, InFile, Ns
<1>5. FindsRight' /\ NamespacesRight'
  BY <1>1 DEF IInv, FindsRight, FindRight, InsertionPoint, NamespacesRight, InFile, Less, Hit
<1> QED
  BY <1>2, <1>3, <1>4, <1>5 DEF IInv

LEMMA InitOK == Init => IInv
<1> SUFFICES ASSUME Init PROVE IInv
  OBVIOUS
<1> USE DEF Init
<1>1. N \in Nat
  BY DirectoryFacts
<1>2. Typing
  <2>1. broken \in BOOLEAN /\ failed \in BOOLEAN /\ (broken => failed)
    BY Zenon
  <2>2. TypeOK
    BY <1>1, <2>1 DEF TypeOK, Empty, NoAnswer
  <2> QED
    BY <2>2 DEF Typing, Phase, Calls, Empty
<1>3. OffsetsRight
  BY DEF OffsetsRight, Empty
<1>4. Phases /\ Narrowed /\ NamesSound
  BY DEF Phases, Narrowed, NamesSound
<1>5. FindsRight /\ NamespacesRight
  BY DEF FindsRight, FindRight, InsertionPoint, NamespacesRight, NoAnswer
<1> QED
  BY <1>2, <1>3, <1>4, <1>5 DEF IInv

LEMMA StepOK == IInv /\ [Next]_vars => IInv'
<1> SUFFICES ASSUME IInv, [Next]_vars PROVE IInv'
  OBVIOUS
<1>1. CASE Ask
  BY <1>1, AskStep
<1>2. CASE AskNames
  BY <1>2, AskNamesStep
<1>3. CASE BeginCached \/ BeginStart \/ BeginStep \/ BeginDone
  BY <1>3, BeginCachedStep, BeginStartStep, BeginStepStep, BeginDoneStep
<1>4. CASE EndCached \/ EndStart \/ EndStep \/ EndDone
  BY <1>4, EndCachedStep, EndStartStep, EndStepStep, EndDoneStep
<1>5. CASE SearchStep \/ SearchDone
  BY <1>5, SearchStepStep, SearchDoneStep
<1>6. CASE HasNamespace \/ NamesFirst \/ NamesStep \/ NamesDone
  BY <1>6, HasNamespaceStep, NamesFirstStep, NamesStepStep, NamesDoneStep
<1>7. CASE ThrowsEmpty \/ Throws
  BY <1>7, ThrowsStep
<1>8. CASE UNCHANGED vars
  BY <1>8, StutterStep
<1> QED
  BY <1>1, <1>2, <1>3, <1>4, <1>5, <1>6, <1>7, <1>8 DEF Next, Continue

LEMMA Invariant == Spec => []IInv
  BY InitOK, StepOK, PTL DEF Spec

(* The bounds of every search stay in the directory and never cross, and   *)
(* what getNamespaceBeginOffset and getNamespaceEndOffset keep is right,   *)
(* however the searches that filled their caches ended.                    *)
THEOREM OffsetsTheorem == Spec => []OffsetsSound
<1>1. IInv => OffsetsSound
  BY DEF IInv, Typing, OffsetsSound
<1> QED
  BY <1>1, Invariant, PTL

(* findx and findxByTitle find an article just when there is one, and      *)
(* return where it is, or, in a namespace of the file, where it would be.  *)
THEOREM FindsTheorem == Spec => []FindsRight
<1>1. IInv => FindsRight
  BY DEF IInv
<1> QED
  BY <1>1, Invariant, PTL

(* hasNamespace is right for every namespace, and getNamespaces names      *)
(* those of the file once and in order, as long as no read has failed.     *)
THEOREM NamespacesTheorem == Spec => []NamespacesRight
<1>1. IInv => NamespacesRight
  BY DEF IInv
<1> QED
  BY <1>1, Invariant, PTL

-----------------------------------------------------------------------------
(* Search *)

Title == Seq(Int)

LEMMA Least ==
  ASSUME NEW S, S \subseteq Nat, S # {}
  PROVE  \E n \in S : \A m \in S : n =< m
<1> DEFINE R == {ss \in Nat \X Nat : ss[1] < ss[2]}
<1>1. IsWellFoundedOn(R, Nat)
  BY NatLessThanWellFounded DEF OpToRel
<1>2. \A x, y \in Nat : <<x, y>> \in R <=> x < y
  OBVIOUS
<1> HIDE DEF R
<1>3. \E x \in S : \A y \in S : <<y, x>> \notin R
  BY <1>1, WFMin, Zenon
<1>4. PICK x \in S : \A y \in S : <<y, x>> \notin R
  BY <1>3
<1>5. ASSUME NEW y \in S PROVE x =< y
  <2>1. x \in Nat /\ y \in Nat /\ ~(y < x)
    BY <1>2, <1>4
  <2> QED
    BY <2>1
<1> QED
  BY <1>5


LEMMA LeastIsMin ==
  ASSUME NEW S, S \subseteq Nat, NEW e \in S, \A n \in S : e =< n
  PROVE  Min(S) = e
<1> DEFINE P(x) == x \in S /\ \A y \in S : x =< y
<1>1. \A x : P(x) <=> x = e
  <2>1. P(e)
    OBVIOUS
  <2>2. ASSUME NEW x, P(x) PROVE x = e
    <3>1. x \in Nat /\ e \in Nat /\ x =< e /\ e =< x
      BY <2>2
    <3> QED
      BY <3>1
  <2> QED
    BY <2>1, <2>2
<1>2. Min(S) = CHOOSE x : P(x)
  BY DEF Min
<1> HIDE DEF P
<1> QED
  BY <1>1, <1>2, Zenon

(* s is greater than t from its letter i on. *)
AboveAt(s, t, i) ==
  /\ i \in 1 .. Len(s) /\ i =< Len(t) + 1
  /\ \A j \in 1 .. i - 1 : s[j] = t[j]
  /\ i =< Len(t) => s[i] > t[i]

LEMMA PrefixIs ==
  ASSUME NEW s \in Title, NEW t \in Title
  PROVE  IsPrefix(s, t) <=> /\ Len(s) =< Len(t)
                            /\ \A i \in 1 .. Len(s) : s[i] = t[i]
<1>1. ASSUME Len(s) =< Len(t)
      PROVE  /\ SubSeq(s, 1, Len(s)) = s
             /\ SubSeq(t, 1, Len(s)) \in Title
             /\ Len(SubSeq(t, 1, Len(s))) = Len(s)
             /\ \A i \in 1 .. Len(s) : SubSeq(t, 1, Len(s))[i] = t[i]
  BY <1>1 DEF Title
<1> DEFINE head == SubSeq(t, 1, Len(s))
<1>2. ASSUME Len(s) =< Len(t), \A i \in 1 .. Len(s) : s[i] = t[i]
      PROVE  s = head
  BY <1>1, <1>2 DEF Title
<1> QED
  BY <1>1, <1>2 DEF IsPrefix, Title

LEMMA SameTitle ==
  ASSUME NEW s \in Title, NEW t \in Title, Len(s) = Len(t),
         \A i \in 1 .. Len(s) : s[i] = t[i]
  PROVE  s = t
  BY DEF Title

LEMMA GreaterIs ==
  ASSUME NEW s \in Title, NEW t \in Title
  PROVE  Greater(s, t) <=> \E i \in Nat : AboveAt(s, t, i)
<1>1. Len(s) \in Nat /\ Len(t) \in Nat /\ DOMAIN s = 1 .. Len(s) /\ DOMAIN t = 1 .. Len(t)
  BY DEF Title
<1>2. ASSUME IsStrictPrefix(t, s)
      PROVE  AboveAt(s, t, Len(t) + 1)
  <2>1. Len(t) =< Len(s) /\ (\A i \in 1 .. Len(t) : t[i] = s[i]) /\ t # s
    BY <1>2, PrefixIs DEF IsStrictPrefix
  <2>2. Len(t) # Len(s)
    BY <2>1, SameTitle
  <2>3. PICK n \in Nat : n = Len(t)
    BY <1>1
  <2>4. PICK m \in Nat : m = Len(s)
    BY <1>1
  <2>5. n =< m /\ n # m
    BY <2>1, <2>2, <2>3, <2>4
  <2>6. n + 1 \in 1 .. m /\ n + 1 - 1 = n /\ ~(n + 1 =< n)
    BY <2>5
  <2> QED
    BY <2>1, <2>3, <2>4, <2>6 DEF AboveAt
<1>3. ASSUME NEW i \in Nat, AboveAt(s, t, i)
      PROVE  Greater(s, t)
  <2>1. CASE i =< Len(t)
    BY <1>1, <1>3, <2>1 DEF Greater, AboveAt
  <2>2. CASE i = Len(t) + 1
    <3>1. Len(t) < Len(s) /\ \A j \in 1 .. Len(t) : t[j] = s[j]
      BY <1>1, <1>3, <2>2 DEF AboveAt
    <3>2. IsPrefix(t, s) /\ t # s
      BY <1>1, <3>1, PrefixIs
    <3> QED
      BY <3>2 DEF Greater, IsStrictPrefix
  <2> QED
    BY <1>1, <1>3, <2>1, <2>2 DEF AboveAt
<1>4. ASSUME NEW i \in DOMAIN s \cap DOMAIN t, s[i] > t[i], \A j \in 1 .. i - 1 : s[j] = t[j]
      PROVE  AboveAt(s, t, i)
  BY <1>1, <1>4 DEF AboveAt
<1> QED
  BY <1>1, <1>2, <1>3, <1>4 DEF Greater

LEMMA GreaterTransitive ==
  ASSUME NEW s \in Title, NEW t \in Title, NEW u \in Title, Greater(s, t), Greater(t, u)
  PROVE  Greater(s, u)
<1>1. Len(s) \in Nat /\ Len(t) \in Nat /\ Len(u) \in Nat
  BY DEF Title
<1>2. /\ \A i \in 1 .. Len(s) : s[i] \in Int
      /\ \A i \in 1 .. Len(t) : t[i] \in Int
      /\ \A i \in 1 .. Len(u) : u[i] \in Int
  BY DEF Title
<1>3. PICK i \in Nat : AboveAt(s, t, i)
  BY GreaterIs
<1>4. PICK j \in Nat : AboveAt(t, u, j)
  BY GreaterIs
<1>5. CASE i =< j
  <2>1. AboveAt(s, u, i)
    BY <1>1, <1>2, <1>3, <1>4, <1>5 DEF AboveAt
  <2> QED
    BY <2>1, GreaterIs
<1>6. CASE j < i
  <2>1. AboveAt(s, u, j)
    BY <1>1, <1>2, <1>3, <1>4, <1>6 DEF AboveAt
  <2> QED
    BY <2>1, GreaterIs
<1> QED
  BY <1>5, <1>6

LEMMA GreaterIrreflexive ==
  ASSUME NEW s \in Title
  PROVE  ~Greater(s, s)
<1>1. Len(s) \in Nat /\ \A i \in 1 .. Len(s) : s[i] \in Int
  BY DEF Title
<1> QED
  BY <1>1, GreaterIs DEF AboveAt

LEMMA GreaterTotal ==
  ASSUME NEW s \in Title, NEW t \in Title
  PROVE  s = t \/ Greater(s, t) \/ Greater(t, s)
<1>1. /\ Len(s) \in Nat /\ \A i \in 1 .. Len(s) : s[i] \in Int
      /\ Len(t) \in Nat /\ \A i \in 1 .. Len(t) : t[i] \in Int
  BY DEF Title
<1> DEFINE Parts(i) == i \in 1 .. Len(s) /\ i \in 1 .. Len(t) /\ s[i] # t[i]
<1>2. CASE \E i \in Nat : Parts(i)
  <2>1. PICK i \in {j \in Nat : Parts(j)} : \A j \in {k \in Nat : Parts(k)} : i =< j
    <3> HIDE DEF Parts
    <3> QED
      BY <1>2, Least
  <2>2. AboveAt(s, t, i) \/ AboveAt(t, s, i)
    BY <1>1, <2>1 DEF AboveAt
  <2> QED
    BY <2>2, GreaterIs
<1>3. CASE \A i \in Nat : ~Parts(i)
  <2>1. CASE Len(s) = Len(t)
    BY <1>1, <1>3, <2>1, SameTitle
  <2>2. CASE Len(s) > Len(t)
    <3>1. AboveAt(s, t, Len(t) + 1)
      BY <1>1, <1>3, <2>2 DEF AboveAt
    <3> QED
      BY <1>1, <3>1, GreaterIs
  <2>3. CASE Len(s) < Len(t)
    <3>1. AboveAt(t, s, Len(s) + 1)
      BY <1>1, <1>3, <2>3 DEF AboveAt
    <3> QED
      BY <1>1, <3>1, GreaterIs
  <2> QED
    BY <1>1, <2>1, <2>2, <2>3
<1> QED
  BY <1>2, <1>3

LEMMA BeginIs ==
  ASSUME NEW s \in Title, NEW w \in Title
  PROVE  /\ Begin(s, w) \in Title
         /\ Len(Begin(s, w)) = IF Len(s) =< Len(w) THEN Len(s) ELSE Len(w)
         /\ \A i \in 1 .. Len(Begin(s, w)) : Begin(s, w)[i] = s[i]
<1>1. PICK m \in Nat : m = IF Len(s) =< Len(w) THEN Len(s) ELSE Len(w)
  BY DEF Title
<1>2. Min({Len(s), Len(w)}) = m
  BY <1>1 DEF Min, Title
<1>3. m =< Len(s)
  BY <1>1 DEF Title
<1>4. Begin(s, w) = SubSeq(s, 1, m)
  BY <1>2 DEF Begin
<1> QED
  BY <1>1, <1>3, <1>4 DEF Title

LEMMA BeginsWith ==
  ASSUME NEW s \in Title, NEW w \in Title, ~Greater(w, s), ~Greater(Begin(s, w), w)
  PROVE  IsPrefix(w, s)
<1>1. Len(s) \in Nat /\ Len(w) \in Nat
  BY DEF Title
<1>2. CASE s = w
  BY <1>1, <1>2, PrefixIs
<1>3. CASE s # w
  <2>1. PICK i \in Nat : AboveAt(s, w, i)
    BY <1>3, GreaterTotal, GreaterIs
  <2>2. ~(i =< Len(w))
    <3>1. ~AboveAt(Begin(s, w), w, i)
      BY BeginIs, GreaterIs
    <3> QED
      BY <1>1, <2>1, <3>1, BeginIs DEF AboveAt
  <2> QED
    BY <1>1, <2>1, <2>2, PrefixIs DEF AboveAt
<1> QED
  BY <1>2, <1>3

LEMMA PrefixesLess ==
  ASSUME NEW w \in Title, NEW s \in Title, IsPrefix(w, s)
  PROVE  ~Greater(w, s)
<1>1. Len(s) \in Nat /\ Len(w) \in Nat /\ \A i \in 1 .. Len(s) : s[i] \in Int
  BY DEF Title
<1>2. Len(w) =< Len(s) /\ \A i \in 1 .. Len(w) : w[i] = s[i]
  BY PrefixIs
<1> QED
  BY <1>1, <1>2, GreaterIs DEF AboveAt

LEMMA BeginsUpTo ==
  ASSUME NEW w \in Title, NEW s \in Title, NEW t \in Title,
         ~Greater(s, t), IsPrefix(w, t)
  PROVE  ~Greater(Begin(s, w), w)
<1>1. Len(s) \in Nat /\ Len(w) \in Nat /\ Len(t) \in Nat
  BY DEF Title
<1>2. Len(w) =< Len(t) /\ \A i \in 1 .. Len(w) : w[i] = t[i]
  BY PrefixIs
<1>3. ASSUME NEW i \in Nat, AboveAt(Begin(s, w), w, i)
      PROVE  AboveAt(s, t, i)
  BY <1>1, <1>2, <1>3, BeginIs DEF AboveAt
<1> QED
  BY <1>3, BeginIs, GreaterIs

-----------------------------------------------------------------------------
(* The order by title *)

NsAt(p) == Entry(ByTitle(p)).ns
TitleAt(p) == Entry(ByTitle(p)).title

LEMMA FileFacts ==
  ASSUME file \in File
  PROVE  /\ Size \in Nat
         /\ \A a \in Articles : Entry(a).ns \in Int /\ Entry(a).title \in Title
         /\ file.byTitle \in Seq(Articles) /\ Len(file.byTitle) = Size
         /\ \A p \in Articles : ByTitle(p) \in Articles
         /\ \A a \in Articles : \E p \in Articles : ByTitle(p) = a
<1>1. PICK entry, byTitle : entry = file.entry /\ byTitle = file.byTitle
  OBVIOUS
<1>2. /\ entry \in Seq([ns : Int, title : Seq(Int), to : Int])
      /\ byTitle \in Seq(0 .. Len(entry) - 1)
      /\ Len(byTitle) = Len(entry)
      /\ \A a \in 0 .. Len(entry) - 1 : \E p \in DOMAIN byTitle : byTitle[p] = a
  <2>1. Written(file)
    BY FileAssumption
  <2> QED
    BY ONLY <1>1, <2>1 DEF Written
<1>3. PICK n \in Nat : n = Len(entry)
  BY <1>2
<1>4. \A i \in 1 .. n : entry[i] \in [ns : Int, title : Seq(Int), to : Int]
  <2> DEFINE R == [ns : Int, title : Seq(Int), to : Int]
  <2>1. entry \in Seq(R)
    BY <1>2
  <2> HIDE DEF R
  <2>2. \A i \in 1 .. n : entry[i] \in R
    BY <1>3, <2>1
  <2> QED
    BY <2>2 DEF R
<1>5. \A i \in 1 .. n : byTitle[i] \in 0 .. n - 1
  BY <1>2, <1>3
<1>6. ASSUME NEW a \in 0 .. n - 1
      PROVE  \E p \in 0 .. n - 1 : byTitle[p + 1] = a
  <2>1. PICK p \in DOMAIN byTitle : byTitle[p] = a
    BY <1>2, <1>3
  <2>2. p \in 1 .. n
    BY <1>2, <1>3
  <2>3. p - 1 \in 0 .. n - 1 /\ p - 1 + 1 = p
    BY <2>2
  <2> QED
    BY <2>1, <2>3
<1>7. \A p \in 0 .. n - 1 : p + 1 \in 1 .. n
  OBVIOUS
<1> QED
  BY <1>1, <1>2, <1>3, <1>4, <1>5, <1>6, <1>7 DEF Size, Articles, Entry, ByTitle, Title

LEMMA FileSorted ==
  ASSUME file \in File, NEW p \in Articles, NEW q \in Articles, q < p
  PROVE  /\ ByTitle(q) # ByTitle(p)
         /\ NsAt(q) < NsAt(p) \/ (NsAt(q) = NsAt(p) /\ ~Greater(TitleAt(q), TitleAt(p)))
<1>1. PICK f : f = file
  OBVIOUS
<1>2. \A pp \in DOMAIN f.byTitle : \A qq \in 1 .. pp - 1 :
         LET d == f.entry[f.byTitle[qq] + 1]
             e == f.entry[f.byTitle[pp] + 1]
         IN /\ f.byTitle[qq] # f.byTitle[pp]
            /\ d.ns < e.ns \/ (d.ns = e.ns /\ ~Greater(d.title, e.title))
  <2>1. Written(file)
    BY FileAssumption
  <2> QED
    BY ONLY <1>1, <2>1 DEF Written
<1>3. DOMAIN f.byTitle = 1 .. Size
  BY <1>1, FileFacts
<1>4. p + 1 \in 1 .. Size /\ q + 1 \in 1 .. (p + 1) - 1
  BY FileFacts DEF Articles
<1> QED
  BY <1>1, <1>2, <1>3, <1>4 DEF NsAt, TitleAt, Entry, ByTitle

LEMMA StartsAt ==
  ASSUME file \in File, NEW ns \in Int, NEW w \in Title, NEW start \in FindByTitle(ns, w)
  PROVE  /\ start \in 0 .. Size
         /\ \A p \in Articles : p >= start => NsAt(p) >= ns
         /\ \A p \in Articles : NsAt(p) = ns /\ p >= start => ~Greater(w, TitleAt(p))
         /\ \A p \in Articles : NsAt(p) = ns /\ p < start => ~Greater(TitleAt(p), w)
         /\ (\E p \in Articles : NsAt(p) = ns /\ TitleAt(p) = w) =>
              start \in Articles /\ NsAt(start) = ns /\ TitleAt(start) = w
<1>1. Size \in Nat /\ \A p \in Articles : NsAt(p) \in Int /\ TitleAt(p) \in Title
  BY FileFacts DEF NsAt, TitleAt
<1>2. CASE FoundAt(ns, w) # {}
  <2>1. start \in Articles /\ NsAt(start) = ns /\ TitleAt(start) = w
    BY <1>2 DEF FindByTitle, FoundAt, NsAt, TitleAt, Articles
  <2>2. ~Greater(w, w)
    BY GreaterIrreflexive
  <2> QED
    BY <1>1, <2>1, <2>2, FileSorted DEF Articles
<1>3. CASE FoundAt(ns, w) = {} /\ \E a \in 0 .. Size - 1 : Entry(a).ns = ns
  <2>1. start = Cardinality(Below(ns, w))
    BY <1>3 DEF FindByTitle
  <2>2. Below(ns, w) = {p \in Articles : NsAt(p) < ns \/ (NsAt(p) = ns /\ Greater(w, TitleAt(p)))}
    BY DEF Below, NsAt, TitleAt, Articles
  <2>3. \A p \in Below(ns, w) : \A q \in Articles : q < p => q \in Below(ns, w)
    <3> SUFFICES ASSUME NEW p \in Below(ns, w), NEW q \in Articles, q < p,
                        ~(NsAt(q) < ns)
                 PROVE  NsAt(q) = ns /\ Greater(w, TitleAt(q))
      BY <2>2
    <3>1. p \in Articles /\ (NsAt(p) < ns \/ (NsAt(p) = ns /\ Greater(w, TitleAt(p))))
      BY <2>2
    <3>2. NsAt(q) = ns /\ NsAt(p) = ns /\ Greater(w, TitleAt(p)) /\ ~Greater(TitleAt(q), TitleAt(p))
      BY <1>1, <3>1, FileSorted
    <3>3. TitleAt(q) = TitleAt(p) \/ Greater(TitleAt(p), TitleAt(q))
      BY <1>1, <3>1, <3>2, GreaterTotal
    <3> QED
      BY <1>1, <3>1, <3>2, <3>3, GreaterTransitive
  <2>4. \E c \in 0 .. Size : Below(ns, w) = 0 .. c - 1
    <3> DEFINE S == {p \in 0 .. Size : p \notin Below(ns, w)}
    <3>1. Size \in S
      BY <1>1, <2>2 DEF Articles
    <3>2. PICK c \in S : \A p \in S : c =< p
      <4> HIDE DEF S
      <4>1. S \subseteq Nat
        BY <1>1 DEF S
      <4> QED
        BY <3>1, <4>1, Least
    <3>3. \A p \in 0 .. c - 1 : p \in Below(ns, w)
      BY <1>1, <3>2
    <3>4. \A p \in Below(ns, w) : p \in 0 .. c - 1
      BY <1>1, <2>2, <2>3, <3>2 DEF Articles
    <3> QED
      BY <3>2, <3>3, <3>4
  <2>5. PICK c \in 0 .. Size : Below(ns, w) = 0 .. c - 1
    BY <2>4
  <2>6. Cardinality(0 .. c - 1) = c
    BY <1>1, FS_Interval
  <2>7. start = c
    BY <2>1, <2>5, <2>6
  <2>8. \A p \in Articles : p < start <=> NsAt(p) < ns \/ (NsAt(p) = ns /\ Greater(w, TitleAt(p)))
    BY <1>1, <2>2, <2>5, <2>7 DEF Articles
  <2>9. ASSUME NEW p \in Articles, NsAt(p) = ns, p < start
        PROVE  ~Greater(TitleAt(p), w)
    BY <1>1, <2>8, <2>9, GreaterTransitive, GreaterIrreflexive
  <2>10. ~\E p \in Articles : NsAt(p) = ns /\ TitleAt(p) = w
    BY <1>3 DEF FoundAt, NsAt, TitleAt, Articles
  <2> QED
    BY <1>1, <2>7, <2>8, <2>9, <2>10 DEF Articles
<1>4. CASE FoundAt(ns, w) = {} /\ ~\E a \in 0 .. Size - 1 : Entry(a).ns = ns
  <2>1. start = Size
    BY <1>4 DEF FindByTitle
  <2>2. \A p \in Articles : NsAt(p) # ns
    BY <1>4, FileFacts DEF NsAt, Articles
  <2> QED
    BY <1>1, <2>1, <2>2 DEF Articles
<1> QED
  BY <1>2, <1>3, <1>4

LEMMA RunIs ==
  ASSUME file \in File, NEW start \in 0 .. Size, NEW good
  PROVE  \E e \in start .. Size :
           /\ Run(start, good) \in Seq(Articles)
           /\ Len(Run(start, good)) = e - start
           /\ \A i \in 1 .. e - start : Run(start, good)[i] = ByTitle(start + i - 1)
           /\ \A p \in start .. e - 1 : ByTitle(p) \in good
           /\ e - start =< SearchLimit
           /\ e = Size \/ e - start = SearchLimit \/ ByTitle(e) \notin good
<1> DEFINE ends == {p \in start .. Size :
                      p = Size \/ p - start >= SearchLimit \/ ByTitle(p) \notin good}
<1>1. Size \in Nat /\ SearchLimit \in Nat /\ file.byTitle \in Seq(Articles) /\ Len(file.byTitle) = Size
  BY FileFacts, SearchAssumption
<1>2. Size \in ends /\ ends \subseteq Nat
  BY <1>1
<1>3. PICK e \in ends : \A p \in ends : e =< p
  <2> HIDE DEF ends
  <2> QED
    BY <1>2, Least
<1>4. Min(ends) = e
  <2> HIDE DEF ends
  <2> QED
    BY <1>2, <1>3, LeastIsMin
<1>5. Run(start, good) = SubSeq(file.byTitle, start + 1, e)
  BY <1>4 DEF Run
<1>6. e \in start .. Size
  BY <1>3
<1>7. /\ SubSeq(file.byTitle, start + 1, e) \in Seq(Articles)
      /\ Len(SubSeq(file.byTitle, start + 1, e)) = e - start
      /\ \A i \in 1 .. e - start : SubSeq(file.byTitle, start + 1, e)[i] = file.byTitle[start + i]
  BY <1>1, <1>6
<1>8. \A p \in start .. e - 1 : ByTitle(p) \in good /\ p - start < SearchLimit
  BY <1>1, <1>3, <1>6
<1>9. e - start =< SearchLimit
  <2>1. CASE e = start
    BY <1>1, <2>1
  <2>2. CASE e # start
    <3>1. e - 1 \in start .. e - 1
      BY <1>1, <1>6, <2>2
    <3> QED
      BY <1>1, <1>6, <1>8, <3>1
  <2> QED
    BY <2>1, <2>2
<1>10. \A i \in 1 .. e - start : file.byTitle[start + i] = ByTitle(start + i - 1)
  BY <1>1, <1>6 DEF ByTitle
<1>11. e = Size \/ e - start = SearchLimit \/ ByTitle(e) \notin good
  BY <1>1, <1>3, <1>6, <1>9
<1>12. \A i \in 1 .. e - start : Run(start, good)[i] = ByTitle(start + i - 1)
  BY <1>5, <1>7, <1>10
<1> QED
  BY <1>5, <1>6, <1>7, <1>8, <1>9, <1>11, <1>12

-----------------------------------------------------------------------------
(* What is found *)

(* ListedFirst, of articles h *)
ListedIn(h, all) ==
  /\ \A i \in DOMAIN h : \A j \in 1 .. i - 1 : h[i] # h[j]
  /\ all \ ToSet(h) # {} => Len(h) = SearchLimit
  /\ \A i \in DOMAIN h, a \in all \ ToSet(h) : ~Greater(Entry(h[i]).title, Entry(a).title)

LEMMA FoundRight ==
  ASSUME file \in File, NEW ns \in Int, NEW w \in Title, NEW start \in FindByTitle(ns, w),
         NEW good, good \subseteq {a \in Articles : Entry(a).ns = ns},
         NEW all, all \subseteq {a \in Articles : Entry(a).ns = ns /\ ~Greater(w, Entry(a).title)},
         \A a \in good : ~Greater(w, Entry(a).title) => a \in all,
         \A a \in Articles, b \in all :
           Entry(a).ns = ns /\ ~Greater(Entry(a).title, Entry(b).title) => a \in good
  PROVE  /\ ToSet(Run(start, good)) \subseteq all
         /\ ListedIn(Run(start, good), {a \in all : Entry(a).title # w})
         /\ SearchLimit > 0 /\ (\E a \in all : Entry(a).title = w) =>
              /\ Run(start, good) # <<>>
              /\ Head(Run(start, good)) \in {a \in all : Entry(a).title = w}
<1>1. /\ Size \in Nat /\ SearchLimit \in Nat
      /\ \A a \in Articles : Entry(a).ns \in Int /\ Entry(a).title \in Title
      /\ \A p \in Articles : ByTitle(p) \in Articles
  BY FileFacts, SearchAssumption
<1>2. start \in 0 .. Size
  BY StartsAt
<1>3. PICK h : h = Run(start, good)
  OBVIOUS
<1>4. PICK e \in start .. Size :
        /\ h \in Seq(Articles) /\ Len(h) = e - start
        /\ \A i \in 1 .. e - start : h[i] = ByTitle(start + i - 1)
        /\ \A p \in start .. e - 1 : ByTitle(p) \in good
        /\ e = Size \/ e - start = SearchLimit \/ ByTitle(e) \notin good
  BY <1>2, <1>3, RunIs
<1>5. DOMAIN h = 1 .. e - start
  BY <1>2, <1>4
<1>6. \A p \in start .. e - 1 : p \in Articles /\ ByTitle(p) \in all
  <2> SUFFICES ASSUME NEW p \in start .. e - 1
               PROVE  p \in Articles /\ ByTitle(p) \in all
    OBVIOUS
  <2>1. p \in Articles /\ p >= start
    BY <1>1, <1>2, <1>4 DEF Articles
  <2>2. ByTitle(p) \in good /\ NsAt(p) = ns
    BY <1>4 DEF NsAt
  <2>3. ~Greater(w, TitleAt(p))
    BY <2>1, <2>2, StartsAt
  <2> QED
    BY <2>1, <2>2, <2>3 DEF TitleAt
<1>7. \A i \in DOMAIN h : start + i - 1 \in start .. e - 1 /\ h[i] = ByTitle(start + i - 1)
  BY <1>1, <1>2, <1>4, <1>5
<1>8. ToSet(h) \subseteq all
  BY <1>6, <1>7 DEF ToSet
<1>9. ASSUME NEW i \in DOMAIN h, NEW j \in 1 .. i - 1
      PROVE  h[i] # h[j]
  <2>1. j \in DOMAIN h /\ start + j - 1 < start + i - 1
    BY <1>2, <1>4, <1>5
  <2> QED
    BY <1>6, <1>7, <2>1, FileSorted
<1>10. ASSUME NEW a \in all, Entry(a).title # w, a \notin ToSet(h)
       PROVE  \E q \in Articles : a = ByTitle(q) /\ e =< q
  <2>1. PICK q \in Articles : ByTitle(q) = a
    BY FileFacts
  <2>2. NsAt(q) = ns /\ ~Greater(w, TitleAt(q)) /\ TitleAt(q) # w
    BY <1>10, <2>1 DEF NsAt, TitleAt
  <2>3. ~(q < start)
    <3>1. TitleAt(q) \in Title
      BY <1>1 DEF TitleAt
    <3> QED
      BY <2>2, <3>1, StartsAt, GreaterTotal
  <2>4. ~(q \in start .. e - 1)
    <3> SUFFICES ASSUME q \in start .. e - 1 PROVE FALSE
      OBVIOUS
    <3>1. q - start + 1 \in DOMAIN h /\ start + (q - start + 1) - 1 = q
      BY <1>1, <1>2, <1>4, <1>5
    <3>2. h[q - start + 1] = a
      BY <1>7, <2>1, <3>1
    <3> QED
      BY <1>10, <3>1, <3>2 DEF ToSet
  <2> QED
    BY <1>1, <1>2, <1>4, <2>1, <2>3, <2>4 DEF Articles
<1>11. ASSUME NEW a \in all, Entry(a).title # w, a \notin ToSet(h)
       PROVE  /\ Len(h) = SearchLimit
              /\ \A i \in DOMAIN h : ~Greater(Entry(h[i]).title, Entry(a).title)
  <2>1. PICK q \in Articles : a = ByTitle(q) /\ e =< q
    BY <1>10, <1>11
  <2>2. e \in Articles
    BY <1>1, <1>2, <1>4, <2>1 DEF Articles
  <2>3. NsAt(q) = ns /\ TitleAt(q) = Entry(a).title
    BY <2>1 DEF NsAt, TitleAt
  <2>4. ByTitle(e) \in good
    <3>1. NsAt(e) >= ns
      BY <1>1, <1>2, <1>4, <2>2, StartsAt
    <3>2. NsAt(e) = ns /\ ~Greater(TitleAt(e), TitleAt(q))
      <4>1. CASE e = q
        BY <1>1, <2>3, <4>1, GreaterIrreflexive DEF TitleAt
      <4>2. CASE e # q
        <5>1. e < q
          BY <1>1, <1>2, <1>4, <2>1, <4>2 DEF Articles
        <5>2. NsAt(e) < NsAt(q) \/ (NsAt(e) = NsAt(q) /\ ~Greater(TitleAt(e), TitleAt(q)))
          BY <2>2, <5>1, FileSorted
        <5>3. NsAt(e) \in Int
          BY <1>1, <2>2 DEF NsAt
        <5> QED
          BY <2>3, <3>1, <5>2, <5>3
      <4> QED
        BY <4>1, <4>2
    <3> QED
      BY <1>1, <2>2, <2>3, <3>2 DEF NsAt, TitleAt
  <2>5. Len(h) = SearchLimit
    BY <1>1, <1>4, <2>2, <2>4 DEF Articles
  <2>6. ASSUME NEW i \in DOMAIN h
        PROVE  ~Greater(Entry(h[i]).title, Entry(a).title)
    <3>1. PICK p \in start .. e - 1 : h[i] = ByTitle(p)
      BY <1>7
    <3>2. p \in Articles /\ ByTitle(p) \in all /\ p < q
      BY <1>1, <1>2, <1>4, <1>6, <2>1, <3>1 DEF Articles
    <3>3. NsAt(p) < NsAt(q) \/ (NsAt(p) = NsAt(q) /\ ~Greater(TitleAt(p), TitleAt(q)))
      BY <3>2, FileSorted
    <3>4. NsAt(p) = ns
      BY <3>2 DEF NsAt
    <3> QED
      BY <2>3, <3>1, <3>3, <3>4 DEF TitleAt
  <2> QED
    BY <2>5, <2>6
<1>12. ASSUME SearchLimit > 0, NEW a \in all, Entry(a).title = w
       PROVE  h # <<>> /\ Head(h) \in {b \in all : Entry(b).title = w}
  <2>1. PICK q \in Articles : ByTitle(q) = a
    BY FileFacts
  <2>2. start \in Articles /\ NsAt(start) = ns /\ TitleAt(start) = w
    BY <1>12, <2>1, StartsAt DEF NsAt, TitleAt
  <2>3. ByTitle(start) \in good
    BY <1>1, <1>12, <2>2, GreaterIrreflexive DEF NsAt, TitleAt
  <2>4. start < e
    <3>1. start # Size /\ ~(start - start = SearchLimit)
      BY <1>1, <1>2, <1>12, <2>2 DEF Articles
    <3>2. start # e
      BY <1>4, <2>3, <3>1
    <3> QED
      BY <1>1, <1>2, <1>4, <3>2
  <2>5. 1 \in DOMAIN h /\ start \in start .. e - 1 /\ start + 1 - 1 = start
    BY <1>1, <1>2, <1>4, <1>5, <2>4
  <2>6. h[1] = ByTitle(start) /\ ByTitle(start) \in all
    BY <1>6, <1>7, <2>5
  <2>7. h # <<>> /\ Head(h) = h[1]
    BY <1>4, <2>4, <1>2
  <2> QED
    BY <2>2, <2>6, <2>7 DEF TitleAt
<1>13. ListedIn(h, {a \in all : Entry(a).title # w})
  BY <1>9, <1>11 DEF ListedIn
<1> QED
  BY <1>3, <1>8, <1>12, <1>13

(* PrefixFound, of articles h *)
FoundByPrefix(h, ns, prefix) ==
  LET all == {a \in Articles : Entry(a).ns = ns /\ IsPrefix(prefix, Entry(a).title)}
      longer == {a \in all : Entry(a).title # prefix}
  IN /\ ToSet(h) \subseteq all
     /\ ListedIn(h, longer)
     /\ all # longer /\ SearchLimit > 0 => h # <<>> /\ Head(h) \in all \ longer

FoundInRange(h, ns, begin, end) ==
  LET all == {a \in Articles : Entry(a).ns = ns /\ ~Greater(begin, Entry(a).title)
                                                /\ ~Greater(Entry(a).title, end)}
  IN /\ ToSet(h) \subseteq all
     /\ ListedIn(h, {a \in all : Entry(a).title # begin})

LEMMA PrefixIsFound ==
  ASSUME file \in File, NEW ns \in Int, NEW w \in Title, NEW h \in FindResults(ns, w)
  PROVE  FoundByPrefix(h, ns, w)
<1> DEFINE good == {a \in 0 .. Size - 1 : PrefixMatches(a, ns, w)}
           all == {a \in Articles : Entry(a).ns = ns /\ IsPrefix(w, Entry(a).title)}
<1>1. PICK start \in FindByTitle(ns, w) : h = Run(start, good)
  BY DEF FindResults
<1>2. \A a \in Articles : Entry(a).title \in Title
  BY FileFacts
<1>3. good = {a \in Articles : Entry(a).ns = ns /\ ~Greater(Begin(Entry(a).title, w), w)}
  BY DEF PrefixMatches, Articles
<1>4. good \subseteq {a \in Articles : Entry(a).ns = ns}
  BY <1>3
<1>5. all \subseteq {a \in Articles : Entry(a).ns = ns /\ ~Greater(w, Entry(a).title)}
  BY <1>2, PrefixesLess
<1>6. \A a \in good : ~Greater(w, Entry(a).title) => a \in all
  BY <1>2, <1>3, BeginsWith
<1>7. \A a \in Articles, b \in all :
        Entry(a).ns = ns /\ ~Greater(Entry(a).title, Entry(b).title) => a \in good
  BY <1>2, <1>3, BeginsUpTo
<1> HIDE DEF good, all
<1>8. /\ ToSet(h) \subseteq all
      /\ ListedIn(h, {a \in all : Entry(a).title # w})
      /\ SearchLimit > 0 /\ (\E a \in all : Entry(a).title = w) =>
           h # <<>> /\ Head(h) \in {a \in all : Entry(a).title = w}
  <2>1. /\ ToSet(Run(start, good)) \subseteq all
        /\ ListedIn(Run(start, good), {a \in all : Entry(a).title # w})
        /\ SearchLimit > 0 /\ (\E a \in all : Entry(a).title = w) =>
             /\ Run(start, good) # <<>>
             /\ Head(Run(start, good)) \in {a \in all : Entry(a).title = w}
    BY <1>4, <1>5, <1>6, <1>7, FoundRight
  <2> QED
    BY <1>1, <2>1
<1>9. all # {a \in all : Entry(a).title # w} => \E a \in all : Entry(a).title = w
  OBVIOUS
<1>10. {a \in all : Entry(a).title = w} = all \ {a \in all : Entry(a).title # w}
  OBVIOUS
<1> QED
  BY <1>8, <1>9, <1>10 DEF FoundByPrefix, all

LEMMA RangeIsFound ==
  ASSUME file \in File, NEW ns \in Int, NEW begin \in Title, NEW end \in Title,
         NEW start \in FindByTitle(ns, begin)
  PROVE  FoundInRange(Run(start, {a \in Articles : Entry(a).ns = ns /\ ~Greater(Entry(a).title, end)}),
                      ns, begin, end)
<1> DEFINE good == {a \in Articles : Entry(a).ns = ns /\ ~Greater(Entry(a).title, end)}
           all == {a \in Articles : Entry(a).ns = ns /\ ~Greater(begin, Entry(a).title)
                                                    /\ ~Greater(Entry(a).title, end)}
<1>1. \A a \in Articles : Entry(a).title \in Title
  BY FileFacts
<1>2. good \subseteq {a \in Articles : Entry(a).ns = ns}
  OBVIOUS
<1>3. all \subseteq {a \in Articles : Entry(a).ns = ns /\ ~Greater(begin, Entry(a).title)}
  OBVIOUS
<1>4. \A a \in good : ~Greater(begin, Entry(a).title) => a \in all
  OBVIOUS
<1>5. ASSUME NEW a \in Articles, NEW b \in all,
             Entry(a).ns = ns, ~Greater(Entry(a).title, Entry(b).title)
      PROVE  a \in good
  <2>1. ~Greater(Entry(b).title, end) /\ b \in Articles
    OBVIOUS
  <2>2. ASSUME Greater(Entry(a).title, end) PROVE FALSE
    <3>1. Entry(b).title = end \/ Greater(end, Entry(b).title)
      BY <1>1, <2>1, GreaterTotal
    <3> QED
      BY <1>1, <1>5, <2>1, <2>2, <3>1, GreaterTransitive
  <2> QED
    BY <1>5, <2>2
<1>6. FoundInRange(Run(start, good), ns, begin, end) <=>
        /\ ToSet(Run(start, good)) \subseteq all
        /\ ListedIn(Run(start, good), {a \in all : Entry(a).title # begin})
  BY DEF FoundInRange
<1> HIDE DEF good, all
<1>7. /\ ToSet(Run(start, good)) \subseteq all
      /\ ListedIn(Run(start, good), {a \in all : Entry(a).title # begin})
  BY <1>2, <1>3, <1>4, <1>5, FoundRight
<1> QED
  BY <1>6, <1>7 DEF good

Letters == [word : Seq(Int), plus : Nat]

SearchTyping ==
  /\ file \in File
  /\ left \in Seq(Letters)

SearchIInv == SearchTyping /\ PrefixFound

LEMMA SearchStarts == SearchInit => SearchIInv
  BY DEF SearchInit, SearchIInv, SearchTyping, PrefixFound, NotAsked

LEMMA FindStep ==
  ASSUME SearchTyping, Find
  PROVE  PrefixFound'
<1>1. PICK ns \in {Entry(a).ns : a \in 0 .. Size - 1}, prefix \in Prefix :
        asked' = [for |-> "prefix", ns |-> ns, prefix |-> prefix]
  BY DEF Find
<1>2. file' = file /\ hits' \in FindResults(ns, prefix)
  BY <1>1 DEF Find
<1>3. ns \in Int /\ prefix \in Title
  BY FileFacts, InputAssumption DEF SearchTyping, Articles, Title
<1>4. FoundByPrefix(hits', ns, prefix)
  BY <1>2, <1>3, PrefixIsFound DEF SearchTyping
<1>5. asked'.for = "prefix" /\ asked'.ns = ns /\ asked'.prefix = prefix
  BY <1>1
<1> QED
  BY <1>2, <1>4, <1>5
  DEF PrefixFound, FoundByPrefix, ListedFirst, ListedIn, Articles, Size, Entry

LEMMA FindRangeStep ==
  ASSUME SearchTyping, FindRange
  PROVE  PrefixFound'
<1>1. PICK ns \in {Entry(a).ns : a \in 0 .. Size - 1}, begin \in Prefix, end \in Prefix :
        /\ asked' = [for |-> "range", ns |-> ns, begin |-> begin, end |-> end]
        /\ \E start \in FindByTitle(ns, begin) :
             hits' = Run(start, {a \in 0 .. Size - 1 : Entry(a).ns = ns /\ ~Greater(Entry(a).title, end)})
  BY DEF FindRange
<1>2. file' = file
  BY DEF FindRange
<1>3. ns \in Int /\ begin \in Title /\ end \in Title
  BY FileFacts, InputAssumption DEF SearchTyping, Articles, Title
<1>4. FoundInRange(hits', ns, begin, end)
  BY <1>1, <1>3, RangeIsFound DEF SearchTyping, Articles
<1>5. asked'.for = "range" /\ asked'.ns = ns /\ asked'.begin = begin /\ asked'.end = end
  BY <1>1
<1> QED
  BY <1>2, <1>4, <1>5
  DEF PrefixFound, FoundInRange, ListedFirst, ListedIn, Articles, Size, Entry

LEMMA InTitlesStep ==
  ASSUME SearchTyping, NEW word \in Title, file' = file,
         asked' = [for |-> "prefix", ns |-> A, prefix |-> word],
         hits' \in FindResults(A, word)
  PROVE  PrefixFound'
<1>1. FoundByPrefix(hits', A, word)
  BY PrefixIsFound, SearchAssumption DEF SearchTyping
<1>2. asked'.for = "prefix" /\ asked'.ns = A /\ asked'.prefix = word
  OBVIOUS
<1> QED
  BY <1>1, <1>2
  DEF PrefixFound, FoundByPrefix, ListedFirst, ListedIn, Articles, Size, Entry

LEMMA NothingFound ==
  ASSUME PrefixFound, UNCHANGED <<file, asked, hits>>
  PROVE  PrefixFound'
  BY DEF PrefixFound, ListedFirst, Articles, Size, Entry

LEMMA SearchingStep ==
  ASSUME SearchIInv, [SearchNext]_searchVars
  PROVE  SearchIInv'
<1>1. file' = file
  BY DEF SearchNext, Find, FindRange, Search, Token, Sort, HandResult, HandRedirect,
         HandNothing, searchVars
<1>2. CASE Search
  <2>1. left' \in Expr
    BY <1>2 DEF Search
  <2>2. asked'.for = "nothing"
    BY <1>2 DEF Search, NotAsked
  <2> QED
    BY <1>1, <2>1, <2>2, InputAssumption DEF SearchIInv, SearchTyping, PrefixFound, Letters
<1>3. CASE Token
  <2>1. left \in Seq(Letters) /\ left # <<>> /\ left' = Tail(left)
    BY <1>3 DEF SearchIInv, SearchTyping, Token
  <2>2. Head(left).word \in Title /\ left' \in Seq(Letters)
    <3>1. Head(left) \in Letters /\ left' \in Seq(Letters)
      BY <2>1
    <3> QED
      BY <3>1 DEF Letters, Title
  <2>3. \/ UNCHANGED <<asked, hits>>
        \/ /\ asked' = [for |-> "prefix", ns |-> A, prefix |-> Head(left).word]
           /\ hits' \in FindResults(A, Head(left).word)
    BY <1>3 DEF Token, InIndex, InTitles
  <2>4. PrefixFound'
    BY <1>1, <2>2, <2>3, InTitlesStep, NothingFound DEF SearchIInv
  <2> QED
    BY <1>1, <2>2, <2>4 DEF SearchIInv, SearchTyping
<1>4. CASE Find
  BY <1>1, <1>4, FindStep DEF SearchIInv, SearchTyping, Find
<1>5. CASE FindRange
  BY <1>1, <1>5, FindRangeStep DEF SearchIInv, SearchTyping, FindRange
<1>6. CASE Sort \/ HandResult \/ HandRedirect \/ HandNothing \/ UNCHANGED searchVars
  <2>1. UNCHANGED <<asked, hits, left>>
    BY <1>6 DEF Sort, HandResult, HandRedirect, HandNothing, searchVars, searching
  <2>2. PrefixFound'
    BY <1>1, <2>1, NothingFound DEF SearchIInv
  <2> QED
    BY <1>1, <2>1, <2>2 DEF SearchIInv, SearchTyping
<1> QED
  BY <1>2, <1>3, <1>4, <1>5, <1>6 DEF SearchNext

(* find yields the articles with a prefix, or of a range, in any file and  *)
(* wherever the binary search hits: also for each word of an expression    *)
(* that the index lacks.                                                   *)
THEOREM PrefixTheorem == SearchSpec => []PrefixFound
<1>1. SearchIInv => PrefixFound
  BY DEF SearchIInv
<1> QED
  BY <1>1, SearchStarts, SearchingStep, PTL DEF SearchSpec

-----------------------------------------------------------------------------
(* Folding: words found one by one.  The definition of FoldLeft recurs     *)
(* over sets of places; there is a function that satisfies it.             *)

Added(found, word, item) == FoundWord(found, word, item.a, item.pos, item.weight)

Folds(f, n, base, word, items) ==
  f = [s \in SUBSET (1 .. n) |->
         IF s = {} THEN base
         ELSE Added(f[s \ {Max(s)}], word, items[Max(s)])]

LEMMA MaxOf ==
  ASSUME NEW n \in Nat, NEW s \in SUBSET (1 .. n), n \in s
  PROVE  Max(s) = n
<1> DEFINE P(x) == x \in s /\ \A y \in s : x >= y
<1>1. \A x : P(x) <=> x = n
  <2>1. P(n)
    OBVIOUS
  <2>2. ASSUME NEW x, P(x) PROVE x = n
    <3>1. x \in 1 .. n /\ x >= n
      BY <2>2
    <3> QED
      BY <3>1
  <2> QED
    BY <2>1, <2>2
<1>2. Max(s) = CHOOSE x : P(x)
  BY DEF Max
<1> HIDE DEF P
<1> QED
  BY <1>1, <1>2, Zenon

LEMMA FoldsOne ==
  ASSUME NEW n \in Nat, NEW base, NEW word, NEW items, NEW f, Folds(f, n, base, word, items)
  PROVE  \E g : Folds(g, n + 1, base, word, items)
<1> DEFINE g == [s \in SUBSET (1 .. n + 1) |->
                   IF n + 1 \in s THEN Added(f[s \ {n + 1}], word, items[n + 1]) ELSE f[s]]
           Is(h, s) == h = IF s = {} THEN base
                           ELSE Added(g[s \ {Max(s)}], word, items[Max(s)])
<1>1. \A s \in SUBSET (1 .. n) :
        f[s] = IF s = {} THEN base ELSE Added(f[s \ {Max(s)}], word, items[Max(s)])
  BY DEF Folds
<1>2. \A s \in SUBSET (1 .. n) : s \in SUBSET (1 .. n + 1) /\ n + 1 \notin s /\ g[s] = f[s]
  OBVIOUS
<1>3. ASSUME NEW s \in SUBSET (1 .. n + 1), n + 1 \in s
      PROVE  Is(g[s], s)
  <2>1. Max(s) = n + 1
    BY <1>3, MaxOf
  <2>2. s \ {n + 1} \in SUBSET (1 .. n)
    BY <1>3
  <2>3. g[s] = Added(f[s \ {n + 1}], word, items[n + 1])
    BY <1>3
  <2>4. g[s \ {n + 1}] = f[s \ {n + 1}]
    BY <1>2, <2>2
  <2> HIDE DEF g
  <2> QED
    BY <1>3, <2>1, <2>3, <2>4
<1>4. ASSUME NEW s \in SUBSET (1 .. n + 1), n + 1 \notin s
      PROVE  Is(g[s], s)
  <2>1. s \in SUBSET (1 .. n) /\ s \ {Max(s)} \in SUBSET (1 .. n)
    <3>1. \A i \in 1 .. n + 1 : i # n + 1 => i \in 1 .. n
      OBVIOUS
    <3> QED
      BY <1>4, <3>1
  <2>2. g[s] = f[s] /\ g[s \ {Max(s)}] = f[s \ {Max(s)}]
    BY <1>2, <2>1
  <2> HIDE DEF g
  <2> QED
    BY <1>1, <2>1, <2>2
<1>5. Folds(g, n + 1, base, word, items)
  <2>1. \A s \in SUBSET (1 .. n + 1) : Is(g[s], s)
    BY <1>3, <1>4
  <2>2. g = [s \in SUBSET (1 .. n + 1) |-> g[s]]
    OBVIOUS
  <2> HIDE DEF g
  <2>3. g = [s \in SUBSET (1 .. n + 1) |->
               IF s = {} THEN base ELSE Added(g[s \ {Max(s)}], word, items[Max(s)])]
    BY <2>1, <2>2
  <2> QED
    BY <2>3 DEF Folds
<1> QED
  BY <1>5

LEMMA FoldsExist ==
  ASSUME NEW n \in Nat, NEW base, NEW word, NEW items
  PROVE  \E f : Folds(f, n, base, word, items)
<1> DEFINE Missing == {m \in Nat : ~ \E f : Folds(f, m, base, word, items)}
<1> SUFFICES ASSUME Missing # {} PROVE FALSE
  OBVIOUS
<1>1. PICK m \in Missing : \A k \in Missing : m =< k
  <2>1. Missing \subseteq Nat
    OBVIOUS
  <2> HIDE DEF Missing
  <2> QED
    BY <2>1, Least
<1>2. m # 0
  <2>1. Folds([s \in SUBSET (1 .. 0) |-> base], 0, base, word, items)
    BY DEF Folds
  <2> QED
    BY <1>1, <2>1
<1>3. m - 1 \in Nat /\ ~(m =< m - 1)
  BY <1>1, <1>2
<1>4. PICK f : Folds(f, m - 1, base, word, items)
  BY <1>1, <1>3
<1>5. \E g : Folds(g, m - 1 + 1, base, word, items)
  BY <1>3, <1>4, FoldsOne
<1> QED
  BY <1>1, <1>3, <1>5

(* What has been found after each of the items. *)
LEMMA FoldSteps ==
  ASSUME NEW n \in Nat, NEW base, NEW word, NEW items, NEW f, Folds(f, n, base, word, items)
  PROVE  \E c : /\ c[0] = base /\ c[n] = f[1 .. n]
                /\ \A i \in 1 .. n : c[i] = Added(c[i - 1], word, items[i])
<1> DEFINE c == [i \in 0 .. n |-> f[1 .. i]]
<1>1. \A s \in SUBSET (1 .. n) :
        f[s] = IF s = {} THEN base ELSE Added(f[s \ {Max(s)}], word, items[Max(s)])
  BY DEF Folds
<1>2. c[0] = base
  <2>1. 1 .. 0 = {} /\ 0 \in 0 .. n
    OBVIOUS
  <2> QED
    BY <1>1, <2>1
<1>3. ASSUME NEW i \in 1 .. n PROVE c[i] = Added(c[i - 1], word, items[i])
  <2>1. 1 .. i \in SUBSET (1 .. n) /\ 1 .. i # {} /\ i \in 1 .. i /\ (1 .. i) \ {i} = 1 .. i - 1
    OBVIOUS
  <2>2. Max(1 .. i) = i
    BY MaxOf
  <2>3. f[1 .. i] = Added(f[1 .. i - 1], word, items[i])
    BY <1>1, <2>1, <2>2
  <2> QED
    BY <2>3
<1>4. c[n] = f[1 .. n]
  OBVIOUS
<1> HIDE DEF c
<1> QED
  BY <1>2, <1>3, <1>4

-----------------------------------------------------------------------------
(* Postings, as a fold takes them *)

LEMMA MaxIn ==
  ASSUME NEW n \in Nat, NEW s \in SUBSET (1 .. n), s # {}
  PROVE  Max(s) \in s
<1> DEFINE S == {k \in 0 .. n : n - k \in s}
<1>1. PICK x \in s : TRUE
  OBVIOUS
<1>2. n - x \in S
  <2>1. n - x \in 0 .. n /\ n - (n - x) = x
    BY <1>1
  <2> QED
    BY <1>1, <2>1
<1>3. PICK k \in S : \A m \in S : k =< m
  <2>1. S \subseteq Nat
    OBVIOUS
  <2> HIDE DEF S
  <2> QED
    BY <1>2, <2>1, Least
<1>4. k \in 0 .. n /\ n - k \in s
  BY <1>3
<1>5. ASSUME NEW y \in s PROVE ~(y > n - k)
  <2>1. n - y \in 0 .. n /\ n - (n - y) = y
    OBVIOUS
  <2>2. n - y \in S
    BY <2>1
  <2>3. k =< n - y
    BY <1>3, <2>2
  <2> QED
    BY <1>4, <2>3
<1>6. s \in SUBSET (1 .. n - k)
  BY <1>4, <1>5
<1>7. n - k \in Nat
  BY <1>4
<1> QED
  BY <1>4, <1>6, <1>7, MaxOf

Items(posts, plus) ==
  [i \in DOMAIN posts |-> [a |-> posts[i].a, pos |-> posts[i].pos,
                           weight |-> WeightOf(plus, posts[i].cat)]]

TitleItems(h, plus) ==
  [i \in DOMAIN h |-> [a |-> h[i], pos |-> 0,
                       weight |-> Unsigned(plus + 3 - Len(Entry(h[i]).title))]]

LEMMA InIndexFolds ==
  ASSUME NEW token, InIndex(token), NEW n \in Nat, DOMAIN Postings(token.word) = 1 .. n
  PROVE  \E f : /\ Folds(f, n, index, token.word, Items(Postings(token.word), token.plus))
                /\ index' = f[1 .. n]
<1>1. PICK posts : posts = Postings(token.word)
  OBVIOUS
<1> DEFINE items == Items(posts, token.plus)
           A1(f) == f = [s \in SUBSET (DOMAIN posts) |->
                           IF s = {} THEN index
                           ELSE FoundWord(f[s \ {Max(s)}], token.word, posts[Max(s)].a,
                                          posts[Max(s)].pos, WeightOf(token.plus, posts[Max(s)].cat))]
           iter == CHOOSE f : A1(f)
<1>2. index' = iter[DOMAIN posts]
  BY <1>1 DEF InIndex, FoldLeft, MapThenFoldSet
<1>3. DOMAIN posts = 1 .. n
  BY <1>1
<1>4. \A f : A1(f) <=> Folds(f, n, index, token.word, items)
  <2> SUFFICES ASSUME NEW f PROVE A1(f) <=> Folds(f, n, index, token.word, items)
    OBVIOUS
  <2>1. ASSUME NEW s \in SUBSET (1 .. n), s # {}
        PROVE  FoundWord(f[s \ {Max(s)}], token.word, posts[Max(s)].a,
                         posts[Max(s)].pos, WeightOf(token.plus, posts[Max(s)].cat))
                 = Added(f[s \ {Max(s)}], token.word, items[Max(s)])
    <3>1. PICK m : m = Max(s)
      OBVIOUS
    <3>2. m \in DOMAIN posts
      BY <1>3, <2>1, <3>1, MaxIn
    <3>3. items[m] = [a |-> posts[m].a, pos |-> posts[m].pos,
                      weight |-> WeightOf(token.plus, posts[m].cat)]
      BY <3>2 DEF Items
    <3> HIDE DEF items
    <3> QED
      BY <3>1, <3>3 DEF Added
  <2> HIDE DEF items
  <2>2. [s \in SUBSET (1 .. n) |->
                           IF s = {} THEN index
                           ELSE FoundWord(f[s \ {Max(s)}], token.word, posts[Max(s)].a,
                                          posts[Max(s)].pos, WeightOf(token.plus, posts[Max(s)].cat))]
         = [s \in SUBSET (1 .. n) |->
              IF s = {} THEN index ELSE Added(f[s \ {Max(s)}], token.word, items[Max(s)])]
    BY <2>1
  <2> QED
    BY <1>3, <2>2 DEF Folds
<1>5. \E f : A1(f)
  BY <1>4, FoldsExist
<1>6. A1(iter)
  <2> HIDE DEF A1
  <2> QED
    BY <1>5, Zenon
<1> HIDE DEF A1, iter, items
<1>7. Folds(iter, n, index, token.word, items)
  BY <1>4, <1>6
<1> QED
  BY <1>1, <1>2, <1>3, <1>7 DEF items

LEMMA InTitlesFolds ==
  ASSUME NEW token, InTitles(token), NEW n \in Nat, DOMAIN hits' = 1 .. n
  PROVE  \E f : /\ Folds(f, n, index, token.word, TitleItems(hits', token.plus))
                /\ index' = f[1 .. n]
<1>1. PICK h : h = hits'
  OBVIOUS
<1> DEFINE items == TitleItems(h, token.plus)
           A1(f) == f = [s \in SUBSET (DOMAIN h) |->
                           IF s = {} THEN index
                           ELSE FoundWord(f[s \ {Max(s)}], token.word, h[Max(s)], 0,
                                          Unsigned(token.plus + 3 - Len(Entry(h[Max(s)]).title)))]
           iter == CHOOSE f : A1(f)
<1>2. index' = iter[DOMAIN h]
  BY <1>1 DEF InTitles, FoldLeft, MapThenFoldSet
<1>3. DOMAIN h = 1 .. n
  BY <1>1
<1>4. \A f : A1(f) <=> Folds(f, n, index, token.word, items)
  <2> SUFFICES ASSUME NEW f PROVE A1(f) <=> Folds(f, n, index, token.word, items)
    OBVIOUS
  <2>1. ASSUME NEW s \in SUBSET (1 .. n), s # {}
        PROVE  FoundWord(f[s \ {Max(s)}], token.word, h[Max(s)], 0,
                         Unsigned(token.plus + 3 - Len(Entry(h[Max(s)]).title)))
                 = Added(f[s \ {Max(s)}], token.word, items[Max(s)])
    <3>1. PICK m : m = Max(s)
      OBVIOUS
    <3>2. m \in DOMAIN h
      BY <1>3, <2>1, <3>1, MaxIn
    <3>3. items[m] = [a |-> h[m], pos |-> 0,
                      weight |-> Unsigned(token.plus + 3 - Len(Entry(h[m]).title))]
      BY <3>2 DEF TitleItems
    <3> HIDE DEF items
    <3> QED
      BY <3>1, <3>3 DEF Added
  <2> HIDE DEF items
  <2>2. [s \in SUBSET (1 .. n) |->
                           IF s = {} THEN index
                           ELSE FoundWord(f[s \ {Max(s)}], token.word, h[Max(s)], 0,
                                          Unsigned(token.plus + 3 - Len(Entry(h[Max(s)]).title)))]
         = [s \in SUBSET (1 .. n) |->
              IF s = {} THEN index ELSE Added(f[s \ {Max(s)}], token.word, items[Max(s)])]
    BY <2>1
  <2> QED
    BY <1>3, <2>2 DEF Folds
<1>5. \E f : A1(f)
  BY <1>4, FoldsExist
<1>6. A1(iter)
  <2> HIDE DEF A1
  <2> QED
    BY <1>5, Zenon
<1> HIDE DEF A1, iter, items
<1>7. Folds(iter, n, index, token.word, items)
  BY <1>4, <1>6
<1> QED
  BY <1>1, <1>2, <1>3, <1>7 DEF items

(* The positions of an article that have been found. *)
PosIn(found, a) == IF a \in DOMAIN found THEN DOMAIN found[a].posList ELSE {}

HasPosition(new, found, item) ==
  /\ DOMAIN new = DOMAIN found \cup {item.a}
  /\ \A a : PosIn(new, a) = PosIn(found, a) \cup (IF a = item.a THEN {item.pos} ELSE {})

LEMMA AddedPositions ==
  ASSUME NEW found, NEW word, NEW item
  PROVE  HasPosition(Added(found, word, item), found, item)
<1> DEFINE result == At(found, item.a, NewResult)
           attr   == At(result.words, word, NewWord)
           attr2  == [count |-> attr.count + 1, addweight |-> Unsigned(attr.addweight + item.weight)]
           words  == With(result.words, word, attr2)
           posList == With(result.posList, item.pos, word)
           new == With(found, item.a, [words |-> words, posList |-> posList])
<1>1. Added(found, word, item) = new
  BY DEF Added, FoundWord
<1>2. DOMAIN result.posList = PosIn(found, item.a)
  BY DEF At, PosIn, NewResult, Nothing
<1>3. DOMAIN posList = {item.pos} \cup PosIn(found, item.a)
  BY <1>2 DEF With
<1> HIDE DEF words, posList
<1>4. /\ DOMAIN new = {item.a} \cup DOMAIN found
      /\ new[item.a] = [words |-> words, posList |-> posList]
      /\ \A a \in DOMAIN found : a # item.a => new[a] = found[a]
  BY DEF With
<1> HIDE DEF new
<1>5. PosIn(new, item.a) = DOMAIN posList
  BY <1>4 DEF PosIn
<1>6. \A a : a # item.a => PosIn(new, a) = PosIn(found, a)
  BY <1>4 DEF PosIn
<1> QED
  BY <1>1, <1>3, <1>4, <1>5, <1>6 DEF HasPosition

HasPositions(new, found, n, items) ==
  /\ DOMAIN new = DOMAIN found \cup {items[i].a : i \in 1 .. n}
  /\ \A a : PosIn(new, a)
             = PosIn(found, a) \cup {items[i].pos : i \in {j \in 1 .. n : items[j].a = a}}

LEMMA FoldPositions ==
  ASSUME NEW n \in Nat, NEW base, NEW word, NEW items, NEW f, Folds(f, n, base, word, items)
  PROVE  HasPositions(f[1 .. n], base, n, items)
<1>1. PICK c : /\ c[0] = base /\ c[n] = f[1 .. n]
               /\ \A i \in 1 .. n : c[i] = Added(c[i - 1], word, items[i])
  BY FoldSteps
<1> DEFINE Fine(k) ==
             /\ DOMAIN c[k] = DOMAIN base \cup {items[i].a : i \in 1 .. k}
             /\ \A a : PosIn(c[k], a)
                        = PosIn(base, a) \cup {items[i].pos : i \in {j \in 1 .. k : items[j].a = a}}
           Wrong == {k \in 0 .. n : ~Fine(k)}
<1>2. SUFFICES ASSUME Wrong # {} PROVE FALSE
  <2>1. n \in 0 .. n
    OBVIOUS
  <2>2. Wrong = {} => Fine(n)
    BY <2>1
  <2> QED
    BY <1>1, <2>2 DEF HasPositions
<1>3. PICK k \in Wrong : \A m \in Wrong : k =< m
  <2>1. Wrong \subseteq Nat
    OBVIOUS
  <2> HIDE DEF Wrong
  <2> QED
    BY <1>2, <2>1, Least
<1>4. k \in 0 .. n /\ ~Fine(k)
  BY <1>3
<1>5. Fine(0)
  <2>1. 1 .. 0 = {}
    OBVIOUS
  <2> QED
    BY <1>1, <2>1
<1>6. k # 0
  BY <1>4, <1>5
<1>7. k - 1 \in 0 .. n /\ k \in 1 .. n /\ ~(k =< k - 1)
  BY <1>4, <1>6
<1>8. Fine(k - 1)
  BY <1>3, <1>7
<1>9. c[k] = Added(c[k - 1], word, items[k])
  BY <1>1, <1>7
<1>14. HasPosition(c[k], c[k - 1], items[k])
  BY <1>9, AddedPositions
<1>10. 1 .. k = (1 .. k - 1) \cup {k}
  BY <1>7
<1>11. {items[i].a : i \in 1 .. k} = {items[i].a : i \in 1 .. k - 1} \cup {items[k].a}
  BY <1>10
<1>12. \A a : {items[i].pos : i \in {j \in 1 .. k : items[j].a = a}}
               = {items[i].pos : i \in {j \in 1 .. k - 1 : items[j].a = a}}
                   \cup (IF a = items[k].a THEN {items[k].pos} ELSE {})
  BY <1>10
<1>13. /\ DOMAIN c[k] = DOMAIN base \cup {items[i].a : i \in 1 .. k}
       /\ \A a : PosIn(c[k], a)
                  = PosIn(base, a) \cup {items[i].pos : i \in {j \in 1 .. k : items[j].a = a}}
  BY ONLY <1>8, <1>14, <1>11, <1>12 DEF HasPosition
<1> QED
  BY <1>4, <1>13

LEMMA FlattenFour ==
  ASSUME NEW S, NEW seqs \in [1 .. 4 -> Seq(S)]
  PROVE  FlattenSeq(seqs) = ((seqs[1] \o seqs[2]) \o seqs[3]) \o seqs[4]
<1> DEFINE Is(f) == f = [i \in 1 .. 4 |-> IF i = 1 THEN seqs[i] ELSE f[i - 1] \o seqs[i]]
           flat == CHOOSE f : Is(f)
           g == [i \in 1 .. 4 |->
                   IF i = 1 THEN seqs[1]
                   ELSE IF i = 2 THEN seqs[1] \o seqs[2]
                   ELSE IF i = 3 THEN (seqs[1] \o seqs[2]) \o seqs[3]
                   ELSE ((seqs[1] \o seqs[2]) \o seqs[3]) \o seqs[4]]
<1>1. Len(seqs) = 4
  <2> DEFINE R == Seq(S)
  <2>1. seqs \in [1 .. 4 -> R]
    OBVIOUS
  <2> HIDE DEF R
  <2>2. seqs \in Seq(R)
    BY <2>1, SeqDef
  <2> QED
    BY <2>1, <2>2
<1>2. FlattenSeq(seqs) = flat[4]
  BY <1>1 DEF FlattenSeq
<1>3. Is(g)
  <2>1. \A i \in 1 .. 4 : i = 1 \/ i = 2 \/ i = 3 \/ i = 4
    OBVIOUS
  <2>2. g[1] = seqs[1] /\ g[2] = seqs[1] \o seqs[2] /\ g[3] = (seqs[1] \o seqs[2]) \o seqs[3]
        /\ g[4] = ((seqs[1] \o seqs[2]) \o seqs[3]) \o seqs[4]
    OBVIOUS
  <2>3. g = [i \in 1 .. 4 |-> g[i]]
    OBVIOUS
  <2> HIDE DEF g
  <2>4. ASSUME NEW i \in 1 .. 4
        PROVE  g[i] = IF i = 1 THEN seqs[i] ELSE g[i - 1] \o seqs[i]
    <3>1. CASE i = 1
      BY <2>2, <3>1
    <3>2. CASE i = 2
      <4>1. i # 1 /\ i - 1 = 1
        BY <3>2
      <4> QED
        BY <2>2, <3>2, <4>1
    <3>3. CASE i = 3
      <4>1. i # 1 /\ i - 1 = 2
        BY <3>3
      <4> QED
        BY <2>2, <3>3, <4>1
    <3>4. CASE i = 4
      <4>1. i # 1 /\ i - 1 = 3
        BY <3>4
      <4> QED
        BY <2>2, <3>4, <4>1
    <3> QED
      BY <2>1, <3>1, <3>2, <3>3, <3>4
  <2> QED
    BY <2>3, <2>4
<1>4. Is(flat)
  <2> HIDE DEF Is
  <2> QED
    BY <1>3, Zenon
<1> HIDE DEF flat
<1>5. \A i \in 1 .. 4 : flat[i] = IF i = 1 THEN seqs[i] ELSE flat[i - 1] \o seqs[i]
  BY <1>4
<1>6. flat[1] = seqs[1] /\ flat[2] = flat[1] \o seqs[2] /\ flat[3] = flat[2] \o seqs[3]
      /\ flat[4] = flat[3] \o seqs[4]
  <2>1. 1 \in 1 .. 4 /\ 2 \in 1 .. 4 /\ 3 \in 1 .. 4 /\ 4 \in 1 .. 4
    OBVIOUS
  <2> QED
    BY ONLY <1>5, <2>1, 2 - 1 = 1, 3 - 1 = 2, 4 - 1 = 3, 2 # 1, 3 # 1, 4 # 1
<1> QED
  BY <1>2, <1>6

LEMMA SetOfBoth ==
  ASSUME NEW S, NEW s \in Seq(S), NEW t \in Seq(S)
  PROVE  s \o t \in Seq(S) /\ ToSet(s \o t) = ToSet(s) \cup ToSet(t)
<1>1. /\ s \o t \in Seq(S) /\ Len(s \o t) = Len(s) + Len(t)
      /\ Len(s) \in Nat /\ Len(t) \in Nat
      /\ DOMAIN s = 1 .. Len(s) /\ DOMAIN t = 1 .. Len(t)
      /\ DOMAIN (s \o t) = 1 .. Len(s) + Len(t)
  OBVIOUS
<1>2. \A i \in 1 .. Len(s) + Len(t) :
        (s \o t)[i] = IF i =< Len(s) THEN s[i] ELSE t[i - Len(s)]
  OBVIOUS
<1>3. ASSUME NEW x \in ToSet(s \o t) PROVE x \in ToSet(s) \cup ToSet(t)
  <2>1. PICK i \in 1 .. Len(s) + Len(t) : x = (s \o t)[i]
    BY <1>1 DEF ToSet
  <2>2. CASE i =< Len(s)
    BY <1>1, <1>2, <2>1, <2>2 DEF ToSet
  <2>3. CASE ~(i =< Len(s))
    <3>1. i - Len(s) \in 1 .. Len(t)
      BY <1>1, <2>3
    <3> QED
      BY <1>1, <1>2, <2>1, <2>3, <3>1 DEF ToSet
  <2> QED
    BY <2>2, <2>3
<1>4. ASSUME NEW x \in ToSet(s) PROVE x \in ToSet(s \o t)
  <2>1. PICK i \in 1 .. Len(s) : x = s[i]
    BY <1>1 DEF ToSet
  <2>2. i \in 1 .. Len(s) + Len(t) /\ (s \o t)[i] = x
    BY <1>1, <1>2, <2>1
  <2> QED
    BY <1>1, <2>2 DEF ToSet
<1>5. ASSUME NEW x \in ToSet(t) PROVE x \in ToSet(s \o t)
  <2>1. PICK i \in 1 .. Len(t) : x = t[i]
    BY <1>1 DEF ToSet
  <2>2. i + Len(s) \in 1 .. Len(s) + Len(t) /\ ~(i + Len(s) =< Len(s)) /\ i + Len(s) - Len(s) = i
    BY <1>1
  <2>3. (s \o t)[i + Len(s)] = x
    BY <1>2, <2>1, <2>2
  <2> QED
    BY <1>1, <2>2, <2>3 DEF ToSet
<1> QED
  BY <1>1, <1>3, <1>4, <1>5

Posting == [a : Articles, pos : Nat, cat : 0 .. 3]

(* The posting at a place of the index *)
PostingOf(word, cat, j) ==
  [a |-> file.words[word][cat][j].index, pos |-> file.words[word][cat][j].pos, cat |-> cat - 1]

LEMMA WordFacts ==
  ASSUME file \in File, NEW word \in DOMAIN file.words, NEW cat \in 1 .. 4
  PROVE  /\ file.words[word][cat] \in Seq([index : Articles, pos : Nat])
         /\ \A j \in DOMAIN file.words[word][cat] : PostingOf(word, cat, j) \in Posting
<1>1. PICK f : f = file
  OBVIOUS
<1>2. f.words[word] \in [1 .. 4 -> Seq([index : 0 .. Len(f.entry) - 1, pos : Nat])]
  <2>1. Written(file)
    BY FileAssumption
  <2> QED
    BY ONLY <1>1, <2>1 DEF Written
<1>3. 0 .. Len(f.entry) - 1 = Articles
  BY <1>1 DEF Articles, Size
<1> DEFINE R == [index : Articles, pos : Nat]
<1> PICK list : list = file.words[word][cat]
  OBVIOUS
<1>4. list \in Seq(R)
  BY <1>1, <1>2, <1>3
<1>5. \A j \in DOMAIN list : list[j] \in R
  <2> HIDE DEF R
  <2> QED
    BY <1>4
<1>6. ASSUME NEW j \in DOMAIN list PROVE PostingOf(word, cat, j) \in Posting
  <2>1. list[j].index \in Articles /\ list[j].pos \in Nat
    BY <1>5
  <2> QED
    BY <2>1 DEF PostingOf, Posting
<1> QED
  BY <1>4, <1>6

LEMMA PostingsAre ==
  ASSUME file \in File, NEW word \in DOMAIN file.words
  PROVE  /\ Postings(word) \in Seq(Posting)
         /\ \A p : p \in ToSet(Postings(word)) <=>
              \E cat \in 1 .. 4 : \E j \in DOMAIN file.words[word][cat] : p = PostingOf(word, cat, j)
<1> DEFINE row == [cat \in 1 .. 4 |-> [j \in DOMAIN file.words[word][cat] |-> PostingOf(word, cat, j)]]
<1>1. Postings(word) = FlattenSeq(row)
  BY DEF Postings, PostingOf
<1>2. ASSUME NEW cat \in 1 .. 4
      PROVE  /\ row[cat] \in Seq(Posting)
             /\ DOMAIN row[cat] = DOMAIN file.words[word][cat]
             /\ \A j \in DOMAIN row[cat] : row[cat][j] = PostingOf(word, cat, j)
  <2> DEFINE R == [index : Articles, pos : Nat]
  <2> PICK list : list = file.words[word][cat]
    OBVIOUS
  <2>1. list \in Seq(R) /\ \A j \in DOMAIN list : PostingOf(word, cat, j) \in Posting
    BY WordFacts
  <2>2. Len(list) \in Nat /\ DOMAIN list = 1 .. Len(list)
    <3> HIDE DEF R
    <3> QED
      BY <2>1
  <2>3. row[cat] = [j \in 1 .. Len(list) |-> PostingOf(word, cat, j)]
    BY <2>2
  <2> HIDE DEF row
  <2> QED
    BY <2>1, <2>2, <2>3
<1>3. row \in [1 .. 4 -> Seq(Posting)]
  BY <1>2
<1>4. \A cat \in 1 .. 4 : \A p : p \in ToSet(row[cat]) <=>
        \E j \in DOMAIN file.words[word][cat] : p = PostingOf(word, cat, j)
  <2> HIDE DEF row
  <2> QED
    BY <1>2 DEF ToSet
<1> HIDE DEF row
<1>5. FlattenSeq(row) = ((row[1] \o row[2]) \o row[3]) \o row[4]
  BY <1>3, FlattenFour
<1>6. /\ FlattenSeq(row) \in Seq(Posting)
      /\ ToSet(FlattenSeq(row)) = ToSet(row[1]) \cup ToSet(row[2]) \cup ToSet(row[3]) \cup ToSet(row[4])
  <2>1. row[1] \in Seq(Posting) /\ row[2] \in Seq(Posting) /\ row[3] \in Seq(Posting) /\ row[4] \in Seq(Posting)
    BY <1>3
  <2> DEFINE two == row[1] \o row[2]
             three == two \o row[3]
  <2>2. two \in Seq(Posting) /\ ToSet(two) = ToSet(row[1]) \cup ToSet(row[2])
    BY <2>1, SetOfBoth
  <2> HIDE DEF two
  <2>3. three \in Seq(Posting) /\ ToSet(three) = ToSet(two) \cup ToSet(row[3])
    BY <2>1, <2>2, SetOfBoth
  <2> HIDE DEF three
  <2>4. three \o row[4] \in Seq(Posting) /\ ToSet(three \o row[4]) = ToSet(three) \cup ToSet(row[4])
    BY <2>1, <2>3, SetOfBoth
  <2> QED
    BY <1>5, <2>2, <2>3, <2>4 DEF two, three
<1>7. \A p : p \in ToSet(FlattenSeq(row)) <=> \E cat \in 1 .. 4 : p \in ToSet(row[cat])
  <2>1. \A cat \in 1 .. 4 : cat = 1 \/ cat = 2 \/ cat = 3 \/ cat = 4
    OBVIOUS
  <2> QED
    BY <1>6, <2>1
<1> QED
  BY <1>1, <1>4, <1>6, <1>7

(* The positions of an article that a word has in the index *)
LEMMA PostingPositions ==
  ASSUME file \in File, NEW word \in Indexed, NEW plus,
         NEW n, n = Len(Postings(word)), NEW items, items = Items(Postings(word), plus)
  PROVE  /\ n \in Nat /\ DOMAIN Postings(word) = 1 .. n
         /\ {items[i].a : i \in 1 .. n} \subseteq Articles
         /\ \A a : {items[i].pos : i \in {j \in 1 .. n : items[j].a = a}} = OccursAt(word, a)
<1>1. PICK posts : posts = Postings(word)
  OBVIOUS
<1>2. posts \in Seq(Posting) /\ n \in Nat /\ DOMAIN posts = 1 .. n
  BY <1>1, PostingsAre DEF Indexed
<1>3. \A i \in 1 .. n : posts[i] \in Posting /\ items[i].a = posts[i].a /\ items[i].pos = posts[i].pos
  BY <1>1, <1>2 DEF Items
<1>4. {items[i].a : i \in 1 .. n} \subseteq Articles
  BY <1>3 DEF Posting
<1>5. \A e : e \in UNION {{cat} \X DOMAIN file.words[word][cat] : cat \in 1 .. 4} <=>
               \E cat \in 1 .. 4 : \E j \in DOMAIN file.words[word][cat] : e = <<cat, j>>
  OBVIOUS
<1>6. ASSUME NEW a, NEW i \in 1 .. n, items[i].a = a
      PROVE  items[i].pos \in OccursAt(word, a)
  <2>1. posts[i] \in ToSet(posts)
    BY <1>2 DEF ToSet
  <2>2. PICK cat \in 1 .. 4 : \E j \in DOMAIN file.words[word][cat] : posts[i] = PostingOf(word, cat, j)
    BY <1>1, <2>1, PostingsAre DEF Indexed
  <2>3. PICK j \in DOMAIN file.words[word][cat] : posts[i] = PostingOf(word, cat, j)
    BY <2>2
  <2>4. file.words[word][cat][j].index = a /\ items[i].pos = file.words[word][cat][j].pos
    BY <1>3, <1>6, <2>3 DEF PostingOf
  <2>5. <<cat, j>> \in Occurrences(a, word)
    BY <1>5, <2>4 DEF Occurrences
  <2> QED
    <3>1. /\ <<cat, j>>[1] = cat /\ <<cat, j>>[2] = j
          /\ items[i].pos = file.words[word][cat][j].pos
      BY <2>4
    <3> QED
      BY ONLY <2>5, <3>1 DEF OccursAt
<1>7. ASSUME NEW a, NEW p \in OccursAt(word, a)
      PROVE  \E i \in 1 .. n : items[i].a = a /\ items[i].pos = p
  <2>1. PICK e \in Occurrences(a, word) : p = file.words[word][e[1]][e[2]].pos
    BY DEF OccursAt
  <2>6. PICK cat \in 1 .. 4 : \E j \in DOMAIN file.words[word][cat] : e = <<cat, j>>
    BY <1>5, <2>1 DEF Occurrences
  <2>2. PICK j \in DOMAIN file.words[word][cat] : e = <<cat, j>>
    BY <2>6
  <2>3. file.words[word][cat][j].index = a /\ file.words[word][cat][j].pos = p
    BY <2>1, <2>2 DEF Occurrences
  <2>4. PostingOf(word, cat, j) \in ToSet(posts)
    BY <1>1, <2>2, PostingsAre DEF Indexed
  <2>5. PICK i \in 1 .. n : posts[i] = PostingOf(word, cat, j)
    BY <1>2, <2>4 DEF ToSet
  <2> QED
    BY <1>3, <2>3, <2>5 DEF PostingOf
<1>8. ASSUME NEW a
      PROVE  {items[i].pos : i \in {j \in 1 .. n : items[j].a = a}} = OccursAt(word, a)
  BY <1>6, <1>7
<1> QED
  BY <1>1, <1>2, <1>4, <1>8

-----------------------------------------------------------------------------
(* Which articles a word finds that the index lacks *)

LEMMA CountedOnce ==
  ASSUME NEW S, NEW h \in Seq(S), \A i \in DOMAIN h : \A j \in 1 .. i - 1 : h[i] # h[j]
  PROVE  IsFiniteSet(ToSet(h)) /\ Cardinality(ToSet(h)) = Len(h)
<1>1. PICK n \in Nat : n = Len(h)
  OBVIOUS
<1>2. DOMAIN h = 1 .. n
  BY <1>1
<1>3. ToSet(h) = {h[i] : i \in 1 .. n}
  BY <1>2 DEF ToSet
<1> PICK T : T = ToSet(h)
  OBVIOUS
<1>4. h \in [1 .. n -> T]
  <2>1. h = [i \in 1 .. n |-> h[i]]
    BY <1>1
  <2> QED
    BY <1>3, <2>1
<1>5. ASSUME NEW i \in 1 .. n, NEW j \in 1 .. n, h[i] = h[j] PROVE i = j
  <2>1. ~(j < i)
    <3>1. j < i => j \in 1 .. i - 1
      OBVIOUS
    <3> QED
      BY <1>2, <1>5, <3>1
  <2>2. ~(i < j)
    <3>1. i < j => i \in 1 .. j - 1
      OBVIOUS
    <3> QED
      BY <1>2, <1>5, <3>1
  <2> QED
    BY <2>1, <2>2
<1>6. h \in Bijection(1 .. n, T)
  BY <1>3, <1>4, <1>5 DEF Bijection, Injection, Surjection, IsInjective
<1>7. IsFiniteSet(1 .. n) /\ Cardinality(1 .. n) = n
  BY FS_Interval
<1> QED
  BY <1>1, <1>6, <1>7, FS_Bijection DEF ExistsBijection

LEMMA HitsAre ==
  ASSUME file \in File, Certain, NEW w \in Title, NEW h \in FindResults(A, w)
  PROVE  \A a : a \in ToSet(h) <=> TitleHit(a, w)
<1> DEFINE all == {b \in Articles : Entry(b).ns = A /\ IsPrefix(w, Entry(b).title)}
           longer == {a \in all : Entry(a).title # w}
           less(a) == {b \in all : Greater(Entry(a).title, Entry(b).title)}
<1>1. A \in Int /\ SearchLimit \in Nat /\ Size \in Nat
      /\ \A a \in Articles : Entry(a).title \in Title
  BY FileFacts, SearchAssumption
<1>2. h \in Seq(Articles) /\ Len(h) \in Nat /\ Len(h) =< SearchLimit
  <2>1. PICK start \in FindByTitle(A, w) :
          h = Run(start, {a \in 0 .. Size - 1 : PrefixMatches(a, A, w)})
    BY DEF FindResults
  <2>2. start \in 0 .. Size
    BY <1>1, StartsAt
  <2> QED
    BY <1>1, <2>1, <2>2, RunIs
<1>3. /\ ToSet(h) \subseteq all
      /\ ListedIn(h, longer)
      /\ all # longer /\ SearchLimit > 0 => h # <<>> /\ Head(h) \in all \ longer
  BY <1>1, PrefixIsFound DEF FoundByPrefix
<1>4. IsFiniteSet(all)
  <2>1. IsFiniteSet(Articles)
    BY <1>1, FS_Interval DEF Articles
  <2>2. all \in SUBSET Articles
    OBVIOUS
  <2> HIDE DEF all
  <2> QED
    BY <2>1, <2>2, FS_Subset
<1>5. IsFiniteSet(ToSet(h)) /\ Cardinality(ToSet(h)) = Len(h)
  BY <1>2, <1>3, CountedOnce DEF ListedIn
<1>6. \A a, b \in all : a # b => Entry(a).title # Entry(b).title
  BY DEF Certain
<1>7. ASSUME SearchLimit > 0, NEW b \in all, b \notin ToSet(h) PROVE b \in longer
  <2> SUFFICES ASSUME Entry(b).title = w PROVE FALSE
    OBVIOUS
  <2>1. h # <<>> /\ Head(h) \in all /\ Entry(Head(h)).title = w
    BY <1>3, <1>7
  <2>2. Head(h) \in ToSet(h)
    BY <1>2, <2>1 DEF ToSet
  <2> QED
    BY <1>6, <1>7, <2>1, <2>2
<1>8. \A a : TitleHit(a, w) <=> a \in all /\ Cardinality(less(a)) < SearchLimit
  BY DEF TitleHit
<1>9. ASSUME NEW a \in ToSet(h) PROVE Cardinality(less(a)) < SearchLimit
  <2>1. PICK i \in DOMAIN h : a = h[i]
    BY DEF ToSet
  <2>2. Len(h) > 0 /\ SearchLimit > 0
    BY <1>1, <1>2, <2>1
  <2>3. a \in all
    BY <1>3
  <2>4. ASSUME NEW b \in less(a) PROVE b \in ToSet(h) \ {a}
    <3>1. b \in all /\ Greater(Entry(a).title, Entry(b).title)
      OBVIOUS
    <3>2. b # a
      BY <1>1, <2>3, <3>1, GreaterIrreflexive
    <3>3. b \in ToSet(h)
      BY <1>3, <1>7, <2>1, <2>2, <3>1 DEF ListedIn
    <3> QED
      BY <3>2, <3>3
  <2> HIDE DEF less
  <2>5. IsFiniteSet(ToSet(h) \ {a}) /\ Cardinality(ToSet(h) \ {a}) = Len(h) - 1
    BY <1>5, FS_RemoveElement
  <2>6. less(a) \in SUBSET (ToSet(h) \ {a})
    BY <2>4
  <2>7. IsFiniteSet(less(a)) /\ Cardinality(less(a)) =< Len(h) - 1
    BY <2>5, <2>6, FS_Subset
  <2>8. Cardinality(less(a)) \in Nat
    BY <2>7, FS_CardinalityType
  <2> QED
    BY <1>1, <1>2, <2>7, <2>8
<1>10. ASSUME NEW a \in all, a \notin ToSet(h) PROVE ~(Cardinality(less(a)) < SearchLimit)
  <2>1. less(a) \in SUBSET all
    OBVIOUS
  <2>2. IsFiniteSet(less(a)) /\ Cardinality(less(a)) \in Nat
    <3> HIDE DEF less, all
    <3>1. IsFiniteSet(less(a))
      BY <1>4, <2>1, FS_Subset
    <3> QED
      BY <3>1, FS_CardinalityType
  <2>3. CASE SearchLimit = 0
    BY <2>2, <2>3
  <2>4. CASE SearchLimit # 0
    <3>1. a \in longer
      BY <1>1, <1>7, <1>10, <2>4
    <3>2. Len(h) = SearchLimit /\ \A i \in DOMAIN h : ~Greater(Entry(h[i]).title, Entry(a).title)
      BY <1>3, <1>10, <3>1 DEF ListedIn
    <3>3. ASSUME NEW b \in ToSet(h) PROVE b \in less(a)
      <4>1. b \in all /\ ~Greater(Entry(b).title, Entry(a).title)
        BY <1>3, <3>2 DEF ToSet
      <4>2. Entry(b).title # Entry(a).title
        BY <1>6, <1>10, <4>1
      <4> QED
        BY <1>1, <4>1, <4>2, GreaterTotal
    <3> HIDE DEF less
    <3>4. Cardinality(ToSet(h)) =< Cardinality(less(a))
      BY <2>2, <3>3, FS_Subset
    <3> QED
      BY <1>1, <1>5, <2>2, <3>2, <3>4
  <2> QED
    BY <2>3, <2>4
<1> HIDE DEF all, longer, less
<1> QED
  BY <1>3, <1>8, <1>9, <1>10

-----------------------------------------------------------------------------
(* What the index of results has *)

WordsTill == {expr[i].word : i \in 1 .. Len(expr) - Len(left)} \ {<<>>}

FoundIn(W, a) == UsedIn(W, a) \cup TitledIn(W, a)

LEMMA IndexedWord ==
  ASSUME NEW W, NEW word \in Indexed, NEW a
  PROVE  FoundIn(W \cup {word}, a) = FoundIn(W, a) \cup OccursAt(word, a)
<1>1. UsedIn(W \cup {word}, a) = UsedIn(W, a) \cup OccursAt(word, a)
  BY DEF UsedIn
<1>2. TitledIn(W \cup {word}, a) = TitledIn(W, a)
  BY DEF TitledIn
<1> QED
  BY <1>1, <1>2 DEF FoundIn

TitlePosition(word, a) == {p \in {0} : TitleHit(a, word)}

LEMMA TitleWord ==
  ASSUME NEW W, NEW word, word \notin Indexed, NEW a
  PROVE  FoundIn(W \cup {word}, a) = FoundIn(W, a) \cup TitlePosition(word, a)
<1>1. OccursAt(word, a) = {}
  BY DEF OccursAt, Occurrences
<1>2. UsedIn(W \cup {word}, a) = UsedIn(W, a)
  BY <1>1 DEF UsedIn
<1>3. TitledIn(W \cup {word}, a) = TitledIn(W, a) \cup TitlePosition(word, a)
  BY DEF TitledIn, TitlePosition
<1> QED
  BY <1>2, <1>3 DEF FoundIn

(* Tokens are taken in their order; the index has the articles that the    *)
(* words so far have found.                                                *)
TokensSound ==
  /\ phase \in {"idle", "tokens", "found", "end"}
  /\ phase = "idle" => index = Nothing
  /\ phase # "idle" => /\ expr \in Seq(Letters) /\ Len(left) =< Len(expr)
                       /\ \A i \in 1 .. Len(left) : left[i] = expr[Len(expr) - Len(left) + i]

IndexSound ==
  /\ DOMAIN index \subseteq Articles
  /\ \A a \in DOMAIN index : PosIn(index, a) # {}
  /\ phase # "idle" /\ Certain => \A a : PosIn(index, a) = FoundIn(WordsTill, a)

(* A word has found some articles, each at some positions. *)
LEMMA InIndexFinds ==
  ASSUME SearchTyping, IndexSound, NEW token, token.word \in Indexed, InIndex(token)
  PROVE  /\ DOMAIN index' \subseteq Articles
         /\ \A a \in DOMAIN index' : PosIn(index', a) # {}
         /\ \A a : PosIn(index', a) = PosIn(index, a) \cup OccursAt(token.word, a)
<1>1. PICK n, items : n = Len(Postings(token.word)) /\ items = Items(Postings(token.word), token.plus)
  OBVIOUS
<1>2. /\ n \in Nat /\ DOMAIN Postings(token.word) = 1 .. n
      /\ {items[i].a : i \in 1 .. n} \subseteq Articles
      /\ \A a : {items[i].pos : i \in {j \in 1 .. n : items[j].a = a}} = OccursAt(token.word, a)
  BY <1>1, PostingPositions DEF SearchTyping
<1>3. PICK f : Folds(f, n, index, token.word, items) /\ index' = f[1 .. n]
  BY <1>1, <1>2, InIndexFolds
<1>4. HasPositions(index', index, n, items)
  BY <1>2, <1>3, FoldPositions
<1>5. DOMAIN index' = DOMAIN index \cup {items[i].a : i \in 1 .. n}
  BY <1>4 DEF HasPositions
<1>6. DOMAIN index' \subseteq Articles
  BY <1>2, <1>5 DEF IndexSound
<1>7. ASSUME NEW a PROVE PosIn(index', a) = PosIn(index, a) \cup OccursAt(token.word, a)
  BY <1>2, <1>4 DEF HasPositions
<1>8. ASSUME NEW a \in DOMAIN index' PROVE PosIn(index', a) # {}
  <2>1. CASE a \in DOMAIN index
    BY <1>7, <2>1 DEF IndexSound
  <2>2. CASE a \notin DOMAIN index
    <3>1. PICK i \in 1 .. n : items[i].a = a
      BY <1>5, <2>2
    <3>2. items[i].pos \in OccursAt(token.word, a)
      BY <1>2, <3>1
    <3> QED
      BY <1>7, <3>2
  <2> QED
    BY <2>1, <2>2
<1> QED
  BY <1>6, <1>7, <1>8

LEMMA InTitlesFinds ==
  ASSUME SearchTyping, IndexSound, NEW token, token.word \in Title, InTitles(token)
  PROVE  /\ DOMAIN index' \subseteq Articles
         /\ \A a \in DOMAIN index' : PosIn(index', a) # {}
         /\ Certain => \A a : PosIn(index', a) = PosIn(index, a) \cup TitlePosition(token.word, a)
<1>1. PICK h : h = hits'
  OBVIOUS
<1>2. h \in FindResults(A, token.word)
  BY <1>1 DEF InTitles
<1>3. h \in Seq(Articles)
  <2>1. PICK start \in FindByTitle(A, token.word) :
          h = Run(start, {a \in 0 .. Size - 1 : PrefixMatches(a, A, token.word)})
    BY <1>2 DEF FindResults
  <2>2. start \in 0 .. Size
    BY StartsAt, SearchAssumption DEF SearchTyping
  <2> QED
    BY <2>1, <2>2, RunIs DEF SearchTyping
<1>4. PICK n, items : n = Len(h) /\ items = TitleItems(h, token.plus)
  OBVIOUS
<1>5. n \in Nat /\ DOMAIN h = 1 .. n /\ \A i \in 1 .. n : h[i] \in Articles
  BY <1>3, <1>4
<1>6. \A i \in 1 .. n : items[i].a = h[i] /\ items[i].pos = 0
  BY <1>4, <1>5 DEF TitleItems
<1>7. PICK f : Folds(f, n, index, token.word, items) /\ index' = f[1 .. n]
  BY <1>1, <1>4, <1>5, InTitlesFolds
<1>8. HasPositions(index', index, n, items)
  BY <1>5, <1>7, FoldPositions
<1>9. {items[i].a : i \in 1 .. n} = ToSet(h)
  BY <1>5, <1>6 DEF ToSet
<1>10. ASSUME NEW a
       PROVE  {items[i].pos : i \in {j \in 1 .. n : items[j].a = a}} = {p \in {0} : a \in ToSet(h)}
  BY <1>5, <1>6 DEF ToSet
<1>11. DOMAIN index' = DOMAIN index \cup ToSet(h)
  BY <1>8, <1>9 DEF HasPositions
<1>12. ASSUME NEW a PROVE PosIn(index', a) = PosIn(index, a) \cup {p \in {0} : a \in ToSet(h)}
  BY <1>8, <1>10 DEF HasPositions
<1>13. DOMAIN index' \subseteq Articles
  BY <1>5, <1>11 DEF ToSet, IndexSound
<1>14. ASSUME NEW a \in DOMAIN index' PROVE PosIn(index', a) # {}
  <2>1. CASE a \in DOMAIN index
    BY <1>12, <2>1 DEF IndexSound
  <2>2. CASE a \notin DOMAIN index
    <3>1. 0 \in {p \in {0} : a \in ToSet(h)}
      BY <1>11, <2>2
    <3> QED
      BY <1>12, <3>1
  <2> QED
    BY <2>1, <2>2
<1>15. ASSUME Certain, NEW a
       PROVE  PosIn(index', a) = PosIn(index, a) \cup TitlePosition(token.word, a)
  <2>1. a \in ToSet(h) <=> TitleHit(a, token.word)
    BY <1>2, <1>15, HitsAre DEF SearchTyping
  <2> QED
    BY <1>12, <2>1 DEF TitlePosition
<1> QED
  BY <1>13, <1>14, <1>15

LEMMA OccursFrame ==
  ASSUME file' = file, NEW word, NEW a
  PROVE  OccursAt(word, a)' = OccursAt(word, a)
<1>1. Indexed' = Indexed
  BY DEF Indexed
<1>2. Occurrences(a, word)' = Occurrences(a, word)
  BY <1>1 DEF Occurrences
<1> QED
  BY <1>2 DEF OccursAt

LEMMA HitFrame ==
  ASSUME file' = file, NEW word, NEW a
  PROVE  TitleHit(a, word)' <=> TitleHit(a, word)
  BY DEF TitleHit, Articles, Size, Entry

LEMMA FoundFrame ==
  ASSUME file' = file
  PROVE  /\ Certain' <=> Certain
         /\ \A W, a : FoundIn(W, a)' = FoundIn(W, a)
<1>1. Certain' <=> Certain
  BY DEF Certain, Articles, Size, Entry
<1>2. ASSUME NEW W, NEW a PROVE UsedIn(W, a)' = UsedIn(W, a)
  BY OccursFrame DEF UsedIn
<1>3. ASSUME NEW W, NEW a PROVE TitledIn(W, a)' = TitledIn(W, a)
  <2>1. Indexed' = Indexed
    BY DEF Indexed
  <2> QED
    BY <2>1, HitFrame DEF TitledIn
<1> QED
  BY <1>1, <1>2, <1>3 DEF FoundIn

LEMMA NextWord ==
  ASSUME SearchTyping, TokensSound, phase # "idle", left # <<>>, expr' = expr, left' = Tail(left)
  PROVE  /\ Head(left) \in Letters
         /\ WordsTill' = WordsTill \cup ({Head(left).word} \ {<<>>})
         /\ Len(left') =< Len(expr)
         /\ \A i \in 1 .. Len(left') : left'[i] = expr[Len(expr) - Len(left') + i]
<1>1. PICK e, toks : e = expr /\ toks = left
  OBVIOUS
<1>2. /\ e \in Seq(Letters) /\ toks \in Seq(Letters) /\ toks # <<>> /\ Len(toks) =< Len(e)
      /\ \A i \in 1 .. Len(toks) : toks[i] = e[Len(e) - Len(toks) + i]
  BY <1>1 DEF SearchTyping, TokensSound
<1>3. PICK m \in Nat, n \in Nat : m = Len(e) /\ n = Len(toks)
  BY <1>2
<1>4. n > 0 /\ n =< m /\ Len(Tail(toks)) = n - 1 /\ Head(toks) = toks[1] /\ Head(toks) \in Letters
  BY <1>2, <1>3
<1>5. Head(toks) = e[m - n + 1]
  <2>1. 1 \in 1 .. n
    BY <1>4
  <2> QED
    BY <1>2, <1>3, <1>4, <2>1
<1>6. ASSUME NEW i \in 1 .. n - 1 PROVE Tail(toks)[i] = e[m - (n - 1) + i]
  <2>1. Tail(toks)[i] = toks[i + 1] /\ i + 1 \in 1 .. n
    BY <1>2, <1>3, <1>4
  <2>2. toks[i + 1] = e[m - n + (i + 1)]
    BY <1>2, <1>3, <2>1
  <2>3. m - n + (i + 1) = m - (n - 1) + i
    OBVIOUS
  <2> QED
    BY <2>1, <2>2, <2>3
<1>7. 1 .. m - (n - 1) = (1 .. m - n) \cup {m - n + 1}
  BY <1>4
<1>8. {e[i].word : i \in 1 .. m - (n - 1)} = {e[i].word : i \in 1 .. m - n} \cup {Head(toks).word}
  BY <1>5, <1>7
<1>9. WordsTill = {e[i].word : i \in 1 .. m - n} \ {<<>>}
  BY <1>1, <1>3 DEF WordsTill
<1>10. WordsTill' = {e[i].word : i \in 1 .. m - (n - 1)} \ {<<>>}
  <2>1. expr' = e /\ Len(left') = n - 1
    BY <1>1, <1>4
  <2> QED
    BY <1>3, <2>1 DEF WordsTill
<1>11. Len(left') = n - 1 /\ \A i \in 1 .. n - 1 : left'[i] = e[m - (n - 1) + i]
  BY <1>1, <1>4, <1>6
<1>12. WordsTill' = WordsTill \cup ({Head(left).word} \ {<<>>})
  BY <1>1, <1>8, <1>9, <1>10
<1>13. Len(left') =< Len(expr)
  BY <1>1, <1>3, <1>4, <1>11
<1>14. \A i \in 1 .. Len(left') : left'[i] = expr[Len(expr) - Len(left') + i]
  <2> PICK t : t = left'
    OBVIOUS
  <2>1. Len(t) = n - 1 /\ Len(expr) = m
    BY <1>1, <1>3, <1>11
  <2> QED
    BY <1>1, <1>11, <2>1
<1> QED
  BY <1>1, <1>4, <1>12, <1>13, <1>14

LEMMA TokenIndex ==
  ASSUME SearchTyping, TokensSound, IndexSound, Token
  PROVE  TokensSound' /\ IndexSound'
<1>1. /\ phase = "tokens" /\ left # <<>>
      /\ left' = Tail(left) /\ file' = file /\ phase' = phase /\ expr' = expr
  BY DEF Token
<1> PICK token : token = Head(left)
  OBVIOUS
<1>2. /\ token \in Letters
      /\ WordsTill' = WordsTill \cup ({token.word} \ {<<>>})
      /\ Len(left') =< Len(expr)
      /\ \A i \in 1 .. Len(left') : left'[i] = expr[Len(expr) - Len(left') + i]
  BY <1>1, NextWord
<1>3. TokensSound'
  BY <1>1, <1>2 DEF TokensSound
<1>4. token.word \in Title
  BY <1>2 DEF Letters, Title
<1>5. /\ Certain' <=> Certain
      /\ \A W, a : FoundIn(W, a)' = FoundIn(W, a)
  BY <1>1, FoundFrame
<1>6. /\ DOMAIN index \subseteq Articles
      /\ \A a \in DOMAIN index : PosIn(index, a) # {}
      /\ Certain => \A a : PosIn(index, a) = FoundIn(WordsTill, a)
  BY <1>1 DEF IndexSound
<1>7. /\ DOMAIN index' \subseteq Articles
      /\ \A a \in DOMAIN index' : PosIn(index', a) # {}
      /\ Certain => \A a : PosIn(index', a) = FoundIn(WordsTill', a)
  <2>1. CASE token.word = <<>>
    <3>1. index' = index
      BY <1>1, <2>1 DEF Token
    <3>2. WordsTill' = WordsTill
      BY <1>2, <2>1
    <3> QED
      BY <1>6, <3>1, <3>2
  <2>2. CASE token.word # <<>> /\ token.word \in Indexed
    <3>1. InIndex(token)
      BY <1>1, <2>2 DEF Token
    <3>2. WordsTill' = WordsTill \cup {token.word}
      BY <1>2, <2>2
    <3>3. /\ DOMAIN index' \subseteq Articles
          /\ \A a \in DOMAIN index' : PosIn(index', a) # {}
          /\ \A a : PosIn(index', a) = PosIn(index, a) \cup OccursAt(token.word, a)
      BY <2>2, <3>1, InIndexFinds
    <3>4. \A a : FoundIn(WordsTill', a) = FoundIn(WordsTill, a) \cup OccursAt(token.word, a)
      BY <2>2, <3>2, IndexedWord
    <3> QED
      BY <1>6, <3>3, <3>4
  <2>3. CASE token.word # <<>> /\ token.word \notin Indexed
    <3>1. InTitles(token)
      BY <1>1, <2>3 DEF Token
    <3>2. WordsTill' = WordsTill \cup {token.word}
      BY <1>2, <2>3
    <3>3. /\ DOMAIN index' \subseteq Articles
          /\ \A a \in DOMAIN index' : PosIn(index', a) # {}
          /\ Certain => \A a : PosIn(index', a) = PosIn(index, a) \cup TitlePosition(token.word, a)
      BY <1>4, <3>1, InTitlesFinds
    <3>4. \A a : FoundIn(WordsTill', a) = FoundIn(WordsTill, a) \cup TitlePosition(token.word, a)
      BY <2>3, <3>2, TitleWord
    <3> QED
      BY <1>6, <3>3, <3>4
  <2> QED
    BY <2>1, <2>2, <2>3
<1>8. IndexSound'
  <2>1. Articles' = Articles
    BY <1>1 DEF Articles, Size
  <2>2. PICK W : W = WordsTill'
    OBVIOUS
  <2>3. ASSUME Certain', NEW a PROVE PosIn(index', a) = FoundIn(WordsTill, a)'
    <3>1. FoundIn(WordsTill, a)' = FoundIn(W, a)'
      BY <2>2
    <3> QED
      BY <1>5, <1>7, <2>2, <2>3, <3>1
  <2> QED
    BY <1>7, <2>1, <2>3 DEF IndexSound, PosIn
<1> QED
  BY <1>3, <1>8

-----------------------------------------------------------------------------
(* Results are the articles of the index that are not left out, in any     *)
(* order.                                                                  *)

LEMMA AllOnce ==
  ASSUME NEW S, IsFiniteSet(S), NEW f \in SetToSeqs(S)
  PROVE  /\ f \in Seq(S) /\ ToSet(f) = S /\ Len(f) = Cardinality(S)
         /\ \A i, j \in 1 .. Len(f) : i # j => f[i] # f[j]
<1>1. PICK n \in Nat : n = Cardinality(S)
  BY FS_CardinalityType
<1>2. f \in [1 .. n -> S] /\ \A i, j \in 1 .. n : i # j => f[i] # f[j]
  BY <1>1 DEF SetToSeqs
<1>3. f \in Injection(1 .. n, S)
  BY <1>2 DEF Injection, IsInjective
<1>4. IsFiniteSet(1 .. n) /\ Cardinality(1 .. n) = n
  BY FS_Interval
<1>5. f \in Surjection(1 .. n, S)
  BY <1>1, <1>3, <1>4, FS_Injection
<1>6. f \in Seq(S) /\ Len(f) = n
  BY <1>1, <1>2
<1>7. ToSet(f) = S
  BY <1>2, <1>5 DEF Surjection, ToSet
<1> QED
  BY <1>1, <1>2, <1>6, <1>7

ResultsSound == Done => left = <<>> /\ results \in SetToSeqs(Filtered)

ResultsIInv == SearchTyping /\ TokensSound /\ IndexSound /\ ResultsSound

LEMMA ResultsStart == SearchInit => ResultsIInv
  BY DEF SearchInit, ResultsIInv, SearchTyping, TokensSound, IndexSound, ResultsSound, Done, Nothing

LEMMA IndexStays ==
  ASSUME IndexSound, UNCHANGED <<file, expr, left, index>>,
         phase' # "idle" => phase # "idle"
  PROVE  IndexSound'
<1>1. /\ Certain' <=> Certain
      /\ \A W, a : FoundIn(W, a)' = FoundIn(W, a)
  BY FoundFrame
<1> PICK W : W = WordsTill
  OBVIOUS
<1>2. WordsTill' = W
  BY DEF WordsTill
<1>3. \A a : FoundIn(WordsTill, a)' = FoundIn(WordsTill, a)
  BY <1>1, <1>2
<1>4. Articles' = Articles /\ \A a : PosIn(index, a)' = PosIn(index, a)
  BY DEF Articles, Size, PosIn
<1> QED
  BY <1>1, <1>3, <1>4 DEF IndexSound

LEMMA SearchBegins ==
  ASSUME ResultsIInv, Search
  PROVE  ResultsIInv'
<1>1. /\ phase' = "tokens" /\ expr' \in Expr /\ left' = expr' /\ file' = file
      /\ index' = Nothing
  BY DEF Search, ResultsIInv, TokensSound
<1>2. expr' \in Seq(Letters)
  BY <1>1, InputAssumption DEF Letters
<1>3. SearchTyping' /\ ResultsSound'
  BY <1>1, <1>2 DEF ResultsIInv, SearchTyping, ResultsSound, Done
<1>4. TokensSound'
  BY <1>1, <1>2 DEF TokensSound
<1>5. WordsTill' = {}
  <2> PICK n : n = Len(expr')
    OBVIOUS
  <2>1. n \in Nat /\ Len(left') = n
    BY <1>1, <1>2
  <2>2. n - n = 0 /\ 1 .. 0 = {}
    BY <2>1
  <2> QED
    BY <2>1, <2>2 DEF WordsTill
<1>6. \A a : FoundIn({}, a)' = {}
  BY DEF FoundIn, UsedIn, TitledIn
<1>7. \A a : FoundIn(WordsTill, a)' = {}
  BY <1>5, <1>6
<1>8. \A a : PosIn(index, a)' = {}
  BY <1>1 DEF PosIn, Nothing
<1>9. DOMAIN index' = {}
  BY <1>1 DEF Nothing
<1>10. IndexSound'
  BY <1>7, <1>8, <1>9 DEF IndexSound
<1> QED
  BY <1>3, <1>4, <1>10 DEF ResultsIInv

LEMMA ResultsStep ==
  ASSUME ResultsIInv, [SearchNext]_searchVars
  PROVE  ResultsIInv'
<1>1. CASE Search
  BY <1>1, SearchBegins
<1>2. CASE Token
  <2>1. TokensSound' /\ IndexSound'
    BY <1>2, TokenIndex DEF ResultsIInv
  <2>2. file' = file /\ left' \in Seq(Letters)
    BY <1>2 DEF Token, ResultsIInv, SearchTyping
  <2>3. phase' = "tokens"
    BY <1>2 DEF Token
  <2> QED
    BY <2>1, <2>2, <2>3 DEF ResultsIInv, SearchTyping, ResultsSound, Done
<1>3. CASE ~Search /\ ~Token
  <2>1. /\ UNCHANGED <<file, expr, left, index>>
        /\ phase' \in {"idle", "tokens", "found", "end"}
        /\ phase' # "idle" => phase # "idle"
        /\ phase' = "idle" => phase = "idle"
    BY <1>3 DEF SearchNext, Find, FindRange, Sort, HandResult, HandRedirect,
         HandNothing, searchVars, searching, ResultsIInv, TokensSound
  <2>2. SearchTyping' /\ TokensSound'
    BY <2>1 DEF ResultsIInv, SearchTyping, TokensSound
  <2>3. IndexSound'
    BY <2>1, IndexStays DEF ResultsIInv
  <2>4. Filtered' = Filtered
    BY <2>1 DEF Filtered, ManyPositions
  <2>5. CASE Sort
    BY <2>1, <2>2, <2>3, <2>4, <2>5 DEF Sort, ResultsIInv, ResultsSound
  <2>6. CASE ~Sort
    <3>1. results' = results /\ (Done' => Done)
      BY <1>3, <2>6 DEF SearchNext, Find, FindRange, HandResult, HandRedirect, HandNothing,
         searchVars, searching, Done
    <3> QED
      BY <2>1, <2>2, <2>3, <2>4, <3>1 DEF ResultsIInv, ResultsSound
  <2> QED
    BY <2>2, <2>3, <2>5, <2>6 DEF ResultsIInv
<1> QED
  BY <1>1, <1>2, <1>3

LEMMA IndexMeans ==
  ASSUME ResultsIInv, Done, Certain
  PROVE  \A a : /\ PosIn(index, a) = PositionsOf(a)
                /\ a \in DOMAIN index <=> a \in Articles /\ PositionsOf(a) # {}
<1>1. left = <<>> /\ expr \in Seq(Letters) /\ phase # "idle"
  BY DEF ResultsIInv, ResultsSound, TokensSound, Done
<1>2. WordsTill = Words
  <2>1. Len(left) = 0 /\ Len(expr) \in Nat /\ DOMAIN expr = 1 .. Len(expr)
    BY <1>1
  <2>2. Len(expr) - 0 = Len(expr)
    BY <2>1
  <2> QED
    BY <2>1, <2>2 DEF WordsTill, Words
<1>3. \A a : PosIn(index, a) = FoundIn(Words, a)
  BY <1>1, <1>2 DEF ResultsIInv, IndexSound
<1>4. \A a : FoundIn(Words, a) = PositionsOf(a)
  BY DEF FoundIn, PositionsOf
<1>5. \A a \in DOMAIN index : a \in Articles /\ PosIn(index, a) # {}
  BY DEF ResultsIInv, IndexSound
<1>6. \A a : a \notin DOMAIN index => PosIn(index, a) = {}
  BY DEF PosIn
<1> QED
  BY <1>3, <1>4, <1>5, <1>6

LEMMA ResultsAre == ResultsIInv => ResultsRight
<1> SUFFICES ASSUME ResultsIInv, Done, Certain
             PROVE  /\ ToSet(results) =
                         IF {a \in Articles : Cardinality(PositionsOf(a)) > 1} # {}
                         THEN {a \in Articles : Cardinality(PositionsOf(a)) > 1}
                         ELSE {a \in Articles : PositionsOf(a) # {}}
                    /\ Len(results) = Cardinality(ToSet(results))
  BY DEF ResultsRight
<1> DEFINE many == {a \in DOMAIN index : ManyPositions(a)}
<1>1. IsFiniteSet(Filtered)
  <2>1. Filtered \in SUBSET Articles
    BY DEF ResultsIInv, IndexSound, Filtered
  <2>2. IsFiniteSet(Articles)
    BY FileFacts, FS_Interval DEF Articles, ResultsIInv, SearchTyping
  <2> QED
    BY <2>1, <2>2, FS_Subset
<1>2. ToSet(results) = Filtered /\ Len(results) = Cardinality(Filtered)
  BY <1>1, AllOnce DEF ResultsIInv, ResultsSound
<1>3. \A a : /\ PosIn(index, a) = PositionsOf(a)
             /\ a \in DOMAIN index <=> a \in Articles /\ PositionsOf(a) # {}
  BY IndexMeans
<1>4. \A a \in DOMAIN index : ManyPositions(a) <=> Cardinality(PositionsOf(a)) > 1
  BY <1>3 DEF ManyPositions, PosIn
<1>5. \A a : Cardinality(PositionsOf(a)) > 1 => PositionsOf(a) # {}
  BY FS_EmptySet
<1>6. many = {a \in Articles : Cardinality(PositionsOf(a)) > 1}
  BY <1>3, <1>4, <1>5
<1>7. DOMAIN index = {a \in Articles : PositionsOf(a) # {}}
  BY <1>3
<1>8. Filtered = IF many # {} THEN many ELSE DOMAIN index
  BY DEF Filtered
<1> HIDE DEF many
<1> QED
  BY <1>2, <1>6, <1>7, <1>8

(* The results of a search are what its words find, in any file and for    *)
(* any expression: the articles with a word of it, or with a title that    *)
(* begins with one the index lacks, each once, and of them those with more *)
(* than one position, if there are any.                                    *)
THEOREM ResultsTheorem == SearchSpec => []ResultsRight
<1> QED
  BY ResultsStart, ResultsStep, ResultsAre, PTL DEF SearchSpec

-----------------------------------------------------------------------------
(* Handing out: the results, then the redirects to them in url order. *)

Redirects(these) == {a \in Articles : IsRedirect(a) /\ Entry(a).to \in these}

LEMMA RedirectIs ==
  ASSUME Size \in Nat, NEW p \in 0 .. Size, NEW these
  PROVE  LET r == RedirectFrom(p, these)
         IN /\ r \in p .. Size
            /\ r < Size => r \in Redirects(these)
            /\ \A a \in Redirects(these) : a < r <=> a < p
<1> PICK n \in Nat : n = Size
  OBVIOUS
<1> DEFINE S == {n} \cup {a \in p .. n - 1 : IsRedirect(a) /\ Entry(a).to \in these}
<1>1. S \subseteq Nat /\ n \in S /\ \A a \in S : a \in p .. n
  OBVIOUS
<1>2. \A a : a \in S <=> a = n \/ (a \in Redirects(these) /\ p =< a)
  BY DEF Redirects, Articles
<1>3. \A a \in Redirects(these) : a \in Nat
  BY DEF Redirects, Articles
<1>4. RedirectFrom(p, these) = Min(S)
  BY DEF RedirectFrom
<1> HIDE DEF S
<1>5. PICK r \in S : \A a \in S : r =< a
  BY <1>1, Least
<1>6. RedirectFrom(p, these) = r
  BY <1>1, <1>4, <1>5, LeastIsMin
<1>7. r \in p .. n /\ (r < n => r \in Redirects(these))
  BY <1>1, <1>2, <1>5
<1>8. ASSUME NEW a \in Redirects(these) PROVE a < r <=> a < p
  BY <1>1, <1>2, <1>3, <1>5, <1>7
<1> QED
  BY <1>6, <1>7, <1>8

LEMMA WiderSeq ==
  ASSUME NEW S, NEW T, S \subseteq T, NEW s \in Seq(S)
  PROVE  s \in Seq(T)
<1>1. PICK n \in Nat : n = Len(s)
  OBVIOUS
<1>2. s = [i \in 1 .. n |-> s[i]] /\ \A i \in 1 .. n : s[i] \in T
  BY <1>1
<1>3. s \in [1 .. n -> T]
  BY <1>2
<1> QED
  BY <1>3, SeqDef

HandedUpTo(h, res, n) ==
  /\ h \in Seq(Articles) /\ Len(h) = n
  /\ \A i \in 1 .. n : h[i] = res[i]

HandedAll(h, res, r) ==
  /\ h \in Seq(Articles) /\ Len(res) =< Len(h)
  /\ \A i \in 1 .. Len(res) : h[i] = res[i]
  /\ \A i \in Len(res) + 1 .. Len(h) :
       /\ h[i] \in Redirects(ToSet(res)) /\ h[i] < r
       /\ \A j \in Len(res) + 1 .. i - 1 : h[j] < h[i]
  /\ \A a \in Redirects(ToSet(res)) : a < r => \E i \in Len(res) + 1 .. Len(h) : h[i] = a
  /\ r \in 0 .. Size /\ (r < Size => r \in Redirects(ToSet(res)))

LEMMA OneMore ==
  ASSUME NEW res \in Seq(Articles), NEW n \in Nat, n < Len(res), NEW h, HandedUpTo(h, res, n)
  PROVE  HandedUpTo(Append(h, res[n + 1]), res, n + 1)
<1>1. res[n + 1] \in Articles
  OBVIOUS
<1>2. h \in Seq(Articles) /\ Len(h) = n /\ \A i \in 1 .. n : h[i] = res[i]
  BY DEF HandedUpTo
<1> PICK g : g = Append(h, res[n + 1])
  OBVIOUS
<1>3. /\ g \in Seq(Articles) /\ Len(g) = n + 1
      /\ \A i \in 1 .. n : g[i] = h[i]
      /\ g[n + 1] = res[n + 1]
  BY <1>1, <1>2
<1>4. 1 .. n + 1 = 1 .. n \cup {n + 1}
  OBVIOUS
<1> QED
  BY <1>2, <1>3, <1>4 DEF HandedUpTo

LEMMA FirstRedirect ==
  ASSUME Size \in Nat, NEW res \in Seq(Articles), NEW h, HandedUpTo(h, res, Len(res))
  PROVE  HandedAll(h, res, RedirectFrom(0, ToSet(res)))
<1>1. PICK r : r = RedirectFrom(0, ToSet(res))
  OBVIOUS
<1>2. /\ r \in 0 .. Size /\ (r < Size => r \in Redirects(ToSet(res)))
      /\ \A a \in Redirects(ToSet(res)) : a < r <=> a < 0
  BY <1>1, RedirectIs
<1>3. \A a \in Redirects(ToSet(res)) : ~(a < r)
  BY <1>2 DEF Redirects, Articles
<1>4. PICK n \in Nat : n = Len(res)
  OBVIOUS
<1>5. n + 1 .. n = {}
  OBVIOUS
<1> QED
  BY <1>1, <1>2, <1>3, <1>4, <1>5 DEF HandedAll, HandedUpTo

LEMMA NextRedirect ==
  ASSUME Size \in Nat, NEW res \in Seq(Articles), NEW h, NEW r,
         HandedAll(h, res, r), r < Size
  PROVE  HandedAll(Append(h, r), res, RedirectFrom(r + 1, ToSet(res)))
<1> PICK R : R = Redirects(ToSet(res))
  OBVIOUS
<1>1. PICK next : next = RedirectFrom(r + 1, ToSet(res))
  OBVIOUS
<1>2. r \in Nat /\ r \in R /\ r + 1 \in 0 .. Size
  BY DEF HandedAll
<1>3. /\ next \in r + 1 .. Size /\ (next < Size => next \in R)
      /\ \A a \in R : a < next <=> a < r + 1
  BY <1>1, <1>2, RedirectIs
<1>4. R \subseteq Articles /\ R \subseteq Nat
  BY DEF Redirects, Articles
<1>5. PICK m \in Nat, n \in Nat : m = Len(res) /\ n = Len(h)
  BY DEF HandedAll
<1>6. /\ h \in Seq(Articles) /\ m =< n
      /\ \A i \in 1 .. m : h[i] = res[i]
      /\ \A i \in m + 1 .. n : /\ h[i] \in R /\ h[i] < r
                               /\ \A j \in m + 1 .. i - 1 : h[j] < h[i]
      /\ \A a \in R : a < r => \E i \in m + 1 .. n : h[i] = a
  BY <1>5 DEF HandedAll
<1>7. PICK g : g = Append(h, r)
  OBVIOUS
<1>8. /\ g \in Seq(Articles) /\ Len(g) = n + 1 /\ g[n + 1] = r
      /\ \A i \in 1 .. n : g[i] = h[i]
  BY <1>2, <1>4, <1>5, <1>6, <1>7
<1>9. m =< n + 1 /\ \A i \in 1 .. m : g[i] = res[i]
  BY <1>6, <1>8
<1>10. ASSUME NEW i \in m + 1 .. n + 1
       PROVE  /\ g[i] \in R /\ g[i] < next
              /\ \A j \in m + 1 .. i - 1 : g[j] < g[i]
  <2>1. \A j \in m + 1 .. i - 1 : j \in 1 .. n /\ j \in m + 1 .. n
    OBVIOUS
  <2>2. CASE i = n + 1
    <3>1. g[i] = r /\ r < next
      BY <1>2, <1>3, <1>8, <2>2
    <3>2. \A j \in m + 1 .. i - 1 : g[j] = h[j] /\ h[j] < r
      BY <1>6, <1>8, <2>1
    <3> QED
      BY <1>2, <3>1, <3>2
  <2>3. CASE i # n + 1
    <3>1. i \in 1 .. n /\ i \in m + 1 .. n
      BY <2>3
    <3>2. g[i] = h[i] /\ h[i] \in R /\ h[i] < r
      BY <1>6, <1>8, <3>1
    <3>3. h[i] < next
      BY <1>2, <1>3, <1>4, <3>2
    <3>4. \A j \in m + 1 .. i - 1 : g[j] = h[j] /\ h[j] < h[i]
      BY <1>6, <1>8, <2>1, <3>1
    <3> QED
      BY <3>2, <3>3, <3>4
  <2> QED
    BY <2>2, <2>3
<1>11. ASSUME NEW a \in R, a < next PROVE \E i \in m + 1 .. n + 1 : g[i] = a
  <2>1. a < r \/ a = r
    BY <1>2, <1>3, <1>4, <1>11
  <2>2. CASE a < r
    <3>1. PICK i \in m + 1 .. n : h[i] = a
      BY <1>6, <2>2
    <3> QED
      BY <1>8, <3>1
  <2>3. CASE a = r
    <3>1. n + 1 \in m + 1 .. n + 1
      BY <1>6
    <3> QED
      BY <1>8, <2>3, <3>1
  <2> QED
    BY <2>1, <2>2, <2>3
<1>12. next \in 0 .. Size
  BY <1>2, <1>3
<1> QED
  BY <1>1, <1>3, <1>5, <1>7, <1>8, <1>9, <1>10, <1>11, <1>12 DEF HandedAll

LEMMA AllHanded ==
  ASSUME Size \in Nat, NEW res \in Seq(Articles), NEW h, HandedAll(h, res, Size)
  PROVE  LET rest == SubSeq(h, Len(res) + 1, Len(h))
         IN /\ IsPrefix(res, h)
            /\ ToSet(rest) = Redirects(ToSet(res))
            /\ \A i \in DOMAIN rest : \A j \in 1 .. i - 1 : rest[j] < rest[i]
<1> PICK R : R = Redirects(ToSet(res))
  OBVIOUS
<1>1. R \subseteq Articles /\ \A a \in R : a < Size
  BY DEF Redirects, Articles
<1>2. PICK m \in Nat, n \in Nat : m = Len(res) /\ n = Len(h)
  BY DEF HandedAll
<1>3. /\ h \in Seq(Articles) /\ m =< n
      /\ \A i \in 1 .. m : h[i] = res[i]
      /\ \A i \in m + 1 .. n : /\ h[i] \in R
                               /\ \A j \in m + 1 .. i - 1 : h[j] < h[i]
      /\ \A a \in R : \E i \in m + 1 .. n : h[i] = a
  BY <1>1, <1>2 DEF HandedAll
<1>4. res \in Title /\ h \in Title
  <2>1. Articles \subseteq Int
    BY DEF Articles
  <2> QED
    BY <1>3, <2>1, WiderSeq DEF Title
<1>5. IsPrefix(res, h)
  BY <1>2, <1>3, <1>4, PrefixIs
<1> PICK rest : rest = SubSeq(h, m + 1, n)
  OBVIOUS
<1>6. /\ rest \in Seq(Articles) /\ Len(rest) = n - m
      /\ \A i \in 1 .. n - m : rest[i] = h[m + i]
  <2>1. \A i \in m + 1 .. n : h[i] \in Articles
    BY <1>1, <1>3
  <2>2. /\ rest \in Seq(Articles)
        /\ Len(rest) = IF m + 1 =< n THEN n - (m + 1) + 1 ELSE 0
        /\ \A i \in 1 .. n - (m + 1) + 1 : rest[i] = h[m + 1 + i - 1]
    BY <2>1, SubSeqProperties
  <2>3. \A i \in 1 .. n - m : m + 1 + i - 1 = m + i
    OBVIOUS
  <2>4. n - (m + 1) + 1 = n - m
    OBVIOUS
  <2> QED
    BY <1>3, <2>2, <2>3, <2>4
<1>7. DOMAIN rest = 1 .. n - m
  BY <1>3, <1>6
<1>8. ToSet(rest) = R
  <2>1. ASSUME NEW a \in ToSet(rest) PROVE a \in R
    <3>1. PICK i \in 1 .. n - m : a = rest[i]
      BY <1>7 DEF ToSet
    <3>2. m + i \in m + 1 .. n
      BY <1>3
    <3> QED
      BY <1>3, <1>6, <3>1, <3>2
  <2>2. ASSUME NEW a \in R PROVE a \in ToSet(rest)
    <3>1. PICK i \in m + 1 .. n : h[i] = a
      BY <1>3
    <3>2. i - m \in 1 .. n - m /\ m + (i - m) = i
      BY <1>3
    <3>3. rest[i - m] = a
      BY <1>6, <3>1, <3>2
    <3> QED
      BY <1>7, <3>2, <3>3 DEF ToSet
  <2> QED
    BY <2>1, <2>2
<1>9. ASSUME NEW i \in 1 .. n - m, NEW j \in 1 .. i - 1 PROVE rest[j] < rest[i]
  <2>1. /\ j \in 1 .. n - m /\ m + i \in m + 1 .. n
        /\ m + j \in m + 1 .. (m + i) - 1
    BY <1>3
  <2>2. h[m + j] < h[m + i]
    BY <1>3, <2>1
  <2> QED
    BY <1>6, <2>1, <2>2
<1> QED
  BY <1>2, <1>5, <1>7, <1>8, <1>9

HandedSound ==
  /\ ~Done => handed = <<>>
  /\ Done => /\ results \in Seq(Articles)
             /\ nextArticle \in 0 .. Len(results)
             /\ aids = {results[i] : i \in 1 .. nextArticle}
             /\ nextArticle # Len(results) =>
                  phase = "found" /\ HandedUpTo(handed, results, nextArticle)
             /\ nextArticle = Len(results) => HandedAll(handed, results, nextRedirect)
  /\ phase = "end" => nextArticle = Len(results) /\ nextRedirect = Size

HandedIInv == ResultsIInv /\ HandedSound

LEMMA HandedFrame ==
  ASSUME file' = file
  PROVE  /\ Size' = Size /\ Articles' = Articles
         /\ \A h, res, n : HandedUpTo(h, res, n)' <=> HandedUpTo(h, res, n)
         /\ \A h, res, r : HandedAll(h, res, r)' <=> HandedAll(h, res, r)
<1>1. Size' = Size /\ Articles' = Articles
  BY DEF Articles, Size
<1>2. ASSUME NEW these PROVE Redirects(these)' = Redirects(these)
  BY DEF Redirects, IsRedirect, Entry, Articles, Size
<1>3. ASSUME NEW h, NEW res, NEW n PROVE HandedUpTo(h, res, n)' <=> HandedUpTo(h, res, n)
  BY <1>1 DEF HandedUpTo
<1>4. ASSUME NEW h, NEW res, NEW r PROVE HandedAll(h, res, r)' <=> HandedAll(h, res, r)
  <2>1. Redirects(ToSet(res))' = Redirects(ToSet(res))
    BY <1>2
  <2> QED
    BY <1>1, <2>1 DEF HandedAll
<1> QED
  BY <1>1, <1>3, <1>4

LEMMA HandedStart == SearchInit => HandedIInv
  BY ResultsStart DEF SearchInit, HandedIInv, HandedSound, Done

LEMMA HandedStays ==
  ASSUME HandedSound, UNCHANGED <<file, results, sourcing>>,
         Done' <=> Done,
         phase' = "end" => phase = "end" \/ (nextArticle = Len(results) /\ nextRedirect = Size)
  PROVE  HandedSound'
<1>1. UNCHANGED <<handed, results, nextArticle, nextRedirect, aids>>
  BY DEF sourcing
<1> PICK h, res, n, r : h = handed /\ res = results /\ n = nextArticle /\ r = nextRedirect
  OBVIOUS
<1>2. /\ Size' = Size /\ Articles' = Articles
      /\ HandedUpTo(h, res, n)' <=> HandedUpTo(h, res, n)
      /\ HandedAll(h, res, r)' <=> HandedAll(h, res, r)
  BY HandedFrame
<1>3. /\ HandedUpTo(handed, results, nextArticle)' <=> HandedUpTo(handed, results, nextArticle)
      /\ HandedAll(handed, results, nextRedirect)' <=> HandedAll(handed, results, nextRedirect)
  BY <1>1, <1>2
<1>4. Done' /\ nextArticle # Len(results) => phase' = "found"
  BY DEF Done, HandedSound
<1> QED
  BY <1>1, <1>3, <1>2, <1>4 DEF HandedSound

LEMMA SortHands ==
  ASSUME HandedIInv, Sort
  PROVE  HandedSound'
<1>1. /\ phase' = "found" /\ file' = file /\ index' = index /\ handed' = <<>>
      /\ results' \in SetToSeqs(Filtered)
      /\ nextArticle' = 0 /\ aids' = {} /\ nextRedirect' = Size
  BY DEF Sort, HandedIInv, HandedSound, Done
<1> PICK res, size : res = results' /\ size = Size
  OBVIOUS
<1>2. Size \in Nat /\ Filtered \in SUBSET Articles
  BY FileFacts DEF HandedIInv, ResultsIInv, SearchTyping, IndexSound, Filtered
<1>3. IsFiniteSet(Filtered)
  <2>1. IsFiniteSet(Articles)
    BY <1>2, FS_Interval DEF Articles
  <2> QED
    BY <1>2, <2>1, FS_Subset
<1>4. res \in Seq(Filtered)
  BY <1>1, <1>3, AllOnce
<1>5. res \in Seq(Articles)
  BY <1>2, <1>4, WiderSeq
<1>6. HandedUpTo(<<>>, res, 0)
  BY DEF HandedUpTo
<1>7. res = <<>> => HandedAll(<<>>, res, size)
  <2>1. Redirects(ToSet(<<>>)) = {}
    BY DEF Redirects, ToSet
  <2> QED
    BY <1>2, <2>1 DEF HandedAll
<1>8. /\ Articles' = Articles
      /\ HandedUpTo(<<>>, res, 0)' <=> HandedUpTo(<<>>, res, 0)
      /\ HandedAll(<<>>, res, size)' <=> HandedAll(<<>>, res, size)
  BY <1>1, HandedFrame
<1>9. Len(res) = 0 <=> res = <<>>
  BY <1>5
<1>10. nextArticle' \in 0 .. Len(results') /\ 1 .. nextArticle' = {}
  BY <1>1, <1>5
<1>11. aids' = {results'[i] : i \in 1 .. nextArticle'}
  BY <1>1, <1>10
<1>12. HandedUpTo(handed, results, nextArticle)'
  BY <1>1, <1>6, <1>8
<1>13. nextArticle' = Len(results') => HandedAll(handed, results, nextRedirect)'
  BY <1>1, <1>7, <1>8, <1>9
<1> QED
  BY <1>1, <1>5, <1>8, <1>10, <1>11, <1>12, <1>13 DEF HandedSound, Done

LEMMA ResultHanded ==
  ASSUME HandedIInv, HandResult
  PROVE  HandedSound'
<1> PICK h, res, n, r : h = handed /\ res = results /\ n = nextArticle /\ r = nextRedirect'
  OBVIOUS
<1>1. /\ phase = "found" /\ n < Len(res) /\ file' = file /\ phase' = phase
      /\ handed' = Append(h, res[n + 1]) /\ aids' = aids \cup {res[n + 1]}
      /\ nextArticle' = n + 1 /\ results' = res
      /\ n + 1 = Len(res) => r = RedirectFrom(0, aids')
  BY DEF HandResult, Noted, searching
<1>2. /\ res \in Seq(Articles) /\ n \in 0 .. Len(res)
      /\ aids = {res[i] : i \in 1 .. n}
      /\ HandedUpTo(h, res, n)
  BY <1>1 DEF HandedIInv, HandedSound, Done
<1>3. Size \in Nat
  BY FileFacts DEF HandedIInv, ResultsIInv, SearchTyping
<1> PICK g : g = handed'
  OBVIOUS
<1>4. HandedUpTo(g, res, n + 1)
  BY <1>1, <1>2, OneMore
<1>5. aids' = {res[i] : i \in 1 .. n + 1}
  <2>1. 1 .. n + 1 = 1 .. n \cup {n + 1}
    BY <1>2
  <2> QED
    BY <1>1, <1>2, <2>1
<1>6. n + 1 = Len(res) => HandedAll(g, res, r)
  <2>1. n + 1 = Len(res) => aids' = ToSet(res)
    BY <1>2, <1>5 DEF ToSet
  <2> QED
    BY <1>1, <1>2, <1>3, <1>4, <2>1, FirstRedirect
<1>7. /\ Articles' = Articles
      /\ HandedUpTo(g, res, n + 1)' <=> HandedUpTo(g, res, n + 1)
      /\ HandedAll(g, res, r)' <=> HandedAll(g, res, r)
  BY <1>1, HandedFrame
<1>8. n + 1 \in 0 .. Len(res)
  BY <1>1, <1>2
<1> QED
  BY <1>1, <1>2, <1>4, <1>5, <1>6, <1>7, <1>8 DEF HandedSound, Done

LEMMA RedirectHanded ==
  ASSUME HandedIInv, HandRedirect
  PROVE  HandedSound'
<1> PICK h, res, r, next : h = handed /\ res = results /\ r = nextRedirect /\ next = nextRedirect'
  OBVIOUS
<1>1. /\ phase = "found" /\ nextArticle = Len(res) /\ r < Size
      /\ file' = file /\ phase' = phase
      /\ handed' = Append(h, r) /\ next = RedirectFrom(r + 1, aids)
      /\ UNCHANGED <<nextArticle, aids, results>>
  BY DEF HandRedirect, searching
<1>2. /\ res \in Seq(Articles) /\ nextArticle \in 0 .. Len(res)
      /\ aids = {res[i] : i \in 1 .. nextArticle}
      /\ HandedAll(h, res, r)
  BY <1>1 DEF HandedIInv, HandedSound, Done
<1>3. Size \in Nat
  BY FileFacts DEF HandedIInv, ResultsIInv, SearchTyping
<1>4. aids = ToSet(res)
  BY <1>1, <1>2 DEF ToSet
<1> PICK g : g = handed'
  OBVIOUS
<1>5. HandedAll(g, res, next)
  BY <1>1, <1>2, <1>3, <1>4, NextRedirect
<1>6. /\ Articles' = Articles
      /\ HandedAll(g, res, next)' <=> HandedAll(g, res, next)
  BY <1>1, HandedFrame
<1> QED
  BY <1>1, <1>2, <1>5, <1>6 DEF HandedSound, Done

LEMMA HandedStep ==
  ASSUME HandedIInv, [SearchNext]_searchVars
  PROVE  HandedIInv'
<1>1. ResultsIInv'
  BY ResultsStep DEF HandedIInv
<1>2. CASE Sort
  BY <1>1, <1>2, SortHands DEF HandedIInv
<1>3. CASE HandResult
  BY <1>1, <1>3, ResultHanded DEF HandedIInv
<1>4. CASE HandRedirect
  BY <1>1, <1>4, RedirectHanded DEF HandedIInv
<1>5. CASE Find \/ FindRange \/ Search \/ Token \/ HandNothing \/ UNCHANGED searchVars
  <2>1. /\ UNCHANGED <<file, results, sourcing>>
        /\ Done' <=> Done
        /\ phase' = "end" => phase = "end" \/ (nextArticle = Len(results) /\ nextRedirect = Size)
    BY <1>5 DEF Find, FindRange, Search, Token, HandNothing, searchVars, searching, Done
  <2>2. HandedSound'
    BY <2>1, HandedStays DEF HandedIInv
  <2> QED
    BY <1>1, <2>2 DEF HandedIInv
<1> QED
  BY <1>2, <1>3, <1>4, <1>5 DEF SearchNext

LEMMA HandedIs == HandedIInv => HandedRight
<1> SUFFICES ASSUME HandedIInv, phase = "end" PROVE HandedRight
  BY DEF HandedRight
<1>1. /\ results \in Seq(Articles) /\ nextArticle = Len(results) /\ nextRedirect = Size
      /\ HandedAll(handed, results, Size)
  BY DEF HandedIInv, HandedSound, Done
<1>2. Size \in Nat
  BY FileFacts DEF HandedIInv, ResultsIInv, SearchTyping
<1> QED
  BY <1>1, <1>2, AllHanded DEF HandedRight, Redirects

(* The source hands out all results in their order, redirects among them   *)
(* as find yields them, then every redirect to one of them, once and in    *)
(* the order of urls, and then no more: for any file and any expression.   *)
THEOREM HandedTheorem == SearchSpec => []HandedRight
<1> QED
  BY HandedStart, HandedStep, HandedIs, PTL DEF SearchSpec
=============================================================================
