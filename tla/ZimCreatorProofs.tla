-------------------------- MODULE ZimCreatorProofs --------------------------
(***************************************************************************)
(* Proofs about ZimCreator, for any articles in any order.                 *)
(*                                                                         *)
(* IInv is about the entries: whose they are, and that each search in them *)
(* is made in the order that it relies on.  LInv adds what a finished file *)
(* stands on: the orders of both lists, what redirects, mime types and     *)
(* cluster numbers refer to, and where the clusters begin.  The lemmas on  *)
(* layouts, from Items on, say where the parts of a file lie and that the  *)
(* reader finds an item there; the theorems put the two together.          *)
(***************************************************************************)
EXTENDS ZimCreator, FiniteSetTheorems, SequenceTheorems, WellFoundedInduction, TLAPS

Dirent ==
  [aid : Nat, ns : Nat, url : Nat, title : Nat, param : Nat, redirect : BOOLEAN,
   redirectAid : Nat, redirectIndex : Nat, mime : 0 .. RedirectMime,
   compress : BOOLEAN, cluster : Nat, blob : Nat, idx : Nat]

BlobItem == [aid : Nat, size : Nat]

Cluster ==
  [kind : {"cluster"}, size : Nat \ {0},
   body : [compressed : BOOLEAN, blobs : Seq(BlobItem)]]

(* The entry of an article: what no step changes. *)
OfArticle(d, a) ==
  /\ d.aid = a.aid /\ d.ns = a.ns /\ d.url = a.url /\ d.title = a.title
  /\ d.param = a.param /\ d.compress = a.compress
  /\ d.redirect = a.redirect /\ d.redirectAid = a.redirectAid

Places ==
  {"collect", "refused", "prune", "translate", "failed", "title",
   "clusters", "header", "write", "done"}

Translated == {"title", "clusters", "header", "write", "done"}

Titled == {"clusters", "header", "write", "done"}

AidsOnce(s) == \A i, j \in DOMAIN s : s[i].aid = s[j].aid => i = j

ArticlesSound ==
  articles \in Seq(Candidate) /\ Len(articles) =< MaxArticles /\ AidsOnce(articles)

EntryOf(d, as) ==
  /\ \E k \in DOMAIN as : OfArticle(d, as[k])
  /\ d.redirect <=> d.mime = RedirectMime

EntriesOf(s, as) ==
  /\ s \in Seq(Dirent) /\ Len(s) =< Len(as) /\ AidsOnce(s)
  /\ \A i \in DOMAIN s : EntryOf(s[i], as)

Entries == EntriesOf(dirents, articles)

(* An article without an entry is a redirect to one without an entry. *)
NoneLost ==
  \A k \in DOMAIN articles :
    articles[k].aid \in Aids(dirents)
      \/ /\ pc # "collect" /\ articles[k].redirect
         /\ articles[k].redirectAid \notin Aids(dirents)

InAidOrder(s) == \A i, j \in DOMAIN s : i < j => s[i].aid < s[j].aid

(* The searches of prune and translate rely on the order of the aids. *)
Ordered == pc \in {"prune", "translate"} => InAidOrder(dirents)

(* What has been translated leads to an entry that is there. *)
Targets ==
  \A i \in DOMAIN dirents :
    dirents[i].redirect /\ (pc \in Translated \/ (pc = "translate" /\ i < di)) =>
      dirents[i].redirectAid \in Aids(dirents)

Indices ==
  \A i \in DOMAIN dirents :
    IF pc \in Translated \cup {"translate", "failed"}
    THEN dirents[i].idx < Len(dirents) ELSE dirents[i].idx = 0

Titles ==
  /\ titleIdx \in Seq(Nat)
  /\ pc \notin Titled => titleIdx = <<>>
  /\ \A i \in DOMAIN titleIdx : titleIdx[i] < Len(dirents)

Clusters ==
  /\ mimes \in Seq(Nat)
  /\ clusterOffsets \in Seq(Nat) /\ tmp \in Seq(Cluster)
  /\ Len(clusterOffsets) = Len(tmp)
  /\ cluster \in Seq(BlobItem) /\ isEmpty \in BOOLEAN

IInv ==
  /\ pc \in Places /\ di \in 1 .. Len(dirents) + 1
  /\ pc \in {"collect", "refused"} => di = 1
  /\ ArticlesSound /\ Entries /\ NoneLost /\ Ordered /\ Targets /\ Indices
  /\ Titles /\ Clusters

-----------------------------------------------------------------------------
(* What the finished file relies on beyond that.                           *)

UrlsOnce(s) == \A i, j \in DOMAIN s : s[i].ns = s[j].ns /\ s[i].url = s[j].url => i = j

(* Indexes are in the order of urls, and in the end so are the entries. *)
UrlOrder ==
  /\ pc = "translate" =>
       \A i, j \in DOMAIN dirents :
         CompareUrl(dirents[i], dirents[j]) => dirents[i].idx < dirents[j].idx
  /\ pc \in Translated =>
       /\ \A i, j \in DOMAIN dirents : i < j => CompareUrl(dirents[i], dirents[j])
       /\ \A i \in DOMAIN dirents : dirents[i].idx = i - 1

(* A redirect has the index of the entry it leads to. *)
Redirected ==
  \A i \in DOMAIN dirents :
    dirents[i].redirect /\ (pc \in Translated \/ (pc = "translate" /\ i < di)) =>
      \E j \in DOMAIN dirents :
        dirents[j].aid = dirents[i].redirectAid /\ dirents[j].idx = dirents[i].redirectIndex

TitleOrder ==
  pc \in Titled =>
    /\ Len(titleIdx) = Len(dirents)
    /\ \A k \in 0 .. Len(dirents) - 1 : \E i \in DOMAIN titleIdx : titleIdx[i] = k
    /\ \A i, j \in DOMAIN titleIdx : i < j => ~CompareTitle(titleIdx[j], titleIdx[i])

(* The mime type of an entry is the one of its article. *)
MimesRight ==
  /\ \A i \in DOMAIN mimes : mimes[i] # 0
  /\ \A i \in DOMAIN dirents, k \in DOMAIN articles :
       dirents[i].aid = articles[k].aid /\ ~dirents[i].redirect =>
         dirents[i].mime < Len(mimes) /\ mimes[dirents[i].mime + 1] = articles[k].mime

Finished == {"header", "write", "done"}

(* Where an entry says that its data is, in a cluster written or pending. *)
Located(d) ==
  \/ LET c == tmp[d.cluster + 1].body
     IN /\ d.cluster < Len(tmp) /\ d.blob < Len(c.blobs)
        /\ c.blobs[d.blob + 1] = Blob(d.aid) /\ c.compressed = d.compress
  \/ /\ pc = "clusters" /\ d.cluster = Len(tmp) /\ d.compress
     /\ d.blob < Len(cluster) /\ cluster[d.blob + 1] = Blob(d.aid)

DataFound ==
  \A i \in DOMAIN dirents :
    ~dirents[i].redirect /\ (pc \in Finished \/ (pc = "clusters" /\ i < di)) =>
      Located(dirents[i])

Offsets ==
  /\ \A i \in DOMAIN tmp : clusterOffsets[i] = Starts(tmp)[i]
  /\ pc \in Finished => clustersSize = Total(tmp)

HeaderItem ==
  [mainPage |-> PageIndex(MainAid), layoutPage |-> PageIndex(LayoutAid),
   articleCount |-> Len(dirents), clusterCount |-> Len(clusterOffsets),
   mimeListPos |-> HeaderSize, urlPtrPos |-> UrlPtrPos,
   titleIdxPos |-> TitleIdxPos, clusterPtrPos |-> ClusterPtrPos,
   checksumPos |-> ChecksumPos]

Written ==
  /\ pc \in {"write", "done"} => header = HeaderItem
  /\ pc = "done" => file = Laid(Append(Body, Item("digest", DigestSize, Laid(Body))))

LInv ==
  /\ UrlsOnce(articles) /\ UrlOrder /\ Redirected /\ TitleOrder /\ MimesRight
  /\ DataFound /\ Offsets /\ Written

-----------------------------------------------------------------------------
(* Arrangements of entries, and the order of their aids.                   *)

LEMMA Arranged ==
  ASSUME NEW S, NEW s \in Seq(S), NEW t \in Arrangements(s)
  PROVE  /\ t \in Seq(S) /\ Len(t) = Len(s)
         /\ \A i \in 1 .. Len(s) : \E j \in 1 .. Len(s) : t[i] = s[j]
         /\ \A j \in 1 .. Len(s) : \E i \in 1 .. Len(s) : t[i] = s[j]
         /\ \E p \in [1 .. Len(s) -> 1 .. Len(s)] :
              /\ \A i \in 1 .. Len(s) : t[i] = s[p[i]]
              /\ \A i, j \in 1 .. Len(s) : p[i] = p[j] => i = j
<1> DEFINE n == Len(s)
<1>1. n \in Nat /\ DOMAIN s = 1 .. n /\ s \in [1 .. n -> S]
  OBVIOUS
<1>2. PICK p \in Bijection(DOMAIN s, DOMAIN s) : t = [i \in DOMAIN s |-> s[p[i]]]
  BY DEF Arrangements
<1>3. /\ p \in [1 .. n -> 1 .. n] /\ \A i, j \in 1 .. n : p[i] = p[j] => i = j
      /\ \A j \in 1 .. n : \E i \in 1 .. n : p[i] = j
  BY <1>1, <1>2 DEF Bijection, Injection, Surjection, IsInjective
<1> HIDE DEF n
<1>4. t = [i \in 1 .. n |-> s[p[i]]]
  BY <1>1, <1>2
<1>5. t \in [1 .. n -> S]
  BY <1>1, <1>3, <1>4
<1>6. t \in Seq(S) /\ Len(t) = n
  BY <1>1, <1>5
<1>7. \A i \in 1 .. n : t[i] = s[p[i]] /\ p[i] \in 1 .. n
  BY <1>3, <1>4
<1>8. ASSUME NEW j \in 1 .. n PROVE \E i \in 1 .. n : t[i] = s[j]
  <2>1. PICK i \in 1 .. n : p[i] = j
    BY <1>3
  <2> QED
    BY <1>7, <2>1
<1>9. \A i \in 1 .. n : \E j \in 1 .. n : t[i] = s[j]
  BY <1>7
<1> QED
  BY <1>3, <1>6, <1>7, <1>8, <1>9 DEF n

LEMMA ArrangedKeeps ==
  ASSUME NEW S, NEW s \in Seq(S), NEW t \in Arrangements(s)
  PROVE  /\ Aids(t) = Aids(s)
         /\ AidsOnce(s) => AidsOnce(t)
<1>1. /\ t \in Seq(S) /\ Len(t) = Len(s) /\ Len(s) \in Nat
      /\ DOMAIN t = 1 .. Len(s) /\ DOMAIN s = 1 .. Len(s)
  BY Arranged
<1>2. PICK p \in [1 .. Len(s) -> 1 .. Len(s)] :
        /\ \A i \in 1 .. Len(s) : t[i] = s[p[i]]
        /\ \A i, j \in 1 .. Len(s) : p[i] = p[j] => i = j
  BY Arranged
<1>3. \A j \in 1 .. Len(s) : \E i \in 1 .. Len(s) : t[i] = s[j]
  BY Arranged
<1>4. Aids(t) = Aids(s)
  <2>1. ASSUME NEW i \in DOMAIN t PROVE t[i].aid \in Aids(s)
    BY <1>1, <1>2 DEF Aids
  <2>2. ASSUME NEW j \in DOMAIN s PROVE s[j].aid \in Aids(t)
    BY <1>1, <1>3 DEF Aids
  <2> QED
    BY <2>1, <2>2 DEF Aids
<1>5. ASSUME AidsOnce(s), NEW i \in 1 .. Len(s), NEW j \in 1 .. Len(s), t[i].aid = t[j].aid
      PROVE  i = j
  <2>1. p[i] \in 1 .. Len(s) /\ p[j] \in 1 .. Len(s) /\ t[i] = s[p[i]] /\ t[j] = s[p[j]]
    BY <1>2
  <2>2. p[i] = p[j]
    BY <1>1, <1>5, <2>1 DEF AidsOnce
  <2> QED
    BY <1>2, <2>2
<1> QED
  BY <1>1, <1>4, <1>5 DEF AidsOnce

(* Entries in the order of CompareAid, no two alike. *)
LEMMA SortedByAid ==
  ASSUME NEW s \in Seq(Dirent), NEW t \in Sortings(s, CompareAid), AidsOnce(s)
  PROVE  t \in Arrangements(s) /\ InAidOrder(t)
<1>1. /\ t \in Arrangements(s)
      /\ \A i, j \in DOMAIN t : i < j => ~(t[j].aid < t[i].aid)
  BY DEF Sortings, Sorted, CompareAid
<1>2. t \in Seq(Dirent) /\ AidsOnce(t)
  BY <1>1, Arranged, ArrangedKeeps
<1>3. ASSUME NEW i \in DOMAIN t, NEW j \in DOMAIN t, i < j
      PROVE  t[i].aid < t[j].aid
  <2>1. t[i] \in Dirent /\ t[j] \in Dirent /\ i \in Nat /\ j \in Nat
    BY <1>2
  <2>2. t[i].aid \in Nat /\ t[j].aid \in Nat
    BY <2>1 DEF Dirent
  <2>3. t[i].aid # t[j].aid
    BY <1>2, <1>3, <2>1 DEF AidsOnce
  <2> QED
    BY <1>1, <1>3, <2>2, <2>3
<1> QED
  BY <1>1, <1>3 DEF InAidOrder

LEMMA Least ==
  ASSUME NEW S, S \subseteq Nat, S # {}
  PROVE  \E n \in S : \A m \in S : n =< m
<1> DEFINE R == {ss \in Nat \X Nat : ss[1] < ss[2]}
<1>1. IsWellFoundedOn(R, Nat)
  BY NatLessThanWellFounded DEF OpToRel
<1>2. \A x, y \in Nat : <<x, y>> \in R <=> x < y
  OBVIOUS
<1> HIDE DEF R
<1>3. \E x \in S : \A y \in S : <<y, x>> \notin R
  BY <1>1, WFMin, Zenon
<1>4. PICK x \in S : \A y \in S : <<y, x>> \notin R
  BY <1>3
<1>5. ASSUME NEW y \in S PROVE x =< y
  <2>1. x \in Nat /\ y \in Nat /\ ~(y < x)
    BY <1>2, <1>4
  <2> QED
    BY <2>1
<1> QED
  BY <1>5

(* A binary search in the order of the aids finds what is there. *)
LEMMA Searches ==
  ASSUME dirents \in Seq(Dirent), InAidOrder(dirents), NEW aid \in Nat
  PROVE  /\ Found(aid) <=> aid \in Aids(dirents)
         /\ Found(aid) => /\ LowerBound(aid) \in DOMAIN dirents
                          /\ dirents[LowerBound(aid)].aid = aid
<1> DEFINE n == Len(dirents)
           Bound(i) == /\ \A j \in 1 .. i - 1 : dirents[j].aid < aid
                       /\ i \in DOMAIN dirents => dirents[i].aid >= aid
           High == {i \in 1 .. n + 1 : i \in DOMAIN dirents => dirents[i].aid >= aid}
<1>1. n \in Nat /\ DOMAIN dirents = 1 .. n /\ \A i \in 1 .. n : dirents[i].aid \in Nat
  <2>1. n \in Nat /\ DOMAIN dirents = 1 .. n /\ \A i \in 1 .. n : dirents[i] \in Dirent
    OBVIOUS
  <2>2. \A d \in Dirent : d.aid \in Nat
    BY DEF Dirent
  <2> QED
    BY <2>1, <2>2
<1>2. \E i \in 1 .. n + 1 : Bound(i)
  <2>1. High \subseteq Nat /\ n + 1 \in High
    BY <1>1
  <2>2. PICK i \in High : \A m \in High : i =< m
    BY <2>1, Least
  <2>3. i \in 1 .. n + 1
    OBVIOUS
  <2>4. ASSUME NEW j \in 1 .. i - 1 PROVE dirents[j].aid < aid
    <3>1. j \in 1 .. n /\ j \notin High
      BY <1>1, <2>2, <2>3
    <3> QED
      BY <1>1, <3>1
  <2> QED
    BY <2>3, <2>4
<1>3. LowerBound(aid) = CHOOSE i \in 1 .. n + 1 : Bound(i)
  BY DEF LowerBound
<1>4. LowerBound(aid) \in 1 .. n + 1 /\ Bound(LowerBound(aid))
  <2> HIDE DEF Bound, n
  <2> QED
    BY <1>2, <1>3, Zenon
<1>z. PICK b : b = LowerBound(aid)
  OBVIOUS
<1>5. /\ b \in 1 .. n + 1 /\ \A j \in 1 .. b - 1 : dirents[j].aid < aid
      /\ b \in DOMAIN dirents => dirents[b].aid >= aid
  BY <1>4, <1>z
<1>6. ASSUME NEW k \in 1 .. n, dirents[k].aid = aid
      PROVE  b \in 1 .. n /\ dirents[b].aid = aid
  <2>1. ~(k \in 1 .. b - 1)
    BY <1>1, <1>5, <1>6
  <2>2. b =< k
    BY <1>1, <1>5, <2>1
  <2>3. b \in 1 .. n
    BY <1>1, <1>5, <2>2
  <2>4. b < k => dirents[b].aid < dirents[k].aid
    BY <1>1, <2>3 DEF InAidOrder
  <2> QED
    BY <1>1, <1>5, <1>6, <2>2, <2>3, <2>4
<1>7. Found(aid) <=> b \in DOMAIN dirents /\ dirents[b].aid = aid
  BY <1>z DEF Found
<1>8. aid \in Aids(dirents) <=> \E k \in 1 .. n : dirents[k].aid = aid
  BY <1>1 DEF Aids
<1> QED
  BY <1>1, <1>6, <1>7, <1>8, <1>z

-----------------------------------------------------------------------------
(* What happens to entries: arranged, numbered, changed in place, erased.  *)

LEMMA ArrangedEntries ==
  ASSUME articles \in Seq(Candidate), NEW s, EntriesOf(s, articles), NEW t \in Arrangements(s)
  PROVE  /\ EntriesOf(t, articles) /\ Aids(t) = Aids(s) /\ Len(t) = Len(s)
         /\ \A i \in DOMAIN t : \E j \in DOMAIN s : t[i] = s[j]
<1>1. s \in Seq(Dirent) /\ AidsOnce(s) /\ Len(s) =< Len(articles)
  BY DEF EntriesOf
<1>2. /\ t \in Seq(Dirent) /\ Len(t) = Len(s)
      /\ \A i \in 1 .. Len(s) : \E j \in 1 .. Len(s) : t[i] = s[j]
  <2>1. s \in Seq(Dirent) /\ t \in Arrangements(s)
    BY <1>1
  <2>2. t \in Seq(Dirent) /\ Len(t) = Len(s)
    BY ONLY <2>1, Arranged
  <2>3. \A i \in 1 .. Len(s) : \E j \in 1 .. Len(s) : t[i] = s[j]
    BY ONLY <2>1, Arranged
  <2> QED
    BY <2>2, <2>3
<1>3. Aids(t) = Aids(s) /\ AidsOnce(t)
  BY <1>1, ArrangedKeeps
<1>4. DOMAIN t = 1 .. Len(s) /\ DOMAIN s = 1 .. Len(s)
  BY <1>1, <1>2
<1>5. \A i \in DOMAIN t : EntryOf(t[i], articles)
  BY <1>2, <1>4 DEF EntriesOf
<1> QED
  BY <1>1, <1>2, <1>3, <1>4, <1>5 DEF EntriesOf

(* All that a change to an entry keeps. *)
SameEntry(d, e) ==
  /\ d.aid = e.aid /\ d.ns = e.ns /\ d.url = e.url /\ d.title = e.title
  /\ d.param = e.param /\ d.compress = e.compress /\ d.mime = e.mime
  /\ d.redirect = e.redirect /\ d.redirectAid = e.redirectAid

LEMMA SameEntries ==
  ASSUME NEW s, EntriesOf(s, articles), NEW t \in Seq(Dirent), Len(t) = Len(s),
         \A i \in DOMAIN s : SameEntry(t[i], s[i])
  PROVE  /\ EntriesOf(t, articles) /\ Aids(t) = Aids(s)
         /\ InAidOrder(s) => InAidOrder(t)
<1>1. /\ s \in Seq(Dirent) /\ AidsOnce(s) /\ Len(s) =< Len(articles)
      /\ \A i \in DOMAIN s : EntryOf(s[i], articles)
  BY DEF EntriesOf
<1>2. DOMAIN t = DOMAIN s
  BY <1>1
<1>3. \A i \in DOMAIN s : t[i].aid = s[i].aid
  BY DEF SameEntry
<1>4. ASSUME NEW i \in DOMAIN s PROVE EntryOf(t[i], articles)
  BY <1>1 DEF EntryOf, SameEntry, OfArticle
<1>5. Aids(t) = Aids(s)
  BY <1>2, <1>3 DEF Aids
<1>6. AidsOnce(t)
  BY <1>1, <1>2, <1>3 DEF AidsOnce
<1>7. InAidOrder(s) => InAidOrder(t)
  BY <1>2, <1>3 DEF InAidOrder
<1> QED
  BY <1>1, <1>2, <1>4, <1>5, <1>6, <1>7 DEF EntriesOf

LEMMA NumberedEntries ==
  ASSUME NEW s, EntriesOf(s, articles)
  PROVE  /\ EntriesOf(Numbered(s), articles) /\ Aids(Numbered(s)) = Aids(s)
         /\ Len(Numbered(s)) = Len(s)
         /\ \A i \in DOMAIN Numbered(s) : Numbered(s)[i].idx < Len(s)
<1> DEFINE n == Len(s)
           t == Numbered(s)
<1>1. s \in Seq(Dirent) /\ n \in Nat /\ DOMAIN s = 1 .. n /\ \A i \in 1 .. n : s[i] \in Dirent
  BY DEF EntriesOf
<1>2. t = [i \in 1 .. n |-> [s[i] EXCEPT !.idx = i - 1]]
  BY <1>1 DEF Numbered
<1>3. ASSUME NEW i \in 1 .. n
      PROVE  t[i] \in Dirent /\ t[i].idx = i - 1 /\ SameEntry(t[i], s[i])
  <2>1. s[i] \in Dirent /\ t[i] = [s[i] EXCEPT !.idx = i - 1] /\ i - 1 \in Nat
    BY <1>1, <1>2
  <2> HIDE DEF t
  <2>2. t[i] \in Dirent
    BY <2>1 DEF Dirent
  <2> QED
    BY <2>1, <2>2 DEF Dirent, SameEntry
<1>4. t \in Seq(Dirent) /\ Len(t) = n /\ DOMAIN t = 1 .. n
  <2> HIDE DEF t, n
  <2>1. t \in [1 .. n -> Dirent]
    BY <1>2, <1>3
  <2> QED
    BY <1>1, <2>1
<1>5. EntriesOf(t, articles) /\ Aids(t) = Aids(s)
  <2> HIDE DEF t
  <2> QED
    BY <1>1, <1>3, <1>4, SameEntries
<1>6. \A i \in DOMAIN t : t[i].idx < n
  <2> HIDE DEF t
  <2> QED
    BY <1>1, <1>3, <1>4
<1> QED
  BY <1>4, <1>5, <1>6

LEMMA RemoveAtLemma ==
  ASSUME NEW S, NEW s \in Seq(S), NEW i \in 1 .. Len(s)
  PROVE  /\ RemoveAt(s, i) \in Seq(S) /\ Len(RemoveAt(s, i)) = Len(s) - 1
         /\ \A j \in 1 .. Len(s) - 1 :
              RemoveAt(s, i)[j] = IF j < i THEN s[j] ELSE s[j + 1]
<1> DEFINE front == SubSeq(s, 1, i - 1)
           back  == SubSeq(s, i + 1, Len(s))
<1>1. Len(s) \in Nat /\ i \in Nat /\ \A j \in 1 .. Len(s) : s[j] \in S
  OBVIOUS
<1>2. front \in Seq(S) /\ Len(front) = i - 1 /\ \A j \in 1 .. i - 1 : front[j] = s[j]
  BY <1>1
<1>3. /\ back \in Seq(S) /\ Len(back) = Len(s) - i
      /\ \A j \in 1 .. Len(s) - i : back[j] = s[j + i]
  BY <1>1
<1>4. RemoveAt(s, i) = front \o back
  BY DEF RemoveAt
<1> HIDE DEF front, back
<1>5. /\ front \o back \in Seq(S) /\ Len(front \o back) = Len(front) + Len(back)
      /\ \A j \in 1 .. Len(front) + Len(back) :
           (front \o back)[j] = IF j <= Len(front) THEN front[j] ELSE back[j - Len(front)]
  BY <1>2, <1>3, ConcatProperties
<1>6. PICK r : r = RemoveAt(s, i)
  OBVIOUS
<1>7. /\ r \in Seq(S) /\ Len(r) = Len(front) + Len(back)
      /\ \A j \in 1 .. Len(front) + Len(back) :
           r[j] = IF j <= Len(front) THEN front[j] ELSE back[j - Len(front)]
  BY <1>4, <1>5, <1>6, Zenon
<1>8. Len(r) = Len(s) - 1
  BY <1>1, <1>2, <1>3, <1>7
<1>9. ASSUME NEW j \in 1 .. Len(s) - 1
      PROVE  r[j] = IF j < i THEN s[j] ELSE s[j + 1]
  <2>1. r[j] = IF j =< i - 1 THEN front[j] ELSE back[j - (i - 1)]
    BY <1>1, <1>2, <1>3, <1>7
  <2>2. CASE j < i
    BY <1>1, <1>2, <2>1, <2>2
  <2>3. CASE j >= i
    <3>1. j - (i - 1) \in 1 .. Len(s) - i /\ (j - (i - 1)) + i = j + 1
      BY <1>1, <2>3
    <3> QED
      BY <1>1, <1>3, <2>1, <2>3, <3>1
  <2> QED
    BY <1>1, <2>2, <2>3
<1> QED
  BY <1>6, <1>7, <1>8, <1>9

LEMMA ErasedEntry ==
  ASSUME NEW s, EntriesOf(s, articles), NEW i \in DOMAIN s
  PROVE  LET t == RemoveAt(s, i)
         IN /\ EntriesOf(t, articles) /\ Aids(t) = Aids(s) \ {s[i].aid}
            /\ Len(t) = Len(s) - 1
            /\ \A j \in DOMAIN t : \E k \in DOMAIN s : t[j] = s[k]
            /\ InAidOrder(s) => InAidOrder(t)
<1>t. PICK t : t = RemoveAt(s, i)
  OBVIOUS
<1> DEFINE n == Len(s)
           From(j) == IF j < i THEN j ELSE j + 1
<1>1. /\ s \in Seq(Dirent) /\ AidsOnce(s) /\ n =< Len(articles)
      /\ n \in Nat /\ DOMAIN s = 1 .. n /\ i \in 1 .. n
      /\ \A k \in 1 .. n : EntryOf(s[k], articles)
  BY DEF EntriesOf
<1>2. /\ t \in Seq(Dirent) /\ Len(t) = n - 1
      /\ \A j \in 1 .. n - 1 : t[j] = IF j < i THEN s[j] ELSE s[j + 1]
  BY <1>1, <1>t, RemoveAtLemma
<1> HIDE DEF n
<1>3. DOMAIN t = 1 .. n - 1
  BY <1>2
<1>4. \A j \in 1 .. n - 1 : From(j) \in 1 .. n /\ t[j] = s[From(j)]
  BY <1>1, <1>2
<1>5. /\ \A j, k \in 1 .. n - 1 : From(j) = From(k) => j = k
      /\ \A j, k \in 1 .. n - 1 : j < k => From(j) < From(k)
      /\ \A j \in 1 .. n - 1 : From(j) # i
      /\ \A k \in 1 .. n : k # i => \E j \in 1 .. n - 1 : From(j) = k
  <2>1. ASSUME NEW k \in 1 .. n, k # i PROVE \E j \in 1 .. n - 1 : From(j) = k
    <3>1. CASE k < i
      BY <1>1, <3>1
    <3>2. CASE k > i
      <4>1. k - 1 \in 1 .. n - 1 /\ From(k - 1) = k
        BY <1>1, <3>2
      <4> QED
        BY <4>1
    <3> QED
      BY <1>1, <2>1, <3>1, <3>2
  <2> QED
    BY <1>1, <2>1
<1> HIDE DEF From
<1>6. AidsOnce(t)
  <2> SUFFICES ASSUME NEW j \in 1 .. n - 1, NEW k \in 1 .. n - 1, t[j].aid = t[k].aid
               PROVE  j = k
    BY <1>3 DEF AidsOnce
  <2> QED
    BY <1>1, <1>4, <1>5 DEF AidsOnce
<1>7. \A j \in 1 .. n - 1 : EntryOf(t[j], articles)
  BY <1>1, <1>4
<1>8. Aids(t) = Aids(s) \ {s[i].aid}
  <2>1. ASSUME NEW j \in 1 .. n - 1 PROVE t[j].aid \in Aids(s) /\ t[j].aid # s[i].aid
    BY <1>1, <1>4, <1>5 DEF Aids, AidsOnce
  <2>2. ASSUME NEW k \in 1 .. n, s[k].aid # s[i].aid PROVE s[k].aid \in Aids(t)
    <3>1. k # i
      BY <2>2
    <3>2. PICK j \in 1 .. n - 1 : From(j) = k
      BY <1>5, <3>1
    <3> QED
      BY <1>3, <1>4, <3>2 DEF Aids
  <2>3. Aids(t) \subseteq Aids(s) \ {s[i].aid}
    BY <1>3, <2>1 DEF Aids
  <2>4. Aids(s) \ {s[i].aid} \subseteq Aids(t)
    BY <1>1, <2>2 DEF Aids
  <2> QED
    BY <2>3, <2>4
<1>9. InAidOrder(s) => InAidOrder(t)
  BY <1>1, <1>3, <1>4, <1>5 DEF InAidOrder
<1>10. EntriesOf(t, articles)
  BY <1>1, <1>2, <1>3, <1>6, <1>7 DEF EntriesOf
<1>11. \A j \in DOMAIN t : \E k \in DOMAIN s : t[j] = s[k]
  BY <1>1, <1>3, <1>4
<1> QED
  BY <1>t, <1>2, <1>8, <1>9, <1>10, <1>11 DEF n

-----------------------------------------------------------------------------
(* Sums of sizes.                                                          *)

Sized(items) == Len(items) \in Nat /\ \A k \in 1 .. Len(items) : items[k].size \in Nat

SumsUpTo(items, n, f) ==
  f \in [1 .. n + 1 -> Nat] /\ f[1] = 0 /\ \A k \in 1 .. n : f[k + 1] = f[k] + items[k].size

LEMMA SumsExist ==
  ASSUME NEW items, Sized(items)
  PROVE  \A n \in 0 .. Len(items) : \E f : SumsUpTo(items, n, f)
<1> DEFINE Missing == {n \in 0 .. Len(items) : ~ \E f : SumsUpTo(items, n, f)}
<1> SUFFICES ASSUME Missing # {} PROVE FALSE
  OBVIOUS
<1>0. Len(items) \in Nat /\ \A k \in 1 .. Len(items) : items[k].size \in Nat
  BY DEF Sized
<1>1. Missing \subseteq Nat
  BY <1>0
<1>2. PICK n \in Missing : \A m \in Missing : n =< m
  BY <1>1, Least
<1>3. n \in 0 .. Len(items) /\ ~ \E f : SumsUpTo(items, n, f)
  OBVIOUS
<1>4. n # 0
  <2> SUFFICES SumsUpTo(items, 0, [k \in 1 .. 1 |-> 0])
    BY <1>3
  <2> QED
    BY DEF SumsUpTo
<1>5. n - 1 \in 0 .. Len(items) /\ n - 1 \notin Missing
  BY <1>0, <1>2, <1>3, <1>4
<1>6. PICK f : SumsUpTo(items, n - 1, f)
  BY <1>5
<1> DEFINE g == [k \in 1 .. n + 1 |-> IF k = n + 1 THEN f[n] + items[n].size ELSE f[k]]
<1>7. /\ f \in [1 .. n -> Nat] /\ f[1] = 0
      /\ \A k \in 1 .. n - 1 : f[k + 1] = f[k] + items[k].size
  BY <1>0, <1>3, <1>4, <1>6 DEF SumsUpTo
<1>8. items[n].size \in Nat
  BY <1>0, <1>3, <1>4
<1>9. SumsUpTo(items, n, g)
  <2>1. g \in [1 .. n + 1 -> Nat]
    BY <1>0, <1>3, <1>4, <1>7, <1>8
  <2>2. g[1] = 0
    BY <1>0, <1>3, <1>4, <1>7
  <2>3. ASSUME NEW k \in 1 .. n PROVE g[k + 1] = g[k] + items[k].size
    <3>1. CASE k = n
      BY <1>0, <1>3, <1>4, <3>1
    <3>2. CASE k # n
      BY <1>0, <1>3, <1>4, <1>7, <3>2
    <3> QED
      BY <3>1, <3>2
  <2> QED
    BY <2>1, <2>2, <2>3 DEF SumsUpTo
<1> QED
  BY <1>3, <1>9

LEMMA StartsSum ==
  ASSUME NEW items, Sized(items)
  PROVE  SumsUpTo(items, Len(items), Starts(items))
<1> DEFINE n == Len(items)
           Is(f) == f = [k \in 1 .. n + 1 |-> IF k = 1 THEN 0 ELSE f[k - 1] + items[k - 1].size]
<1>1. n \in Nat /\ \E f : SumsUpTo(items, n, f)
  BY SumsExist DEF Sized
<1>2. PICK f : SumsUpTo(items, n, f)
  BY <1>1
<1>3. Is(f)
  BY <1>1, <1>2 DEF SumsUpTo
<1>z. PICK s : s = Starts(items)
  OBVIOUS
<1>4. s = CHOOSE g : Is(g)
  BY <1>z DEF Starts
<1>5. Is(s)
  <2> HIDE DEF Is
  <2> QED
    BY <1>3, <1>4, Zenon
<1>6. /\ s = [k \in 1 .. n + 1 |-> s[k]]
      /\ \A k \in 1 .. n + 1 : s[k] = IF k = 1 THEN 0 ELSE s[k - 1] + items[k - 1].size
  BY <1>5
<1>7. \A k \in 1 .. n + 1 : s[k] = f[k]
  <2> DEFINE Other == {k \in 1 .. n + 1 : s[k] # f[k]}
  <2> SUFFICES ASSUME Other # {} PROVE FALSE
    OBVIOUS
  <2>1. Other \subseteq Nat
    BY <1>1
  <2>2. PICK k \in Other : \A q \in Other : k =< q
    BY <2>1, Least
  <2>3. k \in 1 .. n + 1 /\ s[k] # f[k]
    OBVIOUS
  <2>4. k # 1
    BY <1>1, <1>2, <1>6, <2>3 DEF SumsUpTo
  <2>5. k - 1 \in 1 .. n /\ k - 1 \notin Other
    BY <1>1, <2>2, <2>3, <2>4
  <2>6. s[k - 1] = f[k - 1]
    BY <1>1, <2>5
  <2>7. s[k] = s[k - 1] + items[k - 1].size
    BY <1>6, <2>3, <2>4
  <2>8. f[(k - 1) + 1] = f[k - 1] + items[k - 1].size /\ (k - 1) + 1 = k
    BY <1>2, <2>3, <2>5 DEF SumsUpTo
  <2> QED
    BY <2>3, <2>6, <2>7, <2>8
<1> QED
  BY <1>2, <1>6, <1>7, <1>z DEF SumsUpTo

LEMMA TotalNatural ==
  ASSUME NEW items, Sized(items)
  PROVE  Total(items) \in Nat
<1>1. Len(items) \in Nat /\ SumsUpTo(items, Len(items), Starts(items))
  BY StartsSum DEF Sized
<1> QED
  BY <1>1 DEF SumsUpTo, Total

LEMMA ClustersSized ==
  ASSUME NEW s \in Seq(Cluster)
  PROVE  Sized(s) /\ \A i \in 1 .. Len(s) : Sized(SubSeq(s, 1, i - 1))
<1>1. Len(s) \in Nat /\ \A i \in 1 .. Len(s) : s[i] \in Cluster
  OBVIOUS
<1>2. \A c \in Cluster : c.size \in Nat
  BY DEF Cluster
<1>3. ASSUME NEW i \in 1 .. Len(s) PROVE Sized(SubSeq(s, 1, i - 1))
  <2>1. /\ Len(SubSeq(s, 1, i - 1)) = i - 1
        /\ \A j \in 1 .. i - 1 : SubSeq(s, 1, i - 1)[j] = s[j]
    BY <1>1
  <2> QED
    BY <1>1, <1>2, <2>1 DEF Sized
<1> QED
  BY <1>1, <1>2, <1>3 DEF Sized

(* A cluster of blobs that is written. *)
LEMMA ClusterTyped ==
  ASSUME NEW blobs \in Seq(BlobItem), NEW compressed \in BOOLEAN, NEW packed \in Nat
  PROVE  ClusterItem(blobs, compressed, packed) \in Cluster
<1>1. Sized(blobs) /\ Len(blobs) \in Nat
  <2>1. Len(blobs) \in Nat /\ \A k \in 1 .. Len(blobs) : blobs[k] \in BlobItem
    OBVIOUS
  <2>2. \A b \in BlobItem : b.size \in Nat
    BY DEF BlobItem
  <2> QED
    BY <2>1, <2>2 DEF Sized
<1>2. Total(blobs) \in Nat
  BY <1>1, TotalNatural
<1>3. ClusterSize(blobs) \in Nat
  BY <1>1, <1>2 DEF ClusterSize, IdxSize
<1>4. 1 + (IF compressed THEN packed ELSE ClusterSize(blobs)) \in Nat \ {0}
  BY <1>3
<1> QED
  BY <1>4 DEF ClusterItem, Item, Cluster

(* Writing clusters: one offset for each. *)
LEMMA Emits ==
  ASSUME Clusters, NEW more \in Seq(Cluster), Emit(more)
  PROVE  clusterOffsets' \in Seq(Nat) /\ tmp' \in Seq(Cluster) /\ Len(clusterOffsets') = Len(tmp')
<1> DEFINE offsets == [i \in DOMAIN more |-> Total(tmp) + Total(SubSeq(more, 1, i - 1))]
           n == Len(more)
<1>1. clusterOffsets \in Seq(Nat) /\ tmp \in Seq(Cluster) /\ Len(clusterOffsets) = Len(tmp)
  BY DEF Clusters
<1>2. n \in Nat /\ DOMAIN more = 1 .. n
  OBVIOUS
<1>3. Total(tmp) \in Nat /\ \A i \in 1 .. n : Total(SubSeq(more, 1, i - 1)) \in Nat
  BY <1>1, ClustersSized, TotalNatural
<1>4. offsets \in [1 .. n -> Nat]
  BY <1>2, <1>3
<1>5. clusterOffsets' = clusterOffsets \o offsets /\ tmp' = tmp \o more
  BY DEF Emit
<1> HIDE DEF offsets
<1>6. offsets \in Seq(Nat) /\ Len(offsets) = n
  BY <1>2, <1>4
<1>7. clusterOffsets \o offsets \in Seq(Nat) /\ Len(clusterOffsets \o offsets) = Len(clusterOffsets) + n
  <2>1. clusterOffsets \in Seq(Nat) /\ offsets \in Seq(Nat) /\ Len(offsets) = n
    BY <1>1, <1>6
  <2>2. clusterOffsets \o offsets \in Seq(Nat)
    BY <2>1, ConcatProperties, Zenon
  <2>3. Len(clusterOffsets \o offsets) = Len(clusterOffsets) + Len(offsets)
    BY <2>1, ConcatProperties, Zenon
  <2> QED
    BY <2>1, <2>2, <2>3
<1>8. tmp \o more \in Seq(Cluster) /\ Len(tmp \o more) = Len(tmp) + n
  BY <1>1, ConcatProperties
<1> QED
  BY <1>1, <1>5, <1>7, <1>8

-----------------------------------------------------------------------------
(* createDirents: an entry for every article.                              *)

LEMMA MimesFound ==
  ASSUME mimes \in Seq(Nat), NEW mime \in Nat
  PROVE  /\ MimesWith(mime) \in Seq(Nat)
         /\ \E i \in DOMAIN MimesWith(mime) : MimesWith(mime)[i] = mime
<1>1. CASE \E i \in DOMAIN mimes : mimes[i] = mime
  BY <1>1 DEF MimesWith
<1>2. CASE ~ \E i \in DOMAIN mimes : mimes[i] = mime
  <2>1. MimesWith(mime) = Append(mimes, mime)
    BY <1>2 DEF MimesWith
  <2>2. /\ Append(mimes, mime) \in Seq(Nat)
        /\ Len(mimes) + 1 \in DOMAIN Append(mimes, mime)
        /\ Append(mimes, mime)[Len(mimes) + 1] = mime
    OBVIOUS
  <2> QED
    BY <2>1, <2>2
<1> QED
  BY <1>1, <1>2

LEMMA NewEntry ==
  ASSUME mimes \in Seq(Nat), NEW a \in Article, a.redirect \/ MimeFits(a.mime)
  PROVE  /\ NewDirent(a) \in Dirent /\ NewDirent(a).idx = 0
         /\ OfArticle(NewDirent(a), a)
         /\ NewDirent(a).redirect <=> NewDirent(a).mime = RedirectMime
<1> DEFINE all == MimesWith(a.mime)
           At(i) == i \in DOMAIN all /\ all[i] = a.mime
           m == IF a.redirect THEN RedirectMime ELSE (CHOOSE i \in DOMAIN all : all[i] = a.mime) - 1
<1>1. /\ a.aid \in Nat /\ a.ns \in Nat /\ a.url \in Nat /\ a.title \in Nat /\ a.param \in Nat
      /\ a.redirect \in BOOLEAN /\ a.redirectAid \in Nat /\ a.mime \in Nat
      /\ a.compress \in BOOLEAN
  BY DEF Article
<1>2. all \in Seq(Nat) /\ \E i \in DOMAIN all : all[i] = a.mime
  BY <1>1, MimesFound
<1>3. ~a.redirect => Len(all) =< RedirectMime
  BY DEF MimeFits
<1> HIDE DEF all
<1>4. PICK c : c = CHOOSE i \in DOMAIN all : all[i] = a.mime
  OBVIOUS
<1>5. c \in DOMAIN all
  BY <1>2, <1>4, Zenon
<1>6. c \in 1 .. Len(all) /\ Len(all) \in Nat
  BY <1>2, <1>5
<1>7. m = IF a.redirect THEN RedirectMime ELSE c - 1
  BY <1>4
<1>8. m \in 0 .. RedirectMime /\ (a.redirect <=> m = RedirectMime)
  BY <1>1, <1>3, <1>6, <1>7, CreatorAssumption
<1>9. NewDirent(a) =
        [aid |-> a.aid, ns |-> a.ns, url |-> a.url, title |-> a.title, param |-> a.param,
         redirect |-> a.redirect, redirectAid |-> a.redirectAid, redirectIndex |-> 0,
         mime |-> m, compress |-> a.compress, cluster |-> 0, blob |-> 0, idx |-> 0]
  BY DEF NewDirent, all
<1> HIDE DEF m
<1>10. NewDirent(a) \in Dirent
  BY <1>1, <1>8, <1>9 DEF Dirent
<1> QED
  BY <1>8, <1>9, <1>10 DEF OfArticle

(* What the steps that leave the clusters alone keep of them. *)
LEMMA ClustersKept ==
  ASSUME Clusters, mimes' \in Seq(Nat), UNCHANGED clusterVars
  PROVE  Clusters'
BY DEF Clusters, clusterVars

LEMMA CollectStep ==
  ASSUME IInv, Collect
  PROVE  IInv'
<1>1. PICK a \in Candidate :
        /\ New(a)
        /\ a.redirect \/ MimeFits(a.mime)
        /\ articles' = Append(articles, a)
        /\ dirents' = Append(dirents, NewDirent(a))
        /\ mimes' = IF a.redirect THEN mimes ELSE MimesWith(a.mime)
  BY DEF Collect
<1>2. /\ pc = "collect" /\ pc' = "collect" /\ Len(articles) < MaxArticles
      /\ di' = di /\ titleIdx' = titleIdx /\ UNCHANGED clusterVars
  BY DEF Collect
<1> DEFINE d == NewDirent(a)
           n == Len(dirents)
           m == Len(articles)
<1>3. /\ articles \in Seq(Candidate) /\ AidsOnce(articles) /\ EntriesOf(dirents, articles)
      /\ NoneLost /\ Indices /\ Titles /\ Clusters /\ di = 1 /\ pc \in Places
      /\ mimes \in Seq(Nat)
  BY <1>2 DEF IInv, ArticlesSound, Entries, Clusters
<1>4. /\ dirents \in Seq(Dirent) /\ n =< m /\ AidsOnce(dirents)
      /\ \A i \in 1 .. n : EntryOf(dirents[i], articles)
      /\ n \in Nat /\ m \in Nat /\ DOMAIN dirents = 1 .. n /\ DOMAIN articles = 1 .. m
  BY <1>3 DEF EntriesOf
<1>5. a \in Article
  BY CreatorAssumption
<1>6. /\ d \in Dirent /\ d.idx = 0 /\ OfArticle(d, a)
      /\ d.redirect <=> d.mime = RedirectMime
  BY <1>1, <1>3, <1>5, NewEntry
<1>7. mimes' \in Seq(Nat)
  <2>1. a.mime \in Nat
    BY <1>5 DEF Article
  <2> QED
    BY <1>1, <1>3, <2>1, MimesFound
<1> HIDE DEF d, n, m
<1>8. /\ articles' \in Seq(Candidate) /\ Len(articles') = m + 1 /\ DOMAIN articles' = 1 .. m + 1
      /\ articles'[m + 1] = a /\ \A i \in 1 .. m : articles'[i] = articles[i]
  BY <1>1, <1>3, <1>4 DEF m
<1>9. /\ dirents' \in Seq(Dirent) /\ Len(dirents') = n + 1 /\ DOMAIN dirents' = 1 .. n + 1
      /\ dirents'[n + 1] = d /\ \A i \in 1 .. n : dirents'[i] = dirents[i]
  BY <1>1, <1>4, <1>6 DEF n, d
<1>10. \A i \in 1 .. m : articles[i].aid # a.aid
  BY <1>1, <1>4 DEF New
<1>11. AidsOnce(articles')
  BY <1>3, <1>4, <1>8, <1>10 DEF AidsOnce
<1>12. AidsOnce(dirents')
  <2>1. ASSUME NEW i \in 1 .. n PROVE dirents[i].aid # d.aid
    <3>1. PICK k \in 1 .. m : OfArticle(dirents[i], articles[k])
      BY <1>4 DEF EntryOf
    <3> QED
      BY <1>6, <1>10, <3>1 DEF OfArticle
  <2> QED
    BY <1>4, <1>9, <2>1 DEF AidsOnce
<1>13. \A i \in 1 .. n + 1 : EntryOf(dirents'[i], articles')
  <2>1. ASSUME NEW i \in 1 .. n PROVE EntryOf(dirents'[i], articles')
    <3>1. EntryOf(dirents[i], articles) /\ dirents'[i] = dirents[i]
      BY <1>4, <1>9
    <3>2. PICK k \in 1 .. m : OfArticle(dirents[i], articles[k])
      BY <1>4, <3>1 DEF EntryOf
    <3>3. k \in DOMAIN articles' /\ articles'[k] = articles[k]
      BY <1>4, <1>8
    <3> QED
      BY <3>1, <3>2, <3>3 DEF EntryOf
  <2>2. EntryOf(d, articles')
    <3>1. m + 1 \in DOMAIN articles' /\ articles'[m + 1] = a
      BY <1>4, <1>8
    <3> QED
      BY <1>6, <3>1 DEF EntryOf
  <2> QED
    BY <1>4, <1>9, <2>1, <2>2
<1>14. Entries'
  BY <1>4, <1>8, <1>9, <1>12, <1>13 DEF Entries, EntriesOf
<1>15. NoneLost'
  <2>1. \A i \in 1 .. m : articles[i].aid \in Aids(dirents)
    BY <1>2, <1>3, <1>4 DEF NoneLost
  <2>2. Aids(dirents) \subseteq Aids(dirents')
    BY <1>4, <1>9 DEF Aids
  <2>3. a.aid \in Aids(dirents')
    <3>1. n + 1 \in DOMAIN dirents' /\ dirents'[n + 1].aid = a.aid
      BY <1>4, <1>6, <1>9 DEF OfArticle
    <3> QED
      BY <3>1 DEF Aids
  <2>4. \A i \in 1 .. m + 1 : articles'[i].aid \in Aids(dirents')
    BY <1>4, <1>8, <2>1, <2>2, <2>3
  <2>5. \A i \in DOMAIN articles' : articles'[i].aid \in Aids(dirents')
    BY <1>8, <2>4
  <2>6. Aids(dirents)' = Aids(dirents')
    BY DEF Aids
  <2> QED
    BY <2>5, <2>6 DEF NoneLost
<1>16. ArticlesSound'
  BY <1>2, <1>4, <1>8, <1>11, CreatorAssumption DEF ArticlesSound, m
<1>17. Indices'
  BY <1>2, <1>3, <1>4, <1>6, <1>9 DEF Indices, Translated
<1>18. Titles'
  BY <1>2, <1>3 DEF Titles, Titled
<1>19. Ordered' /\ Targets'
  BY <1>2 DEF Ordered, Targets, Translated
<1>20. Clusters'
  BY <1>2, <1>3, <1>7, ClustersKept
<1>21. di' \in 1 .. Len(dirents') + 1
  BY <1>2, <1>3, <1>4, <1>9
<1> QED
  BY <1>2, <1>3, <1>14, <1>15, <1>16, <1>17, <1>18, <1>19, <1>20, <1>21 DEF IInv

(* The entries after a step that keeps their aids. *)
LEMMA AidsKept ==
  ASSUME IInv, UNCHANGED articles, EntriesOf(dirents', articles),
         Aids(dirents') = Aids(dirents), pc' # "collect"
  PROVE  ArticlesSound' /\ Entries' /\ NoneLost'
<1>1. ArticlesSound' /\ Entries'
  BY DEF IInv, ArticlesSound, Entries, AidsOnce
<1>2. Aids(dirents)' = Aids(dirents)
  BY DEF Aids
<1>3. NoneLost'
  BY <1>2 DEF IInv, NoneLost
<1> QED
  BY <1>1, <1>3

LEMMA TooManyMimesStep ==
  ASSUME IInv, TooManyMimes
  PROVE  IInv'
<1>1. /\ pc = "collect" /\ pc' = "refused"
      /\ UNCHANGED <<articles, dirents, mimes, titleIdx, header, di, file, clusterVars>>
  BY DEF TooManyMimes
<1>2. ArticlesSound' /\ Entries' /\ NoneLost'
  BY <1>1, AidsKept DEF IInv, Entries
<1>3. Clusters'
  BY <1>1, ClustersKept DEF IInv, Clusters
<1>4. Ordered' /\ Targets' /\ Indices' /\ Titles'
  BY <1>1 DEF IInv, Ordered, Targets, Indices, Titles, Translated, Titled
<1> QED
  BY <1>1, <1>2, <1>3, <1>4 DEF IInv, Places

LEMMA EndCollectStep ==
  ASSUME IInv, EndCollect
  PROVE  IInv'
<1>1. /\ pc = "collect" /\ pc' = "prune" /\ dirents' \in Sortings(dirents, CompareAid)
      /\ UNCHANGED <<articles, mimes, titleIdx, header, di, file, clusterVars>>
  BY DEF EndCollect
<1>2. /\ articles \in Seq(Candidate) /\ EntriesOf(dirents, articles) /\ di = 1
      /\ Indices /\ Titles /\ Clusters
  BY <1>1 DEF IInv, ArticlesSound, Entries
<1>3. dirents \in Seq(Dirent) /\ AidsOnce(dirents)
  BY <1>2 DEF EntriesOf
<1>4. dirents' \in Arrangements(dirents) /\ InAidOrder(dirents')
  BY <1>1, <1>3, SortedByAid
<1>5. /\ EntriesOf(dirents', articles) /\ Aids(dirents') = Aids(dirents)
      /\ Len(dirents') = Len(dirents)
      /\ \A i \in DOMAIN dirents' : \E j \in DOMAIN dirents : dirents'[i] = dirents[j]
  BY <1>2, <1>4, ArrangedEntries
<1>6. ArticlesSound' /\ Entries' /\ NoneLost'
  BY <1>1, <1>5, AidsKept
<1>7. Clusters'
  BY <1>1, <1>2, ClustersKept DEF Clusters
<1>8. Ordered'
  BY <1>4 DEF Ordered, InAidOrder
<1>9. Targets' /\ Titles'
  BY <1>1, <1>2 DEF Targets, Titles, Translated, Titled
<1>10. Indices'
  BY <1>1, <1>2, <1>5 DEF Indices, Translated
<1>11. di' \in 1 .. Len(dirents') + 1
  BY <1>1, <1>2, <1>3, <1>5
<1> QED
  BY <1>1, <1>6, <1>7, <1>8, <1>9, <1>10, <1>11 DEF IInv, Places

LEMMA PruneStep ==
  ASSUME IInv, Prune
  PROVE  IInv'
<1> DEFINE d == dirents[di]
           invalid == d.redirect /\ ~Found(d.redirectAid)
<1>1. /\ pc = "prune" /\ pc' = "prune" /\ di \in DOMAIN dirents
      /\ dirents' = IF invalid THEN RemoveAt(dirents, di) ELSE dirents
      /\ di' = IF invalid THEN di ELSE di + 1
      /\ UNCHANGED <<articles, mimes, titleIdx, header, file, clusterVars>>
  BY DEF Prune, NextToPrune
<1>2. /\ articles \in Seq(Candidate) /\ AidsOnce(articles) /\ EntriesOf(dirents, articles)
      /\ NoneLost /\ InAidOrder(dirents) /\ Indices /\ Titles /\ Clusters
  BY <1>1 DEF IInv, ArticlesSound, Entries, Ordered
<1>3. /\ dirents \in Seq(Dirent) /\ Len(dirents) \in Nat /\ DOMAIN dirents = 1 .. Len(dirents)
      /\ di \in 1 .. Len(dirents) /\ d \in Dirent /\ EntryOf(d, articles)
  BY <1>1, <1>2 DEF EntriesOf
<1>4. d.redirectAid \in Nat /\ d.aid \in Nat
  BY <1>3 DEF Dirent
<1>5. invalid <=> d.redirect /\ d.redirectAid \notin Aids(dirents)
  BY <1>2, <1>3, <1>4, Searches
<1> HIDE DEF invalid
<1>6. CASE ~invalid
  <2>1. dirents' = dirents /\ di' = di + 1
    BY <1>1, <1>6
  <2>2. ArticlesSound' /\ Entries' /\ NoneLost'
    BY <1>1, <1>2, <2>1, AidsKept
  <2>3. Clusters'
    BY <1>1, <1>2, ClustersKept DEF Clusters
  <2>4. Ordered' /\ Targets' /\ Titles' /\ Indices'
    BY <1>1, <1>2, <2>1 DEF Ordered, Targets, Titles, Indices, Translated, Titled, InAidOrder
  <2>5. di' \in 1 .. Len(dirents') + 1
    BY <1>3, <2>1
  <2> QED
    BY <1>1, <2>2, <2>3, <2>4, <2>5 DEF IInv, Places
<1>7. CASE invalid
  <2>1. dirents' = RemoveAt(dirents, di) /\ di' = di
    BY <1>1, <1>7
  <2>2. /\ EntriesOf(dirents', articles) /\ Aids(dirents') = Aids(dirents) \ {d.aid}
        /\ Len(dirents') = Len(dirents) - 1
        /\ \A j \in DOMAIN dirents' : \E k \in DOMAIN dirents : dirents'[j] = dirents[k]
        /\ InAidOrder(dirents')
    BY <1>1, <1>2, <2>1, ErasedEntry
  <2>3. ArticlesSound' /\ Entries'
    BY <1>1, <2>2 DEF IInv, ArticlesSound, Entries, AidsOnce
  <2>4. NoneLost'
    <3>1. Aids(dirents)' = Aids(dirents')
      BY DEF Aids
    <3>2. PICK q \in DOMAIN articles : OfArticle(d, articles[q])
      BY <1>3 DEF EntryOf
    <3>3. ASSUME NEW k \in DOMAIN articles
          PROVE  \/ articles[k].aid \in Aids(dirents')
                 \/ articles[k].redirect /\ articles[k].redirectAid \notin Aids(dirents')
      <4>1. CASE articles[k].aid = d.aid
        <5>1. k = q
          BY <1>2, <3>2, <4>1 DEF OfArticle, AidsOnce
        <5>2. articles[k].redirect /\ articles[k].redirectAid \notin Aids(dirents)
          BY <1>5, <1>7, <3>2, <5>1 DEF OfArticle
        <5> QED
          BY <2>2, <5>2
      <4>2. CASE articles[k].aid # d.aid
        BY <1>2, <2>2, <4>2 DEF NoneLost
      <4> QED
        BY <4>1, <4>2
    <3> QED
      BY <1>1, <3>1, <3>3 DEF NoneLost
  <2>5. Clusters'
    BY <1>1, <1>2, ClustersKept DEF Clusters
  <2>6. Ordered' /\ Targets'
    BY <1>1, <2>2 DEF Ordered, Targets, Translated, InAidOrder
  <2>7. Titles'
    BY <1>1, <1>2 DEF Titles, Titled
  <2>8. Indices'
    BY <1>1, <1>2, <2>2 DEF Indices, Translated
  <2>9. di' \in 1 .. Len(dirents') + 1
    BY <1>3, <2>1, <2>2
  <2> QED
    BY <1>1, <2>3, <2>4, <2>5, <2>6, <2>7, <2>8, <2>9 DEF IInv, Places
<1> QED
  BY <1>6, <1>7

LEMMA SetIndexStep ==
  ASSUME IInv, SetIndex
  PROVE  IInv'
<1>1. PICK sorted \in Sortings(dirents, CompareUrl) :
        dirents' \in Sortings(Numbered(sorted), CompareAid)
  BY DEF SetIndex
<1>2. /\ pc = "prune" /\ pc' = "translate" /\ di' = 1
      /\ UNCHANGED <<articles, mimes, titleIdx, header, file, clusterVars>>
  BY DEF SetIndex
<1>3. /\ articles \in Seq(Candidate) /\ EntriesOf(dirents, articles)
      /\ Titles /\ Clusters
  BY DEF IInv, ArticlesSound, Entries
<1>4. sorted \in Arrangements(dirents)
  BY DEF Sortings
<1>5. EntriesOf(sorted, articles) /\ Aids(sorted) = Aids(dirents) /\ Len(sorted) = Len(dirents)
  BY <1>3, <1>4, ArrangedEntries
<1>n. PICK n : n = Numbered(sorted)
  OBVIOUS
<1>6. /\ EntriesOf(n, articles) /\ Aids(n) = Aids(dirents) /\ Len(n) = Len(dirents)
      /\ \A i \in DOMAIN n : n[i].idx < Len(dirents)
  BY <1>5, <1>n, NumberedEntries
<1>7. n \in Seq(Dirent) /\ AidsOnce(n) /\ Len(n) \in Nat
  BY <1>6 DEF EntriesOf
<1>8. dirents' \in Arrangements(n) /\ InAidOrder(dirents')
  BY <1>1, <1>n, <1>7, SortedByAid
<1>9. /\ EntriesOf(dirents', articles) /\ Aids(dirents') = Aids(dirents)
      /\ Len(dirents') = Len(dirents)
      /\ \A i \in DOMAIN dirents' : \E j \in DOMAIN n : dirents'[i] = n[j]
  BY <1>3, <1>6, <1>8, ArrangedEntries
<1>10. ArticlesSound' /\ Entries' /\ NoneLost'
  BY <1>2, <1>9, AidsKept
<1>11. Clusters'
  BY <1>2, <1>3, ClustersKept DEF Clusters
<1>12. Ordered'
  BY <1>8 DEF Ordered, InAidOrder
<1>13. Targets'
  <2>1. dirents' \in Seq(Dirent)
    BY <1>9 DEF EntriesOf
  <2> QED
    BY <1>2, <2>1 DEF Targets, Translated
<1>14. Titles'
  BY <1>2, <1>3 DEF Titles, Titled
<1>15. Indices'
  BY <1>2, <1>6, <1>9 DEF Indices
<1>16. di' \in 1 .. Len(dirents') + 1
  BY <1>2, <1>6, <1>7, <1>9
<1> QED
  BY <1>2, <1>10, <1>11, <1>12, <1>13, <1>14, <1>15, <1>16 DEF IInv, Places

(* One entry is changed in place. *)
LEMMA ChangedEntry ==
  ASSUME IInv, di \in DOMAIN dirents, NEW e \in Dirent, SameEntry(e, dirents[di]),
         e.idx = dirents[di].idx,
         dirents' = [dirents EXCEPT ![di] = e], UNCHANGED articles
  PROVE  /\ EntriesOf(dirents', articles) /\ Aids(dirents') = Aids(dirents)
         /\ Len(dirents') = Len(dirents) /\ DOMAIN dirents' = DOMAIN dirents
         /\ InAidOrder(dirents) => InAidOrder(dirents')
         /\ \A i \in DOMAIN dirents :
              SameEntry(dirents'[i], dirents[i]) /\ dirents'[i].idx = dirents[i].idx
<1>1. EntriesOf(dirents, articles) /\ dirents \in Seq(Dirent)
  BY DEF IInv, Entries, EntriesOf
<1>2. /\ dirents' \in Seq(Dirent) /\ Len(dirents') = Len(dirents)
      /\ DOMAIN dirents' = DOMAIN dirents
  BY <1>1
<1>3. \A i \in DOMAIN dirents : dirents'[i] = IF i = di THEN e ELSE dirents[i]
  BY <1>1
<1>4. ASSUME NEW i \in DOMAIN dirents
      PROVE  SameEntry(dirents'[i], dirents[i]) /\ dirents'[i].idx = dirents[i].idx
  BY <1>3 DEF SameEntry
<1>5. /\ EntriesOf(dirents', articles) /\ Aids(dirents') = Aids(dirents)
      /\ InAidOrder(dirents) => InAidOrder(dirents')
  BY <1>1, <1>2, <1>4, SameEntries
<1> QED
  BY <1>2, <1>4, <1>5

LEMMA TranslateStep ==
  ASSUME IInv, Translate
  PROVE  IInv'
<1> DEFINE d == dirents[di]
           e == [d EXCEPT !.redirectIndex = RedirectIndex(d.redirectAid)]
<1>1. /\ pc = "translate" /\ pc' = "translate" /\ di \in DOMAIN dirents /\ di' = di + 1
      /\ d.redirect => Found(d.redirectAid)
      /\ dirents' = IF d.redirect THEN [dirents EXCEPT ![di].redirectIndex =
                                          RedirectIndex(d.redirectAid)]
                    ELSE dirents
      /\ UNCHANGED <<articles, mimes, titleIdx, header, file, clusterVars>>
  BY DEF Translate
<1>2. /\ EntriesOf(dirents, articles) /\ Targets /\ Indices /\ Titles /\ Clusters
      /\ InAidOrder(dirents)
  BY <1>1 DEF IInv, Entries, Ordered
<1>3. /\ dirents \in Seq(Dirent) /\ Len(dirents) \in Nat /\ DOMAIN dirents = 1 .. Len(dirents)
      /\ di \in 1 .. Len(dirents) /\ d \in Dirent
  BY <1>1, <1>2 DEF EntriesOf
<1>4. d.redirectAid \in Nat
  BY <1>3 DEF Dirent
<1>5. d.redirect => d.redirectAid \in Aids(dirents)
  BY <1>1, <1>2, <1>3, <1>4, Searches
<1>6. /\ EntriesOf(dirents', articles) /\ Aids(dirents') = Aids(dirents)
      /\ Len(dirents') = Len(dirents) /\ DOMAIN dirents' = DOMAIN dirents
      /\ InAidOrder(dirents')
      /\ \A i \in DOMAIN dirents :
           SameEntry(dirents'[i], dirents[i]) /\ dirents'[i].idx = dirents[i].idx
  <2>1. CASE ~d.redirect
    BY <1>1, <1>2, <2>1 DEF SameEntry
  <2>2. CASE d.redirect
    <3>1. RedirectIndex(d.redirectAid) \in Nat
      <4>1. LowerBound(d.redirectAid) \in DOMAIN dirents
        BY <1>1, <1>2, <1>3, <1>4, <2>2, Searches
      <4>2. dirents[LowerBound(d.redirectAid)] \in Dirent
        BY <1>3, <4>1
      <4> QED
        BY <4>2 DEF RedirectIndex, Dirent
    <3>x. PICK x \in Nat : x = RedirectIndex(d.redirectAid)
      BY <3>1
    <3>2. e \in Dirent /\ SameEntry(e, d) /\ e.idx = d.idx
      <4> HIDE DEF d
      <4>1. e = [d EXCEPT !.redirectIndex = x]
        BY <3>x
      <4> HIDE DEF e
      <4> QED
        BY <1>3, <4>1 DEF Dirent, SameEntry
    <3>3. dirents' = [dirents EXCEPT ![di] = e]
      BY <1>1, <2>2
    <3> HIDE DEF e
    <3> QED
      BY <1>1, <1>2, <3>2, <3>3, ChangedEntry
  <2> QED
    BY <2>1, <2>2
<1>7. ArticlesSound' /\ Entries' /\ NoneLost'
  BY <1>1, <1>6, AidsKept
<1>8. Clusters'
  BY <1>1, <1>2, ClustersKept DEF Clusters
<1>9. Ordered'
  BY <1>6 DEF Ordered, InAidOrder
<1>10. Targets'
  <2>1. Aids(dirents)' = Aids(dirents)
    BY <1>6 DEF Aids
  <2>2. ASSUME NEW i \in DOMAIN dirents, i < di + 1, dirents'[i].redirect
        PROVE  dirents'[i].redirectAid \in Aids(dirents)
    <3>1. dirents[i].redirect /\ dirents'[i].redirectAid = dirents[i].redirectAid
      BY <1>6, <2>2 DEF SameEntry
    <3>2. i < di \/ i = di
      BY <1>3, <2>2
    <3> QED
      BY <1>1, <1>2, <1>5, <3>1, <3>2 DEF Targets
  <2> QED
    BY <1>1, <1>6, <2>1, <2>2 DEF Targets, Translated
<1>11. Titles' /\ Indices'
  BY <1>1, <1>2, <1>6 DEF Titles, Titled, Indices
<1>12. di' \in 1 .. Len(dirents') + 1
  BY <1>1, <1>3, <1>6
<1> QED
  BY <1>1, <1>7, <1>8, <1>9, <1>10, <1>11, <1>12 DEF IInv, Places

LEMMA InternalErrorStep ==
  ASSUME IInv, InternalError
  PROVE  IInv'
<1>1. /\ pc = "translate" /\ pc' = "failed"
      /\ UNCHANGED <<articles, dirents, mimes, titleIdx, header, di, file, clusterVars>>
  BY DEF InternalError
<1>2. ArticlesSound' /\ Entries' /\ NoneLost'
  BY <1>1, AidsKept DEF IInv, Entries
<1>3. Clusters'
  BY <1>1, ClustersKept DEF IInv, Clusters
<1>4. Ordered' /\ Targets' /\ Indices' /\ Titles'
  BY <1>1 DEF IInv, Ordered, Targets, Indices, Titles, Translated, Titled
<1> QED
  BY <1>1, <1>2, <1>3, <1>4 DEF IInv, Places

LEMMA EndTranslateStep ==
  ASSUME IInv, EndTranslate
  PROVE  IInv'
<1>1. /\ pc = "translate" /\ di \notin DOMAIN dirents /\ pc' = "title"
      /\ dirents' \in Arrangements(dirents)
      /\ UNCHANGED <<articles, mimes, titleIdx, header, di, file, clusterVars>>
  BY DEF EndTranslate, InUrlOrder, Sortings
<1>2. /\ articles \in Seq(Candidate) /\ EntriesOf(dirents, articles)
      /\ Targets /\ Indices /\ Titles /\ Clusters /\ di \in 1 .. Len(dirents) + 1
  BY DEF IInv, ArticlesSound, Entries
<1>3. /\ dirents \in Seq(Dirent) /\ Len(dirents) \in Nat /\ DOMAIN dirents = 1 .. Len(dirents)
  BY <1>2 DEF EntriesOf
<1>4. /\ EntriesOf(dirents', articles) /\ Aids(dirents') = Aids(dirents)
      /\ Len(dirents') = Len(dirents)
      /\ \A i \in DOMAIN dirents' : \E j \in DOMAIN dirents : dirents'[i] = dirents[j]
  BY <1>1, <1>2, ArrangedEntries
<1>5. ArticlesSound' /\ Entries' /\ NoneLost'
  BY <1>1, <1>4, AidsKept
<1>6. Clusters'
  BY <1>1, <1>2, ClustersKept DEF Clusters
<1>7. Targets'
  <2>1. Aids(dirents)' = Aids(dirents)
    BY <1>4 DEF Aids
  <2>2. \A j \in DOMAIN dirents : dirents[j].redirect => dirents[j].redirectAid \in Aids(dirents)
    <3>1. \A j \in DOMAIN dirents : j < di
      BY <1>1, <1>2, <1>3
    <3> QED
      BY <1>1, <1>2, <3>1 DEF Targets
  <2> QED
    BY <1>4, <2>1, <2>2 DEF Targets
<1>8. Ordered' /\ Titles' /\ Indices'
  BY <1>1, <1>2, <1>4 DEF Ordered, Titles, Titled, Indices, Translated
<1>9. di' \in 1 .. Len(dirents') + 1
  BY <1>1, <1>2, <1>4
<1> QED
  BY <1>1, <1>5, <1>6, <1>7, <1>8, <1>9 DEF IInv, Places

LEMMA CreateTitleIndexStep ==
  ASSUME IInv, CreateTitleIndex
  PROVE  IInv'
<1> DEFINE s == [i \in DOMAIN dirents |-> dirents[i].idx]
<1>1. /\ pc = "title" /\ pc' = "clusters" /\ di' = 1
      /\ titleIdx' \in Arrangements(s)
      /\ UNCHANGED <<articles, dirents, mimes, header, file, clusterVars>>
  BY DEF CreateTitleIndex, Sortings
<1>2. EntriesOf(dirents, articles) /\ Targets /\ Indices /\ Clusters
  BY DEF IInv, Entries
<1>3. /\ dirents \in Seq(Dirent) /\ Len(dirents) \in Nat /\ DOMAIN dirents = 1 .. Len(dirents)
  BY <1>2 DEF EntriesOf
<1>4. \A i \in 1 .. Len(dirents) : dirents[i].idx \in Nat /\ dirents[i].idx < Len(dirents)
  <2>1. \A i \in 1 .. Len(dirents) : dirents[i] \in Dirent
    BY <1>3
  <2>2. \A d \in Dirent : d.idx \in Nat
    BY DEF Dirent
  <2> QED
    BY <1>1, <1>2, <1>3, <2>1, <2>2 DEF Indices, Translated
<1>s. PICK u : u = s
  OBVIOUS
<1>5. u \in Seq(Nat) /\ Len(u) = Len(dirents) /\ \A i \in 1 .. Len(dirents) : u[i] < Len(dirents)
  <2>1. u = [i \in 1 .. Len(dirents) |-> dirents[i].idx]
    BY <1>s, <1>3
  <2>2. u \in [1 .. Len(dirents) -> Nat]
    BY <1>4, <2>1
  <2>3. u \in Seq(Nat) /\ Len(u) = Len(dirents)
    BY <1>3, <2>2
  <2> QED
    BY <1>4, <2>1, <2>3
<1>6. titleIdx' \in Arrangements(u)
  BY <1>1, <1>s
<1>7. /\ titleIdx' \in Seq(Nat) /\ Len(titleIdx') = Len(u)
      /\ \A i \in 1 .. Len(u) : \E j \in 1 .. Len(u) : titleIdx'[i] = u[j]
  <2>1. u \in Seq(Nat)
    BY <1>5
  <2> QED
    BY ONLY <1>6, <2>1, Arranged
<1> HIDE DEF s
<1>8. \A i \in DOMAIN titleIdx' : titleIdx'[i] < Len(dirents)
  <2>1. DOMAIN titleIdx' = 1 .. Len(u)
    BY <1>7
  <2>2. ASSUME NEW i \in 1 .. Len(u) PROVE titleIdx'[i] < Len(dirents)
    <3>1. PICK j \in 1 .. Len(u) : titleIdx'[i] = u[j]
      BY <1>7
    <3> QED
      BY <1>5, <3>1
  <2> QED
    BY <2>1, <2>2
<1>9. Titles'
  BY <1>1, <1>7, <1>8 DEF Titles, Titled
<1>10. ArticlesSound' /\ Entries' /\ NoneLost'
  BY <1>1, <1>2, AidsKept
<1>11. Clusters'
  BY <1>1, <1>2, ClustersKept DEF Clusters
<1>12. Ordered' /\ Targets' /\ Indices'
  BY <1>1, <1>2 DEF Ordered, Targets, Indices, Translated
<1>13. di' \in 1 .. Len(dirents') + 1
  BY <1>1, <1>3
<1> QED
  BY <1>1, <1>9, <1>10, <1>11, <1>12, <1>13 DEF IInv, Places

-----------------------------------------------------------------------------
(* createClusters, and the steps after it.                                 *)

(* A step of createClusters and after: the entries are those of before. *)
LEMMA LaterStep ==
  ASSUME IInv, pc \in Titled, pc' \in Titled, UNCHANGED <<articles, titleIdx>>,
         EntriesOf(dirents', articles), Aids(dirents') = Aids(dirents),
         Len(dirents') = Len(dirents),
         \A i \in DOMAIN dirents :
           SameEntry(dirents'[i], dirents[i]) /\ dirents'[i].idx = dirents[i].idx,
         di' \in 1 .. Len(dirents) + 1, Clusters'
  PROVE  IInv'
<1>1. dirents \in Seq(Dirent) /\ dirents' \in Seq(Dirent) /\ DOMAIN dirents' = DOMAIN dirents
  BY DEF IInv, Entries, EntriesOf
<1>2. /\ pc' \notin {"collect", "refused", "prune", "translate"} /\ pc' \in Places
      /\ pc \in Translated /\ pc' \in Translated
  BY DEF Titled, Translated, Places
<1>3. ArticlesSound' /\ Entries' /\ NoneLost'
  BY <1>2, AidsKept
<1>4. Targets'
  <2>1. Aids(dirents)' = Aids(dirents)
    BY DEF Aids
  <2> QED
    BY <1>1, <1>2, <2>1 DEF IInv, Targets, SameEntry
<1>5. Ordered'
  BY <1>2 DEF Ordered
<1>6. Indices'
  BY <1>1, <1>2 DEF IInv, Indices
<1>7. Titles'
  BY DEF IInv, Titles
<1> QED
  BY <1>2, <1>3, <1>4, <1>5, <1>6, <1>7 DEF IInv

LEMMA SameStep ==
  ASSUME IInv, pc \in Titled, pc' \in Titled, UNCHANGED <<articles, titleIdx, dirents>>,
         di' \in 1 .. Len(dirents) + 1, Clusters'
  PROVE  IInv'
<1>1. EntriesOf(dirents, articles)
  BY DEF IInv, Entries
<1>2. \A i \in DOMAIN dirents :
        SameEntry(dirents'[i], dirents[i]) /\ dirents'[i].idx = dirents[i].idx
  BY DEF SameEntry
<1> QED
  BY <1>1, <1>2, LaterStep

LEMMA SkipRedirectStep ==
  ASSUME IInv, SkipRedirect
  PROVE  IInv'
<1>1. /\ pc = "clusters" /\ pc' = "clusters" /\ di \in DOMAIN dirents /\ di' = di + 1
      /\ UNCHANGED <<articles, dirents, mimes, titleIdx, clusterVars>>
  BY DEF SkipRedirect
<1>2. dirents \in Seq(Dirent) /\ Clusters
  BY DEF IInv, Entries, EntriesOf
<1>3. di' \in 1 .. Len(dirents) + 1
  BY <1>1, <1>2
<1>4. Clusters'
  BY <1>1, <1>2, ClustersKept DEF Clusters
<1> QED
  BY <1>1, <1>3, <1>4, SameStep DEF Titled

LEMMA BlobTyped ==
  ASSUME IInv, NEW i \in DOMAIN dirents
  PROVE  Blob(dirents[i].aid) \in BlobItem
<1>1. /\ articles \in Seq(Candidate)
      /\ \E k \in DOMAIN articles : OfArticle(dirents[i], articles[k])
      /\ dirents \in Seq(Dirent)
  BY DEF IInv, ArticlesSound, Entries, EntriesOf, EntryOf
<1>2. \E k \in DOMAIN articles : articles[k].aid = dirents[i].aid
  BY <1>1 DEF OfArticle
<1>3. PICK c : c = CHOOSE k \in DOMAIN articles : articles[k].aid = dirents[i].aid
  OBVIOUS
<1>4. c \in DOMAIN articles
  BY <1>2, <1>3, Zenon
<1>5. articles[c] \in Article
  BY <1>1, <1>4, CreatorAssumption
<1>6. articles[c].size \in Nat
  BY <1>5 DEF Article
<1>7. dirents[i].aid \in Nat
  <2>1. dirents[i] \in Dirent
    BY <1>1
  <2> QED
    BY <2>1 DEF Dirent
<1>8. Blob(dirents[i].aid) = [aid |-> dirents[i].aid, size |-> articles[c].size]
  BY <1>3 DEF Blob
<1> QED
  BY <1>6, <1>7, <1>8 DEF BlobItem

(* setCluster *)
LEMMA PlacedEntry ==
  ASSUME IInv, pc = "clusters", pc' = "clusters", di \in DOMAIN dirents,
         NEW c \in Nat, NEW b \in Nat, dirents' = Placed(c, b),
         UNCHANGED <<articles, titleIdx>>, di' = di + 1, Clusters'
  PROVE  IInv'
<1> DEFINE d == dirents[di]
           e == [d EXCEPT !.cluster = c, !.blob = b]
<1>1. /\ dirents \in Seq(Dirent) /\ d \in Dirent /\ Len(dirents) \in Nat
      /\ di \in 1 .. Len(dirents)
  BY DEF IInv, Entries, EntriesOf
<1>2. dirents' = [dirents EXCEPT ![di] = e]
  BY <1>1 DEF Placed
<1>3. e \in Dirent /\ SameEntry(e, d) /\ e.idx = d.idx
  <2>x. PICK x : x = d
    OBVIOUS
  <2>1. e = [x EXCEPT !.cluster = c, !.blob = b] /\ x \in Dirent
    BY <1>1, <2>x
  <2> HIDE DEF d, e
  <2>2. e \in Dirent /\ SameEntry(e, x) /\ e.idx = x.idx
    BY <2>1 DEF Dirent, SameEntry
  <2> QED
    BY <2>x, <2>2
<1> HIDE DEF e
<1>4. /\ EntriesOf(dirents', articles) /\ Aids(dirents') = Aids(dirents)
      /\ Len(dirents') = Len(dirents)
      /\ \A i \in DOMAIN dirents :
           SameEntry(dirents'[i], dirents[i]) /\ dirents'[i].idx = dirents[i].idx
  BY <1>2, <1>3, ChangedEntry
<1>5. di' \in 1 .. Len(dirents) + 1
  BY <1>1
<1> QED
  BY <1>4, <1>5, LaterStep DEF Titled

LEMMA OneInSeq ==
  ASSUME NEW S, NEW x \in S
  PROVE  <<x>> \in Seq(S) /\ <<>> \in Seq(S)
OBVIOUS

LEMMA AddCompressedStep ==
  ASSUME IInv, AddCompressed
  PROVE  IInv'
<1> DEFINE blobs == Append(cluster, Blob(dirents[di].aid))
<1>1. /\ pc = "clusters" /\ pc' = "clusters" /\ di \in DOMAIN dirents /\ di' = di + 1
      /\ \/ /\ \E packed \in Packed : Emit(<<ClusterItem(blobs, TRUE, packed)>>)
            /\ cluster' = <<>>
         \/ cluster' = blobs /\ UNCHANGED <<tmp, clusterOffsets>>
      /\ dirents' = Placed(Len(clusterOffsets), Len(cluster))
      /\ isEmpty' = (isEmpty /\ Blob(dirents[di].aid).size = 0)
      /\ UNCHANGED <<articles, mimes, titleIdx>>
  BY DEF AddCompressed
<1>2. /\ Clusters /\ cluster \in Seq(BlobItem) /\ clusterOffsets \in Seq(Nat)
      /\ mimes \in Seq(Nat) /\ Blob(dirents[di].aid) \in BlobItem
  BY <1>1, BlobTyped DEF IInv, Clusters
<1>3. blobs \in Seq(BlobItem)
  BY <1>2
<1> HIDE DEF blobs
<1>4. clusterOffsets' \in Seq(Nat) /\ tmp' \in Seq(Cluster) /\ Len(clusterOffsets') = Len(tmp')
  <2>1. CASE \E packed \in Packed : Emit(<<ClusterItem(blobs, TRUE, packed)>>)
    <3>1. PICK packed \in Packed : Emit(<<ClusterItem(blobs, TRUE, packed)>>)
      BY <2>1
    <3>2. ClusterItem(blobs, TRUE, packed) \in Cluster
      BY <1>3, ClusterTyped, CreatorAssumption
    <3>3. <<ClusterItem(blobs, TRUE, packed)>> \in Seq(Cluster)
      BY <3>2, OneInSeq, Zenon
    <3> QED
      BY <1>2, <3>1, <3>3, Emits
  <2>2. CASE UNCHANGED <<tmp, clusterOffsets>>
    BY <1>2, <2>2 DEF Clusters
  <2> QED
    BY <1>1, <2>1, <2>2
<1>5. cluster' \in Seq(BlobItem)
  <2>1. cluster' = <<>> \/ cluster' = blobs
    BY <1>1
  <2>2. <<>> \in Seq(BlobItem)
    OBVIOUS
  <2> QED
    BY <1>3, <2>1, <2>2, Zenon
<1>6. isEmpty' \in BOOLEAN
  BY <1>1
<1>7. Clusters'
  BY <1>1, <1>2, <1>4, <1>5, <1>6 DEF Clusters
<1>8. Len(clusterOffsets) \in Nat /\ Len(cluster) \in Nat
  BY <1>2
<1> QED
  BY <1>1, <1>7, <1>8, PlacedEntry

LEMMA PendingTyped ==
  ASSUME cluster \in Seq(BlobItem), NEW packed \in Packed
  PROVE  Pending(packed) \in Seq(Cluster)
<1>1. ClusterItem(cluster, TRUE, packed) \in Cluster
  BY ClusterTyped, CreatorAssumption
<1>2. <<ClusterItem(cluster, TRUE, packed)>> \in Seq(Cluster) /\ <<>> \in Seq(Cluster)
  BY <1>1, OneInSeq, Zenon
<1> QED
  BY <1>2, Zenon DEF Pending

LEMMA AddUncompressedStep ==
  ASSUME IInv, AddUncompressed
  PROVE  IInv'
<1> DEFINE blob == Blob(dirents[di].aid)
           one == ClusterItem(<<blob>>, FALSE, 0)
<1>1. PICK packed \in Packed :
        /\ Emit(Append(Pending(packed), one))
        /\ dirents' = Placed(Len(clusterOffsets) + Len(Pending(packed)), 0)
  BY DEF AddUncompressed
<1>2. /\ pc = "clusters" /\ pc' = "clusters" /\ di \in DOMAIN dirents /\ di' = di + 1
      /\ cluster' = <<>> /\ isEmpty' = (isEmpty /\ blob.size = 0)
      /\ UNCHANGED <<articles, mimes, titleIdx>>
  BY DEF AddUncompressed
<1>3. /\ Clusters /\ cluster \in Seq(BlobItem) /\ clusterOffsets \in Seq(Nat)
      /\ mimes \in Seq(Nat) /\ blob \in BlobItem
  BY <1>2, BlobTyped DEF IInv, Clusters
<1>4. one \in Cluster
  <2>1. <<blob>> \in Seq(BlobItem)
    BY <1>3
  <2> QED
    BY <2>1, ClusterTyped
<1>5. Pending(packed) \in Seq(Cluster)
  BY <1>3, PendingTyped
<1> HIDE DEF one
<1>6. Append(Pending(packed), one) \in Seq(Cluster) /\ Len(Pending(packed)) \in Nat
  BY <1>4, <1>5
<1>7. clusterOffsets' \in Seq(Nat) /\ tmp' \in Seq(Cluster) /\ Len(clusterOffsets') = Len(tmp')
  BY <1>1, <1>3, <1>6, Emits
<1>8. Clusters'
  <2>1. isEmpty' \in BOOLEAN /\ cluster' \in Seq(BlobItem) /\ mimes' \in Seq(Nat)
    BY <1>2, <1>3
  <2> QED
    BY <1>7, <2>1 DEF Clusters
<1>9. Len(clusterOffsets) + Len(Pending(packed)) \in Nat
  BY <1>3, <1>6
<1> QED
  BY <1>1, <1>2, <1>8, <1>9, PlacedEntry

LEMMA FinishClustersStep ==
  ASSUME IInv, FinishClusters
  PROVE  IInv'
<1>1. PICK packed \in Packed : Emit(Pending(packed))
  BY DEF FinishClusters
<1>2. /\ pc = "clusters" /\ pc' = "header"
      /\ UNCHANGED <<articles, dirents, mimes, titleIdx, di, isEmpty, cluster>>
  BY DEF FinishClusters
<1>3. Clusters /\ cluster \in Seq(BlobItem)
  BY DEF IInv, Clusters
<1>4. clusterOffsets' \in Seq(Nat) /\ tmp' \in Seq(Cluster) /\ Len(clusterOffsets') = Len(tmp')
  BY <1>1, <1>3, PendingTyped, Emits
<1>5. Clusters'
  BY <1>2, <1>3, <1>4 DEF Clusters
<1>6. di' \in 1 .. Len(dirents) + 1
  BY <1>2 DEF IInv
<1> QED
  BY <1>2, <1>5, <1>6, SameStep DEF Titled

LEMMA LastSteps ==
  ASSUME IInv, FillHeader \/ Write
  PROVE  IInv'
<1>1. /\ pc \in Titled /\ pc' \in Titled
      /\ UNCHANGED <<articles, dirents, mimes, titleIdx, di, clusterVars>>
  BY DEF FillHeader, Write, Titled
<1>2. Clusters'
  BY <1>1, ClustersKept DEF IInv, Clusters
<1>3. di' \in 1 .. Len(dirents) + 1
  BY <1>1 DEF IInv
<1> QED
  BY <1>1, <1>2, <1>3, SameStep

-----------------------------------------------------------------------------

LEMMA InitOK == Init => IInv
<1> SUFFICES ASSUME Init PROVE IInv
  OBVIOUS
<1>1. /\ pc = "collect" /\ articles = <<>> /\ dirents = <<>> /\ mimes = <<>> /\ titleIdx = <<>>
      /\ clusterOffsets = <<>> /\ isEmpty = TRUE /\ di = 1 /\ cluster = <<>> /\ tmp = <<>>
  BY DEF Init
<1>2. ArticlesSound
  BY <1>1, CreatorAssumption DEF ArticlesSound, AidsOnce
<1>3. Entries
  BY <1>1 DEF Entries, EntriesOf, AidsOnce
<1>4. NoneLost /\ Ordered /\ Targets /\ Indices
  BY <1>1 DEF NoneLost, Ordered, Targets, Indices
<1>5. Titles /\ Clusters
  BY <1>1 DEF Titles, Clusters
<1> QED
  BY <1>1, <1>2, <1>3, <1>4, <1>5 DEF IInv, Places

LEMMA StepOK == IInv /\ [Next]_vars => IInv'
<1> SUFFICES ASSUME IInv, [Next]_vars PROVE IInv'
  OBVIOUS
<1>1. CASE UNCHANGED vars
  <2>1. UNCHANGED <<pc, articles, dirents, mimes, titleIdx, di, clusterVars>>
    BY <1>1 DEF vars
  <2>2. Clusters'
    BY <2>1, ClustersKept DEF IInv, Clusters
  <2>3. ArticlesSound' /\ Entries' /\ NoneLost' /\ Ordered' /\ Targets' /\ Indices' /\ Titles'
    BY <2>1 DEF IInv, ArticlesSound, Entries, EntriesOf, EntryOf, AidsOnce, NoneLost, Ordered,
                InAidOrder, Targets, Indices, Titles, Aids
  <2> QED
    BY <2>1, <2>2, <2>3 DEF IInv
<1>2. CASE Collect \/ TooManyMimes \/ EndCollect \/ Prune \/ SetIndex
  BY <1>2, CollectStep, TooManyMimesStep, EndCollectStep, PruneStep, SetIndexStep
<1>3. CASE Translate \/ InternalError \/ EndTranslate \/ CreateTitleIndex
  BY <1>3, TranslateStep, InternalErrorStep, EndTranslateStep, CreateTitleIndexStep
<1>4. CASE SkipRedirect \/ AddCompressed \/ AddUncompressed \/ FinishClusters
  BY <1>4, SkipRedirectStep, AddCompressedStep, AddUncompressedStep, FinishClustersStep
<1>5. CASE FillHeader \/ Write
  BY <1>5, LastSteps
<1> QED
  BY <1>1, <1>2, <1>3, <1>4, <1>5 DEF Next

LEMMA Invariant == Spec => []IInv
<1> QED
  BY InitOK, StepOK, PTL DEF Spec

LEMMA Kept ==
  ASSUME IInv
  PROVE  RedirectKeptIfTarget
<1> SUFFICES ASSUME pc \in {"title", "done"}, NEW k \in DOMAIN articles
             PROVE  articles[k].aid \in Aids(dirents)
                      <=> (articles[k].redirect => articles[k].redirectAid \in Aids(dirents))
  BY DEF RedirectKeptIfTarget
<1>1. /\ AidsOnce(articles) /\ NoneLost /\ Targets
      /\ \A i \in DOMAIN dirents : EntryOf(dirents[i], articles)
  BY DEF IInv, ArticlesSound, Entries, EntriesOf
<1>2. ASSUME articles[k].aid \in Aids(dirents), articles[k].redirect
      PROVE  articles[k].redirectAid \in Aids(dirents)
  <2>1. PICK i \in DOMAIN dirents : dirents[i].aid = articles[k].aid
    BY <1>2 DEF Aids
  <2>2. PICK q \in DOMAIN articles : OfArticle(dirents[i], articles[q])
    BY <1>1 DEF EntryOf
  <2>3. q = k
    BY <1>1, <2>1, <2>2 DEF OfArticle, AidsOnce
  <2>4. dirents[i].redirect /\ dirents[i].redirectAid = articles[k].redirectAid
    BY <1>2, <2>2, <2>3 DEF OfArticle
  <2> QED
    BY <1>1, <2>4 DEF Targets, Translated
<1>3. ASSUME articles[k].redirect => articles[k].redirectAid \in Aids(dirents)
      PROVE  articles[k].aid \in Aids(dirents)
  BY <1>1, <1>3 DEF NoneLost
<1> QED
  BY <1>2, <1>3

LEMMA Typed ==
  ASSUME IInv
  PROVE  TypeOK
<1>1. /\ pc \in Places /\ di \in 1 .. Len(dirents) + 1 /\ Indices /\ Titles /\ Clusters
      /\ articles \in Seq(Candidate) /\ Len(articles) =< MaxArticles
      /\ dirents \in Seq(Dirent) /\ Len(dirents) =< Len(articles)
      /\ \A i \in DOMAIN dirents : EntryOf(dirents[i], articles)
  BY DEF IInv, ArticlesSound, Entries, EntriesOf
<1>2. di \in 1 .. MaxArticles + 1
  BY <1>1, CreatorAssumption
<1>3. \A i \in DOMAIN articles : articles[i] \in Candidate
  BY <1>1
<1>4. ASSUME NEW i \in DOMAIN dirents
      PROVE  /\ dirents[i].mime \in 0 .. RedirectMime
             /\ dirents[i].redirect <=> dirents[i].mime = RedirectMime
             /\ dirents[i].idx \in 0 .. Len(articles)
  <2>1. dirents[i] \in Dirent
    BY <1>1
  <2>2. dirents[i].mime \in 0 .. RedirectMime /\ dirents[i].idx \in Nat
    BY <2>1 DEF Dirent
  <2>3. dirents[i].redirect <=> dirents[i].mime = RedirectMime
    BY <1>1 DEF EntryOf
  <2>4. dirents[i].idx =< Len(articles)
    BY <1>1, <2>2 DEF Indices
  <2> QED
    BY <1>1, <2>2, <2>3, <2>4
<1>5. \A i \in DOMAIN titleIdx : titleIdx[i] \in 0 .. Len(dirents) - 1
  BY <1>1 DEF Titles
<1>6. Len(clusterOffsets) = Len(tmp) /\ isEmpty \in BOOLEAN
  BY <1>1 DEF Clusters
<1> QED
  BY <1>1, <1>2, <1>3, <1>4, <1>5, <1>6 DEF TypeOK, Places

(* The entries of the file are those of the articles to keep: every        *)
(* article, and every redirect to one that has an entry; what create()     *)
(* relies on of their members holds as well.                               *)
THEOREM EntriesTheorem == Spec => []EntriesSound
<1>1. IInv => EntriesSound
  BY Typed, Kept DEF EntriesSound
<1> QED
  BY <1>1, Invariant, PTL

-----------------------------------------------------------------------------
(* What steps keep of all entries, and of their order.                     *)

(* Each entry after a step comes from one before it. *)
LEMMA Derived ==
  ASSUME IInv, [Next]_vars, ~Collect
  PROVE  /\ UNCHANGED <<articles, mimes>>
         /\ \A i \in DOMAIN dirents' : \E j \in DOMAIN dirents : SameEntry(dirents'[i], dirents[j])
<1> DEFINE From(s, t) == \A i \in DOMAIN t : \E j \in DOMAIN s : SameEntry(t[i], s[j])
<1>1. EntriesOf(dirents, articles) /\ articles \in Seq(Candidate)
  BY DEF IInv, ArticlesSound, Entries
<1>2. dirents \in Seq(Dirent) /\ AidsOnce(dirents)
  BY <1>1 DEF EntriesOf
<1>3. \A t : t = dirents => From(dirents, t)
  BY DEF SameEntry
<1>4. \A t \in Arrangements(dirents) : From(dirents, t)
  <2>1. ASSUME NEW t \in Arrangements(dirents) PROVE From(dirents, t)
    <3>1. \A i \in DOMAIN t : \E j \in DOMAIN dirents : t[i] = dirents[j]
      BY <1>1, ArrangedEntries
    <3> QED
      BY <3>1 DEF SameEntry
  <2> QED
    BY <2>1
<1>5. CASE UNCHANGED vars
  BY <1>3, <1>5 DEF vars
<1>6. CASE TooManyMimes \/ InternalError \/ CreateTitleIndex \/ SkipRedirect \/ FinishClusters
             \/ FillHeader \/ Write
  <2>1. UNCHANGED <<articles, mimes, dirents>>
    BY <1>6 DEF TooManyMimes, InternalError, CreateTitleIndex, SkipRedirect, FinishClusters,
                FillHeader, Write
  <2> QED
    BY <1>3, <2>1
<1>7. CASE EndCollect
  <2>1. dirents' \in Arrangements(dirents) /\ UNCHANGED <<articles, mimes>>
    BY <1>7 DEF EndCollect, Sortings
  <2> QED
    BY <1>4, <2>1
<1>8. CASE EndTranslate
  <2>1. dirents' \in Arrangements(dirents) /\ UNCHANGED <<articles, mimes>>
    BY <1>8 DEF EndTranslate, InUrlOrder, Sortings
  <2> QED
    BY <1>4, <2>1
<1>9. CASE Prune
  <2>1. /\ dirents' = RemoveAt(dirents, di) \/ dirents' = dirents
        /\ di \in DOMAIN dirents /\ UNCHANGED <<articles, mimes>>
    BY <1>9 DEF Prune
  <2>2. CASE dirents' = RemoveAt(dirents, di)
    <3>1. \A i \in DOMAIN dirents' : \E j \in DOMAIN dirents : dirents'[i] = dirents[j]
      BY <1>1, <2>1, <2>2, ErasedEntry
    <3> QED
      BY <2>1, <3>1 DEF SameEntry
  <2>3. CASE dirents' = dirents
    BY <1>3, <2>1, <2>3
  <2> QED
    BY <2>1, <2>2, <2>3
<1>10. CASE SetIndex
  <2>1. PICK sorted \in Arrangements(dirents) : dirents' \in Arrangements(Numbered(sorted))
    BY <1>10 DEF SetIndex, Sortings
  <2>2. UNCHANGED <<articles, mimes>>
    BY <1>10 DEF SetIndex
  <2>n. PICK n : n = Numbered(sorted)
    OBVIOUS
  <2>3. EntriesOf(sorted, articles) /\ From(dirents, sorted)
    BY <1>1, <1>4, ArrangedEntries
  <2>4. EntriesOf(n, articles)
    BY <2>3, <2>n, NumberedEntries
  <2>5. \A i \in DOMAIN dirents' : \E j \in DOMAIN n : dirents'[i] = n[j]
    BY <1>1, <2>1, <2>n, <2>4, ArrangedEntries
  <2>6. /\ DOMAIN n = DOMAIN sorted
        /\ \A i \in DOMAIN sorted : n[i] = [sorted[i] EXCEPT !.idx = i - 1]
    BY <2>n DEF Numbered
  <2>7. \A i \in DOMAIN sorted : SameEntry(n[i], sorted[i])
    <3>1. ASSUME NEW i \in DOMAIN sorted PROVE SameEntry(n[i], sorted[i])
      <4>1. sorted[i] \in Dirent
        BY <2>3 DEF EntriesOf
      <4> QED
        BY <2>6, <4>1 DEF Dirent, SameEntry
    <3> QED
      BY <3>1
  <2>8. ASSUME NEW i \in DOMAIN dirents'
        PROVE  \E j \in DOMAIN dirents : SameEntry(dirents'[i], dirents[j])
    <3>1. PICK k \in DOMAIN n : dirents'[i] = n[k]
      BY <2>5
    <3>2. PICK j \in DOMAIN dirents : SameEntry(sorted[k], dirents[j])
      BY <2>3, <2>6
    <3> QED
      BY <2>6, <2>7, <3>1, <3>2 DEF SameEntry
  <2> QED
    BY <2>2, <2>8
<1>11. CASE Translate
  <2>1. /\ di \in DOMAIN dirents /\ UNCHANGED <<articles, mimes>>
        /\ \/ dirents' = dirents
           \/ \E x : dirents' = [dirents EXCEPT ![di].redirectIndex = x]
    BY <1>11 DEF Translate
  <2>2. CASE dirents' = dirents
    BY <1>3, <2>1, <2>2
  <2>3. CASE \E x : dirents' = [dirents EXCEPT ![di].redirectIndex = x]
    <3>1. PICK x : dirents' = [dirents EXCEPT ![di].redirectIndex = x]
      BY <2>3
    <3>2. ASSUME NEW i \in DOMAIN dirents' PROVE i \in DOMAIN dirents /\ SameEntry(dirents'[i], dirents[i])
      <4>1. i \in DOMAIN dirents /\ dirents[i] \in Dirent
        BY <1>2, <3>1
      <4>2. dirents'[i] = IF i = di THEN [dirents[i] EXCEPT !.redirectIndex = x] ELSE dirents[i]
        BY <1>2, <2>1, <3>1, <4>1
      <4> QED
        BY <4>1, <4>2 DEF Dirent, SameEntry
    <3> QED
      BY <2>1, <3>2
  <2> QED
    BY <2>1, <2>2, <2>3
<1>12. CASE AddCompressed \/ AddUncompressed
  <2>1. /\ di \in DOMAIN dirents /\ UNCHANGED <<articles, mimes>>
        /\ \E c, b : dirents' = Placed(c, b)
    BY <1>12 DEF AddCompressed, AddUncompressed
  <2>2. PICK c, b : dirents' = [dirents EXCEPT ![di].cluster = c, ![di].blob = b]
    BY <2>1 DEF Placed
  <2>3. ASSUME NEW i \in DOMAIN dirents' PROVE i \in DOMAIN dirents /\ SameEntry(dirents'[i], dirents[i])
    <3>1. i \in DOMAIN dirents /\ dirents[i] \in Dirent
      BY <1>2, <2>2
    <3>2. dirents'[i] = IF i = di THEN [dirents[i] EXCEPT !.cluster = c, !.blob = b] ELSE dirents[i]
      BY <1>2, <2>1, <2>2, <3>1
    <3> QED
      BY <3>1, <3>2 DEF Dirent, SameEntry
  <2> QED
    BY <2>1, <2>3
<1> QED
  BY <1>5, <1>6, <1>7, <1>8, <1>9, <1>10, <1>11, <1>12 DEF Next

(* The articles and the mime types of entries. *)
LEMMA MimesStep ==
  ASSUME IInv, IInv', LInv, [Next]_vars
  PROVE  UrlsOnce(articles') /\ MimesRight'
<1>1. CASE ~Collect
  <2>1. /\ UNCHANGED <<articles, mimes>>
        /\ \A i \in DOMAIN dirents' : \E j \in DOMAIN dirents : SameEntry(dirents'[i], dirents[j])
    BY <1>1, Derived
  <2>2. ASSUME NEW i \in DOMAIN dirents', NEW k \in DOMAIN articles,
               dirents'[i].aid = articles[k].aid, ~dirents'[i].redirect
        PROVE  /\ dirents'[i].mime < Len(mimes)
               /\ mimes[dirents'[i].mime + 1] = articles[k].mime
    <3>1. PICK j \in DOMAIN dirents : SameEntry(dirents'[i], dirents[j])
      BY <2>1
    <3>2. dirents[j].aid = articles[k].aid /\ ~dirents[j].redirect /\ dirents'[i].mime = dirents[j].mime
      BY <2>2, <3>1 DEF SameEntry
    <3> QED
      BY <3>2 DEF LInv, MimesRight
  <2>3. MimesRight'
    BY <2>1, <2>2 DEF LInv, MimesRight
  <2> QED
    BY <2>1, <2>3 DEF LInv
<1>2. CASE Collect
  <2>1. PICK a \in Candidate :
          /\ New(a)
          /\ a.redirect \/ MimeFits(a.mime)
          /\ articles' = Append(articles, a)
          /\ dirents' = Append(dirents, NewDirent(a))
          /\ mimes' = IF a.redirect THEN mimes ELSE MimesWith(a.mime)
    BY <1>2 DEF Collect
  <2> DEFINE d == NewDirent(a)
             n == Len(dirents)
             m == Len(articles)
  <2>2. /\ articles \in Seq(Candidate) /\ dirents \in Seq(Dirent) /\ mimes \in Seq(Nat)
        /\ n \in Nat /\ m \in Nat /\ DOMAIN dirents = 1 .. n /\ DOMAIN articles = 1 .. m
        /\ \A i \in 1 .. n : EntryOf(dirents[i], articles)
        /\ UrlsOnce(articles) /\ MimesRight
    BY DEF IInv, LInv, ArticlesSound, Entries, EntriesOf, Clusters
  <2>3. a \in Article /\ a.mime # 0
    BY CreatorAssumption, TextAssumption
  <2>4. d \in Dirent /\ OfArticle(d, a)
    BY <2>1, <2>2, <2>3, NewEntry
  <2>5. a.mime \in Nat /\ a.ns \in Nat /\ a.url \in Nat
    BY <2>3 DEF Article
  <2>m. PICK all : all = MimesWith(a.mime)
    OBVIOUS
  <2>6. /\ all \in Seq(Nat) /\ \E i \in DOMAIN all : all[i] = a.mime
    BY <2>2, <2>5, <2>m, MimesFound
  <2>7. ~a.redirect => d.mime + 1 \in DOMAIN all /\ all[d.mime + 1] = a.mime
    <3>1. PICK c : c = CHOOSE i \in DOMAIN all : all[i] = a.mime
      OBVIOUS
    <3>2. c \in DOMAIN all /\ all[c] = a.mime
      BY <2>6, <3>1, Zenon
    <3>3. ~a.redirect => d.mime = c - 1
      BY <2>m, <3>1 DEF NewDirent
    <3>4. c \in Nat
      BY <2>6, <3>2
    <3>5. ~a.redirect => d.mime + 1 = c
      BY <3>3, <3>4
    <3> QED
      BY <3>2, <3>5
  <2>8. all = mimes \/ all = Append(mimes, a.mime)
    BY <2>m DEF MimesWith
  <2>9. /\ \A i \in DOMAIN mimes' : mimes'[i] # 0
        /\ mimes' \in Seq(Nat) /\ Len(mimes) =< Len(mimes')
        /\ \A i \in DOMAIN mimes : i \in DOMAIN mimes' /\ mimes'[i] = mimes[i]
    <3>1. mimes' = mimes \/ mimes' = Append(mimes, a.mime)
      BY <2>1, <2>8, <2>m
    <3>2. \A i \in DOMAIN mimes : mimes[i] # 0
      BY <2>2 DEF MimesRight
    <3>3. CASE mimes' = mimes
      BY <2>2, <3>2, <3>3
    <3>4. CASE mimes' = Append(mimes, a.mime)
      BY <2>2, <2>3, <2>5, <3>2, <3>4
    <3> QED
      BY <3>1, <3>3, <3>4
  <2> HIDE DEF d, n, m
  <2>10. /\ Len(articles') = m + 1 /\ DOMAIN articles' = 1 .. m + 1
         /\ articles'[m + 1] = a /\ \A i \in 1 .. m : articles'[i] = articles[i]
    BY <2>1, <2>2 DEF m
  <2>11. /\ Len(dirents') = n + 1 /\ DOMAIN dirents' = 1 .. n + 1
         /\ dirents'[n + 1] = d /\ \A i \in 1 .. n : dirents'[i] = dirents[i]
    BY <2>1, <2>2, <2>4 DEF n, d
  <2>12. \A i \in 1 .. m : articles[i].aid # a.aid /\ ~(articles[i].ns = a.ns /\ articles[i].url = a.url)
    BY <2>1, <2>2 DEF New
  <2>13. UrlsOnce(articles')
    <3>1. \A i \in 1 .. m : ~(articles'[i].ns = articles'[m + 1].ns /\ articles'[i].url = articles'[m + 1].url)
      BY <2>10, <2>12
    <3>2. \A i, j \in 1 .. m : articles'[i].ns = articles'[j].ns /\ articles'[i].url = articles'[j].url => i = j
      BY <2>2, <2>10 DEF UrlsOnce
    <3> QED
      BY <2>2, <2>10, <3>1, <3>2 DEF UrlsOnce
  <2>14. ASSUME NEW i \in 1 .. n + 1, NEW k \in 1 .. m + 1,
                dirents'[i].aid = articles'[k].aid, ~dirents'[i].redirect
         PROVE  /\ dirents'[i].mime < Len(mimes')
                /\ mimes'[dirents'[i].mime + 1] = articles'[k].mime
    <3>1. CASE i = n + 1
      <4>1. dirents'[i] = d /\ d.aid = a.aid /\ ~a.redirect
        BY <2>4, <2>11, <2>14, <3>1 DEF OfArticle
      <4>2. k = m + 1
        <5>1. k \in 1 .. m => articles'[k].aid # a.aid
          BY <2>10, <2>12
        <5>2. articles'[k].aid = a.aid
          BY <2>14, <4>1
        <5> QED
          BY <2>2, <5>1, <5>2
      <4>3. mimes' = all /\ d.mime \in Nat
        BY <2>1, <2>4, <2>m, <4>1, CreatorAssumption DEF Dirent
      <4> QED
        BY <2>6, <2>7, <2>10, <4>1, <4>2, <4>3
    <3>2. CASE i # n + 1
      <4>1. i \in 1 .. n /\ dirents'[i] = dirents[i]
        BY <2>2, <2>11, <3>2
      <4>2. PICK q \in 1 .. m : OfArticle(dirents[i], articles[q])
        BY <2>2, <4>1 DEF EntryOf
      <4>3. k \in 1 .. m /\ articles'[k] = articles[k]
        <5>1. dirents[i].aid = articles[q].aid /\ articles[q].aid # a.aid
          BY <2>12, <4>2 DEF OfArticle
        <5>2. articles'[k].aid # a.aid
          BY <2>14, <4>1, <5>1
        <5>3. k # m + 1
          BY <2>10, <5>2
        <5> QED
          BY <2>2, <2>10, <5>3
      <4>4. dirents[i].mime < Len(mimes) /\ mimes[dirents[i].mime + 1] = articles[k].mime
        BY <2>2, <2>14, <4>1, <4>3 DEF MimesRight
      <4>5. dirents[i].mime \in Nat
        <5>1. dirents[i] \in Dirent
          BY <2>2, <4>1
        <5> QED
          BY <5>1, CreatorAssumption DEF Dirent
      <4>6. dirents[i].mime + 1 \in DOMAIN mimes /\ Len(mimes) \in Nat /\ Len(mimes') \in Nat
        <5>1. DOMAIN mimes = 1 .. Len(mimes) /\ Len(mimes) \in Nat /\ Len(mimes') \in Nat
          BY <2>2, <2>9
        <5> QED
          BY <4>4, <4>5, <5>1
      <4>7. mimes'[dirents[i].mime + 1] = mimes[dirents[i].mime + 1]
        <5>1. PICK x : x = dirents[i].mime + 1
          OBVIOUS
        <5>2. mimes'[x] = mimes[x]
          BY <2>9, <4>6, <5>1, Zenon
        <5> QED
          BY <5>1, <5>2
      <4>8. dirents[i].mime < Len(mimes')
        BY <2>9, <4>4, <4>5, <4>6
      <4> QED
        BY <4>1, <4>3, <4>4, <4>7, <4>8
    <3> QED
      BY <3>1, <3>2
  <2>15. MimesRight'
    BY <2>9, <2>10, <2>11, <2>14 DEF MimesRight
  <2> QED
    BY <2>13, <2>15
<1> QED
  BY <1>1, <1>2

(* What a step of createClusters and after keeps of an entry. *)
Settled(d, e) ==
  SameEntry(d, e) /\ d.idx = e.idx /\ d.redirectIndex = e.redirectIndex

LEMMA PlacedFacts ==
  ASSUME IInv, di \in DOMAIN dirents, NEW c, NEW b, dirents' = Placed(c, b)
  PROVE  /\ DOMAIN dirents' = DOMAIN dirents
         /\ \A i \in DOMAIN dirents :
              /\ Settled(dirents'[i], dirents[i])
              /\ i # di => dirents'[i] = dirents[i]
         /\ dirents'[di].cluster = c /\ dirents'[di].blob = b
<1>1. dirents \in Seq(Dirent)
  BY DEF IInv, Entries, EntriesOf
<1>2. dirents' = [dirents EXCEPT ![di].cluster = c, ![di].blob = b]
  BY DEF Placed
<1>3. \A i \in DOMAIN dirents :
        dirents'[i] = IF i = di THEN [dirents[i] EXCEPT !.cluster = c, !.blob = b] ELSE dirents[i]
  BY <1>1, <1>2
<1>4. ASSUME NEW i \in DOMAIN dirents
      PROVE  /\ Settled(dirents'[i], dirents[i])
             /\ i # di => dirents'[i] = dirents[i]
             /\ i = di => dirents'[i].cluster = c /\ dirents'[i].blob = b
  <2>1. dirents[i] \in Dirent
    BY <1>1
  <2> QED
    BY <1>3, <2>1 DEF Dirent, Settled, SameEntry
<1> QED
  BY <1>1, <1>2, <1>4

LEMMA LaterEntries ==
  ASSUME IInv, [Next]_vars, pc \in Translated
  PROVE  /\ pc' \in Translated /\ UNCHANGED articles
         /\ DOMAIN dirents' = DOMAIN dirents
         /\ \A i \in DOMAIN dirents : Settled(dirents'[i], dirents[i])
         /\ pc \in Titled => pc' \in Titled /\ UNCHANGED titleIdx
<1>1. CASE AddCompressed
  <2>1. /\ di \in DOMAIN dirents /\ dirents' = Placed(Len(clusterOffsets), Len(cluster))
        /\ pc = "clusters" /\ UNCHANGED <<pc, articles, titleIdx>>
    BY <1>1 DEF AddCompressed
  <2> QED
    BY <2>1, PlacedFacts DEF Translated, Titled
<1>2. CASE AddUncompressed
  <2>1. /\ di \in DOMAIN dirents
        /\ \E packed \in Packed :
             dirents' = Placed(Len(clusterOffsets) + Len(Pending(packed)), 0)
        /\ pc = "clusters" /\ UNCHANGED <<pc, articles, titleIdx>>
    BY <1>2 DEF AddUncompressed
  <2>2. PICK packed \in Packed :
          dirents' = Placed(Len(clusterOffsets) + Len(Pending(packed)), 0)
    BY <2>1
  <2> QED
    BY <2>1, <2>2, PlacedFacts DEF Translated, Titled
<1>3. CASE CreateTitleIndex
  BY <1>3 DEF CreateTitleIndex, Translated, Titled, Settled, SameEntry
<1>4. CASE SkipRedirect \/ FinishClusters \/ FillHeader \/ Write \/ UNCHANGED vars
  <2>1. pc' \in Titled \cup {pc} /\ UNCHANGED <<articles, dirents, titleIdx>>
    BY <1>4 DEF SkipRedirect, FinishClusters, FillHeader, Write, vars, Titled
  <2>2. Titled \subseteq Translated
    BY DEF Titled, Translated
  <2> QED
    BY <2>1, <2>2 DEF Settled, SameEntry
<1>5. CASE Collect \/ TooManyMimes \/ EndCollect \/ Prune \/ SetIndex
           \/ Translate \/ InternalError \/ EndTranslate
  <2>1. pc \in {"collect", "prune", "translate"}
    BY <1>5 DEF Collect, TooManyMimes, EndCollect, Prune, SetIndex, Translate, InternalError,
                EndTranslate
  <2> QED
    BY <2>1 DEF Translated
<1> QED
  BY <1>1, <1>2, <1>3, <1>4, <1>5 DEF Next

(* How create() comes to translate, and past it. *)
LEMMA Earlier ==
  ASSUME [Next]_vars, pc \notin Translated
  PROVE  /\ pc' \in Translated => EndTranslate
         /\ pc' = "translate" => SetIndex \/ Translate \/ UNCHANGED vars
<1>1. CASE UNCHANGED vars
  BY <1>1 DEF vars
<1>2. CASE CreateTitleIndex \/ SkipRedirect \/ AddCompressed \/ AddUncompressed \/ FinishClusters
           \/ FillHeader \/ Write
  <2>1. pc \in {"title", "clusters", "header", "write"}
    BY <1>2 DEF CreateTitleIndex, SkipRedirect, AddCompressed, AddUncompressed, FinishClusters,
                FillHeader, Write
  <2> QED
    BY <2>1 DEF Translated
<1>3. CASE Collect \/ TooManyMimes \/ EndCollect \/ Prune \/ InternalError
  <2>1. pc' \in {"collect", "refused", "prune", "failed"}
    BY <1>3 DEF Collect, TooManyMimes, EndCollect, Prune, InternalError
  <2> QED
    BY <2>1 DEF Translated
<1>4. CASE SetIndex \/ Translate
  <2>1. pc' = "translate"
    BY <1>4 DEF SetIndex, Translate
  <2> QED
    BY <1>4, <2>1 DEF Translated
<1>5. CASE EndTranslate
  BY <1>5 DEF EndTranslate
<1> QED
  BY <1>1, <1>2, <1>3, <1>4, <1>5 DEF Next

(* Numbers below n that only grow are 0 .. n - 1. *)
LEMMA Increasing ==
  ASSUME NEW n \in Nat, NEW f \in [1 .. n -> Nat],
         \A i \in 1 .. n : f[i] < n,
         \A i, j \in 1 .. n : i < j => f[i] < f[j]
  PROVE  \A i \in 1 .. n : f[i] = i - 1
<1> DEFINE Low == {i \in 1 .. n : f[i] < i - 1}
           Far == {k \in 0 .. n - 1 : f[n - k] > (n - k) - 1}
<1>1. Low = {}
  <2> SUFFICES ASSUME Low # {} PROVE FALSE
    OBVIOUS
  <2>1. Low \subseteq Nat
    OBVIOUS
  <2>2. PICK i \in Low : \A m \in Low : i =< m
    BY <2>1, Least
  <2>3. i \in 1 .. n /\ f[i] < i - 1 /\ f[i] \in Nat
    OBVIOUS
  <2>4. i - 1 \in 1 .. n /\ i - 1 \notin Low
    BY <2>2, <2>3
  <2>5. ~(f[i - 1] < (i - 1) - 1) /\ f[i - 1] < f[i] /\ f[i - 1] \in Nat
    BY <2>3, <2>4
  <2> QED
    BY <2>3, <2>5
<1>2. Far = {}
  <2> SUFFICES ASSUME Far # {} PROVE FALSE
    OBVIOUS
  <2>1. Far \subseteq Nat
    OBVIOUS
  <2>2. PICK k \in Far : \A m \in Far : k =< m
    BY <2>1, Least
  <2>3. k \in 0 .. n - 1 /\ f[n - k] > (n - k) - 1 /\ n - k \in 1 .. n /\ f[n - k] \in Nat
    OBVIOUS
  <2>4. k # 0
    BY <2>3
  <2>5. k - 1 \in 0 .. n - 1 /\ n - (k - 1) \in 1 .. n /\ ~(k =< k - 1)
    BY <2>3, <2>4
  <2>7. k - 1 \notin Far
    BY <2>2, <2>5
  <2>6. ~(f[n - (k - 1)] > (n - (k - 1)) - 1) /\ f[n - k] < f[n - (k - 1)] /\ f[n - (k - 1)] \in Nat
    BY <2>3, <2>5, <2>7
  <2> QED
    BY <2>3, <2>6
<1>3. ASSUME NEW i \in 1 .. n PROVE f[i] = i - 1
  <2>1. n - i \in 0 .. n - 1 /\ n - (n - i) = i /\ f[i] \in Nat
    OBVIOUS
  <2>2. ~(f[i] < i - 1)
    BY <1>1
  <2>3. ~(f[i] > i - 1)
    BY <1>2, <2>1
  <2> QED
    BY <2>1, <2>2, <2>3
<1> QED
  BY <1>3

(* No two entries have the same namespace and url. *)
LEMMA EntriesApart ==
  ASSUME IInv, UrlsOnce(articles), NEW s, EntriesOf(s, articles),
         NEW i \in DOMAIN s, NEW j \in DOMAIN s, i # j
  PROVE  /\ s[i].ns \in Nat /\ s[i].url \in Nat /\ s[j].ns \in Nat /\ s[j].url \in Nat
         /\ CompareUrl(s[i], s[j]) \/ CompareUrl(s[j], s[i])
         /\ ~(CompareUrl(s[i], s[j]) /\ CompareUrl(s[j], s[i]))
<1>1. /\ s \in Seq(Dirent) /\ AidsOnce(s) /\ EntryOf(s[i], articles) /\ EntryOf(s[j], articles)
  BY DEF EntriesOf
<1>2. s[i] \in Dirent /\ s[j] \in Dirent
  BY <1>1
<1>3. /\ s[i].ns \in Nat /\ s[i].url \in Nat /\ s[j].ns \in Nat /\ s[j].url \in Nat
  BY <1>2 DEF Dirent
<1>4. PICK k \in DOMAIN articles : OfArticle(s[i], articles[k])
  BY <1>1 DEF EntryOf
<1>5. PICK q \in DOMAIN articles : OfArticle(s[j], articles[q])
  BY <1>1 DEF EntryOf
<1>6. ~(s[i].ns = s[j].ns /\ s[i].url = s[j].url)
  <2> SUFFICES ASSUME s[i].ns = s[j].ns, s[i].url = s[j].url PROVE FALSE
    OBVIOUS
  <2>1. k = q
    BY <1>4, <1>5 DEF OfArticle, UrlsOnce
  <2>2. s[i].aid = s[j].aid
    BY <1>4, <1>5, <2>1 DEF OfArticle
  <2> QED
    BY <1>1, <2>2 DEF AidsOnce
<1> QED
  BY <1>3, <1>6 DEF CompareUrl

LEMMA NotBefore ==
  ASSUME NEW d, d.ns \in Nat, d.url \in Nat
  PROVE  ~CompareUrl(d, d)
BY DEF CompareUrl

LEMMA SetIndexUrl ==
  ASSUME IInv, UrlsOnce(articles), SetIndex
  PROVE  UrlOrder'
<1>1. PICK sorted \in Sortings(dirents, CompareUrl) :
        dirents' \in Sortings(Numbered(sorted), CompareAid)
  BY DEF SetIndex
<1>2. pc' = "translate"
  BY DEF SetIndex
<1>3. articles \in Seq(Candidate) /\ EntriesOf(dirents, articles)
  BY DEF IInv, ArticlesSound, Entries
<1>4. /\ sorted \in Arrangements(dirents)
      /\ \A i, j \in DOMAIN sorted : i < j => ~CompareUrl(sorted[j], sorted[i])
  BY DEF Sortings, Sorted
<1>5. EntriesOf(sorted, articles) /\ sorted \in Seq(Dirent)
  BY <1>3, <1>4, ArrangedEntries DEF EntriesOf
<1>n. PICK n : n = Numbered(sorted)
  OBVIOUS
<1>6. EntriesOf(n, articles)
  BY <1>5, <1>n, NumberedEntries
<1>7. dirents' \in Arrangements(n)
  BY <1>1, <1>n DEF Sortings
<1>8. \A i \in DOMAIN dirents' : \E j \in DOMAIN n : dirents'[i] = n[j]
  BY <1>3, <1>6, <1>7, ArrangedEntries
<1>9. DOMAIN n = DOMAIN sorted /\ DOMAIN sorted \subseteq Nat
  BY <1>5, <1>n DEF Numbered
<1>10. ASSUME NEW p \in DOMAIN n
       PROVE  n[p].ns = sorted[p].ns /\ n[p].url = sorted[p].url /\ n[p].idx = p - 1
  <2>1. sorted[p] \in Dirent /\ n[p] = [sorted[p] EXCEPT !.idx = p - 1]
    BY <1>5, <1>9, <1>10, <1>n DEF Numbered
  <2> QED
    BY <2>1 DEF Dirent
<1>11. ASSUME NEW i \in DOMAIN dirents', NEW j \in DOMAIN dirents',
              CompareUrl(dirents'[i], dirents'[j])
       PROVE  dirents'[i].idx < dirents'[j].idx
  <2>1. PICK p \in DOMAIN n : dirents'[i] = n[p]
    BY <1>8
  <2>2. PICK q \in DOMAIN n : dirents'[j] = n[q]
    BY <1>8
  <2>3. CompareUrl(sorted[p], sorted[q])
    BY <1>10, <1>11, <2>1, <2>2 DEF CompareUrl
  <2>4. ~(q < p)
    BY <1>4, <1>9, <2>3
  <2>5. p # q
    <3>1. ~CompareUrl(sorted[p], sorted[p])
      <4>1. \A d \in Dirent : d.ns \in Nat /\ d.url \in Nat
        BY DEF Dirent
      <4>2. sorted[p] \in Dirent
        BY <1>5, <1>9
      <4>3. sorted[p].ns \in Nat /\ sorted[p].url \in Nat
        BY <4>1, <4>2
      <4> QED
        BY <4>3, NotBefore
    <3> QED
      BY <2>3, <3>1
  <2>6. p \in Nat /\ q \in Nat
    BY <1>9
  <2> QED
    BY <1>10, <2>1, <2>2, <2>4, <2>5, <2>6
<1> QED
  BY <1>2, <1>11 DEF UrlOrder, CompareUrl, Translated

LEMMA TranslateUrl ==
  ASSUME IInv, UrlOrder, Translate
  PROVE  UrlOrder'
<1>1. /\ pc = "translate" /\ pc' = "translate" /\ di \in DOMAIN dirents
      /\ dirents' = IF dirents[di].redirect
                    THEN [dirents EXCEPT ![di].redirectIndex =
                            RedirectIndex(dirents[di].redirectAid)]
                    ELSE dirents
  BY DEF Translate
<1>2. dirents \in Seq(Dirent)
  BY DEF IInv, Entries, EntriesOf
<1>x. PICK x : x = RedirectIndex(dirents[di].redirectAid)
  OBVIOUS
<1>3. /\ DOMAIN dirents' = DOMAIN dirents
      /\ \A i \in DOMAIN dirents :
           dirents'[i] = dirents[i] \/ dirents'[i] = [dirents[i] EXCEPT !.redirectIndex = x]
  BY <1>1, <1>2, <1>x
<1>4. ASSUME NEW i \in DOMAIN dirents
      PROVE  /\ dirents'[i].ns = dirents[i].ns /\ dirents'[i].url = dirents[i].url
             /\ dirents'[i].idx = dirents[i].idx
  <2>1. dirents[i] \in Dirent
    BY <1>2
  <2> QED
    BY <1>3, <2>1 DEF Dirent
<1> QED
  BY <1>1, <1>3, <1>4 DEF UrlOrder, CompareUrl, Translated

(* Sorted by url, the entries stand where their indexes say. *)
LEMMA EndTranslateUrl ==
  ASSUME IInv, UrlsOnce(articles), UrlOrder, EndTranslate
  PROVE  UrlOrder'
<1>1. /\ pc = "translate" /\ pc' = "title"
      /\ dirents' \in Arrangements(dirents)
      /\ \A i, j \in DOMAIN dirents' : i < j => ~CompareUrl(dirents'[j], dirents'[i])
  BY DEF EndTranslate, InUrlOrder, Sortings, Sorted
<1>2. articles \in Seq(Candidate) /\ EntriesOf(dirents, articles) /\ Indices
  BY DEF IInv, ArticlesSound, Entries
<1>s. PICK s : s = dirents'
  OBVIOUS
<1>3. /\ EntriesOf(s, articles) /\ Len(s) = Len(dirents)
      /\ \A i \in DOMAIN s : \E j \in DOMAIN dirents : s[i] = dirents[j]
  BY <1>1, <1>2, <1>s, ArrangedEntries
<1>4. s \in Seq(Dirent) /\ Len(s) \in Nat /\ DOMAIN s = 1 .. Len(s)
  BY <1>3 DEF EntriesOf
<1>5. ASSUME NEW i \in DOMAIN s, NEW j \in DOMAIN s, i < j
      PROVE  CompareUrl(s[i], s[j])
  <2>1. ~CompareUrl(s[j], s[i])
    BY <1>1, <1>5, <1>s
  <2>2. i # j
    BY <1>4, <1>5
  <2>3. CompareUrl(s[i], s[j]) \/ CompareUrl(s[j], s[i])
    BY ONLY IInv, UrlsOnce(articles), <1>3, <2>2, EntriesApart
  <2> QED
    BY <2>1, <2>3
<1>6. ASSUME NEW i \in DOMAIN s, NEW j \in DOMAIN s, i < j
      PROVE  s[i].idx < s[j].idx
  <2>1. PICK p \in DOMAIN dirents : s[i] = dirents[p]
    BY <1>3
  <2>2. PICK q \in DOMAIN dirents : s[j] = dirents[q]
    BY <1>3
  <2>3. CompareUrl(dirents[p], dirents[q])
    BY <1>5, <1>6, <2>1, <2>2
  <2> QED
    BY <1>1, <2>1, <2>2, <2>3 DEF UrlOrder
<1>7. \A i \in DOMAIN s : s[i].idx \in Nat /\ s[i].idx < Len(s)
  <2>1. \A i \in DOMAIN s : s[i] \in Dirent
    BY <1>4
  <2>2. \A d \in Dirent : d.idx \in Nat
    BY DEF Dirent
  <2>3. \A i \in DOMAIN dirents : dirents[i].idx < Len(dirents)
    BY <1>1, <1>2 DEF Indices
  <2> QED
    BY <1>3, <2>1, <2>2, <2>3
<1>8. \A i \in DOMAIN s : s[i].idx = i - 1
  <2> DEFINE f == [i \in 1 .. Len(s) |-> s[i].idx]
  <2>1. f \in [1 .. Len(s) -> Nat] /\ \A i \in 1 .. Len(s) : f[i] = s[i].idx
    BY <1>4, <1>7
  <2>2. /\ \A i \in 1 .. Len(s) : f[i] < Len(s)
        /\ \A i, j \in 1 .. Len(s) : i < j => f[i] < f[j]
    BY <1>4, <1>6, <1>7, <2>1
  <2> HIDE DEF f
  <2>3. \A i \in 1 .. Len(s) : f[i] = i - 1
    BY ONLY <1>4, <2>1, <2>2, Increasing
  <2> QED
    BY <1>4, <2>1, <2>3
<1>9. UrlOrder' <=> /\ \A i, j \in DOMAIN s : i < j => CompareUrl(s[i], s[j])
                    /\ \A i \in DOMAIN s : s[i].idx = i - 1
  BY <1>1, <1>s DEF UrlOrder, CompareUrl, Translated
<1> QED
  BY <1>5, <1>8, <1>9

LEMMA UrlStep ==
  ASSUME IInv, LInv, [Next]_vars
  PROVE  UrlOrder'
<1>1. UrlsOnce(articles) /\ UrlOrder
  BY DEF LInv
<1>2. CASE pc \in Translated
  <2>1. /\ pc' \in Translated /\ DOMAIN dirents' = DOMAIN dirents
        /\ \A i \in DOMAIN dirents : Settled(dirents'[i], dirents[i])
    BY <1>2, LaterEntries
  <2>2. \A i \in DOMAIN dirents :
          /\ dirents'[i].ns = dirents[i].ns /\ dirents'[i].url = dirents[i].url
          /\ dirents'[i].idx = dirents[i].idx
    BY <2>1 DEF Settled, SameEntry
  <2> QED
    BY <1>1, <1>2, <2>1, <2>2 DEF UrlOrder, CompareUrl, Translated
<1>3. CASE pc \notin Translated
  <2>1. /\ pc' \in Translated => EndTranslate
        /\ pc' = "translate" => SetIndex \/ Translate \/ UNCHANGED vars
    BY <1>3, Earlier
  <2>2. CASE UNCHANGED vars
    BY <1>1, <2>2 DEF vars, UrlOrder, CompareUrl
  <2>3. CASE pc' \notin Translated /\ pc' # "translate"
    BY <2>3 DEF UrlOrder, Translated
  <2> QED
    BY <1>1, <2>1, <2>2, <2>3, SetIndexUrl, TranslateUrl, EndTranslateUrl
<1> QED
  BY <1>2, <1>3

LEMMA TranslateRedirects ==
  ASSUME IInv, Redirected, Translate
  PROVE  Redirected'
<1> DEFINE d == dirents[di]
<1>1. /\ pc = "translate" /\ pc' = "translate" /\ di \in DOMAIN dirents /\ di' = di + 1
      /\ d.redirect => Found(d.redirectAid)
      /\ dirents' = IF d.redirect
                    THEN [dirents EXCEPT ![di].redirectIndex = RedirectIndex(d.redirectAid)]
                    ELSE dirents
  BY DEF Translate
<1>2. dirents \in Seq(Dirent) /\ InAidOrder(dirents) /\ di \in Nat
  BY <1>1 DEF IInv, Entries, EntriesOf, Ordered
<1>x. PICK x : x = RedirectIndex(d.redirectAid)
  OBVIOUS
<1>b. PICK b : b = LowerBound(d.redirectAid)
  OBVIOUS
<1>3. d.redirect => b \in DOMAIN dirents /\ dirents[b].aid = d.redirectAid /\ dirents[b].idx = x
  <2>1. d \in Dirent
    BY <1>1, <1>2
  <2>2. d.redirectAid \in Nat
    BY <2>1 DEF Dirent
  <2>3. Found(d.redirectAid) => b \in DOMAIN dirents /\ dirents[b].aid = d.redirectAid
    BY <1>2, <1>b, <2>2, Searches
  <2> QED
    BY <1>1, <1>b, <1>x, <2>3 DEF RedirectIndex
<1>4. /\ DOMAIN dirents' = DOMAIN dirents
      /\ \A i \in DOMAIN dirents : i # di \/ ~d.redirect => dirents'[i] = dirents[i]
      /\ d.redirect => dirents'[di] = [d EXCEPT !.redirectIndex = x]
  BY <1>1, <1>2, <1>x
<1>5. /\ \A i \in DOMAIN dirents :
           /\ dirents'[i].aid = dirents[i].aid /\ dirents'[i].idx = dirents[i].idx
           /\ dirents'[i].redirectAid = dirents[i].redirectAid
           /\ dirents'[i].redirect = dirents[i].redirect
           /\ i # di => dirents'[i].redirectIndex = dirents[i].redirectIndex
      /\ d.redirect => dirents'[di].redirectIndex = x
  <2>1. \A i \in DOMAIN dirents : dirents[i] \in Dirent
    BY <1>2
  <2>2. \A i \in DOMAIN dirents :
          dirents'[i] = dirents[i] \/ (i = di /\ dirents'[i] = [dirents[i] EXCEPT !.redirectIndex = x])
    BY <1>4
  <2>3. ASSUME NEW i \in DOMAIN dirents
        PROVE  /\ dirents'[i].aid = dirents[i].aid /\ dirents'[i].idx = dirents[i].idx
               /\ dirents'[i].redirectAid = dirents[i].redirectAid
               /\ dirents'[i].redirect = dirents[i].redirect
               /\ i # di => dirents'[i].redirectIndex = dirents[i].redirectIndex
    <3>1. dirents[i] \in Dirent
      BY <2>1
    <3> HIDE DEF d
    <3> QED
      BY <2>2, <3>1 DEF Dirent
  <2>4. ASSUME d.redirect PROVE dirents'[di].redirectIndex = x
    <3>1. dirents'[di] = [d EXCEPT !.redirectIndex = x] /\ d \in Dirent
      BY <1>1, <1>4, <2>1, <2>4
    <3> HIDE DEF d
    <3> QED
      BY <3>1 DEF Dirent
  <2> QED
    BY <2>3, <2>4
<1>6. ASSUME NEW i \in DOMAIN dirents, dirents[i].redirect, i < di + 1
      PROVE  \E j \in DOMAIN dirents :
               dirents'[j].aid = dirents'[i].redirectAid /\ dirents'[j].idx = dirents'[i].redirectIndex
  <2>1. CASE i = di
    BY <1>3, <1>5, <1>6, <2>1
  <2>2. CASE i # di
    <3>1. i < di
      BY <1>2, <1>6, <2>2
    <3>2. PICK j \in DOMAIN dirents :
            dirents[j].aid = dirents[i].redirectAid /\ dirents[j].idx = dirents[i].redirectIndex
      BY <1>1, <1>6, <3>1 DEF Redirected
    <3> QED
      BY <1>5, <2>2, <3>2
  <2> QED
    BY <2>1, <2>2
<1> QED
  BY <1>1, <1>4, <1>5, <1>6 DEF Redirected, Translated

LEMMA RedirectedStep ==
  ASSUME IInv, LInv, [Next]_vars
  PROVE  Redirected'
<1>1. Redirected
  BY DEF LInv
<1>2. dirents \in Seq(Dirent) /\ EntriesOf(dirents, articles) /\ di \in 1 .. Len(dirents) + 1
      /\ articles \in Seq(Candidate)
  BY DEF IInv, Entries, EntriesOf, ArticlesSound
<1>3. CASE pc \in Translated
  <2>1. /\ pc' \in Translated /\ DOMAIN dirents' = DOMAIN dirents
        /\ \A i \in DOMAIN dirents : Settled(dirents'[i], dirents[i])
    BY <1>3, LaterEntries
  <2>2. \A i \in DOMAIN dirents :
          /\ dirents'[i].aid = dirents[i].aid /\ dirents'[i].idx = dirents[i].idx
          /\ dirents'[i].redirectAid = dirents[i].redirectAid
          /\ dirents'[i].redirect = dirents[i].redirect
          /\ dirents'[i].redirectIndex = dirents[i].redirectIndex
    BY <2>1 DEF Settled, SameEntry
  <2> QED
    BY <1>1, <1>3, <2>1, <2>2 DEF Redirected
<1>4. CASE EndTranslate
  <2>1. pc = "translate" /\ di \notin DOMAIN dirents /\ dirents' \in Arrangements(dirents)
    BY <1>4 DEF EndTranslate, InUrlOrder, Sortings
  <2>2. \A i \in DOMAIN dirents : i < di
    BY <1>2, <2>1
  <2>3. /\ \A i \in DOMAIN dirents' : \E j \in DOMAIN dirents : dirents'[i] = dirents[j]
        /\ \A j \in DOMAIN dirents : \E i \in DOMAIN dirents' : dirents'[i] = dirents[j]
    <3>s. PICK s : s = dirents'
      OBVIOUS
    <3>1. dirents \in Seq(Dirent) /\ s \in Arrangements(dirents)
      BY <1>2, <2>1, <3>s
    <3>2. /\ s \in Seq(Dirent) /\ Len(s) = Len(dirents)
          /\ \A i \in 1 .. Len(dirents) : \E j \in 1 .. Len(dirents) : s[i] = dirents[j]
          /\ \A j \in 1 .. Len(dirents) : \E i \in 1 .. Len(dirents) : s[i] = dirents[j]
      <4>1. s \in Seq(Dirent) /\ Len(s) = Len(dirents)
        BY ONLY <3>1, Arranged
      <4>2. \A i \in 1 .. Len(dirents) : \E j \in 1 .. Len(dirents) : s[i] = dirents[j]
        BY ONLY <3>1, Arranged
      <4>3. \A j \in 1 .. Len(dirents) : \E i \in 1 .. Len(dirents) : s[i] = dirents[j]
        BY ONLY <3>1, Arranged
      <4> QED
        BY <4>1, <4>2, <4>3
    <3>3. DOMAIN s = 1 .. Len(dirents) /\ DOMAIN dirents = 1 .. Len(dirents)
      BY <3>1, <3>2
    <3> QED
      BY <3>s, <3>2, <3>3
  <2> QED
    BY <1>1, <2>1, <2>2, <2>3 DEF Redirected
<1>5. CASE SetIndex
  <2>1. pc' = "translate" /\ di' = 1
    BY <1>5 DEF SetIndex
  <2>2. dirents' \in Seq(Dirent)
    BY <1>5, SetIndexStep DEF IInv, Entries, EntriesOf
  <2> QED
    BY <2>1, <2>2 DEF Redirected, Translated
<1>6. CASE pc \notin Translated /\ ~EndTranslate /\ ~SetIndex
  <2>1. /\ pc' \notin Translated
        /\ pc' = "translate" => Translate \/ UNCHANGED vars
    BY <1>6, Earlier
  <2>2. CASE UNCHANGED vars
    BY <1>1, <2>2 DEF vars, Redirected
  <2>3. CASE pc' # "translate"
    BY <2>1, <2>3 DEF Redirected
  <2> QED
    BY <1>1, <2>1, <2>2, <2>3, TranslateRedirects
<1> QED
  BY <1>3, <1>4, <1>5, <1>6

LEMMA CreateTitleOrder ==
  ASSUME IInv, UrlOrder, CreateTitleIndex
  PROVE  TitleOrder'
<1> DEFINE s == [i \in DOMAIN dirents |-> dirents[i].idx]
           n == Len(dirents)
<1>1. /\ pc = "title" /\ UNCHANGED dirents /\ titleIdx' \in Arrangements(s)
      /\ \A i, j \in DOMAIN titleIdx' : i < j => ~CompareTitle(titleIdx'[j], titleIdx'[i])
  BY DEF CreateTitleIndex, Sortings, Sorted
<1>2. dirents \in Seq(Dirent) /\ n \in Nat /\ DOMAIN dirents = 1 .. n
  BY DEF IInv, Entries, EntriesOf
<1>3. \A i \in 1 .. n : dirents[i].idx = i - 1
  BY <1>1, <1>2 DEF UrlOrder, Translated
<1>u. PICK u : u = s
  OBVIOUS
<1>4. u \in Seq(Nat) /\ Len(u) = n /\ \A i \in 1 .. n : u[i] = i - 1
  <2>1. u = [i \in 1 .. n |-> i - 1]
    BY <1>2, <1>3, <1>u
  <2>2. u \in [1 .. n -> Nat]
    BY <1>2, <2>1
  <2> QED
    BY <1>2, <2>1, <2>2
<1> HIDE DEF s
<1>t. PICK t : t = titleIdx'
  OBVIOUS
<1>5. u \in Seq(Nat) /\ t \in Arrangements(u)
  BY <1>1, <1>4, <1>t, <1>u
<1>6. /\ t \in Seq(Nat) /\ Len(t) = Len(u)
      /\ \A j \in 1 .. Len(u) : \E i \in 1 .. Len(u) : t[i] = u[j]
  <2>1. t \in Seq(Nat) /\ Len(t) = Len(u)
    BY ONLY <1>5, Arranged
  <2>2. \A j \in 1 .. Len(u) : \E i \in 1 .. Len(u) : t[i] = u[j]
    BY ONLY <1>5, Arranged
  <2> QED
    BY <2>1, <2>2
<1>7. \A k \in 0 .. n - 1 : \E i \in DOMAIN t : t[i] = k
  <2> SUFFICES ASSUME NEW k \in 0 .. n - 1 PROVE \E i \in DOMAIN t : t[i] = k
    OBVIOUS
  <2>1. k + 1 \in 1 .. n /\ u[k + 1] = k
    BY <1>2, <1>4
  <2>2. PICK i \in 1 .. n : t[i] = u[k + 1]
    BY <1>4, <1>6, <2>1
  <2>3. DOMAIN t = 1 .. n
    BY <1>4, <1>6
  <2> QED
    BY <2>1, <2>2, <2>3
<1>8. \A i, j \in DOMAIN t : i < j => ~CompareTitle(t[j], t[i])'
  BY <1>1, <1>t DEF CompareTitle
<1>9. Len(titleIdx)' = Len(dirents)' /\ titleIdx' = t /\ Len(dirents)' = n
  BY <1>1, <1>4, <1>6, <1>t
<1> QED
  BY <1>7, <1>8, <1>9 DEF TitleOrder, CompareTitle

LEMMA TitleStep ==
  ASSUME IInv, LInv, [Next]_vars
  PROVE  TitleOrder'
<1>1. UrlOrder /\ TitleOrder
  BY DEF LInv
<1>2. dirents \in Seq(Dirent) /\ Titles
  BY DEF IInv, Entries, EntriesOf
<1>3. CASE pc \in Titled
  <2>1. /\ pc' \in Translated /\ DOMAIN dirents' = DOMAIN dirents
        /\ \A i \in DOMAIN dirents : Settled(dirents'[i], dirents[i])
        /\ UNCHANGED titleIdx
    BY <1>3, LaterEntries DEF Titled, Translated
  <2>2. \A i \in DOMAIN dirents :
          /\ dirents'[i].ns = dirents[i].ns /\ dirents'[i].url = dirents[i].url
          /\ dirents'[i].title = dirents[i].title
    BY <2>1 DEF Settled, SameEntry
  <2>3. /\ Len(titleIdx) = Len(dirents)
        /\ \A k \in 0 .. Len(dirents) - 1 : \E i \in DOMAIN titleIdx : titleIdx[i] = k
        /\ \A i, j \in DOMAIN titleIdx : i < j => ~CompareTitle(titleIdx[j], titleIdx[i])
    BY <1>1, <1>3 DEF TitleOrder
  <2>4. Len(dirents)' = Len(dirents)
    <3>1. dirents' \in Seq(Dirent)
      BY StepOK DEF IInv, Entries, EntriesOf
    <3> QED
      BY <1>2, <2>1, <3>1
  <2>5. \A i \in DOMAIN titleIdx : titleIdx[i] + 1 \in DOMAIN dirents
    BY <1>2 DEF Titles
  <2>6. ASSUME NEW i \in DOMAIN titleIdx, NEW j \in DOMAIN titleIdx, i < j
        PROVE  ~CompareTitle(titleIdx[j], titleIdx[i])'
    <3>1. ~CompareTitle(titleIdx[j], titleIdx[i])
      BY <2>3, <2>6
    <3>2. titleIdx[i] + 1 \in DOMAIN dirents /\ titleIdx[j] + 1 \in DOMAIN dirents
      BY <2>5
    <3> QED
      BY <2>1, <2>2, <3>1, <3>2 DEF CompareTitle, TitleOf
  <2> QED
    BY <2>1, <2>3, <2>4, <2>6 DEF TitleOrder
<1>4. CASE pc \notin Titled /\ pc' \in Titled
  <2>1. CreateTitleIndex
    <3>1. CASE UNCHANGED vars
      BY <1>4, <3>1 DEF vars
    <3>2. CASE SkipRedirect \/ AddCompressed \/ AddUncompressed \/ FinishClusters
               \/ FillHeader \/ Write
      BY <1>4, <3>2 DEF Titled, SkipRedirect, AddCompressed, AddUncompressed, FinishClusters,
                        FillHeader, Write
    <3>3. CASE Collect \/ TooManyMimes \/ EndCollect \/ Prune \/ SetIndex \/ Translate
               \/ InternalError \/ EndTranslate
      <4>1. pc' \in {"collect", "refused", "prune", "translate", "failed", "title"}
        BY <3>3 DEF Collect, TooManyMimes, EndCollect, Prune, SetIndex, Translate, InternalError,
                    EndTranslate
      <4> QED
        BY <1>4, <4>1 DEF Titled
    <3> QED
      BY <3>1, <3>2, <3>3 DEF Next
  <2> QED
    BY <1>1, <2>1, CreateTitleOrder
<1>5. CASE pc' \notin Titled
  BY <1>5 DEF TitleOrder
<1> QED
  BY <1>3, <1>4, <1>5

-----------------------------------------------------------------------------
(* Positions.                                                              *)

IsList(s) == Len(s) \in Nat /\ s = [i \in 1 .. Len(s) |-> s[i]]

LEMMA ListOf ==
  ASSUME NEW S, NEW s \in Seq(S)
  PROVE  IsList(s) /\ \A i \in 1 .. Len(s) : s[i] \in S
BY DEF IsList

LEMMA Joined ==
  ASSUME NEW a, NEW b, IsList(a), IsList(b)
  PROVE  /\ IsList(a \o b) /\ Len(a \o b) = Len(a) + Len(b)
         /\ \A i \in 1 .. Len(a) : (a \o b)[i] = a[i]
         /\ \A i \in 1 .. Len(b) : (a \o b)[Len(a) + i] = b[i]
<1> DEFINE S == {a[i] : i \in 1 .. Len(a)} \cup {b[i] : i \in 1 .. Len(b)}
<1>1. a \in Seq(S) /\ b \in Seq(S)
  <2>1. a \in [1 .. Len(a) -> S] /\ Len(a) \in Nat
    BY DEF IsList
  <2>2. b \in [1 .. Len(b) -> S] /\ Len(b) \in Nat
    BY DEF IsList
  <2> QED
    BY <2>1, <2>2
<1> HIDE DEF S
<1>c. PICK c : c = a \o b
  OBVIOUS
<1>2. c \in Seq(S)
  BY <1>1, <1>c, ConcatProperties, Zenon
<1>3. Len(c) = Len(a) + Len(b)
  BY <1>1, <1>c, ConcatProperties, Zenon
<1>4. \A i \in 1 .. Len(a) + Len(b) : c[i] = IF i =< Len(a) THEN a[i] ELSE b[i - Len(a)]
  BY <1>1, <1>c, ConcatProperties, Zenon
<1>5. Len(a) \in Nat /\ Len(b) \in Nat
  BY DEF IsList
<1>6. /\ \A i \in 1 .. Len(a) : c[i] = a[i]
      /\ \A i \in 1 .. Len(b) : c[Len(a) + i] = b[i]
  BY ONLY <1>4, <1>5
<1> QED
  BY <1>c, <1>2, <1>3, <1>6, ListOf

(* Starts depends on nothing but the sizes before. *)
LEMMA SameStarts ==
  ASSUME NEW a, NEW b, Sized(a), Sized(b), NEW n \in Nat, n =< Len(a), n =< Len(b),
         \A k \in 1 .. n : a[k].size = b[k].size
  PROVE  \A k \in 1 .. n + 1 : Starts(a)[k] = Starts(b)[k]
<1>f. PICK f : f = Starts(a)
  OBVIOUS
<1>g. PICK g : g = Starts(b)
  OBVIOUS
<1>1. Len(a) \in Nat /\ Len(b) \in Nat
  BY DEF Sized
<1>2. /\ f \in [1 .. Len(a) + 1 -> Nat] /\ f[1] = 0
      /\ \A k \in 1 .. Len(a) : f[k + 1] = f[k] + a[k].size
  BY <1>f, StartsSum DEF SumsUpTo
<1>3. /\ g \in [1 .. Len(b) + 1 -> Nat] /\ g[1] = 0
      /\ \A k \in 1 .. Len(b) : g[k + 1] = g[k] + b[k].size
  BY <1>g, StartsSum DEF SumsUpTo
<1> DEFINE Other == {k \in 1 .. n + 1 : f[k] # g[k]}
<1>4. Other = {}
  <2> SUFFICES ASSUME Other # {} PROVE FALSE
    OBVIOUS
  <2>1. Other \subseteq Nat
    OBVIOUS
  <2>2. PICK k \in Other : \A q \in Other : k =< q
    BY <2>1, Least
  <2>3. k \in 1 .. n + 1 /\ f[k] # g[k]
    OBVIOUS
  <2>4. k # 1
    BY <1>2, <1>3, <2>3
  <2>5. k - 1 \in 1 .. n /\ (k - 1) + 1 = k /\ ~(k =< k - 1)
    BY <2>3, <2>4
  <2>6. k - 1 \notin Other /\ k - 1 \in 1 .. n + 1
    BY <2>2, <2>5
  <2>7. f[k - 1] = g[k - 1]
    BY <2>6
  <2>8. k - 1 \in 1 .. Len(a) /\ k - 1 \in 1 .. Len(b)
    BY <1>1, <2>5
  <2>9. f[k] = f[k - 1] + a[k - 1].size /\ g[k] = g[k - 1] + b[k - 1].size
    BY <1>2, <1>3, <2>5, <2>8
  <2> QED
    BY <2>3, <2>5, <2>7, <2>9
<1> QED
  BY <1>f, <1>g, <1>4

(* In c, behind the items of a come those of b. *)
Joins(c, a, b) ==
  /\ Len(c) = Len(a) + Len(b)
  /\ \A k \in 1 .. Len(a) : c[k] = a[k]
  /\ \A k \in 1 .. Len(b) : c[Len(a) + k] = b[k]

LEMMA JoinedStarts ==
  ASSUME NEW a, NEW b, NEW c, Sized(a), Sized(b), Joins(c, a, b)
  PROVE  /\ Sized(c) /\ Total(c) = Total(a) + Total(b)
         /\ \A k \in 1 .. Len(a) + 1 : Starts(c)[k] = Starts(a)[k]
         /\ \A k \in 1 .. Len(b) + 1 : Starts(c)[Len(a) + k] = Total(a) + Starts(b)[k]
<1>1. /\ Len(a) \in Nat /\ Len(b) \in Nat /\ Len(c) = Len(a) + Len(b)
      /\ \A k \in 1 .. Len(a) : a[k].size \in Nat /\ c[k] = a[k]
      /\ \A k \in 1 .. Len(b) : b[k].size \in Nat /\ c[Len(a) + k] = b[k]
  BY DEF Sized, Joins
<1>n. PICK n \in Nat : n = Len(a)
  BY <1>1
<1>m. PICK m \in Nat : m = Len(b)
  BY <1>1
<1>l. Len(c) = n + m
  BY <1>1, <1>n, <1>m
<1>2. Sized(c)
  <2>1. Len(c) \in Nat
    BY <1>1
  <2>2. ASSUME NEW k \in 1 .. Len(c) PROVE c[k].size \in Nat
    <3>1. CASE k \in 1 .. n
      BY <1>1, <1>n, <3>1
    <3>2. CASE k \notin 1 .. n
      <4>1. k - n \in 1 .. m /\ n + (k - n) = k
        BY <1>l, <2>2, <3>2
      <4> QED
        BY <1>1, <1>n, <1>m, <4>1
    <3> QED
      BY <3>1, <3>2
  <2> QED
    BY <2>1, <2>2 DEF Sized
<1>3. \A k \in 1 .. n + 1 : Starts(c)[k] = Starts(a)[k]
  <2>1. n =< Len(c) /\ n =< Len(a) /\ \A k \in 1 .. n : c[k].size = a[k].size
    BY <1>1, <1>n
  <2>2. n \in Nat /\ Sized(c) /\ Sized(a)
    BY <1>2
  <2> QED
    BY ONLY <2>1, <2>2, SameStarts
<1>f. PICK f : f = Starts(c)
  OBVIOUS
<1>g. PICK g : g = Starts(b)
  OBVIOUS
<1>t. PICK t : t = Total(a)
  OBVIOUS
<1>4. /\ f \in [1 .. n + m + 1 -> Nat]
      /\ \A k \in 1 .. n + m : f[k + 1] = f[k] + c[k].size
  BY <1>2, <1>f, <1>l, StartsSum DEF SumsUpTo
<1>5. /\ g \in [1 .. m + 1 -> Nat] /\ g[1] = 0
      /\ \A k \in 1 .. m : g[k + 1] = g[k] + b[k].size
  BY <1>g, <1>m, StartsSum DEF SumsUpTo
<1>6. t \in Nat /\ f[n + 1] = t
  <2>1. Total(a) = Starts(a)[n + 1]
    BY <1>n DEF Total
  <2>2. n + 1 \in 1 .. n + 1
    OBVIOUS
  <2> QED
    BY <1>3, <1>f, <1>t, <2>1, <2>2, TotalNatural
<1> DEFINE Other == {k \in 1 .. m + 1 : f[n + k] # t + g[k]}
<1>7. Other = {}
  <2> SUFFICES ASSUME Other # {} PROVE FALSE
    OBVIOUS
  <2>1. Other \subseteq Nat
    OBVIOUS
  <2>2. PICK k \in Other : \A q \in Other : k =< q
    BY <2>1, Least
  <2>3. k \in 1 .. m + 1 /\ f[n + k] # t + g[k]
    OBVIOUS
  <2>4. k # 1
    BY <1>5, <1>6, <2>3
  <2>5. k - 1 \in 1 .. m /\ (k - 1) + 1 = k /\ ~(k =< k - 1)
    BY <2>3, <2>4
  <2>6. k - 1 \notin Other /\ k - 1 \in 1 .. m + 1
    BY <2>2, <2>5
  <2>7. f[n + (k - 1)] = t + g[k - 1]
    BY <2>6
  <2>8. n + (k - 1) \in 1 .. n + m /\ (n + (k - 1)) + 1 = n + k
    BY <2>5
  <2>9. /\ f[n + k] = f[n + (k - 1)] + c[n + (k - 1)].size
        /\ g[k] = g[k - 1] + b[k - 1].size
    BY <1>4, <1>5, <2>5, <2>8
  <2>10. c[n + (k - 1)].size = b[k - 1].size /\ b[k - 1].size \in Nat /\ g[k - 1] \in Nat
    BY <1>1, <1>5, <1>n, <1>m, <2>5, <2>6
  <2> QED
    BY <1>6, <2>3, <2>7, <2>9, <2>10
<1>8. \A k \in 1 .. m + 1 : f[n + k] = t + g[k]
  BY <1>7
<1>9. Total(c) = f[n + m + 1] /\ Total(b) = g[m + 1]
  BY <1>f, <1>g, <1>l, <1>m DEF Total
<1>10. Total(c) = t + Total(b)
  <2>1. m + 1 \in 1 .. m + 1 /\ n + (m + 1) = n + m + 1
    OBVIOUS
  <2> QED
    BY <1>8, <1>9, <2>1
<1> QED
  BY <1>2, <1>3, <1>8, <1>10, <1>f, <1>g, <1>n, <1>m, <1>t

(* What is written before item i. *)
LEMMA StartsOfPart ==
  ASSUME NEW s \in Seq(Cluster), NEW i \in 1 .. Len(s)
  PROVE  Total(SubSeq(s, 1, i - 1)) = Starts(s)[i]
<1>p. PICK p : p = SubSeq(s, 1, i - 1)
  OBVIOUS
<1>1. Len(s) \in Nat /\ i \in Nat /\ i - 1 \in Nat
  OBVIOUS
<1>2. Len(p) = i - 1 /\ \A j \in 1 .. i - 1 : p[j] = s[j]
  BY <1>p
<1>3. Sized(s) /\ Sized(p)
  BY <1>p, ClustersSized
<1>4. \A k \in 1 .. (i - 1) + 1 : Starts(p)[k] = Starts(s)[k]
  BY <1>1, <1>2, <1>3, SameStarts
<1>5. Total(p) = Starts(p)[(i - 1) + 1] /\ (i - 1) + 1 \in 1 .. (i - 1) + 1 /\ (i - 1) + 1 = i
  BY <1>1, <1>2 DEF Total
<1> QED
  BY <1>p, <1>4, <1>5

-----------------------------------------------------------------------------
(* The clusters written, and what the entries say of them.                 *)

LEMMA Emitted ==
  ASSUME Clusters, NEW more \in Seq(Cluster), Emit(more)
  PROVE  /\ tmp' \in Seq(Cluster) /\ Len(tmp') = Len(tmp) + Len(more)
         /\ Len(clusterOffsets') = Len(tmp')
         /\ \A i \in 1 .. Len(tmp) : tmp'[i] = tmp[i] /\ clusterOffsets'[i] = clusterOffsets[i]
         /\ \A i \in 1 .. Len(more) :
              /\ tmp'[Len(tmp) + i] = more[i]
              /\ clusterOffsets'[Len(tmp) + i] = Total(tmp) + Starts(more)[i]
<1> DEFINE offsets == [i \in DOMAIN more |-> Total(tmp) + Total(SubSeq(more, 1, i - 1))]
           n == Len(more)
<1>1. clusterOffsets \in Seq(Nat) /\ tmp \in Seq(Cluster) /\ Len(clusterOffsets) = Len(tmp)
  BY DEF Clusters
<1>2. n \in Nat /\ DOMAIN more = 1 .. n
  OBVIOUS
<1>o. PICK o : o = offsets
  OBVIOUS
<1>3. o = [i \in 1 .. n |-> Total(tmp) + Starts(more)[i]]
  <2>1. \A i \in 1 .. n : Total(SubSeq(more, 1, i - 1)) = Starts(more)[i]
    BY StartsOfPart
  <2> QED
    BY <1>2, <1>o, <2>1
<1>4. clusterOffsets' = clusterOffsets \o o /\ tmp' = tmp \o more
  BY <1>o DEF Emit
<1> HIDE DEF offsets
<1>5. IsList(o) /\ Len(o) = n /\ \A i \in 1 .. n : o[i] = Total(tmp) + Starts(more)[i]
  BY <1>2, <1>3 DEF IsList
<1>6. IsList(clusterOffsets) /\ IsList(tmp) /\ IsList(more)
  BY <1>1, ListOf
<1>7. tmp' \in Seq(Cluster) /\ Len(clusterOffsets') = Len(tmp')
  BY Emits
<1>8. /\ Len(tmp') = Len(tmp) + Len(more)
      /\ \A i \in 1 .. Len(tmp) : tmp'[i] = tmp[i]
      /\ \A i \in 1 .. Len(more) : tmp'[Len(tmp) + i] = more[i]
  BY <1>4, <1>6, Joined
<1>9. /\ \A i \in 1 .. Len(tmp) : clusterOffsets'[i] = clusterOffsets[i]
      /\ \A i \in 1 .. n : clusterOffsets'[Len(tmp) + i] = o[i]
  BY <1>1, <1>4, <1>5, <1>6, Joined
<1> QED
  BY <1>5, <1>7, <1>8, <1>9

LEMMA EmittedOffsets ==
  ASSUME Clusters, Offsets, NEW more \in Seq(Cluster), Emit(more)
  PROVE  \A i \in DOMAIN tmp' : clusterOffsets'[i] = Starts(tmp')[i]
<1>t. PICK t : t = tmp'
  OBVIOUS
<1>1. tmp \in Seq(Cluster) /\ Len(tmp) \in Nat /\ Len(more) \in Nat /\ DOMAIN tmp = 1 .. Len(tmp)
  BY DEF Clusters
<1>2. /\ t \in Seq(Cluster) /\ Len(t) = Len(tmp) + Len(more)
      /\ \A i \in 1 .. Len(tmp) : t[i] = tmp[i] /\ clusterOffsets'[i] = clusterOffsets[i]
      /\ \A i \in 1 .. Len(more) :
           /\ t[Len(tmp) + i] = more[i]
           /\ clusterOffsets'[Len(tmp) + i] = Total(tmp) + Starts(more)[i]
  BY <1>t, Emitted
<1>3. Sized(tmp) /\ Sized(more)
  BY <1>1, ClustersSized
<1>4. /\ \A k \in 1 .. Len(tmp) + 1 : Starts(t)[k] = Starts(tmp)[k]
      /\ \A k \in 1 .. Len(more) + 1 : Starts(t)[Len(tmp) + k] = Total(tmp) + Starts(more)[k]
  <2>a. PICK a : a = tmp
    OBVIOUS
  <2>b. PICK b : b = more
    OBVIOUS
  <2>1. Sized(a) /\ Sized(b)
    BY <1>2, <1>3, <2>a, <2>b
  <2>2. Joins(t, a, b)
    BY <1>2, <2>a, <2>b DEF Joins
  <2>3. /\ \A k \in 1 .. Len(a) + 1 : Starts(t)[k] = Starts(a)[k]
        /\ \A k \in 1 .. Len(b) + 1 : Starts(t)[Len(a) + k] = Total(a) + Starts(b)[k]
    BY ONLY <2>1, <2>2, JoinedStarts
  <2> QED
    BY <2>3, <2>a, <2>b
<1>5. ASSUME NEW i \in DOMAIN t PROVE clusterOffsets'[i] = Starts(t)[i]
  <2>1. i \in 1 .. Len(tmp) + Len(more)
    BY <1>2
  <2>2. CASE i \in 1 .. Len(tmp)
    <3>1. i \in 1 .. Len(tmp) + 1 /\ clusterOffsets[i] = Starts(tmp)[i]
      BY <1>1, <2>2 DEF Offsets
    <3> QED
      BY <1>2, <1>4, <2>2, <3>1
  <2>3. CASE i \notin 1 .. Len(tmp)
    <3>1. i - Len(tmp) \in 1 .. Len(more) /\ Len(tmp) + (i - Len(tmp)) = i
      BY <1>1, <2>1, <2>3
    <3>2. i - Len(tmp) \in 1 .. Len(more) + 1
      BY <1>1, <3>1
    <3> QED
      BY <1>2, <1>4, <3>1, <3>2
  <2> QED
    BY <2>2, <2>3
<1> QED
  BY <1>t, <1>5

(* The steps that write clusters. *)
LEMMA Emitting ==
  ASSUME IInv, AddCompressed \/ AddUncompressed \/ FinishClusters
  PROVE  \/ \E more \in Seq(Cluster) : Emit(more)
         \/ UNCHANGED <<tmp, clusterOffsets>>
<1>1. cluster \in Seq(BlobItem)
  BY DEF IInv, Clusters
<1>2. CASE AddCompressed
  <2> DEFINE blobs == Append(cluster, Blob(dirents[di].aid))
  <2>1. /\ di \in DOMAIN dirents
        /\ \/ \E packed \in Packed : Emit(<<ClusterItem(blobs, TRUE, packed)>>)
           \/ UNCHANGED <<tmp, clusterOffsets>>
    BY <1>2 DEF AddCompressed
  <2>2. blobs \in Seq(BlobItem)
    <3>1. Blob(dirents[di].aid) \in BlobItem
      BY <2>1, BlobTyped
    <3> QED
      BY <1>1, <3>1
  <2> HIDE DEF blobs
  <2>3. ASSUME NEW packed \in Packed
        PROVE  <<ClusterItem(blobs, TRUE, packed)>> \in Seq(Cluster)
    <3>1. ClusterItem(blobs, TRUE, packed) \in Cluster
      BY <2>2, CreatorAssumption, ClusterTyped
    <3> QED
      BY <3>1, OneInSeq, Zenon
  <2> QED
    BY <2>1, <2>3
<1>3. CASE AddUncompressed
  <2>1. PICK packed \in Packed :
          Emit(Append(Pending(packed), ClusterItem(<<Blob(dirents[di].aid)>>, FALSE, 0)))
    BY <1>3 DEF AddUncompressed
  <2>2. di \in DOMAIN dirents
    BY <1>3 DEF AddUncompressed
  <2>3. <<Blob(dirents[di].aid)>> \in Seq(BlobItem)
    <3>1. Blob(dirents[di].aid) \in BlobItem
      BY <2>2, BlobTyped
    <3> QED
      BY <3>1, OneInSeq, Zenon
  <2>4. ClusterItem(<<Blob(dirents[di].aid)>>, FALSE, 0) \in Cluster
    BY <2>3, ClusterTyped
  <2>5. Pending(packed) \in Seq(Cluster)
    BY <1>1, PendingTyped
  <2>p. PICK pending : pending = Pending(packed)
    OBVIOUS
  <2>c. PICK c : c = ClusterItem(<<Blob(dirents[di].aid)>>, FALSE, 0)
    OBVIOUS
  <2>6. Append(pending, c) \in Seq(Cluster)
    <3>1. pending \in Seq(Cluster) /\ c \in Cluster
      BY <2>4, <2>5, <2>p, <2>c
    <3> QED
      BY <3>1, AppendProperties, Zenon
  <2>7. Emit(Append(pending, c))
    BY <2>1, <2>p, <2>c
  <2> QED
    BY <2>6, <2>7
<1>4. CASE FinishClusters
  <2>1. PICK packed \in Packed : Emit(Pending(packed))
    BY <1>4 DEF FinishClusters
  <2> QED
    BY <1>1, <2>1, PendingTyped
<1> QED
  BY <1>2, <1>3, <1>4

LEMMA OffsetsStep ==
  ASSUME IInv, LInv, [Next]_vars
  PROVE  Offsets'
<1>1. Clusters /\ Offsets
  BY DEF IInv, LInv
<1>2. \A i \in DOMAIN tmp' : clusterOffsets'[i] = Starts(tmp')[i]
  <2>1. CASE UNCHANGED <<tmp, clusterOffsets>>
    BY <1>1, <2>1 DEF Offsets
  <2>2. CASE AddCompressed \/ AddUncompressed \/ FinishClusters
    <3>1. CASE \E more \in Seq(Cluster) : Emit(more)
      <4>1. PICK more \in Seq(Cluster) : Emit(more)
        BY <3>1
      <4> QED
        BY <1>1, <4>1, EmittedOffsets
    <3> QED
      BY <2>1, <2>2, <3>1, Emitting
  <2>3. CASE CreateTitleIndex \/ SkipRedirect \/ FillHeader \/ Write \/ UNCHANGED vars
             \/ Collect \/ TooManyMimes \/ EndCollect
    BY <2>1, <2>3 DEF CreateTitleIndex, SkipRedirect, FillHeader, Write, vars, clusterVars,
                      Collect, TooManyMimes, EndCollect
  <2>4. CASE Prune \/ SetIndex \/ Translate \/ InternalError \/ EndTranslate
    BY <2>1, <2>4 DEF Prune, SetIndex, Translate, InternalError, EndTranslate, clusterVars
  <2> QED
    BY <2>2, <2>3, <2>4 DEF Next
<1>3. pc' \in Finished => clustersSize' = Total(tmp)'
  <2>1. CASE FinishClusters
    BY <2>1 DEF FinishClusters, Total, Starts
  <2>2. CASE FillHeader \/ Write \/ UNCHANGED vars
    <3>1. UNCHANGED <<tmp, clustersSize>> /\ pc' \in Finished => pc \in Finished
      BY <2>2 DEF FillHeader, Write, vars, clusterVars, Finished
    <3>2. UNCHANGED <<tmp, clustersSize>> /\ Total(tmp)' = Total(tmp)
      BY <2>2 DEF FillHeader, Write, vars, clusterVars
    <3> QED
      BY <1>1, <3>1, <3>2 DEF Offsets
  <2>3. CASE Collect \/ TooManyMimes \/ EndCollect \/ Prune \/ SetIndex \/ Translate
             \/ InternalError \/ EndTranslate
    BY <2>3 DEF Collect, TooManyMimes, EndCollect, Prune, SetIndex, Translate, InternalError,
                EndTranslate, Finished
  <2>4. CASE CreateTitleIndex \/ SkipRedirect \/ AddCompressed \/ AddUncompressed
    BY <2>4 DEF CreateTitleIndex, SkipRedirect, AddCompressed, AddUncompressed, Finished
  <2> QED
    BY <2>1, <2>2, <2>3, <2>4 DEF Next
<1>t. PICK t : t = tmp'
  OBVIOUS
<1> QED
  BY <1>2, <1>3 DEF Offsets

Extends(t, s) ==
  Len(t) \in Nat /\ Len(s) =< Len(t) /\ \A k \in 1 .. Len(s) : t[k] = s[k]

(* Data found once is found later: what is written stays, and the cluster  *)
(* under construction is written as the next one.                          *)
LEMMA LocatedLater ==
  ASSUME Clusters, pc = "clusters", NEW d \in Dirent, Located(d), UNCHANGED articles,
         NEW more, Len(more) \in Nat, Joins(tmp', tmp, more),
         \/ cluster = <<>>
         \/ pc' = "clusters" /\ more = <<>> /\ Extends(cluster', cluster)
         \/ /\ Len(more) > 0 /\ more[1].body.compressed = TRUE
            /\ Extends(more[1].body.blobs, cluster)
  PROVE  Located(d)'
<1>1. /\ tmp \in Seq(Cluster) /\ Len(tmp) \in Nat
      /\ Len(cluster) \in Nat /\ (cluster = <<>> => Len(cluster) = 0)
  BY DEF Clusters
<1>2. d.cluster \in Nat /\ d.blob \in Nat /\ d.compress \in BOOLEAN
  BY DEF Dirent
<1>b. PICK b : b = Blob(d.aid)
  OBVIOUS
<1>3. Blob(d.aid)' = b
  BY <1>b DEF Blob
<1>t. PICK t : t = tmp'
  OBVIOUS
<1>4. /\ Len(t) = Len(tmp) + Len(more)
      /\ \A k \in 1 .. Len(tmp) : t[k] = tmp[k]
      /\ \A k \in 1 .. Len(more) : t[Len(tmp) + k] = more[k]
  BY <1>t DEF Joins
<1>5. CASE /\ d.cluster < Len(tmp) /\ d.blob < Len(tmp[d.cluster + 1].body.blobs)
           /\ tmp[d.cluster + 1].body.blobs[d.blob + 1] = b
           /\ tmp[d.cluster + 1].body.compressed = d.compress
  <2>1. d.cluster + 1 \in 1 .. Len(tmp)
    BY <1>1, <1>2, <1>5
  <2>2. t[d.cluster + 1] = tmp[d.cluster + 1]
    BY <1>4, <2>1
  <2>3. d.cluster < Len(t)
    BY <1>1, <1>2, <1>4, <1>5
  <2> QED
    BY <1>3, <1>5, <1>t, <2>2, <2>3 DEF Located
<1>6. CASE /\ d.cluster = Len(tmp) /\ d.compress
           /\ d.blob < Len(cluster) /\ cluster[d.blob + 1] = b
  <2>1. cluster # <<>> /\ d.blob + 1 \in 1 .. Len(cluster)
    BY <1>1, <1>2, <1>6
  <2>2. CASE pc' = "clusters" /\ more = <<>> /\ Extends(cluster', cluster)
    <3>1. Len(t) = Len(tmp)
      BY <1>1, <1>4, <2>2
    <3>2. cluster'[d.blob + 1] = b /\ d.blob < Len(cluster')
      BY <1>1, <1>2, <1>6, <2>1, <2>2 DEF Extends
    <3> QED
      BY <1>3, <1>6, <1>t, <2>2, <3>1, <3>2 DEF Located
  <2>3. CASE /\ Len(more) > 0 /\ more[1].body.compressed = TRUE
             /\ Extends(more[1].body.blobs, cluster)
    <3>1. t[Len(tmp) + 1] = more[1] /\ d.cluster < Len(t)
      BY <1>1, <1>4, <1>6, <2>3
    <3>2. more[1].body.blobs[d.blob + 1] = b /\ d.blob < Len(more[1].body.blobs)
      BY <1>1, <1>2, <1>6, <2>1, <2>3 DEF Extends
    <3> QED
      BY <1>2, <1>3, <1>6, <1>t, <2>3, <3>1, <3>2 DEF Located
  <2> QED
    BY <2>1, <2>2, <2>3
<1> QED
  BY <1>5, <1>6, <1>b DEF Located

(* An entry is placed, behind or in what is written now. *)
LEMMA PlacedData ==
  ASSUME IInv, DataFound, pc = "clusters", pc' = "clusters", di \in DOMAIN dirents, di' = di + 1,
         NEW c, NEW b, dirents' = Placed(c, b), UNCHANGED articles,
         NEW e, e = dirents'[di], Located(e)',
         NEW more, Len(more) \in Nat, Joins(tmp', tmp, more),
         \/ cluster = <<>>
         \/ more = <<>> /\ Extends(cluster', cluster)
         \/ /\ Len(more) > 0 /\ more[1].body.compressed = TRUE
            /\ Extends(more[1].body.blobs, cluster)
  PROVE  DataFound'
<1>1. dirents \in Seq(Dirent) /\ Clusters /\ di \in Nat
  BY DEF IInv, Entries, EntriesOf
<1>2. /\ DOMAIN dirents' = DOMAIN dirents
      /\ \A i \in DOMAIN dirents :
           /\ Settled(dirents'[i], dirents[i])
           /\ i # di => dirents'[i] = dirents[i]
  BY PlacedFacts
<1>3. ASSUME NEW i \in DOMAIN dirents, ~dirents'[i].redirect, i < di + 1
      PROVE  Located(dirents[i])'
  <2>1. CASE i = di
    <3>1. e = dirents'[i]
      BY <2>1
    <3> QED
      BY <3>1 DEF Located
  <2>2. CASE i # di
    <3>1. i < di /\ dirents'[i] = dirents[i]
      BY <1>1, <1>2, <1>3, <2>2
    <3>d. PICK d : d = dirents[i]
      OBVIOUS
    <3>2. d \in Dirent /\ Located(d)
      BY <1>1, <1>3, <3>1, <3>d DEF DataFound
    <3>3. \/ cluster = <<>>
          \/ pc' = "clusters" /\ more = <<>> /\ Extends(cluster', cluster)
          \/ /\ Len(more) > 0 /\ more[1].body.compressed = TRUE
             /\ Extends(more[1].body.blobs, cluster)
      OBVIOUS
    <3>4. Located(d)'
      BY <1>1, <3>2, <3>3, LocatedLater
    <3>5. d = dirents'[i]
      BY <3>1, <3>d
    <3> QED
      BY <3>4, <3>5 DEF Located
  <2> QED
    BY <2>1, <2>2
<1> QED
  BY <1>2, <1>3 DEF DataFound, Finished

LEMMA AppendExtends ==
  ASSUME NEW S, NEW s \in Seq(S), NEW x \in S
  PROVE  /\ Append(s, x) \in Seq(S) /\ Extends(Append(s, x), s)
         /\ Len(Append(s, x)) = Len(s) + 1 /\ Append(s, x)[Len(s) + 1] = x
BY DEF Extends

LEMMA AddCompressedData ==
  ASSUME IInv, DataFound, AddCompressed
  PROVE  DataFound'
<1> DEFINE blobs == Append(cluster, Blob(dirents[di].aid))
<1>1. /\ pc = "clusters" /\ pc' = "clusters" /\ di \in DOMAIN dirents /\ di' = di + 1
      /\ dirents[di].compress /\ dirents' = Placed(Len(clusterOffsets), Len(cluster))
      /\ UNCHANGED articles
  BY DEF AddCompressed
<1>2. \/ /\ \E packed \in Packed : Emit(<<ClusterItem(blobs, TRUE, packed)>>)
         /\ cluster' = <<>>
      \/ cluster' = blobs /\ UNCHANGED tmp
  BY DEF AddCompressed
<1>3. /\ cluster \in Seq(BlobItem) /\ Len(cluster) \in Nat /\ Clusters
      /\ tmp \in Seq(Cluster) /\ Len(clusterOffsets) = Len(tmp) /\ Len(tmp) \in Nat
      /\ dirents \in Seq(Dirent)
  BY DEF IInv, Clusters, Entries, EntriesOf
<1>a. PICK new : new = Blob(dirents[di].aid)
  OBVIOUS
<1>b. PICK bs : bs = Append(cluster, new)
  OBVIOUS
<1>4. new \in BlobItem
  BY <1>1, <1>a, BlobTyped
<1>5. /\ bs \in Seq(BlobItem) /\ Extends(bs, cluster)
      /\ Len(bs) = Len(cluster) + 1 /\ bs[Len(cluster) + 1] = new
  BY <1>3, <1>4, <1>b, AppendExtends
<1>e. PICK e : e = dirents'[di]
  OBVIOUS
<1>d. PICK d : d = dirents[di]
  OBVIOUS
<1>6. Settled(e, d) /\ e.cluster = Len(tmp) /\ e.blob = Len(cluster)
  BY <1>1, <1>3, <1>d, <1>e, PlacedFacts
<1>7. Blob(e.aid)' = new /\ e.compress = TRUE
  <2>1. e.aid = d.aid /\ e.compress = d.compress
    BY <1>6 DEF Settled, SameEntry
  <2>2. d \in Dirent
    BY <1>1, <1>3, <1>d
  <2>3. d.compress \in BOOLEAN
    BY <2>2 DEF Dirent
  <2>4. Blob(d.aid) = new
    BY <1>a, <1>d
  <2> QED
    BY <1>1, <1>d, <2>1, <2>3, <2>4 DEF Blob
<1>8. CASE cluster' = blobs /\ UNCHANGED tmp
  <2>1. cluster' = bs
    BY <1>8, <1>a, <1>b
  <2>2. Located(e)'
    BY <1>1, <1>3, <1>5, <1>6, <1>7, <1>8, <2>1 DEF Located
  <2>3. Joins(tmp', tmp, <<>>) /\ Len(<<>>) \in Nat
    BY <1>3, <1>8 DEF Joins
  <2>4. Extends(cluster', cluster)
    BY <1>5, <2>1
  <2>e. PICK more : more = <<>>
    OBVIOUS
  <2> QED
    BY <1>1, <2>2, <2>3, <2>4, <1>e, <2>e, PlacedData
<1>9. CASE \E packed \in Packed : Emit(<<ClusterItem(blobs, TRUE, packed)>>)
  <2>1. PICK packed \in Packed : Emit(<<ClusterItem(bs, TRUE, packed)>>)
    BY <1>9, <1>a, <1>b
  <2>c. PICK c : c = ClusterItem(bs, TRUE, packed)
    OBVIOUS
  <2>m. PICK more : more = <<c>>
    OBVIOUS
  <2>2. c \in Cluster
    BY <1>5, <2>c, CreatorAssumption, ClusterTyped
  <2>3. more \in Seq(Cluster)
    BY <2>2, <2>m, OneInSeq, Zenon
  <2>4. Emit(more)
    BY <2>1, <2>c, <2>m
  <2>5. Len(more) = 1 /\ more[1] = c
    BY <2>m
  <2>6. c.body.compressed = TRUE /\ c.body.blobs = bs
    BY <2>c DEF ClusterItem, Item
  <2>7. /\ Len(tmp') = Len(tmp) + Len(more)
        /\ \A i \in 1 .. Len(tmp) : tmp'[i] = tmp[i]
        /\ \A i \in 1 .. Len(more) : tmp'[Len(tmp) + i] = more[i]
    BY <1>3, <2>3, <2>4, Emitted
  <2>8. Joins(tmp', tmp, more)
    BY <2>7 DEF Joins
  <2>9. Located(e)'
    <3>1. tmp'[e.cluster + 1] = c /\ e.cluster < Len(tmp')
      BY <1>3, <1>6, <2>5, <2>7
    <3>2. e.blob < Len(bs) /\ bs[e.blob + 1] = Blob(e.aid)'
      BY <1>3, <1>5, <1>6, <1>7
    <3> QED
      BY <1>7, <2>6, <3>1, <3>2, Zenon DEF Located
  <2>10. Len(more) \in Nat /\ Len(more) > 0 /\ more[1].body.compressed = TRUE
         /\ Extends(more[1].body.blobs, cluster)
    BY <1>5, <2>5, <2>6
  <2> QED
    BY <1>1, <1>e, <2>8, <2>9, <2>10, PlacedData
<1> QED
  BY <1>2, <1>8, <1>9

(* The pending cluster is what is written first. *)
LEMMA PendingFirst ==
  ASSUME IInv, NEW packed \in Packed, NEW pending, pending = Pending(packed)
  PROVE  /\ pending \in Seq(Cluster) /\ Len(pending) \in Nat
         /\ \/ cluster = <<>> /\ Len(pending) = 0
            \/ /\ Len(pending) = 1 /\ pending[1].body.compressed = TRUE
               /\ Extends(pending[1].body.blobs, cluster)
<1>1. cluster \in Seq(BlobItem) /\ Len(cluster) \in Nat
  BY DEF IInv, Clusters
<1>2. pending \in Seq(Cluster)
  BY <1>1, PendingTyped
<1>3. CASE cluster = <<>>
  BY <1>2, <1>3 DEF Pending
<1>4. CASE cluster # <<>>
  <2>1. pending = <<ClusterItem(cluster, TRUE, packed)>>
    BY <1>4 DEF Pending
  <2>c. PICK c : c = ClusterItem(cluster, TRUE, packed)
    OBVIOUS
  <2>2. c.body.compressed = TRUE /\ c.body.blobs = cluster
    BY <2>c DEF ClusterItem, Item
  <2>3. Len(pending) = 1 /\ pending[1] = c
    BY <2>1, <2>c
  <2>4. Extends(cluster, cluster)
    BY <1>1 DEF Extends
  <2> QED
    BY <1>2, <2>2, <2>3, <2>4
<1> QED
  BY <1>3, <1>4

LEMMA EmittedJoins ==
  ASSUME IInv, NEW more \in Seq(Cluster), Emit(more)
  PROVE  Joins(tmp', tmp, more) /\ Len(more) \in Nat
BY Emitted DEF IInv, Joins

LEMMA AddUncompressedData ==
  ASSUME IInv, DataFound, AddUncompressed
  PROVE  DataFound'
<1>p. PICK packed \in Packed :
        /\ Emit(Append(Pending(packed), ClusterItem(<<Blob(dirents[di].aid)>>, FALSE, 0)))
        /\ dirents' = Placed(Len(clusterOffsets) + Len(Pending(packed)), 0)
  BY DEF AddUncompressed
<1>1. /\ pc = "clusters" /\ pc' = "clusters" /\ di \in DOMAIN dirents /\ di' = di + 1
      /\ ~dirents[di].compress /\ UNCHANGED articles
  BY DEF AddUncompressed
<1>2. /\ tmp \in Seq(Cluster) /\ Len(clusterOffsets) = Len(tmp) /\ Len(tmp) \in Nat
      /\ dirents \in Seq(Dirent)
  BY DEF IInv, Clusters, Entries, EntriesOf
<1>a. PICK new : new = Blob(dirents[di].aid)
  OBVIOUS
<1>q. PICK pending : pending = Pending(packed)
  OBVIOUS
<1>c. PICK c : c = ClusterItem(<<new>>, FALSE, 0)
  OBVIOUS
<1>m. PICK more : more = Append(pending, c)
  OBVIOUS
<1>3. /\ pending \in Seq(Cluster) /\ Len(pending) \in Nat
      /\ \/ cluster = <<>> /\ Len(pending) = 0
         \/ /\ Len(pending) = 1 /\ pending[1].body.compressed = TRUE
            /\ Extends(pending[1].body.blobs, cluster)
  BY <1>q, PendingFirst
<1>4. new \in BlobItem /\ <<new>> \in Seq(BlobItem)
  <2>1. new \in BlobItem
    BY <1>1, <1>a, BlobTyped
  <2> QED
    BY <2>1, OneInSeq, Zenon
<1>5. c \in Cluster
  BY <1>4, <1>c, ClusterTyped
<1>6. c.body.compressed = FALSE /\ c.body.blobs = <<new>>
  BY <1>c DEF ClusterItem, Item
<1>7. /\ more \in Seq(Cluster) /\ Len(more) = Len(pending) + 1 /\ more[Len(pending) + 1] = c
      /\ Len(pending) = 1 => more[1] = pending[1]
  <2>1. more \in Seq(Cluster) /\ Extends(more, pending)
    BY <1>3, <1>5, <1>m, AppendExtends
  <2>2. Len(more) = Len(pending) + 1 /\ more[Len(pending) + 1] = c
    BY <1>3, <1>5, <1>m, AppendExtends
  <2> QED
    BY <2>1, <2>2 DEF Extends
<1>8. Emit(more)
  BY <1>p, <1>a, <1>c, <1>m, <1>q
<1>9. Joins(tmp', tmp, more) /\ Len(more) \in Nat
  BY <1>7, <1>8, EmittedJoins
<1>e. PICK e : e = dirents'[di]
  OBVIOUS
<1>d. PICK d : d = dirents[di]
  OBVIOUS
<1>10. dirents' = Placed(Len(tmp) + Len(pending), 0)
  BY <1>2, <1>p, <1>q
<1>11. Settled(e, d) /\ e.cluster = Len(tmp) + Len(pending) /\ e.blob = 0
  BY <1>1, <1>10, <1>d, <1>e, PlacedFacts
<1>12. Blob(e.aid)' = new /\ e.compress = FALSE
  <2>1. e.aid = d.aid /\ e.compress = d.compress
    BY <1>11 DEF Settled, SameEntry
  <2>2. d \in Dirent
    BY <1>1, <1>2, <1>d
  <2>3. d.compress \in BOOLEAN
    BY <2>2 DEF Dirent
  <2>4. Blob(d.aid) = new
    BY <1>a, <1>d
  <2> QED
    BY <1>1, <1>d, <2>1, <2>3, <2>4 DEF Blob
<1>13. Located(e)'
  <2>1. tmp'[e.cluster + 1] = c /\ e.cluster < Len(tmp')
    <3>1. Len(tmp') = Len(tmp) + Len(more) /\ tmp'[Len(tmp) + (Len(pending) + 1)] = more[Len(pending) + 1]
      BY <1>3, <1>7, <1>9 DEF Joins
    <3>2. e.cluster + 1 = Len(tmp) + (Len(pending) + 1)
      BY <1>2, <1>3, <1>11
    <3> QED
      BY <1>2, <1>3, <1>7, <1>11, <3>1, <3>2
  <2>2. e.blob < Len(<<new>>) /\ <<new>>[e.blob + 1] = Blob(e.aid)'
    BY <1>11, <1>12
  <2> QED
    BY <1>6, <1>12, <2>1, <2>2, Zenon DEF Located
<1>14. \/ cluster = <<>>
       \/ /\ Len(more) > 0 /\ more[1].body.compressed = TRUE
          /\ Extends(more[1].body.blobs, cluster)
  BY <1>3, <1>7
<1> QED
  BY <1>1, <1>9, <1>10, <1>13, <1>14, <1>e, PlacedData

LEMMA FinishClustersData ==
  ASSUME IInv, DataFound, FinishClusters
  PROVE  DataFound'
<1>1. /\ pc = "clusters" /\ pc' = "header" /\ di \notin DOMAIN dirents
      /\ UNCHANGED <<articles, dirents>>
  BY DEF FinishClusters
<1>p. PICK packed \in Packed : Emit(Pending(packed))
  BY DEF FinishClusters
<1>m. PICK more : more = Pending(packed)
  OBVIOUS
<1>2. /\ more \in Seq(Cluster) /\ Len(more) \in Nat
      /\ \/ cluster = <<>> /\ Len(more) = 0
         \/ /\ Len(more) = 1 /\ more[1].body.compressed = TRUE
            /\ Extends(more[1].body.blobs, cluster)
  BY <1>m, PendingFirst
<1>3. Joins(tmp', tmp, more)
  BY <1>2, <1>p, <1>m, EmittedJoins
<1>4. dirents \in Seq(Dirent) /\ Clusters /\ \A i \in DOMAIN dirents : i < di
  <2>1. dirents \in Seq(Dirent) /\ Clusters /\ di \in 1 .. Len(dirents) + 1
    BY DEF IInv, Entries, EntriesOf
  <2> QED
    BY <1>1, <2>1
<1>5. ASSUME NEW i \in DOMAIN dirents, ~dirents[i].redirect PROVE Located(dirents[i])'
  <2>d. PICK d : d = dirents[i]
    OBVIOUS
  <2>1. d \in Dirent /\ Located(d)
    BY <1>1, <1>4, <1>5, <2>d DEF DataFound
  <2>2. \/ cluster = <<>>
        \/ /\ Len(more) > 0 /\ more[1].body.compressed = TRUE
           /\ Extends(more[1].body.blobs, cluster)
    BY <1>2
  <2>3. Located(d)'
    BY <1>1, <1>2, <1>3, <1>4, <2>1, <2>2, LocatedLater
  <2>4. d = dirents'[i]
    BY <1>1, <2>d
  <2> QED
    BY <2>3, <2>4 DEF Located
<1> QED
  BY <1>1, <1>5 DEF DataFound

LEMMA DataStep ==
  ASSUME IInv, LInv, [Next]_vars
  PROVE  DataFound'
<1>1. DataFound
  BY DEF LInv
<1>2. dirents \in Seq(Dirent) /\ DOMAIN dirents \subseteq Nat /\ di \in Nat
      /\ \A i \in DOMAIN dirents : i >= 1
  BY DEF IInv, Entries, EntriesOf
<1>3. CASE SkipRedirect
  <2>1. /\ pc = "clusters" /\ pc' = "clusters" /\ dirents[di].redirect /\ di' = di + 1
        /\ UNCHANGED <<articles, dirents, tmp, cluster>>
    BY <1>3 DEF SkipRedirect, clusterVars
  <2>2. ASSUME NEW i \in DOMAIN dirents, ~dirents[i].redirect, i < di + 1
        PROVE  Located(dirents[i])'
    <3>1. i < di
      BY <1>2, <2>1, <2>2
    <3>2. Located(dirents[i])
      BY <1>1, <2>1, <2>2, <3>1 DEF DataFound
    <3> QED
      BY <2>1, <3>2 DEF Located, Blob
  <2> QED
    BY <2>1, <2>2 DEF DataFound, Finished
<1>4. CASE CreateTitleIndex
  <2>1. pc' = "clusters" /\ di' = 1 /\ UNCHANGED dirents
    BY <1>4 DEF CreateTitleIndex
  <2> QED
    BY <1>2, <2>1 DEF DataFound, Finished
<1>5. CASE FillHeader \/ Write
  <2>1. /\ pc \in Finished /\ pc # "clusters"
        /\ UNCHANGED <<articles, dirents, tmp, cluster>>
    BY <1>5 DEF FillHeader, Write, clusterVars, Finished
  <2>2. pc' # "clusters"
    BY <1>5 DEF FillHeader, Write
  <2>3. ASSUME NEW i \in DOMAIN dirents, ~dirents[i].redirect
        PROVE  Located(dirents[i])'
    <3>1. Located(dirents[i])
      BY <1>1, <2>1, <2>3 DEF DataFound
    <3> QED
      BY <2>1, <3>1 DEF Located, Blob
  <2> QED
    BY <2>1, <2>3 DEF DataFound
<1>6. CASE UNCHANGED vars
  BY <1>1, <1>6 DEF vars, clusterVars, DataFound, Located, Blob
<1>7. CASE Collect \/ TooManyMimes \/ EndCollect \/ Prune \/ SetIndex \/ Translate
           \/ InternalError \/ EndTranslate
  <2>1. pc' \notin Finished /\ pc' # "clusters"
    BY <1>7 DEF Collect, TooManyMimes, EndCollect, Prune, SetIndex, Translate, InternalError,
                EndTranslate, Finished
  <2> QED
    BY <2>1 DEF DataFound
<1> QED
  BY <1>1, <1>3, <1>4, <1>5, <1>6, <1>7, AddCompressedData, AddUncompressedData,
     FinishClustersData DEF Next

-----------------------------------------------------------------------------
(* The header and the file.                                                *)

Content == <<articles, dirents, mimes, titleIdx, clusterVars>>

LEMMA SameHeader ==
  ASSUME UNCHANGED Content
  PROVE  HeaderItem' = HeaderItem
<1>1. /\ MimeListSize' = MimeListSize /\ Len(dirents)' = Len(dirents)
      /\ IndexSize' = IndexSize
  BY DEF Content, clusterVars, MimeListSize, IndexSize
<1>2. /\ UrlPtrPos' = UrlPtrPos /\ TitleIdxPos' = TitleIdxPos /\ IndexPos' = IndexPos
      /\ ClusterPtrPos' = ClusterPtrPos
  BY <1>1 DEF UrlPtrPos, TitleIdxPos, IndexPos, ClusterPtrPos
<1>3. Len(clusterOffsets)' = Len(clusterOffsets) /\ ChecksumPos' = ChecksumPos
  BY <1>2 DEF Content, clusterVars, ChecksumPos
<1>4. PageIndex(MainAid)' = PageIndex(MainAid) /\ PageIndex(LayoutAid)' = PageIndex(LayoutAid)
  BY DEF Content, clusterVars, PageIndex
<1> QED
  BY <1>1, <1>2, <1>3, <1>4 DEF HeaderItem

LEMMA SameBody ==
  ASSUME UNCHANGED Content, UNCHANGED header
  PROVE  Body' = Body
<1>1. /\ IndexPos' = IndexPos /\ ClusterPtrPos' = ClusterPtrPos
  <2>1. MimeListSize' = MimeListSize /\ IndexSize' = IndexSize
    BY DEF Content, clusterVars, MimeListSize, IndexSize
  <2> QED
    BY <2>1 DEF Content, UrlPtrPos, TitleIdxPos, IndexPos, ClusterPtrPos
<1>2. /\ UNCHANGED <<dirents, mimes, titleIdx, clusterOffsets, isEmpty, tmp, header>>
  BY DEF Content, clusterVars
<1>3. \A i : DirentPos(i)' = DirentPos(i)
  BY <1>1, <1>2 DEF DirentPos
<1>4. \A i : ClusterPos(i)' = ClusterPos(i)
  BY <1>1, <1>2 DEF ClusterPos
<1> QED
  BY <1>2, <1>3, <1>4 DEF Body

LEMMA WrittenStep ==
  ASSUME LInv, [Next]_vars
  PROVE  Written'
<1>1. Written
  BY DEF LInv
<1>2. CASE FillHeader
  <2>1. header' = HeaderItem /\ pc' = "write" /\ UNCHANGED Content
    BY <1>2 DEF FillHeader, HeaderItem, Content
  <2> QED
    BY <2>1, SameHeader DEF Written
<1>3. CASE Write
  <2>1. pc = "write" /\ pc' = "done" /\ UNCHANGED Content /\ UNCHANGED header
    BY <1>3 DEF Write, Content
  <2>2. file' = Laid(Append(Body, Item("digest", DigestSize, Laid(Body))))
    BY <1>3 DEF Write
  <2>3. header' = HeaderItem'
    BY <1>1, <2>1, SameHeader DEF Written
  <2>b. PICK b : b = Body
    OBVIOUS
  <2>4. Body' = b
    BY <2>1, <2>b, SameBody
  <2>5. file' = Laid(Append(b, Item("digest", DigestSize, Laid(b))))
    BY <2>2, <2>b
  <2> QED
    BY <2>1, <2>3, <2>4, <2>5 DEF Written
<1>4. CASE UNCHANGED vars
  <2>1. UNCHANGED Content /\ UNCHANGED <<header, file, pc>>
    BY <1>4 DEF vars, Content
  <2>2. HeaderItem' = HeaderItem /\ Body' = Body
    BY <2>1, SameHeader, SameBody
  <2> QED
    BY <1>1, <2>1, <2>2 DEF Written
<1>5. CASE Collect \/ TooManyMimes \/ EndCollect \/ Prune \/ SetIndex \/ Translate
           \/ InternalError \/ EndTranslate
  <2>1. pc' \notin {"write", "done"}
    BY <1>5 DEF Collect, TooManyMimes, EndCollect, Prune, SetIndex, Translate, InternalError,
                EndTranslate
  <2> QED
    BY <2>1 DEF Written
<1>6. CASE CreateTitleIndex \/ SkipRedirect \/ AddCompressed \/ AddUncompressed \/ FinishClusters
  <2>1. pc' \notin {"write", "done"}
    BY <1>6 DEF CreateTitleIndex, SkipRedirect, AddCompressed, AddUncompressed, FinishClusters
  <2> QED
    BY <2>1 DEF Written
<1> QED
  BY <1>2, <1>3, <1>4, <1>5, <1>6 DEF Next

LEMMA LInit == Init => LInv
<1> SUFFICES ASSUME Init PROVE LInv
  OBVIOUS
<1>1. UrlsOnce(articles) /\ UrlOrder /\ Redirected /\ TitleOrder /\ MimesRight
  BY DEF Init, UrlsOnce, UrlOrder, Redirected, TitleOrder, MimesRight, Translated, Titled
<1>2. DataFound /\ Offsets /\ Written
  BY DEF Init, DataFound, Offsets, Written, Finished
<1> QED
  BY <1>1, <1>2 DEF LInv

LEMMA Layout == Spec => [](IInv /\ LInv)
<1>1. Init => IInv /\ LInv
  BY InitOK, LInit
<1>2. IInv /\ LInv /\ [Next]_vars => (IInv /\ LInv)'
  <2> SUFFICES ASSUME IInv, LInv, [Next]_vars PROVE (IInv /\ LInv)'
    OBVIOUS
  <2>1. IInv'
    BY StepOK
  <2>2. UrlsOnce(articles') /\ MimesRight'
    BY <2>1, MimesStep
  <2>3. UrlOrder' /\ Redirected' /\ TitleOrder'
    BY UrlStep, RedirectedStep, TitleStep
  <2>4. DataFound' /\ Offsets' /\ Written'
    BY DataStep, OffsetsStep, WrittenStep
  <2> QED
    BY <2>1, <2>2, <2>3, <2>4 DEF LInv, UrlsOnce
<1> QED
  BY <1>1, <1>2, PTL DEF Spec

-----------------------------------------------------------------------------
(* Items in a row, none of them empty: where a part of them lies.          *)

Items(s) == IsList(s) /\ \A k \in 1 .. Len(s) : s[k].size \in Nat \ {0}

LEMMA ItemsSized ==
  ASSUME NEW s, Items(s)
  PROVE  Sized(s) /\ Len(s) \in Nat /\ IsList(s)
BY DEF Items, Sized, IsList

(* No two items begin at the same position. *)
LEMMA Rising ==
  ASSUME NEW s, Items(s), NEW i \in 1 .. Len(s) + 1, NEW j \in 1 .. Len(s) + 1, i < j
  PROVE  Starts(s)[i] \in Nat /\ Starts(s)[j] \in Nat /\ Starts(s)[i] < Starts(s)[j]
<1>n. PICK n \in Nat : n = Len(s)
  BY ItemsSized
<1>f. PICK f : f = Starts(s)
  OBVIOUS
<1>1. /\ f \in [1 .. n + 1 -> Nat]
      /\ \A k \in 1 .. n : f[k + 1] = f[k] + s[k].size /\ s[k].size \in Nat \ {0}
  BY <1>n, <1>f, ItemsSized, StartsSum DEF SumsUpTo, Items
<1> DEFINE Low == {k \in 1 .. n + 1 : i < k /\ ~(f[i] < f[k])}
<1>2. Low = {}
  <2> SUFFICES ASSUME Low # {} PROVE FALSE
    OBVIOUS
  <2>1. Low \subseteq Nat
    OBVIOUS
  <2>2. PICK k \in Low : \A q \in Low : k =< q
    BY <2>1, Least
  <2>3. k \in 1 .. n + 1 /\ i < k /\ ~(f[i] < f[k]) /\ i \in 1 .. n + 1
    BY <1>n
  <2>4. k - 1 \in 1 .. n /\ (k - 1) + 1 = k /\ ~(k =< k - 1) /\ (k - 1 = i \/ i < k - 1)
    BY <2>3
  <2>5. k - 1 \notin Low /\ k - 1 \in 1 .. n + 1
    BY <2>2, <2>4
  <2>6. k - 1 = i \/ f[i] < f[k - 1]
    BY <2>4, <2>5
  <2>7. f[k] = f[k - 1] + s[k - 1].size /\ s[k - 1].size \in Nat \ {0}
    BY <1>1, <2>4
  <2>8. f[i] \in Nat /\ f[k - 1] \in Nat
    BY <1>1, <2>3, <2>5
  <2> QED
    BY <2>3, <2>6, <2>7, <2>8
<1>3. i \in 1 .. n + 1 /\ j \in 1 .. n + 1
  BY <1>n
<1> QED
  BY <1>1, <1>2, <1>3, <1>f

LEMMA JoinedItems ==
  ASSUME NEW a, NEW b, Items(a), Items(b)
  PROVE  Items(a \o b) /\ Joins(a \o b, a, b)
<1>c. PICK c : c = a \o b
  OBVIOUS
<1>1. IsList(c) /\ Joins(c, a, b)
  BY <1>c, Joined, ItemsSized DEF Joins
<1>n. PICK n \in Nat : n = Len(a)
  BY ItemsSized
<1>m. PICK m \in Nat : m = Len(b)
  BY ItemsSized
<1>2. ASSUME NEW k \in 1 .. Len(c) PROVE c[k].size \in Nat \ {0}
  <2>1. k \in 1 .. n + m
    BY <1>1, <1>n, <1>m DEF Joins
  <2>2. CASE k \in 1 .. n
    BY <1>1, <1>n, <2>2 DEF Joins, Items
  <2>3. CASE k \notin 1 .. n
    <3>1. k - n \in 1 .. m /\ n + (k - n) = k
      BY <2>1, <2>3
    <3>2. c[n + (k - n)] = b[k - n]
      BY <1>1, <1>n, <1>m, <3>1 DEF Joins
    <3> QED
      BY <1>m, <3>1, <3>2 DEF Items
  <2> QED
    BY <2>2, <2>3
<1> QED
  BY <1>1, <1>2, <1>c DEF Items

(* Items of one size. *)
LEMMA Uniform ==
  ASSUME NEW s, Sized(s), NEW w \in {4, 8}, \A k \in 1 .. Len(s) : s[k].size = w
  PROVE  /\ \A k \in 1 .. Len(s) + 1 : Starts(s)[k] = w * (k - 1)
         /\ Total(s) = w * Len(s)
<1>n. PICK n \in Nat : n = Len(s)
  BY DEF Sized
<1>f. PICK f : f = Starts(s)
  OBVIOUS
<1>1. /\ f \in [1 .. n + 1 -> Nat] /\ f[1] = 0
      /\ \A k \in 1 .. n : f[k + 1] = f[k] + w
  BY <1>n, <1>f, StartsSum DEF SumsUpTo
<1> DEFINE Other == {k \in 1 .. n + 1 : f[k] # w * (k - 1)}
<1>2. Other = {}
  <2> SUFFICES ASSUME Other # {} PROVE FALSE
    OBVIOUS
  <2>1. Other \subseteq Nat
    OBVIOUS
  <2>2. PICK k \in Other : \A q \in Other : k =< q
    BY <2>1, Least
  <2>3. k \in 1 .. n + 1 /\ f[k] # w * (k - 1)
    OBVIOUS
  <2>4. k # 1
    <3>1. w * (1 - 1) = 0
      OBVIOUS
    <3> QED
      BY <1>1, <2>3, <3>1
  <2>5. k - 1 \in 1 .. n /\ (k - 1) + 1 = k /\ ~(k =< k - 1)
    BY <2>3, <2>4
  <2>6. k - 1 \notin Other /\ k - 1 \in 1 .. n + 1
    BY <2>2, <2>5
  <2>7. f[k - 1] = w * ((k - 1) - 1) /\ f[k] = f[k - 1] + w
    BY <1>1, <2>5, <2>6
  <2>8. CASE w = 4
    BY <2>3, <2>7, <2>8
  <2>9. CASE w = 8
    BY <2>3, <2>7, <2>9
  <2> QED
    BY <2>8, <2>9
<1>3. Total(s) = f[n + 1] /\ n + 1 \in 1 .. n + 1 /\ (n + 1) - 1 = n
  BY <1>n, <1>f DEF Total
<1> QED
  BY <1>2, <1>3, <1>n, <1>f

(* c begins as a does. *)
Begins(c, a) ==
  /\ Len(a) =< Len(c)
  /\ \A k \in 1 .. Len(a) : c[k] = a[k] /\ Starts(c)[k] = Starts(a)[k]

(* s lies in c behind off items, from the position base on. *)
Holds(c, off, base, s) ==
  \A k \in 1 .. Len(s) :
    off + k \in 1 .. Len(c) /\ c[off + k] = s[k] /\ Starts(c)[off + k] = base + Starts(s)[k]

LEMMA JoinedBegins ==
  ASSUME NEW a, NEW b, NEW c, Items(a), Items(b), Joins(c, a, b)
  PROVE  Begins(c, a)
<1>1. Len(a) \in Nat /\ Len(b) \in Nat /\ Sized(a) /\ Sized(b)
  BY ItemsSized
<1>2. \A k \in 1 .. Len(a) + 1 : Starts(c)[k] = Starts(a)[k]
  BY <1>1, JoinedStarts
<1> QED
  BY <1>1, <1>2 DEF Begins, Joins

LEMMA BeginsMore ==
  ASSUME NEW a, NEW b, NEW c, Len(a) \in Nat, Len(b) \in Nat, Len(c) \in Nat,
         Begins(c, b), Begins(b, a)
  PROVE  Begins(c, a)
BY DEF Begins

LEMMA HoldsPart ==
  ASSUME NEW a, NEW s, NEW b, NEW c, Items(a), Items(s), Items(c), Joins(b, a, s), Begins(c, b)
  PROVE  Holds(c, Len(a), Total(a), s)
<1>1. /\ Len(a) \in Nat /\ Len(s) \in Nat /\ Sized(a) /\ Sized(s) /\ Len(c) \in Nat
      /\ Len(b) = Len(a) + Len(s) /\ Len(b) =< Len(c)
  BY ItemsSized DEF Joins, Begins
<1>2. \A k \in 1 .. Len(s) + 1 : Starts(b)[Len(a) + k] = Total(a) + Starts(s)[k]
  BY <1>1, JoinedStarts
<1>3. ASSUME NEW k \in 1 .. Len(s)
      PROVE  /\ Len(a) + k \in 1 .. Len(c) /\ c[Len(a) + k] = s[k]
             /\ Starts(c)[Len(a) + k] = Total(a) + Starts(s)[k]
  <2>1. Len(a) + k \in 1 .. Len(b) /\ k \in 1 .. Len(s) + 1 /\ Len(a) + k \in 1 .. Len(c)
    BY <1>1
  <2>2. b[Len(a) + k] = s[k]
    BY DEF Joins
  <2>3. c[Len(a) + k] = b[Len(a) + k] /\ Starts(c)[Len(a) + k] = Starts(b)[Len(a) + k]
    BY <2>1 DEF Begins
  <2> QED
    BY <1>2, <2>1, <2>2, <2>3
<1> QED
  BY <1>3 DEF Holds

(* Every item is found where it begins. *)
LEMMA ItemThere ==
  ASSUME NEW c, Items(c), NEW f, f = Laid(c), NEW i \in 1 .. Len(c)
  PROVE  /\ DOMAIN f = 1 .. Len(c) /\ f[i].pos = Starts(c)[i]
         /\ f[i].kind = c[i].kind /\ f[i].body = c[i].body /\ f[i].size = c[i].size
         /\ ItemAt(f, Starts(c)[i]) = f[i]
<1>n. PICK n \in Nat : n = Len(c)
  BY ItemsSized
<1>g. PICK g : g = Starts(c)
  OBVIOUS
<1>1. DOMAIN c = 1 .. n
  BY <1>n, ItemsSized DEF IsList
<1>2. /\ DOMAIN f = 1 .. n
      /\ \A k \in 1 .. n : /\ f[k].pos = g[k] /\ f[k].kind = c[k].kind
                           /\ f[k].size = c[k].size /\ f[k].body = c[k].body
  BY <1>1, <1>g DEF Laid
<1>3. \A k \in 1 .. n : g[k] = g[i] => k = i
  <2> SUFFICES ASSUME NEW k \in 1 .. n, g[k] = g[i], k # i PROVE FALSE
    OBVIOUS
  <2>1. i \in 1 .. n + 1 /\ k \in 1 .. n + 1 /\ (i < k \/ k < i)
    BY <1>n
  <2>2. CASE i < k
    BY <1>g, <1>n, <2>1, <2>2, Rising
  <2>3. CASE k < i
    BY <1>g, <1>n, <2>1, <2>3, Rising
  <2> QED
    BY <2>1, <2>2, <2>3
<1> DEFINE here == {k \in DOMAIN f : f[k].pos = g[i]}
<1>4. here = {i}
  BY <1>2, <1>3, <1>n
<1>5. ItemAt(f, g[i]) = f[CHOOSE k \in here : TRUE]
  BY <1>4 DEF ItemAt
<1>6. (CHOOSE k \in here : TRUE) = i
  BY <1>4
<1> QED
  BY <1>2, <1>5, <1>6, <1>n, <1>g

LEMMA HeldItem ==
  ASSUME NEW c, Items(c), NEW f, f = Laid(c), NEW off, NEW base, NEW s, Holds(c, off, base, s),
         NEW k \in 1 .. Len(s)
  PROVE  /\ ItemAt(f, base + Starts(s)[k]).kind = s[k].kind
         /\ ItemAt(f, base + Starts(s)[k]).body = s[k].body
<1>1. /\ off + k \in 1 .. Len(c) /\ c[off + k] = s[k]
      /\ Starts(c)[off + k] = base + Starts(s)[k]
  BY DEF Holds
<1>i. PICK i \in 1 .. Len(c) : i = off + k
  BY <1>1
<1>2. f[i].kind = c[i].kind /\ f[i].body = c[i].body /\ ItemAt(f, Starts(c)[i]) = f[i]
  BY ItemThere
<1> QED
  BY <1>1, <1>2, <1>i

-----------------------------------------------------------------------------
(* The parts of a file.                                                    *)

HeaderPart  == <<Item("header", HeaderSize, header)>>
MimeItems   == [i \in DOMAIN mimes |-> Mime(mimes[i])]
LastMime    == <<Mime(0)>>
UrlPtrs     == [i \in DOMAIN dirents |-> Ptr(DirentPos(i))]
TitleItems  == [i \in DOMAIN titleIdx |-> Item("idx", IdxSize, titleIdx[i])]
DirentItems == [i \in DOMAIN dirents |-> DirentItem(dirents[i])]
ClusterPtrs == [i \in DOMAIN clusterOffsets |-> Ptr(ClusterPos(i))]
DataItems   == IF isEmpty THEN <<>> ELSE tmp
Digest      == <<Item("digest", DigestSize, Laid(Body))>>

(* The items up to a part. *)
ToMimes    == HeaderPart \o MimeItems
ToMimesEnd == ToMimes \o LastMime
ToUrls     == ToMimesEnd \o UrlPtrs
ToTitles   == ToUrls \o TitleItems
ToDirents  == ToTitles \o DirentItems
ToClusters == ToDirents \o ClusterPtrs
AllItems   == Body \o Digest

LEMMA ListItems ==
  ASSUME NEW n \in Nat, NEW s, s = [i \in 1 .. n |-> s[i]],
         \A i \in 1 .. n : s[i].size \in Nat \ {0}
  PROVE  Items(s) /\ Len(s) = n
<1>1. Len(s) = n
  OBVIOUS
<1> QED
  BY <1>1 DEF Items, IsList

LEMMA OneItem ==
  ASSUME NEW kind, NEW size \in Nat \ {0}, NEW body
  PROVE  /\ Items(<<Item(kind, size, body)>>) /\ Len(<<Item(kind, size, body)>>) = 1
         /\ <<Item(kind, size, body)>>[1] = Item(kind, size, body)
         /\ Total(<<Item(kind, size, body)>>) = size
         /\ Starts(<<Item(kind, size, body)>>)[1] = 0
<1>s. PICK s : s = <<Item(kind, size, body)>>
  OBVIOUS
<1>1. Len(s) = 1 /\ s = [i \in 1 .. 1 |-> s[i]] /\ s[1] = Item(kind, size, body)
  BY <1>s
<1>2. s[1].size = size
  BY <1>1 DEF Item
<1>3. Items(s)
  BY <1>1, <1>2 DEF Items, IsList
<1>f. PICK f : f = Starts(s)
  OBVIOUS
<1>4. f[1] = 0 /\ f[1 + 1] = f[1] + s[1].size
  BY <1>1, <1>3, <1>f, ItemsSized, StartsSum DEF SumsUpTo
<1>5. Total(s) = f[1 + 1]
  BY <1>1, <1>f DEF Total
<1> QED
  BY <1>1, <1>2, <1>3, <1>4, <1>5, <1>f, <1>s

(* The size that fillHeader reckons with is the one that write makes. *)
LEMMA DirentFits ==
  ASSUME NEW d \in Dirent
  PROVE  DirentItem(d).size = DirentSize(d) /\ DirentSize(d) \in Nat \ {0}
<1>1. /\ d.url \in Nat /\ d.title \in Nat /\ d.param \in Nat /\ d.redirect \in BOOLEAN
  BY DEF Dirent
<1>u. PICK u \in Nat : u = d.url
  BY <1>1
<1>t. PICK t \in Nat : t = d.title
  BY <1>1
<1>p. PICK p \in Nat : p = d.param
  BY <1>1
<1>k. PICK k \in {12, 16} : k = IF d.redirect THEN 12 ELSE 16
  BY <1>1
<1>w. PICK w \in Nat : w = WrittenTitle(d) /\ w = IF t # u THEN t ELSE 0
  <2>1. WrittenTitle(d) = IF t # u THEN t ELSE 0
    BY <1>u, <1>t DEF WrittenTitle, TitleOf
  <2> QED
    BY <2>1
<1>2. DirentItem(d).size = k + u + 1 + w + 1 + p
  BY <1>k, <1>u, <1>w, <1>p DEF DirentItem, Item
<1>3. DirentSize(d) = k + u + p + 2 + w
  BY <1>k, <1>u, <1>t, <1>w, <1>p DEF DirentSize
<1> QED
  BY <1>2, <1>3

LEMMA PartsItems ==
  ASSUME IInv
  PROVE  /\ Items(HeaderPart) /\ Len(HeaderPart) = 1 /\ Total(HeaderPart) = HeaderSize
         /\ Items(MimeItems) /\ Len(MimeItems) = Len(mimes)
         /\ Items(LastMime) /\ Len(LastMime) = 1 /\ Total(LastMime) = 1
         /\ Items(UrlPtrs) /\ Len(UrlPtrs) = Len(dirents)
         /\ Items(TitleItems) /\ Len(TitleItems) = Len(titleIdx)
         /\ Items(DirentItems) /\ Len(DirentItems) = Len(dirents)
         /\ Items(ClusterPtrs) /\ Len(ClusterPtrs) = Len(clusterOffsets)
         /\ Items(DataItems) /\ Items(Digest) /\ Len(Digest) = 1
<1>1. /\ mimes \in Seq(Nat) /\ dirents \in Seq(Dirent) /\ titleIdx \in Seq(Nat)
      /\ clusterOffsets \in Seq(Nat) /\ tmp \in Seq(Cluster)
  BY DEF IInv, Clusters, Titles, Entries, EntriesOf
<1>2. Items(HeaderPart) /\ Len(HeaderPart) = 1 /\ Total(HeaderPart) = HeaderSize
  <2>1. HeaderSize \in Nat \ {0}
    BY DEF HeaderSize
  <2> QED
    BY <2>1, OneItem DEF HeaderPart
<1>3. Items(LastMime) /\ Len(LastMime) = 1 /\ Total(LastMime) = 1
  <2>1. Mime(0) = Item("mime", 1, 0)
    BY DEF Mime
  <2>2. 1 \in Nat \ {0}
    OBVIOUS
  <2> QED
    BY <2>1, <2>2, OneItem DEF LastMime
<1>4. Items(Digest) /\ Len(Digest) = 1
  <2>1. DigestSize \in Nat \ {0}
    BY DEF DigestSize
  <2> QED
    BY <2>1, OneItem DEF Digest
<1>5. Items(MimeItems) /\ Len(MimeItems) = Len(mimes)
  <2>s. PICK s : s = MimeItems
    OBVIOUS
  <2>n. PICK n \in Nat : n = Len(mimes) /\ DOMAIN mimes = 1 .. n
    BY <1>1
  <2>1. s = [i \in 1 .. n |-> Mime(mimes[i])]
    BY <2>s, <2>n DEF MimeItems
  <2>2. \A i \in 1 .. n : s[i] = Mime(mimes[i])
    BY <2>1
  <2>3. ASSUME NEW i \in 1 .. n PROVE s[i].size \in Nat \ {0}
    <3>1. mimes[i] \in Nat
      BY <1>1, <2>n
    <3>x. PICK x \in Nat : x = mimes[i]
      BY <3>1
    <3>2. s[i] = Mime(x)
      BY <2>2, <3>x
    <3>3. Mime(x).size = x + 1
      BY DEF Mime, Item
    <3> QED
      BY <3>2, <3>3
  <2>4. s = [i \in 1 .. n |-> s[i]]
    BY <2>1
  <2> QED
    BY <2>3, <2>4, <2>n, <2>s, ListItems
<1>6. Items(UrlPtrs) /\ Len(UrlPtrs) = Len(dirents)
  <2>s. PICK s : s = UrlPtrs
    OBVIOUS
  <2>n. PICK n \in Nat : n = Len(dirents) /\ DOMAIN dirents = 1 .. n
    BY <1>1
  <2>1. s = [i \in 1 .. n |-> Ptr(DirentPos(i))]
    BY <2>s, <2>n DEF UrlPtrs
  <2>2. \A i \in 1 .. n : s[i].size = 8
    BY <2>1 DEF Ptr, Item, PtrSize
  <2>3. s = [i \in 1 .. n |-> s[i]] /\ 8 \in Nat \ {0}
    BY <2>1
  <2> QED
    BY <2>2, <2>3, <2>n, <2>s, ListItems
<1>7. Items(TitleItems) /\ Len(TitleItems) = Len(titleIdx)
  <2>s. PICK s : s = TitleItems
    OBVIOUS
  <2>n. PICK n \in Nat : n = Len(titleIdx) /\ DOMAIN titleIdx = 1 .. n
    BY <1>1
  <2>1. s = [i \in 1 .. n |-> Item("idx", IdxSize, titleIdx[i])]
    BY <2>s, <2>n DEF TitleItems
  <2>2. \A i \in 1 .. n : s[i].size = 4
    BY <2>1 DEF Item, IdxSize
  <2>3. s = [i \in 1 .. n |-> s[i]] /\ 4 \in Nat \ {0}
    BY <2>1
  <2> QED
    BY <2>2, <2>3, <2>n, <2>s, ListItems
<1>8. Items(DirentItems) /\ Len(DirentItems) = Len(dirents)
  <2>s. PICK s : s = DirentItems
    OBVIOUS
  <2>n. PICK n \in Nat : n = Len(dirents) /\ DOMAIN dirents = 1 .. n
    BY <1>1
  <2>1. s = [i \in 1 .. n |-> DirentItem(dirents[i])]
    BY <2>s, <2>n DEF DirentItems
  <2>2. \A i \in 1 .. n : s[i] = DirentItem(dirents[i]) /\ dirents[i] \in Dirent
    BY <1>1, <2>1, <2>n
  <2>3. \A i \in 1 .. n : s[i].size \in Nat \ {0}
    BY <2>2, DirentFits
  <2>4. s = [i \in 1 .. n |-> s[i]]
    BY <2>1
  <2> QED
    BY <2>3, <2>4, <2>n, <2>s, ListItems
<1>9. Items(ClusterPtrs) /\ Len(ClusterPtrs) = Len(clusterOffsets)
  <2>s. PICK s : s = ClusterPtrs
    OBVIOUS
  <2>n. PICK n \in Nat : n = Len(clusterOffsets) /\ DOMAIN clusterOffsets = 1 .. n
    BY <1>1
  <2>1. s = [i \in 1 .. n |-> Ptr(ClusterPos(i))]
    BY <2>s, <2>n DEF ClusterPtrs
  <2>2. \A i \in 1 .. n : s[i].size = 8
    BY <2>1 DEF Ptr, Item, PtrSize
  <2>3. s = [i \in 1 .. n |-> s[i]] /\ 8 \in Nat \ {0}
    BY <2>1
  <2> QED
    BY <2>2, <2>3, <2>n, <2>s, ListItems
<1>10. Items(DataItems)
  <2>1. Items(tmp)
    <3>1. IsList(tmp) /\ \A i \in 1 .. Len(tmp) : tmp[i] \in Cluster
      BY <1>1, ListOf
    <3>2. \A c \in Cluster : c.size \in Nat \ {0}
      BY DEF Cluster
    <3> QED
      BY <3>1, <3>2 DEF Items
  <2>2. Items(<<>>)
    BY DEF Items, IsList
  <2> QED
    BY <2>1, <2>2 DEF DataItems
<1> QED
  BY <1>2, <1>3, <1>4, <1>5, <1>6, <1>7, <1>8, <1>9, <1>10

(* One part behind the other. *)
LEMMA PartsJoin ==
  ASSUME IInv
  PROVE  /\ Items(ToMimes) /\ Joins(ToMimes, HeaderPart, MimeItems)
         /\ Items(ToMimesEnd) /\ Joins(ToMimesEnd, ToMimes, LastMime)
         /\ Items(ToUrls) /\ Joins(ToUrls, ToMimesEnd, UrlPtrs)
         /\ Items(ToTitles) /\ Joins(ToTitles, ToUrls, TitleItems)
         /\ Items(ToDirents) /\ Joins(ToDirents, ToTitles, DirentItems)
         /\ Items(ToClusters) /\ Joins(ToClusters, ToDirents, ClusterPtrs)
         /\ Items(Body) /\ Joins(Body, ToClusters, DataItems)
         /\ Items(AllItems) /\ Joins(AllItems, Body, Digest)
<1>1. Items(ToMimes) /\ Joins(ToMimes, HeaderPart, MimeItems)
  BY PartsItems, JoinedItems DEF ToMimes
<1>2. Items(ToMimesEnd) /\ Joins(ToMimesEnd, ToMimes, LastMime)
  BY <1>1, PartsItems, JoinedItems DEF ToMimesEnd
<1>3. Items(ToUrls) /\ Joins(ToUrls, ToMimesEnd, UrlPtrs)
  BY <1>2, PartsItems, JoinedItems DEF ToUrls
<1>4. Items(ToTitles) /\ Joins(ToTitles, ToUrls, TitleItems)
  BY <1>3, PartsItems, JoinedItems DEF ToTitles
<1>5. Items(ToDirents) /\ Joins(ToDirents, ToTitles, DirentItems)
  BY <1>4, PartsItems, JoinedItems DEF ToDirents
<1>6. Items(ToClusters) /\ Joins(ToClusters, ToDirents, ClusterPtrs)
  BY <1>5, PartsItems, JoinedItems DEF ToClusters
<1>7. Body = ToClusters \o DataItems
  BY Zenon DEF Body, ToClusters, ToDirents, ToTitles, ToUrls, ToMimesEnd, ToMimes, HeaderPart,
     MimeItems, LastMime, UrlPtrs, TitleItems, DirentItems, ClusterPtrs, DataItems
<1>8. Items(Body) /\ Joins(Body, ToClusters, DataItems)
  BY <1>6, <1>7, PartsItems, JoinedItems
<1>9. Items(AllItems) /\ Joins(AllItems, Body, Digest)
  BY <1>8, PartsItems, JoinedItems DEF AllItems
<1> QED
  BY <1>1, <1>2, <1>3, <1>4, <1>5, <1>6, <1>8, <1>9

LEMMA PartsBegin ==
  ASSUME IInv
  PROVE  /\ Begins(AllItems, HeaderPart) /\ Begins(AllItems, ToMimes)
         /\ Begins(AllItems, ToMimesEnd) /\ Begins(AllItems, ToUrls)
         /\ Begins(AllItems, ToTitles) /\ Begins(AllItems, ToDirents)
         /\ Begins(AllItems, ToClusters) /\ Begins(AllItems, Body)
         /\ Begins(AllItems, AllItems)
<1>1. /\ Items(HeaderPart) /\ Items(ToMimes) /\ Items(ToMimesEnd) /\ Items(ToUrls)
      /\ Items(ToTitles) /\ Items(ToDirents) /\ Items(ToClusters) /\ Items(Body)
      /\ Items(AllItems)
  BY PartsItems, PartsJoin
<1>2. /\ Len(HeaderPart) \in Nat /\ Len(ToMimes) \in Nat /\ Len(ToMimesEnd) \in Nat
      /\ Len(ToUrls) \in Nat /\ Len(ToTitles) \in Nat /\ Len(ToDirents) \in Nat
      /\ Len(ToClusters) \in Nat /\ Len(Body) \in Nat /\ Len(AllItems) \in Nat
  BY <1>1, ItemsSized
<1>3. Begins(AllItems, AllItems)
  BY <1>2 DEF Begins
<1>4. Begins(AllItems, Body)
  BY <1>1, PartsItems, PartsJoin, JoinedBegins
<1>5. Begins(AllItems, ToClusters)
  <2>1. Begins(Body, ToClusters)
    BY <1>1, PartsItems, PartsJoin, JoinedBegins
  <2> QED
    BY ONLY <1>2, <1>4, <2>1, BeginsMore
<1>6. Begins(AllItems, ToDirents)
  <2>1. Begins(ToClusters, ToDirents)
    BY <1>1, PartsItems, PartsJoin, JoinedBegins
  <2> QED
    BY ONLY <1>2, <1>5, <2>1, BeginsMore
<1>7. Begins(AllItems, ToTitles)
  <2>1. Begins(ToDirents, ToTitles)
    BY <1>1, PartsItems, PartsJoin, JoinedBegins
  <2> QED
    BY ONLY <1>2, <1>6, <2>1, BeginsMore
<1>8. Begins(AllItems, ToUrls)
  <2>1. Begins(ToTitles, ToUrls)
    BY <1>1, PartsItems, PartsJoin, JoinedBegins
  <2> QED
    BY ONLY <1>2, <1>7, <2>1, BeginsMore
<1>9. Begins(AllItems, ToMimesEnd)
  <2>1. Begins(ToUrls, ToMimesEnd)
    BY <1>1, PartsItems, PartsJoin, JoinedBegins
  <2> QED
    BY ONLY <1>2, <1>8, <2>1, BeginsMore
<1>10. Begins(AllItems, ToMimes)
  <2>1. Begins(ToMimesEnd, ToMimes)
    BY <1>1, PartsItems, PartsJoin, JoinedBegins
  <2> QED
    BY ONLY <1>2, <1>9, <2>1, BeginsMore
<1>11. Begins(AllItems, HeaderPart)
  <2>1. Begins(ToMimes, HeaderPart)
    BY <1>1, PartsItems, PartsJoin, JoinedBegins
  <2> QED
    BY ONLY <1>2, <1>10, <2>1, BeginsMore
<1> QED
  BY <1>3, <1>4, <1>5, <1>6, <1>7, <1>8, <1>9, <1>10, <1>11

(* The sizes alone make the positions. *)
LEMMA SizesTotal ==
  ASSUME NEW c, Items(c), NEW m \in 0 .. Len(c),
         NEW s, s = [i \in 1 .. m |-> [size |-> c[i].size]]
  PROVE  Total(s) = Starts(c)[m + 1]
<1>n. PICK n \in Nat : n = Len(c)
  BY ItemsSized
<1>1. m \in Nat /\ m =< n /\ \A i \in 1 .. n : c[i].size \in Nat
  BY <1>n DEF Items
<1>2. Len(s) = m /\ \A i \in 1 .. m : s[i].size = c[i].size
  BY <1>1
<1>3. Sized(s)
  BY <1>1, <1>2 DEF Sized
<1>4. Sized(c) /\ m =< Len(c) /\ m =< Len(s) /\ m \in Nat
  BY <1>1, <1>2, <1>n, ItemsSized
<1>5. \A k \in 1 .. m + 1 : Starts(s)[k] = Starts(c)[k]
  BY ONLY <1>2, <1>3, <1>4, SameStarts
<1> QED
  BY <1>1, <1>2, <1>5 DEF Total

LEMMA PartSizes ==
  ASSUME IInv
  PROVE  /\ MimeListSize = 1 + Total(MimeItems)
         /\ IndexSize = Total(DirentItems)
         /\ \A i \in 1 .. Len(dirents) : DirentPos(i) = IndexPos + Starts(DirentItems)[i]
<1>1. mimes \in Seq(Nat) /\ dirents \in Seq(Dirent)
  BY DEF IInv, Clusters, Entries, EntriesOf
<1>2. MimeListSize = 1 + Total(MimeItems)
  <2>s. PICK s : s = [i \in DOMAIN mimes |-> [size |-> mimes[i] + 1]]
    OBVIOUS
  <2>m. PICK m : m = MimeItems
    OBVIOUS
  <2>n. PICK n \in Nat : n = Len(mimes) /\ DOMAIN mimes = 1 .. n
    BY <1>1
  <2>1. Items(m) /\ Len(m) = n /\ m = [i \in 1 .. n |-> Mime(mimes[i])]
    BY <2>m, <2>n, PartsItems DEF MimeItems
  <2>2. ASSUME NEW i \in 1 .. n PROVE m[i].size = mimes[i] + 1
    <3>x. PICK x : x = mimes[i]
      OBVIOUS
    <3>1. m[i] = Mime(x)
      BY <2>1, <3>x
    <3>2. Mime(x).size = x + 1
      BY DEF Mime, Item
    <3> QED
      BY <3>1, <3>2, <3>x
  <2>3. s = [i \in 1 .. n |-> [size |-> m[i].size]]
    BY <2>2, <2>n, <2>s
  <2>4. n \in 0 .. Len(m)
    BY <2>1
  <2>5. Total(s) = Starts(m)[n + 1]
    BY ONLY <2>1, <2>3, <2>4, SizesTotal
  <2> QED
    BY <2>1, <2>5, <2>m, <2>s DEF MimeListSize, Total
<1>d. PICK d : d = DirentItems
  OBVIOUS
<1>n. PICK n \in Nat : n = Len(dirents) /\ DOMAIN dirents = 1 .. n
  BY <1>1
<1>3. Items(d) /\ Len(d) = n /\ d = [i \in 1 .. n |-> DirentItem(dirents[i])]
  BY <1>d, <1>n, PartsItems DEF DirentItems
<1>4. ASSUME NEW i \in 1 .. n PROVE d[i].size = DirentSize(dirents[i])
  <2>1. d[i] = DirentItem(dirents[i]) /\ dirents[i] \in Dirent
    BY <1>1, <1>3, <1>n
  <2> QED
    BY <2>1, DirentFits
<1>5. ASSUME NEW m \in 0 .. Len(dirents),
             NEW s, s = [i \in 1 .. m |-> [size |-> DirentSize(dirents[i])]]
      PROVE  Total(s) = Starts(d)[m + 1]
  <2>1. \A i \in 1 .. m : DirentSize(dirents[i]) = d[i].size
    BY <1>4, <1>n
  <2>2. s = [i \in 1 .. m |-> [size |-> d[i].size]]
    BY <1>5, <2>1
  <2>3. m \in 0 .. Len(d)
    BY <1>3, <1>n
  <2> QED
    BY ONLY <1>3, <2>2, <2>3, SizesTotal
<1>6. IndexSize = Total(DirentItems)
  <2>s. PICK s : s = [i \in DOMAIN dirents |-> [size |-> DirentSize(dirents[i])]]
    OBVIOUS
  <2>1. /\ s = [i \in 1 .. n |-> [size |-> DirentSize(dirents[i])]]
        /\ n \in 0 .. Len(dirents)
    BY <2>s, <1>n
  <2>2. Total(s) = Starts(d)[n + 1]
    BY <1>5, <2>1
  <2> QED
    BY <1>3, <1>d, <2>2, <2>s DEF IndexSize, Total
<1>7. ASSUME NEW i \in 1 .. Len(dirents) PROVE DirentPos(i) = IndexPos + Starts(DirentItems)[i]
  <2>s. PICK s : s = [j \in 1 .. i - 1 |-> [size |-> DirentSize(dirents[j])]]
    OBVIOUS
  <2>1. i - 1 \in 0 .. Len(dirents) /\ (i - 1) + 1 = i
    BY <1>n
  <2>2. Total(s) = Starts(d)[(i - 1) + 1]
    BY <1>5, <2>1, <2>s
  <2>3. DirentPos(i) = IndexPos + Total(s)
    BY <2>s DEF DirentPos
  <2> QED
    BY <1>d, <2>1, <2>2, <2>3
<1> QED
  BY <1>2, <1>6, <1>7, <1>n

LEMMA UniformParts ==
  ASSUME IInv
  PROVE  /\ Total(UrlPtrs) = PtrSize * Len(dirents)
         /\ Total(TitleItems) = IdxSize * Len(titleIdx)
         /\ Total(ClusterPtrs) = PtrSize * Len(clusterOffsets)
         /\ \A k \in 1 .. Len(dirents) :
              Starts(UrlPtrs)[k] = PtrSize * (k - 1) /\ UrlPtrs[k] = Ptr(DirentPos(k))
         /\ \A k \in 1 .. Len(titleIdx) :
              /\ Starts(TitleItems)[k] = IdxSize * (k - 1)
              /\ TitleItems[k] = Item("idx", IdxSize, titleIdx[k])
         /\ \A k \in 1 .. Len(clusterOffsets) :
              Starts(ClusterPtrs)[k] = PtrSize * (k - 1) /\ ClusterPtrs[k] = Ptr(ClusterPos(k))
<1>1. /\ dirents \in Seq(Dirent) /\ titleIdx \in Seq(Nat) /\ clusterOffsets \in Seq(Nat)
  BY DEF IInv, Clusters, Titles, Entries, EntriesOf
<1>2. PtrSize = 8 /\ IdxSize = 4 /\ 8 \in {4, 8} /\ 4 \in {4, 8}
  BY DEF PtrSize, IdxSize
<1>u. PICK u : u = UrlPtrs
  OBVIOUS
<1>t. PICK t : t = TitleItems
  OBVIOUS
<1>c. PICK c : c = ClusterPtrs
  OBVIOUS
<1>3. \A k \in 1 .. Len(dirents) : u[k] = Ptr(DirentPos(k))
  BY <1>1, <1>u DEF UrlPtrs
<1>4. \A k \in 1 .. Len(titleIdx) : t[k] = Item("idx", IdxSize, titleIdx[k])
  BY <1>1, <1>t DEF TitleItems
<1>5. \A k \in 1 .. Len(clusterOffsets) : c[k] = Ptr(ClusterPos(k))
  BY <1>1, <1>c DEF ClusterPtrs
<1>6. /\ Sized(u) /\ Len(u) = Len(dirents) /\ Sized(t) /\ Len(t) = Len(titleIdx)
      /\ Sized(c) /\ Len(c) = Len(clusterOffsets)
  BY <1>u, <1>t, <1>c, PartsItems, ItemsSized
<1>7. /\ \A k \in 1 .. Len(u) : u[k].size = 8
      /\ \A k \in 1 .. Len(t) : t[k].size = 4
      /\ \A k \in 1 .. Len(c) : c[k].size = 8
  <2>1. \A x : Ptr(x).size = 8 /\ Item("idx", IdxSize, x).size = 4
    BY DEF Ptr, Item, PtrSize, IdxSize
  <2>2. \A k \in 1 .. Len(u) : u[k].size = 8
    BY <1>3, <1>6, <2>1
  <2>3. \A k \in 1 .. Len(t) : t[k].size = 4
    BY <1>4, <1>6, <2>1
  <2>4. \A k \in 1 .. Len(c) : c[k].size = 8
    BY <1>5, <1>6, <2>1
  <2> QED
    BY <2>2, <2>3, <2>4
<1>8. /\ \A k \in 1 .. Len(u) + 1 : Starts(u)[k] = 8 * (k - 1)
      /\ Total(u) = 8 * Len(u)
  BY ONLY <1>2, <1>6, <1>7, Uniform
<1>9. /\ \A k \in 1 .. Len(t) + 1 : Starts(t)[k] = 4 * (k - 1)
      /\ Total(t) = 4 * Len(t)
  BY ONLY <1>2, <1>6, <1>7, Uniform
<1>10. /\ \A k \in 1 .. Len(c) + 1 : Starts(c)[k] = 8 * (k - 1)
       /\ Total(c) = 8 * Len(c)
  BY ONLY <1>2, <1>6, <1>7, Uniform
<1>11. \A n \in Nat : \A k \in 1 .. n : k \in 1 .. n + 1
  OBVIOUS
<1>12. Len(u) \in Nat /\ Len(t) \in Nat /\ Len(c) \in Nat
  BY <1>6 DEF Sized
<1> QED
  BY <1>2, <1>3, <1>4, <1>5, <1>6, <1>8, <1>9, <1>10, <1>11, <1>12, <1>u, <1>t, <1>c

(* The positions of fillHeader are those of the parts. *)
LEMMA PartsEnd ==
  ASSUME IInv, LInv, pc = "done"
  PROVE  /\ Total(HeaderPart) = HeaderSize /\ Total(ToMimesEnd) = UrlPtrPos
         /\ Total(ToUrls) = TitleIdxPos /\ Total(ToTitles) = IndexPos
         /\ Total(ToDirents) = ClusterPtrPos
         /\ Total(ToClusters) = ClusterPtrPos + PtrSize * Len(clusterOffsets)
         /\ ~isEmpty \/ tmp = <<>> => Total(Body) = ChecksumPos
         /\ HeaderSize \in Nat /\ UrlPtrPos \in Nat /\ TitleIdxPos \in Nat /\ IndexPos \in Nat
         /\ ClusterPtrPos \in Nat
<1>1. /\ mimes \in Seq(Nat) /\ dirents \in Seq(Dirent) /\ tmp \in Seq(Cluster)
      /\ Len(clusterOffsets) \in Nat /\ Len(dirents) \in Nat /\ Len(titleIdx) = Len(dirents)
      /\ clustersSize = Total(tmp)
  BY DEF IInv, LInv, Clusters, Entries, EntriesOf, TitleOrder, Titled, Offsets, Finished
<1>2. /\ Sized(HeaderPart) /\ Sized(MimeItems) /\ Sized(LastMime) /\ Sized(UrlPtrs)
      /\ Sized(TitleItems) /\ Sized(DirentItems) /\ Sized(ClusterPtrs) /\ Sized(DataItems)
  BY PartsItems, ItemsSized
<1>3. /\ Sized(ToMimes) /\ Sized(ToMimesEnd) /\ Sized(ToUrls) /\ Sized(ToTitles)
      /\ Sized(ToDirents) /\ Sized(ToClusters) /\ Sized(Body)
  BY PartsJoin, ItemsSized
<1>4. /\ Total(ToMimes) = Total(HeaderPart) + Total(MimeItems)
      /\ Total(ToMimesEnd) = Total(ToMimes) + Total(LastMime)
      /\ Total(ToUrls) = Total(ToMimesEnd) + Total(UrlPtrs)
      /\ Total(ToTitles) = Total(ToUrls) + Total(TitleItems)
      /\ Total(ToDirents) = Total(ToTitles) + Total(DirentItems)
      /\ Total(ToClusters) = Total(ToDirents) + Total(ClusterPtrs)
      /\ Total(Body) = Total(ToClusters) + Total(DataItems)
  BY <1>2, <1>3, PartsJoin, JoinedStarts
<1>5. /\ Total(MimeItems) \in Nat /\ Total(DirentItems) \in Nat /\ Total(DataItems) \in Nat
  BY <1>2, TotalNatural
<1>6. MimeListSize = 1 + Total(MimeItems) /\ IndexSize = Total(DirentItems)
  BY PartSizes
<1>7. /\ Total(UrlPtrs) = 8 * Len(dirents) /\ Total(TitleItems) = 4 * Len(dirents)
      /\ Total(ClusterPtrs) = 8 * Len(clusterOffsets)
  BY <1>1, UniformParts DEF PtrSize, IdxSize
<1>8. Total(HeaderPart) = 80 /\ Total(LastMime) = 1 /\ HeaderSize = 80
  BY PartsItems DEF HeaderSize
<1>9. ~isEmpty \/ tmp = <<>> => Total(DataItems) = Total(tmp)
  BY DEF DataItems
<1>10. /\ UrlPtrPos = 80 + (1 + Total(MimeItems))
       /\ TitleIdxPos = UrlPtrPos + 8 * Len(dirents)
       /\ IndexPos = TitleIdxPos + 4 * Len(dirents)
       /\ ClusterPtrPos = IndexPos + Total(DirentItems)
       /\ ChecksumPos = ClusterPtrPos + 8 * Len(clusterOffsets) + Total(tmp)
  <2>1. Len(dirents) * 8 = 8 * Len(dirents) /\ Len(dirents) * 4 = 4 * Len(dirents)
        /\ Len(clusterOffsets) * 8 = 8 * Len(clusterOffsets)
    BY <1>1
  <2> QED
    BY <1>1, <1>6, <2>1 DEF UrlPtrPos, HeaderSize, TitleIdxPos, IndexPos, ClusterPtrPos,
       ChecksumPos, PtrSize, IdxSize
<1>11. /\ Total(tmp) \in Nat
  BY <1>1, ClustersSized, TotalNatural
<1>12. PtrSize * Len(clusterOffsets) = 8 * Len(clusterOffsets)
  BY DEF PtrSize
<1>a. PICK m \in Nat : m = Total(MimeItems)
  BY <1>5
<1>b. PICK x \in Nat : x = Total(DirentItems)
  BY <1>5
<1>c. PICK y \in Nat : y = Total(tmp)
  BY <1>11
<1>d. PICK n \in Nat : n = Len(dirents)
  BY <1>1
<1>e. PICK k \in Nat : k = Len(clusterOffsets)
  BY <1>1
<1>13. /\ Total(HeaderPart) = HeaderSize /\ Total(ToMimesEnd) = UrlPtrPos
       /\ UrlPtrPos = 81 + m
  <2>1. UrlPtrPos = 80 + (1 + m)
    BY <1>10, <1>a
  <2>2. Total(ToMimesEnd) = (80 + m) + 1
    BY <1>4, <1>8, <1>a
  <2> QED
    BY <1>8, <2>1, <2>2
<1>14. /\ Total(ToUrls) = TitleIdxPos /\ TitleIdxPos = 81 + m + 8 * n
       /\ Total(ToTitles) = IndexPos /\ IndexPos = 81 + m + 12 * n
  <2>1. TitleIdxPos = (81 + m) + 8 * n /\ IndexPos = TitleIdxPos + 4 * n
    BY <1>10, <1>13, <1>d
  <2>2. Total(ToUrls) = (81 + m) + 8 * n
    BY <1>4, <1>7, <1>13, <1>d
  <2>3. Total(ToTitles) = Total(ToUrls) + 4 * n
    BY <1>4, <1>7, <1>d
  <2> QED
    BY <2>1, <2>2, <2>3
<1>15. Total(ToDirents) = ClusterPtrPos /\ ClusterPtrPos = 81 + m + 12 * n + x
  BY <1>4, <1>10, <1>14, <1>b
<1>16. /\ Total(ToClusters) = ClusterPtrPos + 8 * k
       /\ ~isEmpty \/ tmp = <<>> => Total(Body) = ChecksumPos
  BY <1>4, <1>7, <1>9, <1>10, <1>15, <1>c, <1>e
<1>17. /\ HeaderSize \in Nat /\ UrlPtrPos \in Nat /\ TitleIdxPos \in Nat /\ IndexPos \in Nat
       /\ ClusterPtrPos \in Nat
  BY <1>8, <1>13, <1>14, <1>15
<1> QED
  BY <1>12, <1>13, <1>14, <1>15, <1>16, <1>17, <1>e

-----------------------------------------------------------------------------
(* What the reader finds in a finished file.                               *)

LEMMA FileLaid ==
  ASSUME IInv, LInv, pc = "done"
  PROVE  file = Laid(AllItems) /\ header = HeaderItem
<1>1. /\ header = HeaderItem
      /\ file = Laid(Append(Body, Item("digest", DigestSize, Laid(Body))))
  BY DEF LInv, Written
<1>x. PICK x : x = Item("digest", DigestSize, Laid(Body))
  OBVIOUS
<1>b. PICK b : b = Body
  OBVIOUS
<1>2. b \o <<x>> = Append(b, x)
  <2> DEFINE S == {b[i] : i \in 1 .. Len(b)} \cup {x}
  <2>1. Len(b) \in Nat /\ b = [i \in 1 .. Len(b) |-> b[i]]
    BY <1>b, PartsJoin DEF Items, IsList
  <2>2. b \in [1 .. Len(b) -> S]
    BY <2>1
  <2>3. b \in Seq(S) /\ x \in S
    BY <2>1, <2>2
  <2> HIDE DEF S
  <2> QED
    BY <2>3, AppendIsConcat, Zenon
<1> QED
  BY <1>1, <1>2, <1>b, <1>x DEF AllItems, Digest

LEMMA HeaderRead ==
  ASSUME IInv, LInv, pc = "done"
  PROVE  Header(file) = header
<1>1. Items(AllItems) /\ file = Laid(AllItems) /\ Begins(AllItems, HeaderPart)
  BY FileLaid, PartsJoin, PartsBegin
<1>2. Len(HeaderPart) = 1
  BY PartsItems
<1>3. HeaderPart[1] = Item("header", HeaderSize, header) /\ Starts(HeaderPart)[1] = 0
  <2>1. HeaderSize \in Nat \ {0}
    BY DEF HeaderSize
  <2> QED
    BY <2>1, OneItem DEF HeaderPart
<1>4. /\ 1 \in 1 .. Len(HeaderPart) /\ Len(HeaderPart) =< Len(AllItems)
      /\ AllItems[1] = HeaderPart[1] /\ Starts(AllItems)[1] = 0
  BY <1>1, <1>2, <1>3 DEF Begins
<1>5. 1 \in 1 .. Len(AllItems)
  BY <1>1, <1>2, <1>4, ItemsSized
<1>6. ItemAt(file, Starts(AllItems)[1]) = file[1] /\ file[1].body = AllItems[1].body
  BY <1>1, <1>5, ItemThere
<1> QED
  BY <1>3, <1>4, <1>6 DEF Header, Item

LEMMA UrlRead ==
  ASSUME IInv, LInv, pc = "done", NEW idx \in 0 .. Len(dirents) - 1
  PROVE  /\ idx + 1 \in DOMAIN dirents /\ dirents[idx + 1] \in Dirent
         /\ GetDirent(file, idx).kind = "dirent"
         /\ GetDirent(file, idx).body = DirentItem(dirents[idx + 1]).body
<1>1. /\ Items(AllItems) /\ file = Laid(AllItems) /\ header = HeaderItem
      /\ Header(file) = header
  BY FileLaid, PartsJoin, HeaderRead
<1>2. dirents \in Seq(Dirent) /\ Len(dirents) \in Nat
  BY DEF IInv, Entries, EntriesOf
<1>k. PICK k \in 1 .. Len(dirents) : k = idx + 1
  BY <1>2
<1>3. k \in DOMAIN dirents /\ dirents[k] \in Dirent /\ k - 1 = idx
  BY <1>2, <1>k
<1>4. Holds(AllItems, Len(ToMimesEnd), UrlPtrPos, UrlPtrs)
  <2>1. Holds(AllItems, Len(ToMimesEnd), Total(ToMimesEnd), UrlPtrs)
    BY PartsItems, PartsJoin, PartsBegin, HoldsPart
  <2> QED
    BY <2>1, PartsEnd
<1>5. Holds(AllItems, Len(ToTitles), IndexPos, DirentItems)
  <2>1. Holds(AllItems, Len(ToTitles), Total(ToTitles), DirentItems)
    BY PartsItems, PartsJoin, PartsBegin, HoldsPart
  <2> QED
    BY <2>1, PartsEnd
<1>6. /\ k \in 1 .. Len(UrlPtrs) /\ UrlPtrs[k] = Ptr(DirentPos(k))
      /\ Starts(UrlPtrs)[k] = PtrSize * idx
  BY <1>3, PartsItems, UniformParts
<1>7. /\ ItemAt(file, UrlPtrPos + Starts(UrlPtrs)[k]).kind = UrlPtrs[k].kind
      /\ ItemAt(file, UrlPtrPos + Starts(UrlPtrs)[k]).body = UrlPtrs[k].body
  BY <1>1, <1>4, <1>6, HeldItem
<1>8. GetOffset(file, UrlPtrPos, idx).kind = "ptr" /\ GetOffset(file, UrlPtrPos, idx).body = DirentPos(k)
  BY <1>6, <1>7 DEF GetOffset, Ptr, Item
<1>9. Header(file).urlPtrPos = UrlPtrPos
  BY <1>1 DEF HeaderItem
<1>10. GetDirent(file, idx) = ItemAt(file, DirentPos(k))
  BY <1>8, <1>9 DEF GetDirent, Follow
<1>11. /\ k \in 1 .. Len(DirentItems) /\ DirentItems[k] = DirentItem(dirents[k])
       /\ DirentPos(k) = IndexPos + Starts(DirentItems)[k]
  BY <1>3, PartsItems, PartSizes DEF DirentItems
<1>12. /\ ItemAt(file, IndexPos + Starts(DirentItems)[k]).kind = DirentItems[k].kind
       /\ ItemAt(file, IndexPos + Starts(DirentItems)[k]).body = DirentItems[k].body
  BY <1>1, <1>5, <1>11, HeldItem
<1>13. DirentItem(dirents[k]).kind = "dirent"
  BY DEF DirentItem, Item
<1> QED
  BY <1>3, <1>10, <1>11, <1>12, <1>13, <1>k

LEMMA TitleRead ==
  ASSUME IInv, LInv, pc = "done", NEW idx \in 0 .. Len(titleIdx) - 1
  PROVE  GetIndexByTitle(file, idx).body = titleIdx[idx + 1]
<1>1. /\ Items(AllItems) /\ file = Laid(AllItems) /\ header = HeaderItem
      /\ Header(file) = header
  BY FileLaid, PartsJoin, HeaderRead
<1>2. titleIdx \in Seq(Nat) /\ Len(titleIdx) \in Nat
  BY DEF IInv, Titles
<1>k. PICK k \in 1 .. Len(titleIdx) : k = idx + 1
  BY <1>2
<1>3. k - 1 = idx
  BY <1>2, <1>k
<1>4. Holds(AllItems, Len(ToUrls), TitleIdxPos, TitleItems)
  <2>1. Holds(AllItems, Len(ToUrls), Total(ToUrls), TitleItems)
    BY PartsItems, PartsJoin, PartsBegin, HoldsPart
  <2> QED
    BY <2>1, PartsEnd
<1>5. /\ k \in 1 .. Len(TitleItems) /\ TitleItems[k] = Item("idx", IdxSize, titleIdx[k])
      /\ Starts(TitleItems)[k] = IdxSize * idx
  BY <1>3, PartsItems, UniformParts
<1>6. ItemAt(file, TitleIdxPos + Starts(TitleItems)[k]).body = TitleItems[k].body
  BY <1>1, <1>4, <1>5, HeldItem
<1>7. Header(file).titleIdxPos = TitleIdxPos
  BY <1>1 DEF HeaderItem
<1>8. Item("idx", IdxSize, titleIdx[k]).body = titleIdx[k]
  BY DEF Item
<1> QED
  BY <1>5, <1>6, <1>7, <1>8, <1>k DEF GetIndexByTitle

(* With data in the file, or without clusters. *)
LEMMA ClusterRead ==
  ASSUME IInv, LInv, pc = "done", ~isEmpty \/ tmp = <<>>, NEW idx \in 0 .. Len(tmp) - 1
  PROVE  /\ GetClusterOffset(file, idx).body = ClusterPos(idx + 1)
         /\ GetCluster(file, idx).kind = "cluster"
         /\ GetCluster(file, idx).body = tmp[idx + 1].body
<1>1. /\ Items(AllItems) /\ file = Laid(AllItems) /\ header = HeaderItem
      /\ Header(file) = header
  BY FileLaid, PartsJoin, HeaderRead
<1>2. tmp \in Seq(Cluster) /\ Len(tmp) \in Nat /\ Len(clusterOffsets) = Len(tmp)
  BY DEF IInv, Clusters
<1>k. PICK k \in 1 .. Len(tmp) : k = idx + 1
  BY <1>2
<1>3. k - 1 = idx /\ k \in DOMAIN tmp
  BY <1>2, <1>k
<1>4. Holds(AllItems, Len(ToDirents), ClusterPtrPos, ClusterPtrs)
  <2>1. Holds(AllItems, Len(ToDirents), Total(ToDirents), ClusterPtrs)
    BY PartsItems, PartsJoin, PartsBegin, HoldsPart
  <2> QED
    BY <2>1, PartsEnd
<1>5. Holds(AllItems, Len(ToClusters), ClusterPtrPos + PtrSize * Len(clusterOffsets), tmp)
  <2>1. Holds(AllItems, Len(ToClusters), Total(ToClusters), DataItems)
    BY PartsItems, PartsJoin, PartsBegin, HoldsPart
  <2>2. DataItems = tmp
    BY DEF DataItems
  <2> QED
    BY <2>1, <2>2, PartsEnd
<1>6. /\ k \in 1 .. Len(ClusterPtrs) /\ ClusterPtrs[k] = Ptr(ClusterPos(k))
      /\ Starts(ClusterPtrs)[k] = PtrSize * idx
  BY <1>2, <1>3, PartsItems, UniformParts
<1>7. /\ ItemAt(file, ClusterPtrPos + Starts(ClusterPtrs)[k]).kind = ClusterPtrs[k].kind
      /\ ItemAt(file, ClusterPtrPos + Starts(ClusterPtrs)[k]).body = ClusterPtrs[k].body
  BY <1>1, <1>4, <1>6, HeldItem
<1>8. /\ GetOffset(file, ClusterPtrPos, idx).kind = "ptr"
      /\ GetOffset(file, ClusterPtrPos, idx).body = ClusterPos(k)
  BY <1>6, <1>7 DEF GetOffset, Ptr, Item
<1>9. Header(file).clusterPtrPos = ClusterPtrPos
  BY <1>1 DEF HeaderItem
<1>10. GetCluster(file, idx) = ItemAt(file, ClusterPos(k)) /\ GetClusterOffset(file, idx).body = ClusterPos(k)
  BY <1>8, <1>9 DEF GetCluster, GetClusterOffset, Follow
<1>11. ClusterPos(k) = ClusterPtrPos + PtrSize * Len(clusterOffsets) + Starts(tmp)[k]
  <2>1. clusterOffsets[k] = Starts(tmp)[k]
    BY <1>3 DEF LInv, Offsets
  <2>2. Len(clusterOffsets) * PtrSize = PtrSize * Len(clusterOffsets)
    BY <1>2 DEF PtrSize
  <2> QED
    BY <2>1, <2>2 DEF ClusterPos
<1>12. /\ ItemAt(file, ClusterPos(k)).kind = tmp[k].kind
       /\ ItemAt(file, ClusterPos(k)).body = tmp[k].body
  BY <1>1, <1>5, <1>11, HeldItem
<1>13. tmp[k].kind = "cluster"
  <2>1. tmp[k] \in Cluster
    BY <1>2, <1>3
  <2> QED
    BY <2>1 DEF Cluster
<1> QED
  BY <1>10, <1>12, <1>13, <1>k

(* What the reader makes of an entry. *)
LEMMA EntryFields ==
  ASSUME NEW d \in Dirent, NEW b, b = DirentItem(d).body
  PROVE  /\ b.ns = d.ns /\ b.url = d.url /\ b.param = d.param % 256 /\ TitleOf(b) = TitleOf(d)
         /\ d.redirect => b.mime = RedirectMime /\ b.where[1] = d.redirectIndex
         /\ ~d.redirect => b.mime = d.mime /\ b.where[1] = d.cluster /\ b.where[2] = d.blob
<1>1. b = [mime  |-> IF d.redirect THEN RedirectMime ELSE d.mime,
           where |-> IF d.redirect THEN <<d.redirectIndex>> ELSE <<d.cluster, d.blob>>,
           ns    |-> d.ns,
           url   |-> d.url,
           title |-> WrittenTitle(d),
           param |-> d.param % 256]
  BY DEF DirentItem, Item
<1>w. PICK w : w = WrittenTitle(d)
  OBVIOUS
<1>2. /\ b.ns = d.ns /\ b.url = d.url /\ b.param = d.param % 256 /\ b.title = w
      /\ b.mime = IF d.redirect THEN RedirectMime ELSE d.mime
      /\ b.where = IF d.redirect THEN <<d.redirectIndex>> ELSE <<d.cluster, d.blob>>
  BY <1>1, <1>w
<1>3. TitleOf(b) = TitleOf(d)
  BY <1>2, <1>w DEF TitleOf, WrittenTitle
<1>4. d.redirect => b.where[1] = d.redirectIndex
  BY <1>2
<1>5. ~d.redirect => b.where[1] = d.cluster /\ b.where[2] = d.blob
  BY <1>2
<1> QED
  BY <1>2, <1>3, <1>4, <1>5

LEMMA EntryRead ==
  ASSUME IInv, LInv, pc = "done", NEW i \in DOMAIN dirents
  PROVE  /\ i - 1 \in 0 .. Header(file).articleCount - 1
         /\ Entry(i - 1) = DirentItem(dirents[i]).body
         /\ GetDirent(file, i - 1).kind = "dirent"
<1>1. dirents \in Seq(Dirent) /\ Len(dirents) \in Nat /\ DOMAIN dirents = 1 .. Len(dirents)
  BY DEF IInv, Entries, EntriesOf
<1>2. i - 1 \in 0 .. Len(dirents) - 1 /\ (i - 1) + 1 = i
  BY <1>1
<1>3. Header(file).articleCount = Len(dirents)
  BY FileLaid, HeaderRead DEF HeaderItem
<1>j. PICK j : j = i - 1
  OBVIOUS
<1>4. /\ GetDirent(file, j).kind = "dirent"
      /\ GetDirent(file, j).body = DirentItem(dirents[j + 1]).body
  BY <1>2, <1>j, UrlRead
<1> QED
  BY <1>2, <1>3, <1>4, <1>j DEF Entry

LEMMA Ordering ==
  ASSUME IInv, LInv
  PROVE  ListsInOrder
<1> SUFFICES ASSUME pc = "done" PROVE ListsInOrder
  BY DEF ListsInOrder, Done
<1>n. PICK n \in Nat : n = Len(dirents)
  BY DEF IInv, Entries, EntriesOf
<1>1. /\ dirents \in Seq(Dirent) /\ DOMAIN dirents = 1 .. n
      /\ titleIdx \in Seq(Nat) /\ \A i \in DOMAIN titleIdx : titleIdx[i] < n
  BY <1>n DEF IInv, Entries, EntriesOf, Titles
<1>2. /\ \A i, j \in DOMAIN dirents : i < j => CompareUrl(dirents[i], dirents[j])
      /\ Len(titleIdx) = n
      /\ \A k \in 0 .. n - 1 : \E i \in DOMAIN titleIdx : titleIdx[i] = k
      /\ \A i, j \in DOMAIN titleIdx : i < j => ~CompareTitle(titleIdx[j], titleIdx[i])
  BY <1>n DEF LInv, UrlOrder, TitleOrder, Translated, Titled
<1>3. Header(file).articleCount = n
  BY <1>n, FileLaid, HeaderRead DEF HeaderItem
<1>4. ASSUME NEW i \in 0 .. n - 1
      PROVE  /\ Entry(i).ns = dirents[i + 1].ns /\ Entry(i).url = dirents[i + 1].url
             /\ TitleOf(Entry(i)) = TitleOf(dirents[i + 1])
             /\ dirents[i + 1] \in Dirent /\ i + 1 \in DOMAIN dirents
  <2>1. dirents[i + 1] \in Dirent /\ i + 1 \in DOMAIN dirents
    BY <1>1
  <2>2. Entry(i) = DirentItem(dirents[i + 1]).body
    BY <1>n, UrlRead DEF Entry
  <2> QED
    BY <2>1, <2>2, EntryFields
<1>5. ASSUME NEW k \in 0 .. n - 1
      PROVE  /\ GetIndexByTitle(file, k).body = titleIdx[k + 1]
             /\ k + 1 \in DOMAIN titleIdx /\ titleIdx[k + 1] \in 0 .. n - 1
  <2>1. k + 1 \in DOMAIN titleIdx /\ k \in 0 .. Len(titleIdx) - 1
    BY <1>1, <1>2
  <2>2. titleIdx[k + 1] \in Nat /\ titleIdx[k + 1] < n
    BY <1>1, <2>1
  <2> QED
    BY <2>1, <2>2, TitleRead
<1>6. ASSUME NEW idx \in 1 .. n - 1 PROVE CompareUrl(Entry(idx - 1), Entry(idx))
  <2>1. /\ idx - 1 \in 0 .. n - 1 /\ idx \in 0 .. n - 1 /\ (idx - 1) + 1 = idx
        /\ idx < idx + 1
    OBVIOUS
  <2>2. CompareUrl(dirents[idx], dirents[idx + 1])
    <3>1. idx \in DOMAIN dirents /\ idx + 1 \in DOMAIN dirents
      BY <1>1, <2>1
    <3> QED
      BY <1>2, <2>1, <3>1
  <2>3. /\ Entry(idx - 1).ns = dirents[idx].ns /\ Entry(idx - 1).url = dirents[idx].url
        /\ Entry(idx).ns = dirents[idx + 1].ns /\ Entry(idx).url = dirents[idx + 1].url
    BY <1>4, <2>1
  <2> QED
    BY <2>2, <2>3 DEF CompareUrl
<1>7. {GetIndexByTitle(file, k).body : k \in 0 .. n - 1} = 0 .. n - 1
  <2>1. \A k \in 0 .. n - 1 : GetIndexByTitle(file, k).body \in 0 .. n - 1
    BY <1>5
  <2>2. ASSUME NEW v \in 0 .. n - 1
        PROVE  \E k \in 0 .. n - 1 : GetIndexByTitle(file, k).body = v
    <3>1. PICK i \in DOMAIN titleIdx : titleIdx[i] = v
      BY <1>2
    <3>2. i \in 1 .. n
      BY <1>1, <1>2
    <3>3. i - 1 \in 0 .. n - 1 /\ (i - 1) + 1 = i
      BY <3>2
    <3> QED
      BY <1>5, <3>1, <3>3
  <2> QED
    BY <2>1, <2>2
<1>8. ASSUME NEW k \in 1 .. n - 1
      PROVE  LET e == Entry(GetIndexByTitle(file, k - 1).body)
                 f == Entry(GetIndexByTitle(file, k).body)
             IN e.ns < f.ns \/ (e.ns = f.ns /\ TitleOf(e) =< TitleOf(f))
  <2>1. /\ k - 1 \in 0 .. n - 1 /\ k \in 0 .. n - 1 /\ (k - 1) + 1 = k /\ k < k + 1
    OBVIOUS
  <2>p. PICK p \in 0 .. n - 1 : p = titleIdx[k]
    BY <1>5, <2>1
  <2>q. PICK q \in 0 .. n - 1 : q = titleIdx[k + 1]
    BY <1>5, <2>1
  <2>2. GetIndexByTitle(file, k - 1).body = p /\ GetIndexByTitle(file, k).body = q
    BY <1>5, <2>1, <2>p, <2>q
  <2>3. ~CompareTitle(q, p)
    <3>1. k \in DOMAIN titleIdx /\ k + 1 \in DOMAIN titleIdx
      BY <1>5, <2>1
    <3> QED
      BY <1>2, <2>1, <2>p, <2>q, <3>1
  <2>d. PICK d : d = dirents[p + 1]
    OBVIOUS
  <2>e. PICK e : e = dirents[q + 1]
    OBVIOUS
  <2>4. ~(e.ns < d.ns \/ (e.ns = d.ns /\ TitleOf(e) < TitleOf(d)))
    BY <2>3, <2>d, <2>e DEF CompareTitle
  <2>5. d \in Dirent /\ e \in Dirent
    BY <1>4, <2>d, <2>e
  <2>6. d.ns \in Nat /\ e.ns \in Nat /\ TitleOf(d) \in Nat /\ TitleOf(e) \in Nat
    BY <2>5 DEF Dirent, TitleOf
  <2>7. d.ns < e.ns \/ (d.ns = e.ns /\ TitleOf(d) =< TitleOf(e))
    BY <2>4, <2>6
  <2>8. /\ Entry(p).ns = d.ns /\ TitleOf(Entry(p)) = TitleOf(d)
        /\ Entry(q).ns = e.ns /\ TitleOf(Entry(q)) = TitleOf(e)
    BY <1>4, <2>d, <2>e
  <2> QED
    BY <2>2, <2>7, <2>8
<1> QED
  BY <1>3, <1>6, <1>7, <1>8 DEF ListsInOrder

(* Both lists of a finished file are in order: the entries by namespace    *)
(* and url, no two alike, and the title index, which lists every entry     *)
(* once, by namespace and title as the reader reads them back.  The reader *)
(* looks both up by binary search (fileimpl.cpp).                          *)
THEOREM ListsTheorem == Spec => []ListsInOrder
BY Layout, Ordering, PTL

(* An entry's index leads to the entry of its article. *)
LEMMA Leading ==
  ASSUME IInv, LInv, pc = "done", NEW j \in DOMAIN dirents
  PROVE  /\ dirents[j] \in Dirent /\ dirents[j].idx = j - 1
         /\ LeadsTo(dirents[j].idx, dirents[j].aid)
<1>1. /\ dirents \in Seq(Dirent) /\ \E k \in DOMAIN articles : OfArticle(dirents[j], articles[k])
  BY DEF IInv, Entries, EntriesOf, EntryOf
<1>d. PICK d : d = dirents[j]
  OBVIOUS
<1>k. PICK k \in DOMAIN articles : OfArticle(d, articles[k])
  BY <1>1, <1>d
<1>2. d \in Dirent /\ d.idx = j - 1
  BY <1>1, <1>d DEF LInv, UrlOrder, Translated
<1>3. GetDirent(file, j - 1).kind = "dirent" /\ Entry(j - 1) = DirentItem(d).body
  BY <1>d, EntryRead
<1>4. Entry(j - 1).ns = d.ns /\ Entry(j - 1).url = d.url
  BY <1>2, <1>3, EntryFields
<1>5. LeadsTo(j - 1, d.aid)
  BY <1>3, <1>4, <1>k DEF LeadsTo, OfArticle, Entry
<1> QED
  BY <1>2, <1>5, <1>d

LEMMA Redirecting ==
  ASSUME IInv, LInv
  PROVE  RedirectsLead
<1> SUFFICES ASSUME pc = "done", NEW i \in DOMAIN articles,
                    articles[i].redirect, articles[i].aid \in Aids(dirents)
             PROVE  \E idx \in 0 .. Header(file).articleCount - 1 :
                      /\ LeadsTo(idx, articles[i].aid)
                      /\ IsRedirect(Entry(idx))
                      /\ LeadsTo(Entry(idx).where[1], articles[i].redirectAid)
  BY DEF RedirectsLead, Done
<1>1. PICK j \in DOMAIN dirents : dirents[j].aid = articles[i].aid
  BY DEF Aids
<1>d. PICK d : d = dirents[j]
  OBVIOUS
<1>2. OfArticle(d, articles[i])
  <2>1. PICK k \in DOMAIN articles : OfArticle(d, articles[k])
    BY <1>d DEF IInv, Entries, EntriesOf, EntryOf
  <2>2. articles[k].aid = articles[i].aid
    BY <1>1, <1>d, <2>1 DEF OfArticle
  <2>3. k = i
    BY <2>2 DEF IInv, ArticlesSound, AidsOnce
  <2> QED
    BY <2>1, <2>3
<1>3. d.redirect /\ d.redirectAid = articles[i].redirectAid /\ d.aid = articles[i].aid
  BY <1>2 DEF OfArticle
<1>4. PICK q \in DOMAIN dirents :
        dirents[q].aid = d.redirectAid /\ dirents[q].idx = d.redirectIndex
  BY <1>3, <1>d DEF LInv, Redirected, Translated
<1>5. d \in Dirent /\ d.idx = j - 1 /\ LeadsTo(j - 1, d.aid)
  BY <1>d, Leading
<1>6. LeadsTo(d.redirectIndex, d.redirectAid)
  BY <1>4, Leading
<1>7. /\ j - 1 \in 0 .. Header(file).articleCount - 1
      /\ Entry(j - 1) = DirentItem(d).body
  BY <1>d, EntryRead
<1>8. Entry(j - 1).mime = RedirectMime /\ Entry(j - 1).where[1] = d.redirectIndex
  BY <1>3, <1>5, <1>7, EntryFields
<1> QED
  BY <1>3, <1>5, <1>6, <1>7, <1>8 DEF IsRedirect

LEMMA PageLeads ==
  ASSUME IInv, LInv, pc = "done", NEW aid
  PROVE  IF aid \in Aids(dirents) THEN LeadsTo(PageIndex(aid), aid)
         ELSE PageIndex(aid) = NoArticle
<1>1. CASE aid \notin Aids(dirents)
  BY <1>1 DEF Aids, PageIndex
<1>2. CASE aid \in Aids(dirents)
  <2> DEFINE P(i) == dirents[i].aid = aid
  <2>1. \E i \in DOMAIN dirents : P(i)
    BY <1>2 DEF Aids
  <2>c. PICK c : c = CHOOSE i \in DOMAIN dirents : P(i)
    OBVIOUS
  <2>2. PageIndex(aid) = dirents[c].idx
    BY <2>1, <2>c DEF PageIndex
  <2> HIDE DEF P
  <2>3. c \in DOMAIN dirents /\ P(c)
    BY <2>1, <2>c, Zenon
  <2>4. dirents[c].aid = aid
    BY <2>3 DEF P
  <2>5. LeadsTo(dirents[c].idx, dirents[c].aid)
    BY <2>3, Leading
  <2> QED
    BY <1>2, <2>2, <2>4, <2>5
<1> QED
  BY <1>1, <1>2

LEMMA Paging ==
  ASSUME IInv, LInv
  PROVE  PagesLead
<1> SUFFICES ASSUME pc = "done" PROVE PagesLead
  BY DEF PagesLead, Done
<1>1. /\ Header(file).mainPage = PageIndex(MainAid)
      /\ Header(file).layoutPage = PageIndex(LayoutAid)
  BY FileLaid, HeaderRead DEF HeaderItem
<1>2. /\ IF MainAid \in Aids(dirents) THEN LeadsTo(PageIndex(MainAid), MainAid)
         ELSE PageIndex(MainAid) = NoArticle
      /\ IF LayoutAid \in Aids(dirents) THEN LeadsTo(PageIndex(LayoutAid), LayoutAid)
         ELSE PageIndex(LayoutAid) = NoArticle
  BY PageLeads
<1> QED
  BY <1>1, <1>2 DEF PagesLead

(* Every index in a finished file leads to the entry of the article that   *)
(* the source named by its aid: a redirect's through three sorts and a     *)
(* renumbering, the header's main page and layout page.                    *)
THEOREM IndicesTheorem == Spec => []IndicesLead
<1>1. IInv /\ LInv => IndicesLead
  BY Redirecting, Paging DEF IndicesLead
<1> QED
  BY <1>1, Layout, PTL

-----------------------------------------------------------------------------
(* The articles, and the file as a whole.                                  *)

(* The list of mime types is read back as it was written. *)
LEMMA MimesRead ==
  ASSUME IInv, LInv, pc = "done"
  PROVE  \A i \in 1 .. Len(mimes) : MimeTypes(file)[i] = mimes[i]
<1>1. /\ Items(AllItems) /\ file = Laid(AllItems) /\ header = HeaderItem
      /\ Header(file) = header
  BY FileLaid, PartsJoin, HeaderRead
<1>2. mimes \in Seq(Nat) /\ \A i \in DOMAIN mimes : mimes[i] # 0
  BY DEF IInv, Clusters, LInv, MimesRight
<1>n. PICK n \in Nat : n = Len(mimes) /\ DOMAIN mimes = 1 .. n
  BY <1>2
<1>3. /\ Holds(AllItems, Len(HeaderPart), Total(HeaderPart), MimeItems)
      /\ Holds(AllItems, Len(ToMimes), Total(ToMimes), LastMime)
  BY PartsItems, PartsJoin, PartsBegin, HoldsPart
<1>4. /\ Len(HeaderPart) = 1 /\ Len(MimeItems) = n /\ Len(LastMime) = 1
      /\ Len(ToMimes) = 1 + n
  <2>1. Len(HeaderPart) = 1 /\ Len(MimeItems) = n /\ Len(LastMime) = 1
    BY <1>n, PartsItems
  <2>2. Len(ToMimes) = Len(HeaderPart) + Len(MimeItems)
    BY PartsJoin DEF Joins
  <2> QED
    BY <2>1, <2>2
<1>a. PICK a : a = AllItems
  OBVIOUS
<1>5. ASSUME NEW i \in 1 .. n
      PROVE  1 + i \in 1 .. Len(a) /\ a[1 + i].body = mimes[i]
  <2>1. 1 + i \in 1 .. Len(a) /\ a[1 + i] = MimeItems[i]
    BY <1>3, <1>4, <1>a DEF Holds
  <2>2. MimeItems[i] = Mime(mimes[i])
    BY <1>n DEF MimeItems
  <2>3. Mime(mimes[i]).body = mimes[i]
    BY DEF Mime, Item
  <2> QED
    BY <2>1, <2>2, <2>3
<1>6. (1 + n) + 1 \in 1 .. Len(a) /\ a[(1 + n) + 1].body = 0
  <2>1. (1 + n) + 1 \in 1 .. Len(a) /\ a[(1 + n) + 1] = LastMime[1]
    BY <1>3, <1>4, <1>a DEF Holds
  <2>2. LastMime[1].body = 0
    BY DEF LastMime, Mime, Item
  <2> QED
    BY <2>1, <2>2
<1>f. PICK f : f = file
  OBVIOUS
<1>7. /\ DOMAIN f = 1 .. Len(a) /\ Len(f) = Len(a) /\ Len(a) \in Nat
      /\ \A k \in 1 .. Len(a) : f[k].body = a[k].body /\ f[k].pos = Starts(a)[k]
  <2>1. Len(a) \in Nat
    BY <1>1, <1>a, ItemsSized
  <2>2. 1 \in 1 .. Len(a)
    BY <1>6, <2>1
  <2>3. /\ DOMAIN f = 1 .. Len(a)
        /\ \A k \in 1 .. Len(a) : f[k].body = a[k].body /\ f[k].pos = Starts(a)[k]
    BY <1>1, <1>a, <1>f, <2>2, ItemThere
  <2>4. Len(f) = Len(a)
    <3>1. DOMAIN a = 1 .. Len(a)
      BY <1>1, <1>a DEF Items, IsList
    <3>s. PICK s : s = Starts(a)
      OBVIOUS
    <3>2. f = [k \in 1 .. Len(a) |-> [pos |-> s[k], kind |-> a[k].kind,
                                      size |-> a[k].size, body |-> a[k].body]]
      BY <1>1, <1>a, <1>f, <3>1, <3>s DEF Laid
    <3> QED
      BY <2>1, <3>2
  <2> QED
    BY <2>1, <2>3, <2>4
<1>s. PICK s : s = Starts(a)
  OBVIOUS
<1>8. s[2] = 80 /\ \A k \in 1 .. Len(a) : s[k] = 80 => k = 2
  <2>1. a[1] = HeaderPart[1] /\ Starts(HeaderPart)[1] = 0 /\ s[1] = Starts(HeaderPart)[1]
    <3>1. Begins(a, HeaderPart) /\ 1 \in 1 .. Len(HeaderPart)
      BY <1>4, <1>a, PartsBegin
    <3>2. Starts(HeaderPart)[1] = 0
      <4>1. HeaderSize \in Nat \ {0}
        BY DEF HeaderSize
      <4> QED
        BY <4>1, OneItem DEF HeaderPart
    <3> QED
      BY <3>1, <3>2, <1>s DEF Begins
  <2>2. a[1].size = 80
    BY <2>1 DEF HeaderPart, Item, HeaderSize
  <2>3. s[1 + 1] = s[1] + a[1].size
    <3>1. Sized(a) /\ 1 \in 1 .. Len(a) /\ Len(a) \in Nat
      BY <1>1, <1>6, <1>7, <1>a, ItemsSized
    <3> QED
      BY <3>1, <1>s, StartsSum DEF SumsUpTo
  <2>4. s[2] = 80
    BY <2>1, <2>2, <2>3
  <2>5. ASSUME NEW k \in 1 .. Len(a), s[k] = 80, k # 2 PROVE FALSE
    <3>1. 2 \in 1 .. Len(a) + 1 /\ k \in 1 .. Len(a) + 1 /\ (k < 2 \/ 2 < k)
      BY <1>6, <1>7, <2>5
    <3>2. CASE k < 2
      <4>1. s[k] < s[2]
        BY <1>1, <1>a, <1>s, <3>1, <3>2, Rising
      <4> QED
        BY <2>4, <2>5, <4>1
    <3>3. CASE 2 < k
      <4>1. s[2] < s[k]
        BY <1>1, <1>a, <1>s, <3>1, <3>3, Rising
      <4> QED
        BY <2>4, <2>5, <4>1
    <3> QED
      BY <3>1, <3>2, <3>3
  <2> QED
    BY <2>4, <2>5
<1> DEFINE Opens(k) == f[k].pos = Header(f).mimeListPos
           Closes(k) == f[k].body = 0 /\ \A j \in 2 .. k - 1 : f[j].body # 0
<1>9. Header(f).mimeListPos = 80
  BY <1>1, <1>f DEF HeaderItem, HeaderSize
<1>10. (CHOOSE k \in DOMAIN f : Opens(k)) = 2
  <2>1. \A k \in DOMAIN f : Opens(k) <=> k = 2
    BY <1>7, <1>8, <1>9, <1>s
  <2>2. 2 \in DOMAIN f
    BY <1>6, <1>7
  <2> HIDE DEF Opens
  <2> QED
    BY <2>1, <2>2, Zenon
<1>11. (CHOOSE k \in 2 .. Len(f) : Closes(k)) = n + 2
  <2>1. n + 2 \in 2 .. Len(f) /\ f[n + 2].body = 0
    BY <1>6, <1>7
  <2>2. ASSUME NEW j \in 2 .. n + 1 PROVE f[j].body # 0
    <3>i. PICK i \in 1 .. n : i = j - 1
      OBVIOUS
    <3>1. j \in 1 .. Len(a) /\ a[j].body = mimes[i] /\ mimes[i] # 0
      BY <1>2, <1>5, <1>n, <3>i
    <3> QED
      BY <1>7, <3>1
  <2>3. Closes(n + 2)
    BY <2>1, <2>2
  <2>4. ASSUME NEW k \in 2 .. Len(f), Closes(k), k # n + 2 PROVE FALSE
    <3>1. k < n + 2 \/ n + 2 < k
      BY <1>7, <2>4
    <3>2. CASE k < n + 2
      <4>1. k \in 2 .. n + 1
        BY <1>7, <3>2
      <4> QED
        BY <2>2, <2>4, <4>1
    <3>3. CASE n + 2 < k
      <4>1. n + 2 \in 2 .. k - 1
        BY <1>7, <3>3
      <4> QED
        BY <2>1, <2>4, <4>1
    <3> QED
      BY <3>1, <3>2, <3>3
  <2>5. \A k \in 2 .. Len(f) : Closes(k) <=> k = n + 2
    BY <2>3, <2>4
  <2> HIDE DEF Closes
  <2> QED
    BY <2>1, <2>5, Zenon
<1>12. MimeTypes(f) = [i \in 1 .. (n + 2) - 2 |-> f[2 + i - 1].body]
  <2>p. PICK p : p = CHOOSE k \in DOMAIN f : f[k].pos = Header(f).mimeListPos
    OBVIOUS
  <2>q. PICK q : q = CHOOSE k \in p .. Len(f) :
                       f[k].body = 0 /\ \A j \in p .. k - 1 : f[j].body # 0
    OBVIOUS
  <2>1. MimeTypes(f) = [i \in 1 .. q - p |-> f[p + i - 1].body]
    <3>1. MimeTypes(f) =
            LET last == CHOOSE k \in p .. Len(f) :
                          f[k].body = 0 /\ \A j \in p .. k - 1 : f[j].body # 0
            IN [i \in 1 .. last - p |-> f[p + i - 1].body]
      BY ONLY <2>p DEF MimeTypes
    <3> QED
      BY ONLY <2>q, <3>1
  <2>2. p = 2
    BY <1>10, <2>p, Zenon
  <2>3. q = n + 2
    BY <1>11, <2>2, <2>q, Zenon
  <2> QED
    BY <2>1, <2>2, <2>3, Zenon
<1>13. ASSUME NEW i \in 1 .. n PROVE MimeTypes(f)[i] = mimes[i]
  <2>1. i \in 1 .. (n + 2) - 2 /\ 2 + i - 1 = 1 + i
    OBVIOUS
  <2>2. MimeTypes(f)[i] = f[1 + i].body
    BY <1>12, <2>1
  <2> QED
    BY <1>5, <1>7, <2>2
<1> QED
  BY <1>13, <1>f, <1>n

(* An article that is not a redirect has an entry, its own. *)
LEMMA HasEntry ==
  ASSUME IInv, LInv, pc = "done", NEW i \in DOMAIN articles, ~articles[i].redirect
  PROVE  \E j \in DOMAIN dirents : OfArticle(dirents[j], articles[i])
<1>1. articles[i].aid \in Aids(dirents)
  BY DEF IInv, NoneLost
<1>2. PICK j \in DOMAIN dirents : dirents[j].aid = articles[i].aid
  BY <1>1 DEF Aids
<1>d. PICK d : d = dirents[j]
  OBVIOUS
<1>3. PICK k \in DOMAIN articles : OfArticle(d, articles[k])
  BY <1>d DEF IInv, Entries, EntriesOf, EntryOf
<1>4. articles[k].aid = articles[i].aid
  BY <1>2, <1>3, <1>d DEF OfArticle
<1>5. k = i
  BY <1>4 DEF IInv, ArticlesSound, AidsOnce
<1> QED
  BY <1>3, <1>5, <1>d

(* The data of an entry, as the reader gets it. *)
LEMMA DataRead ==
  ASSUME IInv, LInv, pc = "done", ~isEmpty, NEW j \in DOMAIN dirents, ~dirents[j].redirect
  PROVE  LET d == dirents[j]
             c == GetCluster(file, d.cluster)
         IN /\ c.kind = "cluster" /\ c.body.compressed = d.compress
            /\ d.blob + 1 \in DOMAIN c.body.blobs
            /\ c.body.blobs[d.blob + 1] = Blob(d.aid)
<1>d. PICK d : d = dirents[j]
  OBVIOUS
<1>1. tmp \in Seq(Cluster) /\ dirents \in Seq(Dirent) /\ d \in Dirent
  BY <1>d DEF IInv, Clusters, Entries, EntriesOf
<1>2. Located(d)
  BY <1>d DEF LInv, DataFound, Finished
<1>t. PICK t : t = tmp[d.cluster + 1]
  OBVIOUS
<1>b. PICK b : b = t.body.blobs
  OBVIOUS
<1>3. /\ d.cluster < Len(tmp) /\ d.blob < Len(b) /\ b[d.blob + 1] = Blob(d.aid)
      /\ t.body.compressed = d.compress
  BY <1>2, <1>t, <1>b DEF Located
<1>4. d.cluster \in Nat /\ d.blob \in Nat
  BY <1>1 DEF Dirent
<1>c. PICK c \in Nat : c = d.cluster
  BY <1>4
<1>5. Len(tmp) \in Nat /\ c \in 0 .. Len(tmp) - 1 /\ t \in Cluster
  BY <1>1, <1>3, <1>t, <1>c
<1>6. GetCluster(file, c).kind = "cluster" /\ GetCluster(file, c).body = t.body
  <2>1. /\ GetCluster(file, c).kind = "cluster"
        /\ GetCluster(file, c).body = tmp[c + 1].body
    BY <1>5, ClusterRead
  <2> QED
    BY <2>1, <1>t, <1>c
<1>7. d.blob + 1 \in DOMAIN b
  <2>1. b \in Seq(BlobItem)
    BY <1>5, <1>b DEF Cluster
  <2> QED
    BY <1>3, <1>4, <2>1
<1>g. PICK g : g = GetCluster(file, c)
  OBVIOUS
<1>8. /\ g.kind = "cluster" /\ g.body.compressed = d.compress
      /\ g.body.blobs = b
  BY <1>3, <1>6, <1>b, <1>g
<1> QED
  BY <1>3, <1>7, <1>8, <1>c, <1>d, <1>g

LEMMA Readable ==
  ASSUME IInv, LInv
  PROVE  ArticlesReadable
<1> SUFFICES ASSUME pc = "done", ~isEmpty, NEW i \in DOMAIN articles, ~articles[i].redirect
             PROVE  \E idx \in 0 .. Header(file).articleCount - 1 :
                      LET d == Entry(idx)
                          c == GetCluster(file, d.where[1])
                      IN /\ LeadsTo(idx, articles[i].aid)
                         /\ ~IsRedirect(d)
                         /\ TitleOf(d) = TitleOf(articles[i])
                         /\ d.param = articles[i].param
                         /\ MimeTypes(file)[d.mime + 1] = articles[i].mime
                         /\ c.kind = "cluster"
                         /\ c.body.compressed = articles[i].compress
                         /\ d.where[2] + 1 \in DOMAIN c.body.blobs
                         /\ c.body.blobs[d.where[2] + 1] = Blob(articles[i].aid)
  BY DEF ArticlesReadable, Done
<1>1. PICK j \in DOMAIN dirents : OfArticle(dirents[j], articles[i])
  BY HasEntry
<1>d. PICK d : d = dirents[j]
  OBVIOUS
<1>a. PICK a : a = articles[i]
  OBVIOUS
<1>2. /\ d.aid = a.aid /\ d.title = a.title /\ d.url = a.url /\ d.param = a.param
      /\ d.compress = a.compress /\ ~d.redirect
  BY <1>1, <1>d, <1>a DEF OfArticle
<1>3. d \in Dirent /\ LeadsTo(j - 1, a.aid)
  BY <1>2, <1>d, Leading
<1>e. PICK e : e = Entry(j - 1)
  OBVIOUS
<1>4. /\ j - 1 \in 0 .. Header(file).articleCount - 1
      /\ e = DirentItem(d).body
  BY <1>d, <1>e, EntryRead
<1>5. /\ e.param = d.param % 256 /\ TitleOf(e) = TitleOf(d)
      /\ e.mime = d.mime /\ e.where[1] = d.cluster /\ e.where[2] = d.blob
  BY <1>2, <1>3, <1>4, EntryFields
<1>6. ~IsRedirect(e)
  <2>1. d.mime # RedirectMime
    BY <1>2, <1>d DEF IInv, Entries, EntriesOf, EntryOf
  <2> QED
    BY <1>5, <2>1 DEF IsRedirect
<1>7. TitleOf(e) = TitleOf(a)
  BY <1>2, <1>5 DEF TitleOf
<1>8. e.param = a.param
  <2>1. a \in Candidate
    BY <1>a DEF IInv, ArticlesSound
  <2>2. a.param \in Nat /\ a.param < 256
    BY <2>1, CreatorAssumption, TextAssumption DEF Article
  <2> QED
    BY <1>2, <1>5, <2>2
<1>9. MimeTypes(file)[e.mime + 1] = a.mime
  <2>1. d.mime < Len(mimes) /\ mimes[d.mime + 1] = a.mime
    BY <1>2, <1>a, <1>d DEF LInv, MimesRight
  <2>2. d.mime \in Nat /\ Len(mimes) \in Nat
    BY <1>3, CreatorAssumption DEF Dirent, IInv, Clusters
  <2>m. PICK m \in 1 .. Len(mimes) : m = d.mime + 1
    BY <2>1, <2>2
  <2>3. MimeTypes(file)[m] = mimes[m]
    BY MimesRead
  <2> QED
    BY <1>5, <2>1, <2>3, <2>m
<1>c. PICK c : c = GetCluster(file, d.cluster)
  OBVIOUS
<1>10. /\ c.kind = "cluster" /\ c.body.compressed = d.compress
       /\ d.blob + 1 \in DOMAIN c.body.blobs /\ c.body.blobs[d.blob + 1] = Blob(d.aid)
  BY <1>2, <1>c, <1>d, DataRead
<1>x. PICK idx \in 0 .. Header(file).articleCount - 1 : idx = j - 1
  BY <1>4
<1>11. GetCluster(file, Entry(idx).where[1]) = c /\ Entry(idx) = e
  BY <1>5, <1>c, <1>e, <1>x
<1>12. /\ LeadsTo(idx, a.aid) /\ e.where[2] = d.blob /\ c.body.compressed = a.compress
       /\ c.body.blobs[d.blob + 1] = Blob(a.aid)
  BY <1>2, <1>3, <1>5, <1>10, <1>x
<1> QED
  BY <1>6, <1>7, <1>8, <1>9, <1>10, <1>11, <1>12, <1>a

(* Unless all articles are empty, the reader finds every article that is   *)
(* not a redirect, with its title, mime type and parameter, and at its     *)
(* cluster and blob number its own data, compressed as the source asked.   *)
THEOREM ArticlesTheorem == Spec => []ArticlesReadable
BY Layout, Readable, PTL

LEMMA LaidTotal ==
  ASSUME NEW c, Items(c), NEW f, f = Laid(c)
  PROVE  Len(f) = Len(c) /\ Total(f) = Total(c)
<1>n. PICK n \in Nat : n = Len(c) /\ DOMAIN c = 1 .. n
  BY ItemsSized DEF IsList
<1>s. PICK s : s = Starts(c)
  OBVIOUS
<1>1. f = [k \in 1 .. n |-> [pos |-> s[k], kind |-> c[k].kind,
                             size |-> c[k].size, body |-> c[k].body]]
  BY <1>n, <1>s DEF Laid
<1>2. Len(f) = n /\ \A k \in 1 .. n : f[k].size = c[k].size
  BY <1>1
<1>3. \A k \in 1 .. n : c[k].size \in Nat
  BY <1>n DEF Items
<1>4. Sized(f) /\ Sized(c)
  BY <1>2, <1>3, <1>n DEF Sized
<1>5. n =< Len(f) /\ n =< Len(c) /\ \A k \in 1 .. n : f[k].size = c[k].size
  BY <1>2, <1>n
<1>6. \A k \in 1 .. n + 1 : Starts(f)[k] = Starts(c)[k]
  BY ONLY <1>4, <1>5, SameStarts
<1>7. n + 1 \in 1 .. n + 1
  OBVIOUS
<1> QED
  BY <1>2, <1>6, <1>7, <1>n DEF Total

LEMMA Opening ==
  ASSUME IInv, LInv, pc = "done", ~isEmpty \/ tmp = <<>>
  PROVE  CanOpen(file)
<1>1. /\ Items(AllItems) /\ file = Laid(AllItems) /\ header = HeaderItem
      /\ Header(file) = header
  BY FileLaid, PartsJoin, HeaderRead
<1>2. tmp \in Seq(Cluster) /\ Len(tmp) \in Nat /\ Len(clusterOffsets) = Len(tmp)
  BY DEF IInv, Clusters
<1>n. PICK n \in Nat : n = Len(tmp)
  BY <1>2
<1>3. Header(file).clusterCount = n
  BY <1>1, <1>2, <1>n DEF HeaderItem
<1>4. CASE n = 0
  BY <1>3, <1>4 DEF CanOpen
<1>5. CASE n # 0
  <2>1. n - 1 \in 0 .. Len(tmp) - 1 /\ (n - 1) + 1 = n /\ n \in DOMAIN tmp
    BY <1>2, <1>5, <1>n
  <2>i. PICK i : i = n - 1
    OBVIOUS
  <2>2. GetClusterOffset(file, i).body = ClusterPos(i + 1)
    BY <2>1, <2>i, ClusterRead
  <2>3. ClusterPos(n) = ClusterPtrPos + Len(clusterOffsets) * PtrSize + Starts(tmp)[n]
    BY <2>1 DEF LInv, Offsets, ClusterPos
  <2>4. Items(tmp)
    <3>1. DataItems = tmp
      BY DEF DataItems
    <3> QED
      BY <3>1, PartsItems
  <2>5. Starts(tmp)[n] \in Nat /\ Total(tmp) \in Nat /\ Starts(tmp)[n] < Total(tmp)
    <3>1. n \in 1 .. Len(tmp) + 1 /\ n + 1 \in 1 .. Len(tmp) + 1 /\ n < n + 1
      BY <1>5, <1>n
    <3>m. PICK m \in 1 .. Len(tmp) + 1 : m = n + 1
      BY <3>1
    <3>2. Starts(tmp)[n] \in Nat /\ Starts(tmp)[m] \in Nat /\ Starts(tmp)[n] < Starts(tmp)[m]
      BY <2>4, <3>1, <3>m, Rising
    <3>3. Total(tmp) = Starts(tmp)[m]
      BY <1>n, <3>m DEF Total
    <3> QED
      BY <3>2, <3>3
  <2>6. Total(Body) = ClusterPtrPos + Len(clusterOffsets) * PtrSize + Total(tmp)
    <3>1. clustersSize = Total(tmp)
      BY DEF LInv, Offsets, Finished
    <3> QED
      BY <3>1, PartsEnd DEF ChecksumPos
  <2>7. Total(file) = Total(Body) + Total(Digest) /\ Total(Digest) \in Nat
    <3>1. Total(file) = Total(AllItems)
      BY <1>1, LaidTotal
    <3>2. Total(AllItems) = Total(Body) + Total(Digest)
      <4>1. Sized(Body) /\ Sized(Digest) /\ Joins(AllItems, Body, Digest)
        BY PartsItems, PartsJoin, ItemsSized
      <4> QED
        BY <4>1, JoinedStarts
    <3>3. Sized(Digest)
      BY PartsItems, ItemsSized
    <3>4. Total(Digest) \in Nat
      BY <3>3, TotalNatural
    <3> QED
      BY <3>1, <3>2, <3>4
  <2>8. ClusterPtrPos \in Nat /\ Len(clusterOffsets) * PtrSize \in Nat
    <3>1. Len(clusterOffsets) * 8 \in Nat
      BY <1>2
    <3> QED
      BY <3>1, PartsEnd DEF PtrSize
  <2>b. PICK b \in Nat : b = ClusterPtrPos + Len(clusterOffsets) * PtrSize
    BY <2>8
  <2>9. ClusterPos(n) =< Total(file)
    <3>1. ClusterPos(n) = b + Starts(tmp)[n]
      BY <2>3, <2>b
    <3>2. Total(file) = b + Total(tmp) + Total(Digest)
      BY <2>6, <2>7, <2>b
    <3> QED
      BY ONLY <2>5, <2>7, <3>1, <3>2
  <2>10. GetClusterOffset(file, n - 1).body =< Total(file)
    BY <2>1, <2>2, <2>9, <2>i
  <2> QED
    BY <1>3, <2>10 DEF CanOpen
<1> QED
  BY <1>4, <1>5

LEMMA Verifying ==
  ASSUME IInv, LInv, pc = "done", ~isEmpty \/ tmp = <<>>
  PROVE  Verifies(file)
<1>1. /\ Items(AllItems) /\ file = Laid(AllItems) /\ header = HeaderItem
      /\ Header(file) = header /\ Items(Body) /\ Items(Digest)
  BY FileLaid, PartsItems, PartsJoin, HeaderRead
<1>a. PICK a : a = AllItems
  OBVIOUS
<1>b. PICK b : b = Body
  OBVIOUS
<1>f. PICK f : f = file
  OBVIOUS
<1>m. PICK m \in Nat : m = Len(b)
  BY <1>1, <1>b, ItemsSized
<1>p. PICK p : p = Total(b)
  OBVIOUS
<1>2. Header(f).checksumPos = p
  BY <1>1, <1>b, <1>f, <1>p, PartsEnd DEF HeaderItem
<1>3. /\ Items(a) /\ Items(b) /\ f = Laid(a) /\ Joins(a, b, Digest)
      /\ Len(Digest) = 1 /\ Len(a) = m + 1
  <2>1. Joins(a, b, Digest) /\ Len(Digest) = 1
    BY <1>a, <1>b, PartsItems, PartsJoin
  <2>2. Len(a) = Len(b) + Len(Digest)
    BY <2>1 DEF Joins
  <2> QED
    BY <1>1, <1>a, <1>b, <1>f, <1>m, <2>1, <2>2
<1>4. Starts(Digest)[1] = 0 /\ Digest[1].kind = "digest" /\ Digest[1].body = Laid(b)
  <2>1. DigestSize \in Nat \ {0}
    BY DEF DigestSize
  <2>2. Starts(Digest)[1] = 0
    BY <2>1, OneItem DEF Digest
  <2> QED
    BY <2>2, <1>b DEF Digest, Item
<1>5. /\ ItemAt(f, p).kind = "digest" /\ ItemAt(f, p).body = Laid(b)
  <2>1. Holds(a, Len(b), p, Digest)
    <3>1. Begins(a, a)
      BY <1>a, PartsBegin
    <3> QED
      BY <1>1, <1>3, <1>p, <3>1, HoldsPart
  <2>2. 1 \in 1 .. Len(Digest)
    BY <1>3
  <2>3. /\ ItemAt(f, p + Starts(Digest)[1]).kind = "digest"
        /\ ItemAt(f, p + Starts(Digest)[1]).body = Laid(b)
    BY <1>3, <1>4, <2>1, <2>2, HeldItem
  <2>4. p + 0 = p
    <3>1. p \in Nat
      BY <1>3, <1>p, ItemsSized, TotalNatural
    <3> QED
      BY <3>1
  <2> QED
    BY <1>4, <2>3, <2>4
<1>s. PICK s : s = Starts(a)
  OBVIOUS
<1>t. PICK t : t = Starts(b)
  OBVIOUS
<1>6. /\ \A k \in 1 .. m : s[k] = t[k] /\ a[k] = b[k]
      /\ s[m + 1] = p
  <2>1. Sized(b) /\ Sized(Digest) /\ Len(b) = m
    BY <1>1, <1>3, <1>m, ItemsSized
  <2>2. \A k \in 1 .. m + 1 : s[k] = t[k]
    BY <1>3, <1>s, <1>t, <2>1, JoinedStarts
  <2>3. \A k \in 1 .. m : a[k] = b[k]
    BY <1>3, <2>1 DEF Joins
  <2>4. t[m + 1] = p
    BY <1>m, <1>p, <1>t DEF Total
  <2>5. m + 1 \in 1 .. m + 1 /\ \A k \in 1 .. m : k \in 1 .. m + 1
    OBVIOUS
  <2> QED
    BY <2>2, <2>3, <2>4, <2>5
<1>7. f = [k \in 1 .. m + 1 |-> [pos |-> s[k], kind |-> a[k].kind,
                                 size |-> a[k].size, body |-> a[k].body]]
  <2>1. DOMAIN a = 1 .. m + 1
    BY <1>3, ItemsSized DEF IsList
  <2> QED
    BY <1>3, <1>s, <2>1 DEF Laid
<1>8. Laid(b) = [k \in 1 .. m |-> [pos |-> t[k], kind |-> b[k].kind,
                                   size |-> b[k].size, body |-> b[k].body]]
  <2>1. DOMAIN b = 1 .. m
    BY <1>3, <1>m, ItemsSized DEF IsList
  <2> QED
    BY <1>t, <2>1 DEF Laid
<1>9. {k \in DOMAIN f : f[k].pos < p} = 1 .. m
  <2>1. DOMAIN f = 1 .. m + 1 /\ \A k \in 1 .. m + 1 : f[k].pos = s[k]
    BY <1>7
  <2>2. ASSUME NEW k \in 1 .. m PROVE s[k] < p
    <3>1. k \in 1 .. Len(a) + 1 /\ m + 1 \in 1 .. Len(a) + 1 /\ k < m + 1
      BY <1>3
    <3>j. PICK j \in 1 .. Len(a) + 1 : j = m + 1
      BY <3>1
    <3>2. s[k] < s[j]
      BY <1>3, <1>s, <3>1, <3>j, Rising
    <3> QED
      BY <1>6, <3>2, <3>j
  <2>3. ~(p < p)
    <3>1. p \in Nat
      BY <1>3, <1>p, ItemsSized, TotalNatural
    <3> QED
      BY <3>1
  <2>4. \A k \in 1 .. m + 1 : k \in 1 .. m \/ k = m + 1
    OBVIOUS
  <2>5. \A k \in 1 .. m : k \in 1 .. m + 1
    OBVIOUS
  <2> QED
    BY <1>6, <2>1, <2>2, <2>3, <2>4, <2>5
<1>10. [k \in 1 .. m |-> f[k]] = Laid(b)
  <2>1. ASSUME NEW k \in 1 .. m
        PROVE  f[k] = [pos |-> t[k], kind |-> b[k].kind, size |-> b[k].size, body |-> b[k].body]
    <3>1. k \in 1 .. m + 1 /\ s[k] = t[k] /\ a[k] = b[k]
      BY <1>6
    <3>2. f[k] = [pos |-> s[k], kind |-> a[k].kind, size |-> a[k].size, body |-> a[k].body]
      BY <1>7, <3>1
    <3> QED
      BY <3>1, <3>2
  <2> QED
    BY <1>8, <2>1
<1>11. Restrict(f, {k \in DOMAIN f : f[k].pos < p}) = Laid(b)
  BY <1>9, <1>10, Zenon DEF Restrict
<1>12. Verifies(f)
  BY <1>2, <1>5, <1>11, Zenon DEF Verifies
<1> QED
  BY <1>12, <1>f

(* Every file with data, and every file without clusters, can be opened:   *)
(* its last cluster lies within it; and its checksum stands where the      *)
(* header says and covers all that was written before.                     *)
THEOREM FileTheorem == Spec => []FileVerifies
<1>1. IInv /\ LInv => FileVerifies
  BY Opening, Verifying DEF FileVerifies, FileSound, Done
<1> QED
  BY <1>1, Layout, PTL

-----------------------------------------------------------------------------
(* How many steps create() has left at most, by where it is: two passes    *)
(* over the entries to drop and to translate, one to pack them.            *)
LeftOfPass == Len(dirents) + 1 - di

StepsLeft ==
  CASE pc = "collect"   -> 4 * MaxArticles + 7 - Len(articles)
    [] pc = "prune"     -> 2 * MaxArticles + 6 + LeftOfPass
    [] pc = "translate" -> MaxArticles + 5 + LeftOfPass
    [] pc = "title"     -> MaxArticles + 4
    [] pc = "clusters"  -> 3 + LeftOfPass
    [] pc = "header"    -> 2
    [] pc = "write"     -> 1
    [] OTHER            -> 0

LEMMA SizesBounded ==
  ASSUME IInv
  PROVE  /\ Len(articles) \in 0 .. MaxArticles /\ Len(dirents) \in 0 .. MaxArticles
         /\ di \in 1 .. Len(dirents) + 1 /\ LeftOfPass \in 0 .. MaxArticles
         /\ MaxArticles \in Nat /\ pc \in Places
<1>1. /\ articles \in Seq(Candidate) /\ Len(articles) =< MaxArticles
      /\ dirents \in Seq(Dirent) /\ Len(dirents) =< Len(articles)
      /\ di \in 1 .. Len(dirents) + 1 /\ pc \in Places
  BY DEF IInv, ArticlesSound, Entries, EntriesOf
<1>2. MaxArticles \in Nat /\ Len(articles) \in Nat /\ Len(dirents) \in Nat
  BY <1>1, CreatorAssumption
<1> QED
  BY <1>1, <1>2 DEF LeftOfPass

LEMMA StepsBounded ==
  ASSUME IInv
  PROVE  StepsLeft \in 0 .. 4 * MaxArticles + 7
<1>m. PICK m \in Nat : m = MaxArticles
  BY SizesBounded
<1>l. PICK p \in 0 .. m : p = LeftOfPass
  BY SizesBounded, <1>m
<1>a. PICK a \in 0 .. m : a = Len(articles)
  BY SizesBounded, <1>m
<1>1. pc \in Places
  BY SizesBounded
<1>2. StepsLeft \in {4 * m + 7 - a, 2 * m + 6 + p, m + 5 + p, m + 4, 3 + p, 2, 1, 0}
  BY <1>1, <1>m, <1>l, <1>a DEF StepsLeft, Places
<1> QED
  BY <1>2, <1>m

(* A step of a pass leaves one entry less to look at. *)
LEMMA PassStep ==
  ASSUME IInv, Prune \/ Translate \/ SkipRedirect \/ AddCompressed \/ AddUncompressed
  PROVE  pc' = pc /\ pc \in {"prune", "translate", "clusters"} /\ LeftOfPass' = LeftOfPass - 1
<1>1. dirents \in Seq(Dirent) /\ Len(dirents) \in Nat /\ di \in 1 .. Len(dirents) + 1
  BY SizesBounded DEF IInv, Entries, EntriesOf
<1>2. CASE Prune
  <2>1. /\ pc' = pc /\ pc = "prune" /\ di \in 1 .. Len(dirents)
        /\ \/ dirents' = dirents /\ di' = di + 1
           \/ dirents' = RemoveAt(dirents, di) /\ di' = di
    BY <1>1, <1>2 DEF Prune, NextToPrune
  <2>2. Len(RemoveAt(dirents, di)) = Len(dirents) - 1
    BY <1>1, <2>1, RemoveAtLemma
  <2> QED
    BY <1>1, <2>1, <2>2 DEF LeftOfPass
<1>3. CASE Translate
  <2>1. /\ pc' = pc /\ pc = "translate" /\ di' = di + 1
        /\ Len(dirents') = Len(dirents)
    BY <1>1, <1>3 DEF Translate
  <2> QED
    BY <1>1, <2>1 DEF LeftOfPass
<1>4. CASE SkipRedirect
  BY <1>1, <1>4 DEF SkipRedirect, LeftOfPass
<1>5. CASE AddCompressed
  <2>1. /\ pc' = pc /\ pc = "clusters" /\ di' = di + 1
        /\ dirents' = Placed(Len(clusterOffsets), Len(cluster))
    BY <1>5 DEF AddCompressed
  <2>2. Len(dirents') = Len(dirents)
    BY <1>1, <2>1 DEF Placed
  <2> QED
    BY <1>1, <2>1, <2>2 DEF LeftOfPass
<1>6. CASE AddUncompressed
  <2>1. /\ pc' = pc /\ pc = "clusters" /\ di' = di + 1
        /\ \E packed \in Packed :
             dirents' = Placed(Len(clusterOffsets) + Len(Pending(packed)), 0)
    BY <1>6, Zenon DEF AddUncompressed
  <2>2. Len(dirents') = Len(dirents)
    BY <1>1, <2>1 DEF Placed
  <2> QED
    BY <1>1, <2>1, <2>2 DEF LeftOfPass
<1> QED
  BY <1>2, <1>3, <1>4, <1>5, <1>6

LEMMA StepsFewer ==
  ASSUME IInv, IInv', Next
  PROVE  StepsLeft' < StepsLeft
<1>m. PICK m \in Nat : m = MaxArticles
  BY SizesBounded
<1>p. PICK p \in 0 .. m : p = LeftOfPass
  BY SizesBounded, <1>m
<1>q. PICK q \in 0 .. m : q = LeftOfPass'
  <2>1. /\ articles' \in Seq(Candidate) /\ Len(articles') =< MaxArticles
        /\ dirents' \in Seq(Dirent) /\ Len(dirents') =< Len(articles')
        /\ di' \in 1 .. Len(dirents') + 1
    BY DEF IInv, ArticlesSound, Entries, EntriesOf
  <2>2. Len(articles') \in Nat /\ Len(dirents') \in Nat
    BY <2>1
  <2> QED
    BY <2>1, <2>2, <1>m DEF LeftOfPass
<1>a. PICK a \in 0 .. m : a = Len(articles)
  BY SizesBounded, <1>m
<1>1. CASE Collect
  <2>1. pc = "collect" /\ pc' = "collect" /\ \E x : articles' = Append(articles, x)
    BY <1>1 DEF Collect
  <2>2. Len(articles') = a + 1
    BY <2>1, <1>a DEF IInv, ArticlesSound
  <2>3. StepsLeft = 4 * m + 7 - a /\ StepsLeft' = 4 * m + 7 - (a + 1)
    BY <2>1, <2>2, <1>m, <1>a DEF StepsLeft
  <2> QED
    BY <2>3
<1>2. CASE TooManyMimes \/ EndCollect
  <2>1. pc = "collect" /\ pc' \in {"refused", "prune"}
    BY <1>2 DEF TooManyMimes, EndCollect
  <2>2. StepsLeft = 4 * m + 7 - a /\ StepsLeft' \in {0, 2 * m + 6 + q}
    BY <2>1, <1>m, <1>a, <1>q DEF StepsLeft
  <2> QED
    BY <2>2
<1>3. CASE SetIndex
  <2>1. pc = "prune" /\ pc' = "translate"
    BY <1>3 DEF SetIndex
  <2>2. StepsLeft = 2 * m + 6 + p /\ StepsLeft' = m + 5 + q
    BY <2>1, <1>m, <1>p, <1>q DEF StepsLeft
  <2> QED
    BY <2>2
<1>4. CASE InternalError \/ EndTranslate
  <2>1. pc = "translate" /\ pc' \in {"failed", "title"}
    BY <1>4 DEF InternalError, EndTranslate
  <2>2. StepsLeft = m + 5 + p /\ StepsLeft' \in {0, m + 4}
    BY <2>1, <1>m, <1>p DEF StepsLeft
  <2> QED
    BY <2>2
<1>5. CASE CreateTitleIndex
  <2>1. pc = "title" /\ pc' = "clusters"
    BY <1>5 DEF CreateTitleIndex
  <2>2. StepsLeft = m + 4 /\ StepsLeft' = 3 + q
    BY <2>1, <1>m, <1>q DEF StepsLeft
  <2> QED
    BY <2>2
<1>6. CASE FinishClusters \/ FillHeader \/ Write
  <2>1. \/ pc = "clusters" /\ pc' = "header"
        \/ pc = "header" /\ pc' = "write"
        \/ pc = "write" /\ pc' = "done"
    BY <1>6 DEF FinishClusters, FillHeader, Write
  <2> QED
    BY <2>1, <1>p DEF StepsLeft
<1>7. CASE Prune \/ Translate \/ SkipRedirect \/ AddCompressed \/ AddUncompressed
  <2>1. pc' = pc /\ pc \in {"prune", "translate", "clusters"} /\ q = p - 1
    BY <1>7, <1>p, <1>q, PassStep
  <2> QED
    BY <2>1, <1>m, <1>p, <1>q DEF StepsLeft
<1> QED
  BY <1>1, <1>2, <1>3, <1>4, <1>5, <1>6, <1>7 DEF Next

(* create() ends after four steps for each article and seven more, if not  *)
(* before: there is a bound on its steps that each one lowers.             *)
THEOREM CreateEnds ==
  Spec => /\ [](StepsLeft \in 0 .. 4 * MaxArticles + 7)
          /\ [][StepsLeft' < StepsLeft]_vars
<1>1. IInv => StepsLeft \in 0 .. 4 * MaxArticles + 7
  BY StepsBounded
<1>2. IInv /\ IInv' /\ [Next]_vars => [StepsLeft' < StepsLeft]_vars
  BY StepsFewer
<1> QED
  BY <1>1, <1>2, Invariant, PTL DEF Spec
=============================================================================
