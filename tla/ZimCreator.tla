----------------------------- MODULE ZimCreator -----------------------------
(***************************************************************************)
(* zim::writer::ZimCreator::create(): articles in, a zim file out          *)
(* (zimwriter/src/zimcreator.cpp).                                         *)
(*                                                                         *)
(* The articles come from an ArticleSource in any order.  create() sorts   *)
(* its directory entries four times, by aid to look articles up and by url *)
(* for the file, and numbers them in between; it drops redirects that lead *)
(* nowhere, packs the data into clusters, computes all positions of the    *)
(* header and then writes.  A step here is one pass of a loop or one of    *)
(* the stretches between the loops.                                        *)
(*                                                                         *)
(* A failing disk ends create() with an exception and is left out.         *)
(***************************************************************************)
EXTENDS ZimFile

CONSTANTS
  Candidate,     \* the articles a source may hand out
  MainAid,       \* ArticleSource::getMainPage(); NoAid for the empty text
  LayoutAid,     \* ArticleSource::getLayoutPage()
  MinChunkSize,  \* minChunkSize * 1024
  Packed,        \* the sizes a cluster may be compressed to
  MaxArticles    \* bound: the articles a source has

NoAid == 0

(* Every text is a number here; no text and no size is bounded, nor is the *)
(* number of mime types before a redirect's.                               *)
Article ==
  [aid : Nat, ns : Nat, url : Nat, title : Nat, param : Nat, redirect : BOOLEAN,
   redirectAid : Nat, mime : Nat, compress : BOOLEAN, size : Nat]

ASSUME CreatorAssumption ==
  /\ Candidate \subseteq Article /\ Packed \subseteq Nat
  /\ RedirectMime \in Nat /\ MaxArticles \in Nat

(* What a file can hold: the length of a parameter is stored in one byte,  *)
(* and an empty mime type would end the list of them.                      *)
ASSUME TextAssumption == \A a \in Candidate : a.param < 256 /\ a.mime # 0

VARIABLES
  pc,
  articles,        \* the source: what getNextArticle has handed out
  \* members of ZimCreator
  dirents, mimes, titleIdx, clusterOffsets, clustersSize, isEmpty, header,
  \* locals
  di,              \* the index of the loop under way, from 1
  cluster,         \* the blobs of the compressed cluster under construction
  \* files
  tmp,             \* <basename>.tmp: the clusters
  file             \* <basename>.zim

clusterVars == <<clusterOffsets, clustersSize, isEmpty, cluster, tmp>>
vars == <<pc, articles, dirents, mimes, titleIdx, header, di, file, clusterVars>>

NoHeader == [mainPage |-> NoArticle]

Init ==
  /\ pc = "collect"
  /\ articles = <<>> /\ dirents = <<>> /\ mimes = <<>> /\ titleIdx = <<>>
  /\ clusterOffsets = <<>> /\ clustersSize = 0 /\ isEmpty = TRUE
  /\ header = NoHeader /\ di = 1 /\ cluster = <<>> /\ tmp = <<>> /\ file = <<>>

-----------------------------------------------------------------------------
(* std::sort: any arrangement of s that is in order. *)

Arrangements(s) ==
  {[i \in DOMAIN s |-> s[p[i]]] : p \in Bijection(DOMAIN s, DOMAIN s)}

Sorted(s, Before(_, _)) == \A i, j \in DOMAIN s : i < j => ~Before(s[j], s[i])

Sortings(s, Before(_, _)) == {t \in Arrangements(s) : Sorted(t, Before)}

CompareAid(d1, d2) == d1.aid < d2.aid

CompareUrl(d1, d2) == d1.ns < d2.ns \/ (d1.ns = d2.ns /\ d1.url < d2.url)

BugRawTitle(t1, t2) == dirents[t1 + 1].title < dirents[t2 + 1].title

(* CompareTitle orders indexes, by the entries they lead to. *)
CompareTitle(t1, t2) ==
  LET d1 == dirents[t1 + 1]
      d2 == dirents[t2 + 1]
  IN d1.ns < d2.ns \/ (d1.ns = d2.ns /\ TitleOf(d1) < TitleOf(d2))

-----------------------------------------------------------------------------
(* createDirents *)

(* getMimeTypeIdx: the mime types afterwards. *)
MimesWith(mime) ==
  IF \E i \in DOMAIN mimes : mimes[i] = mime THEN mimes ELSE Append(mimes, mime)

(* It refuses a new type that would get the index of redirects. *)
MimeFits(mime) == Len(MimesWith(mime)) =< RedirectMime

NewDirent(a) ==
  [aid |-> a.aid, ns |-> a.ns, url |-> a.url, title |-> a.title, param |-> a.param,
   redirect |-> a.redirect, redirectAid |-> a.redirectAid, redirectIndex |-> 0,
   mime |-> IF a.redirect THEN RedirectMime
            ELSE (CHOOSE i \in DOMAIN MimesWith(a.mime) :
                    MimesWith(a.mime)[i] = a.mime) - 1,
   compress |-> a.compress, cluster |-> 0, blob |-> 0, idx |-> 0]

(* A source names every article once, and no two alike. *)
New(a) ==
  \A i \in DOMAIN articles :
    /\ articles[i].aid # a.aid
    /\ <<articles[i].ns, articles[i].url>> # <<a.ns, a.url>>

Collect ==
  /\ pc = "collect"
  /\ Len(articles) < MaxArticles
  /\ \E a \in Candidate :
       /\ New(a)
       /\ a.redirect \/ MimeFits(a.mime)
       /\ articles' = Append(articles, a)
       /\ dirents' = Append(dirents, NewDirent(a))
       /\ mimes' = IF a.redirect THEN mimes ELSE MimesWith(a.mime)
  /\ UNCHANGED <<pc, titleIdx, header, di, file, clusterVars>>

TooManyMimes ==
  /\ pc = "collect"
  /\ Len(articles) < MaxArticles
  /\ \E a \in Candidate : New(a) /\ ~a.redirect /\ ~MimeFits(a.mime)
  /\ pc' = "refused"
  /\ UNCHANGED <<articles, dirents, mimes, titleIdx, header, di, file, clusterVars>>

EndCollect ==
  /\ pc = "collect"
  /\ pc' = "prune"
  /\ dirents' \in Sortings(dirents, CompareAid)
  /\ UNCHANGED <<articles, mimes, titleIdx, header, di, file, clusterVars>>

(* std::binary_search and std::lower_bound over the entries, which must be *)
(* in the order of their aids.                                             *)
LowerBound(aid) ==
  CHOOSE i \in 1 .. Len(dirents) + 1 :
    /\ \A j \in 1 .. i - 1 : dirents[j].aid < aid
    /\ i \in DOMAIN dirents => dirents[i].aid >= aid

BugAnyFound(aid) == LowerBound(aid) \in DOMAIN dirents

Found(aid) ==
  LET i == LowerBound(aid) IN i \in DOMAIN dirents /\ dirents[i].aid = aid

BugStayBehind(invalid) == di

(* erase() leaves di at the entry that moved up. *)
NextToPrune(invalid) == IF invalid THEN di ELSE di + 1

Prune ==
  /\ pc = "prune"
  /\ di \in DOMAIN dirents
  /\ LET invalid == dirents[di].redirect /\ ~Found(dirents[di].redirectAid)
     IN /\ dirents' = IF invalid THEN RemoveAt(dirents, di) ELSE dirents
        /\ di' = NextToPrune(invalid)
  /\ UNCHANGED <<pc, articles, mimes, titleIdx, header, file, clusterVars>>

(* setIdx for every entry, in the order of the urls. *)
Numbered(sorted) == [i \in DOMAIN sorted |-> [sorted[i] EXCEPT !.idx = i - 1]]

(* Sort by url, number, and sort by aid again. *)
SetIndex ==
  /\ pc = "prune"
  /\ di \notin DOMAIN dirents
  /\ pc' = "translate"
  /\ di' = 1
  /\ \E sorted \in Sortings(dirents, CompareUrl) :
       dirents' \in Sortings(Numbered(sorted), CompareAid)
  /\ UNCHANGED <<articles, mimes, titleIdx, header, file, clusterVars>>

BugPosition(aid) == LowerBound(aid) - 1

RedirectIndex(aid) == dirents[LowerBound(aid)].idx

Translate ==
  /\ pc = "translate"
  /\ di \in DOMAIN dirents
  /\ dirents[di].redirect => Found(dirents[di].redirectAid)
  /\ di' = di + 1
  /\ dirents' = IF dirents[di].redirect
                THEN [dirents EXCEPT ![di].redirectIndex =
                        RedirectIndex(dirents[di].redirectAid)]
                ELSE dirents
  /\ UNCHANGED <<pc, articles, mimes, titleIdx, header, file, clusterVars>>

(* "internal error: redirect aid ... not found" *)
InternalError ==
  /\ pc = "translate"
  /\ di \in DOMAIN dirents
  /\ dirents[di].redirect /\ ~Found(dirents[di].redirectAid)
  /\ pc' = "failed"
  /\ UNCHANGED <<articles, dirents, mimes, titleIdx, header, di, file, clusterVars>>

InUrlOrder(s) == Sortings(s, CompareUrl)

EndTranslate ==
  /\ pc = "translate"
  /\ di \notin DOMAIN dirents
  /\ pc' = "title"
  /\ dirents' \in InUrlOrder(dirents)
  /\ UNCHANGED <<articles, mimes, titleIdx, header, di, file, clusterVars>>

CreateTitleIndex ==
  /\ pc = "title"
  /\ pc' = "clusters"
  /\ di' = 1
  /\ titleIdx' \in Sortings([i \in DOMAIN dirents |-> dirents[i].idx], CompareTitle)
  /\ UNCHANGED <<articles, dirents, mimes, header, file, clusterVars>>

-----------------------------------------------------------------------------
(* createClusters *)

(* ArticleSource::getData *)
Blob(aid) ==
  LET a == articles[CHOOSE i \in DOMAIN articles : articles[i].aid = aid]
  IN [aid |-> aid, size |-> a.size]

(* push_back(out.tellp()) and out << cluster, for a sequence of clusters. *)
Emit(clusters) ==
  /\ tmp' = tmp \o clusters
  /\ clusterOffsets' = clusterOffsets \o
       [i \in DOMAIN clusters |-> Total(tmp) + Total(SubSeq(clusters, 1, i - 1))]

SkipRedirect ==
  /\ pc = "clusters"
  /\ di \in DOMAIN dirents
  /\ dirents[di].redirect
  /\ di' = di + 1
  /\ UNCHANGED <<pc, articles, dirents, mimes, titleIdx, header, file, clusterVars>>

BugPlaceAfterAdd(before, blob) ==
  [dirents EXCEPT ![di].cluster = before, ![di].blob = blob + 1]

(* setCluster(clusterOffsets.size(), ...) *)
Placed(before, blob) ==
  [dirents EXCEPT ![di].cluster = before, ![di].blob = blob]

AddCompressed ==
  /\ pc = "clusters"
  /\ di \in DOMAIN dirents
  /\ ~dirents[di].redirect
  /\ dirents[di].compress
  /\ LET blobs == Append(cluster, Blob(dirents[di].aid))
     IN IF ClusterSize(blobs) >= MinChunkSize
        THEN /\ \E packed \in Packed : Emit(<<ClusterItem(blobs, TRUE, packed)>>)
             /\ cluster' = <<>>
        ELSE /\ cluster' = blobs
             /\ UNCHANGED <<tmp, clusterOffsets>>
  /\ dirents' = Placed(Len(clusterOffsets), Len(cluster))
  /\ isEmpty' = (isEmpty /\ Blob(dirents[di].aid).size = 0)
  /\ di' = di + 1
  /\ UNCHANGED <<pc, articles, mimes, titleIdx, header, file, clustersSize>>

(* The compressed cluster under construction is finished first. *)
Pending(packed) ==
  IF cluster = <<>> THEN <<>> ELSE <<ClusterItem(cluster, TRUE, packed)>>

AddUncompressed ==
  /\ pc = "clusters"
  /\ di \in DOMAIN dirents
  /\ ~dirents[di].redirect
  /\ ~dirents[di].compress
  /\ \E packed \in Packed :
       LET pending == Pending(packed)
       IN /\ Emit(Append(pending, ClusterItem(<<Blob(dirents[di].aid)>>, FALSE, 0)))
          /\ dirents' = Placed(Len(clusterOffsets) + Len(pending), 0)
  /\ cluster' = <<>>
  /\ isEmpty' = (isEmpty /\ Blob(dirents[di].aid).size = 0)
  /\ di' = di + 1
  /\ UNCHANGED <<pc, articles, mimes, titleIdx, header, file, clustersSize>>

FinishClusters ==
  /\ pc = "clusters"
  /\ di \notin DOMAIN dirents
  /\ pc' = "header"
  /\ \E packed \in Packed : Emit(Pending(packed))
  /\ clustersSize' = Total(tmp')
  /\ UNCHANGED <<articles, dirents, mimes, titleIdx, header, di, file,
                 isEmpty, cluster>>

-----------------------------------------------------------------------------
(* fillHeader: the positions are sums of sizes. *)

MimeListSize == 1 + Total([i \in DOMAIN mimes |-> [size |-> mimes[i] + 1]])
UrlPtrPos    == HeaderSize + MimeListSize
TitleIdxPos  == UrlPtrPos + Len(dirents) * PtrSize
IndexPos     == TitleIdxPos + Len(dirents) * IdxSize
IndexSize    == Total([i \in DOMAIN dirents |-> [size |-> DirentSize(dirents[i])]])
ClusterPtrPos == IndexPos + IndexSize

BugChecksumPos == ClusterPtrPos + clustersSize

ChecksumPos  == ClusterPtrPos + Len(clusterOffsets) * PtrSize + clustersSize

(* The index of the article a source names, if it is in the file. *)
PageIndex(aid) ==
  IF \E i \in DOMAIN dirents : dirents[i].aid = aid
  THEN dirents[CHOOSE i \in DOMAIN dirents : dirents[i].aid = aid].idx
  ELSE NoArticle

FillHeader ==
  /\ pc = "header"
  /\ pc' = "write"
  /\ header' = [mainPage |-> PageIndex(MainAid), layoutPage |-> PageIndex(LayoutAid),
                articleCount |-> Len(dirents), clusterCount |-> Len(clusterOffsets),
                mimeListPos |-> HeaderSize, urlPtrPos |-> UrlPtrPos,
                titleIdxPos |-> TitleIdxPos, clusterPtrPos |-> ClusterPtrPos,
                checksumPos |-> ChecksumPos]
  /\ UNCHANGED <<articles, dirents, mimes, titleIdx, di, file, clusterVars>>

-----------------------------------------------------------------------------
(* write *)

Ptr(off)  == Item("ptr", PtrSize, off)
Mime(txt) == Item("mime", txt + 1, txt)

DirentPos(i) ==
  IndexPos + Total([j \in 1 .. i - 1 |-> [size |-> DirentSize(dirents[j])]])

ClusterPos(i) == ClusterPtrPos + Len(clusterOffsets) * PtrSize + clusterOffsets[i]

Body ==
  <<Item("header", HeaderSize, header)>>
    \o [i \in DOMAIN mimes |-> Mime(mimes[i])] \o <<Mime(0)>>
    \o [i \in DOMAIN dirents |-> Ptr(DirentPos(i))]
    \o [i \in DOMAIN titleIdx |-> Item("idx", IdxSize, titleIdx[i])]
    \o [i \in DOMAIN dirents |-> DirentItem(dirents[i])]
    \o [i \in DOMAIN clusterOffsets |-> Ptr(ClusterPos(i))]
    \o (IF isEmpty THEN <<>> ELSE tmp)

Write ==
  /\ pc = "write"
  /\ pc' = "done"
  /\ \E body \in {Body} :
       file' = Laid(Append(body, Item("digest", DigestSize, Laid(body))))
  /\ UNCHANGED <<articles, dirents, mimes, titleIdx, header, di, clusterVars>>

Next ==
  \/ Collect \/ TooManyMimes \/ EndCollect \/ Prune \/ SetIndex
  \/ Translate \/ InternalError \/ EndTranslate \/ CreateTitleIndex
  \/ SkipRedirect \/ AddCompressed \/ AddUncompressed \/ FinishClusters
  \/ FillHeader \/ Write

(* create() runs on until it returns or throws. *)
Spec == Init /\ [][Next]_vars /\ WF_vars(Next)

-----------------------------------------------------------------------------
(* Correctness.  Most of it is about the finished file as the reader of    *)
(* ZimFile finds it, against the articles the source has handed out.       *)

TypeOK ==
  /\ pc \in {"collect", "refused", "prune", "translate", "failed", "title",
             "clusters", "header", "write", "done"}
  /\ di \in 1 .. MaxArticles + 1
  /\ \A i \in DOMAIN articles : articles[i] \in Candidate
  /\ \A i \in DOMAIN dirents :
       /\ dirents[i].mime \in 0 .. RedirectMime
       /\ dirents[i].redirect <=> dirents[i].mime = RedirectMime
       /\ dirents[i].idx \in 0 .. Len(articles)
  /\ \A i \in DOMAIN titleIdx : titleIdx[i] \in 0 .. Len(dirents) - 1
  /\ Len(clusterOffsets) = Len(tmp)
  /\ isEmpty \in BOOLEAN

Done == pc = "done"

Aids(s) == {s[i].aid : i \in DOMAIN s}

Entry(idx) == GetDirent(file, idx).body

(* The entry of an article, as the file has it. *)
LeadsTo(idx, aid) ==
  \E i \in DOMAIN articles :
    /\ articles[i].aid = aid
    /\ LET found == GetDirent(file, idx)
       IN /\ found.kind = "dirent"
          /\ <<found.body.ns, found.body.url>> = <<articles[i].ns, articles[i].url>>

(* No article is lost, and a redirect is kept exactly if what it leads to  *)
(* is: "remove invalid redirects" drops no more than it must.              *)
RedirectKeptIfTarget ==
  pc \in {"title", "done"} =>
    \A i \in DOMAIN articles :
      articles[i].aid \in Aids(dirents)
        <=> (articles[i].redirect => articles[i].redirectAid \in Aids(dirents))

(* The entries are those of the articles to keep, and their members what   *)
(* the steps to come rely on: a mime type that is not taken for a redirect *)
(* and an index below the number of articles.                              *)
EntriesSound == TypeOK /\ RedirectKeptIfTarget

(* The index in a redirect's entry leads to the entry of the article whose *)
(* aid the source gave, through three sorts and a renumbering.             *)
RedirectsLead ==
  Done =>
    \A i \in DOMAIN articles :
      articles[i].redirect /\ articles[i].aid \in Aids(dirents) =>
        \E idx \in 0 .. Header(file).articleCount - 1 :
          /\ LeadsTo(idx, articles[i].aid)
          /\ IsRedirect(Entry(idx))
          /\ LeadsTo(Entry(idx).where[1], articles[i].redirectAid)

(* The entries stand in the order of namespace and url, no two alike, and  *)
(* the title index lists every entry once, in the order of namespace and   *)
(* title as the reader reads them back: it looks both up by binary search. *)
ListsInOrder ==
  Done =>
    LET n == Header(file).articleCount
        ByTitle(k) == Entry(GetIndexByTitle(file, k).body)
    IN /\ \A idx \in 1 .. n - 1 : CompareUrl(Entry(idx - 1), Entry(idx))
       /\ {GetIndexByTitle(file, k).body : k \in 0 .. n - 1} = 0 .. n - 1
       /\ \A k \in 1 .. n - 1 :
            \/ ByTitle(k - 1).ns < ByTitle(k).ns
            \/ /\ ByTitle(k - 1).ns = ByTitle(k).ns
               /\ TitleOf(ByTitle(k - 1)) =< TitleOf(ByTitle(k))

(* The main page and the layout page of the header lead to the articles    *)
(* the source names, or nowhere if they are not in the file.               *)
PagesLead ==
  LET Leads(idx, aid) == IF aid \in Aids(dirents) THEN LeadsTo(idx, aid)
                         ELSE idx = NoArticle
  IN Done => /\ Leads(Header(file).mainPage, MainAid)
             /\ Leads(Header(file).layoutPage, LayoutAid)

(* Every index that the file stores leads where the source wanted it to.   *)
IndicesLead == RedirectsLead /\ PagesLead

(* Unless all articles are empty, every article is found in the file with  *)
(* its title, mime type and parameter, and its cluster and blob numbers    *)
(* lead to its own data, compressed as the source asked.                   *)
ArticlesReadable ==
  Done /\ ~isEmpty =>
    \A i \in DOMAIN articles :
      ~articles[i].redirect =>
        \E idx \in 0 .. Header(file).articleCount - 1 :
          LET d == Entry(idx)
              c == GetCluster(file, d.where[1])
          IN /\ LeadsTo(idx, articles[i].aid)
             /\ ~IsRedirect(d)
             /\ TitleOf(d) = TitleOf(articles[i])
             /\ d.param = articles[i].param
             /\ MimeTypes(file)[d.mime + 1] = articles[i].mime
             /\ c.kind = "cluster"
             /\ c.body.compressed = articles[i].compress
             /\ d.where[2] + 1 \in DOMAIN c.body.blobs
             /\ c.body.blobs[d.where[2] + 1] = Blob(articles[i].aid)

(* The file can be opened, and its checksum stands where the header says.  *)
FileSound == CanOpen(file) /\ Verifies(file)

(* Every file with data, and every file without clusters, is sound.        *)
FileVerifies == Done /\ (~isEmpty \/ tmp = <<>>) => FileSound

(* create() returns or throws: no loop runs on for ever.                   *)
Ends == <>(pc \in {"done", "failed", "refused"})

(* zimcreator.cpp:149 "remove invalid redirects" makes sure of the lookup  *)
(* in line 189, whose failure is an "internal error".                      *)
NoInternalError == pc # "failed"
=============================================================================
