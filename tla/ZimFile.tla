------------------------------ MODULE ZimFile ------------------------------
(***************************************************************************)
(* The layout of a zim file: what the writer emits for each item, and how  *)
(* the reader finds its way (zimlib/src/fileimpl.cpp, dirent.cpp).         *)
(*                                                                         *)
(* A file is the sequence of the items written, each with its size and its *)
(* position; an item is read only from the very position where it begins,  *)
(* so every position in the header or in a pointer list is put to the test.*)
(* A text (url, title, mime type, parameter) is its length: n stands for n *)
(* letters "a", 0 for the empty text; such texts sort as their numbers do. *)
(***************************************************************************)
EXTENDS Integers, Sequences, SequencesExt

CONSTANT RedirectMime    \* numeric_limits<uint16_t>::max(), marks a redirect

HeaderSize == 80         \* Fileheader::size
PtrSize    == 8          \* sizeof(offset_type)
IdxSize    == 4          \* sizeof(size_type)
DigestSize == 16
NoArticle  == -1         \* numeric_limits<size_type>::max()

Item(kind, size, body) == [kind |-> kind, size |-> size, body |-> body]

(* Where each item begins, and where the last one ends. *)
Starts(items) ==
  LET start[k \in 1 .. Len(items) + 1] ==
        IF k = 1 THEN 0 ELSE start[k - 1] + items[k - 1].size
  IN start

Total(items) == Starts(items)[Len(items) + 1]

Laid(items) ==
  [k \in DOMAIN items |->
     [pos  |-> Starts(items)[k],
      kind |-> items[k].kind, size |-> items[k].size, body |-> items[k].body]]

-----------------------------------------------------------------------------
(* Directory entries.  getTitle() gives the url for an empty title, and a  *)
(* title that equals the url is not written.  getDirentSize() has its own  *)
(* idea of all this.                                                       *)

TitleOf(d) == IF d.title = 0 THEN d.url ELSE d.title

DirentSize(d) ==
  (IF d.redirect THEN 12 ELSE 16) + d.url + d.param + 2
    + (IF d.title # d.url THEN d.title ELSE 0)

WrittenTitle(d) == IF TitleOf(d) # d.url THEN TitleOf(d) ELSE 0

(* operator<<: the parameter's length is one byte. *)
DirentItem(d) ==
  Item("dirent",
       (IF d.redirect THEN 12 ELSE 16) + d.url + 1 + WrittenTitle(d) + 1 + d.param,
       [mime  |-> IF d.redirect THEN RedirectMime ELSE d.mime,
        where |-> IF d.redirect THEN <<d.redirectIndex>> ELSE <<d.cluster, d.blob>>,
        ns    |-> d.ns,
        url   |-> d.url,
        title |-> WrittenTitle(d),
        param |-> d.param % 256])

(* operator>> takes the kind of an entry from its mime type. *)
IsRedirect(body) == body.mime = RedirectMime

-----------------------------------------------------------------------------
(* Clusters: the offsets of the blobs and of the end, then the blobs.  The *)
(* size of a compressed cluster is the compressor's business.              *)

ClusterSize(blobs) ==
  (Len(blobs) + 1) * IdxSize + Total(blobs)

ClusterItem(blobs, compressed, packed) ==
  Item("cluster",
       1 + (IF compressed THEN packed ELSE ClusterSize(blobs)),
       [compressed |-> compressed, blobs |-> blobs])

-----------------------------------------------------------------------------
(* What the reader finds at a position. *)

Corrupt == Item("corrupt", 0, <<>>)

ItemAt(file, pos) ==
  LET here == {k \in DOMAIN file : file[k].pos = pos}
  IN IF here = {} THEN Corrupt ELSE file[CHOOSE k \in here : TRUE]

Header(file) == ItemAt(file, 0).body

(* FileImpl::getOffset, and the item its result leads to. *)
GetOffset(file, ptrPos, idx) == ItemAt(file, ptrPos + PtrSize * idx)

Follow(file, ptr) == IF ptr.kind = "ptr" THEN ItemAt(file, ptr.body) ELSE Corrupt

GetDirent(file, idx) == Follow(file, GetOffset(file, Header(file).urlPtrPos, idx))

GetIndexByTitle(file, idx) == ItemAt(file, Header(file).titleIdxPos + IdxSize * idx)

GetClusterOffset(file, idx) == GetOffset(file, Header(file).clusterPtrPos, idx)

GetCluster(file, idx) == Follow(file, GetClusterOffset(file, idx))

(* The list of mime types ends with the first empty text. *)
MimeTypes(file) ==
  LET first == CHOOSE k \in DOMAIN file : file[k].pos = Header(file).mimeListPos
      last  == CHOOSE k \in first .. Len(file) :
                 /\ file[k].body = 0
                 /\ \A j \in first .. k - 1 : file[j].body # 0
  IN [i \in 1 .. last - first |-> file[first + i - 1].body]

(* The constructor of FileImpl refuses a file whose last cluster pointer   *)
(* leads past its end; a file without clusters is not looked at.           *)
CanOpen(file) ==
  LET n == Header(file).clusterCount
  IN n = 0 \/ GetClusterOffset(file, n - 1).body =< Total(file)

(* FileImpl::verify reads the bytes up to checksumPos and compares their   *)
(* digest with the one that stands there.                                  *)
Verifies(file) ==
  LET stored == ItemAt(file, Header(file).checksumPos)
      before == Restrict(file, {k \in DOMAIN file : file[k].pos < Header(file).checksumPos})
  IN stored.kind = "digest" /\ stored.body = before
=============================================================================
