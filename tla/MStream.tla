------------------------------ MODULE MStream ------------------------------
(***************************************************************************)
(* zim::writer::MStream: many append-only streams, one per indexed word,   *)
(* in one temporary page file (zimwriter/src/mstream.cpp and mstream.h).   *)
(*                                                                         *)
(* A stream keeps its last bytes in a buffer that doubles until it has     *)
(* MaxBuffersize bytes; from then on a full buffer is moved to the page    *)
(* file, first into what is left of the stream's last page, then into a    *)
(* new page linked behind it.  Pages of all streams are allocated from one *)
(* counter, so the pages of a stream are scattered over the file.          *)
(*                                                                         *)
(* A call of write() or read() is a loop over bytes or over pages; a step  *)
(* of the loop is a step here.  The program is single threaded: a call     *)
(* starts only when the one before it has returned.                        *)
(***************************************************************************)
EXTENDS Integers, Sequences

CONSTANTS
  Word,            \* stream names
  Byte,            \* byte values
  MinBuffersize,   \* MStream::minBuffersize
  MaxBuffersize,   \* MStream::maxBuffersize
  DataSize,        \* Pagefile::Page::dataSize
  Chunk,           \* bound: the byte sequences one call of write() is given
  MaxLen           \* bound: the length a stream grows to

(* A buffer must fit a page: overflow() copies a whole buffer into the     *)
(* data of a new page.  Buffers grow from MinBuffersize by doubling, so    *)
(* the largest is below twice MaxBuffersize.  The code does not check it;  *)
(* with its defaults (18, 1152, 8186) it holds.                            *)
ASSUME BufferAssumption ==
  /\ MinBuffersize \in Nat \ {0}
  /\ MaxBuffersize \in Nat \ {0}
  /\ DataSize \in Nat \ {0}
  /\ MinBuffersize =< DataSize
  /\ 2 * (MaxBuffersize - 1) =< DataSize

ASSUME ChunkAssumption == Chunk \subseteq Seq(Byte)

NoPage == -1
Page == [nextPage : Nat \cup {NoPage}, data : Seq(Byte)]

VARIABLES
  \* MStream::streams, field by field; ppos is Len(data[w])
  streams,      \* the names that have a stream
  firstPage, currentPage, buffersize, data,
  \* Pagefile
  nextPage,     \* the next page to allocate
  file,         \* the page file: Page records, ppos is Len(file[p].data)
  \* the call under way
  pc,           \* "idle", "write" or "read"
  word,         \* the stream it works on
  rest,         \* write: the bytes still to put
  page, s,      \* read: the next page, and the bytes read so far
  answer,       \* what the last completed read returned
  \* history
  written,      \* written[w]: all the bytes put to the stream of w
  chain         \* chain[w]: the pages allocated for w, in order

streamVars == <<firstPage, currentPage, buffersize, data>>
fileVars   == <<nextPage, file>>
callVars   == <<pc, word, rest, page, s, answer>>
history    == <<written, chain>>
vars       == <<streams, streamVars, fileVars, callVars, history>>

(* What the indexer expects of the streams. *)
Store == INSTANCE StreamStore WITH store <- written

Free(p) == DataSize - Len(file[p].data)

(* Pagefile::getNewPage. *)
PagesAfterNew == nextPage + 1

Init ==
  /\ streams = {}
  /\ firstPage   = [w \in Word |-> NoPage]
  /\ currentPage = [w \in Word |-> NoPage]
  /\ buffersize  = [w \in Word |-> MinBuffersize]
  /\ data        = [w \in Word |-> <<>>]
  /\ nextPage = 0
  /\ file = [p \in {} |-> <<>>]
  /\ pc = "idle"
  /\ word \in Word
  /\ rest = <<>>
  /\ page = NoPage
  /\ s = <<>>
  /\ answer = Store!NoAnswer
  /\ written = [w \in Word |-> <<>>]
  /\ chain   = [w \in Word |-> <<>>]

-----------------------------------------------------------------------------
(* MStream::write: find or insert the stream, then put byte after byte.    *)

BeginWrite(w, str) ==
  /\ pc = "idle"
  /\ Len(written[w]) + Len(str) =< MaxLen
  /\ streams' = streams \cup {w}
  /\ pc' = "write"
  /\ word' = w
  /\ rest' = str
  /\ UNCHANGED <<streamVars, fileVars, page, s, answer, history>>

(* The byte that put() is called with, and the history of that call. *)
Putting ==
  /\ pc = "write"
  /\ rest # <<>>
  /\ rest' = Tail(rest)
  /\ written' = [written EXCEPT ![word] = Append(@, Head(rest))]
  /\ UNCHANGED <<streams, pc, word, page, s, answer>>

BufferFull == Len(data[word]) >= buffersize[word]

BugAllOrNothing ==
  currentPage[word] # NoPage /\ Free(currentPage[word]) >= Len(data[word])
HasRoom == currentPage[word] # NoPage /\ Free(currentPage[word]) > 0

(* put() with room in the buffer. *)
PutBuffered ==
  /\ Putting
  /\ ~BufferFull
  /\ data' = [data EXCEPT ![word] = Append(@, Head(rest))]
  /\ UNCHANGED <<firstPage, currentPage, buffersize, fileVars, chain>>

(* put() when overflow() doubles the buffer. *)
PutGrow ==
  /\ Putting
  /\ BufferFull
  /\ buffersize[word] < MaxBuffersize
  /\ buffersize' = [buffersize EXCEPT ![word] = 2 * @]
  /\ data' = [data EXCEPT ![word] = Append(@, Head(rest))]
  /\ UNCHANGED <<firstPage, currentPage, fileVars, chain>>

(* How much of the buffer the current page takes, and what stays. *)
BugWholeBuffer == Len(data[word])
Count == IF Len(data[word]) < Free(currentPage[word])
         THEN Len(data[word]) ELSE Free(currentPage[word])

BugNoMove(n) == SubSeq(data[word], 1, Len(data[word]) - n)
Remaining(n) == SubSeq(data[word], n + 1, Len(data[word]))

(* put() when overflow() fills the current page and moves what is left of  *)
(* the buffer to its front.                                                *)
PutFill ==
  /\ Putting
  /\ BufferFull
  /\ buffersize[word] >= MaxBuffersize
  /\ HasRoom
  /\ file' = [file EXCEPT ![currentPage[word]].data =
                            @ \o SubSeq(data[word], 1, Count)]
  /\ data' = [data EXCEPT ![word] = Append(Remaining(Count), Head(rest))]
  /\ UNCHANGED <<firstPage, currentPage, buffersize, nextPage, chain>>

(* The page file after overflow() has written the buffer of the stream to  *)
(* a new page and, when the stream has pages, has overwritten the first    *)
(* four bytes of its current page with the link to it.                     *)
NewPage == [nextPage |-> NoPage, data |-> data[word]]
FileWith(new, linked) ==
  [p \in 0 .. nextPage |->
     IF p = nextPage THEN new
     ELSE IF firstPage[word] # NoPage /\ p = currentPage[word] THEN linked
     ELSE file[p]]

BugNoLink == FileWith(NewPage, file[currentPage[word]])
BugWholePageWritten == FileWith(NewPage, [NewPage EXCEPT !.nextPage = nextPage])
FileWithNewPage ==
  FileWith(NewPage, [file[currentPage[word]] EXCEPT !.nextPage = nextPage])

(* put() when overflow() allocates a page. *)
PutNewPage ==
  /\ Putting
  /\ BufferFull
  /\ buffersize[word] >= MaxBuffersize
  /\ ~HasRoom
  /\ nextPage' = PagesAfterNew
  /\ file' = FileWithNewPage
  /\ firstPage' = IF firstPage[word] = NoPage
                  THEN [firstPage EXCEPT ![word] = nextPage]
                  ELSE firstPage
  /\ currentPage' = [currentPage EXCEPT ![word] = nextPage]
  /\ data' = [data EXCEPT ![word] = <<Head(rest)>>]
  /\ chain' = [chain EXCEPT ![word] = Append(@, nextPage)]
  /\ UNCHANGED buffersize

EndWrite ==
  /\ pc = "write"
  /\ rest = <<>>
  /\ pc' = "idle"
  /\ UNCHANGED <<streams, streamVars, fileVars, word, rest, page, s, answer, history>>

-----------------------------------------------------------------------------
(* MStream::read: nothing for a name without a stream; else the pages from *)
(* firstPage along their links, then the buffer.                           *)

ReadMissing(w) ==
  /\ pc = "idle"
  /\ w \notin streams
  /\ answer' = [word |-> w, bytes |-> <<>>]
  /\ UNCHANGED <<streams, streamVars, fileVars, pc, word, rest, page, s, history>>

BeginRead(w) ==
  /\ pc = "idle"
  /\ w \in streams
  /\ pc' = "read"
  /\ word' = w
  /\ page' = firstPage[w]
  /\ s' = <<>>
  /\ UNCHANGED <<streams, streamVars, fileVars, rest, answer, history>>

ReadPage ==
  /\ pc = "read"
  /\ page # NoPage
  /\ s' = s \o file[page].data
  /\ page' = file[page].nextPage
  /\ UNCHANGED <<streams, streamVars, fileVars, pc, word, rest, answer, history>>

EndRead ==
  /\ pc = "read"
  /\ page = NoPage
  /\ answer' = [word |-> word, bytes |-> s \o data[word]]
  /\ pc' = "idle"
  /\ s' = <<>>
  /\ UNCHANGED <<streams, streamVars, fileVars, word, rest, page, history>>

-----------------------------------------------------------------------------
Running == \/ PutBuffered \/ PutGrow \/ PutFill \/ PutNewPage \/ EndWrite
           \/ ReadPage \/ EndRead

Next == \/ Running
        \/ \E w \in Word : \/ \E str \in Chunk : BeginWrite(w, str)
                           \/ ReadMissing(w)
                           \/ BeginRead(w)

Spec == Init /\ [][Next]_vars

-----------------------------------------------------------------------------
(* Properties                                                              *)

TypeOK ==
  /\ streams \subseteq Word
  /\ firstPage \in [Word -> Nat \cup {NoPage}]
  /\ currentPage \in [Word -> Nat \cup {NoPage}]
  /\ buffersize \in [Word -> Nat \ {0}]
  /\ data \in [Word -> Seq(Byte)]
  /\ nextPage \in Nat
  /\ file \in [0 .. nextPage - 1 -> Page]
  /\ pc \in {"idle", "write", "read"}
  /\ word \in Word
  /\ rest \in Seq(Byte)
  /\ page \in Nat \cup {NoPage}
  /\ s \in Seq(Byte)
  /\ answer \in {Store!NoAnswer} \cup [word : Word, bytes : Seq(Byte)]
  /\ written \in [Word -> Seq(Byte)]
  /\ chain \in [Word -> Seq(Nat)]

(* Neither a buffer nor a page is ever written past its end: put() finds   *)
(* room after overflow(), and overflow() finds room in the page it copies  *)
(* to.  The arrays are plain memory; nothing else would notice.            *)
RoomForEveryByte ==
  /\ \A w \in Word : Len(data[w]) =< buffersize[w] /\ buffersize[w] =< DataSize
  /\ \A p \in DOMAIN file : Len(file[p].data) =< DataSize

(* Every allocated page is linked exactly once, as the first page of a     *)
(* stream or behind one other page: two words never share a page, no page  *)
(* is lost and no chain runs into itself.                                  *)
PagesLinkedOnce ==
  \A p \in DOMAIN file :
    LET heads == {w \in Word : firstPage[w] = p}
        preds == {q \in DOMAIN file : file[q].nextPage = p}
    IN \/ preds = {} /\ \E w \in Word : heads = {w}
       \/ heads = {} /\ \E q \in DOMAIN file : preds = {q}

(* overflow() starts a page only when the one before it is full, so the    *)
(* file has no gaps: only the page a stream ends with is partly filled.    *)
OnlyLastPagePartial ==
  \A p \in DOMAIN file :
    \/ file[p].nextPage # NoPage /\ Len(file[p].data) = DataSize
    \/ file[p].nextPage = NoPage /\ \E w \in Word : currentPage[w] = p

(* A link leads to a page allocated later, so the loop of read(), which    *)
(* follows the links until there is none, ends.                            *)
LinksGoForward ==
  \A p \in DOMAIN file : file[p].nextPage # NoPage => file[p].nextPage > p

(* The page file is append-only: a link is set once and bytes that are on  *)
(* a page stay there, although overflow() rewrites whole pages and page    *)
(* headers in place.                                                       *)
PageKept(p) ==
  /\ p \in DOMAIN file'
  /\ Len(file[p].data) =< Len(file'[p].data)
  /\ \A i \in DOMAIN file[p].data : file'[p].data[i] = file[p].data[i]
  /\ file[p].nextPage # NoPage => file'[p].nextPage = file[p].nextPage
FileAppendOnly == [][\A p \in DOMAIN file : PageKept(p)]_vars

(* The streams implement the byte store the indexer works with: a read     *)
(* returns every byte written to that word, in order, whatever was written *)
(* to other words between.                                                 *)
ImplementsStore == Store!Spec
=============================================================================
