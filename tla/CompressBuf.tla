---------------------------- MODULE CompressBuf ----------------------------
(***************************************************************************)
(* The stream buffers in front of a compressor: DeflateStreamBuf,          *)
(* Bzip2StreamBuf and LzmaStreamBuf (zimlib/src/deflatestream.cpp,         *)
(* bzip2stream.cpp, lzmastream.cpp), as Cluster's operator<< uses them.    *)
(*                                                                         *)
(* The compressor is a library.  It takes some bytes of its input, gives   *)
(* some bytes of output and keeps the rest inside, as long as it likes     *)
(* until it is told to flush or to finish.  The model lets it give out the *)
(* bytes that it took, in order: what counts is how much of the input can  *)
(* be got back from the sink.  The sink takes all it is given.             *)
(***************************************************************************)
EXTENDS Integers, Sequences

CONSTANTS
  Kind,        \* of "deflate", "bzip2", "lzma"
  Byte,        \* the bytes compressed
  Trailer,     \* what ends a finished stream
  BufSize,     \* obuffer.size()
  ZBufSize,    \* sizeof(zbuffer)
  MaxLen       \* bound: the bytes written

VARIABLES
  kind,
  obuffer,     \* what stands between the begin of the buffer and pptr()
  inside,      \* external: what the compressor has taken and not given
  finishing,   \* external: the compressor has been told to finish
  sink,
  pc,          \* "idle", "overflow", "sync", "end"; "close": a last sync;
               \* "closed" and "ended": after a last sync and after end
  c,           \* overflow: the byte to put, as a sequence of one or none
  written      \* history: the bytes put

vars == <<kind, obuffer, inside, finishing, sink, pc, c, written>>

Init ==
  /\ kind \in Kind
  /\ obuffer = <<>> /\ inside = <<>> /\ finishing = FALSE /\ sink = <<>>
  /\ pc = "idle" /\ c = <<>>
  /\ written = <<>>

-----------------------------------------------------------------------------
(* The compressor.  It takes k bytes and gives m.  A call goes on until it *)
(* has no input or no room for output; one that flushes or finishes also   *)
(* until nothing is inside any more.  The trailer comes after all input.   *)

Inside(action, k) ==
  inside \o SubSeq(obuffer, 1, k)
    \o (IF action = "finish" /\ ~finishing /\ k = Len(obuffer) THEN <<Trailer>> ELSE <<>>)

GoesOn(action, k, m) ==
  /\ m < ZBufSize
  /\ k < Len(obuffer) \/ (action # "run" /\ m < Len(Inside(action, k)))

Compress(action, k, m) ==
  /\ m =< ZBufSize /\ m =< Len(Inside(action, k))
  /\ ~GoesOn(action, k, m)
  /\ sink' = sink \o SubSeq(Inside(action, k), 1, m)
  /\ inside' = SubSeq(Inside(action, k), m + 1, Len(Inside(action, k)))
  /\ finishing' = (finishing \/ (action = "finish" /\ k = Len(obuffer)))

Taken == 0 .. Len(obuffer)
Given == 0 .. ZBufSize

BugNotMoved(k) == SubSeq(obuffer, 1, Len(obuffer) - k)

(* memmove: what the compressor has not taken. *)
Left(k) == SubSeq(obuffer, k + 1, Len(obuffer))

-----------------------------------------------------------------------------
Room(s) == Len(s) < BufSize

(* sputc; after it has been finished, a compressor takes no more. *)
Put ==
  /\ pc = "idle" /\ ~finishing
  /\ Len(written) < MaxLen
  /\ \E b \in Byte :
       /\ written' = Append(written, b)
       /\ IF Room(obuffer)
          THEN obuffer' = Append(obuffer, b) /\ UNCHANGED <<pc, c>>
          ELSE pc' = "overflow" /\ c' = <<b>> /\ UNCHANGED obuffer
  /\ UNCHANGED <<kind, inside, finishing, sink>>

(* overflow; its own sputc calls it again if the buffer is still full. *)
Overflow ==
  /\ pc = "overflow"
  /\ \E k \in Taken, m \in Given :
       /\ Compress("run", k, m)
       /\ IF Room(Left(k))
          THEN obuffer' = Left(k) \o c /\ pc' = "idle" /\ c' = <<>>
          ELSE obuffer' = Left(k) /\ UNCHANGED <<pc, c>>
  /\ UNCHANGED <<kind, written>>

Flush ==
  /\ pc = "idle"
  /\ pc' = "sync"
  /\ UNCHANGED <<kind, obuffer, inside, finishing, sink, c, written>>

(* The last call before the buffer goes.  operator<< ends a compressed     *)
(* cluster with end() or, for deflate, with flush().                       *)
Close ==
  /\ pc = "idle"
  /\ pc' = "end" \/ (kind = "deflate" /\ pc' = "close")
  /\ UNCHANGED <<kind, obuffer, inside, finishing, sink, c, written>>

Syncing == pc \in {"sync", "close"}

Return == pc' = IF pc = "sync" THEN "idle" ELSE "closed"

(* sync of deflate and lzma: while there is input.  sync of lzma finishes. *)
SyncAction == IF kind = "lzma" THEN "finish" ELSE "flush"

Sync ==
  /\ Syncing /\ kind # "bzip2"
  /\ obuffer # <<>>
  /\ \E k \in Taken, m \in Given : Compress(SyncAction, k, m) /\ obuffer' = Left(k)
  /\ UNCHANGED <<kind, pc, c, written>>

SyncDone ==
  /\ Syncing /\ kind # "bzip2"
  /\ obuffer = <<>>
  /\ Return
  /\ UNCHANGED <<kind, obuffer, inside, finishing, sink, c, written>>

BugNoInput(left, within) == left = <<>>

(* BZ_RUN_OK, BZ_STREAM_END and their like: nothing is left to do. *)
AllOut(left, within) == left = <<>> /\ within = <<>>

(* sync of bzip2: until the compressor says so. *)
SyncBzip2 ==
  /\ Syncing /\ kind = "bzip2"
  /\ \E k \in Taken, m \in Given : Compress("flush", k, m) /\ obuffer' = Left(k)
  /\ IF AllOut(obuffer', inside') THEN Return ELSE UNCHANGED pc
  /\ UNCHANGED <<kind, c, written>>

(* end: until LZMA_STREAM_END or BZ_STREAM_END. *)
End ==
  /\ pc = "end"
  /\ \E k \in Taken, m \in Given : Compress("finish", k, m) /\ obuffer' = Left(k)
  /\ pc' = IF AllOut(obuffer', inside') THEN "ended" ELSE pc
  /\ UNCHANGED <<kind, c, written>>

(* The steps of a call. *)
Continue == Overflow \/ Sync \/ SyncDone \/ SyncBzip2 \/ End

Next == Put \/ Flush \/ Close \/ Continue

Spec == Init /\ [][Next]_vars

-----------------------------------------------------------------------------
TypeOK ==
  /\ kind \in Kind
  /\ obuffer \in Seq(Byte) /\ Len(obuffer) =< BufSize
  /\ inside \in Seq(Byte \cup {Trailer})
  /\ finishing \in BOOLEAN
  /\ sink \in Seq(Byte \cup {Trailer})
  /\ pc \in {"idle", "overflow", "sync", "close", "end", "closed", "ended"}
  /\ c \in Seq(Byte)
  /\ written \in Seq(Byte)

Ending == IF finishing THEN <<Trailer>> ELSE <<>>

(* However the compressor takes and gives, and however often overflow has  *)
(* to move what is left, each byte is in exactly one place, in its order.  *)
NothingLost ==
  sink \o inside \o obuffer \o c = written \o Ending

(* Every call returns.                                                     *)
Running == pc \in {"overflow", "sync", "close", "end"}

CallsReturn == Running ~> ~Running
=============================================================================
