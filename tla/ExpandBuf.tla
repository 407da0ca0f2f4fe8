----------------------------- MODULE ExpandBuf -----------------------------
(***************************************************************************)
(* The stream buffers in front of a decompressor: InflateStreamBuf,        *)
(* Bunzip2StreamBuf and UnlzmaStreamBuf (zimlib/src/inflatestream.cpp,     *)
(* bunzip2stream.cpp, unlzmastream.cpp).  The three are alike.             *)
(*                                                                         *)
(* One is read from, as Cluster's operator>> does, and gets its input from *)
(* the source behind it, or is written to, and puts its output there.  As  *)
(* in CompressBuf the library that does the work passes bytes on in order  *)
(* and keeps some inside; it takes the end of a stream only when there is  *)
(* no output left before it.                                               *)
(***************************************************************************)
EXTENDS Integers, Sequences

CONSTANTS
  Content,     \* what a stream may hold, uncompressed
  Junk,        \* what may follow the stream in its file
  Trailer,     \* what ends it
  HalfSize     \* ibuffer_size() and obuffer_size(), half of bufsize

VARIABLES
  content, junk,
  mode,        \* "in": read from; "out": written to
  file,        \* in: the rest of the source; out: what has still to be put
  input,       \* the input the library has not taken, avail_in bytes
  inside,      \* external: what it has taken and not given
  ended,       \* external: it has come to the end of the stream
  area,        \* in: the get area; out: the put area
  target,      \* in: what has been read; out: the sink
  pc           \* "idle", "underflow", "overflow", "eof", "closed", "failed"

library == <<input, inside, ended>>
vars == <<content, junk, mode, file, library, area, target, pc>>

(* A buffer in front of a stream with these contents. *)
Init ==
  /\ content \in Content /\ junk \in Junk
  /\ mode \in {"in", "out"}
  /\ mode = "out" => junk = <<>>    \* nobody puts more than a stream
  /\ file = content \o <<Trailer>> \o junk
  /\ input = <<>> /\ inside = <<>> /\ ended = FALSE
  /\ area = <<>> /\ target = <<>>
  /\ pc = "idle"

-----------------------------------------------------------------------------
(* One call of the library: k bytes taken from the input, m bytes given.   *)
(* It goes on as long as it has input and room for output.                 *)

IsEnd(k) == k > 0 /\ input[k] = Trailer

Inside(k) == inside \o SubSeq(input, 1, IF IsEnd(k) THEN k - 1 ELSE k)

Possible(k, m) ==
  /\ m =< Len(Inside(k))
  /\ \A j \in 1 .. k - 1 : ~IsEnd(j)
  /\ IsEnd(k) => m = Len(Inside(k))
  /\ k = Len(input) \/ m = HalfSize \/ IsEnd(k)

Given(k, m) == SubSeq(Inside(k), 1, m)

Call(k, m) ==
  /\ Possible(k, m)
  /\ inside' = SubSeq(Inside(k), m + 1, Len(Inside(k)))
  /\ input' = SubSeq(input, k + 1, Len(input))
  /\ ended' = (ended \/ IsEnd(k))

-----------------------------------------------------------------------------
(* A read of the next byte.  Those who know how much the stream holds read *)
(* no more than that; others may read on only if nothing follows it.       *)
Read ==
  /\ mode = "in" /\ pc = "idle"
  /\ Len(target) < Len(content) \/ junk = <<>>
  /\ IF area = <<>>
     THEN pc' = "underflow" /\ UNCHANGED <<area, target>>
     ELSE /\ target' = Append(target, Head(area))
          /\ area' = Tail(area)
          /\ UNCHANGED pc
  /\ UNCHANGED <<content, junk, mode, file, library>>

(* How much a read from the source gets at most. *)
FillSize == HalfSize

(* next_in is null: nothing has been read yet. *)
BugUnread == file = content \o <<Trailer>> \o junk

NeedsInput == input = <<>>

(* underflow fills ibuffer, with what in_avail() says is there or with all *)
(* that the source gives.                                                  *)
Fill ==
  /\ pc = "underflow"
  /\ NeedsInput
  /\ file # <<>>
  /\ \E n \in 1 .. FillSize :
       /\ n =< Len(file)
       /\ input' = SubSeq(file, 1, n)
       /\ file' = SubSeq(file, n + 1, Len(file))
  /\ UNCHANGED <<content, junk, mode, inside, ended, area, target, pc>>

Eof ==
  /\ pc = "underflow"
  /\ NeedsInput
  /\ file = <<>>
  /\ pc' = "eof"
  /\ UNCHANGED <<content, junk, mode, file, library, area, target>>

(* while (gptr() == egptr()) *)
Until(given) == IF given = <<>> THEN "underflow" ELSE "idle"

Expand ==
  /\ pc = "underflow"
  /\ ~NeedsInput
  /\ \E k \in 0 .. Len(input), m \in 0 .. HalfSize :
       /\ Call(k, m)
       /\ area' = Given(k, m)
       /\ pc' = Until(Given(k, m))
  /\ UNCHANGED <<content, junk, mode, file, target>>

-----------------------------------------------------------------------------
(* A byte of the compressed stream is put. *)
Put ==
  /\ mode = "out" /\ pc = "idle"
  /\ file # <<>>
  /\ IF Len(area) < HalfSize
     THEN /\ area' = Append(area, Head(file))
          /\ file' = Tail(file)
          /\ UNCHANGED <<input, pc>>
     ELSE /\ input' = area /\ area' = <<>>
          /\ pc' = "overflow"
          /\ UNCHANGED file
  /\ UNCHANGED <<content, junk, mode, inside, ended, target>>

(* sync; it does nothing before the first byte has been put. *)
Flush ==
  /\ mode = "out" /\ pc = "idle"
  /\ file # content \o <<Trailer>>
  /\ input' = area /\ area' = <<>>
  /\ pc' = "overflow"
  /\ UNCHANGED <<content, junk, mode, file, inside, ended, target>>

(* while (ret != LZMA_STREAM_END && stream.avail_in > 0) *)
More(left, end) == ~end /\ left # <<>>

(* overflow; what it leaves of its input is not looked at again. *)
Overflow ==
  /\ pc = "overflow"
  /\ \E k \in 0 .. Len(input), m \in 0 .. HalfSize :
       /\ Call(k, m)
       /\ target' = target \o Given(k, m)
  /\ pc' = IF More(input', ended') THEN "overflow" ELSE "idle"
  /\ UNCHANGED <<content, junk, mode, file, area>>

(* checkError throws: without input the library may find nothing to do, or *)
(* call it an error.                                                       *)
Refuse ==
  /\ pc = "overflow"
  /\ input = <<>>
  /\ pc' = "failed"
  /\ UNCHANGED <<content, junk, mode, file, library, area, target>>

Close ==
  /\ mode = "out" /\ pc = "idle"
  /\ file = <<>> /\ area = <<>>
  /\ pc' = "closed"
  /\ UNCHANGED <<content, junk, mode, file, library, area, target>>

(* The steps of a call. *)
Continue == Fill \/ Eof \/ Expand \/ Overflow \/ Refuse

Next == Read \/ Put \/ Flush \/ Close \/ Continue

-----------------------------------------------------------------------------
TypeOK ==
  /\ mode \in {"in", "out"} /\ ended \in BOOLEAN
  /\ Len(input) =< HalfSize /\ Len(area) =< HalfSize
  /\ pc \in {"idle", "underflow", "overflow", "eof", "closed", "failed"}
  /\ mode = "in" => pc \notin {"overflow", "closed", "failed"}
  /\ mode = "out" => pc \notin {"underflow", "eof"}

Rest == content \o <<Trailer>> \o junk

(* Until the stream ends each byte of it is in exactly one place, in its   *)
(* order: nothing is lost between a full output buffer and the next call,  *)
(* for which the other half of the buffer is filled again.                 *)
NothingLost ==
  ~ended =>
    IF mode = "in"
    THEN target \o area \o inside \o input \o file = Rest
    ELSE target \o inside \o input \o area \o file = Rest

(* Every call returns.                                                     *)
CallsReturn == pc \in {"underflow", "overflow"} ~> pc \notin {"underflow", "overflow"}
=============================================================================
