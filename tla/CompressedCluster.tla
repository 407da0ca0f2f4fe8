------------------------- MODULE CompressedCluster -------------------------
(***************************************************************************)
(* A compressed cluster on its way to a file and back: operator<< of       *)
(* ClusterImpl puts it through a CompressBuf, operator>> reads it through  *)
(* an ExpandBuf (zimlib/src/cluster.cpp).                                  *)
(*                                                                         *)
(* In the file other bytes may follow the stream; the reader knows from    *)
(* the offsets in the cluster how much it may read.  ExpandBuf can also be *)
(* written to; that is how a stream gets to a sink uncompressed.           *)
(***************************************************************************)
EXTENDS Integers, Sequences

CONSTANTS
  Kind, Byte, Trailer, BufSize, ZBufSize, MaxLen,    \* as in CompressBuf
  HalfSize,                                          \* as in ExpandBuf
  Junk,        \* what may follow the stream in the file
  Other        \* the bytes that it is made of

ASSUME SizeAssumption ==
  /\ {BufSize, ZBufSize, HalfSize} \subseteq Nat \ {0}
  /\ MaxLen \in Nat
  /\ Trailer \notin Byte

ASSUME JunkAssumption == Junk \subseteq Seq(Other)

VARIABLES
  stage,       \* "write" or "read"
  \* of CompressBuf
  kind, obuffer, taken, finishing, sink, writing, c, written,
  \* of ExpandBuf
  content, junk, mode, file, input, inside, ended, area, target, reading

out == <<kind, obuffer, taken, finishing, sink, writing, c, written>>
in  == <<content, junk, mode, file, input, inside, ended, area, target, reading>>
vars == <<stage, out, in>>

C == INSTANCE CompressBuf WITH inside <- taken, pc <- writing
E == INSTANCE ExpandBuf WITH Content <- Seq(Byte), pc <- reading

Init ==
  /\ stage = "write"
  /\ C!Init
  /\ content = <<>> /\ junk = <<>> /\ mode = "in"
  /\ file = <<>> /\ input = <<>> /\ inside = <<>> /\ ended = FALSE
  /\ area = <<>> /\ target = <<>> /\ reading = "idle"

Write ==
  /\ stage = "write"
  /\ C!Next
  /\ UNCHANGED <<stage, in>>

(* The stream has been ended and is in the file. *)
Open ==
  /\ stage = "write"
  /\ writing = "ended"
  /\ stage' = "read"
  /\ content' = written
  /\ mode' \in {"in", "out"}
  /\ junk' \in Junk
  /\ mode' = "out" => junk' = <<>>    \* nobody puts more than a stream
  /\ file' = sink \o junk'
  /\ UNCHANGED <<out, input, inside, ended, area, target, reading>>

Read ==
  /\ stage = "read"
  /\ E!Next
  /\ UNCHANGED <<stage, out>>

Next == Write \/ Open \/ Read

(* A call runs on once it has begun. *)
Running ==
  \/ stage = "write" /\ C!Continue /\ UNCHANGED <<stage, in>>
  \/ stage = "read" /\ E!Continue /\ UNCHANGED <<stage, out>>

Spec == Init /\ [][Next]_vars /\ WF_vars(Running)

-----------------------------------------------------------------------------
TypeOK ==
  /\ stage \in {"write", "read"}
  /\ C!TypeOK
  /\ E!TypeOK

(* However the libraries take and give, and however often what is left     *)
(* over has to be moved: on both ways each byte is in exactly one place,   *)
(* in its order.                                                           *)
NothingLost ==
  /\ C!NothingLost
  /\ stage = "read" => E!NothingLost

(* The same with the bounds of all buffers, which no call of a library may *)
(* be given past.                                                          *)
BuffersSound == TypeOK /\ NothingLost

(* A reader comes to the end of the stream only when it has got all that   *)
(* was written, and what is put through the buffer is all in the sink.     *)
ReadBack == reading \in {"eof", "closed"} => target = written

(* Every call returns.                                                     *)
CallsReturn == C!CallsReturn /\ E!CallsReturn
=============================================================================
