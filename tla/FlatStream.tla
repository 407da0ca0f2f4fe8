----------------------------- MODULE FlatStream -----------------------------
(***************************************************************************)
(* What zim::ifstream promises: however many parts the zim file comes in,  *)
(* it reads like one flat file.  A byte is named by its place in it.       *)
(***************************************************************************)
EXTENDS Naturals

VARIABLES
  size,     \* how long the flat file is
  pos,      \* where the next byte is read
  last,     \* what was done last, as the reader sees it
  status    \* "opening", "good", "lost" after a seek that failed, "failed"

vars == <<size, pos, last, status>>

Init == size = 0 /\ pos = 0 /\ last = [op |-> "none"] /\ status = "opening"

Open ==
  /\ status = "opening"
  /\ size' \in Nat
  /\ pos' = 0 /\ last' = [op |-> "none"] /\ status' = "good"

Read ==
  /\ status = "good" /\ pos < size
  /\ last' = [op |-> "read", at |-> pos]
  /\ pos' = pos + 1
  /\ UNCHANGED <<size, status>>

(* A read at the end fails, and so does every later one. *)
ReadAtEnd ==
  /\ status = "good" /\ pos = size
  /\ status' = "failed"
  /\ UNCHANGED <<size, pos, last>>

ReadFails == status = "good" /\ status' = "failed" /\ UNCHANGED <<size, pos, last>>

(* A seek does not mend a stream that has failed. *)
Seek(off) ==
  /\ status # "opening" /\ off =< size
  /\ last' = [op |-> "seek", to |-> off]
  /\ pos' = off
  /\ status' = IF status = "failed" THEN "failed" ELSE "good"
  /\ UNCHANGED size

(* Past the end, or on a part that cannot be opened; where the stream      *)
(* stands then is not said.                                                *)
SeekFails ==
  /\ status # "opening"
  /\ last' = [op |-> "seek"]
  /\ pos' \in 0 .. size
  /\ status' = IF status = "failed" THEN "failed" ELSE "lost"
  /\ UNCHANGED size

Next ==
  \/ Open \/ Read \/ ReadAtEnd \/ ReadFails \/ SeekFails
  \/ \E off \in 0 .. size : Seek(off)

Spec == Init /\ [][Next]_vars
=============================================================================
