---------------------------- MODULE StreamStore ----------------------------
(***************************************************************************)
(* What the indexer expects of zim::writer::MStream: an append-only byte   *)
(* sequence for every word, and a read that returns the whole of it.  The  *)
(* paging and the buffers that keep millions of such sequences in one      *)
(* temporary file are MStream.tla's business.                              *)
(***************************************************************************)
EXTENDS Sequences

CONSTANTS Word,  \* stream names
          Byte   \* the bytes written

NoAnswer == [word |-> {}, bytes |-> <<>>]

VARIABLES store,   \* store[w]: every byte written to the stream of w
          answer   \* what the last completed read returned

Init == /\ store = [w \in Word |-> <<>>]
        /\ answer = NoAnswer

(* One byte is appended to one stream. *)
Extend(w, b) == /\ store' = [store EXCEPT ![w] = Append(@, b)]
                /\ UNCHANGED answer

(* A read of one stream returns all of it. *)
Reply(w) == /\ answer' = [word |-> w, bytes |-> store[w]]
            /\ UNCHANGED store

Next == \E w \in Word : Reply(w) \/ \E b \in Byte : Extend(w, b)

Spec == Init /\ [][Next]_<<store, answer>>
=============================================================================
