------------------------------ MODULE LossyMap ------------------------------
(***************************************************************************)
(* What a cache promises: a map that may forget any entry at any put, but  *)
(* never remembers a value that has been replaced or erased since.         *)
(***************************************************************************)
CONSTANTS Key, Value

VARIABLES
  store,    \* the entries: a function from some of the keys
  call,     \* the last call
  answer    \* what it returned; <<>> if nothing was found

Init == store = [k \in {} |-> k] /\ call = [op |-> "none"] /\ answer = <<>>

Keep(s, keys) == [k \in keys |-> s[k]]

Put(k, v) ==
  /\ call' = [op |-> "put", key |-> k, value |-> v]
  /\ answer' = <<>>
  /\ \E kept \in SUBSET (DOMAIN store \cup {k}) :
       store' = [x \in kept |-> IF x = k THEN v ELSE store[x]]

Get(k) ==
  /\ call' = [op |-> "get", key |-> k]
  /\ answer' = IF k \in DOMAIN store THEN <<store[k]>> ELSE <<>>
  /\ UNCHANGED store

Erase(k) ==
  /\ call' = [op |-> "erase", key |-> k]
  /\ answer' = <<>>
  /\ store' = Keep(store, DOMAIN store \ {k})

SetMaxElements ==
  /\ call' = [op |-> "setMaxElements"]
  /\ answer' = <<>>
  /\ \E kept \in SUBSET DOMAIN store : store' = Keep(store, kept)

Next ==
  \/ \E k \in Key : Get(k) \/ Erase(k) \/ \E v \in Value : Put(k, v)
  \/ SetMaxElements

Spec == Init /\ [][Next]_<<store, call, answer>>
=============================================================================
