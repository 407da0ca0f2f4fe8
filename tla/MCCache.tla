------------------------------ MODULE MCCache ------------------------------
(* Cache with more keys than it holds, over all limits from none to four,  *)
(* odd and even, and changes between them.                                 *)
EXTENDS Cache

MCSymmetry == Permutations(Key)
=============================================================================
