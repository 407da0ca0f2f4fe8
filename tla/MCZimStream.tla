---------------------------- MODULE MCZimStream ----------------------------
(* ZimStream with up to four parts, empty ones and single bytes among      *)
(* them, of which two are kept open; a read gets one byte or two.          *)
EXTENDS ZimStream

MCDisk == {d \in UNION {[1 .. n -> 0 .. 2] : n \in 1 .. 4} :
             Len(d) < 4 \/ FoldLeft(+, 0, d) =< 4}
=============================================================================
