----------------------------- MODULE MCMStream -----------------------------
(* MStream with two words whose pages interleave in the page file.  A page *)
(* holds three bytes and a full buffer two, so that buffers straddle pages;*)
(* seven bytes take a stream through every branch of overflow() and onto a *)
(* second, linked page.                                                    *)
EXTENDS MStream, TLC

MCChunk == {<<>>, <<2>>, <<1, 2, 1>>}
MCSymmetry == Permutations(Word)
=============================================================================
