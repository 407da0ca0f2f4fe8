------------------------ MODULE MCCompressedCluster ------------------------
(* CompressedCluster with buffers of two and up to six bytes to write: the *)
(* compressor may keep all of them until the end, three times what its     *)
(* output buffer takes, or refuse input while the stream buffer is full.   *)
(* The stream is alone in its file or has one or three bytes behind it.    *)
EXTENDS CompressedCluster

MCJunk == {<<>>, <<9>>, <<9, 8, 9>>}
=============================================================================
