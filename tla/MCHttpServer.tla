---------------------------- MODULE MCHttpServer ----------------------------
(***************************************************************************)
(* An http server with one listener and at most two threads, of which it   *)
(* keeps one: with one client, where everything may go wrong and the       *)
(* server is ended, and with two, where the threads are too few.           *)
(***************************************************************************)
EXTENDS HttpServer

MCScenario == {Happens \ {"two"}, {"two"}}
=============================================================================
