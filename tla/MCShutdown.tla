---------------------------- MODULE MCShutdown ----------------------------
(* Instances of Shutdown.                                                  *)
EXTENDS Shutdown

Request(streamed, post, hits) == [streamed |-> streamed, post |-> post, hits |-> hits]

\* A stream that is counted and audited, and a whole answer that is counted.
MCRequests == {Request(TRUE, TRUE, TRUE), Request(FALSE, TRUE, FALSE)}
===========================================================================
