---------------------------- MODULE MCMessageBus ----------------------------
(* A small instance of MessageBus: a request that is retried, one that       *)
(* crosses the pipeline and one whose poster manages the listener itself.    *)
EXTENDS MessageBus

CONSTANTS retried, piped, manual

MCRequests == {retried, piped, manual}
MCTimed    == {retried, piped}
MCRetried  == {retried}
MCPiped    == {piped}
=============================================================================
