--------------------------- MODULE MCStubDeployment ---------------------------
(* A small instance of StubDeployment: two messages to the domain, and two   *)
(* deployments of its stub, of which the application may start one or both.  *)
EXTENDS StubDeployment

CONSTANTS c1, c2

MCCallers == {c1, c2}
===============================================================================
