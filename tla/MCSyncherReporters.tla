------------------------- MODULE MCSyncherReporters -------------------------
(* A small instance of SyncherReporters: two requests that create, create    *)
(* again or resume the object, and two subscribe messages from one or from two *)
(* remote hyperties.                                                          *)
EXTENDS SyncherReporters

CONSTANTS q1, q2, s1, s2

MCRequests    == {q1, q2}
MCSubscribers == {s1, s2}
Symmetry      == Permutations(MCRequests) \union Permutations(MCSubscribers)
=============================================================================
