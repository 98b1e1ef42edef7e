----------------------------- MODULE MCDataSync -----------------------------
(* A small instance of DataSync: one observer (observers share nothing but    *)
(* the reporter, and no property relates two of them), and two fields beside  *)
(* the list.                                                                  *)
EXTENDS DataSync, TLC

CONSTANTS o1, x, y

MCObservers  == {o1}
MCAttributes == {x, y}

Alike == Permutations(MCAttributes)
=============================================================================
