--------------------------- MODULE MCReversalQueue ---------------------------
(***************************************************************************)
(* ReversalQueue with two processes and two reversals.                     *)
(***************************************************************************)
EXTENDS ReversalQueue, TLC

CONSTANTS r1, r2

MCIntents == {[id |-> r1, data |-> "a"], [id |-> r2, data |-> "a"]}

Symmetry == Permutations(Callers)
=============================================================================
