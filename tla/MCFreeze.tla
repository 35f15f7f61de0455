------------------------------ MODULE MCFreeze ------------------------------
(* Freeze on small instances; worker threads are interchangeable. *)
EXTENDS Freeze, TLC

Workers == Thread \ {MainThread}
Symmetry == Permutations(Workers)
=============================================================================
