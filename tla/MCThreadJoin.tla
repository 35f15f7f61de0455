---------------------------- MODULE MCThreadJoin ----------------------------
(* ThreadJoin on small instances. *)
EXTENDS ThreadJoin, TLC

Symmetry == Permutations(Worker)
=============================================================================
