--------------------------- MODULE MCRuntimeLocks ---------------------------
(* RuntimeLocks on small instances. *)
EXTENDS RuntimeLocks, TLC

Workers == Thread \ {MainThread}
Symmetry == Permutations(Workers)
=============================================================================
