-------------------------------- MODULE MCGC --------------------------------
(* GC on small instances. *)
EXTENDS GC, TLC

Symmetry == Permutations(Obj)

(* Exploration ends where Mark would read reused memory: what the program does
   after that is undefined. *)
Defined == MarkReadsNoStale
=============================================================================
