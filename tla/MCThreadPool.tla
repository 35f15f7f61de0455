---------------------------- MODULE MCThreadPool ----------------------------
(***************************************************************************)
(* ThreadPool on small instances.  A plan bounds what the program does: it *)
(* creates at most "jobs" objects, those after the first in the functions  *)
(* of the objects "makers" (0 is the main program); thread functions       *)
(* return, and the freezers block and freeze, while no more than "ends"    *)
(* and "freezes" objects were created.                                     *)
(***************************************************************************)
EXTENDS ThreadPool

ASSUME EnoughThreads == MaxJobs < Cardinality(Thread)

VARIABLE plan

(* Three threads do everything in every order; a creator waits for a slot while
   the world is frozen; two creators wait at the same time. *)
Plans ==
    {[jobs |-> 3, makers |-> 0..3, ends |-> 3, freezes |-> 3],
     [jobs |-> 4, makers |-> {1}, ends |-> 2, freezes |-> 4],
     [jobs |-> 5, makers |-> {0, 1}, ends |-> 2, freezes |-> -1]}

MCPoolInit == plan \in Plans /\ PoolInit

MCPoolNext ==
    /\ UNCHANGED plan
    /\ \E t \in Thread :
          \/ /\ created < plan.jobs /\ (created = 0 \/ runs[t] \in plan.makers)
             /\ AThreadCreate(t)
          \/ PoolStep(t)
          \/ created <= plan.ends /\ ThreadReturns(t)
          \/ (created <= plan.freezes \/ AIsInterrupt) /\ Elsewhere(t)
          \/ FreezeSteps(t) \/ WakeUpUnasked(t)

MCPoolSpec == MCPoolInit /\ [][MCPoolNext]_<<plan, allVars>> /\ PoolFairness
=============================================================================
