-------------------------- MODULE ThreadJoinProofs --------------------------
(***************************************************************************)
(* Proofs about ThreadJoin, for any finite number of threads: ending and   *)
(* joining threads are steps of the freeze protocol, AThreadFinalize never *)
(* destroys what is in use, and AThreadJoin returns the stored result.     *)
(***************************************************************************)
EXTENDS ThreadJoin, FreezeProofs

USE ThreadAssumption, JoinAssumption

-----------------------------------------------------------------------------
(* The freeze protocol. *)

(* Every step of a thread that ends or joins is a step of the protocol, or
   leaves its state alone. *)
LEMMA JoinNextRefines == JoinNext => [Next]_vars
<1>1. ASSUME NEW w \in Worker,
             FunctionReturns(w) \/ ExitAllocate(w) \/ ExitStep(w)
      PROVE  [Next]_vars
  <2>1. w \in Thread
    BY DEF Worker
  <2>2. CASE ExitAllocate(w)
    BY <2>1, <2>2 DEF ExitAllocate, Next
  <2>3. CASE ExitEnd(w)
    BY <2>1, <2>3 DEF ExitEnd, Next
  <2>4. CASE FunctionReturns(w) \/ ExitLocked(w) \/ ExitStore(w) \/ ExitBroadcast(w)
    BY <2>4 DEF FunctionReturns, ExitLocked, ExitStore, ExitBroadcast
  <2> QED BY <1>1, <2>2, <2>3, <2>4 DEF ExitStep
<1>2. ASSUME NEW t \in Thread, NEW w \in Worker,
             AThreadJoin(t, w) \/ DropReference(t, w) \/ AThreadFinalize(t, w)
      PROVE  [Next]_vars
  BY <1>2 DEF AThreadJoin, DropReference, AThreadFinalize
<1>3. ASSUME NEW t \in Thread, JoinStep(t) PROVE [Next]_vars
  <2>1. CASE JoinWait(t)
    BY <2>1 DEF JoinWait, Next
  <2>2. CASE JoinResume(t)
    BY <2>2 DEF JoinResume, Next, Continue
  <2>3. CASE JoinLocked(t) \/ JoinReturn(t) \/ JoinSleep(t) \/ JoinRelock(t)
    BY <2>3 DEF JoinLocked, JoinReturn, JoinSleep, JoinRelock
  <2> QED BY <1>3, <2>1, <2>2, <2>3 DEF JoinStep
<1>4. ASSUME NEW t \in Thread, Elsewhere(t) \/ FreezeSteps(t) PROVE [Next]_vars
  BY <1>4 DEF Elsewhere, FreezeSteps, Next, Continue
<1>5. ASSUME NEW t \in Thread, WakeUpUnasked(t) PROVE [Next]_vars
  BY <1>5 DEF WakeUpUnasked, Next
<1> QED BY <1>1, <1>2, <1>3, <1>4, <1>5 DEF JoinNext

(* Joining and ending threads respects the freeze protocol (AThreadJoin,
   BeginNewThread): what is proved of the protocol holds with them. *)
THEOREM JoinRefinesFreeze == JoinSpec => ImplementsFreeze
<1>1. JoinInit => Init
  BY DEF JoinInit
<1>2. [JoinNext]_allVars => [Next]_vars
  BY JoinNextRefines DEF allVars
<1> QED BY <1>1, <1>2, PTL DEF JoinSpec, ImplementsFreeze, Spec

-----------------------------------------------------------------------------
(* The inductive invariant. *)

LEMMA JoinInitInv == JoinInit => JoinIInv
<1> SUFFICES ASSUME JoinInit PROVE JoinIInv
  OBVIOUS
<1>1. IInv /\ TypeOK
  BY InitInv DEF JoinInit, IInv
<1>2. JoinIsSound
  BY <1>1 DEF JoinInit, JoinIsSound, JoinTypeOK, FinalizedIsUnused
<1>3. EndIsAlone /\ StateTells /\ JoinersJoinOthers
  BY DEF JoinInit, EndIsAlone, StateTells, JoinersJoinOthers, Joins, Worker
<1>4. MutexIsHeld
  BY DEF JoinInit, MutexIsHeld, HoldsMutex, Worker
<1> QED BY <1>1, <1>2, <1>3, <1>4 DEF JoinIInv, JoinInit

(* The steps of the freeze protocol proper, taken while nobody is inside
   AThreadMutex. *)
LEMMA ProtocolKeeps ==
    ASSUME JoinIInv, IInv', UNCHANGED <<inside, exitVars, joinVars, objVars>>,
           inside = NoThread \/ UNCHANGED pc
    PROVE  JoinIInv'
<1> USE DEF exitVars, joinVars, objVars
<1>1. JoinIsSound'
  BY DEF JoinIInv, IInv, JoinIsSound, JoinTypeOK, FinalizedIsUnused, Joins
<1>2. EndIsAlone'
  BY DEF JoinIInv, EndIsAlone
<1>3. MutexIsHeld' /\ StateTells' /\ JoinersJoinOthers'
  BY DEF JoinIInv, MutexIsHeld, HoldsMutex, StateTells, JoinersJoinOthers, Joins
<1> QED BY <1>1, <1>2, <1>3 DEF JoinIInv

(* The function returns. *)
LEMMA ReturnsKeeps ==
    ASSUME JoinIInv, IInv', NEW w \in Worker, FunctionReturns(w)
    PROVE  JoinIInv'
<1> USE DEF exitVars, joinVars, objVars, FunctionReturns, ExitTo, AtWill, vars
<1>1. JoinTypeOK' /\ (referred \cap finalized = {})'
  BY DEF JoinIInv, IInv, JoinIsSound, JoinTypeOK, Worker, StateTells, JoinersJoinOthers, Joins
<1>2. FinalizedIsUnused'
  BY DEF JoinIInv, JoinIsSound, JoinTypeOK, FinalizedIsUnused, Joins, Worker, MutexIsHeld, HoldsMutex, JoinersJoinOthers
<1>3. EndIsAlone'
  BY DEF JoinIInv, JoinIsSound, JoinTypeOK, EndIsAlone, Worker
<1>4. MutexIsHeld'
  BY DEF JoinIInv, JoinIsSound, JoinTypeOK, MutexIsHeld, HoldsMutex, Worker, JoinersJoinOthers, Joins
<1>5. StateTells' /\ JoinersJoinOthers'
  BY DEF JoinIInv, JoinIsSound, JoinTypeOK, StateTells, JoinersJoinOthers, Joins, Worker, MutexIsHeld, HoldsMutex
<1> QED BY <1>1, <1>2, <1>3, <1>4, <1>5 DEF JoinIInv, JoinIsSound

(* The ending thread locks its object and writes the state. *)
LEMMA ExitLockedKeeps ==
    ASSUME JoinIInv, IInv', NEW w \in Worker, ExitLocked(w)
    PROVE  JoinIInv'
<1> USE DEF exitVars, joinVars, objVars, ExitLocked, ExitTo, vars
<1>1. JoinTypeOK' /\ (referred \cap finalized = {})'
  BY DEF JoinIInv, IInv, JoinIsSound, JoinTypeOK, Worker, StateTells, JoinersJoinOthers, Joins
<1>2. FinalizedIsUnused'
  BY DEF JoinIInv, JoinIsSound, JoinTypeOK, FinalizedIsUnused, Joins, Worker, MutexIsHeld, HoldsMutex, JoinersJoinOthers
<1>3. EndIsAlone'
  BY DEF JoinIInv, JoinIsSound, JoinTypeOK, EndIsAlone, Worker
<1>4. MutexIsHeld'
  BY DEF JoinIInv, JoinIsSound, JoinTypeOK, MutexIsHeld, HoldsMutex, Worker, JoinersJoinOthers, Joins
<1>5. StateTells' /\ JoinersJoinOthers'
  BY DEF JoinIInv, JoinIsSound, JoinTypeOK, StateTells, JoinersJoinOthers, Joins, Worker, MutexIsHeld, HoldsMutex
<1> QED BY <1>1, <1>2, <1>3, <1>4, <1>5 DEF JoinIInv, JoinIsSound

(* The ending thread stores the result. *)
LEMMA ExitStoreKeeps ==
    ASSUME JoinIInv, IInv', NEW w \in Worker, ExitStore(w)
    PROVE  JoinIInv'
<1> USE DEF exitVars, joinVars, objVars, ExitStore, ExitTo, vars
<1>1. JoinTypeOK' /\ (referred \cap finalized = {})'
  BY DEF JoinIInv, IInv, JoinIsSound, JoinTypeOK, Worker, StateTells, JoinersJoinOthers, Joins
<1>2. FinalizedIsUnused'
  BY DEF JoinIInv, JoinIsSound, JoinTypeOK, FinalizedIsUnused, Joins, Worker, MutexIsHeld, HoldsMutex, JoinersJoinOthers
<1>3. EndIsAlone'
  BY DEF JoinIInv, JoinIsSound, JoinTypeOK, EndIsAlone, Worker
<1>4. MutexIsHeld'
  BY DEF JoinIInv, JoinIsSound, JoinTypeOK, MutexIsHeld, HoldsMutex, Worker, JoinersJoinOthers, Joins
<1>5. StateTells' /\ JoinersJoinOthers'
  BY DEF JoinIInv, JoinIsSound, JoinTypeOK, StateTells, JoinersJoinOthers, Joins, Worker, MutexIsHeld, HoldsMutex
<1> QED BY <1>1, <1>2, <1>3, <1>4, <1>5 DEF JoinIInv, JoinIsSound

(* The thread is no longer counted.  Nobody has frozen the others: it was
   running. *)
LEMMA ExitEndKeeps ==
    ASSUME JoinIInv, IInv', NEW w \in Worker, ExitEnd(w)
    PROVE  JoinIInv'
<1> USE DEF exitVars, joinVars, objVars, ExitEnd, ExitTo
<1>1. JoinTypeOK' /\ (referred \cap finalized = {})'
  BY DEF JoinIInv, IInv, JoinIsSound, JoinTypeOK, Worker, StateTells, JoinersJoinOthers, Joins
<1>2. FinalizedIsUnused'
  BY DEF JoinIInv, JoinIsSound, JoinTypeOK, FinalizedIsUnused, Joins, Worker, MutexIsHeld, HoldsMutex, JoinersJoinOthers
<1>3. EndIsAlone'
  <2>1. w \in Thread /\ pc \in [Thread -> PC] /\ Go(w, "idle") /\ pc[w] = "running"
    BY DEF JoinIInv, IInv, TypeOK, ThreadEnd, Worker
  <2>2. \A t \in Thread : pc[t] # "frozen"
    <3> SUFFICES ASSUME NEW t \in Thread, pc[t] = "frozen" PROVE FALSE
      OBVIOUS
    <3>1. ExecutingThreads = {t}
      BY DEF JoinIInv, IInv, OnlyExecuting
    <3> QED BY <2>1, <3>1 DEF ExecutingThreads, Executing
  <2>3. \A t \in Thread : pc'[t] # "frozen"
    BY <2>1, <2>2 DEF Go
  <2> QED BY <2>3 DEF JoinIInv, JoinIsSound, JoinTypeOK, EndIsAlone, Worker
<1>4. MutexIsHeld'
  BY DEF JoinIInv, JoinIsSound, JoinTypeOK, MutexIsHeld, HoldsMutex, Worker, JoinersJoinOthers, Joins
<1>5. StateTells' /\ JoinersJoinOthers'
  BY DEF JoinIInv, JoinIsSound, JoinTypeOK, StateTells, JoinersJoinOthers, Joins, Worker, MutexIsHeld, HoldsMutex
<1> QED BY <1>1, <1>2, <1>3, <1>4, <1>5 DEF JoinIInv, JoinIsSound

(* The joiner is woken. *)
LEMMA BroadcastKeeps ==
    ASSUME JoinIInv, IInv', NEW w \in Worker, ExitBroadcast(w)
    PROVE  JoinIInv'
<1> USE DEF exitVars, joinVars, objVars, ExitBroadcast, ExitTo, vars
<1>1. JoinTypeOK' /\ (referred \cap finalized = {})'
  BY DEF JoinIInv, IInv, JoinIsSound, JoinTypeOK, Worker, StateTells, JoinersJoinOthers, Joins
<1>2. FinalizedIsUnused'
  BY DEF JoinIInv, JoinIsSound, JoinTypeOK, FinalizedIsUnused, Joins, Worker, MutexIsHeld, HoldsMutex, JoinersJoinOthers
<1>3. EndIsAlone'
  BY DEF JoinIInv, JoinIsSound, JoinTypeOK, EndIsAlone, Worker
<1>4. MutexIsHeld'
  BY DEF JoinIInv, JoinIsSound, JoinTypeOK, MutexIsHeld, HoldsMutex, Worker, JoinersJoinOthers, Joins
<1>5. StateTells' /\ JoinersJoinOthers'
  BY DEF JoinIInv, JoinIsSound, JoinTypeOK, StateTells, JoinersJoinOthers, Joins, Worker, MutexIsHeld, HoldsMutex
<1> QED BY <1>1, <1>2, <1>3, <1>4, <1>5 DEF JoinIInv, JoinIsSound

(* A thread starts to join another. *)
LEMMA JoinKeeps ==
    ASSUME JoinIInv, IInv', NEW t \in Thread, NEW w \in Worker, AThreadJoin(t, w)
    PROVE  JoinIInv'
<1> USE DEF exitVars, joinVars, objVars, AThreadJoin, JoinTo, AtWill, vars
<1>1. JoinTypeOK' /\ (referred \cap finalized = {})'
  BY DEF JoinIInv, IInv, JoinIsSound, JoinTypeOK, Worker, StateTells, JoinersJoinOthers, Joins
<1>2. FinalizedIsUnused'
  BY DEF JoinIInv, JoinIsSound, JoinTypeOK, FinalizedIsUnused, Joins, Worker, MutexIsHeld, HoldsMutex, JoinersJoinOthers
<1>3. EndIsAlone'
  BY DEF JoinIInv, JoinIsSound, JoinTypeOK, EndIsAlone, Worker
<1>4. MutexIsHeld'
  BY DEF JoinIInv, JoinIsSound, JoinTypeOK, MutexIsHeld, HoldsMutex, Worker, JoinersJoinOthers, Joins
<1>5. StateTells' /\ JoinersJoinOthers'
  BY DEF JoinIInv, JoinIsSound, JoinTypeOK, StateTells, JoinersJoinOthers, Joins, Worker, MutexIsHeld, HoldsMutex
<1> QED BY <1>1, <1>2, <1>3, <1>4, <1>5 DEF JoinIInv, JoinIsSound

(* The joiner has the object's mutex. *)
LEMMA JoinLockedKeeps ==
    ASSUME JoinIInv, IInv', NEW t \in Thread, JoinLocked(t)
    PROVE  JoinIInv'
<1> USE DEF exitVars, joinVars, objVars, JoinLocked, JoinTo, vars
<1>1. JoinTypeOK' /\ (referred \cap finalized = {})'
  BY DEF JoinIInv, IInv, JoinIsSound, JoinTypeOK, Worker, StateTells, JoinersJoinOthers, Joins
<1>2. FinalizedIsUnused'
  BY DEF JoinIInv, JoinIsSound, JoinTypeOK, FinalizedIsUnused, Joins, Worker, MutexIsHeld, HoldsMutex, JoinersJoinOthers
<1>3. EndIsAlone'
  BY DEF JoinIInv, JoinIsSound, JoinTypeOK, EndIsAlone, Worker
<1>4. MutexIsHeld'
  BY DEF JoinIInv, JoinIsSound, JoinTypeOK, MutexIsHeld, HoldsMutex, Worker, JoinersJoinOthers, Joins
<1>5. StateTells' /\ JoinersJoinOthers'
  BY DEF JoinIInv, JoinIsSound, JoinTypeOK, StateTells, JoinersJoinOthers, Joins, Worker, MutexIsHeld, HoldsMutex
<1> QED BY <1>1, <1>2, <1>3, <1>4, <1>5 DEF JoinIInv, JoinIsSound

(* The joiner has seen that the thread has ended. *)
LEMMA JoinReturnKeeps ==
    ASSUME JoinIInv, IInv', NEW t \in Thread, JoinReturn(t)
    PROVE  JoinIInv'
<1> USE DEF exitVars, joinVars, objVars, JoinReturn, JoinTo, vars
<1>1. JoinTypeOK' /\ (referred \cap finalized = {})'
  BY DEF JoinIInv, IInv, JoinIsSound, JoinTypeOK, Worker, StateTells, JoinersJoinOthers, Joins
<1>2. FinalizedIsUnused'
  BY DEF JoinIInv, JoinIsSound, JoinTypeOK, FinalizedIsUnused, Joins, Worker, MutexIsHeld, HoldsMutex, JoinersJoinOthers
<1>3. EndIsAlone'
  BY DEF JoinIInv, JoinIsSound, JoinTypeOK, EndIsAlone, Worker
<1>4. MutexIsHeld'
  BY DEF JoinIInv, JoinIsSound, JoinTypeOK, MutexIsHeld, HoldsMutex, Worker, JoinersJoinOthers, Joins
<1>5. StateTells' /\ JoinersJoinOthers'
  BY DEF JoinIInv, JoinIsSound, JoinTypeOK, StateTells, JoinersJoinOthers, Joins, Worker, MutexIsHeld, HoldsMutex
<1> QED BY <1>1, <1>2, <1>3, <1>4, <1>5 DEF JoinIInv, JoinIsSound

(* The joiner announces itself and becomes freezable. *)
LEMMA JoinWaitKeeps ==
    ASSUME JoinIInv, IInv', NEW t \in Thread, JoinWait(t)
    PROVE  JoinIInv'
<1> USE DEF exitVars, joinVars, objVars, JoinWait, JoinTo
<1>1. JoinTypeOK' /\ (referred \cap finalized = {})'
  BY DEF JoinIInv, IInv, JoinIsSound, JoinTypeOK, Worker, StateTells, JoinersJoinOthers, Joins
<1>2. FinalizedIsUnused'
  BY DEF JoinIInv, JoinIsSound, JoinTypeOK, FinalizedIsUnused, Joins, Worker, MutexIsHeld, HoldsMutex, JoinersJoinOthers
<1>3. EndIsAlone'
  BY DEF JoinIInv, JoinIsSound, JoinTypeOK, EndIsAlone, Worker
<1>4. MutexIsHeld'
  BY DEF JoinIInv, JoinIsSound, JoinTypeOK, MutexIsHeld, HoldsMutex, Worker, JoinersJoinOthers, Joins
<1>5. StateTells' /\ JoinersJoinOthers'
  BY DEF JoinIInv, JoinIsSound, JoinTypeOK, StateTells, JoinersJoinOthers, Joins, Worker, MutexIsHeld, HoldsMutex
<1> QED BY <1>1, <1>2, <1>3, <1>4, <1>5 DEF JoinIInv, JoinIsSound

(* The joiner releases the mutex and sleeps. *)
LEMMA JoinSleepKeeps ==
    ASSUME JoinIInv, IInv', NEW t \in Thread, JoinSleep(t)
    PROVE  JoinIInv'
<1> USE DEF exitVars, joinVars, objVars, JoinSleep, JoinTo, vars
<1>1. JoinTypeOK' /\ (referred \cap finalized = {})'
  BY DEF JoinIInv, IInv, JoinIsSound, JoinTypeOK, Worker, StateTells, JoinersJoinOthers, Joins
<1>2. FinalizedIsUnused'
  BY DEF JoinIInv, JoinIsSound, JoinTypeOK, FinalizedIsUnused, Joins, Worker, MutexIsHeld, HoldsMutex, JoinersJoinOthers
<1>3. EndIsAlone'
  BY DEF JoinIInv, JoinIsSound, JoinTypeOK, EndIsAlone, Worker
<1>4. MutexIsHeld'
  BY DEF JoinIInv, JoinIsSound, JoinTypeOK, MutexIsHeld, HoldsMutex, Worker, JoinersJoinOthers, Joins
<1>5. StateTells' /\ JoinersJoinOthers'
  BY DEF JoinIInv, JoinIsSound, JoinTypeOK, StateTells, JoinersJoinOthers, Joins, Worker, MutexIsHeld, HoldsMutex
<1> QED BY <1>1, <1>2, <1>3, <1>4, <1>5 DEF JoinIInv, JoinIsSound

(* The joiner has been woken and has the mutex again. *)
LEMMA JoinRelockKeeps ==
    ASSUME JoinIInv, IInv', NEW t \in Thread, JoinRelock(t)
    PROVE  JoinIInv'
<1> USE DEF exitVars, joinVars, objVars, JoinRelock, JoinTo, vars
<1>1. JoinTypeOK' /\ (referred \cap finalized = {})'
  BY DEF JoinIInv, IInv, JoinIsSound, JoinTypeOK, Worker, StateTells, JoinersJoinOthers, Joins
<1>2. FinalizedIsUnused'
  BY DEF JoinIInv, JoinIsSound, JoinTypeOK, FinalizedIsUnused, Joins, Worker, MutexIsHeld, HoldsMutex, JoinersJoinOthers
<1>3. EndIsAlone'
  BY DEF JoinIInv, JoinIsSound, JoinTypeOK, EndIsAlone, Worker
<1>4. MutexIsHeld'
  BY DEF JoinIInv, JoinIsSound, JoinTypeOK, MutexIsHeld, HoldsMutex, Worker, JoinersJoinOthers, Joins
<1>5. StateTells' /\ JoinersJoinOthers'
  BY DEF JoinIInv, JoinIsSound, JoinTypeOK, StateTells, JoinersJoinOthers, Joins, Worker, MutexIsHeld, HoldsMutex
<1> QED BY <1>1, <1>2, <1>3, <1>4, <1>5 DEF JoinIInv, JoinIsSound

(* The joiner is no longer freezable. *)
LEMMA JoinResumeKeeps ==
    ASSUME JoinIInv, IInv', NEW t \in Thread, JoinResume(t)
    PROVE  JoinIInv'
<1> USE DEF exitVars, joinVars, objVars, JoinResume
<1>1. JoinTypeOK' /\ (referred \cap finalized = {})'
  BY DEF JoinIInv, IInv, JoinIsSound, JoinTypeOK, Worker, StateTells, JoinersJoinOthers, Joins
<1>2. FinalizedIsUnused'
  BY DEF JoinIInv, JoinIsSound, JoinTypeOK, FinalizedIsUnused, Joins, Worker, MutexIsHeld, HoldsMutex, JoinersJoinOthers
<1>3. EndIsAlone'
  BY DEF JoinIInv, JoinIsSound, JoinTypeOK, EndIsAlone, Worker
<1>4. MutexIsHeld'
  BY DEF JoinIInv, JoinIsSound, JoinTypeOK, MutexIsHeld, HoldsMutex, Worker, JoinersJoinOthers, Joins
<1>5. StateTells' /\ JoinersJoinOthers'
  BY DEF JoinIInv, JoinIsSound, JoinTypeOK, StateTells, JoinersJoinOthers, Joins, Worker, MutexIsHeld, HoldsMutex
<1> QED BY <1>1, <1>2, <1>3, <1>4, <1>5 DEF JoinIInv, JoinIsSound

(* The object is finalized during a freeze: the thread that executed it has
   made its broadcast, as it is not inside AThreadMutex. *)
LEMMA FinalizeKeeps ==
    ASSUME JoinIInv, IInv', NEW t \in Thread, NEW w \in Worker, AThreadFinalize(t, w)
    PROVE  JoinIInv'
<1> USE DEF exitVars, joinVars, objVars, AThreadFinalize, vars
<1>1. JoinTypeOK' /\ (referred \cap finalized = {})'
  <2>1. JoinTypeOK'
    BY DEF JoinIInv, IInv, JoinIsSound, JoinTypeOK
  <2>2. (referred \cap finalized = {})'
    BY DEF JoinIInv
  <2> QED BY <2>1, <2>2
<1>2. FinalizedIsUnused'
  <2>1. inside = NoThread /\ exit[w] = "gone"
    BY DEF JoinIInv, EndIsAlone, Worker
  <2>2. mutex[w] = NoThread
    BY <2>1 DEF JoinIInv, JoinIsSound, JoinTypeOK, MutexIsHeld, HoldsMutex, Joins
  <2> QED BY <2>1, <2>2 DEF JoinIInv, JoinIsSound, FinalizedIsUnused, Joins
<1>3. EndIsAlone'
  BY DEF JoinIInv, EndIsAlone
<1>4. MutexIsHeld'
  <2>1. MutexIsHeld /\ UNCHANGED <<mutex, exit, target, join>>
    BY DEF JoinIInv
  <2> QED BY ONLY <2>1 DEF MutexIsHeld, HoldsMutex
<1>5. StateTells' /\ JoinersJoinOthers'
  BY DEF JoinIInv, StateTells, JoinersJoinOthers, Joins
<1> QED BY <1>1, <1>2, <1>3, <1>4, <1>5 DEF JoinIInv, JoinIsSound

(* Every step keeps the inductive invariant. *)
LEMMA JoinNextInv == JoinIInv /\ [JoinNext]_allVars => JoinIInv'
<1> SUFFICES ASSUME JoinIInv, [JoinNext]_allVars PROVE JoinIInv'
  OBVIOUS
<1>a. IInv'
  BY JoinNextRefines, NextInv DEF JoinIInv, allVars
<1>1. ASSUME NEW w \in Worker,
             FunctionReturns(w) \/ ExitAllocate(w) \/ ExitStep(w)
      PROVE  JoinIInv'
  <2>1. CASE ExitAllocate(w)
    BY <1>a, <2>1, ProtocolKeeps DEF ExitAllocate
  <2> QED BY <1>a, <1>1, <2>1, ReturnsKeeps, ExitLockedKeeps, ExitStoreKeeps,
             ExitEndKeeps, BroadcastKeeps DEF ExitStep
<1>2. ASSUME NEW t \in Thread, NEW w \in Worker,
             AThreadJoin(t, w) \/ DropReference(t, w) \/ AThreadFinalize(t, w)
      PROVE  JoinIInv'
  <2>1. CASE DropReference(t, w)
    <3> USE <2>1 DEF DropReference, vars, exitVars, joinVars
    <3>1. JoinIsSound' /\ (referred \cap finalized = {})'
      BY <1>a DEF JoinIInv, IInv, JoinIsSound, JoinTypeOK, FinalizedIsUnused, Joins
    <3>2. EndIsAlone' /\ StateTells'
      BY DEF JoinIInv, EndIsAlone, StateTells
    <3>3. MutexIsHeld'
      BY DEF JoinIInv, MutexIsHeld, HoldsMutex
    <3>4. JoinersJoinOthers'
      BY DEF JoinIInv, JoinersJoinOthers, Joins
    <3> QED BY <1>a, <3>1, <3>2, <3>3, <3>4 DEF JoinIInv
  <2> QED BY <1>a, <1>2, <2>1, JoinKeeps, FinalizeKeeps
<1>3. ASSUME NEW t \in Thread, JoinStep(t) PROVE JoinIInv'
  BY <1>a, <1>3, JoinLockedKeeps, JoinReturnKeeps, JoinWaitKeeps, JoinSleepKeeps,
     JoinRelockKeeps, JoinResumeKeeps DEF JoinStep
<1>4. ASSUME NEW t \in Thread, Elsewhere(t) \/ FreezeSteps(t) PROVE JoinIInv'
  BY <1>a, <1>4, ProtocolKeeps DEF Elsewhere, FreezeSteps
<1>5. ASSUME NEW t \in Thread, WakeUpUnasked(t) PROVE JoinIInv'
  <2>1. CASE SpuriousWakeUp(t) /\ UNCHANGED <<inside, exitVars, joinVars, objVars>>
    BY <1>a, <2>1, ProtocolKeeps DEF SpuriousWakeUp
  <2>2. CASE /\ onCond' = onCond \ {t}
             /\ UNCHANGED <<vars, inside, exitVars, join, target, joined, objVars>>
    <3> USE <2>2 DEF vars, exitVars, objVars
    <3>1. JoinIsSound'
      BY <1>a DEF JoinIInv, IInv, JoinIsSound, JoinTypeOK, FinalizedIsUnused, Joins
    <3>2. EndIsAlone' /\ StateTells'
      BY DEF JoinIInv, EndIsAlone, StateTells
    <3>3. MutexIsHeld'
      BY DEF JoinIInv, MutexIsHeld, HoldsMutex
    <3>4. JoinersJoinOthers'
      BY DEF JoinIInv, JoinersJoinOthers, Joins
    <3> QED BY <1>a, <3>1, <3>2, <3>3, <3>4 DEF JoinIInv
  <2> QED BY <1>5, <2>1, <2>2 DEF WakeUpUnasked
<1>6. CASE UNCHANGED allVars
  BY <1>a, <1>6, ProtocolKeeps DEF allVars, vars
<1> QED BY <1>1, <1>2, <1>3, <1>4, <1>5, <1>6 DEF JoinNext

-----------------------------------------------------------------------------
(* Results. *)

(* AThreadFinalize never destroys a mutex or condition variable in use: not
   that of the ending thread, which BeginNewThread no longer counts when it
   broadcasts, nor that of a thread in AThreadJoin. *)
THEOREM JoinSound == JoinSpec => []JoinIsSound
<1>1. JoinIInv => JoinIsSound
  BY DEF JoinIInv
<1> QED BY <1>1, JoinInitInv, JoinNextInv, PTL DEF JoinSpec

LEMMA ReturnsStored ==
    ASSUME JoinIInv, [JoinNext]_allVars, NEW t \in Thread,
           join[t] = "test", join'[t] = "no"
    PROVE  target[t] \in stored
<1>a. join \in [Thread -> {"no", "lock", "test", "sleep", "woken", "resume"}]
  BY DEF JoinIInv, JoinIsSound, JoinTypeOK
<1>1. join' # join
  OBVIOUS
<1>2. ~ \E w \in Worker : FunctionReturns(w) \/ ExitAllocate(w) \/ ExitStep(w)
  BY <1>1 DEF FunctionReturns, ExitAllocate, ExitStep, ExitLocked, ExitStore,
              ExitEnd, ExitBroadcast, joinVars
<1>3. ASSUME NEW u \in Thread PROVE ~ (Elsewhere(u) \/ FreezeSteps(u) \/ WakeUpUnasked(u))
  BY <1>1 DEF Elsewhere, FreezeSteps, WakeUpUnasked, joinVars
<1>4. ASSUME NEW u \in Thread, NEW w \in Worker
      PROVE  ~ (AThreadJoin(u, w) \/ DropReference(u, w) \/ AThreadFinalize(u, w))
  BY <1>1, <1>a DEF AThreadJoin, DropReference, AThreadFinalize, AtWill, Joins,
                    JoinTo, joinVars
<1>5. PICK u \in Thread : JoinStep(u)
  BY <1>1, <1>2, <1>3, <1>4 DEF JoinNext, allVars, joinVars
<1>6. JoinReturn(t)
  BY <1>5, <1>a DEF JoinStep, JoinLocked, JoinReturn, JoinWait, JoinSleep,
                    JoinRelock, JoinResume, JoinTo
<1>7. target[t] \in Worker \ {t} /\ mutex[target[t]] = t
  <2>1. target[t] \in Worker \ {t}
    BY DEF JoinIInv, JoinersJoinOthers, Joins
  <2>2. HoldsMutex(t, target[t])
    BY DEF HoldsMutex
  <2> QED BY <2>1, <2>2 DEF JoinIInv, MutexIsHeld
<1>8. exit[target[t]] \notin {"function", "lock", "store"}
  <2>1. target[t] \in Thread /\ target[t] # t /\ mutex[target[t]] # target[t]
    BY <1>7 DEF Worker
  <2>2. exit[target[t]] # "store"
    BY <1>7, <2>1 DEF JoinIInv, MutexIsHeld, HoldsMutex
  <2>3. exit[target[t]] \notin {"function", "lock"}
    BY <1>6, <1>7 DEF JoinReturn, JoinIInv, StateTells
  <2> QED BY <2>2, <2>3
<1> QED BY <1>7, <1>8 DEF JoinIInv, StateTells, JoinIsSound, JoinTypeOK

(* AThreadJoin returns the value that the thread function returned: the state
   that BeginNewThread writes first is not seen without the result. *)
THEOREM JoinReturnsStored == JoinSpec => JoinReturnsResult
<1>1. JoinIInv /\ [JoinNext]_allVars =>
        [\A t \in Thread :
           join[t] = "test" /\ join'[t] = "no" => target[t] \in stored]_allVars
  BY ReturnsStored
<1> QED BY <1>1, JoinInitInv, JoinNextInv, PTL DEF JoinSpec, JoinReturnsResult

=============================================================================
