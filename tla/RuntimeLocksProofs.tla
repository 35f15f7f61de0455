------------------------- MODULE RuntimeLocksProofs -------------------------
(***************************************************************************)
(* Proofs about RuntimeLocks, for any finite number of threads and any set *)
(* of mutexes: taking and releasing mutexes respects the freeze protocol   *)
(* as long as no module is loaded, the holder of the heap mutex is never   *)
(* stopped by a garbage collection, and a loader is alone.                 *)
(***************************************************************************)
EXTENDS RuntimeLocks, FreezeProofs

USE ThreadAssumption, LockAssumption

-----------------------------------------------------------------------------
(* The freeze protocol. *)

(* A loader lets others freeze it in its own freeze. *)
LoaderStops(t) == Waits(t) /\ AllowFreezeNoLock(t, "frozen", "blocking") /\ UNCHANGED lockVars

(* Every other step is one of the protocol, or leaves its state alone. *)
LEMMA LocksNextRefines ==
    LocksNext => [Next]_vars \/ \E t \in Thread : LoaderStops(t)
<1>1. ASSUME NEW t \in Thread, NEW l \in Lock, TryLock(t, l) \/ Unlock(t, l)
      PROVE  [Next]_vars
  BY <1>1 DEF TryLock, Unlock
<1>2. ASSUME NEW t \in Thread,
             \/ MutexLock(t) \/ ConditionSleep(t) \/ ConditionSignal(t)
             \/ CollectAllGarbage(t)
      PROVE  [Next]_vars
  BY <1>2 DEF MutexLock, ConditionSleep, ConditionSignal, CollectAllGarbage
<1>3. ASSUME NEW t \in Thread, WaitForLock(t)
      PROVE  [Next]_vars \/ LoaderStops(t)
  BY <1>3 DEF WaitForLock, LoaderStops, Next, AAllowBlocking
<1>4. ASSUME NEW t \in Thread, NEW l \in Outer, ConditionWait(t, l)
      PROVE  [Next]_vars
  BY <1>4 DEF ConditionWait, Next
<1>5. ASSUME NEW t \in Thread, CollectGarbage(t) \/ Load(t) \/ AllowBlocking(t)
      PROVE  [Next]_vars
  BY <1>5 DEF CollectGarbage, Load, AllowBlocking, Next
<1>6. ASSUME NEW t \in Thread, Locked(t) \/ WakeOthers(t) \/ EndBlocking(t)
      PROVE  [Next]_vars
  BY <1>6 DEF Locked, WakeOthers, EndBlocking, Next, Continue
<1>7. ASSUME NEW t \in Thread, Poll(t) PROVE [Next]_vars
  BY <1>7 DEF Poll, Next, Continue
<1>8. ASSUME NEW t \in Thread, StartOrEnd(t) PROVE [Next]_vars
  BY <1>8 DEF StartOrEnd, Next
<1>9. ASSUME NEW t \in Thread, FreezeSteps(t) PROVE [Next]_vars
  BY <1>9 DEF FreezeSteps, Next, Continue
<1>10. ASSUME NEW t \in Thread, WakeUpUnasked(t) PROVE [Next]_vars
  BY <1>10 DEF WakeUpUnasked, Next
<1> QED BY <1>1, <1>2, <1>3, <1>4, <1>5, <1>6, <1>7, <1>8, <1>9, <1>10 DEF LocksNext

-----------------------------------------------------------------------------
(* The mutexes. *)

(* The types of the mutexes' state, and that a condition is waited for with a
   mutex other than that of the heap. *)
LocksTyped ==
    /\ owner \in [Lock -> Thread \cup {NoThread}]
    /\ want \in [Thread -> Lock \cup {NoLock}]
    /\ cond \in [Thread -> {"no", "entering", "asleep"}]
    /\ loading \subseteq Loaders
    /\ ConditionsAreOuter

LEMMA LocksTypes == LocksTyped /\ LocksNext => LocksTyped'
<1> SUFFICES ASSUME LocksTyped, LocksNext PROVE LocksTyped'
  OBVIOUS
<1> USE DEF LocksTyped, ConditionsAreOuter
<1>a. Heap \in Lock /\ \A l \in Outer : l \in Lock /\ l # NoLock
  BY DEF Lock
<1>1. ASSUME NEW t \in Thread, NEW l \in Lock, TryLock(t, l) PROVE LocksTyped'
  BY <1>a, <1>1 DEF TryLock, MayLock, Waits
<1>2. ASSUME NEW t \in Thread, NEW l \in Lock, Unlock(t, l) PROVE LocksTyped'
  BY <1>2 DEF Unlock
<1>3. ASSUME NEW t \in Thread, CollectAllGarbage(t) PROVE LocksTyped'
  BY <1>a, <1>3 DEF CollectAllGarbage, MayLock, Waits
<1>4. ASSUME NEW t \in Thread, MutexLock(t) PROVE LocksTyped'
  BY <1>4 DEF MutexLock
<1>5. ASSUME NEW t \in Thread, Locked(t) PROVE LocksTyped'
  BY <1>5 DEF Locked
<1>6. ASSUME NEW t \in Thread, NEW l \in Outer, ConditionWait(t, l) PROVE LocksTyped'
  BY <1>a, <1>6 DEF ConditionWait
<1>7. ASSUME NEW t \in Thread, ConditionSleep(t) PROVE LocksTyped'
  BY <1>7 DEF ConditionSleep
<1>8. ASSUME NEW t \in Thread, ConditionSignal(t) PROVE LocksTyped'
  BY <1>8 DEF ConditionSignal
<1>9. ASSUME NEW t \in Thread, Load(t) \/ WakeOthers(t) PROVE LocksTyped'
  BY <1>9 DEF Load, WakeOthers
<1>10. ASSUME NEW t \in Thread, WakeUpUnasked(t) PROVE LocksTyped'
  BY <1>10 DEF WakeUpUnasked, lockVars
<1>11. ASSUME NEW t \in Thread,
              \/ WaitForLock(t) \/ CollectGarbage(t) \/ AllowBlocking(t)
              \/ EndBlocking(t) \/ Poll(t) \/ StartOrEnd(t) \/ FreezeSteps(t)
       PROVE  LocksTyped'
  BY <1>11 DEF WaitForLock, CollectGarbage, AllowBlocking, EndBlocking, Poll,
     StartOrEnd, FreezeSteps, lockVars
<1> QED BY <1>1, <1>2, <1>3, <1>4, <1>5, <1>6, <1>7, <1>8, <1>9, <1>10, <1>11 DEF LocksNext

(* A step that moves no thread in the freeze protocol: no thread loses the heap
   mutex in the middle of a freeze. *)
LEMMA QuietKeeps ==
    ASSUME LocksTyped, FreezersHoldHeap, WaitersOnlyWait, UNCHANGED vars,
           NEW t \in Thread,
           \/ \E l \in Lock : TryLock(t, l) \/ Unlock(t, l)
           \/ MutexLock(t) \/ CollectAllGarbage(t)
           \/ ConditionSleep(t) \/ ConditionSignal(t) \/ WakeUpUnasked(t)
    PROVE  FreezersHoldHeap' /\ WaitersOnlyWait'
<1>a. Heap \in Lock /\ Heap \notin Outer
  BY DEF Lock
<1>1. UNCHANGED <<pc, loading>>
  BY DEF vars, TryLock, Unlock, MutexLock, CollectAllGarbage, ConditionSleep,
     ConditionSignal, WakeUpUnasked, lockVars
<1>2. ASSUME NEW u \in Thread, Holds(u, Heap), pc[u] \in Freezing, u \notin loading
      PROVE  Holds(u, Heap)'
  <2>1. ASSUME NEW l \in Lock, TryLock(t, l) \/ Unlock(t, l) PROVE Holds(u, Heap)'
    BY <1>a, <1>2, <2>1 DEF TryLock, Unlock, Holds, LocksTyped, Freezing
  <2>2. CASE MutexLock(t)
    BY <1>a, <1>2, <2>2 DEF MutexLock, Holds, LocksTyped
  <2>3. CASE ConditionSleep(t)
    BY <1>a, <1>2, <2>3 DEF ConditionSleep, Holds, LocksTyped, ConditionsAreOuter
  <2>4. CASE CollectAllGarbage(t) \/ ConditionSignal(t) \/ WakeUpUnasked(t)
    BY <1>2, <2>4 DEF CollectAllGarbage, ConditionSignal, WakeUpUnasked, Holds, lockVars
  <2> QED BY <2>1, <2>2, <2>3, <2>4
<1>3. ASSUME NEW u \in Thread, Waits(u)', ~Waits(u)
      PROVE  pc[u] = "running" \/ (pc[u] = "frozen" /\ u \in loading)
  <2>1. want'[u] # want[u]
    BY <1>3 DEF Waits
  <2>2. u = t /\ \E l \in Lock : MayLock(u, l)
    BY <1>a, <2>1 DEF TryLock, Unlock, MutexLock, CollectAllGarbage, ConditionSleep,
       ConditionSignal, WakeUpUnasked, LocksTyped, lockVars
  <2> QED BY <2>2 DEF MayLock
<1>4. FreezersHoldHeap'
  BY <1>1, <1>2 DEF FreezersHoldHeap
<1>5. WaitersOnlyWait'
  BY <1>1, <1>3 DEF WaitersOnlyWait
<1> QED BY <1>4, <1>5

(* A step that moves one thread in the protocol. *)
LEMMA MoveKeeps ==
    ASSUME LocksTyped, FreezersHoldHeap, WaitersOnlyWait, pc \in [Thread -> PC],
           NEW t \in Thread, NEW p, Go(t, p), UNCHANGED owner,
           loading \ {t} \subseteq loading',
           p \in Freezing => t \in loading' \/ Holds(t, Heap),
           \A u \in Thread \ {t} : want'[u] = want[u],
           Waits(t)' => \/ p \in {"running", "blocking", "endBlocking"}
                        \/ p = "frozen" /\ t \in loading'
    PROVE  FreezersHoldHeap' /\ WaitersOnlyWait'
<1>1. pc'[t] = p /\ \A u \in Thread \ {t} : pc'[u] = pc[u]
  BY DEF Go
<1>2. FreezersHoldHeap'
  BY <1>1 DEF FreezersHoldHeap, Holds
<1>3. WaitersOnlyWait'
  BY <1>1 DEF WaitersOnlyWait, Waits
<1> QED BY <1>2, <1>3

(* The steps that move threads, one by one. *)
LEMMA MovesKeep ==
    ASSUME LocksTyped, FreezersHoldHeap, WaitersOnlyWait, IInv, NEW t \in Thread,
           \/ WaitForLock(t) /\ pc[t] = "running"
           \/ Locked(t) \/ \E l \in Outer : ConditionWait(t, l)
           \/ CollectGarbage(t) \/ Load(t) \/ WakeOthers(t)
           \/ AllowBlocking(t) \/ EndBlocking(t)
           \/ Poll(t) \/ StartOrEnd(t) \/ FreezeSteps(t)
    PROVE  FreezersHoldHeap' /\ WaitersOnlyWait'
<1>a. pc \in [Thread -> PC] /\ want \in [Thread -> Lock \cup {NoLock}]
  BY DEF IInv, TypeOK, LocksTyped
<1>b. ASSUME NEW p, Go(t, p), UNCHANGED <<owner, loading>>,
             \A u \in Thread \ {t} : want'[u] = want[u],
             p \in {"running", "blocking", "endBlocking"}
      PROVE  FreezersHoldHeap' /\ WaitersOnlyWait'
  BY <1>a, <1>b, MoveKeeps DEF Freezing
<1>c. ASSUME NEW p, Go(t, p), UNCHANGED <<owner, loading, want>>, ~Waits(t),
             p \in Freezing => pc[t] \in Freezing
      PROVE  FreezersHoldHeap' /\ WaitersOnlyWait'
  BY <1>a, <1>c, MoveKeeps DEF FreezersHoldHeap, Waits
<1>1. CASE WaitForLock(t) /\ pc[t] = "running"
  BY <1>1, <1>b DEF WaitForLock, AllowFreezeNoLock, lockVars
<1>2. CASE Locked(t)
  <2>1. PICK p \in {"running", "endBlocking"} : Go(t, p)
    BY <1>2 DEF Locked, AEndBlocking, DisallowFreezeNoLock
  <2> QED BY <1>a, <1>2, <1>b, <2>1 DEF Locked
<1>3. ASSUME NEW l \in Outer, ConditionWait(t, l)
      PROVE  FreezersHoldHeap' /\ WaitersOnlyWait'
  BY <1>a, <1>3, <1>b DEF ConditionWait, AAllowBlocking, AllowFreezeNoLock
<1>4. CASE CollectGarbage(t) \/ Load(t)
  <2>1. PICK p \in {"busy", "allFrozen", "frozen"} : Go(t, p)
    BY <1>4 DEF CollectGarbage, Load, AFreezeOtherThreads, PerformFreeze, WaitForOthers
  <2>2. /\ UNCHANGED <<owner, want>> /\ ~Waits(t) /\ loading \subseteq loading'
        /\ t \in loading' \/ Holds(t, Heap)
    BY <1>4 DEF CollectGarbage, Load, AtWill, lockVars
  <2> QED BY <1>a, <2>1, <2>2, MoveKeeps DEF Waits
<1>5. CASE WakeOthers(t)
  <2>1. CASE FreezeDepth' = 0
    BY <1>a, <1>5, <2>1, MoveKeeps DEF WakeOthers, AWakeOtherThreads, Freezing, Waits
  <2>2. CASE FreezeDepth' # 0
    BY <1>5, <2>2 DEF WakeOthers, AWakeOtherThreads, FreezersHoldHeap, WaitersOnlyWait,
       Holds, Waits
  <2> QED BY <2>1, <2>2
<1>6. CASE AllowBlocking(t) \/ EndBlocking(t)
  <2>1. PICK p \in {"running", "blocking", "endBlocking"} : Go(t, p)
    BY <1>6 DEF AllowBlocking, EndBlocking, AAllowBlocking, AEndBlocking,
       AllowFreezeNoLock, DisallowFreezeNoLock
  <2> QED BY <1>6, <1>b, <2>1 DEF AllowBlocking, EndBlocking, lockVars
<1>7. CASE Poll(t)
  <2>1. PICK p \in {"running", "yielding", "checkKey", "raising"} : Go(t, p)
    BY <1>7 DEF Poll, AHandleInterrupt, AHandleInterruptEnd, CheckKey, AfterYield,
       DisallowFreezeNoLock
  <2> QED BY <1>7, <1>c, <2>1 DEF Poll, AtWill, lockVars, Freezing
<1>8. CASE StartOrEnd(t)
  <2>1. PICK p \in {"idle", "running", "starting"} : Go(t, p)
    BY <1>8 DEF StartOrEnd, ThreadStart, ThreadEnd
  <2>2. ~Waits(t)
    BY <1>8 DEF StartOrEnd, ThreadStart, AtWill, WaitersOnlyWait
  <2> QED BY <1>8, <1>c, <2>1, <2>2 DEF StartOrEnd, lockVars, Freezing
<1>9. CASE FreezeSteps(t)
  <2>1. \E p : Go(t, p) /\ (p \in Freezing => pc[t] \in Freezing)
    <3>1. CASE ThreadStarted(t)
      BY <3>1 DEF ThreadStarted, DisallowFreezeNoLock, Freezing
    <3>2. CASE FreezeBusy(t)
      BY <3>2 DEF FreezeBusy, AllowFreezeNoLock, DisallowFreezeNoLock, Freezing
    <3>3. CASE FreezeRelock(t) \/ AllFrozen(t)
      BY <3>3 DEF FreezeRelock, AllFrozen, PerformFreeze, WaitForOthers, Freezing
    <3>4. CASE WakeUpBroadcast(t)
      BY <3>4 DEF WakeUpBroadcast, Freezing
    <3> QED BY <1>9, <3>1, <3>2, <3>3, <3>4 DEF FreezeSteps
  <2>2. ~Waits(t)
    BY <1>9 DEF FreezeSteps, ThreadStarted, FreezeBusy, FreezeRelock, AllFrozen,
       WakeUpBroadcast, AllowFreezeNoLock, DisallowFreezeNoLock, WaitersOnlyWait
  <2> QED BY <1>9, <1>c, <2>1, <2>2 DEF FreezeSteps, lockVars
<1> QED BY <1>1, <1>2, <1>3, <1>4, <1>5, <1>6, <1>7, <1>8, <1>9

-----------------------------------------------------------------------------
(* A loader that waits in its own freeze stops the world for good: the freeze
   stays on, and no thread executes again. *)
LEMMA StuckStays ==
    ASSUME TypeOK, Stuck, LocksNext
    PROVE  TypeOK' /\ Stuck'
<1> DEFINE Sleeps == \E t \in Thread, p \in Freezable :
                         /\ Go(t, p) /\ asleep' = asleep \cup {t}
                         /\ ANumThreads' \in Nat /\ NumFreezableThreads' \in Nat
                         /\ UNCHANGED <<AIsFreeze, FreezeDepth, AIsInterrupt, keyVars>>
           Wakes == asleep' \subseteq asleep /\ UNCHANGED <<pc, freezeVars, AIsInterrupt, keyVars>>
<1>a. /\ \A t \in Thread : pc[t] \notin Executing
      /\ ANumThreads \in Nat /\ NumFreezableThreads \in Nat /\ AIsFreeze
  BY DEF Stuck, ExecutingThreads, TypeOK
<1>b. CASE Wakes /\ UNCHANGED loading
  BY <1>b DEF freezeVars, keyVars, TypeOK, Stuck, ExecutingThreads
<1>c. CASE Sleeps /\ UNCHANGED loading
  <2>1. PICK t \in Thread, p \in Freezable :
               /\ Go(t, p) /\ asleep' = asleep \cup {t}
               /\ ANumThreads' \in Nat /\ NumFreezableThreads' \in Nat
               /\ UNCHANGED <<AIsFreeze, FreezeDepth, AIsInterrupt, keyVars>>
    BY <1>c
  <2>2. p \in PC /\ p \notin Executing
    BY DEF PC, Executing, Freezable
  <2>3. pc' \in [Thread -> PC] /\ \A u \in Thread : pc'[u] \notin Executing
    BY <1>a, <2>1, <2>2 DEF TypeOK, Go
  <2> QED BY <1>c, <2>1, <2>3 DEF TypeOK, Stuck, ExecutingThreads, keyVars
<1>d. ASSUME NEW t \in Thread, NEW from, NEW waiting \in Freezable, NEW to,
             DisallowFreezeNoLock(t, from, waiting, to)
      PROVE  Sleeps
  BY <1>a, <1>d DEF DisallowFreezeNoLock
<1> SUFFICES (Wakes \/ Sleeps) /\ UNCHANGED loading
  BY <1>b, <1>c
<1>1. ASSUME NEW t \in Thread,
             \/ \E l \in Lock : TryLock(t, l) \/ Unlock(t, l)
             \/ MutexLock(t) \/ ConditionSleep(t) \/ ConditionSignal(t)
             \/ CollectAllGarbage(t) \/ WakeUpUnasked(t)
      PROVE  Wakes /\ UNCHANGED loading
  BY <1>1 DEF TryLock, Unlock, MutexLock, ConditionSleep, ConditionSignal,
     CollectAllGarbage, WakeUpUnasked, SpuriousWakeUp, vars, lockVars
<1>2. ASSUME NEW t \in Thread,
             \/ WaitForLock(t) \/ \E l \in Outer : ConditionWait(t, l)
             \/ CollectGarbage(t) \/ Load(t) \/ WakeOthers(t) \/ AllowBlocking(t)
      PROVE  FALSE
  BY <1>a, <1>2 DEF WaitForLock, ConditionWait, CollectGarbage, Load, WakeOthers,
     AllowBlocking, AAllowBlocking, AllowFreezeNoLock, AFreezeOtherThreads,
     AWakeOtherThreads, Executing
<1>3. ASSUME NEW t \in Thread, Locked(t) \/ EndBlocking(t)
      PROVE  Sleeps /\ UNCHANGED loading
  <2>1. AEndBlocking(t) /\ UNCHANGED loading
    BY <1>3 DEF Locked, EndBlocking, lockVars
  <2>2. "endBlocking" \in Freezable
    BY DEF Freezable
  <2> QED BY <1>d, <2>1, <2>2 DEF AEndBlocking
<1>4. ASSUME NEW t \in Thread, Poll(t) PROVE Sleeps /\ UNCHANGED loading
  <2>1. AHandleInterruptEnd(t) /\ UNCHANGED loading
    BY <1>a, <1>4 DEF Poll, AHandleInterrupt, CheckKey, Executing, lockVars
  <2>2. "yielding" \in Freezable
    BY DEF Freezable
  <2> QED BY <1>d, <2>1, <2>2 DEF AHandleInterruptEnd
<1>5. ASSUME NEW t \in Thread, StartOrEnd(t) PROVE Sleeps /\ UNCHANGED loading
  <2>1. ThreadStart(t) /\ UNCHANGED loading
    BY <1>a, <1>5 DEF StartOrEnd, ThreadEnd, Executing, lockVars
  <2>2. "starting" \in Freezable
    BY DEF Freezable
  <2> QED BY <1>a, <2>1, <2>2 DEF ThreadStart
<1>6. ASSUME NEW t \in Thread, FreezeSteps(t) PROVE Sleeps /\ UNCHANGED loading
  <2>1. /\ ThreadStarted(t) \/ FreezeBusy(t)
        /\ pc[t] # "busy" /\ UNCHANGED loading
    BY <1>a, <1>6 DEF FreezeSteps, FreezeRelock, AllFrozen, WakeUpBroadcast, Executing, lockVars
  <2>2. "starting" \in Freezable /\ "busyEnd" \in Freezable
    BY DEF Freezable
  <2> QED BY <1>d, <2>1, <2>2 DEF ThreadStarted, FreezeBusy, AllowFreezeNoLock
<1> QED BY <1>1, <1>2, <1>3, <1>4, <1>5, <1>6 DEF LocksNext

(* The step that gets a loader stuck. *)
LEMMA LoaderGetsStuck ==
    ASSUME IInv, WaitersOnlyWait, NEW t \in Thread, LoaderStops(t)
    PROVE  TypeOK' /\ Stuck'
<1>1. /\ TypeOK /\ pc[t] = "frozen" /\ t \in loading /\ UNCHANGED loading
      /\ AIsFreeze /\ FreezeDepth > 0 /\ ExecutingThreads = {t}
  BY DEF LoaderStops, AllowFreezeNoLock, lockVars, WaitersOnlyWait, IInv, OneFreezer,
     OnlyExecuting
<1>2. "blocking" \in PC /\ "blocking" \notin Executing
  BY DEF PC, Executing, Freezable
<1>3. pc' \in [Thread -> PC] /\ \A u \in Thread : pc'[u] \notin Executing
  BY <1>1, <1>2 DEF LoaderStops, AllowFreezeNoLock, Go, TypeOK, ExecutingThreads
<1> QED BY <1>1, <1>3 DEF LoaderStops, AllowFreezeNoLock, SignalIfAllFrozen,
        TypeOK, Stuck, ExecutingThreads, keyVars

-----------------------------------------------------------------------------
(* The inductive invariant. *)

LEMMA LocksInitInv == LocksInit => LocksIInv
<1> SUFFICES ASSUME LocksInit PROVE LocksIInv
  OBVIOUS
<1>1. IInv /\ TypeOK
  BY InitInv DEF LocksInit, IInv
<1>2. \A t \in Thread : pc[t] \in {"running", "idle"}
  BY DEF LocksInit, Init
<1>3. FreezersHoldHeap /\ WaitersOnlyWait
  BY <1>2 DEF LocksInit, FreezersHoldHeap, WaitersOnlyWait, Freezing, Waits
<1>4. LocksTypeOK /\ ConditionsAreOuter
  BY <1>1 DEF LocksInit, LocksTypeOK, ConditionsAreOuter
<1> QED BY <1>1, <1>3, <1>4 DEF LocksIInv

LEMMA LocksNextInv == LocksIInv /\ [LocksNext]_allVars => LocksIInv'
<1> SUFFICES ASSUME LocksIInv, [LocksNext]_allVars PROVE LocksIInv'
  OBVIOUS
<1>a. LocksTyped /\ TypeOK
  BY DEF LocksIInv, LocksTypeOK, LocksTyped
<1>b. LocksTyped' /\ TypeOK' => (LocksTypeOK /\ ConditionsAreOuter)'
  BY DEF LocksTypeOK, LocksTyped
<1>1. CASE UNCHANGED allVars
  <2>1. UNCHANGED <<vars, owner, want, cond, loading>> /\ UNCHANGED <<pc, AIsFreeze, FreezeDepth>>
    BY <1>1 DEF allVars, lockVars, vars, freezeVars
  <2>2. TypeOK'
    BY <1>a, <2>1 DEF TypeOK, vars, freezeVars, keyVars
  <2>3. LocksTyped'
    BY <1>a, <2>1 DEF LocksTyped, ConditionsAreOuter
  <2>4. IInv => IInv'
    BY <2>1, NextInv
  <2>5. Stuck => Stuck'
    BY <2>1 DEF Stuck, ExecutingThreads
  <2>6. FreezersHoldHeap /\ WaitersOnlyWait => (FreezersHoldHeap /\ WaitersOnlyWait)'
    BY <2>1 DEF FreezersHoldHeap, WaitersOnlyWait, Holds, Waits
  <2> QED BY <1>b, <2>2, <2>3, <2>4, <2>5, <2>6 DEF LocksIInv
<1>2. CASE LocksNext /\ Stuck
  BY <1>a, <1>b, <1>2, StuckStays, LocksTypes DEF LocksIInv
<1>3. CASE LocksNext /\ ~Stuck
  <2>1. IInv /\ FreezersHoldHeap /\ WaitersOnlyWait
    BY <1>3 DEF LocksIInv
  <2>2. ASSUME NEW t \in Thread, LoaderStops(t) PROVE LocksIInv'
    BY <1>a, <1>b, <1>3, <2>1, <2>2, LoaderGetsStuck, LocksTypes DEF LocksIInv
  <2>3. CASE [Next]_vars /\ ~\E t \in Thread : LoaderStops(t)
    <3>1. IInv' /\ TypeOK'
      BY <2>1, <2>3, NextInv DEF IInv
    <3>2. FreezersHoldHeap' /\ WaitersOnlyWait'
      <4>1. PICK t \in Thread :
              \/ \E l \in Lock : TryLock(t, l) \/ Unlock(t, l)
              \/ WaitForLock(t) \/ MutexLock(t) \/ Locked(t)
              \/ \E l \in Outer : ConditionWait(t, l)
              \/ ConditionSleep(t) \/ ConditionSignal(t)
              \/ CollectAllGarbage(t) \/ CollectGarbage(t) \/ Load(t) \/ WakeOthers(t)
              \/ AllowBlocking(t) \/ EndBlocking(t)
              \/ Poll(t) \/ StartOrEnd(t) \/ FreezeSteps(t) \/ WakeUpUnasked(t)
        BY <1>3 DEF LocksNext
      <4>2. CASE SpuriousWakeUp(t) /\ UNCHANGED lockVars
        BY <2>1, <4>2 DEF SpuriousWakeUp, lockVars, FreezersHoldHeap, WaitersOnlyWait,
           Holds, Waits
      <4>3. CASE \/ \E l \in Lock : TryLock(t, l) \/ Unlock(t, l)
                 \/ MutexLock(t) \/ CollectAllGarbage(t) \/ ConditionSleep(t)
                 \/ ConditionSignal(t)
                 \/ WakeUpUnasked(t) /\ ~(SpuriousWakeUp(t) /\ UNCHANGED lockVars)
        <5>1. UNCHANGED vars
          BY <4>3 DEF TryLock, Unlock, MutexLock, CollectAllGarbage, ConditionSleep,
             ConditionSignal, WakeUpUnasked
        <5> QED BY <1>a, <2>1, <4>3, <5>1, QuietKeeps
      <4>4. WaitForLock(t) => pc[t] = "running"
        BY <2>3 DEF WaitForLock, LoaderStops, AllowFreezeNoLock
      <4> QED BY <1>a, <2>1, <4>1, <4>2, <4>3, <4>4, MovesKeep
    <3> QED BY <1>a, <1>b, <1>3, <2>1, <3>1, <3>2, LocksTypes DEF LocksIInv
  <2> QED BY <1>3, <2>2, <2>3, LocksNextRefines
<1> QED BY <1>1, <1>2, <1>3

(* In a garbage collection the heap mutex is with the thread that freezes the
   others, so that none of them is stopped holding it, and the loader of a
   module executes alone (ALockHeap, AFreezeOtherThreads, ALoaderLoadInternal),
   for any number of threads and mutexes. *)
THEOREM LocksSound == LocksSpec => []LocksAreSound
<1>1. LocksIInv => LocksAreSound
  <2> SUFFICES ASSUME LocksIInv PROVE LocksAreSound
    OBVIOUS
  <2>1. CASE Stuck
    <3>1. \A t \in Thread : pc[t] # "frozen"
      BY <2>1 DEF Stuck, ExecutingThreads, Executing
    <3> QED BY <2>1, <3>1 DEF LocksIInv, LocksTypeOK, LocksAreSound, FreezerMayAllocate, LoadIsAlone, Stuck
  <2>2. CASE IInv /\ FreezersHoldHeap
    <3>1. FreezerMayAllocate
      BY <2>2 DEF FreezerMayAllocate, FreezersHoldHeap, Freezing, Holds, IInv, OneFreezer
    <3>2. LoadIsAlone
      BY <2>2 DEF LoadIsAlone, IInv, OnlyExecuting, LocksIInv, LocksTypeOK
    <3> QED BY <3>1, <3>2 DEF LocksIInv, LocksAreSound
  <2> QED BY <2>1, <2>2 DEF LocksIInv
<1> QED BY <1>1, LocksInitInv, LocksNextInv, PTL DEF LocksSpec

(* Taking, waiting for and releasing mutexes and conditions respects the freeze
   protocol while no module is being loaded (AWaitForHeap and its like). *)
THEOREM LocksRefineFreeze == LocksSpec => ImplementsFreeze
<1>1. LocksInit => Init
  BY DEF LocksInit
<1>2. LocksIInv /\ [LocksNext]_allVars => [loading = {} => Next]_vars
  <2> SUFFICES ASSUME LocksIInv, [LocksNext]_allVars, loading = {}
               PROVE  [Next]_vars
    OBVIOUS
  <2>1. ASSUME NEW t \in Thread, LoaderStops(t) PROVE FALSE
    BY <2>1 DEF LoaderStops, AllowFreezeNoLock, LocksIInv, Stuck, WaitersOnlyWait
  <2> QED BY <2>1, LocksNextRefines DEF allVars
<1> QED BY <1>1, <1>2, LocksInitInv, LocksNextInv, PTL DEF LocksSpec, ImplementsFreeze
=============================================================================
