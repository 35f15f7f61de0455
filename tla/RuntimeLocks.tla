---------------------------- MODULE RuntimeLocks ----------------------------
(***************************************************************************)
(* The mutexes of the runtime composed with the freeze protocol.  The heap *)
(* mutex is the innermost one: its holder allocates, collects garbage (and *)
(* freezes the other threads for it) and releases.  The hash, stream and   *)
(* interpreter mutexes and the Mutex objects of Alore programs are taken   *)
(* outside the heap mutex.  All are taken in the same way: try; when busy, *)
(* allow freezing, wait for the mutex, disallow freezing.                  *)
(*                                                                         *)
(* loader::Load freezes the other threads without holding the heap mutex   *)
(* and allocates while they are frozen.                                    *)
(***************************************************************************)
EXTENDS Freeze

CONSTANTS
    Heap,      \* AHeapMutex
    Outer,     \* the other mutexes
    NoLock,
    Loaders    \* threads that call loader::Load

Lock == Outer \cup {Heap}

ASSUME LockAssumption == /\ Heap \notin Outer
                         /\ NoLock \notin Lock
                         /\ Loaders \subseteq Thread

VARIABLES
    owner,     \* the holder of each mutex, or NoThread
    want,      \* the mutex a thread is about to wait for or waits for
    cond,      \* is a thread about to sleep or asleep on a Condition object?
    loading    \* threads between the freeze and the wake-up of loader::Load

lockVars == <<owner, want, cond, loading>>
allVars  == <<vars, lockVars>>

Holds(t, l) == owner[l] = t
HoldsNone(t) == \A l \in Lock : ~Holds(t, l)
Waits(t) == want[t] # NoLock

(* The thread is in code of its own choice: neither waiting for a mutex nor
   inside the allocator. *)
AtWill(t) == ~Waits(t) /\ ~Holds(t, Heap)

LocksInit ==
    /\ Init
    /\ owner = [l \in Lock |-> NoThread]
    /\ want = [t \in Thread |-> NoLock]
    /\ cond = [t \in Thread |-> "no"]
    /\ loading = {}

-----------------------------------------------------------------------------
(* Taking and releasing a mutex. *)

(* The heap mutex is taken by any thread that allocates; the loader allocates
   in the frozen world.  Nobody takes an outer mutex inside the heap mutex. *)
MayLock(t, l) ==
    /\ ~Waits(t) /\ ~Holds(t, Heap) /\ ~Holds(t, l)
    /\ \/ pc[t] = "running"
       \/ pc[t] = "frozen" /\ t \in loading /\ l = Heap

TryLock(t, l) ==
    /\ MayLock(t, l)
    /\ IF owner[l] = NoThread
         THEN owner' = [owner EXCEPT ![l] = t] /\ UNCHANGED want
         ELSE want' = [want EXCEPT ![t] = l] /\ UNCHANGED owner
    /\ UNCHANGED <<vars, cond, loading>>

(* ACollectAllGarbage waits for the heap mutex without trying first. *)
CollectAllGarbage(t) ==
    /\ pc[t] = "running"
    /\ MayLock(t, Heap)
    /\ want' = [want EXCEPT ![t] = Heap]
    /\ UNCHANGED <<vars, owner, cond, loading>>

(* Faulty variant: the thread waits for the mutex without allowing others to
   freeze it. *)
WaitUnfreezable(t) ==
    /\ Waits(t)
    /\ pc[t] = "running"
    /\ owner[want[t]] = NoThread
    /\ owner' = [owner EXCEPT ![want[t]] = t]
    /\ want' = [want EXCEPT ![t] = NoLock]
    /\ UNCHANGED <<vars, cond, loading>>

(* AWaitForHeap and its like first declare the thread freezable ... *)
WaitForLock(t) ==
    /\ Waits(t)
    /\ \/ AllowFreezeNoLock(t, "running", "blocking")
       \/ AllowFreezeNoLock(t, "frozen", "blocking")
    /\ UNCHANGED lockVars

(* ... then block in athread_mutex_lock ... *)
MutexLock(t) ==
    /\ pc[t] = "blocking"
    /\ Waits(t)
    /\ cond[t] = "no"
    /\ owner[want[t]] = NoThread
    /\ owner' = [owner EXCEPT ![want[t]] = t]
    /\ UNCHANGED <<vars, want, cond, loading>>

(* Faulty variant: the thread that gets the mutex runs on, freeze or not. *)
LockedAtOnce(t) ==
    /\ Waits(t)
    /\ Holds(t, want[t])
    /\ pc[t] = "blocking"
    /\ Go(t, "running")
    /\ NumFreezableThreads' = NumFreezableThreads - 1
    /\ want' = [want EXCEPT ![t] = NoLock]
    /\ UNCHANGED <<asleep, ANumThreads, AIsFreeze, FreezeDepth, AIsInterrupt,
                   keyVars, owner, cond, loading>>

(* ... and, holding the mutex, wait until no freeze is on. *)
Locked(t) ==
    /\ Waits(t)
    /\ Holds(t, want[t])
    /\ cond[t] = "no"
    /\ AEndBlocking(t)
    /\ want' = [want EXCEPT ![t] = IF pc'[t] = "running" THEN NoLock ELSE @]
    /\ UNCHANGED <<owner, cond, loading>>

Unlock(t, l) ==
    /\ Holds(t, l)
    /\ ~Waits(t)
    /\ l # Heap => ~Holds(t, Heap)
    /\ \/ pc[t] = "running"
       \/ pc[t] = "frozen" /\ t \in loading /\ l = Heap /\ FreezeDepth = 1
    /\ owner' = [owner EXCEPT ![l] = NoThread]
    /\ UNCHANGED <<vars, want, cond, loading>>

-----------------------------------------------------------------------------
(* Condition objects. *)

(* wait() allows freezing while it still holds the mutex, ... *)
ConditionWait(t, l) ==
    /\ AtWill(t)
    /\ Holds(t, l)
    /\ AAllowBlocking(t)
    /\ want' = [want EXCEPT ![t] = l]
    /\ cond' = [cond EXCEPT ![t] = "entering"]
    /\ UNCHANGED <<owner, loading>>

(* ... gives it up and sleeps in one step, and locks it again when woken. *)
ConditionSleep(t) ==
    /\ cond[t] = "entering"
    /\ cond' = [cond EXCEPT ![t] = "asleep"]
    /\ owner' = [owner EXCEPT ![want[t]] = NoThread]
    /\ UNCHANGED <<vars, want, loading>>

(* signal() wakes one sleeper, broadcast() all of them. *)
ConditionSignal(t) ==
    LET Sleepers == {u \in Thread : cond[u] = "asleep"}
        Wake(S)  == cond' = [u \in Thread |-> IF u \in S THEN "no" ELSE cond[u]]
    IN  /\ pc[t] = "running"
        /\ AtWill(t)
        /\ Sleepers # {}
        /\ Wake(Sleepers) \/ \E u \in Sleepers : Wake({u})
        /\ UNCHANGED <<vars, owner, want, loading>>

-----------------------------------------------------------------------------
(* Freezing the world with and without the heap mutex. *)

(* Faulty variant: a collection that does not lock the heap. *)
CollectUnlocked(t) ==
    /\ ~Waits(t)
    /\ AFreezeOtherThreads(t)
    /\ UNCHANGED lockVars

(* Garbage collection: every freeze in gc.c, nested ones included, is made by
   the holder of the heap mutex. *)
CollectGarbage(t) ==
    /\ Holds(t, Heap)
    /\ ~Waits(t)
    /\ AFreezeOtherThreads(t)
    /\ UNCHANGED lockVars

(* ALoaderLoadInternal up to its AFreezeOtherThreads. *)
Load(t) ==
    /\ t \in Loaders
    /\ AtWill(t)
    /\ t \notin loading
    /\ pc[t] = "running"
    /\ AFreezeOtherThreads(t)
    /\ loading' = loading \cup {t}
    /\ UNCHANGED <<owner, want, cond>>

(* A collection, nested in the loader's freeze or not, or the loader ends; the
   loader ends its own freeze, the outermost one, outside the allocator. *)
WakeOthers(t) ==
    /\ ~Waits(t)
    /\ Holds(t, Heap) => (t \in loading => FreezeDepth > 1)
    /\ AWakeOtherThreads(t)
    /\ loading' = IF FreezeDepth' = 0 THEN loading \ {t} ELSE loading
    /\ UNCHANGED <<owner, want, cond>>

-----------------------------------------------------------------------------
(* What a thread does outside the allocator. *)

AllowBlocking(t) == AtWill(t) /\ AAllowBlocking(t) /\ UNCHANGED lockVars
EndBlocking(t)   == ~Waits(t) /\ AEndBlocking(t) /\ UNCHANGED lockVars

Poll(t) ==
    /\ AtWill(t)
    /\ AHandleInterrupt(t) \/ AHandleInterruptEnd(t) \/ CheckKey(t)
    /\ UNCHANGED lockVars

StartOrEnd(t) ==
    /\ \/ ThreadStart(t)
       \/ AtWill(t) /\ HoldsNone(t) /\ ThreadEnd(t)
    /\ UNCHANGED lockVars

FreezeSteps(t) ==
    /\ \/ ThreadStarted(t) \/ FreezeBusy(t) \/ FreezeRelock(t)
       \/ AllFrozen(t) \/ WakeUpBroadcast(t)
    /\ UNCHANGED lockVars

(* Any wait on a condition variable may end although nobody signalled. *)
WakeUpUnasked(t) ==
    \/ SpuriousWakeUp(t) /\ UNCHANGED lockVars
    \/ /\ cond[t] = "asleep"
       /\ cond' = [cond EXCEPT ![t] = "no"]
       /\ UNCHANGED <<vars, owner, want, loading>>

LocksNext ==
    \E t \in Thread :
       \/ \E l \in Lock : TryLock(t, l) \/ Unlock(t, l)
       \/ WaitForLock(t) \/ MutexLock(t) \/ Locked(t)
       \/ \E l \in Outer : ConditionWait(t, l)
       \/ ConditionSleep(t) \/ ConditionSignal(t)
       \/ CollectAllGarbage(t) \/ CollectGarbage(t) \/ Load(t) \/ WakeOthers(t)
       \/ AllowBlocking(t) \/ EndBlocking(t)
       \/ Poll(t) \/ StartOrEnd(t) \/ FreezeSteps(t) \/ WakeUpUnasked(t)

LocksSpec == LocksInit /\ [][LocksNext]_allVars

(* A thread that comes back to its own code again and again polls. *)
PollsAtWill(t) ==
    <>[]AIsInterrupt /\ []<>(pc[t] = "running" /\ AtWill(t))
        => []<><<Poll(t)>>_allVars

(* Threads go on where they do not wait, and an allocation, a collection and a
   load consist of finitely many steps: who may end one again and again does
   end it.  Mutexes need not be fair: a waiting thread may starve. *)
LocksFairSpec ==
    /\ LocksSpec
    /\ \A t \in Thread :
          /\ WF_allVars(WaitForLock(t) \/ MutexLock(t) \/ Locked(t))
          /\ WF_allVars(EndBlocking(t) \/ FreezeSteps(t))
          /\ WF_allVars(Poll(t))
          /\ PollsAtWill(t)
    /\ SF_allVars(\E t \in Thread : Unlock(t, Heap))
    /\ SF_allVars(\E t \in Thread : WakeOthers(t))
    /\ SF_allVars(\E t \in Thread : WakeOthers(t) /\ FreezeDepth = 1)

-----------------------------------------------------------------------------
(* Properties. *)

LocksTypeOK ==
    /\ TypeOK
    /\ owner \in [Lock -> Thread \cup {NoThread}]
    /\ want \in [Thread -> Lock \cup {NoLock}]
    /\ cond \in [Thread -> {"no", "entering", "asleep"}]
    /\ loading \subseteq Loaders

(* A thread that stops for a freeze in the middle of ALockHeap, with AHeapMutex
   already locked, keeps the freezer from allocating.  It never happens in a
   garbage collection: the heap mutex is with the thread that freezes. *)
FreezerMayAllocate ==
    \A t \in Thread :
       AIsFreeze /\ loading = {} /\ Holds(t, Heap)
           => pc[t] \in {"allFrozen", "frozen"}

(* The steps that take and release mutexes respect the freeze protocol, as long
   as nobody loads a module. *)
ImplementsFreeze == Init /\ [][loading = {} => Next]_vars

(* Freezing and waiting for mutexes do not block each other in a circle: every
   thread that holds the heap mutex, in a collection or not, releases it once
   no more modules are loaded (a load may be stuck, and loads without end let a
   thread lose the race against every one of them). *)
HeapIsReleased ==
    <>[](loading = {}) =>
        \A t \in Thread : Holds(t, Heap) ~> ~Holds(t, Heap)

(* While a module is being loaded no other thread executes code that could see
   the half-built module. *)
LoadIsAlone ==
    \A t \in loading : pc[t] = "frozen" => ExecutingThreads = {t}

(* The state of the mutexes is sound: a mutex has one owner, the freezer may
   allocate during a garbage collection, and a loader is alone. *)
LocksAreSound == LocksTypeOK /\ FreezerMayAllocate /\ LoadIsAlone

(* The inductive invariant behind LocksAreSound.  A thread freezes others with
   the heap mutex in its hand or as a loader; a thread that waits for a mutex
   is in the middle of nothing else; and a loader that waits for the heap mutex
   in its own freeze has stopped the world for good (nobody executes any more,
   and the freeze is never ended). *)
Freezing == {"busy", "busyBlocking", "busyEnd", "relock", "allFrozen", "frozen"}

FreezersHoldHeap ==
    \A t \in Thread : pc[t] \in Freezing => t \in loading \/ Holds(t, Heap)

WaitersOnlyWait ==
    \A t \in Thread : Waits(t) =>
        \/ pc[t] \in {"running", "blocking", "endBlocking"}
        \/ pc[t] = "frozen" /\ t \in loading

ConditionsAreOuter == \A t \in Thread : cond[t] = "entering" => want[t] \in Outer

Stuck == AIsFreeze /\ FreezeDepth > 0 /\ loading # {} /\ ExecutingThreads = {}

LocksIInv ==
    /\ LocksTypeOK
    /\ ConditionsAreOuter
    /\ Stuck \/ (IInv /\ FreezersHoldHeap /\ WaitersOnlyWait)
=============================================================================
