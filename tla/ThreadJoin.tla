----------------------------- MODULE ThreadJoin -----------------------------
(***************************************************************************)
(* The end of an Alore thread (the tail of BeginNewThread), AThreadJoin    *)
(* and AThreadFinalize, composed with the freeze protocol.  Each Thread    *)
(* object has a mutex and a condition variable of its own.  The object     *)
(* that worker w executes is called w as well; w executes one object.      *)
(*                                                                         *)
(* The tail of BeginNewThread keeps AThreadMutex until the condition       *)
(* variable has been broadcast; inside is the thread that holds it across  *)
(* the steps of this module.                                               *)
(***************************************************************************)
EXTENDS Freeze

CONSTANTS
    ExitAllocates,  \* does storing the result ever allocate?
    SpuriousJoin,   \* does the wait of AThreadJoin ever end unasked?
    Freezers        \* threads that block in system calls and freeze the others

ASSUME JoinAssumption == /\ {ExitAllocates, SpuriousJoin} \subseteq BOOLEAN
                         /\ Freezers \subseteq Thread

Worker == Thread \ {MainThread}

VARIABLES
    inside,      \* the holder of AThreadMutex, or NoThread
    mutex,       \* the holder of each object's mutex, or NoThread
    state,       \* A_THREAD_STATE: "nil", "zero" (joined), "done"
    stored,      \* objects whose A_THREAD_RET_VAL has been stored
    exit,        \* how far a worker is with the end of its function
    broadcast,   \* the local variable broadcast of each worker
    join,        \* how far a thread is in AThreadJoin
    target,      \* the object that a thread joins
    onCond,      \* threads that sleep on the condition of their target
    joined,      \* objects that somebody joins or has joined
    referred,    \* objects that the program still refers to
    finalized    \* objects whose mutex and condition are destroyed

exitVars == <<stored, exit, broadcast>>
joinVars == <<join, target, onCond, joined>>
objVars  == <<mutex, state, referred, finalized>>
allVars  == <<vars, inside, exitVars, joinVars, objVars>>

JoinInit ==
    /\ Init
    /\ inside = NoThread
    /\ mutex = [w \in Worker |-> NoThread]
    /\ state = [w \in Worker |-> "nil"]
    /\ stored = {}
    /\ exit = [w \in Worker |-> "function"]
    /\ broadcast = [w \in Worker |-> FALSE]
    /\ join = [t \in Thread |-> "no"]
    /\ target = [t \in Thread |-> NoThread]
    /\ onCond = {} /\ joined = {}
    /\ referred = Worker /\ finalized = {}

Joins(t)     == join[t] # "no"
ExitTo(w, e) == exit' = [exit EXCEPT ![w] = e]
JoinTo(t, j) == join' = [join EXCEPT ![t] = j]
AtWill(t)    == ~Joins(t) /\ (t \in Worker => exit[t] = "function")

-----------------------------------------------------------------------------
(* The end of BeginNewThread's loop. *)

(* The function has returned; the next call is athread_mutex_lock(mutex). *)
FunctionReturns(w) ==
    /\ pc[w] = "running"
    /\ AtWill(w)
    /\ ExitTo(w, "lock")
    /\ UNCHANGED <<vars, inside, stored, broadcast, joinVars, objVars>>

(* The state is written before the result, both under the object's mutex. *)
ExitLocked(w) ==
    /\ exit[w] = "lock"
    /\ mutex[w] = NoThread
    /\ mutex' = [mutex EXCEPT ![w] = w]
    /\ broadcast' = [broadcast EXCEPT ![w] = state[w] = "zero"]
    /\ state' = [state EXCEPT ![w] = "done"]
    /\ ExitTo(w, "store")
    /\ UNCHANGED <<vars, inside, stored, joinVars, referred, finalized>>

(* ACreateTracebackArray and the write barrier of ASetInstanceMember may wait
   for the heap mutex or start a garbage collection. *)
ExitAllocate(w) ==
    /\ ExitAllocates
    /\ inside = NoThread
    /\ exit[w] = "store"
    /\ AAllowBlocking(w) \/ AFreezeOtherThreads(w)
    /\ UNCHANGED <<inside, exitVars, joinVars, objVars>>

(* Faulty variant: the mutex is released before the result is stored. *)
ExitStoreUnlocked(w) ==
    /\ exit[w] = "store"
    /\ pc[w] = "running"
    /\ \/ /\ mutex[w] = w
          /\ mutex' = [mutex EXCEPT ![w] = NoThread]
          /\ UNCHANGED <<stored, exit>>
       \/ /\ mutex[w] # w
          /\ stored' = stored \cup {w}
          /\ ExitTo(w, "end")
          /\ UNCHANGED mutex
    /\ UNCHANGED <<vars, inside, broadcast, joinVars, state, referred, finalized>>

ExitStore(w) ==
    /\ exit[w] = "store"
    /\ pc[w] = "running"
    /\ stored' = stored \cup {w}
    /\ ExitTo(w, "end")
    /\ UNCHANGED <<vars, inside, broadcast, joinVars, objVars>>

(* Faulty variant: AThreadMutex is released before the broadcast. *)
ExitEndReleased(w) ==
    /\ exit[w] = "end"
    /\ inside = NoThread
    /\ ThreadEnd(w)
    /\ mutex' = [mutex EXCEPT ![w] = IF @ = w THEN NoThread ELSE @]
    /\ ExitTo(w, "broadcast")
    /\ UNCHANGED <<inside, stored, broadcast, joinVars, state, referred, finalized>>

(* Faulty variant: the thread stays counted. *)
ExitEndCounted(w) ==
    /\ exit[w] = "end"
    /\ inside = NoThread
    /\ pc[w] = "running"
    /\ Go(w, "idle")
    /\ inside' = w
    /\ mutex' = [mutex EXCEPT ![w] = IF @ = w THEN NoThread ELSE @]
    /\ ExitTo(w, "broadcast")
    /\ UNCHANGED <<asleep, freezeVars, AIsInterrupt, keyVars, stored, broadcast,
                   joinVars, state, referred, finalized>>

(* AThreadMutex is locked, the thread is no longer counted, and the object's
   mutex is released. *)
ExitEnd(w) ==
    /\ exit[w] = "end"
    /\ inside = NoThread
    /\ ThreadEnd(w)
    /\ inside' = w
    /\ mutex' = [mutex EXCEPT ![w] = IF @ = w THEN NoThread ELSE @]
    /\ ExitTo(w, "broadcast")
    /\ UNCHANGED <<stored, broadcast, joinVars, state, referred, finalized>>

(* Faulty variant: nobody is told. *)
ExitSilent(w) ==
    /\ exit[w] = "broadcast"
    /\ inside' = IF inside = w THEN NoThread ELSE inside
    /\ ExitTo(w, "gone")
    /\ UNCHANGED <<vars, stored, broadcast, joinVars, objVars>>

(* A joiner that has announced itself is woken; then the thread waits for new
   arguments, which releases AThreadMutex. *)
ExitBroadcast(w) ==
    /\ exit[w] = "broadcast"
    /\ onCond' = IF broadcast[w] THEN {t \in onCond : target[t] # w} ELSE onCond
    /\ inside' = IF inside = w THEN NoThread ELSE inside
    /\ ExitTo(w, "gone")
    /\ UNCHANGED <<vars, stored, broadcast, join, target, joined, objVars>>

-----------------------------------------------------------------------------
(* AThreadJoin.  "Join can be called only once for each thread object." *)

AThreadJoin(t, w) ==
    /\ pc[t] = "running"
    /\ AtWill(t)
    /\ t # w
    /\ w \in referred \ joined
    /\ joined' = joined \cup {w}
    /\ target' = [target EXCEPT ![t] = w]
    /\ JoinTo(t, "lock")
    /\ UNCHANGED <<vars, inside, exitVars, onCond, objVars>>

(* athread_mutex_lock: the thread does not allow freezing while it waits. *)
JoinLocked(t) ==
    /\ join[t] = "lock"
    /\ mutex[target[t]] = NoThread
    /\ mutex' = [mutex EXCEPT ![target[t]] = t]
    /\ JoinTo(t, "test")
    /\ UNCHANGED <<vars, inside, exitVars, target, onCond, joined, state,
                   referred, finalized>>

(* The thread has ended: return its result, the object may then be garbage. *)
JoinReturn(t) ==
    /\ join[t] = "test"
    /\ pc[t] = "running"
    /\ state[target[t]] = "done"
    /\ mutex' = [mutex EXCEPT ![target[t]] = NoThread]
    /\ JoinTo(t, "no")
    /\ UNCHANGED <<vars, inside, exitVars, target, onCond, joined, state,
                   referred, finalized>>

(* It has not: announce the joiner, then allow freezing ... *)
JoinWait(t) ==
    /\ join[t] = "test"
    /\ inside = NoThread
    /\ state[target[t]] # "done"
    /\ AAllowBlocking(t)
    /\ state' = [state EXCEPT ![target[t]] = "zero"]
    /\ JoinTo(t, "sleep")
    /\ UNCHANGED <<inside, exitVars, target, onCond, joined, mutex, referred,
                   finalized>>

(* ... and release the mutex and sleep in one step. *)
JoinSleep(t) ==
    /\ join[t] = "sleep"
    /\ mutex' = [mutex EXCEPT ![target[t]] = NoThread]
    /\ onCond' = onCond \cup {t}
    /\ JoinTo(t, "woken")
    /\ UNCHANGED <<vars, inside, exitVars, target, joined, state, referred,
                   finalized>>

(* athread_cond_wait locks the mutex again before it returns. *)
JoinRelock(t) ==
    /\ join[t] = "woken"
    /\ t \notin onCond
    /\ mutex[target[t]] = NoThread
    /\ mutex' = [mutex EXCEPT ![target[t]] = t]
    /\ JoinTo(t, "resume")
    /\ UNCHANGED <<vars, inside, exitVars, target, onCond, joined, state,
                   referred, finalized>>

(* AEndBlocking waits out a freeze while the mutex is held. *)
JoinResume(t) ==
    /\ join[t] = "resume"
    /\ inside = NoThread
    /\ AEndBlocking(t)
    /\ join' = [join EXCEPT ![t] = IF pc'[t] = "running" THEN "test" ELSE @]
    /\ UNCHANGED <<inside, exitVars, target, onCond, joined, objVars>>

-----------------------------------------------------------------------------
(* The program drops its last reference; a garbage collection finds the object
   unreachable and runs AThreadFinalize.  A worker's stack refers to its object
   until the thread ends, and so does the frame of AThreadJoin. *)
DropReference(t, w) ==
    /\ pc[t] = "running"
    /\ AtWill(t)
    /\ referred' = referred \ {w}
    /\ UNCHANGED <<vars, inside, exitVars, joinVars, mutex, state, finalized>>

AThreadFinalize(t, w) ==
    /\ pc[t] = "frozen"
    /\ w \notin referred \cup finalized
    /\ exit[w] \in {"broadcast", "gone"}
    /\ \A u \in Thread : Joins(u) => target[u] # w
    /\ finalized' = finalized \cup {w}
    /\ UNCHANGED <<vars, inside, exitVars, joinVars, mutex, state, referred>>

-----------------------------------------------------------------------------
(* What else happens. *)

Elsewhere(t) ==
    /\ AtWill(t)
    /\ inside = NoThread
    /\ \/ t \in Freezers /\ (AAllowBlocking(t) \/ AFreezeOtherThreads(t))
       \/ AHandleInterrupt(t)
       \/ t \in Worker /\ ThreadStart(t)
    /\ UNCHANGED <<inside, exitVars, joinVars, objVars>>

FreezeSteps(t) ==
    /\ inside = NoThread
    /\ \/ ~Joins(t) /\ AEndBlocking(t)
       \/ ThreadStarted(t)
       \/ FreezeBusy(t) \/ FreezeRelock(t) \/ AllFrozen(t)
       \/ AWakeOtherThreads(t) \/ WakeUpBroadcast(t)
       \/ AHandleInterruptEnd(t) \/ CheckKey(t)
    /\ UNCHANGED <<inside, exitVars, joinVars, objVars>>

WakeUpUnasked(t) ==
    \/ SpuriousWakeUp(t) /\ UNCHANGED <<inside, exitVars, joinVars, objVars>>
    \/ /\ SpuriousJoin
       /\ t \in onCond
       /\ onCond' = onCond \ {t}
       /\ UNCHANGED <<vars, inside, exitVars, join, target, joined, objVars>>

ExitStep(w) ==
    \/ ExitLocked(w) \/ ExitStore(w) \/ ExitEnd(w) \/ ExitBroadcast(w)

JoinStep(t) ==
    \/ JoinLocked(t) \/ JoinReturn(t) \/ JoinWait(t) \/ JoinSleep(t)
    \/ JoinRelock(t) \/ JoinResume(t)

JoinNext ==
    \/ \E w \in Worker : FunctionReturns(w) \/ ExitAllocate(w) \/ ExitStep(w)
    \/ \E t \in Thread :
          \/ \E w \in Worker :
                AThreadJoin(t, w) \/ DropReference(t, w) \/ AThreadFinalize(t, w)
          \/ JoinStep(t)
          \/ Elsewhere(t) \/ FreezeSteps(t) \/ WakeUpUnasked(t)

JoinSpec == JoinInit /\ [][JoinNext]_allVars

(* Threads go on inside these functions and in the freeze protocol, and poll;
   a mutex that is free again and again is granted in the end, and storing a
   result needs finitely many allocations. *)
JoinFairSpec ==
    /\ JoinSpec
    /\ \A w \in Worker :
          /\ WF_allVars(ExitStep(w))
          /\ SF_allVars(ExitLocked(w))
          /\ SF_allVars(ExitStore(w))
    /\ \A t \in Thread :
          /\ WF_allVars(JoinStep(t))
          /\ WF_allVars(FreezeSteps(t))
          /\ SF_allVars(Elsewhere(t) /\ AHandleInterrupt(t))

-----------------------------------------------------------------------------
(* Properties. *)

JoinTypeOK ==
    /\ TypeOK
    /\ inside \in Thread \cup {NoThread}
    /\ mutex \in [Worker -> Thread \cup {NoThread}]
    /\ state \in [Worker -> {"nil", "zero", "done"}]
    /\ stored \subseteq Worker
    /\ exit \in [Worker -> {"function", "lock", "store", "end", "broadcast",
                            "gone"}]
    /\ broadcast \in [Worker -> BOOLEAN]
    /\ join \in [Thread -> {"no", "lock", "test", "sleep", "woken", "resume"}]
    /\ target \in [Thread -> Worker \cup {NoThread}]
    /\ onCond \subseteq Thread
    /\ joined \subseteq Worker /\ referred \subseteq Worker
    /\ finalized \subseteq Worker

(* "This code is fragile!  ...  trivial changes in ordering of statements may
   cause rare synchronization problems, especially with garbage collection":
   AThreadFinalize never destroys a mutex or a condition variable that the
   ending thread or a joiner still uses, although the ending thread has dropped
   its reference and is no longer counted when it broadcasts. *)
FinalizedIsUnused ==
    \A w \in finalized :
       /\ mutex[w] = NoThread
       /\ exit[w] = "gone"
       /\ \A t \in Thread : Joins(t) => target[t] # w

(* A thread object is sound: its state is one that AThreadJoin knows, and what
   has been finalized is not in use. *)
JoinIsSound == JoinTypeOK /\ FinalizedIsUnused

(* AThreadJoin returns the value that the thread function returned: it never
   sees the state without the result, although the state is written first. *)
JoinReturnsResult ==
    [][\A t \in Thread :
         join[t] = "test" /\ join'[t] = "no" => target[t] \in stored]_allVars

(* Joining and ending threads respects the freeze protocol. *)
ImplementsFreeze == Spec

(* The inductive invariant behind JoinIsSound and JoinReturnsResult.  The ending
   thread keeps AThreadMutex until it has broadcast, and nobody has the others
   frozen meanwhile; an object's mutex is with the thread that is between its
   lock and its unlock; the state tells how far the ending thread is; a joiner
   joins another thread and is not ending itself. *)
EndIsAlone ==
    /\ \A w \in Worker : exit[w] = "broadcast" <=> inside = w
    /\ inside # NoThread => \A t \in Thread : pc[t] # "frozen"

HoldsMutex(t, w) ==
    \/ t = w /\ exit[w] \in {"store", "end"}
    \/ target[t] = w /\ join[t] \in {"test", "sleep", "resume"}

MutexIsHeld ==
    \A w \in Worker, t \in Thread : mutex[w] = t <=> HoldsMutex(t, w)

StateTells ==
    \A w \in Worker :
       /\ state[w] = "done" <=> exit[w] \notin {"function", "lock"}
       /\ exit[w] \in {"end", "broadcast", "gone"} => w \in stored

JoinersJoinOthers ==
    \A t \in Thread :
       Joins(t) => /\ target[t] \in Worker \ {t}
                   /\ t \in Worker => exit[t] = "function"

JoinIInv ==
    /\ IInv
    /\ JoinIsSound
    /\ EndIsAlone
    /\ MutexIsHeld
    /\ StateTells
    /\ JoinersJoinOthers
    /\ referred \cap finalized = {}

(* A thread that is not freezable waits for an object's mutex during a freeze. *)
HoldsUpFreeze ==
    /\ AIsFreeze
    /\ \E w \in Worker :
          /\ mutex[w] # NoThread
          /\ exit[w] = "lock" \/ \E t \in Thread : join[t] = "lock" /\ target[t] = w

(* join() waits "until the execution of the thread stops" (doc/thread.html) and
   no longer: it returns once the function has returned. *)
JoinReturns ==
    \A t \in Thread : Joins(t) /\ exit[target[t]] # "function" ~> ~Joins(t)

(* The same, unless freezes come and go for ever, or a freeze waits for a thread
   that waits for an object's mutex. *)
JoinReturnsUnlessHeldUp ==
    (<>[]AIsFreeze \/ <>[]~AIsFreeze) /\ <>[]~HoldsUpFreeze => JoinReturns
=============================================================================
