----------------------------- MODULE ThreadPool -----------------------------
(***************************************************************************)
(* Creation of Alore threads (AThreadCreate) and the operating system      *)
(* threads that execute them (BeginNewThread), composed with the freeze    *)
(* protocol.  A creator passes the Thread object through the circular      *)
(* buffer AThreadArgBuffer; an operating system thread takes it out, runs  *)
(* the thread function and comes back for more.  Operating system threads  *)
(* are never ended, they are reused.                                       *)
(***************************************************************************)
EXTENDS Freeze

CONSTANTS
    MaxJobs,      \* bound: how many Thread objects the program creates
    ArgBufSize,   \* A_THREAD_ARG_BUFFER_SIZE; the buffer holds one object less
    Freezers      \* threads that block in system calls and freeze the others

ASSUME PoolAssumption == /\ MaxJobs \in Nat
                         /\ ArgBufSize \in Nat \ {0, 1}
                         /\ Freezers \subseteq Thread

(* Thread objects, numbered as they are created; 0 is AZero. *)
Job == 1..MaxJobs
NoJob == 0

VARIABLES
    spawned,            \* operating system threads created so far
    NumWaitingThreads,
    AThreadArgBuffer, ArgBufFirst, ArgBufLast,
    onInsert, onRemove, \* sleepers on ArgBufInsertCond and ArgBufRemoveCond
    step,               \* how far a thread is in AThreadCreate
    creates,            \* the object that a thread creates
    runs,               \* the object whose function a thread executes
    created,            \* the number of objects passed to AThreadCreate
    returned,           \* objects whose AThreadCreate has succeeded
    started,            \* objects whose function has been called
    refused             \* how often the operating system refused a thread

bufVars   == <<AThreadArgBuffer, ArgBufFirst, ArgBufLast>>
createVars == <<step, creates, created, returned, refused>>
poolVars  == <<spawned, NumWaitingThreads, bufVars, onInsert, onRemove,
               createVars, runs, started>>
allVars   == <<vars, poolVars>>

PoolInit ==
    /\ Init
    /\ spawned = {MainThread}
    /\ NumWaitingThreads = 0
    /\ AThreadArgBuffer = [i \in 0..ArgBufSize - 1 |-> NoJob]
    /\ ArgBufFirst = 0 /\ ArgBufLast = 0
    /\ onInsert = {} /\ onRemove = {}
    /\ step = [t \in Thread |-> "no"]
    /\ creates = [t \in Thread |-> NoJob]
    /\ runs = [t \in Thread |-> NoJob]
    /\ created = 0 /\ returned = {} /\ started = {} /\ refused = 0

NextInd(ind) == (ind + 1) % ArgBufSize

ArgBufEmpty == ArgBufFirst = ArgBufLast
ArgBufFull  == ArgBufFirst = NextInd(ArgBufLast)

(* athread_cond_signal wakes one of the sleepers, if there is one. *)
Signalled(sleepers) ==
    IF sleepers = {} THEN {{}} ELSE {sleepers \ {t} : t \in sleepers}

-----------------------------------------------------------------------------
(* AThreadCreate. *)

Becomes(t, place) == step' = [step EXCEPT ![t] = place]

(* The buffer has a free slot: store the object, then call the system. *)
StoreArgs(t, j, isWaiting) ==
    /\ AThreadArgBuffer' = [AThreadArgBuffer EXCEPT ![ArgBufLast] = j]
    /\ ArgBufLast' = NextInd(ArgBufLast)
    /\ Becomes(t, IF isWaiting THEN "signal" ELSE "spawn")
    /\ UNCHANGED <<ArgBufFirst, onRemove>>

(* The buffer is full: wait, freezable, for a slot. *)
SleepOnRemove(t, isWaiting) ==
    /\ onRemove' = onRemove \cup {t}
    /\ Becomes(t, IF isWaiting THEN "fullReserved" ELSE "fullNew")
    /\ UNCHANGED bufVars

StoreOrWait(t, j, isWaiting) ==
    IF ArgBufFull
      THEN SleepOnRemove(t, isWaiting) /\ AAllowBlocking(t)
      ELSE StoreArgs(t, j, isWaiting) /\ UNCHANGED vars

(* A thread that waits in the pool is reserved; without one a new operating
   system thread is needed, and AThreadMutex is given up to prepare it. *)
AThreadCreate(t) ==
    /\ pc[t] = "running"
    /\ step[t] = "no"
    /\ created < MaxJobs
    /\ created' = created + 1
    /\ creates' = [creates EXCEPT ![t] = created']
    /\ IF NumWaitingThreads > 0
         THEN /\ NumWaitingThreads' = NumWaitingThreads - 1
              /\ StoreOrWait(t, created', TRUE)
         ELSE /\ Becomes(t, "prepare")
              /\ UNCHANGED <<vars, NumWaitingThreads, bufVars, onRemove>>
    /\ UNCHANGED <<spawned, onInsert, returned, refused, runs, started>>

(* ACreateThread has succeeded, or has run out of memory. *)
Prepared(t) ==
    /\ pc[t] = "running"
    /\ step[t] = "prepare"
    /\ \/ StoreOrWait(t, creates[t], FALSE)
       \/ Becomes(t, "no") /\ UNCHANGED <<vars, bufVars, onRemove>>
    /\ UNCHANGED <<spawned, NumWaitingThreads, onInsert, creates, created,
                   returned, refused, runs, started>>

(* Woken on ArgBufRemoveCond: wait out a freeze, look at the buffer again. *)
SlotFreed(t) ==
    LET isWaiting == step[t] = "fullReserved"
    IN  /\ step[t] \in {"fullReserved", "fullNew"}
        /\ t \notin onRemove
        /\ \/ /\ AIsFreeze
              /\ AEndBlocking(t)
              /\ UNCHANGED <<bufVars, onRemove, step>>
           \/ /\ ~AIsFreeze /\ t \notin asleep
              /\ ArgBufFull
              /\ SleepOnRemove(t, isWaiting)
              /\ UNCHANGED vars
           \/ /\ ~AIsFreeze
              /\ ~ArgBufFull
              /\ AEndBlocking(t)
              /\ StoreArgs(t, creates[t], isWaiting)
        /\ UNCHANGED <<spawned, NumWaitingThreads, onInsert, creates, created,
                       returned, refused, runs, started>>

Succeeds(t) == returned' = returned \cup {creates[t]}

(* The signal and athread_create come after AThreadMutex has been released. *)
SignalInsert(t) ==
    /\ step[t] = "signal"
    /\ Becomes(t, "no")
    /\ Succeeds(t)
    /\ onInsert' \in Signalled(onInsert)
    /\ UNCHANGED <<vars, spawned, NumWaitingThreads, bufVars, onRemove,
                   creates, created, refused, runs, started>>

(* Which thread is new does not matter, so any one is taken; MaxJobs must not
   exceed the number of threads other than the main thread.  A refused
   athread_create raises MemoryError and leaves the object in the buffer. *)
Spawn(t) ==
    /\ step[t] = "spawn"
    /\ Becomes(t, "no")
    /\ \/ /\ spawned # Thread
          /\ spawned' = spawned \cup {CHOOSE u \in Thread : u \notin spawned}
          /\ Succeeds(t)
          /\ UNCHANGED refused
       \/ /\ refused' = refused + 1
          /\ UNCHANGED <<spawned, returned>>
    /\ UNCHANGED <<vars, NumWaitingThreads, bufVars, onInsert, onRemove,
                   creates, created, runs, started>>

-----------------------------------------------------------------------------
(* BeginNewThread. *)

(* Faulty variant: the slot is freed before the buffer is found full. *)
TakeArgsThenSignal(u) ==
    /\ runs' = [runs EXCEPT ![u] = AThreadArgBuffer[ArgBufFirst]]
    /\ started' = started \cup {AThreadArgBuffer[ArgBufFirst]}
    /\ AThreadArgBuffer' = [AThreadArgBuffer EXCEPT ![ArgBufFirst] = NoJob]
    /\ ArgBufFirst' = NextInd(ArgBufFirst)
    /\ IF ArgBufFirst' = NextInd(ArgBufLast) THEN onRemove' \in Signalled(onRemove)
                                             ELSE UNCHANGED onRemove
    /\ UNCHANGED ArgBufLast

(* Take the object out of the buffer and call the thread function. *)
TakeArgs(u) ==
    /\ runs' = [runs EXCEPT ![u] = AThreadArgBuffer[ArgBufFirst]]
    /\ started' = started \cup {AThreadArgBuffer[ArgBufFirst]}
    /\ AThreadArgBuffer' = [AThreadArgBuffer EXCEPT ![ArgBufFirst] = NoJob]
    /\ IF ArgBufFull THEN onRemove' \in Signalled(onRemove)
                     ELSE UNCHANGED onRemove
    /\ ArgBufFirst' = NextInd(ArgBufFirst)
    /\ UNCHANGED ArgBufLast

TakeNothing == UNCHANGED <<runs, started, bufVars, onRemove>>

(* Faulty variant: a new thread does not look at AIsFreeze. *)
BeginUnfrozen(u) ==
    /\ u \in spawned
    /\ pc[u] = "idle"
    /\ u \notin onInsert
    /\ IF ArgBufEmpty
         THEN /\ onInsert' = onInsert \cup {u}
              /\ TakeNothing
              /\ UNCHANGED vars
         ELSE /\ ThreadStartUnchecked(u)
              /\ TakeArgs(u)
              /\ UNCHANGED onInsert
    /\ UNCHANGED <<spawned, NumWaitingThreads, createVars>>

(* The head of the loop: sleep, or become active and, if nobody freezes, read
   the arguments at once. *)
BeginNewThread(u) ==
    /\ u \in spawned
    /\ pc[u] = "idle"
    /\ u \notin onInsert
    /\ IF ArgBufEmpty
         THEN /\ onInsert' = onInsert \cup {u}
              /\ TakeNothing
              /\ UNCHANGED vars
         ELSE /\ ThreadStart(u)
              /\ IF AIsFreeze THEN TakeNothing ELSE TakeArgs(u)
              /\ UNCHANGED onInsert
    /\ UNCHANGED <<spawned, NumWaitingThreads, createVars>>

(* Faulty variant: the buffer is not looked at again after a freeze. *)
BeginRegardless(u) ==
    /\ pc[u] = "starting"
    /\ ThreadStarted(u)
    /\ IF AIsFreeze THEN TakeNothing ELSE TakeArgs(u)
    /\ UNCHANGED <<onInsert, spawned, NumWaitingThreads, createVars>>

(* Stopped by a freeze when it became active; woken, and the arguments may be
   gone. *)
BeginAfterFreeze(u) ==
    /\ pc[u] = "starting"
    /\ \/ AIsFreeze /\ ThreadStarted(u) /\ TakeNothing /\ UNCHANGED onInsert
       \/ /\ ~AIsFreeze /\ ~ArgBufEmpty
          /\ ThreadStarted(u)
          /\ TakeArgs(u)
          /\ UNCHANGED onInsert
       \/ /\ ArgBufEmpty
          /\ ThreadBackOff(u)
          /\ onInsert' = onInsert \cup {u}
          /\ TakeNothing
    /\ UNCHANGED <<spawned, NumWaitingThreads, createVars>>

(* The function has returned: count the thread as waiting, then go to the head
   of the loop in the same critical section. *)
ThreadReturns(u) ==
    /\ runs[u] # NoJob
    /\ pc[u] = "running"
    /\ step[u] = "no"
    /\ NumWaitingThreads' = NumWaitingThreads + 1
    /\ \/ /\ ArgBufEmpty
          /\ ThreadEnd(u)
          /\ onInsert' = onInsert \cup {u}
          /\ runs' = [runs EXCEPT ![u] = NoJob]
          /\ UNCHANGED <<bufVars, onRemove, started>>
       \/ /\ ~ArgBufEmpty
          /\ ThreadAgain(u)
          /\ runs' = [runs EXCEPT ![u] = NoJob]
          /\ UNCHANGED <<bufVars, onRemove, started, onInsert>>
       \/ /\ ~ArgBufEmpty /\ ~AIsFreeze
          /\ TakeArgs(u)
          /\ UNCHANGED <<vars, onInsert>>
    /\ UNCHANGED <<spawned, createVars>>

-----------------------------------------------------------------------------
(* What else a thread does: block, freeze the others, poll. *)

AtWill(t) == step[t] \in {"no", "prepare"}

Elsewhere(t) ==
    /\ AtWill(t)
    /\ \/ t \in Freezers /\ (AAllowBlocking(t) \/ AFreezeOtherThreads(t))
       \/ AHandleInterrupt(t) /\ step[t] = "no"
    /\ UNCHANGED poolVars

FreezeSteps(t) ==
    /\ \/ AtWill(t) /\ AEndBlocking(t)
       \/ FreezeBusy(t) \/ FreezeRelock(t) \/ AllFrozen(t)
       \/ AWakeOtherThreads(t) \/ WakeUpBroadcast(t)
       \/ AHandleInterruptEnd(t) \/ CheckKey(t)
    /\ UNCHANGED poolVars

(* Waits on condition variables may end unasked. *)
WakeUpUnasked(t) ==
    \/ SpuriousWakeUp(t) /\ UNCHANGED poolVars
    \/ /\ t \in onInsert \cup onRemove
       /\ onInsert' = onInsert \ {t}
       /\ onRemove' = onRemove \ {t}
       /\ UNCHANGED <<vars, spawned, NumWaitingThreads, bufVars, createVars,
                      runs, started>>

(* The steps a thread takes on its own account inside these functions. *)
PoolStep(t) ==
    \/ Prepared(t) \/ SlotFreed(t) \/ SignalInsert(t) \/ Spawn(t)
    \/ BeginNewThread(t) \/ BeginAfterFreeze(t)

PoolNext ==
    \E t \in Thread :
       \/ AThreadCreate(t) \/ PoolStep(t)
       \/ ThreadReturns(t)
       \/ Elsewhere(t) \/ FreezeSteps(t) \/ WakeUpUnasked(t)

PoolSpec == PoolInit /\ [][PoolNext]_allVars

(* Threads go on inside these functions and in the freeze protocol, and poll;
   a thread function need not return, and no thread has to create another. *)
PoolFairness ==
    \A t \in Thread :
       /\ WF_allVars(PoolStep(t))
       /\ WF_allVars(FreezeSteps(t))
       /\ WF_allVars(AHandleInterrupt(t) /\ UNCHANGED poolVars)
       /\ Polls(t)

-----------------------------------------------------------------------------
(* Properties. *)

PoolTypeOK ==
    /\ TypeOK
    /\ spawned \subseteq Thread
    /\ NumWaitingThreads \in Nat
    /\ AThreadArgBuffer \in [0..ArgBufSize - 1 -> Job \cup {NoJob}]
    /\ {ArgBufFirst, ArgBufLast} \subseteq 0..ArgBufSize - 1
    /\ onInsert \subseteq Thread /\ onRemove \subseteq Thread
    /\ step \in [Thread -> {"no", "prepare", "fullReserved", "fullNew",
                            "signal", "spawn"}]
    /\ creates \in [Thread -> Job \cup {NoJob}]
    /\ runs \in [Thread -> Job \cup {NoJob}]
    /\ created \in 0..MaxJobs
    /\ returned \subseteq Job /\ started \subseteq Job \cup {NoJob}
    /\ refused \in 0..MaxJobs

(* The slots in use, and the operating system threads that will look at the
   buffer before they do anything else. *)
Pending == (ArgBufLast - ArgBufFirst) % ArgBufSize
InUse == {(ArgBufFirst + k) % ArgBufSize : k \in 0..Pending - 1}
PoolThreads == {t \in spawned : pc[t] \in {"idle", "starting"}}
At(places) == {t \in Thread : step[t] \in places}
Spawning == At({"spawn"})
Reserving == At({"fullReserved"})

(* NumWaitingThreads balances the books: every object in the buffer and every
   reservation has an operating system thread of its own, in the pool or about
   to be created, although threads take each other's objects and a thread that
   returns is counted before it looks at the buffer.  For each refused thread
   one object goes short. *)
PoolAccounting ==
    Cardinality(PoolThreads) + Cardinality(Spawning) + refused =
        NumWaitingThreads + Pending + Cardinality(Reserving)

(* The buffer never loses, duplicates or reorders into a wrong hand: the slots
   in use hold distinct objects that have not started, the others are clear
   (so the garbage collector may reclaim what they held), and no object is
   executed by two threads. *)
BufferIsSound ==
    /\ \A i \in 0..ArgBufSize - 1 :
          IF i \in InUse
            THEN AThreadArgBuffer[i] \in (1..created) \ started
            ELSE AThreadArgBuffer[i] = NoJob
    /\ \A i, k \in InUse :
          AThreadArgBuffer[i] = AThreadArgBuffer[k] => i = k
    /\ \A t, u \in Thread : runs[t] = runs[u] /\ runs[t] # NoJob => t = u

(* The pool and its buffer are sound: no object is lost or executed twice, and
   each has an operating system thread. *)
PoolIsSound == PoolTypeOK /\ BufferIsSound /\ PoolAccounting

(* The inductive invariant behind PoolIsSound.  A thread that does not exist yet
   is idle; an object is with the thread that creates it, then in the buffer,
   then started, and in one of these places only; every thread inside
   AThreadCreate and every refused one has an object of its own. *)
Storing(t) == step[t] \in {"prepare", "fullReserved", "fullNew"}

ObjectsAreApart ==
    /\ started \subseteq 1..created
    /\ \A t \in Thread :
          /\ runs[t] # NoJob => runs[t] \in started
          /\ step[t] # "no" => creates[t] \in 1..created
          /\ Storing(t) =>
                /\ creates[t] \notin started
                /\ \A i \in 0..ArgBufSize - 1 : AThreadArgBuffer[i] # creates[t]
    /\ \A t, u \in Thread :
          Storing(t) /\ Storing(u) /\ creates[t] = creates[u] => t = u

Creators == At({"prepare", "fullReserved", "fullNew", "signal", "spawn"})
CreatorsCounted == Cardinality(Creators) + refused <= created

PoolIInv ==
    /\ IInv
    /\ PoolIsSound
    /\ \A t \in Thread \ spawned : pc[t] = "idle"
    /\ ObjectsAreApart
    /\ CreatorsCounted

(* Creating, starting and ending threads respects the freeze protocol. *)
ImplementsFreeze == Spec

NoneWaitsForSlot == At({"fullReserved", "fullNew"}) = {}

(* "The thread calls the function" (doc/thread.html): the functions of the
   objects whose AThreadCreate has returned are eventually called, even if no
   other thread function ever returns; and the creators that found the buffer
   full are woken and go on (the program creates finitely many objects).
   Freezes must cease, as a new thread may lose the race against one freeze
   after another, and no thread must be refused, as that leaves an object
   behind which takes the thread of another.  The creators are promised their
   wake-ups only if no two of them sleep at the same time: a thread that takes
   an object signals ArgBufRemoveCond only if the buffer is full, so of two
   slots freed in a row only the first is announced, and the second creator
   sleeps on beside a free slot. *)
CreatedIsStarted ==
    <>[]~AIsFreeze /\ [](refused = 0) =>
       /\ []<>(returned \subseteq started)
       /\ [](Cardinality(onRemove) <= 1) => []<>NoneWaitsForSlot

=============================================================================
