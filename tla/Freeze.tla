------------------------------- MODULE Freeze -------------------------------
(***************************************************************************)
(* The cooperative stop-the-world protocol of src/src/thread_athread.c,    *)
(* and the interrupt flags that make running threads poll it.              *)
(*                                                                         *)
(* Every function of the protocol runs inside AThreadMutex and gives the   *)
(* mutex up only where it returns or waits on a condition variable, so one *)
(* such critical section is one action.  pc[t] names the place where       *)
(* thread t is outside AThreadMutex; asleep holds the threads that sit in  *)
(* athread_cond_wait and have not been woken.  Which condition variable a  *)
(* sleeper waits on follows from its pc.                                   *)
(***************************************************************************)
EXTENDS Integers, FiniteSets

CONSTANTS
    Thread,      \* operating system threads, the main thread included
    MainThread,  \* AMainThread
    NoThread,    \* stands for "no thread"
    MaxDepth,    \* bound: how deep freezes nest (three levels in gc.c)
    MaxPresses   \* bound: how often the user presses Ctrl+C

ASSUME ThreadAssumption == /\ IsFiniteSet(Thread)
                           /\ MainThread \in Thread
                           /\ NoThread \notin Thread
ASSUME BoundAssumption  == MaxDepth \in Nat \ {0} /\ MaxPresses \in Nat

VARIABLES
    pc,
    asleep,
    ANumThreads,           \* threads that execute Alore code
    NumFreezableThreads,   \* those of them that have stopped or may be stopped
    AIsFreeze,
    FreezeDepth,
    AIsInterrupt,          \* polled by running threads without the mutex
    AIsKeyboardInterrupt,
    handler,               \* is the signal handler between its two stores?
    presses, raised        \* Ctrl+C presses; InterruptExceptions raised

freezeVars == <<ANumThreads, NumFreezableThreads, AIsFreeze, FreezeDepth>>
keyVars    == <<AIsKeyboardInterrupt, handler, presses, raised>>
vars       == <<pc, asleep, freezeVars, AIsInterrupt, keyVars>>

(* Places where a thread is counted in NumFreezableThreads. *)
Freezable == {"starting", "blocking", "endBlocking", "yielding",
              "busyBlocking", "busyEnd"}

(* Places where a thread waits on WakeUpCond. *)
WakeUpWait == {"starting", "endBlocking", "yielding", "busyEnd"}

(* Places where a thread executes code that may touch the Alore heap. *)
Executing == {"running", "checkKey", "raising", "busy", "relock",
              "allFrozen", "frozen", "broadcast"}

PC == {"idle"} \cup Freezable \cup Executing

Go(t, place) == pc' = [pc EXCEPT ![t] = place]

Init ==
    /\ pc = [t \in Thread |-> IF t = MainThread THEN "running" ELSE "idle"]
    /\ asleep = {}
    /\ ANumThreads = 1
    /\ NumFreezableThreads = 0
    /\ AIsFreeze = FALSE
    /\ FreezeDepth = 0
    /\ AIsInterrupt = FALSE
    /\ AIsKeyboardInterrupt = FALSE
    /\ handler = "none"
    /\ presses = 0
    /\ raised = 0

-----------------------------------------------------------------------------
(* Condition variables. *)

AllFrozenSleepers == {t \in asleep : pc[t] = "allFrozen"}
WakeUpSleepers    == {t \in asleep : pc[t] \in WakeUpWait}

(* The test that follows every change of the two counters: the freezer is
   signalled when the last of the other threads has become freezable. *)
SignalIfAllFrozen ==
    asleep' = IF AIsFreeze /\ NumFreezableThreads' = ANumThreads' - 1
                THEN asleep \ AllFrozenSleepers
                ELSE asleep

(* athread_cond_wait may return although nobody signalled. *)
SpuriousWakeUp(t) ==
    /\ t \in asleep
    /\ asleep' = asleep \ {t}
    /\ UNCHANGED <<pc, freezeVars, AIsInterrupt, keyVars>>

-----------------------------------------------------------------------------
(* AllowFreezeNoLock, and AAllowBlocking, which locks around it. *)
AllowFreezeNoLock(t, from, to) ==
    /\ pc[t] = from
    /\ Go(t, to)
    /\ NumFreezableThreads' = NumFreezableThreads + 1
    /\ UNCHANGED <<ANumThreads, AIsFreeze, FreezeDepth, AIsInterrupt, keyVars>>
    /\ SignalIfAllFrozen

(* Faulty variant: the flag is tested once and not again after a wake-up. *)
DisallowFreezeOnce(t, from, waiting, to) ==
    /\ pc[t] = from
    /\ t \notin asleep
    /\ IF AIsFreeze /\ from # waiting
         THEN /\ Go(t, waiting)
              /\ asleep' = asleep \cup {t}
              /\ UNCHANGED NumFreezableThreads
         ELSE /\ Go(t, to)
              /\ NumFreezableThreads' = NumFreezableThreads - 1
              /\ UNCHANGED asleep
    /\ UNCHANGED <<ANumThreads, AIsFreeze, FreezeDepth, AIsInterrupt, keyVars>>

(* DisallowFreezeNoLock, and AEndBlocking: a thread stays in the loop, at the
   place "waiting", while AIsFreeze is set and goes on to "to" after it. *)
DisallowFreezeNoLock(t, from, waiting, to) ==
    /\ pc[t] = from
    /\ t \notin asleep
    /\ IF AIsFreeze
         THEN /\ Go(t, waiting)
              /\ asleep' = asleep \cup {t}
              /\ UNCHANGED NumFreezableThreads
         ELSE /\ Go(t, to)
              /\ NumFreezableThreads' = NumFreezableThreads - 1
              /\ UNCHANGED asleep
    /\ UNCHANGED <<ANumThreads, AIsFreeze, FreezeDepth, AIsInterrupt, keyVars>>

AAllowBlocking(t) == AllowFreezeNoLock(t, "running", "blocking")

AEndBlocking(t) ==
    \/ DisallowFreezeNoLock(t, "blocking", "endBlocking", "running")
    \/ DisallowFreezeNoLock(t, "endBlocking", "endBlocking", "running")

-----------------------------------------------------------------------------
(* Threads come and go (BeginNewThread; ThreadPool has the details). *)

(* Faulty variant: a new thread does not look at AIsFreeze. *)
ThreadStartUnchecked(t) ==
    /\ pc[t] = "idle"
    /\ ANumThreads' = ANumThreads + 1
    /\ Go(t, "running")
    /\ UNCHANGED <<asleep, NumFreezableThreads, AIsFreeze, FreezeDepth,
                   AIsInterrupt, keyVars>>

(* A pool thread that found an argument becomes active, frozen if need be. *)
ThreadStart(t) ==
    /\ pc[t] = "idle"
    /\ ANumThreads' = ANumThreads + 1
    /\ IF AIsFreeze
         THEN /\ Go(t, "starting")
              /\ NumFreezableThreads' = NumFreezableThreads + 1
              /\ asleep' = asleep \cup {t}
         ELSE /\ Go(t, "running")
              /\ UNCHANGED <<NumFreezableThreads, asleep>>
    /\ UNCHANGED <<AIsFreeze, FreezeDepth, AIsInterrupt, keyVars>>

ThreadStarted(t) == DisallowFreezeNoLock(t, "starting", "starting", "running")

(* Another thread has taken the argument meanwhile: back off. *)
ThreadBackOff(t) ==
    /\ pc[t] = "starting"
    /\ t \notin asleep
    /\ ~AIsFreeze
    /\ Go(t, "idle")
    /\ NumFreezableThreads' = NumFreezableThreads - 1
    /\ ANumThreads' = ANumThreads - 1
    /\ UNCHANGED <<asleep, AIsFreeze, FreezeDepth, AIsInterrupt, keyVars>>

(* The thread function has returned and the thread goes back to the pool. *)
ThreadEnd(t) ==
    /\ t # MainThread
    /\ pc[t] = "running"
    /\ Go(t, "idle")
    /\ ANumThreads' = ANumThreads - 1
    /\ UNCHANGED <<NumFreezableThreads, AIsFreeze, FreezeDepth, AIsInterrupt,
                   keyVars>>
    /\ SignalIfAllFrozen

(* The thread function has returned and an argument waits already: the thread
   becomes active again in the same critical section.  Only a freeze shows. *)
ThreadAgain(t) ==
    /\ t # MainThread
    /\ pc[t] = "running"
    /\ AIsFreeze
    /\ Go(t, "starting")
    /\ NumFreezableThreads' = NumFreezableThreads + 1
    /\ asleep' = {t} \cup IF NumFreezableThreads' = ANumThreads - 1
                            THEN asleep \ AllFrozenSleepers ELSE asleep
    /\ UNCHANGED <<ANumThreads, AIsFreeze, FreezeDepth, AIsInterrupt, keyVars>>

-----------------------------------------------------------------------------
(* Freezing and waking the other threads. *)

(* Faulty variant: one thread too few is waited for. *)
WaitForMostOthers(t) ==
    IF NumFreezableThreads < ANumThreads - 2
      THEN /\ Go(t, "allFrozen")
           /\ asleep' = asleep \cup {t}
           /\ UNCHANGED FreezeDepth
      ELSE /\ Go(t, "frozen")
           /\ FreezeDepth' = FreezeDepth + 1
           /\ UNCHANGED asleep

(* The tail of PerformFreeze: the loop on AllFrozenCond, and the return to
   AFreezeOtherThreads, which counts the freeze. *)
WaitForOthers(t) ==
    IF NumFreezableThreads < ANumThreads - 1
      THEN /\ Go(t, "allFrozen")
           /\ asleep' = asleep \cup {t}
           /\ UNCHANGED FreezeDepth
      ELSE /\ Go(t, "frozen")
           /\ FreezeDepth' = FreezeDepth + 1
           /\ UNCHANGED asleep

PerformFreeze(t) ==
    IF AIsFreeze
      THEN /\ Go(t, "busy")
           /\ UNCHANGED <<asleep, AIsFreeze, FreezeDepth, AIsInterrupt>>
      ELSE /\ AIsInterrupt' = TRUE
           /\ AIsFreeze' = TRUE
           /\ WaitForOthers(t)

AFreezeOtherThreads(t) ==
    /\ pc[t] \in {"running", "frozen"}
    /\ IF FreezeDepth = 0
         THEN PerformFreeze(t)
         ELSE /\ FreezeDepth < MaxDepth
              /\ FreezeDepth' = FreezeDepth + 1
              /\ Go(t, "frozen")
              /\ UNCHANGED <<asleep, AIsFreeze, AIsInterrupt>>
    /\ UNCHANGED <<ANumThreads, NumFreezableThreads, keyVars>>

(* Somebody else freezes: let them freeze this thread, then try again. *)
FreezeBusy(t) ==
    \/ AllowFreezeNoLock(t, "busy", "busyBlocking")
    \/ DisallowFreezeNoLock(t, "busyBlocking", "busyEnd", "relock")
    \/ DisallowFreezeNoLock(t, "busyEnd", "busyEnd", "relock")

FreezeRelock(t) ==
    /\ pc[t] = "relock"
    /\ PerformFreeze(t)
    /\ UNCHANGED <<ANumThreads, NumFreezableThreads, keyVars>>

AllFrozen(t) ==
    /\ pc[t] = "allFrozen"
    /\ t \notin asleep
    /\ WaitForOthers(t)
    /\ UNCHANGED <<ANumThreads, NumFreezableThreads, AIsFreeze, AIsInterrupt,
                   keyVars>>

(* Faulty variant: the flag is cleared whether or not a key was pressed. *)
AWakeClearing(t) ==
    /\ pc[t] = "frozen"
    /\ FreezeDepth' = FreezeDepth - 1
    /\ IF FreezeDepth' = 0
         THEN /\ AIsInterrupt' = FALSE
              /\ AIsFreeze' = FALSE
              /\ Go(t, "broadcast")
         ELSE UNCHANGED <<AIsInterrupt, AIsFreeze, pc>>
    /\ UNCHANGED <<asleep, ANumThreads, NumFreezableThreads, keyVars>>

AWakeOtherThreads(t) ==
    /\ pc[t] = "frozen"
    /\ FreezeDepth' = FreezeDepth - 1
    /\ IF FreezeDepth' = 0
         THEN /\ AIsInterrupt' = AIsKeyboardInterrupt
              /\ AIsFreeze' = FALSE
              /\ Go(t, "broadcast")
         ELSE UNCHANGED <<AIsInterrupt, AIsFreeze, pc>>
    /\ UNCHANGED <<asleep, ANumThreads, NumFreezableThreads, keyVars>>

(* Faulty variant: one waiting thread is woken instead of all. *)
WakeUpSignal(t) ==
    /\ pc[t] = "broadcast"
    /\ Go(t, "running")
    /\ IF WakeUpSleepers = {}
         THEN UNCHANGED asleep
         ELSE \E u \in WakeUpSleepers : asleep' = asleep \ {u}
    /\ UNCHANGED <<freezeVars, AIsInterrupt, keyVars>>

(* The broadcast comes after AThreadMutex has been released. *)
WakeUpBroadcast(t) ==
    /\ pc[t] = "broadcast"
    /\ Go(t, "running")
    /\ asleep' = asleep \ WakeUpSleepers
    /\ UNCHANGED <<freezeVars, AIsInterrupt, keyVars>>

-----------------------------------------------------------------------------
(* Polling.  Only the main thread looks at AIsKeyboardInterrupt. *)

AfterYield(t) == IF t = MainThread THEN "checkKey" ELSE "running"

AHandleInterrupt(t) ==
    /\ AIsInterrupt
    /\ pc[t] = "running"
    /\ IF AIsFreeze
         THEN /\ Go(t, "yielding")
              /\ NumFreezableThreads' = NumFreezableThreads + 1
              /\ asleep' = {t} \cup
                   IF NumFreezableThreads' = ANumThreads - 1
                     THEN asleep \ AllFrozenSleepers ELSE asleep
         ELSE /\ Go(t, AfterYield(t))
              /\ UNCHANGED <<NumFreezableThreads, asleep>>
    /\ UNCHANGED <<ANumThreads, AIsFreeze, FreezeDepth, AIsInterrupt, keyVars>>

AHandleInterruptEnd(t) ==
    DisallowFreezeNoLock(t, "yielding", "yielding", AfterYield(t))

(* The test of AIsKeyboardInterrupt and its reset surround ARaiseByNum. *)
CheckKey(t) ==
    /\ pc[t] = "checkKey"
    /\ Go(t, IF AIsKeyboardInterrupt THEN "raising" ELSE "running")
    /\ UNCHANGED <<asleep, freezeVars, AIsInterrupt, keyVars>>

(* Faulty variant: the press is not forgotten. *)
RaiseInterruptAgain(t) ==
    /\ pc[t] = "raising"
    /\ Go(t, "running")
    /\ raised' = raised + 1
    /\ UNCHANGED <<asleep, freezeVars, AIsInterrupt, AIsKeyboardInterrupt,
                   handler, presses>>

RaiseInterrupt(t) ==
    /\ pc[t] = "raising"
    /\ Go(t, "running")
    /\ AIsKeyboardInterrupt' = FALSE
    /\ raised' = raised + 1
    /\ UNCHANGED <<asleep, freezeVars, AIsInterrupt, handler, presses>>

(* KeyboardInterruptHandler, which may run between any two instructions. *)
KeyboardInterrupt ==
    /\ handler = "none"
    /\ presses < MaxPresses
    /\ handler' = "half"
    /\ presses' = presses + 1
    /\ AIsInterrupt' = TRUE
    /\ UNCHANGED <<pc, asleep, freezeVars, AIsKeyboardInterrupt, raised>>

KeyboardInterruptEnd ==
    /\ handler = "half"
    /\ handler' = "none"
    /\ AIsKeyboardInterrupt' = TRUE
    /\ UNCHANGED <<pc, asleep, freezeVars, AIsInterrupt, presses, raised>>

-----------------------------------------------------------------------------
(* The steps a thread takes on its own account once it is at such a place. *)
Continue(t) ==
    \/ AEndBlocking(t)
    \/ ThreadStarted(t)
    \/ FreezeBusy(t)
    \/ FreezeRelock(t)
    \/ AllFrozen(t)
    \/ AWakeOtherThreads(t)
    \/ WakeUpBroadcast(t)
    \/ AHandleInterrupt(t)
    \/ AHandleInterruptEnd(t)
    \/ CheckKey(t)
    \/ RaiseInterrupt(t)

Next ==
    \/ \E t \in Thread :
          \/ AAllowBlocking(t)
          \/ ThreadStart(t)
          \/ ThreadBackOff(t)
          \/ ThreadEnd(t)
          \/ ThreadAgain(t)
          \/ AFreezeOtherThreads(t)
          \/ Continue(t)
          \/ SpuriousWakeUp(t)
    \/ KeyboardInterrupt
    \/ KeyboardInterruptEnd

Spec == Init /\ [][Next]_vars

(* The interpreter polls at every backward jump and call: a thread that comes
   back to run again and again does not overlook AIsInterrupt for ever. *)
Polls(t) ==
    <>[]AIsInterrupt /\ []<>(pc[t] = "running")
        => []<><<AHandleInterrupt(t)>>_vars

(* Blocking calls return, a thread that is not blocked goes on, and a freeze
   is ended by the thread that started it; the handler runs to its end.
   Nothing obliges a thread to block, to freeze others, to start or to end. *)
FairSpec ==
    /\ Spec
    /\ \A t \in Thread : WF_vars(Continue(t)) /\ Polls(t)
    /\ WF_vars(KeyboardInterruptEnd)

-----------------------------------------------------------------------------
(* Properties. *)

TypeOK ==
    /\ pc \in [Thread -> PC]
    /\ asleep \subseteq Thread
    /\ ANumThreads \in Nat
    /\ NumFreezableThreads \in Nat
    /\ AIsFreeze \in BOOLEAN
    /\ FreezeDepth \in 0..MaxDepth
    /\ AIsInterrupt \in BOOLEAN
    /\ AIsKeyboardInterrupt \in BOOLEAN
    /\ handler \in {"none", "half"}
    /\ presses \in 0..MaxPresses
    /\ raised \in Nat

ExecutingThreads == {t \in Thread : pc[t] \in Executing}

(* AFreezeOtherThreads "returns only after the current thread is the only
   executing thread", and it stays so until the last nested AWakeOtherThreads:
   while a thread has the others frozen no other thread executes. *)
OnlyExecuting ==
    \A t \in Thread : pc[t] = "frozen" => ExecutingThreads = {t}

(* A thread that runs only sees the freeze because AIsInterrupt is set, and
   AWakeOtherThreads and the signal handler write AIsInterrupt as well: during
   a freeze, requested or complete, the flag is never clear. *)
FreezeIsPolled == AIsFreeze => AIsInterrupt

(* Once AIsFreeze is set the threads that execute become fewer only: no path
   (end of a blocking call, new thread, second freezer) lets one back in. *)
FreezeConverges ==
    [][AIsFreeze /\ AIsFreeze' => ExecutingThreads' \subseteq ExecutingThreads]_vars

(* AHandleInterrupt raises InterruptException "only once per ctrl+c press". *)
RaisedOncePerPress == raised <= presses

(* PerformFreeze does not wait on AllFrozenCond for ever: the last thread to
   become freezable, or to end, signals it. *)
FreezeCompletes ==
    \A t \in Thread : pc[t] = "allFrozen" ~> pc[t] = "frozen"

(* When freezes cease no thread is left asleep on WakeUpCond, although the
   broadcast is made after AThreadMutex has been released. *)
NoLostWakeUp ==
    <>[]~AIsFreeze =>
        \A t \in Thread : []<>(pc[t] \notin WakeUpWait)

(* Neither the thread that freezes the others nor those that wait for the end
   of the freeze, on the two condition variables of AThreadMutex, are left
   asleep. *)
NoThreadIsLeftAsleep == FreezeCompletes /\ NoLostWakeUp

(* A press of Ctrl+C that both flags show survives AWakeOtherThreads, which
   recomputes AIsInterrupt: the main thread raises InterruptException. *)
PendingKeyIsRaised ==
    <>[]~AIsFreeze =>
        ((AIsKeyboardInterrupt /\ AIsInterrupt) ~> ~AIsKeyboardInterrupt)

(* The inductive invariant behind OnlyExecuting and RaisedOncePerPress.  The
   two counters count what they claim to count; AIsFreeze and FreezeDepth agree
   with the one thread that freezes; every press is still on its way, shown by
   AIsKeyboardInterrupt, or has been raised, at most once. *)
ActiveThreads    == {t \in Thread : pc[t] # "idle"}
FreezableThreads == {t \in Thread : pc[t] \in Freezable}

Counts ==
    /\ ANumThreads = Cardinality(ActiveThreads)
    /\ NumFreezableThreads = Cardinality(FreezableThreads)

OneFreezer ==
    /\ \A t, u \in Thread :
          pc[t] \in {"allFrozen", "frozen"} /\ pc[u] \in {"allFrozen", "frozen"}
              => t = u
    /\ AIsFreeze <=> \E t \in Thread : pc[t] \in {"allFrozen", "frozen"}
    /\ FreezeDepth > 0 <=> \E t \in Thread : pc[t] = "frozen"

One(b) == IF b THEN 1 ELSE 0

PressesCounted ==
    /\ raised + One(AIsKeyboardInterrupt) + One(handler = "half") <= presses
    /\ \A t \in Thread : pc[t] \in {"checkKey", "raising"} => t = MainThread
    /\ pc[MainThread] = "raising" => AIsKeyboardInterrupt

IInv == /\ TypeOK
        /\ Counts
        /\ OneFreezer
        /\ OnlyExecuting
        /\ FreezeIsPolled
        /\ PressesCounted

(* Freezing implements the abstract specification of a stopped world. *)
ModeOf(place) == IF place = "idle" THEN "out"
                 ELSE IF place \in Freezable THEN "stopped" ELSE "run"

worldMode == [t \in Thread |-> ModeOf(pc[t])]

worldOwner == IF \E t \in Thread : pc[t] = "frozen"
                THEN CHOOSE t \in Thread : pc[t] = "frozen"
                ELSE NoThread

World == INSTANCE StopTheWorld WITH mode <- worldMode, owner <- worldOwner

(* Every behaviour of the protocol is one of the abstract specification. *)
ImplementsStopTheWorld == World!Spec
=============================================================================
