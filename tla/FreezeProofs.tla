---------------------------- MODULE FreezeProofs ----------------------------
(***************************************************************************)
(* Proofs about Freeze, for any finite number of threads, any depth of     *)
(* nesting and any number of Ctrl+C presses.                               *)
(***************************************************************************)
EXTENDS Freeze, FiniteSetTheorems, TLAPS

USE ThreadAssumption, BoundAssumption

-----------------------------------------------------------------------------
(* Counting threads. *)

(* When one thread moves, a set of threads defined by their places loses that
   thread if it was in it and gains it if it is in it afterwards. *)
LEMMA MoveCount ==
    ASSUME NEW S, NEW T, IsFiniteSet(S), NEW t,
           S \ {t} = T \ {t}
    PROVE  /\ IsFiniteSet(T)
           /\ Cardinality(S) \in Nat
           /\ Cardinality(T) = Cardinality(S) - One(t \in S) + One(t \in T)
<1>1. IsFiniteSet(S \ {t}) /\ Cardinality(S) \in Nat
  BY FS_RemoveElement, FS_CardinalityType
<1>2. Cardinality(S \ {t}) = Cardinality(S) - One(t \in S)
  BY <1>1, FS_RemoveElement DEF One
<1>3. CASE t \in T
  <2>1. T = (S \ {t}) \cup {t} /\ t \notin S \ {t}
    BY <1>3
  <2>2. IsFiniteSet(T) /\ Cardinality(T) = Cardinality(S \ {t}) + 1
    BY <1>1, <2>1, FS_AddElement
  <2> QED BY <1>1, <1>2, <1>3, <2>2, FS_CardinalityType DEF One
<1>4. CASE t \notin T
  <2>1. T = S \ {t}
    BY <1>4
  <2> QED BY <1>1, <1>2, <1>4, <2>1, FS_CardinalityType DEF One
<1> QED BY <1>3, <1>4

(* What a step of one thread does to the two sets that are counted. *)
LEMMA GoCounts ==
    ASSUME pc \in [Thread -> PC], NEW t \in Thread, NEW p \in PC, Go(t, p)
    PROVE  /\ pc' \in [Thread -> PC]
           /\ Cardinality(ActiveThreads) \in Nat
           /\ Cardinality(FreezableThreads) \in Nat
           /\ Cardinality(ActiveThreads') \in Nat
           /\ Cardinality(FreezableThreads') \in Nat
           /\ Cardinality(ActiveThreads') = Cardinality(ActiveThreads)
                  - One(pc[t] # "idle") + One(p # "idle")
           /\ Cardinality(FreezableThreads') = Cardinality(FreezableThreads)
                  - One(pc[t] \in Freezable) + One(p \in Freezable)
<1>1. pc' \in [Thread -> PC] /\ pc'[t] = p
  BY DEF Go
<1>2. /\ ActiveThreads \ {t} = ActiveThreads' \ {t}
      /\ t \in ActiveThreads <=> pc[t] # "idle"
      /\ t \in ActiveThreads' <=> p # "idle"
  BY DEF Go, ActiveThreads
<1>3. /\ FreezableThreads \ {t} = FreezableThreads' \ {t}
      /\ t \in FreezableThreads <=> pc[t] \in Freezable
      /\ t \in FreezableThreads' <=> p \in Freezable
  BY DEF Go, FreezableThreads
<1>4. IsFiniteSet(ActiveThreads) /\ IsFiniteSet(FreezableThreads)
  BY FS_Subset DEF ActiveThreads, FreezableThreads
<1>5. /\ IsFiniteSet(ActiveThreads')
      /\ Cardinality(ActiveThreads) \in Nat
      /\ Cardinality(ActiveThreads') = Cardinality(ActiveThreads)
             - One(pc[t] # "idle") + One(p # "idle")
  <2>1. /\ IsFiniteSet(ActiveThreads')
        /\ Cardinality(ActiveThreads) \in Nat
        /\ Cardinality(ActiveThreads') = Cardinality(ActiveThreads)
               - One(t \in ActiveThreads) + One(t \in ActiveThreads')
    <3>1. IsFiniteSet(ActiveThreads) /\ ActiveThreads \ {t} = ActiveThreads' \ {t}
      BY <1>2, <1>4
    <3> QED BY ONLY <3>1, MoveCount
  <2>2. /\ One(t \in ActiveThreads) = One(pc[t] # "idle")
        /\ One(t \in ActiveThreads') = One(p # "idle")
    BY <1>2 DEF One
  <2> QED BY <2>1, <2>2
<1>6. /\ IsFiniteSet(FreezableThreads')
      /\ Cardinality(FreezableThreads) \in Nat
      /\ Cardinality(FreezableThreads') = Cardinality(FreezableThreads)
             - One(pc[t] \in Freezable) + One(p \in Freezable)
  <2>1. /\ IsFiniteSet(FreezableThreads')
        /\ Cardinality(FreezableThreads) \in Nat
        /\ Cardinality(FreezableThreads') = Cardinality(FreezableThreads)
               - One(t \in FreezableThreads) + One(t \in FreezableThreads')
    <3>1. /\ IsFiniteSet(FreezableThreads)
          /\ FreezableThreads \ {t} = FreezableThreads' \ {t}
      BY <1>3, <1>4
    <3> QED BY ONLY <3>1, MoveCount
  <2>2. /\ One(t \in FreezableThreads) = One(pc[t] \in Freezable)
        /\ One(t \in FreezableThreads') = One(p \in Freezable)
    BY <1>3 DEF One
  <2> QED BY <2>1, <2>2
<1>7. /\ Cardinality(ActiveThreads') \in Nat
      /\ Cardinality(FreezableThreads') \in Nat
  BY <1>5, <1>6, FS_CardinalityType
<1> QED BY <1>1, <1>5, <1>6, <1>7

(* The heart of the protocol: when all but one of the active threads are
   freezable, a thread that executes is the only one that does. *)
LEMMA AllButOne ==
    ASSUME pc \in [Thread -> PC], NEW t \in Thread, pc[t] \in Executing,
           Cardinality(FreezableThreads) >= Cardinality(ActiveThreads) - 1
    PROVE  ExecutingThreads = {t}
<1>1. SUFFICES ASSUME NEW u \in Thread, pc[u] \in Executing, u # t
               PROVE  FALSE
  BY DEF ExecutingThreads
<1>2. IsFiniteSet(ActiveThreads)
  BY FS_Subset DEF ActiveThreads
<1>3. t \in ActiveThreads /\ u \in ActiveThreads \ {t}
  BY <1>1 DEF ActiveThreads, Executing
<1>4. FreezableThreads \subseteq (ActiveThreads \ {t}) \ {u}
  BY <1>1 DEF FreezableThreads, ActiveThreads, Freezable, Executing
<1>5. /\ IsFiniteSet(ActiveThreads \ {t})
      /\ Cardinality(ActiveThreads \ {t}) = Cardinality(ActiveThreads) - 1
  BY <1>2, <1>3, FS_RemoveElement
<1>. DEFINE R == ActiveThreads \ {t}
<1>6. /\ IsFiniteSet(R \ {u})
      /\ Cardinality(R \ {u}) = Cardinality(ActiveThreads) - 2
  <2>1. /\ IsFiniteSet(R \ {u})
        /\ Cardinality(R \ {u}) = Cardinality(R) - 1
    BY <1>3, <1>5, FS_RemoveElement
  <2> QED BY <1>2, <1>5, <2>1, FS_CardinalityType
<1>7. Cardinality(FreezableThreads) <= Cardinality(ActiveThreads) - 2
  BY <1>4, <1>6, FS_Subset
<1>8. Cardinality(FreezableThreads) \in Nat /\ Cardinality(ActiveThreads) \in Nat
  BY <1>2, <1>4, <1>6, FS_Subset, FS_CardinalityType
<1> QED BY <1>7, <1>8

-----------------------------------------------------------------------------
(* The inductive invariant. *)

LEMMA InitInv == Init => IInv
<1> SUFFICES ASSUME Init PROVE IInv
  OBVIOUS
<1>1. TypeOK
  <2>1. "running" \in PC /\ "idle" \in PC
    BY DEF PC, Executing
  <2>2. pc \in [Thread -> PC]
    BY <2>1 DEF Init
  <2>3. 0 \in 0..MaxDepth /\ 0 \in 0..MaxPresses
    OBVIOUS
  <2> QED BY <2>2, <2>3 DEF Init, TypeOK
<1>2. Counts
  <2>1. ActiveThreads = {MainThread} /\ FreezableThreads = {}
    BY DEF Init, ActiveThreads, FreezableThreads, Freezable
  <2> QED BY <2>1, FS_EmptySet, FS_Singleton DEF Init, Counts
<1>3. OneFreezer
  BY DEF Init, OneFreezer
<1>4. OnlyExecuting /\ FreezeIsPolled
  BY DEF Init, OnlyExecuting, FreezeIsPolled
<1>5. PressesCounted
  BY DEF Init, PressesCounted, One
<1> QED BY <1>1, <1>2, <1>3, <1>4, <1>5 DEF IInv

(* A thread that becomes freezable. *)
LEMMA AllowInv ==
    ASSUME IInv, NEW t \in Thread, NEW from \in {"running", "busy"},
           NEW to \in {"blocking", "busyBlocking"}, AllowFreezeNoLock(t, from, to)
    PROVE  IInv'
<1> USE DEF AllowFreezeNoLock, keyVars
<1>1. TypeOK' /\ Counts'
  <2>1. to \in PC /\ to \in Freezable /\ from \notin Freezable
    BY DEF PC, Freezable
  <2>2. NumFreezableThreads' = Cardinality(FreezableThreads')
        /\ ANumThreads' = Cardinality(ActiveThreads')
    BY <2>1, GoCounts DEF IInv, TypeOK, Counts, One
  <2> QED BY <2>1, <2>2, GoCounts DEF IInv, TypeOK, Counts, SignalIfAllFrozen
<1>2. OneFreezer' /\ OnlyExecuting' /\ FreezeIsPolled' /\ PressesCounted'
  BY DEF IInv, TypeOK, Go, OneFreezer, OnlyExecuting, ExecutingThreads,
         FreezeIsPolled, PressesCounted, Executing, One
<1> QED BY <1>1, <1>2 DEF IInv

(* A thread that waits for the end of a freeze, or goes on after it. *)
LEMMA DisallowInv ==
    ASSUME IInv, NEW t \in Thread, NEW from \in Freezable,
           NEW waiting \in WakeUpWait,
           NEW to \in {"running", "relock", "checkKey"},
           to = "checkKey" => t = MainThread,
           DisallowFreezeNoLock(t, from, waiting, to)
    PROVE  IInv'
<1> USE DEF DisallowFreezeNoLock, keyVars
<1>a. /\ to \in PC /\ to \notin Freezable /\ to # "idle"
      /\ waiting \in PC /\ waiting \in Freezable /\ waiting # "idle"
      /\ from # "idle"
  BY DEF PC, Freezable, Executing, WakeUpWait
<1>1. CASE AIsFreeze
  <2>1. TypeOK' /\ Counts'
    <3>1. /\ NumFreezableThreads' = Cardinality(FreezableThreads')
          /\ ANumThreads' = Cardinality(ActiveThreads')
      BY <1>1, <1>a, GoCounts DEF IInv, TypeOK, Counts, One
    <3> QED BY <1>1, <1>a, <3>1, GoCounts DEF IInv, TypeOK, Counts
  <2>2. OneFreezer' /\ OnlyExecuting' /\ FreezeIsPolled' /\ PressesCounted'
    BY <1>1 DEF IInv, TypeOK, Go, OneFreezer, OnlyExecuting, ExecutingThreads,
           FreezeIsPolled, PressesCounted, Executing, Freezable, WakeUpWait, One
  <2> QED BY <2>1, <2>2 DEF IInv
<1>2. CASE ~AIsFreeze
  <2>1. TypeOK' /\ Counts'
    <3>1. /\ NumFreezableThreads' = Cardinality(FreezableThreads')
          /\ ANumThreads' = Cardinality(ActiveThreads')
      BY <1>2, <1>a, GoCounts DEF IInv, TypeOK, Counts, One
    <3> QED BY <1>2, <1>a, <3>1, GoCounts DEF IInv, TypeOK, Counts
  <2>2. OneFreezer' /\ OnlyExecuting' /\ FreezeIsPolled' /\ PressesCounted'
    BY <1>2 DEF IInv, TypeOK, Go, OneFreezer, OnlyExecuting, ExecutingThreads,
           FreezeIsPolled, PressesCounted, Executing, Freezable, WakeUpWait, One
  <2> QED BY <2>1, <2>2 DEF IInv
<1> QED BY <1>1, <1>2

(* Threads that become active, back off or end. *)
LEMMA ThreadInv ==
    ASSUME IInv, NEW t \in Thread,
           \/ ThreadStart(t) \/ ThreadBackOff(t)
           \/ ThreadEnd(t) \/ ThreadAgain(t)
    PROVE  IInv'
<1> USE DEF keyVars
<1>a. "idle" \in PC /\ "starting" \in PC /\ "running" \in PC
  BY DEF PC, Freezable, Executing
<1>b. "idle" \notin Freezable /\ "running" \notin Freezable /\ "starting" \in Freezable
  BY DEF Freezable
<1>1. CASE ThreadStart(t)
  <2>1. CASE AIsFreeze
    <3>1. /\ pc' \in [Thread -> PC]
          /\ NumFreezableThreads' = Cardinality(FreezableThreads')
          /\ ANumThreads' = Cardinality(ActiveThreads')
          /\ NumFreezableThreads' \in Nat /\ ANumThreads' \in Nat
      BY <1>1, <2>1, <1>a, <1>b, GoCounts
         DEF ThreadStart, IInv, TypeOK, Counts, One
    <3>2. TypeOK' /\ Counts'
      BY <1>1, <2>1, <3>1 DEF ThreadStart, IInv, TypeOK, Counts
    <3>3. OneFreezer' /\ OnlyExecuting' /\ FreezeIsPolled' /\ PressesCounted'
      BY <1>1, <2>1 DEF ThreadStart, IInv, TypeOK, Go, OneFreezer, OnlyExecuting,
         ExecutingThreads, FreezeIsPolled, PressesCounted, Executing, One
    <3> QED BY <3>2, <3>3 DEF IInv
  <2>2. CASE ~AIsFreeze
    <3>1. /\ pc' \in [Thread -> PC]
          /\ NumFreezableThreads' = Cardinality(FreezableThreads')
          /\ ANumThreads' = Cardinality(ActiveThreads')
          /\ NumFreezableThreads' \in Nat /\ ANumThreads' \in Nat
      BY <1>1, <2>2, <1>a, <1>b, GoCounts
         DEF ThreadStart, IInv, TypeOK, Counts, One
    <3>2. TypeOK' /\ Counts'
      BY <1>1, <2>2, <3>1 DEF ThreadStart, IInv, TypeOK, Counts
    <3>3. OneFreezer' /\ OnlyExecuting' /\ FreezeIsPolled' /\ PressesCounted'
      BY <1>1, <2>2 DEF ThreadStart, IInv, TypeOK, Go, OneFreezer, OnlyExecuting,
         ExecutingThreads, FreezeIsPolled, PressesCounted, Executing, One
    <3> QED BY <3>2, <3>3 DEF IInv
  <2> QED BY <2>1, <2>2
<1>2. CASE ThreadBackOff(t)
  <2>1. /\ pc' \in [Thread -> PC]
        /\ NumFreezableThreads' = Cardinality(FreezableThreads')
        /\ ANumThreads' = Cardinality(ActiveThreads')
        /\ NumFreezableThreads' \in Nat /\ ANumThreads' \in Nat
    BY <1>2, <1>a, <1>b, GoCounts DEF ThreadBackOff, IInv, TypeOK, Counts, One
  <2>2. TypeOK' /\ Counts'
    BY <1>2, <2>1 DEF ThreadBackOff, IInv, TypeOK, Counts
  <2>3. OneFreezer' /\ OnlyExecuting' /\ FreezeIsPolled' /\ PressesCounted'
    BY <1>2 DEF ThreadBackOff, IInv, TypeOK, Go, OneFreezer, OnlyExecuting,
       ExecutingThreads, FreezeIsPolled, PressesCounted, Executing, One
  <2> QED BY <2>2, <2>3 DEF IInv
<1>3. CASE ThreadEnd(t)
  <2>1. /\ pc' \in [Thread -> PC]
        /\ NumFreezableThreads' = Cardinality(FreezableThreads')
        /\ ANumThreads' = Cardinality(ActiveThreads')
        /\ NumFreezableThreads' \in Nat /\ ANumThreads' \in Nat
    BY <1>3, <1>a, <1>b, GoCounts DEF ThreadEnd, IInv, TypeOK, Counts, One
  <2>2. TypeOK' /\ Counts'
    BY <1>3, <2>1 DEF ThreadEnd, SignalIfAllFrozen, IInv, TypeOK, Counts
  <2>3. OneFreezer' /\ OnlyExecuting' /\ FreezeIsPolled' /\ PressesCounted'
    BY <1>3 DEF ThreadEnd, IInv, TypeOK, Go, OneFreezer, OnlyExecuting,
       ExecutingThreads, FreezeIsPolled, PressesCounted, Executing, One
  <2> QED BY <2>2, <2>3 DEF IInv
<1>4. CASE ThreadAgain(t)
  <2>1. /\ pc' \in [Thread -> PC]
        /\ NumFreezableThreads' = Cardinality(FreezableThreads')
        /\ ANumThreads' = Cardinality(ActiveThreads')
        /\ NumFreezableThreads' \in Nat
    BY <1>4, <1>a, <1>b, GoCounts DEF ThreadAgain, IInv, TypeOK, Counts, One
  <2>2. TypeOK' /\ Counts'
    BY <1>4, <2>1 DEF ThreadAgain, IInv, TypeOK, Counts
  <2>3. OneFreezer' /\ OnlyExecuting' /\ FreezeIsPolled' /\ PressesCounted'
    BY <1>4 DEF ThreadAgain, IInv, TypeOK, Go, OneFreezer, OnlyExecuting,
       ExecutingThreads, FreezeIsPolled, PressesCounted, Executing, One
  <2> QED BY <2>2, <2>3 DEF IInv
<1> QED BY <1>1, <1>2, <1>3, <1>4

(* The wait for the other threads, entered by a thread that has just set
   AIsFreeze or has been woken on AllFrozenCond. *)
LEMMA WaitForOthersInv ==
    ASSUME IInv, NEW t \in Thread,
           \/ /\ pc[t] \in {"running", "relock", "frozen"}
              /\ ~AIsFreeze
              /\ AIsInterrupt' = TRUE
              /\ AIsFreeze' = TRUE
           \/ /\ pc[t] = "allFrozen"
              /\ UNCHANGED <<AIsFreeze, AIsInterrupt>>,
           WaitForOthers(t),
           UNCHANGED <<ANumThreads, NumFreezableThreads, keyVars>>
    PROVE  IInv'
<1> USE DEF keyVars, WaitForOthers
<1>a. /\ "allFrozen" \in PC /\ "frozen" \in PC
      /\ "allFrozen" \notin Freezable /\ "frozen" \notin Freezable
      /\ pc[t] # "idle" /\ pc[t] \notin Freezable /\ pc[t] \in Executing
  BY DEF PC, Freezable, Executing
<1>b. FreezeDepth = 0 /\ \A u \in Thread : pc[u] # "frozen"
  BY DEF IInv, TypeOK, OneFreezer
<1>c. \A u \in Thread : pc[u] \in {"allFrozen", "frozen"} => u = t
  BY DEF IInv, OneFreezer
<1>1. CASE NumFreezableThreads < ANumThreads - 1
  <2>1. /\ pc' \in [Thread -> PC]
        /\ NumFreezableThreads' = Cardinality(FreezableThreads')
        /\ ANumThreads' = Cardinality(ActiveThreads')
    BY <1>1, <1>a, GoCounts DEF IInv, TypeOK, Counts, One
  <2>2. TypeOK' /\ Counts'
    BY <1>1, <2>1 DEF IInv, TypeOK, Counts
  <2>3. OneFreezer' /\ OnlyExecuting' /\ FreezeIsPolled' /\ PressesCounted'
    BY <1>1, <1>b, <1>c DEF IInv, TypeOK, Go, OneFreezer, OnlyExecuting,
       FreezeIsPolled, PressesCounted, One
  <2> QED BY <2>2, <2>3 DEF IInv
<1>2. CASE ~(NumFreezableThreads < ANumThreads - 1)
  <2>1. /\ pc' \in [Thread -> PC]
        /\ NumFreezableThreads' = Cardinality(FreezableThreads')
        /\ ANumThreads' = Cardinality(ActiveThreads')
    BY <1>2, <1>a, GoCounts DEF IInv, TypeOK, Counts, One
  <2>2. TypeOK' /\ Counts'
    <3>1. 0 + 1 \in 0..MaxDepth
      OBVIOUS
    <3>2. FreezeDepth' \in 0..MaxDepth
      BY <1>2, <1>b, <3>1
    <3>3. AIsFreeze' \in BOOLEAN /\ AIsInterrupt' \in BOOLEAN
      BY DEF IInv, TypeOK
    <3> QED BY <1>2, <2>1, <3>2, <3>3 DEF IInv, TypeOK, Counts
  <2>3. OnlyExecuting'
    <3>1. ExecutingThreads = {t}
      BY <1>2, <1>a, AllButOne DEF IInv, TypeOK, Counts
    <3> QED BY <1>2, <1>b, <3>1 DEF IInv, TypeOK, Go, OnlyExecuting,
               ExecutingThreads, Executing
  <2>4. OneFreezer'
    <3>1. pc' = [pc EXCEPT ![t] = "frozen"] /\ FreezeDepth' = 1
      BY <1>2, <1>b DEF Go
    <3>2. AIsFreeze'
      BY DEF IInv, OneFreezer
    <3> QED BY <1>b, <1>c, <3>1, <3>2 DEF IInv, TypeOK, OneFreezer
  <2>5. FreezeIsPolled' /\ PressesCounted'
    BY <1>2 DEF IInv, TypeOK, Go, FreezeIsPolled, PressesCounted, One
  <2> QED BY <2>2, <2>3, <2>4, <2>5 DEF IInv
<1> QED BY <1>1, <1>2

(* Steps that touch neither counter. *)
LEMMA FreezeInv ==
    ASSUME IInv, NEW t \in Thread,
           AFreezeOtherThreads(t) \/ FreezeRelock(t) \/ AllFrozen(t)
    PROVE  IInv'
<1> USE DEF keyVars
<1>1. CASE /\ pc[t] \in {"running", "frozen", "relock"}
           /\ PerformFreeze(t)
           /\ UNCHANGED <<ANumThreads, NumFreezableThreads, keyVars>>
           /\ pc[t] = "frozen" => FreezeDepth = 0
  <2>1. pc[t] # "frozen"
    BY <1>1 DEF IInv, OneFreezer
  <2>2. CASE AIsFreeze
    <3>a. "busy" \in PC /\ "busy" \notin Freezable /\ pc[t] \notin Freezable
      BY <1>1 DEF PC, Executing, Freezable
    <3>1. /\ pc' \in [Thread -> PC]
          /\ NumFreezableThreads' = Cardinality(FreezableThreads')
          /\ ANumThreads' = Cardinality(ActiveThreads')
      BY <1>1, <2>2, <3>a, GoCounts DEF PerformFreeze, IInv, TypeOK, Counts, One
    <3>2. TypeOK' /\ Counts'
      BY <1>1, <2>2, <3>1 DEF PerformFreeze, IInv, TypeOK, Counts
    <3>3. OneFreezer' /\ OnlyExecuting' /\ FreezeIsPolled' /\ PressesCounted'
      BY <1>1, <2>1, <2>2 DEF PerformFreeze, IInv, TypeOK, Go, OneFreezer,
         OnlyExecuting, ExecutingThreads, FreezeIsPolled, PressesCounted,
         Executing, One
    <3> QED BY <3>2, <3>3 DEF IInv
  <2>3. CASE ~AIsFreeze
    BY <1>1, <2>1, <2>3, WaitForOthersInv DEF PerformFreeze
  <2> QED BY <2>2, <2>3
<1>2. CASE AFreezeOtherThreads(t) /\ FreezeDepth # 0
  <2>1. PICK u \in Thread : pc[u] = "frozen"
    BY <1>2 DEF IInv, TypeOK, OneFreezer
  <2>2. t = u /\ UNCHANGED pc
    BY <1>2, <2>1 DEF AFreezeOtherThreads, Go, IInv, TypeOK, OnlyExecuting,
       ExecutingThreads, Executing
  <2>3. FreezeDepth' \in 0..MaxDepth /\ FreezeDepth' > 0
    BY <1>2 DEF AFreezeOtherThreads, IInv, TypeOK
  <2>4. TypeOK' /\ Counts'
    BY <1>2, <2>2, <2>3 DEF AFreezeOtherThreads, IInv, TypeOK, Counts,
       ActiveThreads, FreezableThreads
  <2>5. OneFreezer' /\ OnlyExecuting' /\ FreezeIsPolled' /\ PressesCounted'
    BY <1>2, <2>1, <2>2, <2>3 DEF AFreezeOtherThreads, IInv, OneFreezer,
       OnlyExecuting, ExecutingThreads, FreezeIsPolled, PressesCounted, One
  <2> QED BY <2>4, <2>5 DEF IInv
<1>3. CASE AllFrozen(t)
  BY <1>3, WaitForOthersInv DEF AllFrozen
<1>4. CASE AFreezeOtherThreads(t) /\ FreezeDepth = 0
  BY <1>1, <1>4 DEF AFreezeOtherThreads
<1>5. CASE FreezeRelock(t)
  BY <1>1, <1>5 DEF FreezeRelock
<1> QED BY <1>2, <1>3, <1>4, <1>5

LEMMA WakeInv ==
    ASSUME IInv, NEW t \in Thread, AWakeOtherThreads(t) \/ WakeUpBroadcast(t)
    PROVE  IInv'
<1> USE DEF keyVars
<1>a. /\ "broadcast" \in PC /\ "broadcast" \notin Freezable
      /\ "running" \in PC /\ "running" \notin Freezable
      /\ "frozen" \notin Freezable
  BY DEF PC, Executing, Freezable
<1>1. CASE AWakeOtherThreads(t) /\ FreezeDepth' = 0
  <2>1. /\ pc' \in [Thread -> PC]
        /\ NumFreezableThreads' = Cardinality(FreezableThreads')
        /\ ANumThreads' = Cardinality(ActiveThreads')
    BY <1>1, <1>a, GoCounts DEF AWakeOtherThreads, IInv, TypeOK, Counts, One
  <2>2. TypeOK' /\ Counts'
    <3>1. FreezeDepth' \in 0..MaxDepth
      BY <1>1
    <3>2. AIsInterrupt' \in BOOLEAN /\ AIsFreeze' \in BOOLEAN
      BY <1>1 DEF AWakeOtherThreads, IInv, TypeOK
    <3> QED BY <1>1, <2>1, <3>1, <3>2 DEF AWakeOtherThreads, IInv, TypeOK, Counts
  <2>3. OneFreezer' /\ OnlyExecuting' /\ FreezeIsPolled' /\ PressesCounted'
    BY <1>1 DEF AWakeOtherThreads, IInv, TypeOK, Go, OneFreezer, OnlyExecuting,
       ExecutingThreads, FreezeIsPolled, PressesCounted, Executing, One
  <2> QED BY <2>2, <2>3 DEF IInv
<1>2. CASE AWakeOtherThreads(t) /\ FreezeDepth' # 0
  <2>1. FreezeDepth' \in 0..MaxDepth /\ FreezeDepth' > 0 /\ FreezeDepth > 0
    BY <1>2 DEF AWakeOtherThreads, IInv, TypeOK, OneFreezer
  <2>2. TypeOK' /\ Counts'
    BY <1>2, <2>1 DEF AWakeOtherThreads, IInv, TypeOK, Counts, ActiveThreads,
       FreezableThreads
  <2>3. OneFreezer' /\ OnlyExecuting' /\ FreezeIsPolled' /\ PressesCounted'
    BY <1>2, <2>1 DEF AWakeOtherThreads, IInv, OneFreezer, OnlyExecuting,
       ExecutingThreads, FreezeIsPolled, PressesCounted, One
  <2> QED BY <2>2, <2>3 DEF IInv
<1>3. CASE WakeUpBroadcast(t)
  <2>1. /\ pc' \in [Thread -> PC]
        /\ NumFreezableThreads' = Cardinality(FreezableThreads')
        /\ ANumThreads' = Cardinality(ActiveThreads')
    BY <1>3, <1>a, GoCounts DEF WakeUpBroadcast, freezeVars, IInv, TypeOK,
       Counts, One
  <2>2. TypeOK' /\ Counts'
    BY <1>3, <2>1 DEF WakeUpBroadcast, freezeVars, IInv, TypeOK, Counts
  <2>3. OneFreezer' /\ OnlyExecuting' /\ FreezeIsPolled' /\ PressesCounted'
    BY <1>3 DEF WakeUpBroadcast, freezeVars, IInv, TypeOK, Go, OneFreezer,
       OnlyExecuting, ExecutingThreads, FreezeIsPolled, PressesCounted,
       Executing, One
  <2> QED BY <2>2, <2>3 DEF IInv
<1> QED BY <1>1, <1>2, <1>3

(* Polling and the keyboard interrupt. *)
LEMMA InterruptInv ==
    ASSUME IInv, NEW t \in Thread,
           AHandleInterrupt(t) \/ CheckKey(t) \/ RaiseInterrupt(t)
    PROVE  IInv'
<1> USE DEF keyVars, freezeVars
<1>a. /\ {"yielding", "running", "checkKey", "raising"} \subseteq PC
      /\ "yielding" \in Freezable /\ "running" \notin Freezable
      /\ "checkKey" \notin Freezable /\ "raising" \notin Freezable
      /\ AfterYield(t) \in {"running", "checkKey"}
      /\ AfterYield(t) = "checkKey" => t = MainThread
  BY DEF PC, Executing, Freezable, AfterYield
<1>1. CASE AHandleInterrupt(t) /\ AIsFreeze
  <2>1. /\ pc' \in [Thread -> PC]
        /\ NumFreezableThreads' = Cardinality(FreezableThreads')
        /\ ANumThreads' = Cardinality(ActiveThreads')
        /\ NumFreezableThreads' \in Nat
    BY <1>1, <1>a, GoCounts DEF AHandleInterrupt, IInv, TypeOK, Counts, One
  <2>2. TypeOK' /\ Counts'
    BY <1>1, <2>1 DEF AHandleInterrupt, IInv, TypeOK, Counts
  <2>3. OneFreezer' /\ OnlyExecuting' /\ FreezeIsPolled' /\ PressesCounted'
    BY <1>1 DEF AHandleInterrupt, IInv, TypeOK, Go, OneFreezer, OnlyExecuting,
       ExecutingThreads, FreezeIsPolled, PressesCounted, Executing, One
  <2> QED BY <2>2, <2>3 DEF IInv
<1>2. CASE AHandleInterrupt(t) /\ ~AIsFreeze
  <2>1. /\ pc' \in [Thread -> PC]
        /\ NumFreezableThreads' = Cardinality(FreezableThreads')
        /\ ANumThreads' = Cardinality(ActiveThreads')
    BY <1>2, <1>a, GoCounts DEF AHandleInterrupt, IInv, TypeOK, Counts, One
  <2>2. TypeOK' /\ Counts'
    BY <1>2, <2>1 DEF AHandleInterrupt, IInv, TypeOK, Counts
  <2>3. OneFreezer' /\ OnlyExecuting' /\ FreezeIsPolled' /\ PressesCounted'
    BY <1>2, <1>a DEF AHandleInterrupt, IInv, TypeOK, Go, OneFreezer,
       OnlyExecuting, ExecutingThreads, FreezeIsPolled, PressesCounted,
       Executing, One
  <2> QED BY <2>2, <2>3 DEF IInv
<1>3. CASE CheckKey(t)
  <2>0. PICK p \in {"raising", "running"} :
           Go(t, p) /\ (p = "raising" => AIsKeyboardInterrupt)
    BY <1>3 DEF CheckKey
  <2>1. /\ pc' \in [Thread -> PC]
        /\ NumFreezableThreads' = Cardinality(FreezableThreads')
        /\ ANumThreads' = Cardinality(ActiveThreads')
    BY <1>3, <1>a, <2>0, GoCounts DEF CheckKey, IInv, TypeOK, Counts, One
  <2>2. TypeOK' /\ Counts'
    BY <1>3, <2>1 DEF CheckKey, IInv, TypeOK, Counts
  <2>3. OneFreezer' /\ OnlyExecuting' /\ FreezeIsPolled' /\ PressesCounted'
    BY <1>3, <2>0 DEF CheckKey, IInv, TypeOK, Go, OneFreezer,
       OnlyExecuting, ExecutingThreads, FreezeIsPolled, PressesCounted,
       Executing, One
  <2> QED BY <2>2, <2>3 DEF IInv
<1>4. CASE RaiseInterrupt(t)
  <2>1. /\ pc' \in [Thread -> PC]
        /\ NumFreezableThreads' = Cardinality(FreezableThreads')
        /\ ANumThreads' = Cardinality(ActiveThreads')
    BY <1>4, <1>a, GoCounts DEF RaiseInterrupt, IInv, TypeOK, Counts, One
  <2>2. TypeOK' /\ Counts'
    <3>1. AIsKeyboardInterrupt' \in BOOLEAN
      BY <1>4, Zenon DEF RaiseInterrupt
    <3>2. raised' \in Nat
      BY <1>4 DEF RaiseInterrupt, IInv, TypeOK
    <3> QED BY <1>4, <2>1, <3>1, <3>2 DEF RaiseInterrupt, IInv, TypeOK, Counts
  <2>3. OneFreezer' /\ OnlyExecuting' /\ FreezeIsPolled'
    BY <1>4 DEF RaiseInterrupt, IInv, TypeOK, Go, OneFreezer,
       OnlyExecuting, ExecutingThreads, FreezeIsPolled, Executing
  <2>4. PressesCounted'
    <3>1. t = MainThread /\ AIsKeyboardInterrupt
      BY <1>4 DEF RaiseInterrupt, IInv, PressesCounted
    <3> QED BY <1>4, <3>1 DEF RaiseInterrupt, IInv, TypeOK, Go, PressesCounted, One
  <2> QED BY <2>2, <2>3, <2>4 DEF IInv
<1> QED BY <1>1, <1>2, <1>3, <1>4

LEMMA HandlerInv ==
    ASSUME IInv, KeyboardInterrupt \/ KeyboardInterruptEnd
    PROVE  IInv'
<1> USE DEF freezeVars
<1>1. CASE KeyboardInterrupt
  <2>1. presses' \in 0..MaxPresses
    BY <1>1 DEF KeyboardInterrupt, IInv, TypeOK
  <2>2. TypeOK' /\ Counts'
    BY <1>1, <2>1 DEF KeyboardInterrupt, IInv, TypeOK, Counts, ActiveThreads,
       FreezableThreads
  <2>3. OneFreezer' /\ OnlyExecuting' /\ FreezeIsPolled'
    BY <1>1 DEF KeyboardInterrupt, IInv, OneFreezer, OnlyExecuting,
       ExecutingThreads, FreezeIsPolled
  <2>4. PressesCounted'
    BY <1>1 DEF KeyboardInterrupt, IInv, TypeOK, PressesCounted, One
  <2> QED BY <2>2, <2>3, <2>4 DEF IInv
<1>2. CASE KeyboardInterruptEnd
  <2>2. TypeOK' /\ Counts'
    BY <1>2 DEF KeyboardInterruptEnd, IInv, TypeOK, Counts, ActiveThreads,
       FreezableThreads
  <2>3. OneFreezer' /\ OnlyExecuting' /\ FreezeIsPolled'
    BY <1>2 DEF KeyboardInterruptEnd, IInv, OneFreezer, OnlyExecuting,
       ExecutingThreads, FreezeIsPolled
  <2>4. PressesCounted'
    BY <1>2 DEF KeyboardInterruptEnd, IInv, TypeOK, PressesCounted, One
  <2> QED BY <2>2, <2>3, <2>4 DEF IInv
<1> QED BY <1>1, <1>2

(* Steps that change nothing the invariant speaks of. *)
LEMMA QuietInv ==
    ASSUME IInv, UNCHANGED <<pc, freezeVars, AIsInterrupt, keyVars>>,
           asleep' \subseteq asleep
    PROVE  IInv'
<1>1. TypeOK' /\ Counts'
  BY DEF IInv, TypeOK, Counts, ActiveThreads, FreezableThreads, freezeVars, keyVars
<1>2. OneFreezer' /\ OnlyExecuting' /\ FreezeIsPolled' /\ PressesCounted'
  BY DEF IInv, OneFreezer, OnlyExecuting, ExecutingThreads, FreezeIsPolled,
     PressesCounted, freezeVars, keyVars, One
<1> QED BY <1>1, <1>2 DEF IInv

LEMMA NextInv == IInv /\ [Next]_vars => IInv'
<1> SUFFICES ASSUME IInv, [Next]_vars PROVE IInv'
  OBVIOUS
<1>1. ASSUME NEW t \in Thread, AAllowBlocking(t) PROVE IInv'
  BY <1>1, AllowInv DEF AAllowBlocking
<1>2. ASSUME NEW t \in Thread, FreezeBusy(t) PROVE IInv'
  <2>1. CASE AllowFreezeNoLock(t, "busy", "busyBlocking")
    BY <2>1, AllowInv
  <2>2. CASE DisallowFreezeNoLock(t, "busyBlocking", "busyEnd", "relock")
    BY <2>2, DisallowInv DEF Freezable, WakeUpWait
  <2>3. CASE DisallowFreezeNoLock(t, "busyEnd", "busyEnd", "relock")
    BY <2>3, DisallowInv DEF Freezable, WakeUpWait
  <2> QED BY <1>2, <2>1, <2>2, <2>3 DEF FreezeBusy
<1>3. ASSUME NEW t \in Thread, AEndBlocking(t) PROVE IInv'
  <2>1. CASE DisallowFreezeNoLock(t, "blocking", "endBlocking", "running")
    BY <2>1, DisallowInv DEF Freezable, WakeUpWait
  <2>2. CASE DisallowFreezeNoLock(t, "endBlocking", "endBlocking", "running")
    BY <2>2, DisallowInv DEF Freezable, WakeUpWait
  <2> QED BY <1>3, <2>1, <2>2 DEF AEndBlocking
<1>4. ASSUME NEW t \in Thread, ThreadStarted(t) PROVE IInv'
  BY <1>4, DisallowInv DEF ThreadStarted, Freezable, WakeUpWait
<1>5. ASSUME NEW t \in Thread, AHandleInterruptEnd(t) PROVE IInv'
  <2>1. AfterYield(t) \in {"running", "checkKey"}
        /\ (AfterYield(t) = "checkKey" => t = MainThread)
    BY DEF AfterYield
  <2> QED BY <1>5, <2>1, DisallowInv DEF AHandleInterruptEnd, Freezable, WakeUpWait
<1>6. ASSUME NEW t \in Thread, SpuriousWakeUp(t) PROVE IInv'
  <2>1. UNCHANGED <<pc, freezeVars, AIsInterrupt, keyVars>> /\ asleep' \subseteq asleep
    BY <1>6 DEF SpuriousWakeUp
  <2> QED BY <2>1, QuietInv
<1>7. CASE UNCHANGED vars
  BY <1>7, QuietInv DEF vars
<1> QED
  BY <1>1, <1>2, <1>3, <1>4, <1>5, <1>6, <1>7, ThreadInv, FreezeInv, WakeInv,
     InterruptInv, HandlerInv
     DEF Next, Continue

-----------------------------------------------------------------------------
(* The invariant holds of every behaviour. *)
THEOREM Invariance == Spec => []IInv
<1> QED BY InitInv, NextInv, PTL DEF Spec

(* Type correctness of the protocol's state. *)
THEOREM TypeCorrect == Spec => []TypeOK
<1>1. IInv => TypeOK
  BY DEF IInv
<1> QED BY <1>1, Invariance, PTL

(* AFreezeOtherThreads returns, and AWakeOtherThreads is reached, with the
   calling thread the only one that executes. *)
THEOREM Exclusion == Spec => []OnlyExecuting
<1>1. IInv => OnlyExecuting
  BY DEF IInv
<1> QED BY <1>1, Invariance, PTL

(* A freeze is always visible to the threads that poll AIsInterrupt. *)
THEOREM Polled == Spec => []FreezeIsPolled
<1>1. IInv => FreezeIsPolled
  BY DEF IInv
<1> QED BY <1>1, Invariance, PTL

(* No press of Ctrl+C is raised twice. *)
THEOREM RaisedOnce == Spec => []RaisedOncePerPress
<1>1. IInv => RaisedOncePerPress
  <2> SUFFICES ASSUME IInv PROVE raised <= presses
    BY DEF RaisedOncePerPress
  <2>1. /\ raised \in Nat /\ presses \in Nat
        /\ One(AIsKeyboardInterrupt) \in Nat /\ One(handler = "half") \in Nat
    BY DEF IInv, TypeOK, One
  <2> QED BY <2>1 DEF IInv, PressesCounted
<1> QED BY <1>1, Invariance, PTL

-----------------------------------------------------------------------------
(* During a freeze a step lets no further thread execute. *)
LEMMA Converges ==
    ASSUME IInv, Next, AIsFreeze, AIsFreeze'
    PROVE  ExecutingThreads' \subseteq ExecutingThreads
<1>a. pc \in [Thread -> PC]
  BY DEF IInv, TypeOK
<1>1. SUFFICES ASSUME NEW t \in Thread, NEW p, Go(t, p),
                      pc[t] \in Executing \/ p \notin Executing
               PROVE  ExecutingThreads' \subseteq ExecutingThreads
  <2>1. UNCHANGED pc => ExecutingThreads' = ExecutingThreads
    BY DEF ExecutingThreads
  <2>2. ASSUME NEW t \in Thread, NEW from, NEW waiting, NEW to,
               waiting \notin Executing,
               DisallowFreezeNoLock(t, from, waiting, to)
        PROVE  ExecutingThreads' \subseteq ExecutingThreads
    BY <1>1, <2>2 DEF DisallowFreezeNoLock
  <2>3. ASSUME NEW t \in Thread, AAllowBlocking(t) \/ FreezeBusy(t) \/ AEndBlocking(t)
                    \/ ThreadStarted(t) \/ AHandleInterruptEnd(t)
        PROVE  ExecutingThreads' \subseteq ExecutingThreads
    <3>1. /\ "endBlocking" \notin Executing /\ "busyEnd" \notin Executing
          /\ "starting" \notin Executing /\ "yielding" \notin Executing
          /\ "blocking" \notin Executing /\ "busyBlocking" \notin Executing
      BY DEF Executing
    <3>2. ASSUME NEW from, NEW to, to \notin Executing, AllowFreezeNoLock(t, from, to)
          PROVE  ExecutingThreads' \subseteq ExecutingThreads
      BY <1>1, <3>2 DEF AllowFreezeNoLock
    <3> QED BY <2>2, <2>3, <3>1, <3>2 DEF AAllowBlocking, FreezeBusy, AEndBlocking,
               ThreadStarted, AHandleInterruptEnd
  <2>4. ASSUME NEW t \in Thread, \/ ThreadStart(t) \/ ThreadBackOff(t)
                               \/ ThreadEnd(t) \/ ThreadAgain(t)
        PROVE  ExecutingThreads' \subseteq ExecutingThreads
    BY <1>1, <2>4 DEF ThreadStart, ThreadBackOff, ThreadEnd, ThreadAgain, Executing
  <2>5. ASSUME NEW t \in Thread, AFreezeOtherThreads(t) \/ FreezeRelock(t) \/ AllFrozen(t)
        PROVE  ExecutingThreads' \subseteq ExecutingThreads
    <3>1. pc[t] \in Executing
      BY <2>5 DEF AFreezeOtherThreads, FreezeRelock, AllFrozen, Executing
    <3>2. \E p : Go(t, p)
      BY <2>5 DEF AFreezeOtherThreads, FreezeRelock, AllFrozen, PerformFreeze,
         WaitForOthers
    <3> QED BY <1>1, <3>1, <3>2
  <2>6. ASSUME NEW t \in Thread, AWakeOtherThreads(t) \/ WakeUpBroadcast(t)
        PROVE  ExecutingThreads' \subseteq ExecutingThreads
    <3>1. pc[t] \in Executing
      BY <2>6 DEF AWakeOtherThreads, WakeUpBroadcast, Executing
    <3> QED BY <1>1, <2>1, <2>6, <3>1 DEF AWakeOtherThreads, WakeUpBroadcast
  <2>7. ASSUME NEW t \in Thread, AHandleInterrupt(t) \/ CheckKey(t) \/ RaiseInterrupt(t)
        PROVE  ExecutingThreads' \subseteq ExecutingThreads
    <3>1. pc[t] \in Executing
      BY <2>7 DEF AHandleInterrupt, CheckKey, RaiseInterrupt, Executing
    <3> QED BY <1>1, <2>7, <3>1 DEF AHandleInterrupt, CheckKey, RaiseInterrupt
  <2>8. ASSUME NEW t \in Thread, SpuriousWakeUp(t)
        PROVE  ExecutingThreads' \subseteq ExecutingThreads
    BY <2>1, <2>8 DEF SpuriousWakeUp
  <2>9. CASE KeyboardInterrupt \/ KeyboardInterruptEnd
    BY <2>1, <2>9 DEF KeyboardInterrupt, KeyboardInterruptEnd
  <2> QED BY <2>3, <2>4, <2>5, <2>6, <2>7, <2>8, <2>9 DEF Next, Continue
<1> QED BY <1>a, <1>1 DEF Go, ExecutingThreads

(* From the request of a freeze to its end the threads that execute only
   become fewer. *)
THEOREM Convergence == Spec => FreezeConverges
<1>1. IInv /\ [Next]_vars =>
        [AIsFreeze /\ AIsFreeze' => ExecutingThreads' \subseteq ExecutingThreads]_vars
  BY Converges
<1> QED BY <1>1, Invariance, PTL DEF Spec, FreezeConverges

-----------------------------------------------------------------------------
(* Freeze implements StopTheWorld. *)

(* The owner of the world is the thread whose freeze is complete. *)
LEMMA OwnerIs ==
    ASSUME OneFreezer
    PROVE  /\ \A t \in Thread : pc[t] = "frozen" => worldOwner = t
           /\ (\A t \in Thread : pc[t] # "frozen") => worldOwner = NoThread
BY DEF OneFreezer, worldOwner

(* A move of one thread is an abstract step, provided that nobody starts to
   execute during a freeze and the freezer leaves only by waking the others. *)
LEMMA MoveRefines ==
    ASSUME IInv, IInv', NEW t \in Thread, NEW p \in PC, Go(t, p),
           AIsFreeze => (pc[t] \in Executing \/ p \notin Executing),
           pc[t] = "frozen" => p \in {"frozen", "broadcast"},
           p = "frozen" => pc[t] \in Executing
    PROVE  [World!Next]_(World!vars)
<1>a. pc \in [Thread -> PC] /\ pc' = [pc EXCEPT ![t] = p] /\ pc[t] \in PC
  BY DEF IInv, TypeOK, Go
<1>b. /\ worldMode \in [Thread -> {"out", "run", "stopped"}]
      /\ worldMode' = [worldMode EXCEPT ![t] = ModeOf(p)]
      /\ worldMode[t] = ModeOf(pc[t])
  BY <1>a DEF worldMode, ModeOf
<1>c. /\ \A q \in PC : ModeOf(q) = "run" <=> q \in Executing
      /\ \A q \in PC : ModeOf(q) \in {"out", "run", "stopped"}
  BY DEF ModeOf, PC, Executing, Freezable
<1>d. /\ \A u \in Thread : pc[u] = "frozen" => worldOwner = u
      /\ (\A u \in Thread : pc[u] # "frozen") => worldOwner = NoThread
  BY OwnerIs DEF IInv
<1>e. /\ \A u \in Thread : pc'[u] = "frozen" => worldOwner' = u
      /\ (\A u \in Thread : pc'[u] # "frozen") => worldOwner' = NoThread
  <2>1. OneFreezer'
    BY DEF IInv
  <2> QED BY <2>1 DEF OneFreezer, worldOwner
<1>1. CASE pc[t] # "frozen" /\ p = "frozen"
  <2>1. ExecutingThreads' = {t} /\ worldOwner' = t
    BY <1>1, <1>a, <1>e DEF IInv, OnlyExecuting
  <2>2. ~AIsFreeze \/ pc[t] = "allFrozen"
    <3> SUFFICES ASSUME AIsFreeze PROVE pc[t] = "allFrozen"
      OBVIOUS
    <3>1. PICK u \in Thread : pc[u] \in {"allFrozen", "frozen"}
      BY DEF IInv, OneFreezer
    <3>2. u = t
      <4> SUFFICES ASSUME u # t PROVE FALSE
        OBVIOUS
      <4>1. pc'[u] \in {"allFrozen", "frozen"} /\ pc'[t] = "frozen"
        BY <1>a, <1>1, <3>1
      <4> QED BY <4>1 DEF IInv, OneFreezer
    <3> QED BY <1>1, <3>1, <3>2
  <2>3. \A u \in Thread : pc[u] # "frozen"
    BY <1>1, <2>2 DEF IInv, OneFreezer
  <2>4. worldOwner = NoThread
    BY <1>d, <2>3
  <2>5. worldMode' = worldMode
    <3>1. ModeOf(pc[t]) = "run" /\ ModeOf("frozen") = "run"
      BY <1>1, <1>a, <1>c DEF Executing
    <3> QED BY <1>1, <1>b, <3>1
  <2>6. World!Running = {t}
    <3>1. World!Running = {u \in Thread : worldMode[u] = "run"}
      BY DEF World!Running
    <3>2. \A u \in Thread : worldMode[u] = "run" <=> pc[u] \in Executing
      BY <1>a, <1>c DEF worldMode
    <3>3. ExecutingThreads = ExecutingThreads'
      BY <1>a, <1>1 DEF ExecutingThreads, Executing
    <3> QED BY <2>1, <3>1, <3>2, <3>3 DEF ExecutingThreads
  <2>7. World!Acquire(t)
    BY <2>1, <2>4, <2>5, <2>6 DEF World!Acquire
  <2> QED BY <2>7 DEF World!Next
<1>2. CASE pc[t] = "frozen" /\ p # "frozen"
  <2>1. worldOwner = t /\ worldOwner' = NoThread
    <3>1. \A u \in Thread : pc'[u] # "frozen"
      BY <1>2, <1>a DEF IInv, OneFreezer
    <3> QED BY <1>2, <1>d, <1>e, <3>1
  <2>2. worldMode' = worldMode
    BY <1>2, <1>b DEF ModeOf, Freezable
  <2>3. World!Release(t)
    BY <2>1, <2>2 DEF World!Release
  <2> QED BY <2>3 DEF World!Next
<1>3. CASE pc[t] = p \/ (pc[t] # "frozen" /\ p # "frozen")
  <2>1. worldOwner' = worldOwner
    <3>1. CASE \E u \in Thread : pc[u] = "frozen"
      <4>1. PICK u \in Thread : pc[u] = "frozen"
        BY <3>1
      <4>2. pc'[u] = "frozen"
        BY <1>3, <1>a, <4>1
      <4> QED BY <1>d, <1>e, <4>1, <4>2
    <3>2. CASE \A u \in Thread : pc[u] # "frozen"
      BY <1>3, <1>a, <1>d, <1>e, <3>2
    <3> QED BY <3>1, <3>2
  <2>2. CASE ModeOf(p) = ModeOf(pc[t])
    <3>1. worldMode' = worldMode
      BY <1>b, <2>2
    <3> QED BY <2>1, <3>1 DEF World!vars
  <2>3. CASE ModeOf(p) # ModeOf(pc[t]) /\ ModeOf(pc[t]) = "run"
    <3>1. pc[t] # "frozen" /\ worldOwner # t
      <4>1. pc[t] # "frozen"
        BY <1>3, <2>3
      <4> QED BY <1>d, <4>1
    <3>2. World!Stop(t)
      BY <1>b, <1>c, <2>1, <2>3, <3>1 DEF World!Stop
    <3> QED BY <3>2 DEF World!Next
  <2>4. CASE ModeOf(pc[t]) # "run" /\ ModeOf(p) # "run"
    <3>1. World!Move(t)
      BY <1>b, <1>c, <2>1, <2>4 DEF World!Move
    <3> QED BY <3>1 DEF World!Next
  <2>5. CASE ModeOf(pc[t]) # "run" /\ ModeOf(p) = "run"
    <3>1. ~AIsFreeze
      BY <1>a, <1>c, <2>5
    <3>2. worldOwner = NoThread
      BY <1>d, <3>1 DEF IInv, OneFreezer
    <3>3. World!Run(t)
      BY <1>b, <2>1, <2>5, <3>2 DEF World!Run
    <3> QED BY <3>3 DEF World!Next
  <2> QED BY <2>2, <2>3, <2>4, <2>5
<1> QED BY <1>1, <1>2, <1>3

LEMMA StepRefines == IInv /\ IInv' /\ [Next]_vars => [World!Next]_(World!vars)
<1> SUFFICES ASSUME IInv, IInv', [Next]_vars PROVE [World!Next]_(World!vars)
  OBVIOUS
<1>0. UNCHANGED pc => [World!Next]_(World!vars)
  BY DEF World!vars, worldMode, worldOwner
<1>1. ASSUME NEW t \in Thread, NEW from \in {"running", "busy"},
             NEW to \in {"blocking", "busyBlocking"},
             AllowFreezeNoLock(t, from, to)
      PROVE  [World!Next]_(World!vars)
  <2>1. Go(t, to) /\ pc[t] # "frozen" /\ pc[t] \in Executing
        /\ to \in PC /\ to # "frozen"
    BY <1>1 DEF AllowFreezeNoLock, PC, Freezable, Executing
  <2> QED BY <2>1, MoveRefines
<1>2. ASSUME NEW t \in Thread, NEW from \in Freezable, NEW waiting \in WakeUpWait,
             NEW to \in {"running", "relock", "checkKey"},
             DisallowFreezeNoLock(t, from, waiting, to)
      PROVE  [World!Next]_(World!vars)
  <2>1. PICK p \in {waiting, to} : Go(t, p) /\ (AIsFreeze => p = waiting)
    BY <1>2 DEF DisallowFreezeNoLock
  <2>2. p \in PC /\ p # "frozen" /\ pc[t] # "frozen"
    BY <1>2, <2>1 DEF DisallowFreezeNoLock, PC, Freezable, WakeUpWait, Executing
  <2>3. waiting \notin Executing
    BY DEF WakeUpWait, Executing
  <2> QED BY <2>1, <2>2, <2>3, MoveRefines
<1>3. ASSUME NEW t \in Thread, \/ ThreadStart(t) \/ ThreadBackOff(t)
                               \/ ThreadEnd(t) \/ ThreadAgain(t)
      PROVE  [World!Next]_(World!vars)
  <2>1. PICK p \in {"idle", "starting", "running"} :
           Go(t, p) /\ (AIsFreeze => p # "running")
    BY <1>3 DEF ThreadStart, ThreadBackOff, ThreadEnd, ThreadAgain
  <2>2. p \in PC /\ p # "frozen" /\ pc[t] # "frozen"
        /\ (p # "running" => p \notin Executing)
    BY <1>3, <2>1 DEF ThreadStart, ThreadBackOff, ThreadEnd, ThreadAgain,
       PC, Freezable, Executing
  <2> QED BY <2>1, <2>2, MoveRefines
<1>4. ASSUME NEW t \in Thread, AFreezeOtherThreads(t) \/ FreezeRelock(t) \/ AllFrozen(t)
      PROVE  [World!Next]_(World!vars)
  <2>1. PICK p \in {"busy", "allFrozen", "frozen"} : Go(t, p)
    BY <1>4 DEF AFreezeOtherThreads, FreezeRelock, AllFrozen, PerformFreeze,
       WaitForOthers
  <2>2. pc[t] \in Executing /\ p \in PC
    BY <1>4 DEF AFreezeOtherThreads, FreezeRelock, AllFrozen, PC, Executing
  <2>3. pc[t] = "frozen" => p = "frozen"
    <3> SUFFICES ASSUME pc[t] = "frozen" PROVE Go(t, "frozen") /\ p = "frozen"
      OBVIOUS
    <3>1. FreezeDepth # 0 /\ AFreezeOtherThreads(t)
      BY <1>4 DEF IInv, TypeOK, OneFreezer, FreezeRelock, AllFrozen
    <3>2. Go(t, "frozen")
      BY <3>1 DEF AFreezeOtherThreads
    <3> QED BY <2>1, <3>2 DEF Go, IInv, TypeOK
  <2> QED BY <2>1, <2>2, <2>3, MoveRefines
<1>5. ASSUME NEW t \in Thread, AWakeOtherThreads(t) \/ WakeUpBroadcast(t)
      PROVE  [World!Next]_(World!vars)
  <2>1. CASE AWakeOtherThreads(t)
    <3>1. UNCHANGED pc \/ Go(t, "broadcast")
      BY <2>1 DEF AWakeOtherThreads
    <3>2. "broadcast" \in PC /\ pc[t] \in Executing
      BY <2>1 DEF AWakeOtherThreads, PC, Executing
    <3> QED BY <1>0, <3>1, <3>2, MoveRefines
  <2>2. CASE WakeUpBroadcast(t)
    <3>1. "running" \in PC /\ pc[t] \in Executing
      BY <2>2 DEF WakeUpBroadcast, PC, Executing
    <3> QED BY <2>2, <3>1, MoveRefines DEF WakeUpBroadcast
  <2> QED BY <1>5, <2>1, <2>2
<1>6. ASSUME NEW t \in Thread, AHandleInterrupt(t) \/ CheckKey(t) \/ RaiseInterrupt(t)
      PROVE  [World!Next]_(World!vars)
  <2>1. PICK p \in {"yielding", "running", "checkKey", "raising"} : Go(t, p)
    BY <1>6 DEF AHandleInterrupt, CheckKey, RaiseInterrupt, AfterYield
  <2>2. pc[t] \in Executing /\ pc[t] # "frozen" /\ p \in PC /\ p # "frozen"
    BY <1>6 DEF AHandleInterrupt, CheckKey, RaiseInterrupt, PC, Executing, Freezable
  <2> QED BY <2>1, <2>2, MoveRefines
<1>7. ASSUME NEW t \in Thread, AEndBlocking(t) \/ ThreadStarted(t) \/ AHandleInterruptEnd(t)
      PROVE  [World!Next]_(World!vars)
  <2>1. AfterYield(t) \in {"running", "relock", "checkKey"}
    BY DEF AfterYield
  <2> QED BY <1>2, <1>7, <2>1 DEF AEndBlocking, ThreadStarted, AHandleInterruptEnd,
             Freezable, WakeUpWait
<1>8. ASSUME NEW t \in Thread, AAllowBlocking(t) \/ FreezeBusy(t)
      PROVE  [World!Next]_(World!vars)
  BY <1>1, <1>2, <1>8 DEF AAllowBlocking, FreezeBusy, Freezable, WakeUpWait
<1>9. CASE \/ \E t \in Thread : SpuriousWakeUp(t)
           \/ KeyboardInterrupt \/ KeyboardInterruptEnd
           \/ UNCHANGED vars
  BY <1>0, <1>9 DEF SpuriousWakeUp, KeyboardInterrupt, KeyboardInterruptEnd, vars
<1> QED BY <1>3, <1>4, <1>5, <1>6, <1>7, <1>8, <1>9 DEF Next, Continue

(* The freeze protocol is a correct implementation of a stopped world: one
   owner at a time, and nobody but the owner runs. *)
THEOREM Refinement == Spec => ImplementsStopTheWorld
<1>1. Init => World!Init
  <2> SUFFICES ASSUME Init PROVE World!Init
    OBVIOUS
  <2>1. worldMode = [u \in Thread |-> IF u = MainThread THEN "run" ELSE "out"]
    BY DEF Init, worldMode, ModeOf, Freezable
  <2>2. worldOwner = NoThread
    BY DEF Init, worldOwner
  <2> QED BY <2>1, <2>2 DEF World!Init
<1> QED BY <1>1, StepRefines, Invariance, PTL DEF Spec, ImplementsStopTheWorld, World!Spec
=============================================================================
