-------------------------- MODULE ThreadPoolProofs --------------------------
(***************************************************************************)
(* Proofs about ThreadPool, for any finite number of threads and any size  *)
(* of AThreadArgBuffer: lemmas about the circular buffer and the numbers   *)
(* of threads at a place, each step of AThreadCreate and BeginNewThread,   *)
(* and the theorems.                                                       *)
(***************************************************************************)
EXTENDS ThreadPool, FreezeProofs

USE ThreadAssumption, PoolAssumption

-----------------------------------------------------------------------------
(* The circular buffer. *)

LEMMA NextIndIs ==
    ASSUME NEW x \in 0..ArgBufSize - 1
    PROVE  NextInd(x) = IF x + 1 = ArgBufSize THEN 0 ELSE x + 1
<1>1. CASE x + 1 = ArgBufSize
  <2>1. (x + 1) % ArgBufSize = 0
    BY <1>1, Z3
  <2> QED BY <1>1, <2>1 DEF NextInd
<1>2. CASE x + 1 # ArgBufSize
  <2>1. (x + 1) % ArgBufSize = x + 1
    BY <1>2, Z3
  <2> QED BY <1>2, <2>1 DEF NextInd
<1> QED BY <1>1, <1>2

(* The number of slots in use, and which they are. *)
LEMMA Distance ==
    ASSUME NEW f \in 0..ArgBufSize - 1, NEW l \in 0..ArgBufSize - 1
    PROVE  (l - f) % ArgBufSize = IF f <= l THEN l - f ELSE l - f + ArgBufSize
<1>1. CASE f <= l
  BY <1>1, Z3
<1>2. CASE ~ (f <= l)
  BY <1>2, Z3
<1> QED BY <1>1, <1>2

LEMMA Segment ==
    ASSUME NEW f \in 0..ArgBufSize - 1, NEW l \in 0..ArgBufSize - 1,
           NEW i \in 0..ArgBufSize - 1
    PROVE  i \in {(f + k) % ArgBufSize : k \in 0..((l - f) % ArgBufSize) - 1}
             <=> IF f <= l THEN f <= i /\ i < l ELSE f <= i \/ i < l
<1> DEFINE d == (l - f) % ArgBufSize
<1>1. d = IF f <= l THEN l - f ELSE l - f + ArgBufSize
  BY Distance
<1>2. d \in 0..ArgBufSize - 1
  BY <1>1
<1> HIDE DEF d
<1>3. ASSUME NEW k \in 0..d - 1
      PROVE  (f + k) % ArgBufSize = IF f + k < ArgBufSize THEN f + k ELSE f + k - ArgBufSize
  <2>1. CASE f + k < ArgBufSize
    BY <1>2, <2>1, Z3
  <2>2. CASE ~ (f + k < ArgBufSize)
    BY <1>2, <2>2, Z3
  <2> QED BY <2>1, <2>2
<1>4. ASSUME NEW k \in 0..d - 1, i = (f + k) % ArgBufSize
      PROVE  IF f <= l THEN f <= i /\ i < l ELSE f <= i \/ i < l
  BY <1>1, <1>3, <1>4
<1>5. ASSUME IF f <= l THEN f <= i /\ i < l ELSE f <= i \/ i < l
      PROVE  \E k \in 0..d - 1 : i = (f + k) % ArgBufSize
  <2>1. CASE f <= i
    <3>1. i - f \in 0..d - 1
      BY <1>1, <1>5, <2>1
    <3>2. i = (f + (i - f)) % ArgBufSize
      BY <1>3, <3>1
    <3> QED BY <3>1, <3>2
  <2>2. CASE ~ (f <= i)
    <3>1. i - f + ArgBufSize \in 0..d - 1
      BY <1>1, <1>5, <2>2
    <3>2. i = (f + (i - f + ArgBufSize)) % ArgBufSize
      BY <1>3, <3>1
    <3> QED BY <3>1, <3>2
  <2> QED BY <2>1, <2>2
<1> QED BY <1>4, <1>5 DEF d

LEMMA SegmentIn ==
    ASSUME NEW f \in 0..ArgBufSize - 1, NEW l \in 0..ArgBufSize - 1
    PROVE  {(f + k) % ArgBufSize : k \in 0..((l - f) % ArgBufSize) - 1}
             \subseteq 0..ArgBufSize - 1
<1>1. (l - f) % ArgBufSize \in 0..ArgBufSize - 1
  BY Distance
<1>2. ASSUME NEW k \in 0..((l - f) % ArgBufSize) - 1
      PROVE  (f + k) % ArgBufSize \in 0..ArgBufSize - 1
  <2>1. f + k \in Int
    BY <1>1
  <2> QED BY <2>1, Z3
<1> QED BY <1>2

(* A slot is filled. *)
LEMMA StoreSlot ==
    ASSUME ArgBufFirst \in 0..ArgBufSize - 1, ArgBufLast \in 0..ArgBufSize - 1,
           ~ArgBufFull, ArgBufLast' = NextInd(ArgBufLast), UNCHANGED ArgBufFirst
    PROVE  /\ ArgBufLast' \in 0..ArgBufSize - 1
           /\ Pending' = Pending + 1
           /\ ArgBufLast \notin InUse
           /\ InUse' = InUse \cup {ArgBufLast}
<1>1. ArgBufLast' = IF ArgBufLast + 1 = ArgBufSize THEN 0 ELSE ArgBufLast + 1
  BY NextIndIs
<1>2. ArgBufLast' \in 0..ArgBufSize - 1 /\ ArgBufLast' # ArgBufFirst
  BY <1>1 DEF ArgBufFull
<1>3. Pending' = Pending + 1
  <2>1. Pending = IF ArgBufFirst <= ArgBufLast THEN ArgBufLast - ArgBufFirst
                    ELSE ArgBufLast - ArgBufFirst + ArgBufSize
    BY Distance DEF Pending
  <2>2. Pending' = IF ArgBufFirst <= ArgBufLast' THEN ArgBufLast' - ArgBufFirst
                     ELSE ArgBufLast' - ArgBufFirst + ArgBufSize
    BY <1>2, Distance DEF Pending
  <2> QED BY <1>1, <1>2, <2>1, <2>2
<1>4. /\ InUse \subseteq 0..ArgBufSize - 1
      /\ InUse' \subseteq 0..ArgBufSize - 1
  BY <1>2, SegmentIn DEF InUse, Pending
<1>a. InUse' = {(ArgBufFirst + k) % ArgBufSize :
                  k \in 0..((ArgBufLast' - ArgBufFirst) % ArgBufSize) - 1}
  BY DEF InUse, Pending
<1>5. ASSUME NEW i \in 0..ArgBufSize - 1
      PROVE  /\ i \in InUse <=> IF ArgBufFirst <= ArgBufLast
                                 THEN ArgBufFirst <= i /\ i < ArgBufLast
                                 ELSE ArgBufFirst <= i \/ i < ArgBufLast
             /\ i \in InUse' <=> IF ArgBufFirst <= ArgBufLast'
                                  THEN ArgBufFirst <= i /\ i < ArgBufLast'
                                  ELSE ArgBufFirst <= i \/ i < ArgBufLast'
  <2>1. i \in InUse <=> IF ArgBufFirst <= ArgBufLast
                           THEN ArgBufFirst <= i /\ i < ArgBufLast
                           ELSE ArgBufFirst <= i \/ i < ArgBufLast
    BY Zenon, Segment DEF InUse, Pending
  <2>2. i \in InUse' <=> IF ArgBufFirst <= ArgBufLast'
                            THEN ArgBufFirst <= i /\ i < ArgBufLast'
                            ELSE ArgBufFirst <= i \/ i < ArgBufLast'
    BY Zenon, <1>2, <1>a, Segment
  <2> QED BY <2>1, <2>2
<1>6. ArgBufLast \notin InUse
  BY <1>5
<1>7. ASSUME NEW i \in 0..ArgBufSize - 1
      PROVE  i \in InUse' <=> i \in InUse \/ i = ArgBufLast
  BY <1>1, <1>2, <1>5
<1> QED BY Zenon, <1>2, <1>3, <1>4, <1>6, <1>7

(* A slot is emptied. *)
LEMMA TakeSlot ==
    ASSUME ArgBufFirst \in 0..ArgBufSize - 1, ArgBufLast \in 0..ArgBufSize - 1,
           ~ArgBufEmpty, ArgBufFirst' = NextInd(ArgBufFirst), UNCHANGED ArgBufLast
    PROVE  /\ ArgBufFirst' \in 0..ArgBufSize - 1
           /\ Pending' = Pending - 1
           /\ ArgBufFirst \in InUse
           /\ InUse' = InUse \ {ArgBufFirst}
<1>1. ArgBufFirst' = IF ArgBufFirst + 1 = ArgBufSize THEN 0 ELSE ArgBufFirst + 1
  BY NextIndIs
<1>2. ArgBufFirst' \in 0..ArgBufSize - 1 /\ ArgBufLast # ArgBufFirst
  BY <1>1 DEF ArgBufEmpty
<1>3. Pending' = Pending - 1
  <2>1. Pending = IF ArgBufFirst <= ArgBufLast THEN ArgBufLast - ArgBufFirst
                    ELSE ArgBufLast - ArgBufFirst + ArgBufSize
    BY Distance DEF Pending
  <2>2. Pending' = IF ArgBufFirst' <= ArgBufLast THEN ArgBufLast - ArgBufFirst'
                     ELSE ArgBufLast - ArgBufFirst' + ArgBufSize
    BY <1>2, Distance DEF Pending
  <2> QED BY <1>1, <1>2, <2>1, <2>2
<1>4. /\ InUse \subseteq 0..ArgBufSize - 1
      /\ InUse' \subseteq 0..ArgBufSize - 1
  BY <1>2, SegmentIn DEF InUse, Pending
<1>5. ASSUME NEW i \in 0..ArgBufSize - 1
      PROVE  /\ i \in InUse <=> IF ArgBufFirst <= ArgBufLast
                                 THEN ArgBufFirst <= i /\ i < ArgBufLast
                                 ELSE ArgBufFirst <= i \/ i < ArgBufLast
             /\ i \in InUse' <=> IF ArgBufFirst' <= ArgBufLast
                                  THEN ArgBufFirst' <= i /\ i < ArgBufLast
                                  ELSE ArgBufFirst' <= i \/ i < ArgBufLast
  BY Zenon, <1>2, Segment DEF InUse, Pending
<1>6. ArgBufFirst \in InUse
  BY <1>2, <1>5
<1>7. ASSUME NEW i \in 0..ArgBufSize - 1
      PROVE  i \in InUse' <=> i \in InUse /\ i # ArgBufFirst
  BY <1>1, <1>2, <1>5
<1> QED BY Zenon, <1>2, <1>3, <1>4, <1>6, <1>7

(* AThreadCreate puts an object into the buffer that is in no other place. *)
LEMMA StoreBuffer ==
    ASSUME PoolTypeOK, BufferIsSound, NEW t, NEW j, NEW isWaiting,
           ~ArgBufFull, StoreArgs(t, j, isWaiting),
           created' \in Nat, created <= created', j \in (1..created') \ started,
           j \in Job, \A i \in 0..ArgBufSize - 1 : AThreadArgBuffer[i] # j,
           UNCHANGED <<started, runs>>
    PROVE  /\ BufferIsSound'
           /\ AThreadArgBuffer' \in [0..ArgBufSize - 1 -> Job \cup {NoJob}]
           /\ {ArgBufFirst', ArgBufLast'} \subseteq 0..ArgBufSize - 1
           /\ Pending' = Pending + 1
           /\ \A i \in 0..ArgBufSize - 1 :
                 AThreadArgBuffer'[i] \in {AThreadArgBuffer[i], j}
<1>a. /\ AThreadArgBuffer \in [0..ArgBufSize - 1 -> Job \cup {NoJob}]
      /\ ArgBufFirst \in 0..ArgBufSize - 1 /\ ArgBufLast \in 0..ArgBufSize - 1
      /\ created \in Nat
  BY DEF PoolTypeOK
<1>1. /\ ArgBufLast' \in 0..ArgBufSize - 1
      /\ Pending' = Pending + 1
      /\ ArgBufLast \notin InUse
      /\ InUse' = InUse \cup {ArgBufLast}
  BY <1>a, StoreSlot DEF StoreArgs
<1>2. /\ AThreadArgBuffer' = [AThreadArgBuffer EXCEPT ![ArgBufLast] = j]
      /\ ArgBufFirst' = ArgBufFirst
  BY DEF StoreArgs
<1>3. \A i \in 0..ArgBufSize - 1 :
         IF i \in InUse' THEN AThreadArgBuffer'[i] \in (1..created') \ started'
                         ELSE AThreadArgBuffer'[i] = NoJob
  BY <1>a, <1>1, <1>2 DEF BufferIsSound
<1>4. \A i, k \in InUse' : AThreadArgBuffer'[i] = AThreadArgBuffer'[k] => i = k
  <2>1. InUse \subseteq 0..ArgBufSize - 1
    BY <1>a, SegmentIn DEF InUse, Pending
  <2> QED BY <1>a, <1>1, <1>2, <2>1 DEF BufferIsSound
<1>5. BufferIsSound'
  BY <1>3, <1>4 DEF BufferIsSound
<1> QED BY <1>a, <1>1, <1>2, <1>5

(* BeginNewThread takes an object out of the buffer and calls its function. *)
LEMMA TakeBuffer ==
    ASSUME PoolTypeOK, BufferIsSound, ObjectsAreApart, NEW u \in Thread,
           ~ArgBufEmpty, TakeArgs(u), UNCHANGED <<step, creates, created>>
    PROVE  /\ BufferIsSound'
           /\ ObjectsAreApart'
           /\ AThreadArgBuffer' \in [0..ArgBufSize - 1 -> Job \cup {NoJob}]
           /\ {ArgBufFirst', ArgBufLast'} \subseteq 0..ArgBufSize - 1
           /\ runs' \in [Thread -> Job \cup {NoJob}]
           /\ started' \subseteq Job \cup {NoJob}
           /\ onRemove' \subseteq onRemove
           /\ Pending' = Pending - 1
<1> DEFINE j == AThreadArgBuffer[ArgBufFirst]
<1>a. /\ AThreadArgBuffer \in [0..ArgBufSize - 1 -> Job \cup {NoJob}]
      /\ ArgBufFirst \in 0..ArgBufSize - 1 /\ ArgBufLast \in 0..ArgBufSize - 1
      /\ runs \in [Thread -> Job \cup {NoJob}] /\ started \subseteq Job \cup {NoJob}
  BY DEF PoolTypeOK
<1>1. /\ ArgBufFirst' \in 0..ArgBufSize - 1
      /\ Pending' = Pending - 1
      /\ ArgBufFirst \in InUse
      /\ InUse' = InUse \ {ArgBufFirst}
  BY <1>a, TakeSlot DEF TakeArgs
<1>2. /\ AThreadArgBuffer' = [AThreadArgBuffer EXCEPT ![ArgBufFirst] = NoJob]
      /\ runs' = [runs EXCEPT ![u] = j]
      /\ started' = started \cup {j}
      /\ ArgBufLast' = ArgBufLast
  BY DEF TakeArgs
<1>b. InUse \subseteq 0..ArgBufSize - 1
  BY <1>a, SegmentIn DEF InUse, Pending
<1>3. j \in (1..created) \ started /\ j # NoJob /\ j \in Job
  BY <1>a, <1>1 DEF BufferIsSound, NoJob
<1> HIDE DEF j
<1>4. \A i \in InUse' : AThreadArgBuffer[i] # j
  BY <1>1, <1>b DEF BufferIsSound, j
<1>5. \A i \in 0..ArgBufSize - 1 :
         IF i \in InUse' THEN AThreadArgBuffer'[i] \in (1..created') \ started'
                         ELSE AThreadArgBuffer'[i] = NoJob
  BY <1>a, <1>1, <1>2, <1>4 DEF BufferIsSound
<1>6. \A i, k \in InUse' : AThreadArgBuffer'[i] = AThreadArgBuffer'[k] => i = k
  BY <1>a, <1>b, <1>1, <1>2 DEF BufferIsSound
<1>7. \A t, v \in Thread : runs'[t] = runs'[v] /\ runs'[t] # NoJob => t = v
  <2>1. \A t \in Thread : runs[t] # j
    BY <1>3 DEF ObjectsAreApart
  <2> QED BY <1>a, <1>2, <2>1 DEF BufferIsSound
<1>8. BufferIsSound'
  BY <1>5, <1>6, <1>7 DEF BufferIsSound
<1>9. ObjectsAreApart'
  <2>1. \A t \in Thread : runs'[t] # NoJob => runs'[t] \in started'
    BY <1>a, <1>2 DEF ObjectsAreApart
  <2>2. ASSUME NEW t \in Thread, Storing(t)
        PROVE  /\ creates[t] \notin started'
               /\ \A i \in 0..ArgBufSize - 1 : AThreadArgBuffer'[i] # creates[t]
    <3>1. creates[t] \notin started /\ creates[t] # j
      BY <1>a, <2>2 DEF ObjectsAreApart, j
    <3>2. creates[t] # NoJob
      BY <2>2 DEF ObjectsAreApart, Storing, NoJob
    <3> QED BY <1>a, <1>2, <2>2, <3>1, <3>2 DEF ObjectsAreApart
  <2>3. started' \subseteq 1..created'
    BY <1>2, <1>3 DEF ObjectsAreApart
  <2> QED BY <2>1, <2>2, <2>3 DEF ObjectsAreApart, Storing
<1>10. onRemove' \subseteq onRemove
  BY DEF TakeArgs, Signalled
<1> QED BY <1>a, <1>1, <1>2, <1>3, <1>8, <1>9, <1>10

-----------------------------------------------------------------------------
(* Counting threads. *)

LEMMA AtNumber == ASSUME NEW places PROVE Cardinality(At(places)) \in Nat
<1>1. IsFiniteSet(At(places))
  <2>1. At(places) \subseteq Thread
    BY DEF At
  <2> QED BY <2>1, FS_Subset
<1> QED BY <1>1, FS_CardinalityType

(* One thread moves on in AThreadCreate. *)
LEMMA StepCounts ==
    ASSUME PoolTypeOK, NEW t \in Thread, NEW p, Becomes(t, p), NEW places
    PROVE  /\ Cardinality(At(places)) \in Nat /\ Cardinality(At(places)') \in Nat
           /\ Cardinality(At(places)') =
                 Cardinality(At(places)) - One(step[t] \in places) + One(p \in places)
<1> DEFINE S == {u \in Thread : step[u] \in places}
           T == {u \in Thread : step'[u] \in places}
<1>1. At(places) = S /\ At(places)' = T
  BY DEF At
<1>2. IsFiniteSet(S)
  BY FS_Subset
<1>3. S \ {t} = T \ {t}
  BY DEF PoolTypeOK, Becomes
<1>4. /\ t \in S <=> step[t] \in places
      /\ t \in T <=> p \in places
  BY DEF PoolTypeOK, Becomes
<1> HIDE DEF S, T
<1>5. Cardinality(S) \in Nat
  BY <1>2, FS_CardinalityType
<1>6. /\ Cardinality(T) = Cardinality(S) - One(t \in S) + One(t \in T)
      /\ IsFiniteSet(T)
  BY ONLY Zenon, <1>2, <1>3, MoveCount
<1>7. Cardinality(T) \in Nat
  BY <1>6, FS_CardinalityType
<1> QED BY <1>1, <1>4, <1>5, <1>6, <1>7 DEF One

LEMMA PoolNumber == ASSUME PoolTypeOK PROVE Cardinality(PoolThreads) \in Nat
<1>1. IsFiniteSet(PoolThreads)
  <2>1. PoolThreads \subseteq Thread
    BY DEF PoolTypeOK, PoolThreads
  <2> QED BY <2>1, FS_Subset
<1> QED BY <1>1, FS_CardinalityType

(* The number of objects in the buffer is an integer. *)
LEMMA PendingNumber == ASSUME PoolTypeOK PROVE Pending \in Int
BY Distance DEF Pending, PoolTypeOK

(* One thread moves in the freeze protocol. *)
LEMMA PlaceCounts ==
    ASSUME PoolTypeOK, NEW t \in spawned, NEW p, Go(t, p), UNCHANGED spawned
    PROVE  Cardinality(PoolThreads') =
             Cardinality(PoolThreads) - One(pc[t] \in {"idle", "starting"})
                                      + One(p \in {"idle", "starting"})
<1>1. IsFiniteSet(PoolThreads)
  <2>1. PoolThreads \subseteq Thread
    BY DEF PoolTypeOK, PoolThreads
  <2> QED BY <2>1, FS_Subset
<1>2. /\ PoolThreads \ {t} = PoolThreads' \ {t}
      /\ t \in PoolThreads <=> pc[t] \in {"idle", "starting"}
      /\ t \in PoolThreads' <=> p \in {"idle", "starting"}
  BY DEF PoolTypeOK, TypeOK, Go, PoolThreads
<1>3. Cardinality(PoolThreads') =
        Cardinality(PoolThreads) - One(t \in PoolThreads) + One(t \in PoolThreads')
  BY <1>1, <1>2, MoveCount
<1> QED BY <1>2, <1>3 DEF One

(* The operating system grants a new thread. *)
LEMMA SpawnCounts ==
    ASSUME PoolTypeOK, NEW u \in Thread \ spawned, pc[u] = "idle",
           spawned' = spawned \cup {u}, UNCHANGED pc
    PROVE  Cardinality(PoolThreads') = Cardinality(PoolThreads) + 1
<1>1. IsFiniteSet(PoolThreads)
  <2>1. PoolThreads \subseteq Thread
    BY DEF PoolTypeOK, PoolThreads
  <2> QED BY <2>1, FS_Subset
<1>2. PoolThreads' = PoolThreads \cup {u} /\ u \notin PoolThreads
  BY DEF PoolThreads
<1> QED BY Zenon, <1>1, <1>2, FS_AddElement

-----------------------------------------------------------------------------
(* The inductive invariant. *)

LEMMA PoolInitInv == PoolInit => PoolIInv
<1> SUFFICES ASSUME PoolInit PROVE PoolIInv
  OBVIOUS
<1>1. IInv /\ TypeOK
  BY InitInv DEF PoolInit, IInv
<1>2. PoolTypeOK
  BY <1>1 DEF PoolInit, PoolTypeOK, NoJob
<1>3. Pending = 0 /\ InUse = {}
  <2>1. Pending = 0
    BY Distance DEF PoolInit, Pending
  <2> QED BY <2>1 DEF InUse
<1>4. BufferIsSound
  BY <1>3 DEF PoolInit, BufferIsSound
<1>5. PoolThreads = {} /\ Spawning = {} /\ Reserving = {} /\ Creators = {}
  BY DEF PoolInit, Init, PoolThreads, At, Creators, Spawning, Reserving
<1>6. PoolAccounting /\ CreatorsCounted
  <2>1. Cardinality({}) = 0
    BY FS_EmptySet
  <2> QED BY <1>3, <1>5, <2>1 DEF PoolInit, PoolAccounting, CreatorsCounted
<1>7. ObjectsAreApart
  BY DEF PoolInit, ObjectsAreApart, Storing
<1>8. \A t \in Thread \ spawned : pc[t] = "idle"
  BY DEF PoolInit, Init
<1> QED BY <1>1, <1>2, <1>4, <1>6, <1>7, <1>8 DEF PoolIInv, PoolIsSound

(* Steps of the freeze protocol proper neither take threads out of the pool nor
   put them into it. *)
PoolIsAlone ==
    \A u \in Thread :
       IF pc[u] \in {"idle", "starting"} THEN pc'[u] = pc[u]
                                         ELSE pc'[u] \notin {"idle", "starting"}

LEMMA ProtocolMoves ==
    ASSUME TypeOK, NEW t \in Thread,
           \/ AAllowBlocking(t) \/ AFreezeOtherThreads(t) \/ AHandleInterrupt(t)
           \/ AEndBlocking(t) \/ FreezeBusy(t) \/ FreezeRelock(t) \/ AllFrozen(t)
           \/ AWakeOtherThreads(t) \/ WakeUpBroadcast(t)
           \/ AHandleInterruptEnd(t) \/ CheckKey(t) \/ SpuriousWakeUp(t)
    PROVE  PoolIsAlone
<1>a. pc \in [Thread -> PC]
  BY DEF TypeOK
<1>1. ASSUME NEW p, Go(t, p), pc[t] \notin {"idle", "starting"},
             p \notin {"idle", "starting"}
      PROVE  PoolIsAlone
  BY <1>1, <1>a DEF Go, PoolIsAlone
<1>2. ASSUME UNCHANGED pc PROVE PoolIsAlone
  BY <1>2 DEF PoolIsAlone
<1>3. CASE AAllowBlocking(t)
  BY <1>1, <1>3 DEF AAllowBlocking, AllowFreezeNoLock
<1>4. CASE AFreezeOtherThreads(t) \/ FreezeRelock(t) \/ AllFrozen(t)
  BY <1>1, <1>4, Zenon DEF AFreezeOtherThreads, FreezeRelock, AllFrozen, PerformFreeze,
                    WaitForOthers
<1>5. CASE AHandleInterrupt(t) \/ CheckKey(t)
  BY <1>1, <1>5 DEF AHandleInterrupt, CheckKey, AfterYield
<1>6. CASE AEndBlocking(t) \/ AHandleInterruptEnd(t)
  BY <1>1, <1>6 DEF AEndBlocking, AHandleInterruptEnd, DisallowFreezeNoLock, AfterYield
<1>7. CASE FreezeBusy(t)
  BY <1>1, <1>7 DEF FreezeBusy, AllowFreezeNoLock, DisallowFreezeNoLock
<1>8. CASE AWakeOtherThreads(t) \/ WakeUpBroadcast(t) \/ SpuriousWakeUp(t)
  BY <1>1, <1>2, <1>8 DEF AWakeOtherThreads, WakeUpBroadcast, SpuriousWakeUp
<1> QED BY <1>3, <1>4, <1>5, <1>6, <1>7, <1>8

LEMMA PoolThreadsStay ==
    ASSUME PoolIInv, PoolIsAlone, UNCHANGED spawned
    PROVE  /\ PoolThreads' = PoolThreads
           /\ (\A t \in Thread \ spawned : pc[t] = "idle")'
<1>1. spawned \subseteq Thread
  BY DEF PoolIInv, PoolIsSound, PoolTypeOK
<1>2. PoolThreads' = PoolThreads
  BY <1>1 DEF PoolIsAlone, PoolThreads
<1>3. (\A t \in Thread \ spawned : pc[t] = "idle")'
  BY DEF PoolIInv, PoolIsAlone
<1> QED BY <1>2, <1>3

LEMMA PoolProtocolKeeps ==
    ASSUME PoolIInv, IInv', PoolIsAlone,
           UNCHANGED <<spawned, NumWaitingThreads, bufVars, createVars, runs, started>>,
           onInsert' \subseteq Thread, onRemove' \subseteq Thread
    PROVE  PoolIInv'
<1> USE DEF bufVars, createVars
<1>1. PoolThreads' = PoolThreads /\ (\A t \in Thread \ spawned : pc[t] = "idle")'
  BY PoolThreadsStay
<1>2. PoolTypeOK'
  BY DEF PoolIInv, PoolIsSound, PoolTypeOK, IInv
<1>3. /\ Pending' = Pending /\ InUse' = InUse
      /\ Spawning' = Spawning /\ Reserving' = Reserving /\ Creators' = Creators
  BY DEF Pending, InUse, At, Spawning, Reserving, Creators
<1>4. BufferIsSound' /\ ObjectsAreApart'
  BY <1>3 DEF PoolIInv, PoolIsSound, BufferIsSound, ObjectsAreApart, Storing
<1>5. PoolAccounting' /\ CreatorsCounted'
  BY <1>1, <1>3, Zenon DEF PoolIInv, PoolIsSound, PoolAccounting, CreatorsCounted
<1> QED BY <1>1, <1>2, <1>4, <1>5 DEF PoolIInv, PoolIsSound

(* AThreadCreate is called. *)
LEMMA CreateKeeps ==
    ASSUME PoolIInv, IInv', NEW t \in Thread, AThreadCreate(t)
    PROVE  PoolIInv'
<1> USE DEF bufVars
<1> DEFINE j == created + 1
<1>a. /\ PoolTypeOK /\ BufferIsSound /\ ObjectsAreApart /\ TypeOK
      /\ step \in [Thread -> {"no", "prepare", "fullReserved", "fullNew", "signal", "spawn"}]
      /\ creates \in [Thread -> Job \cup {NoJob}]
      /\ created \in Nat /\ NumWaitingThreads \in Nat /\ refused \in 0..MaxJobs
      /\ started \subseteq 1..created
  BY DEF PoolIInv, PoolIsSound, PoolTypeOK, ObjectsAreApart
<1>b. /\ step[t] = "no" /\ created' = j /\ creates' = [creates EXCEPT ![t] = j]
      /\ created' \in 0..MaxJobs /\ created' \in Nat /\ created <= created'
      /\ j \in Job /\ j \in (1..created') \ started
      /\ UNCHANGED <<spawned, onInsert, returned, refused, runs, started>>
  BY <1>a DEF AThreadCreate, Job
<1>c. \A i \in 0..ArgBufSize - 1 : AThreadArgBuffer[i] # j
  BY <1>a DEF BufferIsSound, NoJob
<1>d. \A u \in Thread : step[u] # "no" => creates[u] \in 1..created /\ creates[u] # j
  BY <1>a DEF ObjectsAreApart
<1> HIDE DEF j
<1>1. PICK p \in {"prepare", "fullReserved", "signal"} :
        /\ Becomes(t, p)
        /\ PoolIsAlone
        /\ onRemove' \subseteq Thread
        /\ \/ p # "signal" /\ UNCHANGED bufVars
           \/ p = "signal" /\ ~ArgBufFull /\ StoreArgs(t, j, TRUE)
        /\ NumWaitingThreads' = NumWaitingThreads - One(p # "prepare")
        /\ NumWaitingThreads' \in Nat
  <2>1. onRemove \subseteq Thread
    BY <1>a DEF PoolTypeOK
  <2>2. CASE NumWaitingThreads > 0 /\ ArgBufFull
    <3>1. PoolIsAlone
      BY <1>a, <2>2, ProtocolMoves DEF AThreadCreate, StoreOrWait
    <3> QED BY <1>a, <2>1, <2>2, <3>1 DEF AThreadCreate, StoreOrWait, SleepOnRemove, One
  <2>3. CASE NumWaitingThreads > 0 /\ ~ArgBufFull
    <3>1. PoolIsAlone
      BY <2>3, Zenon DEF AThreadCreate, StoreOrWait, vars, PoolIsAlone
    <3> QED BY <1>a, <1>b, <2>1, <2>3, <3>1 DEF AThreadCreate, StoreOrWait, StoreArgs, One
  <2>4. CASE ~ (NumWaitingThreads > 0)
    <3>1. PoolIsAlone
      BY <2>4, Zenon DEF AThreadCreate, vars, PoolIsAlone
    <3>2. /\ Becomes(t, "prepare") /\ UNCHANGED bufVars
          /\ UNCHANGED <<NumWaitingThreads, onRemove>>
      BY <2>4, Zenon DEF AThreadCreate
    <3>3. NumWaitingThreads' = NumWaitingThreads - One("prepare" # "prepare")
      BY <1>a, <3>2 DEF One
    <3> QED BY Zenon, <1>a, <2>1, <3>1, <3>2, <3>3
  <2> QED BY Zenon, <2>2, <2>3, <2>4
<1>2. /\ BufferIsSound'
      /\ AThreadArgBuffer' \in [0..ArgBufSize - 1 -> Job \cup {NoJob}]
      /\ {ArgBufFirst', ArgBufLast'} \subseteq 0..ArgBufSize - 1
      /\ Pending' = Pending + One(p = "signal")
      /\ \A i \in 0..ArgBufSize - 1 :
            AThreadArgBuffer'[i] = AThreadArgBuffer[i] \/ (p = "signal" /\ AThreadArgBuffer'[i] = j)
  <2>1. CASE p = "signal"
    BY Zenon, <1>a, <1>b, <1>c, <1>1, <2>1, StoreBuffer DEF One
  <2>2. CASE p # "signal"
    <3>1. UNCHANGED <<AThreadArgBuffer, ArgBufFirst, ArgBufLast>>
      BY Zenon, <1>1, <2>2
    <3>2. Pending' = Pending /\ InUse' = InUse /\ Pending \in Int
      <4>1. Pending' = Pending /\ InUse' = InUse
        BY <3>1, Zenon DEF Pending, InUse
      <4> QED BY <1>a, <4>1, PendingNumber, Zenon
    <3>3. BufferIsSound'
      BY <1>a, <1>b, <3>1, <3>2 DEF BufferIsSound
    <3> QED BY <1>a, <2>2, <3>1, <3>2, <3>3 DEF PoolTypeOK, One
  <2> QED BY <2>1, <2>2
<1>3. PoolTypeOK'
  BY <1>a, <1>b, <1>1, <1>2, Zenon DEF PoolTypeOK, IInv, Becomes
<1>4. ObjectsAreApart'
  <2>1. step'[t] = p /\ creates'[t] = j
    BY <1>a, <1>b, <1>1 DEF Becomes
  <2>2. \A u \in Thread \ {t} : step'[u] = step[u] /\ creates'[u] = creates[u]
    BY <1>a, <1>b, <1>1 DEF Becomes
  <2>3. ASSUME NEW u \in Thread, Storing(u)'
        PROVE  /\ creates'[u] \notin started
               /\ \A i \in 0..ArgBufSize - 1 : AThreadArgBuffer'[i] # creates'[u]
    <3>1. CASE u = t
      BY <1>b, <1>c, <1>2, <2>1, <2>3, <3>1, Zenon DEF Storing
    <3>2. CASE u # t
      <4>1. Storing(u) /\ step[u] # "no" /\ creates'[u] = creates[u]
        BY <2>2, <2>3, <3>2, Zenon DEF Storing
      <4>2. /\ creates[u] \notin started /\ creates[u] # j
            /\ \A i \in 0..ArgBufSize - 1 : AThreadArgBuffer[i] # creates[u]
        BY <1>a, <1>d, <4>1, Zenon DEF ObjectsAreApart
      <4> QED BY <1>2, <4>1, <4>2, Zenon
    <3> QED BY <3>1, <3>2, Zenon
  <2>4. ASSUME NEW u \in Thread, NEW v \in Thread,
               Storing(u)', Storing(v)', creates'[u] = creates'[v]
        PROVE  u = v
    <3>1. ASSUME NEW w \in Thread \ {t}, Storing(w)'
          PROVE  Storing(w) /\ creates'[w] = creates[w] /\ creates[w] # j
      BY <1>d, <2>2, <3>1, Zenon DEF Storing
    <3>2. CASE u # t /\ v # t
      BY <1>a, <2>4, <3>1, <3>2 DEF ObjectsAreApart
    <3> QED BY <2>1, <2>4, <3>1, <3>2, Zenon
  <2>5. \A u \in Thread : step'[u] # "no" => creates'[u] \in 1..created'
    BY <1>a, <1>b, <1>d, <2>1, <2>2
  <2>6. started' \subseteq 1..created' /\ \A u \in Thread : runs'[u] # NoJob => runs'[u] \in started'
    BY <1>a, <1>b DEF ObjectsAreApart
  <2> QED BY <1>b, <2>3, <2>4, <2>5, <2>6, Zenon DEF ObjectsAreApart
<1>5. PoolThreads' = PoolThreads /\ (\A u \in Thread \ spawned : pc[u] = "idle")'
  BY <1>b, <1>1, PoolThreadsStay
<1>6. PoolAccounting' /\ CreatorsCounted'
  <2>1. Pending \in Int /\ Cardinality(PoolThreads) \in Nat
    BY <1>a, Distance, PoolNumber DEF Pending, PoolTypeOK
  <2>2. /\ Cardinality(Spawning) \in Nat
        /\ Cardinality(Spawning') = Cardinality(Spawning)
    BY <1>a, <1>b, <1>1, StepCounts DEF One, Spawning
  <2>3. /\ Cardinality(Reserving) \in Nat
        /\ Cardinality(Reserving') = Cardinality(Reserving) + One(p = "fullReserved")
    BY <1>a, <1>b, <1>1, StepCounts DEF One, Reserving
  <2>4. /\ Cardinality(Creators) \in Nat
        /\ Cardinality(Creators') = Cardinality(Creators) + 1
    BY <1>a, <1>b, <1>1, StepCounts DEF One, Creators
  <2>5. PoolAccounting'
    <3>1. PoolAccounting
      BY DEF PoolIInv, PoolIsSound
    <3>2. /\ refused' = refused /\ refused \in Nat /\ NumWaitingThreads \in Nat
          /\ Cardinality(PoolThreads') = Cardinality(PoolThreads)
      BY <1>a, <1>b, <1>5
    <3>3. One(p # "prepare") = One(p = "signal") + One(p = "fullReserved")
      BY <1>1 DEF One
    <3>4. One(p = "signal") \in Nat /\ One(p = "fullReserved") \in Nat
      BY DEF One
    <3>5. /\ NumWaitingThreads' = NumWaitingThreads - One(p # "prepare")
          /\ Pending' = Pending + One(p = "signal")
      BY <1>1, <1>2
    <3>6. NumWaitingThreads' + Pending' + Cardinality(Reserving') =
            NumWaitingThreads + Pending + Cardinality(Reserving)
      BY ONLY <2>1, <2>3, <3>2, <3>3, <3>4, <3>5
    <3> QED BY ONLY <2>1, <2>2, <3>1, <3>2, <3>6 DEF PoolAccounting
  <2>6. CreatorsCounted'
    BY <1>a, <1>b, <2>4 DEF CreatorsCounted, PoolIInv, j
  <2> QED BY <2>5, <2>6
<1> QED BY <1>2, <1>3, <1>4, <1>5, <1>6 DEF PoolIInv, PoolIsSound

-----------------------------------------------------------------------------
(* The freeze protocol. *)

LEMMA StoreOrWaitRefines ==
    ASSUME NEW t \in Thread, NEW j, NEW isWaiting, StoreOrWait(t, j, isWaiting)
    PROVE  [Next]_vars
<1> QED BY DEF StoreOrWait, Next

(* Every step of AThreadCreate and BeginNewThread is a step of the protocol, or
   leaves its state alone. *)
LEMMA PoolNextRefines == PoolNext => [Next]_vars
<1> SUFFICES ASSUME PoolNext PROVE [Next]_vars
  OBVIOUS
<1>1. ASSUME NEW t \in Thread, AThreadCreate(t) PROVE [Next]_vars
  BY Zenon, <1>1, StoreOrWaitRefines DEF AThreadCreate
<1>2. ASSUME NEW t \in Thread, Prepared(t) PROVE [Next]_vars
  BY Zenon, <1>2, StoreOrWaitRefines DEF Prepared
<1>3. ASSUME NEW t \in Thread, SlotFreed(t) PROVE [Next]_vars
  BY <1>3, Zenon DEF SlotFreed, Next, Continue
<1>4. ASSUME NEW t \in Thread, SignalInsert(t) \/ Spawn(t) PROVE [Next]_vars
  BY <1>4 DEF SignalInsert, Spawn
<1>5. ASSUME NEW t \in Thread, BeginNewThread(t) PROVE [Next]_vars
  BY <1>5, Zenon DEF BeginNewThread, Next
<1>6. ASSUME NEW t \in Thread, BeginAfterFreeze(t) PROVE [Next]_vars
  BY <1>6 DEF BeginAfterFreeze, Next, Continue
<1>7. ASSUME NEW t \in Thread, ThreadReturns(t) PROVE [Next]_vars
  BY <1>7, Zenon DEF ThreadReturns, Next
<1>8. ASSUME NEW t \in Thread, Elsewhere(t) \/ FreezeSteps(t) \/ WakeUpUnasked(t)
      PROVE  [Next]_vars
  BY <1>8, Zenon DEF Elsewhere, FreezeSteps, WakeUpUnasked, Next, Continue
<1> QED BY <1>1, <1>2, <1>3, <1>4, <1>5, <1>6, <1>7, <1>8 DEF PoolNext, PoolStep

(* Creating, starting and ending threads respects the freeze protocol: what is
   proved of it holds with a pool of threads (AThreadCreate, BeginNewThread). *)
THEOREM PoolRefinesFreeze == PoolSpec => ImplementsFreeze
<1>1. PoolInit => Init
  BY DEF PoolInit
<1>2. [PoolNext]_allVars => [Next]_vars
  BY PoolNextRefines DEF allVars
<1> QED BY <1>1, <1>2, PTL DEF PoolSpec, ImplementsFreeze, Spec

-----------------------------------------------------------------------------
(* A thread inside AThreadCreate, whose object is not in the buffer yet, fails,
   waits for a slot, or finds one. *)
LEMMA AdvanceKeeps ==
    ASSUME PoolIInv, IInv', NEW t \in Thread, Storing(t), PoolIsAlone,
           NEW p, Becomes(t, p), NEW isWaiting,
           \/ /\ p \in {"no", "fullNew", "fullReserved"}
              /\ step[t] = "fullReserved" <=> p = "fullReserved"
              /\ UNCHANGED bufVars
           \/ /\ p = IF step[t] = "fullReserved" THEN "signal" ELSE "spawn"
              /\ ~ArgBufFull
              /\ StoreArgs(t, creates[t], isWaiting),
           onRemove' \subseteq Thread,
           UNCHANGED <<spawned, NumWaitingThreads, onInsert, creates, created,
                       returned, refused, runs, started>>
    PROVE  PoolIInv'
<1> USE DEF bufVars
<1> DEFINE j == creates[t]
<1>a. /\ PoolTypeOK /\ BufferIsSound /\ ObjectsAreApart /\ TypeOK
      /\ step \in [Thread -> {"no", "prepare", "fullReserved", "fullNew", "signal", "spawn"}]
      /\ creates \in [Thread -> Job \cup {NoJob}]
      /\ created \in Nat /\ NumWaitingThreads \in Nat /\ refused \in Nat
      /\ started \subseteq 1..created
  BY ONLY PoolIInv DEF PoolIInv, PoolIsSound, PoolTypeOK, ObjectsAreApart
<1>b. step[t] \in {"prepare", "fullReserved", "fullNew"}
  BY Zenon DEF Storing
<1>c. /\ j \in (1..created) \ started /\ j \in Job
      /\ \A i \in 0..ArgBufSize - 1 : AThreadArgBuffer[i] # j
  <2>1. j \in 1..created
    BY <1>a, <1>b DEF ObjectsAreApart
  <2>2. j \in Job
    BY <1>a, <2>1 DEF NoJob
  <2> QED BY <1>a, <2>1, <2>2 DEF ObjectsAreApart
<1> HIDE DEF j
<1>1. /\ BufferIsSound'
      /\ AThreadArgBuffer' \in [0..ArgBufSize - 1 -> Job \cup {NoJob}]
      /\ {ArgBufFirst', ArgBufLast'} \subseteq 0..ArgBufSize - 1
      /\ Pending' = Pending + One(p \in {"signal", "spawn"})
      /\ \A i \in 0..ArgBufSize - 1 :
            \/ AThreadArgBuffer'[i] = AThreadArgBuffer[i]
            \/ p \in {"signal", "spawn"} /\ AThreadArgBuffer'[i] = j
  <2>1. CASE p \in {"signal", "spawn"}
    <3>1. ~ArgBufFull /\ StoreArgs(t, j, isWaiting)
      BY <2>1, Zenon DEF j
    <3>2. /\ created' \in Nat /\ created <= created' /\ j \in (1..created') \ started
          /\ UNCHANGED <<started, runs>>
      BY <1>a, <1>c
    <3> QED BY <1>a, <1>c, <2>1, <3>1, <3>2, StoreBuffer, Zenon DEF One
  <2>2. CASE p \notin {"signal", "spawn"}
    <3>1. UNCHANGED <<AThreadArgBuffer, ArgBufFirst, ArgBufLast>>
      BY <2>2
    <3>2. Pending' = Pending /\ InUse' = InUse /\ Pending \in Int
      <4>1. Pending' = Pending /\ InUse' = InUse
        BY <3>1, Zenon DEF Pending, InUse
      <4> QED BY <1>a, <4>1, PendingNumber, Zenon
    <3>3. BufferIsSound'
      BY <1>a, <3>1, <3>2 DEF BufferIsSound
    <3> QED BY <1>a, <2>2, <3>1, <3>2, <3>3 DEF PoolTypeOK, One
  <2> QED BY <2>1, <2>2, Zenon
<1>2. PoolTypeOK'
  BY <1>a, <1>1, Zenon DEF PoolTypeOK, IInv, Becomes
<1>3. ObjectsAreApart'
  <2>1. step'[t] = p /\ \A u \in Thread \ {t} : step'[u] = step[u]
    BY <1>a DEF Becomes
  <2>2. ASSUME NEW u \in Thread, Storing(u)' PROVE Storing(u)
    BY <2>1, <2>2, Zenon DEF Storing
  <2>3. ASSUME NEW u \in Thread, Storing(u)', NEW i \in 0..ArgBufSize - 1
        PROVE  AThreadArgBuffer'[i] # creates[u]
    <3>1. CASE AThreadArgBuffer'[i] = AThreadArgBuffer[i]
      BY <1>a, <2>2, <2>3, <3>1 DEF ObjectsAreApart
    <3>2. CASE p \in {"signal", "spawn"} /\ AThreadArgBuffer'[i] = j
      <4>1. u # t
        BY <2>1, <2>3, <3>2, Zenon DEF Storing
      <4> QED BY <1>a, <2>2, <2>3, <3>2, <4>1 DEF ObjectsAreApart, j
    <3> QED BY <1>1, <3>1, <3>2, Zenon
  <2>4. \A u \in Thread : step'[u] # "no" => creates[u] \in 1..created
    BY <1>a, <1>b, <2>1, Zenon DEF ObjectsAreApart
  <2> QED BY <1>a, <2>2, <2>3, <2>4, Zenon DEF ObjectsAreApart
<1>4. PoolThreads' = PoolThreads /\ (\A u \in Thread \ spawned : pc[u] = "idle")'
  BY PoolThreadsStay, Zenon
<1>5. Pending \in Int /\ Cardinality(PoolThreads) \in Nat
  BY <1>a, PendingNumber, PoolNumber, Zenon
<1>6. /\ Cardinality(Spawning) \in Nat
      /\ Cardinality(Spawning') = Cardinality(Spawning) + One(p = "spawn")
  BY <1>a, <1>b, StepCounts DEF One, Spawning
<1>7. /\ Cardinality(Reserving) \in Nat
      /\ Cardinality(Reserving') = Cardinality(Reserving) - One(p = "signal")
  <2>1. /\ Cardinality(Reserving) \in Nat
        /\ Cardinality(Reserving') = Cardinality(Reserving)
              - One(step[t] = "fullReserved") + One(p = "fullReserved")
    BY <1>a, StepCounts DEF One, Reserving
  <2>2. /\ step[t] = "fullReserved" => p \in {"fullReserved", "signal"}
        /\ step[t] # "fullReserved" => p \notin {"fullReserved", "signal"}
    BY <1>b, Zenon
  <2> QED BY ONLY <2>1, <2>2 DEF One
<1>8. /\ Cardinality(Creators) \in Nat
      /\ Cardinality(Creators') \in Int
      /\ Cardinality(Creators') <= Cardinality(Creators)
  BY <1>a, <1>b, StepCounts DEF One, Creators
<1>9. PoolAccounting'
  <2>1. PoolAccounting /\ refused' = refused /\ NumWaitingThreads' = NumWaitingThreads
    BY Zenon DEF PoolIInv, PoolIsSound
  <2>2. One(p \in {"signal", "spawn"}) = One(p = "signal") + One(p = "spawn")
    <3>1. CASE p = "signal"
      BY ONLY <3>1 DEF One
    <3>2. CASE p = "spawn"
      BY ONLY <3>2 DEF One
    <3>3. CASE p \notin {"signal", "spawn"}
      BY ONLY <3>3 DEF One
    <3> QED BY <3>1, <3>2, <3>3, Zenon
  <2>3. One(p = "signal") \in Nat /\ One(p = "spawn") \in Nat
    BY Zenon DEF One
  <2>4. Pending' = Pending + One(p \in {"signal", "spawn"})
    BY <1>1, Zenon
  <2> QED BY ONLY <1>a, <1>4, <1>5, <1>6, <1>7, <2>1, <2>2, <2>3, <2>4
          DEF PoolAccounting
<1>10. CreatorsCounted'
  BY <1>a, <1>8 DEF CreatorsCounted, PoolIInv
<1> QED BY <1>1, <1>2, <1>3, <1>4, <1>9, <1>10, Zenon DEF PoolIInv, PoolIsSound

(* AThreadCreate has put its object into the buffer and is about to return. *)
LEMMA CreatedKeeps ==
    ASSUME PoolIInv, IInv', NEW t \in Thread, SignalInsert(t) \/ Spawn(t)
    PROVE  PoolIInv'
<1> USE DEF bufVars
<1>a. /\ PoolTypeOK /\ BufferIsSound /\ ObjectsAreApart /\ TypeOK
      /\ step \in [Thread -> {"no", "prepare", "fullReserved", "fullNew", "signal", "spawn"}]
      /\ created \in 0..MaxJobs /\ refused \in Nat /\ NumWaitingThreads \in Nat
      /\ spawned \subseteq Thread
  BY DEF PoolIInv, PoolIsSound, PoolTypeOK
<1>b. /\ step[t] \in {"signal", "spawn"} /\ Becomes(t, "no")
      /\ UNCHANGED <<vars, NumWaitingThreads, bufVars, onRemove, creates, created, runs, started>>
  BY DEF SignalInsert, Spawn
<1>c. creates[t] \in Job
  <2>1. creates[t] \in 1..created
    BY <1>a, <1>b, Zenon DEF ObjectsAreApart
  <2> QED BY ONLY <1>a, <2>1, PoolAssumption DEF Job
<1>1. PICK n \in {0, 1}, m \in {0, 1} :
        /\ refused' = refused + n
        /\ Cardinality(PoolThreads') = Cardinality(PoolThreads) + m
        /\ n + m = One(step[t] = "spawn")
        /\ spawned' \subseteq Thread /\ spawned \subseteq spawned'
        /\ onInsert' \subseteq Thread /\ returned' \subseteq Job
  <2>1. onInsert \subseteq Thread /\ returned \subseteq Job /\ Cardinality(PoolThreads) \in Nat
    BY <1>a, PoolNumber DEF PoolTypeOK
  <2>2. CASE \/ SignalInsert(t)
             \/ Spawn(t) /\ refused' = refused + 1 /\ UNCHANGED <<spawned, returned>>
    <3>1. UNCHANGED spawned
      BY <2>2 DEF SignalInsert
    <3>2. PoolThreads' = PoolThreads
      BY <1>b, <3>1, Zenon DEF PoolThreads, vars
    <3>3. CASE SignalInsert(t)
      <4>1. /\ returned' = returned \cup {creates[t]} /\ onInsert' \in Signalled(onInsert)
            /\ refused' = refused /\ step[t] = "signal"
        BY <3>3, Zenon DEF SignalInsert, Succeeds
      <4>2. onInsert' \subseteq Thread /\ One(step[t] = "spawn") = 0
        BY ONLY <2>1, <4>1 DEF Signalled, One
      <4>3. /\ refused' = refused + 0 /\ 0 + 0 = One(step[t] = "spawn")
            /\ Cardinality(PoolThreads') = Cardinality(PoolThreads) + 0
        BY ONLY <1>a, <2>1, <3>2, <4>1, <4>2
      <4>4. /\ spawned' \subseteq Thread /\ spawned \subseteq spawned'
            /\ onInsert' \subseteq Thread /\ returned' \subseteq Job
        BY <1>a, <1>c, <2>1, <3>1, <4>1, <4>2, Zenon
      <4>5. 0 \in {0, 1}
        OBVIOUS
      <4> QED BY <4>3, <4>4, <4>5, Zenon
    <3>4. CASE Spawn(t) /\ refused' = refused + 1 /\ UNCHANGED <<spawned, returned>>
      BY ONLY <1>a, <2>1, <3>2, <3>4 DEF Spawn, One
    <3> QED BY <2>2, <3>3, <3>4, Zenon
  <2>3. CASE /\ Spawn(t) /\ spawned # Thread
             /\ spawned' = spawned \cup {CHOOSE u \in Thread : u \notin spawned}
             /\ Succeeds(t) /\ UNCHANGED refused
    <3>2. PICK u \in Thread \ spawned : spawned' = spawned \cup {u}
      BY Zenon, <1>a, <2>3
    <3>3. pc[u] = "idle" /\ UNCHANGED pc
      BY <1>b, Zenon DEF PoolIInv, vars
    <3>4. Cardinality(PoolThreads') = Cardinality(PoolThreads) + 1
      BY <1>a, <3>2, <3>3, SpawnCounts
    <3> QED BY ONLY <1>a, <1>c, <2>1, <2>3, <3>2, <3>4 DEF Spawn, Succeeds, One
  <2> QED BY <2>2, <2>3, Zenon DEF Spawn
<1>2. /\ Cardinality(Creators) \in Nat /\ Cardinality(Creators') \in Nat
      /\ Cardinality(Creators') = Cardinality(Creators) - 1
  BY <1>a, <1>b, StepCounts DEF One, Creators
<1>3. CreatorsCounted' /\ refused' \in 0..MaxJobs
  <2>1. Cardinality(Creators) + refused <= created
    BY DEF PoolIInv, CreatorsCounted
  <2> QED BY <1>a, <1>b, <1>1, <1>2, <2>1 DEF CreatorsCounted
<1>4. PoolTypeOK'
  BY <1>a, <1>b, <1>1, <1>3, Zenon DEF PoolTypeOK, IInv, Becomes
<1>5. /\ Cardinality(Spawning) \in Nat
      /\ Cardinality(Spawning') = Cardinality(Spawning) - One(step[t] = "spawn")
  BY <1>a, <1>b, StepCounts DEF One, Spawning
<1>6. /\ Cardinality(Reserving) \in Nat
      /\ Cardinality(Reserving') = Cardinality(Reserving)
  BY <1>a, <1>b, StepCounts DEF One, Reserving
<1>7. /\ Pending' = Pending /\ InUse' = InUse /\ Pending \in Int
      /\ Cardinality(PoolThreads) \in Nat
  <2>1. Pending' = Pending /\ InUse' = InUse
    BY <1>b, Zenon DEF Pending, InUse
  <2>2. Pending \in Int
    BY <1>a, Distance DEF Pending, PoolTypeOK
  <2>3. Cardinality(PoolThreads) \in Nat
    BY <1>a, PoolNumber DEF PoolTypeOK
  <2> QED BY <2>1, <2>2, <2>3
<1>8. PoolAccounting'
  <2>1. PoolAccounting /\ NumWaitingThreads' = NumWaitingThreads
    BY <1>b, Zenon DEF PoolIInv, PoolIsSound
  <2>2. /\ refused' = refused + n
        /\ Cardinality(PoolThreads') = Cardinality(PoolThreads) + m
        /\ n + m = One(step[t] = "spawn") /\ n \in Nat /\ m \in Nat
    BY <1>1
  <2> QED BY ONLY <1>a, <1>5, <1>6, <1>7, <2>1, <2>2 DEF PoolAccounting
<1>9. BufferIsSound' /\ ObjectsAreApart'
  <2>1. BufferIsSound'
    BY <1>a, <1>b, <1>7 DEF BufferIsSound
  <2>2. \A u \in Thread : step'[u] \in {step[u], "no"}
    BY <1>a, <1>b DEF Becomes
  <2> QED BY <1>a, <1>b, <2>1, <2>2, Zenon DEF ObjectsAreApart, Storing
<1>10. (\A u \in Thread \ spawned : pc[u] = "idle")'
  BY <1>b, <1>1, Zenon DEF PoolIInv, vars
<1> QED BY <1>3, <1>4, <1>8, <1>9, <1>10, Zenon DEF PoolIInv, PoolIsSound

(* A thread enters the pool, or moves in it, without an object. *)
LEMMA RestKeeps ==
    ASSUME PoolIInv, IInv', NEW u \in spawned, NEW p, Go(u, p),
           UNCHANGED <<spawned, bufVars, createVars, started>>,
           NumWaitingThreads' = NumWaitingThreads + One(pc[u] \notin {"idle", "starting"}),
           p \in {"idle", "starting"},
           runs' = [runs EXCEPT ![u] = NoJob] \/ UNCHANGED runs,
           onInsert' \subseteq Thread, onRemove' \subseteq Thread
    PROVE  PoolIInv'
<1> USE DEF bufVars, createVars
<1>a. /\ PoolTypeOK /\ BufferIsSound /\ ObjectsAreApart
      /\ runs \in [Thread -> Job \cup {NoJob}] /\ pc \in [Thread -> PC]
      /\ u \in Thread /\ NumWaitingThreads \in Nat /\ refused \in Nat
  BY ONLY PoolIInv DEF PoolIInv, PoolIsSound, PoolTypeOK, TypeOK
<1> DEFINE k == One(pc[u] \notin {"idle", "starting"})
<1>1. k \in Nat /\ NumWaitingThreads' = NumWaitingThreads + k /\ NumWaitingThreads' \in Nat
  BY <1>a DEF One
<1> HIDE DEF k
<1>2. PoolTypeOK'
  BY <1>a, <1>1, Zenon DEF PoolTypeOK, IInv
<1>3. /\ Pending' = Pending /\ InUse' = InUse /\ Pending \in Int
      /\ Spawning' = Spawning /\ Reserving' = Reserving /\ Creators' = Creators
  <2>1. Pending' = Pending /\ InUse' = InUse
    BY Zenon DEF Pending, InUse
  <2>2. Pending \in Int
    BY <1>a, PendingNumber, Zenon
  <2>3. Spawning' = Spawning /\ Reserving' = Reserving /\ Creators' = Creators
    BY DEF At, Spawning, Reserving, Creators
  <2> QED BY <2>1, <2>2, <2>3
<1>4. \A t \in Thread : runs'[t] \in {runs[t], NoJob}
  BY <1>a
<1>5. BufferIsSound' /\ ObjectsAreApart'
  BY <1>a, <1>3, <1>4, Zenon DEF BufferIsSound, ObjectsAreApart, Storing
<1>6. Cardinality(PoolThreads') = Cardinality(PoolThreads) + k
  <2>1. Cardinality(PoolThreads') =
          Cardinality(PoolThreads) - One(pc[u] \in {"idle", "starting"})
                                   + One(p \in {"idle", "starting"})
    BY <1>a, PlaceCounts
  <2> QED BY <1>a, <2>1, PoolNumber DEF One, k
<1>7. PoolAccounting'
  <2>1. PoolAccounting /\ refused' = refused
    BY DEF PoolIInv, PoolIsSound
  <2>2. /\ Cardinality(PoolThreads) \in Nat /\ Cardinality(Spawning) \in Nat
        /\ Cardinality(Reserving) \in Nat
    BY <1>a, PoolNumber, AtNumber DEF Spawning, Reserving
  <2>3. /\ Pending' = Pending /\ Pending \in Int
        /\ Cardinality(Spawning') = Cardinality(Spawning)
        /\ Cardinality(Reserving') = Cardinality(Reserving)
    BY <1>3
  <2>4. NumWaitingThreads \in Nat /\ refused \in Nat
    BY <1>a
  <2> QED BY ONLY <1>1, <1>6, <2>1, <2>2, <2>3, <2>4 DEF PoolAccounting
<1>8. CreatorsCounted'
  BY <1>3, Zenon DEF CreatorsCounted, PoolIInv
<1>9. (\A t \in Thread \ spawned : pc[t] = "idle")'
  BY <1>a DEF PoolIInv, Go
<1> QED BY <1>2, <1>5, <1>7, <1>8, <1>9, Zenon DEF PoolIInv, PoolIsSound

(* A thread takes an object out of the buffer: one of the pool, or one that has
   just been counted as waiting. *)
LEMMA TakeKeeps ==
    ASSUME PoolIInv, IInv', NEW u \in spawned, NEW p, Go(u, p),
           ~ArgBufEmpty, TakeArgs(u), UNCHANGED <<spawned, onInsert, createVars>>,
           NumWaitingThreads' = NumWaitingThreads + One(pc[u] \notin {"idle", "starting"}),
           p \notin {"idle", "starting"}
    PROVE  PoolIInv'
<1> USE DEF createVars
<1>a. /\ PoolTypeOK /\ BufferIsSound /\ ObjectsAreApart
      /\ pc \in [Thread -> PC] /\ onRemove \subseteq Thread
      /\ u \in Thread /\ NumWaitingThreads \in Nat /\ refused \in Nat
  BY ONLY PoolIInv DEF PoolIInv, PoolIsSound, PoolTypeOK, TypeOK
<1>1. /\ BufferIsSound'
      /\ ObjectsAreApart'
      /\ AThreadArgBuffer' \in [0..ArgBufSize - 1 -> Job \cup {NoJob}]
      /\ {ArgBufFirst', ArgBufLast'} \subseteq 0..ArgBufSize - 1
      /\ runs' \in [Thread -> Job \cup {NoJob}]
      /\ started' \subseteq Job \cup {NoJob}
      /\ onRemove' \subseteq onRemove
      /\ Pending' = Pending - 1
  BY <1>a, TakeBuffer
<1> DEFINE k == One(pc[u] \notin {"idle", "starting"})
<1>2. k \in Nat /\ NumWaitingThreads' = NumWaitingThreads + k /\ NumWaitingThreads' \in Nat
  BY <1>a DEF One
<1> HIDE DEF k
<1>3. PoolTypeOK'
  BY <1>a, <1>1, <1>2, Zenon DEF PoolTypeOK, IInv
<1>4. Spawning' = Spawning /\ Reserving' = Reserving /\ Creators' = Creators
  BY DEF At, Spawning, Reserving, Creators
<1>5. Cardinality(PoolThreads') = Cardinality(PoolThreads) + k - 1
  <2>1. Cardinality(PoolThreads') =
          Cardinality(PoolThreads) - One(pc[u] \in {"idle", "starting"})
                                   + One(p \in {"idle", "starting"})
    BY <1>a, PlaceCounts
  <2> QED BY <1>a, <2>1, PoolNumber DEF One, k
<1>6. PoolAccounting'
  <2>1. PoolAccounting /\ refused' = refused
    BY DEF PoolIInv, PoolIsSound
  <2>2. /\ Cardinality(PoolThreads) \in Nat /\ Cardinality(Spawning) \in Nat
        /\ Cardinality(Reserving) \in Nat /\ Pending \in Int
    BY <1>a, PoolNumber, AtNumber, PendingNumber, Zenon DEF Spawning, Reserving
  <2>3. Pending' = Pending - 1
    BY <1>1
  <2> QED BY ONLY <1>a, <1>2, <1>4, <1>5, <2>1, <2>2, <2>3 DEF PoolAccounting
<1>7. CreatorsCounted'
  BY <1>4 DEF CreatorsCounted, PoolIInv
<1>8. (\A t \in Thread \ spawned : pc[t] = "idle")'
  BY <1>a DEF PoolIInv, Go
<1> QED BY <1>1, <1>3, <1>6, <1>7, <1>8, Zenon DEF PoolIInv, PoolIsSound

(* Every step keeps the inductive invariant. *)
LEMMA PoolNextInv == PoolIInv /\ [PoolNext]_allVars => PoolIInv'
<1> SUFFICES ASSUME PoolIInv, [PoolNext]_allVars PROVE PoolIInv'
  OBVIOUS
<1>a. IInv'
  BY PoolNextRefines, NextInv DEF PoolIInv, allVars
<1>b. /\ PoolTypeOK /\ TypeOK /\ pc \in [Thread -> PC] /\ spawned \subseteq Thread
      /\ step \in [Thread -> {"no", "prepare", "fullReserved", "fullNew", "signal", "spawn"}]
      /\ onInsert \subseteq Thread /\ onRemove \subseteq Thread /\ NumWaitingThreads \in Nat
  BY Zenon DEF PoolIInv, PoolIsSound, PoolTypeOK, TypeOK
<1>c. \A t \in Thread : pc[t] # "idle" => t \in spawned
  BY DEF PoolIInv
<1>d. UNCHANGED vars => PoolIsAlone
  BY DEF vars, PoolIsAlone
<1>1. ASSUME NEW t \in Thread, Prepared(t) PROVE PoolIInv'
  <2>1. Storing(t) /\ step[t] = "prepare"
    BY <1>1, Zenon DEF Prepared, Storing
  <2>2. UNCHANGED <<spawned, NumWaitingThreads, onInsert, creates, created,
                    returned, refused, runs, started>>
    BY <1>1, Zenon DEF Prepared
  <2>3. CASE Becomes(t, "no") /\ UNCHANGED <<vars, bufVars, onRemove>>
    BY <1>a, <1>b, <1>d, <2>1, <2>2, <2>3, AdvanceKeeps
  <2>4. CASE StoreOrWait(t, creates[t], FALSE) /\ ArgBufFull
    <3>1. PoolIsAlone /\ Becomes(t, "fullNew") /\ UNCHANGED bufVars /\ onRemove' \subseteq Thread
      BY <1>b, <2>4, ProtocolMoves DEF StoreOrWait, SleepOnRemove
    <3> QED BY <1>a, <2>1, <2>2, <3>1, AdvanceKeeps, Zenon
  <2>5. CASE StoreOrWait(t, creates[t], FALSE) /\ ~ArgBufFull
    <3>1. /\ PoolIsAlone /\ Becomes(t, "spawn") /\ onRemove' \subseteq Thread
          /\ StoreArgs(t, creates[t], FALSE)
      BY <1>b, <1>d, <2>5 DEF StoreOrWait, StoreArgs
    <3> QED BY Zenon, <1>a, <2>1, <2>2, <2>5, <3>1, AdvanceKeeps
  <2> QED BY Zenon, <1>1, <2>3, <2>4, <2>5 DEF Prepared
<1>2. ASSUME NEW t \in Thread, SlotFreed(t) PROVE PoolIInv'
  <2> DEFINE isWaiting == step[t] = "fullReserved"
  <2>1. Storing(t) /\ step[t] \in {"fullReserved", "fullNew"}
    BY <1>2, Zenon DEF SlotFreed, Storing
  <2>2. UNCHANGED <<spawned, NumWaitingThreads, onInsert, creates, created,
                    returned, refused, runs, started>>
    BY <1>2, Zenon DEF SlotFreed
  <2>3. CASE AEndBlocking(t) /\ UNCHANGED <<bufVars, onRemove, step>>
    <3>1. PoolIsAlone
      BY <1>b, <2>3, ProtocolMoves
    <3>2. Becomes(t, step[t])
      BY <1>b, <2>3 DEF Becomes
    <3> QED BY <1>a, <1>b, <2>1, <2>2, <2>3, <3>1, <3>2, AdvanceKeeps
  <2>4. CASE SleepOnRemove(t, isWaiting) /\ UNCHANGED vars
    <3>1. /\ PoolIsAlone /\ Becomes(t, step[t]) /\ UNCHANGED bufVars
          /\ onRemove' \subseteq Thread
      BY <1>b, <1>d, <2>1, <2>4 DEF SleepOnRemove
    <3> QED BY <1>a, <2>1, <2>2, <3>1, AdvanceKeeps, Zenon
  <2>5. CASE ~ArgBufFull /\ AEndBlocking(t) /\ StoreArgs(t, creates[t], isWaiting)
    <3>1. PoolIsAlone
      BY <1>b, <2>5, ProtocolMoves
    <3>2. /\ Becomes(t, IF step[t] = "fullReserved" THEN "signal" ELSE "spawn")
          /\ onRemove' \subseteq Thread
      BY <1>b, <2>5 DEF StoreArgs
    <3> QED BY <1>a, <2>1, <2>2, <2>5, <3>1, <3>2, AdvanceKeeps, Zenon
  <2> QED BY <1>2, <2>3, <2>4, <2>5, Zenon DEF SlotFreed
<1>3. ASSUME NEW u \in Thread, BeginNewThread(u) PROVE PoolIInv'
  <2>1. u \in spawned /\ pc[u] = "idle" /\ UNCHANGED <<spawned, NumWaitingThreads, createVars>>
    BY <1>3, Zenon DEF BeginNewThread
  <2>2. CASE ArgBufEmpty
    BY <1>a, <1>b, <1>d, <1>3, <2>2, PoolProtocolKeeps DEF BeginNewThread, TakeNothing
  <2>3. CASE ~ArgBufEmpty /\ AIsFreeze
    <3>1. /\ Go(u, "starting") /\ UNCHANGED <<bufVars, onRemove, onInsert, started, runs>>
          /\ NumWaitingThreads' = NumWaitingThreads + One(pc[u] \notin {"idle", "starting"})
      <4>1. Go(u, "starting") /\ UNCHANGED <<bufVars, onRemove, onInsert, started, runs>>
        BY ONLY <1>3, <2>3 DEF BeginNewThread, ThreadStart, TakeNothing
      <4>2. NumWaitingThreads' = NumWaitingThreads + One(pc[u] \notin {"idle", "starting"})
        BY ONLY <1>b, <2>1 DEF One
      <4> QED BY <4>1, <4>2, Zenon
    <3> QED BY <1>a, <1>b, <2>1, <3>1, RestKeeps
  <2>4. CASE ~ArgBufEmpty /\ ~AIsFreeze
    <3>1. /\ Go(u, "running") /\ TakeArgs(u) /\ UNCHANGED onInsert
          /\ NumWaitingThreads' = NumWaitingThreads + One(pc[u] \notin {"idle", "starting"})
      BY <1>b, <1>3, <2>1, <2>4 DEF BeginNewThread, ThreadStart, One
    <3> QED BY <1>a, <2>1, <2>4, <3>1, TakeKeeps
  <2> QED BY <2>2, <2>3, <2>4
<1>4. ASSUME NEW u \in Thread, BeginAfterFreeze(u) PROVE PoolIInv'
  <2>1. /\ u \in spawned /\ pc[u] = "starting" /\ UNCHANGED <<spawned, NumWaitingThreads, createVars>>
        /\ NumWaitingThreads' = NumWaitingThreads + One(pc[u] \notin {"idle", "starting"})
    BY <1>b, <1>c, <1>4 DEF BeginAfterFreeze, One
  <2>2. CASE AIsFreeze /\ ThreadStarted(u) /\ TakeNothing /\ UNCHANGED onInsert
    <3>1. Go(u, "starting") /\ UNCHANGED <<bufVars, onRemove, onInsert, started, runs>>
      BY <2>2, Zenon DEF ThreadStarted, DisallowFreezeNoLock, TakeNothing
    <3> QED BY <1>a, <1>b, <2>1, <3>1, RestKeeps, Zenon
  <2>3. CASE ~AIsFreeze /\ ~ArgBufEmpty /\ ThreadStarted(u) /\ TakeArgs(u) /\ UNCHANGED onInsert
    <3>1. Go(u, "running")
      BY <2>3, Zenon DEF ThreadStarted, DisallowFreezeNoLock
    <3> QED BY <1>a, <2>1, <2>3, <3>1, TakeKeeps
  <2>4. CASE ThreadBackOff(u) /\ onInsert' = onInsert \cup {u} /\ TakeNothing
    <3>1. Go(u, "idle") /\ UNCHANGED <<bufVars, onRemove, started, runs>>
      BY <2>4 DEF ThreadBackOff, TakeNothing
    <3> QED BY <1>a, <1>b, <2>1, <2>4, <3>1, RestKeeps
  <2> QED BY <1>4, <2>2, <2>3, <2>4 DEF BeginAfterFreeze
<1>5. ASSUME NEW u \in Thread, ThreadReturns(u) PROVE PoolIInv'
  <2>1. /\ u \in spawned /\ pc[u] = "running" /\ UNCHANGED <<spawned, createVars>>
        /\ NumWaitingThreads' = NumWaitingThreads + One(pc[u] \notin {"idle", "starting"})
    BY <1>b, <1>c, <1>5 DEF ThreadReturns, One
  <2>2. CASE /\ ThreadEnd(u) \/ ThreadAgain(u)
             /\ onInsert' \in {onInsert, onInsert \cup {u}}
             /\ runs' = [runs EXCEPT ![u] = NoJob]
             /\ UNCHANGED <<bufVars, onRemove, started>>
    <3>1. PICK p \in {"idle", "starting"} : Go(u, p)
      BY <2>2 DEF ThreadEnd, ThreadAgain
    <3> QED BY Zenon, <1>a, <1>b, <2>1, <2>2, <3>1, RestKeeps
  <2>3. CASE ~ArgBufEmpty /\ TakeArgs(u) /\ UNCHANGED <<vars, onInsert>>
    <3>1. Go(u, "running")
      BY <1>b, <2>1, <2>3 DEF Go, vars
    <3> QED BY <1>a, <2>1, <2>3, <3>1, TakeKeeps
  <2> QED BY <1>5, <2>2, <2>3, Zenon DEF ThreadReturns
<1>6. ASSUME NEW t \in Thread, Elsewhere(t) \/ FreezeSteps(t) \/ WakeUpUnasked(t)
      PROVE  PoolIInv'
  <2>1. PoolIsAlone
    BY <1>b, <1>d, <1>6, ProtocolMoves, Zenon DEF Elsewhere, FreezeSteps, WakeUpUnasked
  <2>2. /\ UNCHANGED <<spawned, NumWaitingThreads, bufVars, createVars, runs, started>>
        /\ onInsert' \subseteq Thread /\ onRemove' \subseteq Thread
    BY <1>b, <1>6, Zenon DEF Elsewhere, FreezeSteps, WakeUpUnasked, poolVars
  <2> QED BY <1>a, <2>1, <2>2, PoolProtocolKeeps
<1>7. CASE UNCHANGED allVars
  BY <1>a, <1>b, <1>d, <1>7, PoolProtocolKeeps DEF allVars, poolVars
<1> QED BY <1>a, <1>1, <1>2, <1>3, <1>4, <1>5, <1>6, <1>7, CreateKeeps, CreatedKeeps
        DEF PoolNext, PoolStep

(* The books of the pool balance and its buffer is sound, whatever the order in
   which AThreadCreate and BeginNewThread take the objects and the threads:
   every object in the buffer has an operating system thread of its own, and no
   object is lost or executed twice. *)
THEOREM PoolSound == PoolSpec => []PoolIsSound
<1>1. PoolIInv => PoolIsSound
  BY DEF PoolIInv
<1> QED BY <1>1, PoolInitInv, PoolNextInv, PTL DEF PoolSpec

=============================================================================
