------------------------------ MODULE GCLemmas ------------------------------
(***************************************************************************)
(* Facts about GC that its proofs rest on: what a walk over references     *)
(* visits, which sets of objects a collection may keep, and that the steps *)
(* of the program and the collections of the new generation keep the       *)
(* invariant.                                                              *)
(***************************************************************************)
EXTENDS GC, TLAPS

USE GCAssumption

-----------------------------------------------------------------------------
(* Trace: the smallest subset of N that has the roots in it and is closed. *)

(* A walk visits only objects of N, visits the roots that are in N, and
   whatever a visited object refers to. *)
LEMMA TraceWalks ==
    ASSUME NEW S, NEW N, NEW c
    PROVE  /\ H!Trace(S, N, c) \subseteq N
           /\ S \cap N \subseteq H!Trace(S, N, c)
           /\ \A p \in H!Trace(S, N, c), f \in Field :
                 c[p][f] \in N => c[p][f] \in H!Trace(S, N, c)
<1>1. H!Trace(S, N, c) \subseteq N
  BY DEF H!Trace
<1>2. S \cap N \subseteq H!Trace(S, N, c)
  BY DEF H!Trace
<1>3. ASSUME NEW p \in H!Trace(S, N, c), NEW f \in Field, c[p][f] \in N
      PROVE  c[p][f] \in H!Trace(S, N, c)
  <2>1. SUFFICES ASSUME NEW C \in SUBSET N, S \cap N \subseteq C,
                        \A q \in C, g \in Field : c[q][g] \in N => c[q][g] \in C
                 PROVE  c[p][f] \in C
    BY <1>3 DEF H!Trace
  <2>2. p \in C
    BY <2>1 DEF H!Trace
  <2>3. QED
    BY <1>3, <2>1, <2>2
<1>4. QED
  BY <1>1, <1>2, <1>3

(* It visits nothing else. *)
LEMMA TraceIsLeast ==
    ASSUME NEW S, NEW N, NEW c, NEW C, S \cap N \subseteq C,
           \A p \in C, f \in Field : c[p][f] \in N => c[p][f] \in C
    PROVE  H!Trace(S, N, c) \subseteq C
<1>1. S \cap N \subseteq C \cap N
  OBVIOUS
<1>2. \A p \in C \cap N, f \in Field : c[p][f] \in N => c[p][f] \in C \cap N
  OBVIOUS
<1>3. C \cap N \in SUBSET N
  OBVIOUS
<1>4. H!Trace(S, N, c) \subseteq C \cap N
  BY <1>1, <1>2, <1>3 DEF H!Trace
<1>5. QED
  BY <1>4

-----------------------------------------------------------------------------
(* A set of objects survives a collection that frees the others: the variables
   and its own references stay within it. *)
Survives(L) ==
    /\ L \subseteq Alive
    /\ Roots \subseteq L \cup {Nil}
    /\ \A o \in L, f \in Field : field[o][f] \in L \cup {Nil}

LEMMA AliveIsObj == Alive \subseteq Obj /\ Kept \subseteq Alive
BY DEF Alive, Kept, Objects

LEMMA HeapRoots ==
    ASSUME GCTypeOK
    PROVE  H!Roots = Roots
<1>1. \A i \in 1..sp : i \in 1..StackSize /\ i <= sp
  BY DEF GCTypeOK
<1>2. {[k \in 1..StackSize |-> IF k <= sp THEN stack[k] ELSE Nil][i] : i \in 1..sp}
        = {stack[i] : i \in 1..sp}
  BY <1>1
<1>3. QED
  BY <1>2 DEF H!Roots, Roots

(* What survives includes what the program can reach. *)
LEMMA ReachableSurvives ==
    ASSUME GCTypeOK, NEW L, Survives(L)
    PROVE  H!Reachable \subseteq L
<1>1. Roots \cap Obj \subseteq L
  BY DEF Survives
<1>2. \A p \in L, f \in Field : field[p][f] \in Obj => field[p][f] \in L
  BY DEF Survives
<1>3. H!Trace(Roots, Obj, field) \subseteq L
  BY <1>1, <1>2, TraceIsLeast
<1>4. QED
  BY <1>3, HeapRoots DEF H!Reachable

LEMMA AliveSurvives ==
    ASSUME GCIInv
    PROVE  Survives(Alive)
BY DEF GCIInv, RootsAreAlive, RefsAreAlive, Survives

(* ACollectAllGarbage keeps what is reachable. *)
LEMMA ReachableItself ==
    ASSUME GCIInv
    PROVE  Survives(H!Reachable)
<1> USE DEF GCIInv
<1>1. H!Reachable \subseteq Alive
  BY AliveSurvives, ReachableSurvives
<1>2. H!Reachable = H!Trace(Roots, Obj, field)
  BY HeapRoots DEF H!Reachable
<1>3. Roots \subseteq H!Reachable \cup {Nil}
  BY <1>2, TraceWalks, AliveIsObj DEF RootsAreAlive
<1>4. ASSUME NEW o \in H!Reachable, NEW f \in Field
      PROVE  field[o][f] \in H!Reachable \cup {Nil}
  <2>1. field[o][f] \in Obj \cup {Nil}
    BY <1>1, AliveIsObj DEF RefsAreAlive
  <2>2. QED
    BY <1>2, <2>1, TraceWalks
<1>5. QED
  BY <1>1, <1>3, <1>4 DEF Survives

(* The collection of the new generation keeps the old one and LiveNew. *)
LEMMA LiveNewSurvives ==
    ASSUME GCIInv
    PROVE  /\ LiveNew \subseteq Objects("new")
           /\ NewRefValues \cap Objects("new") \subseteq LiveNew
           /\ Survives(Kept \cup LiveNew)
<1> USE DEF GCIInv
<1>1. LiveNew \subseteq Objects("new")
  BY TraceWalks DEF LiveNew
<1>2. (Roots \cup NewRefValues) \cap Objects("new") \subseteq LiveNew
  BY TraceWalks DEF LiveNew
<1>3. \A o \in LiveNew, f \in Field :
         field[o][f] \in Objects("new") => field[o][f] \in LiveNew
  BY TraceWalks DEF LiveNew
<1>4. Kept \cup LiveNew \subseteq Alive
  BY <1>1 DEF Alive
<1>5. Roots \subseteq Kept \cup LiveNew \cup {Nil}
  BY <1>2 DEF RootsAreAlive, Alive
<1>6. ASSUME NEW o \in Kept \cup LiveNew, NEW f \in Field
      PROVE  field[o][f] \in Kept \cup LiveNew \cup {Nil}
  <2>1. field[o][f] \in Alive \cup {Nil}
    BY <1>4 DEF RefsAreAlive
  <2>2. CASE field[o][f] \in Objects("new") /\ o \in Kept
    <3>1. <<o, f>> \in newRef
      BY <1>4, <2>2 DEF RefsAreAlive
    <3>2. field[o][f] # Nil
      BY <2>2 DEF Objects
    <3>3. field[o][f] \in NewRefValues
      BY <3>1, <3>2 DEF NewRefValues
    <3>4. QED
      BY <1>2, <2>2, <3>3
  <2>3. CASE field[o][f] \in Objects("new") /\ o \notin Kept
    BY <1>3, <2>3
  <2>4. QED
    BY <2>1, <2>2, <2>3 DEF Alive
<1>7. QED
  BY <1>1, <1>2, <1>4, <1>5, <1>6 DEF Survives

(* Where Mark has read, or G lists, all that marked objects refer to, a walk
   from the variables and G completes the marks. *)
LEMMA MarkCompletes ==
    ASSUME GCIInv, AGCState = "mark", NEW G,
           Roots \subseteq G,
           \A o \in marked, f \in Field : field[o][f] \in {Nil} \cup marked \cup G
    PROVE  Survives(marked \cup H!Trace(G, OldAfterRescan \ marked, field))
<1> DEFINE N == OldAfterRescan \ marked
           T == H!Trace(G, N, field)
<1>1. Survives(OldAfterRescan)
  <2>1. Kept = Objects("old")
    BY DEF GCIInv, PhasesAreSound, Kept, Doomed
  <2>2. QED
    BY <2>1, LiveNewSurvives DEF OldAfterRescan
<1>2. marked \subseteq OldAfterRescan
  BY DEF GCIInv, PhasesAreSound, OldAfterRescan
<1>3. /\ T \subseteq N
      /\ G \cap N \subseteq T
      /\ \A p \in T, f \in Field : field[p][f] \in N => field[p][f] \in T
  BY TraceWalks
<1> HIDE DEF T
<1>4. marked \cup T \subseteq OldAfterRescan
  BY <1>2, <1>3
<1>5. marked \cup T \subseteq Alive
  BY <1>1, <1>4 DEF Survives
<1>6. Roots \subseteq marked \cup T \cup {Nil}
  BY <1>1, <1>3 DEF Survives
<1>7. ASSUME NEW o \in marked \cup T, NEW f \in Field
      PROVE  field[o][f] \in marked \cup T \cup {Nil}
  <2>1. field[o][f] \in OldAfterRescan \cup {Nil}
    BY <1>1, <1>4 DEF Survives
  <2>2. CASE o \in marked
    BY <1>3, <2>1, <2>2
  <2>3. CASE o \in T
    BY <1>3, <2>1, <2>3
  <2>4. QED
    BY <2>2, <2>3
<1>8. Survives(marked \cup T)
  BY <1>5, <1>6, <1>7 DEF Survives
<1>9. QED
  BY <1>8 DEF T

(* The marks are complete when the second Mark of a cycle ends. *)
LEMMA RescanSurvives ==
    ASSUME GCIInv, AGCState = "mark", NothingGray
    PROVE  Survives(MarkedAfterRescan)
<1>1. ASSUME NEW o \in marked, NEW f \in Field
      PROVE  field[o][f] \in {Nil} \cup marked \cup (Roots \cup RetireUntraced)
  <2>1. field[o][f] \in {Nil} \cup marked \cup untraced \/ <<o, f>> \in newRef
    BY DEF GCIInv, MarkedIsTraced, NothingGray
  <2>2. <<o, f>> \in newRef => field[o][f] \in NewRefValues \cup {Nil}
    BY DEF NewRefValues
  <2>3. QED
    BY <2>1, <2>2 DEF RetireUntraced
<1>2. QED
  BY <1>1, MarkCompletes DEF MarkedAfterRescan

(* ADisallowOldGenGC may finish the cycle in any phase. *)
LEMMA CycleSurvives ==
    ASSUME GCIInv, AGCState # "none"
    PROVE  Survives(LiveAfterCycle)
<1>1. CASE AGCState = "mark"
  <2> DEFINE G == GrayValues \cup Roots \cup RetireUntraced
  <2>1. ASSUME NEW o \in marked, NEW f \in Field
        PROVE  field[o][f] \in {Nil} \cup marked \cup G
    <3>1. \/ field[o][f] \in {Nil} \cup marked \cup untraced \cup grayObj
          \/ <<o, f>> \in grayField \cup newRef
      BY <1>1 DEF GCIInv, MarkedIsTraced
    <3>2. <<o, f>> \in newRef => field[o][f] \in NewRefValues \cup {Nil}
      BY DEF NewRefValues
    <3>3. <<o, f>> \in grayField => field[o][f] \in GrayValues
      BY DEF GrayValues
    <3>4. grayObj \subseteq GrayValues
      BY DEF GrayValues
    <3>5. QED
      BY <1>1, <3>1, <3>2, <3>3, <3>4 DEF RetireUntraced
  <2>2. Roots \subseteq G
    OBVIOUS
  <2> HIDE DEF G
  <2>3. Survives(marked \cup H!Trace(G, OldAfterRescan \ marked, field))
    BY <1>1, <2>1, <2>2, MarkCompletes
  <2>4. QED
    BY <1>1, <2>3 DEF LiveAfterCycle, G
<1>2. CASE AGCState = "sweep"
  <2>1. LiveAfterCycle = Kept \cup LiveNew
    BY <1>2 DEF LiveAfterCycle, Kept, Doomed, GCIInv, PhasesAreSound
  <2>2. QED
    BY <2>1, LiveNewSurvives
<1>3. QED
  BY <1>1, <1>2 DEF GCIInv, GCTypeOK


-----------------------------------------------------------------------------
(* GCIInv is inductive.  First the program's steps. *)

LEMMA GCInitInv ==
    ASSUME GCInit
    PROVE  GCIInv
<1> USE DEF GCInit, Objects, Empty
<1>1. GCTypeOK
  <2>1. field \in [Obj -> [Field -> Value]]
    BY DEF Value
  <2>2. sp \in 0..StackSize /\ markBottom \in 0..StackSize
    OBVIOUS
  <2>3. stack \in [1..StackSize -> Value \cup {Stale}]
    BY DEF Value
  <2>4. OldGenGCDisallowCount \in 0..MaxDisallow
    OBVIOUS
  <2>5. gen \in [Obj -> {"free", "new", "old"}]
    OBVIOUS
  <2>6. fin \in [Obj -> {"no", "new", "old", "run"}]
    OBVIOUS
  <2>7. QED
    BY <2>1, <2>2, <2>3, <2>4, <2>5, <2>6, Zenon DEF GCTypeOK, Value
<1>2. Kept = {} /\ Alive = {}
  BY DEF Kept, Alive
<1>3. PhasesAreSound /\ FreeIsEmpty
  BY DEF PhasesAreSound, NothingGray, FreeIsEmpty
<1>4. RootsAreAlive
  BY DEF RootsAreAlive, Roots
<1>5. RefsAreAlive /\ ListsAreKept /\ MarkedIsTraced
  BY <1>2 DEF RefsAreAlive, ListsAreKept, MarkedIsTraced
<1>6. SlowIsSound /\ FinalizersFollow
  BY DEF SlowIsSound, FinalizersFollow
<1>7. QED
  BY <1>1, <1>3, <1>4, <1>5, <1>6 DEF GCIInv

LEMMA SameObjects ==
    ASSUME UNCHANGED <<gen, marked, unswept>>
    PROVE  /\ \A g : Objects(g)' = Objects(g)
           /\ Kept' = Kept /\ Alive' = Alive
BY DEF Objects, Kept, Alive, Doomed

(* A step that only moves values between variables leaves the collector's own
   state as sound as it was. *)
LEMMA UnmovedKeeps ==
    ASSUME GCIInv, Unmoved, UNCHANGED field
    PROVE  /\ Kept' = Kept /\ Alive' = Alive
           /\ (PhasesAreSound /\ FreeIsEmpty /\ RefsAreAlive)'
           /\ (ListsAreKept /\ MarkedIsTraced /\ FinalizersFollow)'
<1> USE DEF Unmoved, listVars, markVars, grayVars
<1>1. /\ \A g : Objects(g)' = Objects(g)
      /\ Kept' = Kept /\ Alive' = Alive
  BY SameObjects
<1>2. (PhasesAreSound /\ FreeIsEmpty)'
  BY <1>1 DEF GCIInv, PhasesAreSound, FreeIsEmpty, NothingGray, Empty
<1>3. (RefsAreAlive /\ ListsAreKept)'
  BY <1>1 DEF GCIInv, RefsAreAlive, ListsAreKept
<1>4. (MarkedIsTraced /\ FinalizersFollow)'
  BY <1>1 DEF GCIInv, MarkedIsTraced, FinalizersFollow
<1>5. QED
  BY <1>1, <1>2, <1>3, <1>4

(* What the program reads is alive. *)
LEMMA ReadableIsAlive ==
    ASSUME GCIInv
    PROVE  H!Readable \subseteq Alive \cup {Nil}
<1>1. H!Roots \subseteq Alive \cup {Nil}
  BY HeapRoots DEF GCIInv, RootsAreAlive
<1>2. H!Roots \cap Obj \subseteq Alive
  BY <1>1
<1>3. \A o \in H!Roots \cap Obj, f \in Field : field[o][f] \in Alive \cup {Nil}
  BY <1>2 DEF GCIInv, RefsAreAlive
<1>4. QED
  BY <1>1, <1>3 DEF H!Readable

LEMMA InUseIsRoot ==
    ASSUME GCTypeOK, NEW l \in Location, InUse(l)
    PROVE  Val(l) \in Roots
<1>1. CASE l = 0
  BY <1>1 DEF InUse, Val, Roots
<1>2. CASE l # 0
  <2>1. l \in 1..sp
    BY <1>2 DEF InUse, Location, GCTypeOK
  <2>2. QED
    BY <1>2, <2>1 DEF Val, Roots
<1>3. QED
  BY <1>1, <1>2

(* The pending assignment is not disturbed while its variables keep their
   values. *)
LEMMA SlowKeeps ==
    ASSUME GCIInv, UNCHANGED slow, Kept' = Kept,
           \A l \in Location : InUse(l) => InUse(l)' /\ Val(l)' = Val(l)
    PROVE  SlowIsSound'
<1>1. CASE slow = NoSlow
  BY <1>1 DEF SlowIsSound, NoSlow
<1>2. CASE slow # NoSlow
  <2>1. slow.i \in Location /\ slow.j \in Location
    BY <1>2 DEF GCIInv, SlowIsSound
  <2>2. InUse(slow.i)' /\ InUse(slow.j)'
    BY <1>2, <2>1 DEF GCIInv, SlowIsSound
  <2>3. Val(slow.i)' = Val(slow.i) /\ Val(slow.j)' = Val(slow.j)
    BY <1>2, <2>1 DEF GCIInv, SlowIsSound
  <2>4. QED
    BY <1>2, <2>2, <2>3 DEF GCIInv, SlowIsSound, NoSlow, Location, Value
<1>3. QED
  BY <1>1, <1>2

LEMMA PushKeeps ==
    ASSUME GCIInv, NEW v \in Value, Push(v)
    PROVE  GCIInv'
<1> USE DEF Push
<1>1. GCTypeOK'
  <2>1. sp' \in 0..StackSize /\ sp' \in 1..StackSize
    BY DEF GCIInv, GCTypeOK
  <2>2. stack' \in [1..StackSize -> Value \cup {Stale}]
    BY <2>1 DEF GCIInv, GCTypeOK
  <2>3. QED
    BY <2>1, <2>2 DEF GCIInv, GCTypeOK, Unmoved, listVars, markVars, grayVars,
                      Value, NoSlow
<1>2. \A i \in 1..sp : i \in 1..sp' /\ stack'[i] = stack[i]
  BY DEF GCIInv, GCTypeOK
<1>3. RootsAreAlive'
  <2>1. \A i \in 1..sp' : i = sp' \/ i \in 1..sp
    BY DEF GCIInv, GCTypeOK
  <2>2. stack'[sp'] = v
    BY DEF GCIInv, GCTypeOK
  <2>3. v \in Alive \cup {Nil}
    BY ReadableIsAlive
  <2>4. Alive' = Alive
    BY UnmovedKeeps
  <2>5. QED
    BY <1>2, <2>1, <2>2, <2>3, <2>4 DEF GCIInv, RootsAreAlive, Roots
<1>4. SlowIsSound'
  <2>1. \A l \in Location : InUse(l) => InUse(l)' /\ Val(l)' = Val(l)
    BY <1>2 DEF Location, InUse, Val, GCIInv, GCTypeOK
  <2>2. Kept' = Kept
    BY UnmovedKeeps
  <2>3. QED
    BY <2>1, <2>2, SlowKeeps
<1>5. QED
  BY <1>1, <1>3, <1>4, UnmovedKeeps DEF GCIInv


LEMMA PopKeeps ==
    ASSUME GCIInv, Pop
    PROVE  GCIInv'
<1> USE DEF Pop
<1>1. GCTypeOK'
  <2>1. sp' \in 0..StackSize /\ sp \in 1..StackSize
    BY DEF GCIInv, GCTypeOK
  <2>2. stack' \in [1..StackSize -> Value \cup {Stale}]
    BY <2>1 DEF GCIInv, GCTypeOK, Value
  <2>3. QED
    BY <2>1, <2>2 DEF GCIInv, GCTypeOK, Unmoved, listVars, markVars, grayVars,
                      Value, NoSlow
<1>2. RootsAreAlive'
  <2>1. \A i \in 1..sp' : i \in 1..sp /\ stack'[i] = stack[i]
    BY DEF GCIInv, GCTypeOK
  <2>2. Alive' = Alive
    BY UnmovedKeeps
  <2>3. QED
    BY <2>1, <2>2 DEF GCIInv, RootsAreAlive, Roots
<1>3. SlowIsSound'
  BY DEF SlowIsSound, NoSlow
<1>4. QED
  BY <1>1, <1>2, <1>3, UnmovedKeeps DEF GCIInv

LEMMA AllocTempKeeps ==
    ASSUME GCIInv, NEW i \in 1..StackSize, AAllocTemp(i)
    PROVE  GCIInv'
<1> USE DEF AAllocTemp
<1>1. GCTypeOK'
  BY DEF GCIInv, GCTypeOK, Unmoved, listVars, markVars, grayVars, Value, NoSlow
<1>2. RootsAreAlive'
  <2>1. Roots' \subseteq Roots
    BY DEF Roots
  <2>2. QED
    BY <2>1, UnmovedKeeps DEF GCIInv, RootsAreAlive
<1>3. SlowIsSound'
  <2>1. \A l \in Location : InUse(l) => InUse(l)' /\ Val(l)' = Val(l)
    BY DEF InUse, Val
  <2>2. Kept' = Kept
    BY UnmovedKeeps
  <2>3. QED
    BY <2>1, <2>2, SlowKeeps
<1>4. QED
  BY <1>1, <1>2, <1>3, UnmovedKeeps DEF GCIInv

LEMMA FreeTempKeeps ==
    ASSUME GCIInv, AFreeTemp
    PROVE  GCIInv'
<1> USE DEF AFreeTemp
<1>1. GCTypeOK'
  BY DEF GCIInv, GCTypeOK, Unmoved, listVars, markVars, grayVars, Value, NoSlow
<1>2. RootsAreAlive'
  <2>1. Roots' \subseteq Roots
    BY DEF Roots
  <2>2. QED
    BY <2>1, UnmovedKeeps DEF GCIInv, RootsAreAlive
<1>3. SlowIsSound'
  BY DEF SlowIsSound, NoSlow
<1>4. QED
  BY <1>1, <1>2, <1>3, UnmovedKeeps DEF GCIInv

LEMMA AllocKeeps ==
    ASSUME GCIInv, NEW o \in Obj, AAlloc(o)
    PROVE  GCIInv'
<1> USE DEF AAlloc
<1>1. /\ sp' \in 1..StackSize
      /\ stack' \in [1..StackSize -> Value \cup {Stale}] /\ stack'[sp'] = o
      /\ \A i \in 1..sp : stack'[i] = stack[i]
      /\ \A i \in 1..sp' : i = sp' \/ i \in 1..sp
  BY DEF GCIInv, GCTypeOK, Value
<1>2. GCTypeOK'
  <2>1. gen' \in [Obj -> {"free", "new", "old"}]
    BY DEF GCIInv, GCTypeOK
  <2>2. fin' \in [Obj -> {"no", "new", "old", "run"}]
    BY DEF GCIInv, GCTypeOK
  <2>3. sp' \in 0..StackSize
    BY <1>1
  <2>4. QED
    BY <1>1, <2>1, <2>2, <2>3
       DEF GCIInv, GCTypeOK, listVars, markVars, grayVars, Value, NoSlow
<1>3. /\ Objects("old")' = Objects("old") /\ Objects("new")' = Objects("new") \cup {o}
      /\ Objects("free")' \subseteq Objects("free")
      /\ o \notin Objects("old") /\ o \notin Objects("new")
  BY DEF Objects, GCIInv, GCTypeOK
<1>4. /\ Kept' = Kept /\ Alive' = Alive \cup {o} /\ o \notin Alive
  BY <1>3 DEF Kept, Alive, Doomed, markVars
<1>5. PhasesAreSound'
  BY <1>3 DEF GCIInv, PhasesAreSound, NothingGray, markVars, grayVars
<1>6. FreeIsEmpty'
  BY <1>3 DEF GCIInv, FreeIsEmpty, Empty
<1>7. RootsAreAlive'
  BY <1>1, <1>4 DEF GCIInv, RootsAreAlive, Roots
<1>8. RefsAreAlive'
  <2>1. \A f \in Field : field[o][f] = Nil
    BY DEF GCIInv, FreeIsEmpty, Objects, Empty
  <2>2. ASSUME NEW p \in Alive', NEW f \in Field
        PROVE  /\ field[p][f] \in Alive \cup {o} \cup {Nil}
               /\ p \in Kept /\ field[p][f] \in Objects("new") \cup {o}
                     => <<p, f>> \in newRef
    <3>1. CASE p = o
      BY <1>4, <2>1, <3>1, AliveIsObj
    <3>2. CASE p \in Alive
      BY <1>4, <3>2 DEF GCIInv, RefsAreAlive
    <3>3. QED
      BY <1>4, <3>1, <3>2
  <2>3. QED
    BY <1>3, <1>4, <2>2 DEF RefsAreAlive, listVars
<1>9. (ListsAreKept /\ MarkedIsTraced)'
  BY <1>4 DEF GCIInv, ListsAreKept, MarkedIsTraced, listVars, markVars, grayVars
<1>10. SlowIsSound'
  <2>1. \A l \in Location : InUse(l) => InUse(l)' /\ Val(l)' = Val(l)
    BY <1>1 DEF Location, InUse, Val, GCIInv, GCTypeOK
  <2>2. QED
    BY <1>4, <2>1, SlowKeeps
<1>11. FinalizersFollow'
  BY <1>3, <1>4 DEF GCIInv, GCTypeOK, FinalizersFollow
<1>12. QED
  BY <1>2, <1>5, <1>6, <1>7, <1>8, <1>9, <1>10, <1>11 DEF GCIInv


(* The write barrier: an assignment keeps the invariant if newRef learns of a
   new object in an old one, and some list learns of an unmarked old object in
   a marked one. *)
LEMMA AssignKeeps ==
    ASSUME GCIInv, NEW i \in Location, NEW f \in Field, NEW v \in Roots,
           InUse(i), Val(i) \in Obj, Assigned(i, f, v),
           newRef \subseteq newRef', newRef' \subseteq newRef \cup {<<Val(i), f>>},
           untraced \subseteq untraced', untraced' \subseteq untraced \cup {v},
           newRef' # newRef => gen[Val(i)] = "old",
           untraced' # untraced => v \in Kept,
           gen[Val(i)] = "old" /\ v \in Objects("new") => <<Val(i), f>> \in newRef',
           AGCState = "mark" /\ gen[Val(i)] = "old" /\ v \in Objects("old")
             => v \in marked \cup untraced' \/ <<Val(i), f>> \in newRef',
           slow' = slow \/ slow' = NoSlow
    PROVE  GCIInv'
<1> DEFINE o == Val(i)
<1>1. /\ UNCHANGED <<gen, stack, sp, temp, tempUsed, marked, unswept, fin, AGCState,
                     graySlot, grayTemp, grayField, grayObj, markBottom,
                     OldGenGCDisallowCount>>
      /\ field' = [field EXCEPT ![o][f] = v]
  BY DEF Assigned, markVars, grayVars
<1>2. /\ \A g : Objects(g)' = Objects(g)
      /\ Kept' = Kept /\ Alive' = Alive
  BY <1>1, SameObjects
<1>3. v \in Alive \cup {Nil} /\ v \in Value
  BY AliveIsObj DEF GCIInv, RootsAreAlive, Value
<1>4. o \in Alive
  <2>1. o \in Roots
    BY InUseIsRoot DEF GCIInv
  <2>2. QED
    BY <2>1 DEF GCIInv, RootsAreAlive
<1> HIDE DEF o
<1>5. /\ field' \in [Obj -> [Field -> Value]]
      /\ \A p \in Obj, g \in Field :
            field'[p][g] = IF p = o /\ g = f THEN v ELSE field[p][g]
  <2>1. field \in [Obj -> [Field -> Value]]
    BY DEF GCIInv, GCTypeOK
  <2>2. field' = [field EXCEPT ![o] = [@ EXCEPT ![f] = v]]
    BY <1>1
  <2>3. QED
    BY <1>3, <2>1, <2>2
<1>6. o \in Obj /\ (o \in Kept => gen[o] = "old") /\ (gen[o] = "old" => o \in Kept)
  BY <1>4 DEF Alive, Kept, Objects
<1>7. GCTypeOK'
  <2>1. newRef' \subseteq Obj \X Field
    BY <1>6 DEF GCIInv, GCTypeOK, o
  <2>2. untraced' \subseteq Obj
    BY AliveIsObj DEF GCIInv, GCTypeOK
  <2>3. slow' = NoSlow \/ slow'.kind \in {"newRef", "untraced"}
    BY DEF GCIInv, GCTypeOK
  <2>4. NoSlow' = NoSlow /\ Value' = Value
    BY DEF NoSlow, Value
  <2>5. QED
    BY <1>1, <1>5, <2>1, <2>2, <2>3, <2>4 DEF GCIInv, GCTypeOK
<1>8. PhasesAreSound'
  BY <1>1, <1>2 DEF GCIInv, PhasesAreSound, NothingGray
<1>9. FreeIsEmpty'
  <2>1. o \notin Objects("free")
    BY <1>4 DEF Alive, Kept, Objects
  <2>2. \A p \in Obj : p # o => field'[p] = field[p]
    BY <1>1 DEF GCIInv, GCTypeOK
  <2>3. QED
    BY <1>2, <2>1, <2>2 DEF GCIInv, FreeIsEmpty, Empty, Objects
<1>10. RootsAreAlive'
  BY <1>1, <1>2 DEF GCIInv, RootsAreAlive, Roots
<1>11. RefsAreAlive'
  <2>1. ASSUME NEW p \in Alive, NEW g \in Field
        PROVE  /\ field'[p][g] \in Alive \cup {Nil}
               /\ p \in Kept /\ field'[p][g] \in Objects("new") => <<p, g>> \in newRef'
    <3>1. CASE p = o /\ g = f
      BY <1>3, <1>5, <1>6, <3>1 DEF o
    <3>2. CASE ~(p = o /\ g = f)
      BY <1>5, <3>2, AliveIsObj DEF GCIInv, RefsAreAlive
    <3>3. QED
      BY <3>1, <3>2
  <2>2. QED
    BY <1>2, <2>1 DEF RefsAreAlive
<1>12. ListsAreKept'
  <2>1. \A l \in newRef' : l[1] \in Kept
    BY <1>6 DEF GCIInv, ListsAreKept, o
  <2>2. untraced' \cup grayObj \subseteq Kept
    BY DEF GCIInv, ListsAreKept
  <2>3. QED
    BY <1>1, <1>2, <2>1, <2>2 DEF ListsAreKept
<1>13. MarkedIsTraced'
  <2>1. ASSUME AGCState = "mark", NEW p \in marked, NEW g \in Field
        PROVE  \/ field'[p][g] \in {Nil} \cup marked \cup untraced' \cup grayObj
               \/ <<p, g>> \in grayField \cup newRef'
    <3>1. p \in Objects("old") /\ p \in Obj
      BY DEF GCIInv, PhasesAreSound, Objects
    <3>2. CASE p = o /\ g = f
      <4>1. field'[p][g] = v /\ gen[o] = "old"
        BY <1>5, <3>1, <3>2 DEF Objects
      <4>2. v \in {Nil} \cup Objects("old") \cup Objects("new")
        BY <1>3 DEF Alive, Kept
      <4>3. QED
        BY <2>1, <3>2, <4>1, <4>2 DEF o
    <3>3. CASE ~(p = o /\ g = f)
      <4>1. field'[p][g] = field[p][g]
        BY <1>5, <3>1, <3>3
      <4>2. QED
        BY <2>1, <4>1 DEF GCIInv, MarkedIsTraced
    <3>4. QED
      BY <3>2, <3>3
  <2>2. QED
    BY <1>1, <2>1 DEF MarkedIsTraced
<1>14. SlowIsSound'
  <2>1. CASE slow' = NoSlow
    BY <2>1 DEF SlowIsSound, NoSlow
  <2>2. CASE slow' = slow
    <3>1. \A l \in Location : InUse(l) => InUse(l)' /\ Val(l)' = Val(l)
      BY <1>1 DEF InUse, Val
    <3>2. QED
      BY <1>2, <2>2, <3>1, SlowKeeps
  <2>3. QED
    BY <2>1, <2>2
<1>15. FinalizersFollow'
  BY <1>1, <1>2 DEF GCIInv, FinalizersFollow
<1>16. QED
  BY <1>7, <1>8, <1>9, <1>10, <1>11, <1>12, <1>13, <1>14, <1>15 DEF GCIInv

LEMMA ModifyKeeps ==
    ASSUME GCIInv, NEW i \in Location, NEW f \in Field, NEW j \in Location,
           AModifyObject(i, f, j)
    PROVE  GCIInv'
<1> USE DEF AModifyObject, Modifiable
<1>1. Val(j) \in Roots
  BY InUseIsRoot DEF GCIInv
<1>2. newRef' # newRef => gen[Val(i)] = "old"
  BY DEF IsNewRef
<1>3. untraced' # untraced => Val(j) \in Kept
  BY DEF IsUntraced, Kept, Doomed, GCIInv, PhasesAreSound
<1>4. gen[Val(i)] = "old" /\ Val(j) \in Objects("new") => <<Val(i), f>> \in newRef'
  BY DEF IsNewRef
<1>5. AGCState = "mark" /\ gen[Val(i)] = "old" /\ Val(j) \in Objects("old")
        => Val(j) \in marked \cup untraced'
  BY DEF IsUntraced
<1>6. QED
  BY <1>1, <1>2, <1>3, <1>4, <1>5, AssignKeeps

LEMMA AdvanceListKeeps ==
    ASSUME GCIInv, NEW i \in Location, NEW f \in Field, NEW j \in Location,
           AdvanceList(i, f, j)
    PROVE  GCIInv'
<1> USE DEF AdvanceList, Modifiable
<1>1. UNCHANGED <<field, stack, sp, temp, tempUsed>>
  BY DEF progVars
<1>2. Val(i) \in Alive /\ Val(j) \in Alive \cup {Nil}
  BY InUseIsRoot DEF GCIInv, RootsAreAlive
<1>3. Val(i) \in Kept
  BY <1>2 DEF IsNewRef, IsUntraced, Alive, Objects
<1>4. GCTypeOK'
  BY <1>1 DEF GCIInv, GCTypeOK, Unmoved, listVars, markVars, grayVars, Value, NoSlow
<1>5. RootsAreAlive'
  BY <1>1, UnmovedKeeps DEF GCIInv, RootsAreAlive, Roots
<1>6. SlowIsSound'
  <2>1. slow'.kind = "untraced" => Val(j) \in Kept
    BY <1>2 DEF IsNewRef, IsUntraced, Alive, Objects
  <2>2. Val(j) \in Value
    BY <1>2, AliveIsObj DEF Value
  <2>3. slow' \in [kind : {"newRef", "untraced"}, i : Location, f : Field,
                   j : Location, newVal : Value \cup {Stale}]
    BY <2>2
  <2>4. \A l : InUse(l)' = InUse(l) /\ Val(l)' = Val(l)
    BY <1>1 DEF InUse, Val
  <2>5. Kept' = Kept
    BY <1>1, UnmovedKeeps
  <2>6. slow'.i = i /\ slow'.j = j /\ slow'.newVal = Val(j)
    OBVIOUS
  <2>7. QED
    BY <1>3, <2>1, <2>3, <2>4, <2>5, <2>6 DEF SlowIsSound, Location, Value
<1>7. QED
  BY <1>1, <1>4, <1>5, <1>6, UnmovedKeeps DEF GCIInv

LEMMA ModifyAfterAdvanceKeeps ==
    ASSUME GCIInv, ModifyAfterAdvance
    PROVE  GCIInv'
<1> USE DEF ModifyAfterAdvance
<1>1. /\ slow \in [kind : {"newRef", "untraced"}, i : Location, f : Field,
                   j : Location, newVal : Value \cup {Stale}]
      /\ InUse(slow.i) /\ InUse(slow.j) /\ Val(slow.i) \in Kept
      /\ slow.kind = "untraced" => slow.newVal = Val(slow.j) /\ slow.newVal \in Kept
  BY DEF GCIInv, SlowIsSound
<1>2. slow.i \in Location /\ slow.j \in Location /\ slow.f \in Field
  BY <1>1
<1>3. Val(slow.j) \in Roots
  BY <1>1, <1>2, InUseIsRoot DEF GCIInv
<1>4. Val(slow.i) \in Obj /\ gen[Val(slow.i)] = "old"
  BY <1>1 DEF Kept, Objects
<1>5. CASE slow.kind = "newRef"
  BY <1>1, <1>2, <1>3, <1>4, <1>5, AssignKeeps
<1>6. CASE slow.kind = "untraced"
  <2>1. /\ untraced' = untraced \cup {Val(slow.j)} /\ newRef' = newRef
        /\ Assigned(slow.i, slow.f, Val(slow.j))
    BY <1>1, <1>6
  <2>2. Val(slow.j) \in Kept
    BY <1>1, <1>6
  <2>3. Val(slow.j) \notin Objects("new")
    BY <2>2 DEF Kept, Objects
  <2>4. QED
    BY <1>1, <1>2, <1>3, <1>4, <2>1, <2>2, <2>3, AssignKeeps
<1>7. QED
  BY <1>1, <1>5, <1>6


-----------------------------------------------------------------------------
(* The collections. *)

(* A collection that keeps a surviving set, all of it old, and moves nothing
   that is in use. *)
LEMMA CollectedKeeps ==
    ASSUME GCIInv, NEW L, Survives(L), Kept' = L, Objects("new")' = {},
           UNCHANGED <<sp, tempUsed>>,
           \A i \in 1..sp : stack'[i] = stack[i],
           tempUsed => temp' = temp,
           \A o \in L : field'[o] = field[o],
           slow' = IF slow.kind = "newRef"
                     THEN [slow EXCEPT !.newVal = Updated(@, FALSE)] ELSE slow
    PROVE  /\ Alive' = L /\ Roots' = Roots
           /\ (RootsAreAlive /\ RefsAreAlive /\ SlowIsSound)'
<1>1. Alive' = L
  BY DEF Alive
<1>2. Roots' = Roots
  BY DEF Roots
<1>3. RootsAreAlive'
  BY <1>1, <1>2 DEF RootsAreAlive, Survives
<1>4. RefsAreAlive'
  <2>1. \A o \in L, f \in Field : field'[o][f] \in L \cup {Nil}
    BY DEF Survives
  <2>2. QED
    BY <1>1, <2>1 DEF RefsAreAlive
<1>5. SlowIsSound'
  <2>1. CASE slow = NoSlow
    BY <2>1 DEF SlowIsSound, NoSlow
  <2>2. CASE slow # NoSlow
    <3>1. /\ slow \in [kind : {"newRef", "untraced"}, i : Location, f : Field,
                       j : Location, newVal : Value \cup {Stale}]
          /\ InUse(slow.i) /\ InUse(slow.j) /\ Val(slow.i) \in Kept
          /\ slow.kind = "untraced" => slow.newVal = Val(slow.j) /\ slow.newVal \in Kept
      BY <2>2 DEF GCIInv, SlowIsSound
    <3>2. \A l \in Location : InUse(l) => InUse(l)' /\ Val(l)' = Val(l)
      BY DEF Location, InUse, Val, GCIInv, GCTypeOK
    <3>3. slow.i \in Location /\ slow.j \in Location
      BY <3>1
    <3>4. \A l \in Location : InUse(l) /\ Val(l) \in Kept => Val(l) \in L
      <4>1. SUFFICES ASSUME NEW l \in Location, InUse(l), Val(l) \in Kept
                     PROVE  Val(l) \in L
        OBVIOUS
      <4>2. Val(l) \in Roots /\ Val(l) # Nil
        BY <4>1, InUseIsRoot, AliveIsObj DEF GCIInv
      <4>3. QED
        BY <4>2 DEF Survives
    <3>5. /\ slow'.kind = slow.kind /\ slow'.i = slow.i /\ slow'.j = slow.j
          /\ slow' \in [kind : {"newRef", "untraced"}, i : Location, f : Field,
                        j : Location, newVal : Value \cup {Stale}]
          /\ slow.kind = "untraced" => slow'.newVal = slow.newVal
      BY <3>1 DEF Updated
    <3>6. InUse(slow.i)' /\ InUse(slow.j)'
      BY <3>1, <3>2, <3>3
    <3>7. Val(slow.i)' = Val(slow.i) /\ Val(slow.j)' = Val(slow.j)
      BY <3>1, <3>2, <3>3
    <3>8. Val(slow.i) \in L /\ (slow.kind = "untraced" => Val(slow.j) \in L)
      BY <3>1, <3>3, <3>4
    <3>9. (InUse(slow.i) /\ InUse(slow.j) /\ Val(slow.i) \in Kept)'
      BY <3>6, <3>7, <3>8
    <3>10. (slow.kind = "untraced" => slow.newVal = Val(slow.j) /\ slow.newVal \in Kept)'
      BY <3>1, <3>5, <3>7, <3>8
    <3>11. QED
      BY <3>5, <3>9, <3>10 DEF SlowIsSound, Location, Value
  <2>3. QED
    BY <2>1, <2>2
<1>6. QED
  BY <1>1, <1>2, <1>3, <1>4, <1>5

(* CheckNewGenFinalizers, and with CheckOldGenFinalizers. *)
LEMMA NewFinalized ==
    ASSUME GCIInv, fin' = NewGenFinalized, Kept' = Kept \cup LiveNew, Alive' = Kept'
    PROVE  FinalizersFollow' /\ fin' \in [Obj -> {"no", "new", "old", "run"}]
<1>1. ASSUME NEW o \in Obj
      PROVE  /\ fin'[o] # "new" /\ fin'[o] \in {"no", "new", "old", "run"}
             /\ fin'[o] = "old" => o \in Kept \cup LiveNew
             /\ fin'[o] = "run" => o \notin Kept \cup LiveNew
  <2>1. /\ fin[o] = "new" => o \in Objects("new")
        /\ fin[o] = "old" => o \in Kept
        /\ fin[o] = "run" => o \notin Alive
        /\ fin[o] \in {"no", "new", "old", "run"}
    BY DEF GCIInv, GCTypeOK, FinalizersFollow
  <2>2. fin'[o] = IF fin[o] # "new" THEN fin[o]
                  ELSE IF o \in LiveNew THEN "old" ELSE "run"
    BY DEF NewGenFinalized
  <2>3. Kept \cup LiveNew \subseteq Alive
    BY LiveNewSurvives DEF Survives
  <2>4. o \in Objects("new") => o \notin Kept
    BY DEF Kept, Objects
  <2>5. QED
    BY <2>1, <2>2, <2>3, <2>4
<1>2. fin' = [o \in Obj |-> fin'[o]]
  BY DEF NewGenFinalized
<1>3. QED
  BY <1>1, <1>2 DEF FinalizersFollow

LEMMA OldFinalized ==
    ASSUME GCIInv, NEW L, Survives(L), L \cap Objects("new") \subseteq LiveNew,
           fin' = OldGenFinalized(L), Kept' = L, Alive' = L
    PROVE  FinalizersFollow' /\ fin' \in [Obj -> {"no", "new", "old", "run"}]
<1>1. ASSUME NEW o \in Obj
      PROVE  /\ fin'[o] # "new" /\ fin'[o] \in {"no", "new", "old", "run"}
             /\ fin'[o] = "old" => o \in L
             /\ fin'[o] = "run" => o \notin L
  <2>1. /\ fin[o] = "new" => o \in Objects("new")
        /\ fin[o] = "run" => o \notin Alive
        /\ fin[o] \in {"no", "new", "old", "run"}
    BY DEF GCIInv, GCTypeOK, FinalizersFollow
  <2>2. NewGenFinalized[o] = IF fin[o] # "new" THEN fin[o]
                             ELSE IF o \in LiveNew THEN "old" ELSE "run"
    BY DEF NewGenFinalized
  <2>3. fin'[o] = IF NewGenFinalized[o] = "old" /\ o \notin L
                    THEN "run" ELSE NewGenFinalized[o]
    BY DEF OldGenFinalized
  <2>4. L \subseteq Alive
    BY DEF Survives
  <2>5. QED
    BY <2>1, <2>2, <2>3, <2>4
<1>2. fin' = [o \in Obj |-> fin'[o]]
  BY DEF OldGenFinalized
<1>3. QED
  BY <1>1, <1>2 DEF FinalizersFollow


(* ACollectNewGen, whatever it does to unused variables. *)
LEMMA NewGenCollects ==
    ASSUME GCIInv, NEW frame \in [1..StackSize -> Value \cup {Stale}],
           \A i \in 1..sp : frame[i] = stack[i], ACollectNewGen(frame)
    PROVE  /\ gen' \in [Obj -> {"free", "new", "old"}]
           /\ field' \in [Obj -> [Field -> Value]]
           /\ stack' \in [1..StackSize -> Value \cup {Stale}]
           /\ temp' \in Value \cup {Stale}
           /\ Objects("old")' = Objects("old") \cup LiveNew /\ Objects("new")' = {}
           /\ Objects("old") \cap LiveNew = {}
           /\ \A i \in 1..sp : stack'[i] = stack[i]
           /\ tempUsed => temp' = temp
           /\ \A o \in Objects("old") \cup LiveNew : field'[o] = field[o]
           /\ FreeIsEmpty'
<1> USE DEF ACollectNewGen
<1>1. LiveNew \subseteq Objects("new") /\ LiveNew \subseteq Obj
  BY LiveNewSurvives DEF Objects
<1>2. \A o \in Obj : gen'[o] = IF o \in LiveNew THEN "old"
                              ELSE IF gen[o] = "new" THEN "free" ELSE gen[o]
  BY DEF DeadNew, Objects
<1>3. gen' \in [Obj -> {"free", "new", "old"}]
  BY DEF GCIInv, GCTypeOK
<1>4. /\ Objects("old")' = Objects("old") \cup LiveNew /\ Objects("new")' = {}
      /\ Objects("old") \cap LiveNew = {}
  BY <1>1, <1>2 DEF Objects
<1>5. \A o \in Obj : field'[o] = IF gen[o] = "new" /\ o \notin LiveNew
                                  THEN Empty ELSE field[o]
  BY DEF DeadNew, Objects
<1>6. \A o \in Objects("old") \cup LiveNew : field'[o] = field[o]
  BY <1>1, <1>5 DEF Objects
<1>7. field' \in [Obj -> [Field -> Value]]
  BY DEF GCIInv, GCTypeOK, Empty, Value
<1>8. FreeIsEmpty'
  <2>1. ASSUME NEW o \in Objects("free")'
        PROVE  field'[o] = Empty
    <3>1. o \in Obj /\ gen'[o] = "free"
      BY <2>1 DEF Objects
    <3>2. (gen[o] = "new" /\ o \notin LiveNew) \/ gen[o] = "free"
      BY <1>2, <3>1
    <3>3. QED
      BY <1>5, <3>1, <3>2 DEF GCIInv, FreeIsEmpty, Objects
  <2>2. QED
    BY <2>1 DEF FreeIsEmpty, Empty
<1>9. /\ stack' \in [1..StackSize -> Value \cup {Stale}]
      /\ temp' \in Value \cup {Stale}
      /\ tempUsed => temp' = temp
  BY DEF Updated, GCIInv, GCTypeOK
<1>10. \A i \in 1..sp : stack'[i] = stack[i]
  BY DEF Updated, GCIInv, GCTypeOK
<1>11. QED
  BY <1>3, <1>4, <1>6, <1>7, <1>8, <1>9, <1>10

-----------------------------------------------------------------------------
(* What a step of the collector is to the program and to the finalizers: only
   objects that are out of reach go, and nothing in use changes. *)
Reclaims ==
    /\ H!Reachable \subseteq Alive'
    /\ \A o \in Obj : gen'[o] # "free" => gen[o] # "free" /\ field'[o] = field[o]
    /\ UNCHANGED <<sp, tempUsed>>
    /\ \A i \in 1..sp : stack'[i] = stack[i]
    /\ tempUsed => temp' = temp
    /\ \A o \in Obj : fin[o] = "run" => fin'[o] = "run"

LEMMA ReclaimsNothing ==
    ASSUME GCIInv, UNCHANGED <<gen, field, sp, temp, tempUsed, fin>>,
           \A i \in 1..sp : stack'[i] = stack[i], Alive' = Alive
    PROVE  Reclaims
BY AliveSurvives, ReachableSurvives DEF Reclaims, GCIInv

LEMMA ReclaimsNew ==
    ASSUME GCIInv, NEW frame \in [1..StackSize -> Value \cup {Stale}],
           \A i \in 1..sp : frame[i] = stack[i], ACollectNewGen(frame),
           NEW L, Survives(L), Alive' = L,
           fin' = NewGenFinalized \/ fin' = OldGenFinalized(L)
    PROVE  Reclaims
<1>1. H!Reachable \subseteq Alive'
  BY ReachableSurvives DEF GCIInv
<1>2. /\ \A i \in 1..sp : stack'[i] = stack[i]
      /\ tempUsed => temp' = temp
      /\ UNCHANGED <<sp, tempUsed>>
  BY NewGenCollects DEF ACollectNewGen
<1>3. ASSUME NEW o \in Obj, gen'[o] # "free"
      PROVE  gen[o] # "free" /\ field'[o] = field[o]
  <2>1. o \notin DeadNew
    <3>1. o \in DeadNew => o \notin LiveNew
      BY DEF DeadNew
    <3>2. QED
      BY <1>3, <3>1 DEF ACollectNewGen
  <2>2. o \in LiveNew => gen[o] = "new"
    BY LiveNewSurvives DEF Objects
  <2>3. QED
    BY <1>3, <2>1, <2>2 DEF ACollectNewGen
<1>4. \A o \in Obj : fin[o] = "run" => fin'[o] = "run"
  BY DEF NewGenFinalized, OldGenFinalized
<1>5. QED
  BY <1>1, <1>2, <1>3, <1>4 DEF Reclaims

LEMMA ReclaimsFully ==
    ASSUME GCIInv, NEW L, Survives(L), CollectFully(L), Alive' = L,
           fin' = NewGenFinalized \/ fin' = OldGenFinalized(L)
    PROVE  Reclaims
<1>1. H!Reachable \subseteq Alive'
  BY ReachableSurvives DEF GCIInv
<1>2. ASSUME NEW o \in Obj, gen'[o] # "free"
      PROVE  gen[o] # "free" /\ field'[o] = field[o]
  <2>1. o \in L
    BY <1>2 DEF CollectFully
  <2>2. o \in Alive
    BY <2>1 DEF Survives
  <2>3. QED
    BY <2>1, <2>2 DEF CollectFully, Alive, Kept, Objects
<1>3. /\ \A i \in 1..sp : stack'[i] = stack[i]
      /\ tempUsed => temp' = temp
      /\ UNCHANGED <<sp, tempUsed>>
  BY DEF CollectFully, GCIInv, GCTypeOK
<1>4. \A o \in Obj : fin[o] = "run" => fin'[o] = "run"
  BY DEF NewGenFinalized, OldGenFinalized
<1>5. QED
  BY <1>1, <1>2, <1>3, <1>4 DEF Reclaims

-----------------------------------------------------------------------------
(* The collections of the new generation keep the invariant. *)

(* What newRef leads to is kept. *)
LEMMA NewRefsSurvive ==
    ASSUME GCIInv
    PROVE  NewRefValues \subseteq Kept \cup LiveNew
<1>1. ASSUME NEW l \in newRef
      PROVE  field[l[1]][l[2]] \in Kept \cup LiveNew \cup {Nil}
  <2>1. l[1] \in Kept /\ l[2] \in Field
    BY DEF GCIInv, GCTypeOK, ListsAreKept
  <2>2. QED
    BY <2>1, LiveNewSurvives DEF Survives
<1>2. QED
  BY <1>1 DEF NewRefValues

LEMMA CollectUnlessKeeps ==
    ASSUME GCIInv, NEW disallowed, CollectUnless(disallowed),
           OldGenGCDisallowCount' \in 0..MaxDisallow
    PROVE  GCIInv' /\ Reclaims
<1>1. /\ ACollectNewGen(stack) /\ untraced' = RetireUntraced /\ fin' = NewGenFinalized
      /\ RetireBySweep
      /\ \/ AGCState = "none" /\ GetMarkRootSet
         \/ UNCHANGED <<AGCState, graySlot, grayTemp, grayField, grayObj, markBottom>>
  BY DEF CollectUnless, grayVars
<1>2. /\ gen' \in [Obj -> {"free", "new", "old"}]
      /\ field' \in [Obj -> [Field -> Value]]
      /\ stack' \in [1..StackSize -> Value \cup {Stale}]
      /\ temp' \in Value \cup {Stale}
      /\ Objects("old")' = Objects("old") \cup LiveNew /\ Objects("new")' = {}
      /\ Objects("old") \cap LiveNew = {}
      /\ \A i \in 1..sp : stack'[i] = stack[i]
      /\ tempUsed => temp' = temp
      /\ \A o \in Objects("old") \cup LiveNew : field'[o] = field[o]
      /\ FreeIsEmpty'
  BY <1>1, NewGenCollects DEF GCIInv, GCTypeOK
<1>3. /\ newRef' = {} /\ UNCHANGED <<sp, tempUsed>>
      /\ slow' = IF slow.kind = "newRef"
                   THEN [slow EXCEPT !.newVal = Updated(@, FALSE)] ELSE slow
  BY <1>1 DEF ACollectNewGen
<1>4. PICK ahead \in SUBSET LiveNew :
         /\ unswept' = unswept \cup ahead
         /\ marked' = marked \cup ahead
         /\ AGCState # "sweep" => ahead = {}
  <2>1. CASE AGCState = "sweep"
    BY <1>1, <2>1 DEF RetireBySweep
  <2>2. CASE AGCState # "sweep"
    BY <1>1, <2>2 DEF RetireBySweep
  <2>3. QED
    BY <2>1, <2>2
<1>5. Kept' = Kept \cup LiveNew
  BY <1>2, <1>4 DEF Kept, Doomed, GCIInv, PhasesAreSound
<1>6. Survives(Kept \cup LiveNew)
  BY LiveNewSurvives
<1>7. \A o \in Kept \cup LiveNew : field'[o] = field[o]
  BY <1>2 DEF Kept
<1>8. Alive' = Kept' /\ (RootsAreAlive /\ RefsAreAlive /\ SlowIsSound)'
  BY <1>2, <1>3, <1>5, <1>6, <1>7, CollectedKeeps
<1>9. FinalizersFollow' /\ fin' \in [Obj -> {"no", "new", "old", "run"}]
  BY <1>1, <1>5, <1>8, NewFinalized
<1>10. RetireUntraced \subseteq Kept \cup LiveNew
  BY NewRefsSurvive DEF RetireUntraced, GCIInv, ListsAreKept
<1>11. PhasesAreSound'
  <2>1. marked' \cup unswept' \subseteq Objects("old")'
    BY <1>2, <1>4 DEF GCIInv, PhasesAreSound
  <2>2. CASE AGCState = "none" /\ GetMarkRootSet
    <3>1. marked' = {} /\ unswept' = {}
      BY <1>4, <2>2 DEF GCIInv, PhasesAreSound
    <3>2. AGCState' = "mark" /\ graySlot' = 1..markBottom'
      BY <2>2 DEF GetMarkRootSet
    <3>3. QED
      BY <2>1, <3>1, <3>2 DEF PhasesAreSound
  <2>3. CASE UNCHANGED <<AGCState, graySlot, grayTemp, grayField, grayObj, markBottom>>
    BY <1>4, <2>1, <2>3 DEF GCIInv, PhasesAreSound, NothingGray
  <2>4. QED
    BY <1>1, <2>2, <2>3
<1>12. grayObj' = grayObj /\ grayField' = grayField /\ grayTemp' = grayTemp
  BY <1>1 DEF GetMarkRootSet
<1>13. ListsAreKept'
  BY <1>1, <1>3, <1>5, <1>10, <1>12 DEF GCIInv, ListsAreKept
<1>14. MarkedIsTraced'
  <2>1. CASE AGCState = "none"
    BY <1>4, <2>1 DEF GCIInv, PhasesAreSound, MarkedIsTraced
  <2>2. CASE AGCState = "mark"
    <3>1. ASSUME NEW o \in marked', NEW f \in Field
          PROVE  \/ field'[o][f] \in {Nil} \cup marked' \cup untraced' \cup grayObj'
                 \/ <<o, f>> \in grayField'
      <4>1. marked' = marked
        BY <1>4, <2>2
      <4>2. field'[o][f] = field[o][f]
        BY <1>2, <4>1 DEF GCIInv, PhasesAreSound
      <4>3. <<o, f>> \in newRef => field[o][f] \in NewRefValues \cup {Nil}
        BY DEF NewRefValues
      <4>4. untraced' = untraced \cup NewRefValues
        BY <1>1, <2>2 DEF RetireUntraced
      <4>5. \/ field[o][f] \in {Nil} \cup marked \cup untraced \cup grayObj
            \/ <<o, f>> \in grayField \cup newRef
        BY <2>2, <4>1 DEF GCIInv, MarkedIsTraced
      <4>6. QED
        BY <1>12, <4>1, <4>2, <4>3, <4>4, <4>5
    <3>2. QED
      BY <3>1 DEF MarkedIsTraced
  <2>3. CASE AGCState = "sweep"
    BY <1>1, <2>3 DEF MarkedIsTraced
  <2>4. QED
    BY <2>1, <2>2, <2>3 DEF GCIInv, GCTypeOK
<1>15. GCTypeOK'
  <2>1. LiveNew \subseteq Obj /\ Kept \subseteq Obj
    BY LiveNewSurvives, AliveIsObj DEF Objects
  <2>2. /\ newRef' \subseteq Obj \X Field /\ untraced' \subseteq Obj
        /\ marked' \subseteq Obj /\ unswept' \subseteq Obj
    BY <1>1, <1>3, <1>4, <1>10, <2>1 DEF GCIInv, GCTypeOK
  <2>3. /\ AGCState' \in {"none", "mark", "sweep"}
        /\ graySlot' \subseteq 1..StackSize /\ markBottom' \in 0..StackSize
    <3>1. CASE GetMarkRootSet
      <4>1. 1..sp \subseteq 1..StackSize /\ sp \in 0..StackSize
        BY DEF GCIInv, GCTypeOK
      <4>2. QED
        BY <3>1, <4>1 DEF GetMarkRootSet
    <3>2. CASE UNCHANGED <<AGCState, graySlot, markBottom>>
      BY <3>2 DEF GCIInv, GCTypeOK
    <3>3. QED
      BY <1>1, <3>1, <3>2
  <2>4. slow' = NoSlow \/ slow'.kind \in {"newRef", "untraced"}
    BY <1>8 DEF SlowIsSound, NoSlow
  <2>5. NoSlow' = NoSlow /\ Value' = Value
    BY DEF NoSlow, Value
  <2>6. sp' \in 0..StackSize /\ tempUsed' \in BOOLEAN /\ grayTemp' \in BOOLEAN
        /\ grayField' \subseteq Obj \X Field /\ grayObj' \subseteq Obj
    BY <1>3, <1>12 DEF GCIInv, GCTypeOK
  <2>7. QED
    BY <1>2, <1>9, <2>2, <2>3, <2>4, <2>5, <2>6 DEF GCTypeOK
<1>16. Reclaims
  BY <1>1, <1>5, <1>6, <1>8, ReclaimsNew DEF GCIInv, GCTypeOK
<1>17. QED
  BY <1>2, <1>8, <1>9, <1>11, <1>13, <1>14, <1>15, <1>16 DEF GCIInv
=============================================================================
