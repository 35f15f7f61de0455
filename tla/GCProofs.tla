------------------------------ MODULE GCProofs ------------------------------
(***************************************************************************)
(* Proofs about GC: for every number of objects, fields and variables the  *)
(* collector implements ManagedHeap, keeps its lists sound and runs a      *)
(* finalizer once.                                                         *)
(***************************************************************************)
EXTENDS GCLemmas

USE GCAssumption

-----------------------------------------------------------------------------
(* Mark. *)

LEMMA ClearedStack ==
    ASSUME GCIInv
    PROVE  /\ ClearUnusedStack \in [1..StackSize -> Value \cup {Stale}]
           /\ \A i \in 1..sp : ClearUnusedStack[i] = stack[i]
<1>1. \A i \in 1..sp : i \in 1..StackSize /\ i \notin sp + 1 .. markBottom
  BY DEF GCIInv, GCTypeOK
<1>2. QED
  BY <1>1 DEF ClearUnusedStack, GCIInv, GCTypeOK, Value

(* The part of the invariant that concerns the program is not disturbed where
   only unused variables change. *)
LEMMA ClearedKeeps ==
    ASSUME GCIInv, stack' = ClearUnusedStack,
           UNCHANGED <<gen, field, sp, temp, tempUsed, newRef, unswept, fin, slow>>,
           Kept' = Kept
    PROVE  /\ (FreeIsEmpty /\ RootsAreAlive /\ RefsAreAlive)'
           /\ (SlowIsSound /\ FinalizersFollow)'
<1>1. Alive' = Alive /\ \A g : Objects(g)' = Objects(g)
  BY DEF Alive, Objects
<1>2. FreeIsEmpty' /\ RefsAreAlive'
  BY <1>1 DEF GCIInv, FreeIsEmpty, RefsAreAlive, Empty
<1>3. FinalizersFollow'
  BY <1>1 DEF GCIInv, FinalizersFollow
<1>4. RootsAreAlive'
  BY <1>1, ClearedStack DEF GCIInv, RootsAreAlive, Roots
<1>5. SlowIsSound'
  <2>1. \A l \in Location : InUse(l) => InUse(l)' /\ Val(l)' = Val(l)
    BY ClearedStack DEF Location, InUse, Val, GCIInv, GCTypeOK
  <2>2. QED
    BY <2>1, SlowKeeps
<1>6. QED
  BY <1>2, <1>3, <1>4, <1>5

(* Mark takes v from the traverse stack. *)
LEMMA MarksKeep ==
    ASSUME GCIInv, Marking, stack' = ClearUnusedStack,
           NEW v, NEW rest, rest \subseteq grayField, Marks(v, rest),
           graySlot' \subseteq graySlot, grayTemp' \in BOOLEAN,
           grayObj' \subseteq grayObj, grayObj \subseteq grayObj' \cup {v},
           \A l \in grayField \ rest : field[l[1]][l[2]] = v
    PROVE  GCIInv' /\ Reclaims
<1>1. /\ AGCState = "mark"
      /\ UNCHANGED <<gen, field, sp, temp, tempUsed, newRef, untraced, AGCState,
                     markBottom, unswept, fin, slow, OldGenGCDisallowCount>>
  BY DEF Marking, listVars
<1>2. /\ marked \subseteq marked' /\ marked' \subseteq Objects("old")
      /\ v \in Objects("old") => v \in marked'
      /\ rest \subseteq grayField'
      /\ grayField' \subseteq Obj \X Field
      /\ \A o \in marked' \ marked, f \in Field : <<o, f>> \in grayField'
  <2>1. marked \subseteq Objects("old") /\ rest \subseteq Obj \X Field
    BY DEF GCIInv, GCTypeOK, PhasesAreSound
  <2>2. CASE v \in Objects("old") \ marked
    <3>1. marked' = marked \cup {v} /\ grayField' = rest \cup {<<v, f>> : f \in Field}
      BY <2>2 DEF Marks
    <3>2. v \in Obj
      BY <2>2 DEF Objects
    <3>3. QED
      BY <2>1, <2>2, <3>1, <3>2
  <2>3. CASE v \notin Objects("old") \ marked
    BY <2>1, <2>3 DEF Marks
  <2>4. QED
    BY <2>2, <2>3
<1>3. unswept = {} /\ Kept = Objects("old")
  BY <1>1 DEF GCIInv, PhasesAreSound, Kept, Doomed
<1>4. (\A g : Objects(g)' = Objects(g)) /\ Kept' = Kept
  BY <1>1, <1>3 DEF Objects, Kept, Doomed
<1>5. /\ (FreeIsEmpty /\ RootsAreAlive /\ RefsAreAlive)'
      /\ (SlowIsSound /\ FinalizersFollow)'
  BY <1>1, <1>4, ClearedKeeps
<1>6. PhasesAreSound'
  BY <1>1, <1>2, <1>3, <1>4 DEF GCIInv, PhasesAreSound
<1>7. ListsAreKept'
  BY <1>1, <1>4 DEF GCIInv, ListsAreKept
<1>8. MarkedIsTraced'
  <2>1. ASSUME NEW o \in marked', NEW f \in Field
        PROVE  \/ field[o][f] \in {Nil} \cup marked' \cup untraced \cup grayObj'
               \/ <<o, f>> \in grayField' \cup newRef
    <3>1. CASE o \in marked' \ marked
      BY <1>2, <3>1
    <3>2. CASE o \in marked
      <4>1. \/ field[o][f] \in {Nil} \cup marked \cup untraced \cup grayObj
            \/ <<o, f>> \in grayField \cup newRef
        BY <1>1, <3>2 DEF GCIInv, MarkedIsTraced
      <4>2. field[o][f] = v => v \in {Nil} \cup marked' \/ <<o, f>> \in newRef
        <5>1. o \in Kept /\ o \in Alive
          BY <1>2, <1>3, <3>2 DEF Alive
        <5>2. /\ field[o][f] \in Alive \cup {Nil}
              /\ field[o][f] \in Objects("new") => <<o, f>> \in newRef
          BY <5>1 DEF GCIInv, RefsAreAlive
        <5>3. QED
          BY <1>2, <1>3, <5>2 DEF Alive
      <4>3. <<o, f>> \in grayField => <<o, f>> \in grayField' \/ field[o][f] = v
        BY <1>2
      <4>4. QED
        BY <1>2, <4>1, <4>2, <4>3
    <3>3. QED
      BY <3>1, <3>2
  <2>2. QED
    BY <1>1, <2>1 DEF MarkedIsTraced
<1>9. GCTypeOK'
  <2>1. marked' \subseteq Obj /\ grayObj' \subseteq Obj /\ graySlot' \subseteq 1..StackSize
    BY <1>2 DEF Objects, GCIInv, GCTypeOK
  <2>2. NoSlow' = NoSlow /\ Value' = Value
    BY DEF NoSlow, Value
  <2>3. stack' \in [1..StackSize -> Value \cup {Stale}]
    BY ClearedStack
  <2>4. QED
    BY <1>1, <1>2, <2>1, <2>2, <2>3 DEF GCIInv, GCTypeOK
<1>10. Reclaims
  <2>1. Alive' = Alive
    BY <1>4 DEF Alive
  <2>2. QED
    BY <1>1, <2>1, ClearedStack, ReclaimsNothing
<1>11. QED
  BY <1>5, <1>6, <1>7, <1>8, <1>9, <1>10 DEF GCIInv

LEMMA MarkKeeps ==
    ASSUME GCIInv, Mark
    PROVE  GCIInv' /\ Reclaims
<1>1. ASSUME NEW i \in 1..StackSize, MarkSlot(i)
      PROVE  GCIInv' /\ Reclaims
  BY <1>1, MarksKeep DEF MarkSlot, GCIInv, GCTypeOK
<1>2. ASSUME MarkTemp
      PROVE  GCIInv' /\ Reclaims
  BY <1>2, MarksKeep DEF MarkTemp
<1>3. ASSUME NEW o \in Obj, MarkUntraced(o)
      PROVE  GCIInv' /\ Reclaims
  BY <1>3, MarksKeep DEF MarkUntraced, GCIInv, GCTypeOK
<1>4. ASSUME NEW o \in Obj, NEW f \in Field, MarkField(o, f)
      PROVE  GCIInv' /\ Reclaims
  <2>1. \A l \in grayField \ (grayField \ {<<o, f>>}) : field[l[1]][l[2]] = field[o][f]
    OBVIOUS
  <2>2. grayField \ {<<o, f>>} \subseteq grayField
    OBVIOUS
  <2>3. grayTemp' \in BOOLEAN
    BY <1>4 DEF MarkField, GCIInv, GCTypeOK
  <2>4. QED
    BY <1>4, <2>1, <2>2, <2>3, MarksKeep DEF MarkField
<1>5. QED
  BY <1>1, <1>2, <1>3, <1>4 DEF Mark

(* TerminateGC gives up all marks. *)
LEMMA MarkFailsKeeps ==
    ASSUME GCIInv, MarkFails
    PROVE  GCIInv' /\ Reclaims
<1>1. /\ AGCState = "mark" /\ AGCState' = "none" /\ marked' = {}
      /\ graySlot' = {} /\ grayTemp' = FALSE /\ grayField' = {} /\ grayObj' = {}
      /\ stack' = ClearUnusedStack
      /\ UNCHANGED <<gen, field, sp, temp, tempUsed, newRef, untraced, markBottom,
                     unswept, fin, slow, OldGenGCDisallowCount>>
  BY DEF MarkFails, listVars
<1>2. unswept = {} /\ unswept' = {}
  BY <1>1 DEF GCIInv, PhasesAreSound
<1>3. Kept' = Kept
  BY <1>1, <1>2 DEF Kept, Doomed, Objects
<1>4. /\ (FreeIsEmpty /\ RootsAreAlive /\ RefsAreAlive)'
      /\ (SlowIsSound /\ FinalizersFollow)'
  BY <1>1, <1>3, ClearedKeeps
<1>5. (PhasesAreSound /\ MarkedIsTraced)'
  BY <1>1, <1>2 DEF PhasesAreSound, NothingGray, MarkedIsTraced
<1>6. ListsAreKept'
  BY <1>1, <1>3 DEF GCIInv, ListsAreKept
<1>7. GCTypeOK'
  <2>1. NoSlow' = NoSlow /\ Value' = Value
    BY DEF NoSlow, Value
  <2>2. QED
    BY <1>1, <2>1, ClearedStack DEF GCIInv, GCTypeOK
<1>8. Reclaims
  <2>1. Alive' = Alive
    BY <1>1, <1>3 DEF Alive, Objects
  <2>2. QED
    BY <1>1, <2>1, ClearedStack, ReclaimsNothing
<1>9. QED
  BY <1>4, <1>5, <1>6, <1>7, <1>8 DEF GCIInv

-----------------------------------------------------------------------------
(* The second Mark of a cycle, and the sweep. *)

LEMMA RescanStopsKeeps ==
    ASSUME GCIInv, RescanStops
    PROVE  GCIInv' /\ Reclaims
<1>1. /\ AGCState = "mark" /\ NothingGray /\ ACollectNewGen(ClearUnusedStack)
      /\ untraced' = {} /\ markBottom' = sp
      /\ graySlot' = 1..sp /\ grayTemp' = tempUsed /\ grayObj' = RetireUntraced
      /\ fin' = NewGenFinalized
      /\ UNCHANGED <<AGCState, marked, grayField, unswept, OldGenGCDisallowCount>>
  BY DEF RescanStops, Rescan
<1>2. /\ gen' \in [Obj -> {"free", "new", "old"}]
      /\ field' \in [Obj -> [Field -> Value]]
      /\ stack' \in [1..StackSize -> Value \cup {Stale}]
      /\ temp' \in Value \cup {Stale}
      /\ Objects("old")' = Objects("old") \cup LiveNew /\ Objects("new")' = {}
      /\ \A i \in 1..sp : stack'[i] = stack[i]
      /\ tempUsed => temp' = temp
      /\ \A o \in Objects("old") \cup LiveNew : field'[o] = field[o]
      /\ FreeIsEmpty'
  BY <1>1, ClearedStack, NewGenCollects
<1>3. /\ newRef' = {} /\ UNCHANGED <<sp, tempUsed>>
      /\ slow' = IF slow.kind = "newRef"
                   THEN [slow EXCEPT !.newVal = Updated(@, FALSE)] ELSE slow
  BY <1>1 DEF ACollectNewGen
<1>4. unswept = {} /\ unswept' = {} /\ marked' = marked /\ AGCState' = "mark"
  BY <1>1 DEF GCIInv, PhasesAreSound
<1>5. Kept' = Kept \cup LiveNew
  BY <1>2, <1>4 DEF Kept, Doomed
<1>6. Survives(Kept \cup LiveNew)
  BY LiveNewSurvives
<1>7. \A o \in Kept \cup LiveNew : field'[o] = field[o]
  BY <1>2 DEF Kept
<1>8. Alive' = Kept' /\ (RootsAreAlive /\ RefsAreAlive /\ SlowIsSound)'
  BY <1>2, <1>3, <1>5, <1>6, <1>7, CollectedKeeps
<1>9. FinalizersFollow' /\ fin' \in [Obj -> {"no", "new", "old", "run"}]
  BY <1>1, <1>5, <1>8, NewFinalized
<1>10. RetireUntraced \subseteq Kept \cup LiveNew
  BY NewRefsSurvive DEF RetireUntraced, GCIInv, ListsAreKept
<1>11. PhasesAreSound'
  BY <1>1, <1>2, <1>4 DEF GCIInv, PhasesAreSound
<1>12. ListsAreKept'
  BY <1>1, <1>3, <1>5, <1>10 DEF ListsAreKept
<1>13. MarkedIsTraced'
  <2>1. ASSUME NEW o \in marked, NEW f \in Field
        PROVE  field'[o][f] \in {Nil} \cup marked \cup RetireUntraced
    <3>1. field'[o][f] = field[o][f]
      BY <1>2 DEF GCIInv, PhasesAreSound
    <3>2. <<o, f>> \in newRef => field[o][f] \in NewRefValues \cup {Nil}
      BY DEF NewRefValues
    <3>3. RetireUntraced = untraced \cup NewRefValues
      BY <1>1 DEF RetireUntraced
    <3>4. field[o][f] \in {Nil} \cup marked \cup untraced \/ <<o, f>> \in newRef
      BY <1>1 DEF GCIInv, MarkedIsTraced, NothingGray
    <3>5. QED
      BY <3>1, <3>2, <3>3, <3>4
  <2>2. QED
    BY <1>1, <1>4, <2>1 DEF MarkedIsTraced
<1>14. GCTypeOK'
  <2>1. LiveNew \subseteq Obj /\ Kept \subseteq Obj
    BY LiveNewSurvives, AliveIsObj DEF Objects
  <2>2. newRef' \subseteq Obj \X Field /\ untraced' \subseteq Obj /\ grayObj' \subseteq Obj
    BY <1>1, <1>3, <1>10, <2>1
  <2>3. graySlot' \subseteq 1..StackSize /\ markBottom' \in 0..StackSize
    BY <1>1 DEF GCIInv, GCTypeOK
  <2>4. slow' = NoSlow \/ slow'.kind \in {"newRef", "untraced"}
    BY <1>8 DEF SlowIsSound, NoSlow
  <2>5. NoSlow' = NoSlow /\ Value' = Value
    BY DEF NoSlow, Value
  <2>6. tempUsed' \in BOOLEAN /\ grayTemp' \in BOOLEAN
    BY <1>1, <1>3, Zenon DEF GCIInv, GCTypeOK
  <2>7. QED
    BY <1>1, <1>2, <1>3, <1>9, <2>2, <2>3, <2>4, <2>5, <2>6 DEF GCIInv, GCTypeOK
<1>15. Reclaims
  BY <1>1, <1>5, <1>6, <1>8, ClearedStack, ReclaimsNew
<1>16. QED
  BY <1>2, <1>8, <1>9, <1>11, <1>12, <1>13, <1>14, <1>15 DEF GCIInv

(* What is marked in the end is what the collection keeps. *)
LEMMA RescanMarks ==
    ASSUME GCIInv, AGCState = "mark"
    PROVE  MarkedAfterRescan \subseteq OldAfterRescan
<1>1. marked \subseteq OldAfterRescan
  BY DEF GCIInv, PhasesAreSound, OldAfterRescan
<1>2. H!Trace(Roots \cup RetireUntraced, OldAfterRescan \ marked, field)
        \subseteq OldAfterRescan \ marked
  BY TraceWalks
<1>3. QED
  BY <1>1, <1>2 DEF MarkedAfterRescan

LEMMA RescanCompletesKeeps ==
    ASSUME GCIInv, RescanCompletes
    PROVE  GCIInv' /\ Reclaims
<1> DEFINE M == MarkedAfterRescan
<1>1. /\ AGCState = "mark" /\ NothingGray /\ ACollectNewGen(ClearUnusedStack)
      /\ untraced' = {} /\ markBottom' = sp
      /\ AGCState' = "sweep" /\ marked' = M /\ unswept' = OldAfterRescan
      /\ fin' = OldGenFinalized(M)
      /\ UNCHANGED <<graySlot, grayTemp, grayField, grayObj, OldGenGCDisallowCount>>
  BY DEF RescanCompletes, Rescan, grayVars
<1>2. /\ gen' \in [Obj -> {"free", "new", "old"}]
      /\ field' \in [Obj -> [Field -> Value]]
      /\ stack' \in [1..StackSize -> Value \cup {Stale}]
      /\ temp' \in Value \cup {Stale}
      /\ Objects("old")' = Objects("old") \cup LiveNew /\ Objects("new")' = {}
      /\ \A i \in 1..sp : stack'[i] = stack[i]
      /\ tempUsed => temp' = temp
      /\ \A o \in Objects("old") \cup LiveNew : field'[o] = field[o]
      /\ FreeIsEmpty'
  BY <1>1, ClearedStack, NewGenCollects
<1>3. /\ newRef' = {} /\ UNCHANGED <<sp, tempUsed>>
      /\ slow' = IF slow.kind = "newRef"
                   THEN [slow EXCEPT !.newVal = Updated(@, FALSE)] ELSE slow
  BY <1>1 DEF ACollectNewGen
<1>4. M \subseteq OldAfterRescan /\ Objects("old")' = OldAfterRescan
  BY <1>1, <1>2, RescanMarks DEF OldAfterRescan
<1>5. Survives(M)
  BY <1>1, RescanSurvives
<1> HIDE DEF M
<1>6. Kept' = M
  BY <1>1, <1>4 DEF Kept, Doomed
<1>7. \A o \in M : field'[o] = field[o]
  BY <1>2, <1>4 DEF OldAfterRescan
<1>8. Alive' = M /\ (RootsAreAlive /\ RefsAreAlive /\ SlowIsSound)'
  BY <1>2, <1>3, <1>5, <1>6, <1>7, CollectedKeeps
<1>9. FinalizersFollow' /\ fin' \in [Obj -> {"no", "new", "old", "run"}]
  <2>1. M \cap Objects("new") \subseteq LiveNew
    BY <1>4 DEF OldAfterRescan, Objects
  <2>2. QED
    BY <1>1, <1>5, <1>6, <1>8, <2>1, OldFinalized
<1>10. PhasesAreSound'
  BY <1>1, <1>4 DEF PhasesAreSound, NothingGray
<1>11. ListsAreKept' /\ MarkedIsTraced'
  BY <1>1, <1>3 DEF ListsAreKept, MarkedIsTraced, NothingGray
<1>12. GCTypeOK'
  <2>1. OldAfterRescan \subseteq Obj
    BY LiveNewSurvives DEF OldAfterRescan, Objects
  <2>2. slow' = NoSlow \/ slow'.kind \in {"newRef", "untraced"}
    BY <1>8 DEF SlowIsSound, NoSlow
  <2>3. NoSlow' = NoSlow /\ Value' = Value
    BY DEF NoSlow, Value
  <2>4. marked' \subseteq Obj /\ unswept' \subseteq Obj
    BY <1>1, <1>4, <2>1
  <2>5. QED
    BY <1>1, <1>2, <1>3, <1>9, <2>2, <2>3, <2>4 DEF GCIInv, GCTypeOK
<1>13. Reclaims
  BY <1>1, <1>5, <1>8, ClearedStack, ReclaimsNew
<1>14. QED
  BY <1>2, <1>8, <1>9, <1>10, <1>11, <1>12, <1>13 DEF GCIInv

LEMMA SweepKeeps ==
    ASSUME GCIInv, NEW o \in Obj, Sweep(o)
    PROVE  GCIInv' /\ Reclaims
<1> DEFINE freed == {o} \ marked
<1>1. /\ AGCState = "sweep" /\ o \in unswept
      /\ unswept' = unswept \ {o} /\ marked' = marked \ {o}
      /\ gen' = [p \in Obj |-> IF p \in freed THEN "free" ELSE gen[p]]
      /\ field' = [p \in Obj |-> IF p \in freed THEN Empty ELSE field[p]]
      /\ LeftBehind(freed)
      /\ UNCHANGED <<sp, tempUsed, newRef, untraced, AGCState, graySlot, grayTemp,
                     grayField, grayObj, markBottom, fin, slow,
                     OldGenGCDisallowCount>>
  BY DEF Sweep, listVars, grayVars
<1> HIDE DEF freed
<1>2. /\ freed \subseteq Doomed /\ freed \subseteq Objects("old")
      /\ Doomed' = Doomed \ freed
  BY <1>1 DEF Doomed, freed, GCIInv, PhasesAreSound
<1>3. /\ Objects("old")' = Objects("old") \ freed /\ Objects("new")' = Objects("new")
      /\ Objects("free")' \subseteq Objects("free") \cup freed
  BY <1>1, <1>2 DEF Objects
<1>4. Kept' = Kept /\ Alive' = Alive
  BY <1>2, <1>3 DEF Kept, Alive
<1>5. freed \cap Alive = {} /\ freed \subseteq Obj
  BY <1>2 DEF Kept, Alive, Objects
<1>6. PhasesAreSound'
  BY <1>1, <1>3 DEF GCIInv, PhasesAreSound, NothingGray, freed
<1>7. FreeIsEmpty'
  <2>1. \A p \in Objects("free")' : field'[p] = Empty
    BY <1>1, <1>3, <1>5 DEF GCIInv, FreeIsEmpty, Objects
  <2>2. QED
    BY <2>1 DEF FreeIsEmpty, Empty
<1>8. /\ \A i \in 1..sp : stack'[i] = stack[i]
      /\ tempUsed => temp' = temp
      /\ stack' \in [1..StackSize -> Value \cup {Stale}]
      /\ temp' \in Value \cup {Stale}
  BY <1>1 DEF LeftBehind, GCIInv, GCTypeOK
<1>9. RootsAreAlive'
  BY <1>1, <1>4, <1>8 DEF GCIInv, RootsAreAlive, Roots
<1>10. \A p \in Alive : field'[p] = field[p]
  BY <1>1, <1>5, AliveIsObj
<1>11. RefsAreAlive'
  <2>1. newRef' = newRef /\ Objects("new")' = Objects("new")
    BY <1>1, <1>3
  <2>2. RefsAreAlive
    BY DEF GCIInv
  <2>3. QED
    BY ONLY <1>4, <1>10, <2>1, <2>2 DEF RefsAreAlive
<1>12. (ListsAreKept /\ MarkedIsTraced)'
  BY <1>1, <1>4 DEF GCIInv, ListsAreKept, MarkedIsTraced
<1>13. SlowIsSound'
  <2>1. \A l \in Location : InUse(l) => InUse(l)' /\ Val(l)' = Val(l)
    BY <1>1, <1>8 DEF Location, InUse, Val, GCIInv, GCTypeOK
  <2>2. QED
    BY <1>1, <1>4, <2>1, SlowKeeps
<1>14. FinalizersFollow'
  BY <1>1, <1>3, <1>4 DEF GCIInv, FinalizersFollow
<1>15. GCTypeOK'
  <2>1. gen' \in [Obj -> {"free", "new", "old"}]
    BY <1>1 DEF GCIInv, GCTypeOK
  <2>2. field' \in [Obj -> [Field -> Value]]
    BY <1>1 DEF GCIInv, GCTypeOK, Empty, Value
  <2>3. NoSlow' = NoSlow /\ Value' = Value
    BY DEF NoSlow, Value
  <2>4. marked' \subseteq Obj /\ unswept' \subseteq Obj
    BY <1>1 DEF GCIInv, GCTypeOK
  <2>5. QED
    BY <1>1, <1>8, <2>1, <2>2, <2>3, <2>4 DEF GCIInv, GCTypeOK
<1>16. Reclaims
  <2>1. H!Reachable \subseteq Alive'
    BY <1>4, AliveSurvives, ReachableSurvives DEF GCIInv
  <2>2. \A p \in Obj : gen'[p] # "free" => gen[p] # "free" /\ field'[p] = field[p]
    BY <1>1
  <2>3. QED
    BY <1>1, <1>8, <2>1, <2>2 DEF Reclaims
<1>17. QED
  BY <1>6, <1>7, <1>9, <1>11, <1>12, <1>13, <1>14, <1>15, <1>16 DEF GCIInv

(* Where objects, variables and lists stay, so does what is said of them. *)
LEMMA StillKeeps ==
    ASSUME GCIInv,
           UNCHANGED <<gen, field, stack, sp, temp, tempUsed, newRef, untraced,
                       grayObj, marked, unswept, fin, slow>>
    PROVE  /\ (\A g : Objects(g)' = Objects(g)) /\ Reclaims
           /\ (FreeIsEmpty /\ RootsAreAlive /\ RefsAreAlive)'
           /\ (ListsAreKept /\ SlowIsSound /\ FinalizersFollow)'
<1>1. (\A g : Objects(g)' = Objects(g)) /\ Kept' = Kept /\ Alive' = Alive
  BY SameObjects
<1>2. (FreeIsEmpty /\ RootsAreAlive)'
  BY <1>1 DEF GCIInv, FreeIsEmpty, Empty, RootsAreAlive, Roots
<1>3. RefsAreAlive'
  BY <1>1 DEF GCIInv, RefsAreAlive
<1>4. (ListsAreKept /\ FinalizersFollow)'
  BY <1>1 DEF GCIInv, ListsAreKept, FinalizersFollow
<1>5. SlowIsSound'
  <2>1. \A l \in Location : InUse(l) => InUse(l)' /\ Val(l)' = Val(l)
    BY DEF InUse, Val
  <2>2. QED
    BY <1>1, <2>1, SlowKeeps
<1>6. Reclaims
  BY <1>1, ReclaimsNothing
<1>7. QED
  BY <1>1, <1>2, <1>3, <1>4, <1>5, <1>6

LEMMA SweepEndsKeeps ==
    ASSUME GCIInv, SweepEnds
    PROVE  GCIInv' /\ Reclaims
<1>1. /\ AGCState = "sweep" /\ unswept = {} /\ AGCState' = "none"
      /\ UNCHANGED <<gen, field, stack, sp, temp, tempUsed, newRef, untraced, marked,
                     graySlot, grayTemp, grayField, grayObj, markBottom, unswept,
                     fin, slow, OldGenGCDisallowCount>>
  BY DEF SweepEnds, progVars, listVars, grayVars
<1>2. /\ (\A g : Objects(g)' = Objects(g)) /\ Reclaims
      /\ (FreeIsEmpty /\ RootsAreAlive /\ RefsAreAlive)'
      /\ (ListsAreKept /\ SlowIsSound /\ FinalizersFollow)'
  BY <1>1, StillKeeps
<1>3. GCTypeOK'
  <2>1. NoSlow' = NoSlow /\ Value' = Value
    BY DEF NoSlow, Value
  <2>2. QED
    BY <1>1, <2>1 DEF GCIInv, GCTypeOK
<1>4. (PhasesAreSound /\ MarkedIsTraced)'
  BY <1>1, <1>2 DEF GCIInv, PhasesAreSound, NothingGray, MarkedIsTraced
<1>5. QED
  BY <1>2, <1>3, <1>4 DEF GCIInv

-----------------------------------------------------------------------------
(* Collections that leave no cycle active. *)

LEMMA CollectsFully ==
    ASSUME GCIInv, NEW L, Survives(L), CollectFully(L)
    PROVE  /\ Kept' = L /\ Alive' = L
           /\ (PhasesAreSound /\ FreeIsEmpty /\ RootsAreAlive)'
           /\ (RefsAreAlive /\ MarkedIsTraced /\ SlowIsSound)'
           /\ gen' \in [Obj -> {"free", "new", "old"}]
           /\ field' \in [Obj -> [Field -> Value]]
           /\ stack' \in [1..StackSize -> Value \cup {Stale}]
           /\ temp' \in Value \cup {Stale}
<1> USE DEF CollectFully
<1>1. L \subseteq Obj
  BY AliveIsObj DEF Survives
<1>2. /\ Objects("old")' = L /\ Objects("new")' = {}
      /\ Objects("free")' = Obj \ L
  BY <1>1 DEF Objects
<1>3. Kept' = L
  BY <1>2 DEF Kept, Doomed
<1>4. /\ \A i \in 1..sp : stack'[i] = stack[i]
      /\ tempUsed => temp' = temp
      /\ stack' \in [1..StackSize -> Value \cup {Stale}]
      /\ temp' \in Value \cup {Stale}
  BY DEF GCIInv, GCTypeOK, Value
<1>5. \A o \in L : field'[o] = field[o]
  BY <1>1
<1>6. Alive' = L /\ (RootsAreAlive /\ RefsAreAlive /\ SlowIsSound)'
  BY <1>2, <1>3, <1>4, <1>5, CollectedKeeps
<1>7. (PhasesAreSound /\ MarkedIsTraced)'
  BY DEF PhasesAreSound, NothingGray, MarkedIsTraced
<1>8. FreeIsEmpty'
  BY <1>2 DEF FreeIsEmpty, Empty
<1>9. gen' \in [Obj -> {"free", "new", "old"}]
  OBVIOUS
<1>10. field' \in [Obj -> [Field -> Value]]
  BY DEF GCIInv, GCTypeOK, Empty, Value
<1>11. QED
  BY <1>3, <1>4, <1>6, <1>7, <1>8, <1>9, <1>10

LEMMA CollectFullyKeeps ==
    ASSUME GCIInv, NEW L, Survives(L), CollectFully(L),
           FinalizersFollow', fin' \in [Obj -> {"no", "new", "old", "run"}],
           fin' = NewGenFinalized \/ fin' = OldGenFinalized(L),
           untraced' \subseteq L, markBottom' \in 0..StackSize,
           OldGenGCDisallowCount' \in 0..MaxDisallow
    PROVE  GCIInv' /\ Reclaims
<1>1. /\ Kept' = L /\ Alive' = L
      /\ (PhasesAreSound /\ FreeIsEmpty /\ RootsAreAlive)'
      /\ (RefsAreAlive /\ MarkedIsTraced /\ SlowIsSound)'
      /\ gen' \in [Obj -> {"free", "new", "old"}]
      /\ field' \in [Obj -> [Field -> Value]]
      /\ stack' \in [1..StackSize -> Value \cup {Stale}]
      /\ temp' \in Value \cup {Stale}
  BY CollectsFully
<1>2. /\ newRef' = {} /\ AGCState' = "none" /\ marked' = {} /\ unswept' = {}
      /\ graySlot' = {} /\ grayTemp' = FALSE /\ grayField' = {} /\ grayObj' = {}
      /\ UNCHANGED <<sp, tempUsed>>
  BY DEF CollectFully
<1>3. ListsAreKept'
  BY <1>1, <1>2 DEF ListsAreKept
<1>4. GCTypeOK'
  <2>1. untraced' \subseteq Obj
    BY AliveIsObj DEF Survives
  <2>2. slow' = NoSlow \/ slow'.kind \in {"newRef", "untraced"}
    BY <1>1 DEF SlowIsSound, NoSlow
  <2>3. NoSlow' = NoSlow /\ Value' = Value
    BY DEF NoSlow, Value
  <2>4. sp' \in 0..StackSize /\ tempUsed' \in BOOLEAN
    BY <1>2 DEF GCIInv, GCTypeOK
  <2>5. QED
    BY <1>1, <1>2, <2>1, <2>2, <2>3, <2>4 DEF GCTypeOK
<1>5. Reclaims
  BY <1>1, ReclaimsFully
<1>6. QED
  BY <1>1, <1>3, <1>4, <1>5 DEF GCIInv

LEMMA CollectAllKeeps ==
    ASSUME GCIInv, ACollectAllGarbage
    PROVE  GCIInv' /\ Reclaims
<1> DEFINE L == H!Reachable
<1>1. /\ CollectFully(L) /\ fin' = OldGenFinalized(L) /\ untraced' = {}
      /\ markBottom' = sp /\ UNCHANGED OldGenGCDisallowCount
  BY DEF ACollectAllGarbage
<1>2. Survives(L)
  BY ReachableItself
<1>3. L \cap Objects("new") \subseteq LiveNew
  <2>1. L \subseteq Kept \cup LiveNew
    BY LiveNewSurvives, ReachableSurvives DEF GCIInv
  <2>2. QED
    BY <2>1 DEF Kept, Objects
<1> HIDE DEF L
<1>4. FinalizersFollow' /\ fin' \in [Obj -> {"no", "new", "old", "run"}]
  BY <1>1, <1>2, <1>3, CollectsFully, OldFinalized
<1>5. markBottom' \in 0..StackSize /\ OldGenGCDisallowCount' \in 0..MaxDisallow
  BY <1>1 DEF GCIInv, GCTypeOK
<1>6. QED
  BY <1>1, <1>2, <1>4, <1>5, CollectFullyKeeps

(* What a cycle that is finished at once keeps of the new generation. *)
LEMMA CycleIsWithin ==
    ASSUME GCIInv, AGCState # "none"
    PROVE  LiveAfterCycle \subseteq OldAfterRescan
<1>1. marked \subseteq OldAfterRescan
  BY DEF GCIInv, PhasesAreSound, OldAfterRescan
<1>2. CASE AGCState = "mark"
  <2>1. H!Trace(GrayValues \cup Roots \cup RetireUntraced, OldAfterRescan \ marked, field)
          \subseteq OldAfterRescan \ marked
    BY TraceWalks
  <2>2. QED
    BY <1>1, <1>2, <2>1 DEF LiveAfterCycle
<1>3. CASE AGCState # "mark"
  BY <1>1, <1>3 DEF LiveAfterCycle, OldAfterRescan
<1>4. QED
  BY <1>2, <1>3

(* The count alone means nothing to the rest. *)
LEMMA CountedKeeps ==
    ASSUME GCIInv, UNCHANGED <<gen, progVars, listVars, markVars, unswept, fin, slow>>,
           OldGenGCDisallowCount' \in 0..MaxDisallow
    PROVE  GCIInv' /\ Reclaims
<1>1. UNCHANGED <<gen, field, stack, sp, temp, tempUsed, newRef, untraced, marked,
                  AGCState, graySlot, grayTemp, grayField, grayObj, markBottom,
                  unswept, fin, slow>>
  BY DEF progVars, listVars, markVars, grayVars
<1>2. /\ (\A g : Objects(g)' = Objects(g)) /\ Reclaims
      /\ (FreeIsEmpty /\ RootsAreAlive /\ RefsAreAlive)'
      /\ (ListsAreKept /\ SlowIsSound /\ FinalizersFollow)'
  BY <1>1, StillKeeps
<1>3. GCTypeOK'
  <2>1. NoSlow' = NoSlow /\ Value' = Value
    BY DEF NoSlow, Value
  <2>2. QED
    BY <1>1, <2>1 DEF GCIInv, GCTypeOK
<1>4. (PhasesAreSound /\ MarkedIsTraced)'
  BY <1>1, <1>2 DEF GCIInv, PhasesAreSound, NothingGray, MarkedIsTraced
<1>5. QED
  BY <1>2, <1>3, <1>4 DEF GCIInv

LEMMA DisallowKeeps ==
    ASSUME GCIInv, ADisallowOldGenGC
    PROVE  GCIInv' /\ Reclaims
<1>1. OldGenGCDisallowCount' \in 0..MaxDisallow
  BY DEF ADisallowOldGenGC, GCIInv, GCTypeOK
<1>2. CASE OldGenGCDisallowCount = 0 /\ AGCState # "none"
  <2> DEFINE L == LiveAfterCycle
  <2>1. /\ CollectFully(L)
        /\ IF AGCState = "mark"
             THEN /\ fin' = OldGenFinalized(L)
                  /\ untraced' = {} /\ markBottom' = sp
             ELSE fin' = NewGenFinalized /\ UNCHANGED <<untraced, markBottom>>
    BY <1>2 DEF ADisallowOldGenGC
  <2>2. Survives(L)
    BY <1>2, CycleSurvives
  <2>3. L \cap Objects("new") \subseteq LiveNew
    BY <1>2, CycleIsWithin DEF OldAfterRescan, Objects
  <2>4. AGCState # "mark" => L = Kept \cup LiveNew
    BY <1>2 DEF LiveAfterCycle, Kept, Doomed, GCIInv, GCTypeOK, PhasesAreSound
  <2> HIDE DEF L
  <2>5. Kept' = L /\ Alive' = L
    BY <2>1, <2>2, CollectsFully
  <2>6. markBottom' \in 0..StackSize
    BY <2>1 DEF GCIInv, GCTypeOK
  <2>7. CASE AGCState = "mark"
    <3>1. FinalizersFollow' /\ fin' \in [Obj -> {"no", "new", "old", "run"}]
      BY <2>1, <2>2, <2>3, <2>5, <2>7, OldFinalized
    <3>2. QED
      BY <1>1, <2>1, <2>2, <2>6, <2>7, <3>1, CollectFullyKeeps
  <2>8. CASE AGCState # "mark"
    <3>1. FinalizersFollow' /\ fin' \in [Obj -> {"no", "new", "old", "run"}]
      BY <2>1, <2>4, <2>5, <2>8, NewFinalized
    <3>2. untraced' \subseteq L
      BY <2>1, <2>4, <2>8 DEF GCIInv, ListsAreKept
    <3>3. QED
      BY <1>1, <2>1, <2>2, <2>6, <2>8, <3>1, <3>2, CollectFullyKeeps
  <2>9. QED
    BY <2>7, <2>8
<1>3. CASE ~(OldGenGCDisallowCount = 0 /\ AGCState # "none")
  <2>1. UNCHANGED <<gen, progVars, listVars, markVars, unswept, fin, slow>>
    BY <1>3 DEF ADisallowOldGenGC
  <2>2. QED
    BY <1>1, <2>1, CountedKeeps
<1>4. QED
  BY <1>2, <1>3

LEMMA AllowKeeps ==
    ASSUME GCIInv, AAllowOldGenGC
    PROVE  GCIInv' /\ Reclaims
<1>1. OldGenGCDisallowCount' \in 0..MaxDisallow
  BY DEF AAllowOldGenGC, GCIInv, GCTypeOK
<1>2. CASE CollectUnless(FALSE)
  BY <1>1, <1>2, CollectUnlessKeeps
<1>3. CASE UNCHANGED <<gen, progVars, listVars, markVars, unswept, fin, slow>>
  BY <1>1, <1>3, CountedKeeps
<1>4. QED
  BY <1>2, <1>3 DEF AAllowOldGenGC


-----------------------------------------------------------------------------

LEMMA CollectorKeeps ==
    ASSUME GCIInv, Collector
    PROVE  GCIInv' /\ Reclaims
<1>1. CASE ACollectGarbage
  <2>1. OldGenGCDisallowCount' \in 0..MaxDisallow
    BY <1>1 DEF ACollectGarbage, GCIInv, GCTypeOK
  <2>2. CollectUnless(OldGenGCDisallowCount > 0)
    BY <1>1 DEF ACollectGarbage
  <2>3. QED
    BY <2>1, <2>2, CollectUnlessKeeps
<1>2. CASE Mark \/ MarkFails
  BY <1>2, MarkKeeps, MarkFailsKeeps
<1>3. CASE RescanStops \/ RescanCompletes
  BY <1>3, RescanStopsKeeps, RescanCompletesKeeps
<1>4. CASE (\E o \in Obj : Sweep(o)) \/ SweepEnds
  BY <1>4, SweepKeeps, SweepEndsKeeps
<1>5. CASE ACollectAllGarbage
  BY <1>5, CollectAllKeeps
<1>6. CASE ADisallowOldGenGC \/ AAllowOldGenGC
  BY <1>6, DisallowKeeps, AllowKeeps
<1>7. QED
  BY <1>1, <1>2, <1>3, <1>4, <1>5, <1>6 DEF Collector

LEMMA ProgramKeeps ==
    ASSUME GCIInv, Program
    PROVE  GCIInv'
<1>1. CASE \E o \in Obj : AAlloc(o)
  BY <1>1, AllocKeeps
<1>2. CASE \E v \in Value : Push(v)
  BY <1>2, PushKeeps
<1>3. CASE Pop
  BY <1>3, PopKeeps
<1>4. CASE \E i, j \in Location, f \in Field :
              AModifyObject(i, f, j) \/ AdvanceList(i, f, j)
  BY <1>4, ModifyKeeps, AdvanceListKeeps
<1>5. CASE ModifyAfterAdvance
  BY <1>5, ModifyAfterAdvanceKeeps
<1>6. CASE (\E i \in 1..StackSize : AAllocTemp(i)) \/ AFreeTemp
  BY <1>6, AllocTempKeeps, FreeTempKeeps
<1>7. QED
  BY <1>1, <1>2, <1>3, <1>4, <1>5, <1>6 DEF Program

LEMMA GCNextInv ==
    ASSUME GCIInv, [GCNext]_vars
    PROVE  GCIInv'
<1>1. CASE GCNext
  BY <1>1, CollectorKeeps, ProgramKeeps DEF GCNext
<1>2. CASE UNCHANGED vars
  <2>1. UNCHANGED <<gen, progVars, listVars, markVars, unswept, fin, slow>>
    BY <1>2 DEF vars
  <2>2. OldGenGCDisallowCount' \in 0..MaxDisallow
    BY <1>2 DEF vars, GCIInv, GCTypeOK
  <2>3. QED
    BY <2>1, <2>2, CountedKeeps
<1>3. QED
  BY <1>1, <1>2

(* The invariant of the collector holds however collections, increments and
   assignments interleave (gc.c, gc.h): what the program may reach is never
   what the sweep will free, every reference from an old to a new object is in
   newRef, and no marked object hides an unmarked one. *)
THEOREM GCInvariance == GCSpec => []GCIInv
<1>1. GCInit => GCIInv
  BY GCInitInv
<1>2. GCIInv /\ [GCNext]_vars => GCIInv'
  BY GCNextInv
<1>3. QED
  BY <1>1, <1>2, PTL DEF GCSpec

-----------------------------------------------------------------------------
(* Mark reads no reference to memory that has been reused. *)

(* The temporary is in a range on the traverse stack only after the second Mark
   of a cycle has stopped. *)
GrayTempInv == (tempUsed => Temps) /\ (grayTemp => Temps /\ MarkStops)

LEMMA GrayTempStays ==
    ASSUME GrayTempInv, [GCNext]_vars
    PROVE  GrayTempInv'
<1> USE DEF GrayTempInv
<1>1. CASE Program
  <2>1. grayTemp' = grayTemp
    BY <1>1 DEF Program, AAlloc, Push, Pop, AAllocTemp, AFreeTemp, AModifyObject,
                AdvanceList, ModifyAfterAdvance, Assigned, Unmoved, markVars, grayVars
  <2>2. tempUsed' => tempUsed \/ Temps
    BY <1>1 DEF Program, AAlloc, Push, Pop, AAllocTemp, AFreeTemp, AModifyObject,
                AdvanceList, ModifyAfterAdvance, Assigned, progVars
  <2>3. QED
    BY <2>1, <2>2
<1>2. ASSUME NEW d, CollectUnless(d)
      PROVE  GrayTempInv'
  BY <1>2 DEF CollectUnless, ACollectNewGen, GetMarkRootSet, grayVars
<1>3. CASE UNCHANGED <<progVars, markVars>>
  BY <1>3 DEF progVars, markVars, grayVars
<1>4. CASE Mark \/ MarkFails
  <2>1. tempUsed' = tempUsed /\ (grayTemp' = grayTemp \/ grayTemp' = FALSE)
    BY <1>4, Zenon DEF Mark, MarkSlot, MarkTemp, MarkUntraced, MarkField, Marking,
                       MarkFails
  <2>2. QED
    BY <2>1
<1>5. CASE RescanStops \/ RescanCompletes
  <2>1. /\ tempUsed' = tempUsed
        /\ (MarkStops /\ grayTemp' = tempUsed) \/ grayTemp' = grayTemp
    BY <1>5, Zenon DEF RescanStops, RescanCompletes, Rescan, ACollectNewGen, grayVars
  <2>2. CASE MarkStops /\ grayTemp' = tempUsed
    BY <2>1, <2>2
  <2>3. CASE grayTemp' = grayTemp
    BY <2>1, <2>3
  <2>4. QED
    BY <2>1, <2>2, <2>3
<1>6. CASE (\E o \in Obj : Sweep(o)) \/ SweepEnds
  <2>1. tempUsed' = tempUsed /\ grayTemp' = grayTemp
    BY <1>6, Zenon DEF Sweep, SweepEnds, progVars, grayVars
  <2>2. QED
    BY <2>1
<1>7. CASE \E L : CollectFully(L)
  BY <1>7 DEF CollectFully
<1>8. CASE Collector
  <2>1. CASE ACollectGarbage \/ AAllowOldGenGC
    BY <1>2, <1>3, <2>1 DEF ACollectGarbage, AAllowOldGenGC
  <2>2. CASE ACollectAllGarbage \/ ADisallowOldGenGC
    BY <1>3, <1>7, <2>2 DEF ACollectAllGarbage, ADisallowOldGenGC
  <2>3. QED
    BY <1>4, <1>5, <1>6, <1>8, <2>1, <2>2 DEF Collector
<1>9. CASE UNCHANGED vars
  BY <1>3, <1>9 DEF vars
<1>10. QED
  BY <1>1, <1>8, <1>9 DEF GCNext

(* The collector's own state is sound (CollectorIsSound), for every number of
   objects, fields and variables: newRef and the untraced lists refer to objects
   that are still there, and Mark reads no reused memory.  The last needs that
   temporaries and a second Mark that stops do not meet: the temp stack has no
   counterpart of ClearUnusedStack (gc.c:1268). *)
THEOREM GCSound ==
    ASSUME ~(Temps /\ MarkStops)
    PROVE  GCSpec => []CollectorIsSound
<1>1. GCInit => GrayTempInv
  BY DEF GCInit, GrayTempInv
<1>2. GrayTempInv /\ [GCNext]_vars => GrayTempInv'
  BY GrayTempStays
<1>3. GCIInv /\ GrayTempInv => CollectorIsSound
  <2> SUFFICES ASSUME GCIInv, GrayTempInv
               PROVE  CollectorIsSound
    OBVIOUS
  <2>1. GCTypeOK
    BY DEF GCIInv
  <2>2. ListsAreSound
    <3>1. \A o \in Kept : gen[o] = "old" /\ o \in Objects("old")
      BY DEF Kept, Objects
    <3>2. QED
      BY <3>1 DEF GCIInv, ListsAreKept, ListsAreSound
  <2>3. ASSUME NEW i \in graySlot
        PROVE  ClearUnusedStack[i] # Stale
    <3>1. i \in 1..markBottom /\ i \in 1..StackSize
      BY DEF GCIInv, PhasesAreSound, GCTypeOK
    <3>2. CASE i <= sp
      <4>1. i \in 1..sp
        BY <3>1, <3>2 DEF GCIInv, GCTypeOK
      <4>2. stack[i] \in Alive \cup {Nil}
        BY <4>1 DEF GCIInv, RootsAreAlive, Roots
      <4>3. QED
        BY <4>1, <4>2, ClearedStack, AliveIsObj
    <3>3. CASE ~(i <= sp)
      <4>1. i \in sp + 1 .. markBottom
        BY <3>1, <3>3 DEF GCIInv, GCTypeOK
      <4>2. QED
        BY <3>1, <4>1 DEF ClearUnusedStack
    <3>4. QED
      BY <3>2, <3>3
  <2>4. QED
    BY <2>1, <2>2, <2>3 DEF CollectorIsSound, MarkReadsNoStale, GrayTempInv
<1>4. QED
  BY <1>1, <1>2, <1>3, GCInvariance, PTL DEF GCSpec

(* A finalizer runs before its object is freed, only when the program cannot
   reach the object, and only once (CheckNewGenFinalizers, CheckOldGenFinalizers
   in gc.c), for every number of objects. *)
THEOREM FinalizersOnce == GCSpec => FinalizerRunsOnce
<1> DEFINE Once(o) ==
        /\ fin'[o] = "run" /\ fin[o] # "run" => o \notin H!Reachable
        /\ gen[o] # "free" /\ gen'[o] = "free" => fin'[o] \in {"no", "run"}
        /\ fin[o] = "run" /\ fin'[o] # "run" => gen[o] = "free"
<1>1. ASSUME GCIInv, GCIInv', GCNext, NEW o \in Obj
      PROVE  Once(o)
  <2>1. /\ fin'[o] = "old" => o \in Kept'
        /\ fin'[o] = "new" => gen'[o] = "new"
        /\ fin'[o] = "run" => o \notin Alive'
        /\ fin'[o] \in {"no", "new", "old", "run"}
    BY <1>1 DEF GCIInv, GCTypeOK, FinalizersFollow, Objects
  <2>2. gen'[o] = "free" => o \notin Kept'
    BY DEF Kept, Objects
  <2>3. gen'[o] = "free" => fin'[o] \in {"no", "run"}
    BY <2>1, <2>2
  <2>4. CASE Collector
    <3>1. Reclaims
      BY <1>1, <2>4, CollectorKeeps
    <3>2. QED
      BY <2>1, <2>3, <3>1 DEF Reclaims
  <2>5. CASE Program
    <3>1. CASE \E p \in Obj : AAlloc(p)
      <4>1. PICK p \in Obj : AAlloc(p)
        BY <3>1
      <4>2. fin'[o] = fin[o] \/ (gen[o] = "free" /\ fin'[o] # "run")
        BY <1>1, <4>1 DEF AAlloc, GCIInv, GCTypeOK
      <4>3. QED
        BY <2>3, <4>2
    <3>2. CASE UNCHANGED fin
      BY <2>3, <3>2
    <3>3. (\E p \in Obj : AAlloc(p)) \/ UNCHANGED fin
      BY <2>5 DEF Program, Push, Pop, AAllocTemp, AFreeTemp, AModifyObject, AdvanceList,
                  ModifyAfterAdvance, Assigned, Unmoved
    <3>4. QED
      BY <3>1, <3>2, <3>3
  <2>6. QED
    BY <1>1, <2>4, <2>5 DEF GCNext
<1> HIDE DEF Once
<1>2. GCIInv /\ GCIInv' /\ [GCNext]_vars => [\A o \in Obj : Once(o)]_vars
  BY <1>1
<1>3. GCSpec => [][\A o \in Obj : Once(o)]_vars
  BY <1>2, GCInvariance, PTL DEF GCSpec
<1>4. QED
  BY <1>3 DEF FinalizerRunsOnce, Once


-----------------------------------------------------------------------------
(* The collector implements the managed heap. *)

(* The variables as the program sees them. *)
Frame == [i \in 1..StackSize |-> IF i <= sp THEN stack[i] ELSE Nil]

LEMMA ReclaimImplements ==
    ASSUME GCIInv, GCIInv', Reclaims
    PROVE  H!Reclaim
<1>1. UNCHANGED <<sp, tempUsed>> /\ Frame' = Frame
  <2>1. sp' = sp /\ tempUsed' = tempUsed /\ \A i \in 1..sp : stack'[i] = stack[i]
    BY DEF Reclaims
  <2>2. \A i \in 1..StackSize : i <= sp => i \in 1..sp
    <3>1. sp \in 0..StackSize
      BY DEF GCIInv, GCTypeOK
    <3>2. QED
      BY ONLY <3>1, GCAssumption
  <2>3. QED
    BY ONLY <2>1, <2>2 DEF Frame
<1>2. \A o \in Obj : gen'[o] # "free" => gen[o] # "free" /\ field'[o] = field[o]
  BY DEF Reclaims
<1>3. \A o \in Obj : gen'[o] = "free" => field'[o] = Empty
  <2>1. \A o \in Objects("free")' : field'[o] = Empty
    BY DEF GCIInv, FreeIsEmpty, Empty
  <2>2. QED
    BY <2>1 DEF Objects
<1>4. field' = [o \in Obj |-> IF gen'[o] # "free" THEN field[o] ELSE Empty]
  <2>1. field' \in [Obj -> [Field -> Value']]
    BY DEF GCIInv, GCTypeOK
  <2>2. QED
    BY <1>2, <1>3, <2>1
<1>5. \A o \in H!Reachable : o \in Obj /\ gen'[o] # "free"
  <2>1. \A o \in Alive' : o \in Obj /\ gen'[o] # "free"
    BY DEF Alive, Kept, Objects
  <2>2. QED
    BY <2>1 DEF Reclaims
<1>6. (IF tempUsed THEN {temp} ELSE {})' = IF tempUsed THEN {temp} ELSE {}
  BY DEF Reclaims
<1>7. {o \in Obj : gen[o] # "free"} \cap H!Reachable \subseteq {o \in Obj : gen'[o] # "free"}
  BY <1>5
<1>8. {o \in Obj : gen'[o] # "free"} \subseteq {o \in Obj : gen[o] # "free"}
  BY <1>2
<1>9. field' = [o \in Obj |-> IF o \in {p \in Obj : gen'[p] # "free"}
                                THEN field[o] ELSE H!Empty]
  BY <1>4 DEF H!Empty, Empty
<1>10. QED
  BY <1>1, <1>6, <1>7, <1>8, <1>9 DEF H!Reclaim, Frame

LEMMA StoreImplements ==
    ASSUME GCIInv, NEW i \in Location, NEW f \in Field, NEW v \in Roots,
           InUse(i), Val(i) \in Obj, Assigned(i, f, v)
    PROVE  \E o \in Obj, g \in Field, w \in H!Value : H!Store(o, g, w)
<1>1. {Val(i), v} \subseteq H!Roots
  BY InUseIsRoot, HeapRoots DEF GCIInv
<1>2. v \in H!Value
  BY AliveIsObj DEF GCIInv, RootsAreAlive, H!Value
<1>3. H!Store(Val(i), f, v)
  BY <1>1 DEF H!Store, Assigned
<1>4. QED
  BY <1>2, <1>3

LEMMA PushedFrame ==
    ASSUME GCIInv, NEW v, sp < StackSize, sp' = sp + 1,
           stack' = [stack EXCEPT ![sp'] = v]
    PROVE  Frame' = [Frame EXCEPT ![sp'] = v]
<1>1. sp \in 0..StackSize /\ stack \in [1..StackSize -> Value \cup {Stale}]
  BY DEF GCIInv, GCTypeOK
<1>2. ASSUME NEW i \in 1..StackSize
      PROVE  (IF i <= sp' THEN stack'[i] ELSE Nil)
                = IF i = sp' THEN v ELSE IF i <= sp THEN stack[i] ELSE Nil
  <2>1. CASE i = sp'
    BY <1>1, <2>1
  <2>2. CASE i # sp'
    <3>1. stack'[i] = stack[i]
      BY <1>1, <2>2
    <3>2. i <= sp' <=> i <= sp
      BY <1>1, <2>2
    <3>3. QED
      BY <2>2, <3>1, <3>2
  <2>3. QED
    BY <2>1, <2>2
<1>3. QED
  BY <1>2 DEF Frame

LEMMA ProgramImplements ==
    ASSUME GCIInv, Program
    PROVE  [H!HeapNext]_(H!heapVars)
<1>1. ASSUME NEW o \in Obj, AAlloc(o)
      PROVE  H!New(o)
  <2>1. {p \in Obj : gen'[p] # "free"} = {p \in Obj : gen[p] # "free"} \cup {o}
    BY <1>1 DEF AAlloc, GCIInv, GCTypeOK
  <2>2. Frame' = [Frame EXCEPT ![sp'] = o]
    BY <1>1, PushedFrame DEF AAlloc
  <2>3. QED
    BY <1>1, <2>1, <2>2 DEF AAlloc, H!New, Frame
<1>2. ASSUME NEW v \in Value, Push(v)
      PROVE  H!Push(v)
  <2>1. Frame' = [Frame EXCEPT ![sp'] = v]
    BY <1>2, PushedFrame DEF Push
  <2>2. QED
    BY <1>2, <2>1 DEF Push, Unmoved, H!Push, Frame
<1>3. ASSUME Pop
      PROVE  H!Pop
  <2>1. Frame' = [Frame EXCEPT ![sp] = Nil]
    <3>1. sp \in 1..StackSize /\ stack \in [1..StackSize -> Value \cup {Stale}]
      BY <1>3 DEF Pop, GCIInv, GCTypeOK
    <3>2. ASSUME NEW i \in 1..StackSize
          PROVE  (IF i <= sp' THEN stack'[i] ELSE Nil)
                    = IF i = sp THEN Nil ELSE IF i <= sp THEN stack[i] ELSE Nil
      <4>1. i # sp => stack'[i] = stack[i]
        BY <1>3, <3>1 DEF Pop
      <4>2. i <= sp' <=> i <= sp /\ i # sp
        BY <1>3, <3>1 DEF Pop
      <4>3. QED
        BY <4>1, <4>2
    <3>3. QED
      BY <3>1, <3>2 DEF Frame
  <2>2. QED
    BY <1>3, <2>1 DEF Pop, Unmoved, H!Pop, Frame
<1>4. ASSUME NEW i \in 1..StackSize, AAllocTemp(i)
      PROVE  H!SetTemp(i)
  <2>1. Frame[i] = stack[i]
    <3>1. i <= sp
      BY <1>4 DEF AAllocTemp, GCIInv, GCTypeOK
    <3>2. QED
      BY ONLY <3>1, i \in 1..StackSize DEF Frame
  <2>2. QED
    BY <1>4, <2>1 DEF AAllocTemp, Unmoved, H!SetTemp, Frame
<1>5. ASSUME AFreeTemp
      PROVE  H!FreeTemp
  BY <1>5 DEF AFreeTemp, Unmoved, H!FreeTemp
<1>6. ASSUME NEW i \in Location, NEW j \in Location, NEW f \in Field,
             AModifyObject(i, f, j)
      PROVE  \E o \in Obj, g \in Field, w \in H!Value : H!Store(o, g, w)
  <2>1. Val(j) \in Roots
    BY <1>6, InUseIsRoot DEF AModifyObject, Modifiable, GCIInv
  <2>2. QED
    BY <1>6, <2>1, StoreImplements DEF AModifyObject, Modifiable
<1>7. ASSUME NEW i \in Location, NEW j \in Location, NEW f \in Field,
             AdvanceList(i, f, j)
      PROVE  UNCHANGED H!heapVars
  BY <1>7 DEF AdvanceList, Unmoved, progVars, H!heapVars
<1>8. ASSUME ModifyAfterAdvance
      PROVE  \E o \in Obj, g \in Field, w \in H!Value : H!Store(o, g, w)
  <2>1. /\ slow \in [kind : {"newRef", "untraced"}, i : Location, f : Field,
                     j : Location, newVal : Value \cup {Stale}]
        /\ InUse(slow.i) /\ InUse(slow.j) /\ Val(slow.i) \in Kept
        /\ slow.kind = "untraced" => slow.newVal = Val(slow.j)
    BY <1>8 DEF ModifyAfterAdvance, GCIInv, SlowIsSound
  <2>2. slow.i \in Location /\ slow.j \in Location /\ slow.f \in Field
    BY <2>1
  <2>3. Val(slow.j) \in Roots /\ Val(slow.i) \in Obj
    BY <2>1, <2>2, InUseIsRoot, AliveIsObj DEF GCIInv
  <2>4. Assigned(slow.i, slow.f, Val(slow.j))
    BY <1>8, <2>1 DEF ModifyAfterAdvance
  <2>5. QED
    BY <2>1, <2>2, <2>3, <2>4, StoreImplements
<1>9. H!Value = Value
  BY DEF H!Value, Value
<1>10. QED
  BY <1>1, <1>2, <1>3, <1>4, <1>5, <1>6, <1>7, <1>8, <1>9 DEF Program, H!HeapNext

(* The collector implements the managed heap (ImplementsHeap), for every number
   of objects, fields and variables, with temporaries, stopped marking, full
   lists, finalizers and failing marks: whatever it frees is out of the
   program's reach, and nothing that the program can see changes. *)
THEOREM GCImplementsHeap == GCSpec => ImplementsHeap
<1>1. GCInit => H!HeapInit
  BY DEF GCInit, H!HeapInit, H!Empty, Empty
<1>2. GCIInv /\ GCIInv' /\ [GCNext]_vars => [H!HeapNext]_(H!heapVars)
  <2> SUFFICES ASSUME GCIInv, GCIInv', [GCNext]_vars
               PROVE  [H!HeapNext]_(H!heapVars)
    OBVIOUS
  <2>1. CASE Program
    BY <2>1, ProgramImplements
  <2>2. CASE Collector
    BY <2>2, CollectorKeeps, ReclaimImplements DEF H!HeapNext
  <2>3. CASE UNCHANGED vars
    BY <2>3 DEF vars, progVars, H!heapVars
  <2>4. QED
    BY <2>1, <2>2, <2>3 DEF GCNext
<1>3. QED
  BY <1>1, <1>2, GCInvariance, PTL DEF GCSpec, ImplementsHeap, H!HeapSpec
=============================================================================
