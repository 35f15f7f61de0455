--------------------------------- MODULE GC ---------------------------------
(***************************************************************************)
(* The garbage collector (gc.c) and the write barrier (gc.h): a new        *)
(* generation that is emptied by copying, an old generation that is        *)
(* collected by incremental mark-sweep.  Each collector action runs with   *)
(* the heap locked and the other threads frozen (see Freeze and            *)
(* RuntimeLocks), so it is one step; between the increments the program    *)
(* goes on.                                                                *)
(*                                                                         *)
(* An object keeps its name when it is copied.  A reference that the       *)
(* collector did not update, because it lies where no collector looks,     *)
(* becomes Stale: it leads to memory that has been, or will be, reused.    *)
(*                                                                         *)
(* The order of the traverse stack is left open, and so is how much an     *)
(* increment does: Mark and Sweep may stop after any object.               *)
(***************************************************************************)
EXTENDS Naturals, FiniteSets

CONSTANTS
    Obj, Field, Nil, StackSize,
    Stale,          \* a reference to memory that is not the object's any more
    Temps,          \* does the program use temporaries (AAllocTemp)?
    MarkStops,      \* may the last Mark of a cycle run out of steps?
    ListsFill,      \* do the lists of the write barrier ever need a new block?
    Finalizers,     \* have the classes finalizers?
    MarkMayFail,    \* may Mark run out of memory for its traverse stack?
    MaxDisallow     \* bound of OldGenGCDisallowCount

ASSUME GCAssumption ==
    /\ StackSize \in Nat /\ MaxDisallow \in Nat
    /\ Nil \notin Obj /\ Stale \notin Obj \cup {Nil}

VARIABLES
    gen,        \* "free", "new" (nursery and big blocks) or "old"
    field,      \* the values in each object
    stack,      \* the variables: 1..sp are in use, the others keep their value
    sp,         \* the number of variables in use (t->stackPtr)
    temp,       \* the value in the slot of the temp stack
    tempUsed,   \* is the slot below t->tempStackPtr?
    newRef,     \* fields of old objects that were assigned new objects
    untraced,   \* old objects that the write barrier caught
    AGCState,   \* "none", "mark" or "sweep"
    marked,     \* objects whose mark bit is set
    graySlot,   \* variables in the ranges on the traverse stack of Mark
    grayTemp,   \* is the temporary in such a range?
    grayField,  \* fields in such ranges
    grayObj,    \* values of the untraced list that are in such ranges
    markBottom, \* t->markStackBottom, as a number of variables
    unswept,    \* old objects ahead of SweepPtr
    fin,        \* the finalizer: "no", "new" or "old" (its list), "run"
    slow,       \* an assignment that waits for a longer list
    OldGenGCDisallowCount

progVars  == <<field, stack, sp, temp, tempUsed>>
grayVars  == <<graySlot, grayTemp, grayField, grayObj>>
markVars  == <<AGCState, marked, grayVars, markBottom>>
listVars  == <<newRef, untraced>>
vars      == <<gen, progVars, listVars, markVars, unswept, fin, slow,
               OldGenGCDisallowCount>>

H == INSTANCE ManagedHeap WITH
        allocated <- {o \in Obj : gen[o] # "free"},
        stack     <- [i \in 1..StackSize |-> IF i <= sp THEN stack[i] ELSE Nil],
        temps     <- IF tempUsed THEN {temp} ELSE {}

Value == Obj \cup {Nil}
Empty == [f \in Field |-> Nil]
NoSlow == [kind |-> "no"]

GCInit ==
    /\ gen = [o \in Obj |-> "free"]
    /\ field = [o \in Obj |-> Empty]
    /\ stack = [i \in 1..StackSize |-> Nil]
    /\ sp = 0
    /\ temp = Nil /\ tempUsed = FALSE
    /\ newRef = {} /\ untraced = {}
    /\ AGCState = "none" /\ marked = {}
    /\ graySlot = {} /\ grayTemp = FALSE /\ grayField = {} /\ grayObj = {}
    /\ markBottom = 0
    /\ unswept = {}
    /\ fin = [o \in Obj |-> "no"]
    /\ slow = NoSlow
    /\ OldGenGCDisallowCount = 0

Objects(g) == {o \in Obj : gen[o] = g}

(* Faulty variant: the temp stack is not scanned. *)
RootsNoTemp == {stack[i] : i \in 1..sp}

(* The values that both collectors take as roots in the end. *)
Roots == {stack[i] : i \in 1..sp} \cup (IF tempUsed THEN {temp} ELSE {})

Unmoved == UNCHANGED <<gen, listVars, markVars, unswept, fin,
                       OldGenGCDisallowCount>>

-----------------------------------------------------------------------------
(* The program. *)

(* A new object starts in the new generation; if its class has a finalizer, it
   is registered (AAddFinalizeInst). *)
AAlloc(o) ==
    /\ gen[o] = "free"
    /\ sp < StackSize
    /\ gen' = [gen EXCEPT ![o] = "new"]
    /\ sp' = sp + 1
    /\ stack' = [stack EXCEPT ![sp'] = o]
    /\ fin' = [fin EXCEPT ![o] = IF Finalizers THEN "new" ELSE "no"]
    /\ UNCHANGED <<field, temp, tempUsed, listVars, markVars, unswept, slow,
                   OldGenGCDisallowCount>>

Push(v) ==
    /\ sp < StackSize
    /\ v \in H!Readable
    /\ sp' = sp + 1
    /\ stack' = [stack EXCEPT ![sp'] = v]
    /\ Unmoved /\ UNCHANGED <<field, temp, tempUsed, slow>>

(* The variable keeps its value.  Only Mark can still read it, and only where a
   range on the traverse stack covers it; elsewhere the value is forgotten. *)
Pop ==
    /\ sp > 0
    /\ slow = NoSlow
    /\ sp' = sp - 1
    /\ stack' = [stack EXCEPT ![sp] = IF sp \in graySlot THEN @ ELSE Nil]
    /\ Unmoved /\ UNCHANGED <<field, temp, tempUsed, slow>>

AAllocTemp(i) ==
    /\ Temps /\ ~tempUsed
    /\ i \in 1..sp
    /\ temp' = stack[i] /\ tempUsed' = TRUE
    /\ Unmoved /\ UNCHANGED <<field, stack, sp, slow>>

(* The slot keeps its value, in the same way. *)
AFreeTemp ==
    /\ tempUsed
    /\ slow = NoSlow
    /\ tempUsed' = FALSE
    /\ temp' = IF grayTemp THEN temp ELSE Nil
    /\ Unmoved /\ UNCHANGED <<field, stack, sp, slow>>

-----------------------------------------------------------------------------
(* AModifyObject: assign the value at location j to field f of the object at
   location i.  A location is a variable or, 0, the temporary. *)

Location == 0..StackSize
InUse(l) == IF l = 0 THEN tempUsed ELSE l <= sp
Val(l)   == IF l = 0 THEN temp ELSE stack[l]

IsNewRef(i, j)   == gen[Val(i)] = "old" /\ Val(j) \in Objects("new")
IsUntraced(i, j) == /\ gen[Val(i)] = "old" /\ Val(j) \in Objects("old")
                    /\ AGCState = "mark" /\ Val(j) \notin marked

Modifiable(i, j) == InUse(i) /\ InUse(j) /\ Val(i) \in Obj

Assigned(i, f, v) ==
    /\ field' = [field EXCEPT ![Val(i)][f] = v]
    /\ UNCHANGED <<gen, stack, sp, temp, tempUsed, markVars, unswept, fin,
                   OldGenGCDisallowCount>>

(* Faulty variant: the barrier ignores the mark phase. *)
ModifyNoUntraced(i, f, j) ==
    /\ Modifiable(i, j)
    /\ Assigned(i, f, Val(j))
    /\ newRef' = IF IsNewRef(i, j) THEN newRef \cup {<<Val(i), f>>} ELSE newRef
    /\ UNCHANGED <<untraced, slow>>

(* The list of the thread has room. *)
AModifyObject(i, f, j) ==
    /\ Modifiable(i, j)
    /\ Assigned(i, f, Val(j))
    /\ newRef' = IF IsNewRef(i, j) THEN newRef \cup {<<Val(i), f>>} ELSE newRef
    /\ untraced' = IF IsUntraced(i, j) THEN untraced \cup {Val(j)} ELSE untraced
    /\ UNCHANGED slow

(* The list is full: allocating another block may wait for the heap, so a
   collection may come in between.  newVal is read before that. *)
AdvanceList(i, f, j) ==
    /\ ListsFill
    /\ slow = NoSlow
    /\ Modifiable(i, j)
    /\ IsNewRef(i, j) \/ IsUntraced(i, j)
    /\ slow' = [kind |-> IF IsNewRef(i, j) THEN "newRef" ELSE "untraced",
                i |-> i, f |-> f, j |-> j, newVal |-> Val(j)]
    /\ Unmoved /\ UNCHANGED progVars

(* The location is read again for newRef, and not for untraced. *)
ModifyAfterAdvance ==
    /\ slow # NoSlow
    /\ slow' = NoSlow
    /\ IF slow.kind = "newRef"
         THEN /\ newRef' = newRef \cup {<<Val(slow.i), slow.f>>}
              /\ Assigned(slow.i, slow.f, Val(slow.j))
              /\ UNCHANGED untraced
         ELSE /\ untraced' = untraced \cup {slow.newVal}
              /\ Assigned(slow.i, slow.f, slow.newVal)
              /\ UNCHANGED newRef

-----------------------------------------------------------------------------
(* ACollectNewGen.  What is reachable within the new generation is retired to
   the old one, the rest is freed, and newRef is emptied. *)

NewRefValues == {field[l[1]][l[2]] : l \in newRef} \ {Nil}

LiveNew == H!Trace(Roots \cup NewRefValues, Objects("new"), field)
DeadNew == Objects("new") \ LiveNew

(* Only values in use are updated when an object moves. *)
Updated(v, inUse) == IF ~inUse /\ v \in Objects("new") THEN Stale ELSE v

(* "Add all new generation blocks referenced from the old generation to the
   untraced list." *)
RetireUntraced ==
    IF AGCState = "mark" THEN untraced \cup NewRefValues ELSE untraced

(* CheckNewGenFinalizers: run the finalizers of the dead, move the others. *)
NewGenFinalized ==
    [o \in Obj |-> IF fin[o] # "new" THEN fin[o]
                   ELSE IF o \in LiveNew THEN "old" ELSE "run"]

(* Everything but the marks; frame is what happens to unused variables. *)
ACollectNewGen(frame) ==
    /\ gen' = [o \in Obj |-> IF o \in LiveNew THEN "old"
                             ELSE IF o \in DeadNew THEN "free" ELSE gen[o]]
    /\ field' = [o \in Obj |-> IF o \in DeadNew THEN Empty ELSE field[o]]
    /\ stack' = [i \in 1..StackSize |-> Updated(frame[i], i <= sp)]
    /\ temp' = Updated(temp, tempUsed)
    /\ slow' = IF slow.kind = "newRef"
                 THEN [slow EXCEPT !.newVal = Updated(@, FALSE)] ELSE slow
    /\ newRef' = {}
    /\ UNCHANGED <<sp, tempUsed>>

(* A retired block that lies ahead of SweepPtr is marked. *)
RetireBySweep ==
    IF AGCState = "sweep"
      THEN \E ahead \in SUBSET LiveNew :
              /\ unswept' = unswept \cup ahead
              /\ marked' = marked \cup ahead
      ELSE UNCHANGED <<unswept, marked>>

(* GetMarkRootSet: the ranges of memory that Mark will read. *)
GetMarkRootSet ==
    /\ AGCState' = "mark"
    /\ graySlot' = 1..sp
    /\ markBottom' = sp
    /\ UNCHANGED <<grayTemp, grayField, grayObj>>

(* Collect the new generation and, unless that is disallowed, perhaps begin a
   cycle of the old one: its size decides. *)
CollectUnless(disallowed) ==
    /\ ACollectNewGen(stack)
    /\ untraced' = RetireUntraced
    /\ fin' = NewGenFinalized
    /\ RetireBySweep
    /\ \/ AGCState = "none" /\ ~disallowed /\ GetMarkRootSet
       \/ UNCHANGED <<AGCState, grayVars, markBottom>>

ACollectGarbage ==
    /\ CollectUnless(OldGenGCDisallowCount > 0)
    /\ UNCHANGED OldGenGCDisallowCount

-----------------------------------------------------------------------------
(* IncrementalGC, the mark phase. *)

(* Faulty variant: the unused variables are left alone. *)
StackNotCleared == stack

(* ClearUnusedStack: variables that were in use when they were scheduled, and
   are not any more, lose their reference. *)
ClearUnusedStack ==
    [i \in 1..StackSize |-> IF i \in sp + 1 .. markBottom THEN Nil ELSE stack[i]]

(* Mark sets the mark bit of an old object and will read its fields; rest are
   the fields still to be read. *)
Marks(v, rest) ==
    IF v \in Objects("old") \ marked
      THEN /\ marked' = marked \cup {v}
           /\ grayField' = rest \cup {<<v, f>> : f \in Field}
      ELSE /\ grayField' = rest
           /\ UNCHANGED marked

Marking ==
    /\ AGCState = "mark"
    /\ UNCHANGED <<gen, field, sp, temp, tempUsed, listVars, AGCState, markBottom,
                   unswept, fin, slow, OldGenGCDisallowCount>>

MarkSlot(i) ==
    /\ Marking
    /\ i \in graySlot
    /\ stack' = ClearUnusedStack
    /\ graySlot' = graySlot \ {i}
    /\ Marks(stack'[i], grayField)
    /\ UNCHANGED <<grayTemp, grayObj>>

MarkTemp ==
    /\ Marking
    /\ grayTemp
    /\ stack' = ClearUnusedStack
    /\ grayTemp' = FALSE
    /\ Marks(temp, grayField)
    /\ UNCHANGED <<graySlot, grayObj>>

MarkUntraced(o) ==
    /\ Marking
    /\ o \in grayObj
    /\ stack' = ClearUnusedStack
    /\ grayObj' = grayObj \ {o}
    /\ Marks(o, grayField)
    /\ UNCHANGED <<graySlot, grayTemp>>

MarkField(o, f) ==
    /\ Marking
    /\ <<o, f>> \in grayField
    /\ stack' = ClearUnusedStack
    /\ Marks(field[o][f], grayField \ {<<o, f>>})
    /\ UNCHANGED <<graySlot, grayTemp, grayObj>>

NothingGray == graySlot = {} /\ ~grayTemp /\ grayField = {} /\ grayObj = {}

(* Mark has read everything: retire the new generation, then GetMarkUntracedSet
   schedules all roots and what the write barrier has caught. *)
Rescan ==
    /\ AGCState = "mark"
    /\ NothingGray
    /\ ACollectNewGen(ClearUnusedStack)
    /\ untraced' = {}
    /\ markBottom' = sp
    /\ UNCHANGED OldGenGCDisallowCount

(* The second Mark runs out of steps: the next increment goes on. *)
RescanStops ==
    /\ MarkStops
    /\ Rescan
    /\ graySlot' = 1..sp /\ grayTemp' = tempUsed
    /\ grayObj' = RetireUntraced
    /\ fin' = NewGenFinalized
    /\ UNCHANGED <<AGCState, marked, grayField, unswept>>

OldAfterRescan == Objects("old") \cup LiveNew

MarkedAfterRescan ==
    marked \cup H!Trace(Roots \cup RetireUntraced, OldAfterRescan \ marked, field)

(* Faulty variant: the finalizers are checked before the second Mark. *)
OldGenFinalizedEarly(live) ==
    [o \in Obj |-> IF NewGenFinalized[o] = "old" /\ o \notin marked
                     THEN "run" ELSE NewGenFinalized[o]]

(* CheckOldGenFinalizers: run the finalizers of what is not marked. *)
OldGenFinalized(live) ==
    [o \in Obj |-> IF NewGenFinalized[o] = "old" /\ o \notin live
                     THEN "run" ELSE NewGenFinalized[o]]

(* The second Mark completes: InitializeSweep, then the finalizers. *)
RescanCompletes ==
    /\ Rescan
    /\ AGCState' = "sweep"
    /\ marked' = MarkedAfterRescan
    /\ unswept' = OldAfterRescan
    /\ fin' = OldGenFinalized(marked')
    /\ UNCHANGED grayVars

(* Mark cannot grow the traverse stack (TerminateGC).  The untraced lists are
   left as they are. *)
MarkFails ==
    /\ MarkMayFail
    /\ AGCState = "mark"
    /\ AGCState' = "none" /\ marked' = {}
    /\ graySlot' = {} /\ grayTemp' = FALSE /\ grayField' = {} /\ grayObj' = {}
    /\ stack' = ClearUnusedStack
    /\ UNCHANGED <<gen, field, sp, temp, tempUsed, listVars, markBottom, unswept,
                   fin, slow, OldGenGCDisallowCount>>

-----------------------------------------------------------------------------
(* The sweep phase. *)

(* Where nobody looks, references to freed objects stay behind. *)
LeftBehind(freed) ==
    /\ stack' = [i \in 1..StackSize |->
                   IF i > sp /\ stack[i] \in freed THEN Stale ELSE stack[i]]
    /\ temp' = IF ~tempUsed /\ temp \in freed THEN Stale ELSE temp

(* Faulty variant: the mark bits of live objects stay set. *)
SweepKeepsMarks(o) ==
    /\ AGCState = "sweep"
    /\ o \in unswept
    /\ unswept' = unswept \ {o}
    /\ LET freed == {o} \ marked IN
       /\ gen' = [p \in Obj |-> IF p \in freed THEN "free" ELSE gen[p]]
       /\ field' = [p \in Obj |-> IF p \in freed THEN Empty ELSE field[p]]
       /\ LeftBehind(freed)
    /\ UNCHANGED <<sp, tempUsed, listVars, AGCState, marked, grayVars, markBottom,
                   fin, slow, OldGenGCDisallowCount>>

(* Sweep frees an unmarked object, or clears the mark of a live one. *)
Sweep(o) ==
    /\ AGCState = "sweep"
    /\ o \in unswept
    /\ unswept' = unswept \ {o}
    /\ marked' = marked \ {o}
    /\ LET freed == {o} \ marked IN
       /\ gen' = [p \in Obj |-> IF p \in freed THEN "free" ELSE gen[p]]
       /\ field' = [p \in Obj |-> IF p \in freed THEN Empty ELSE field[p]]
       /\ LeftBehind(freed)
    /\ UNCHANGED <<sp, tempUsed, listVars, AGCState, grayVars, markBottom, fin,
                   slow, OldGenGCDisallowCount>>

(* "Completed sweep." *)
SweepEnds ==
    /\ AGCState = "sweep"
    /\ unswept = {}
    /\ AGCState' = "none"
    /\ UNCHANGED <<gen, progVars, listVars, marked, grayVars, markBottom, unswept,
                   fin, slow, OldGenGCDisallowCount>>

-----------------------------------------------------------------------------
(* Collections that leave no cycle active: what is not in live is freed.  No
   range covers unused variables any more, so their values are forgotten. *)
CollectFully(live) ==
    /\ gen' = [o \in Obj |-> IF o \in live THEN "old" ELSE "free"]
    /\ field' = [o \in Obj |-> IF o \in live THEN field[o] ELSE Empty]
    /\ stack' = [i \in 1..StackSize |-> IF i <= sp THEN stack[i] ELSE Nil]
    /\ temp' = IF tempUsed THEN temp ELSE Nil
    /\ slow' = IF slow.kind = "newRef"
                 THEN [slow EXCEPT !.newVal = Updated(@, FALSE)] ELSE slow
    /\ newRef' = {}
    /\ AGCState' = "none" /\ marked' = {} /\ unswept' = {}
    /\ graySlot' = {} /\ grayTemp' = FALSE /\ grayField' = {} /\ grayObj' = {}
    /\ UNCHANGED <<sp, tempUsed>>

(* ACollectAllGarbage: ACollectGarbage, then ACollectGarbageForced, which drops
   the current cycle and performs another one at once. *)
ACollectAllGarbage ==
    /\ OldGenGCDisallowCount = 0
    /\ CollectFully(H!Reachable)
    /\ fin' = OldGenFinalized(H!Reachable)
    /\ untraced' = {}
    /\ markBottom' = sp
    /\ UNCHANGED OldGenGCDisallowCount

(* What is left when the active cycle is finished without a stop. *)
GrayValues ==
    {ClearUnusedStack[i] : i \in graySlot} \cup (IF grayTemp THEN {temp} ELSE {})
    \cup {field[l[1]][l[2]] : l \in grayField} \cup grayObj

LiveAfterCycle ==
    IF AGCState = "mark"
      THEN marked \cup H!Trace(GrayValues \cup Roots \cup RetireUntraced,
                              OldAfterRescan \ marked, field)
      ELSE (Objects("old") \ unswept) \cup marked \cup LiveNew

(* ADisallowOldGenGC finishes the active cycle before the first disallowing. *)
ADisallowOldGenGC ==
    /\ OldGenGCDisallowCount < MaxDisallow
    /\ OldGenGCDisallowCount' = OldGenGCDisallowCount + 1
    /\ IF OldGenGCDisallowCount = 0 /\ AGCState # "none"
         THEN /\ CollectFully(LiveAfterCycle)
              /\ IF AGCState = "mark"
                   THEN /\ fin' = OldGenFinalized(LiveAfterCycle)
                        /\ untraced' = {} /\ markBottom' = sp
                   ELSE fin' = NewGenFinalized /\ UNCHANGED <<untraced, markBottom>>
         ELSE UNCHANGED <<gen, progVars, listVars, markVars, unswept, fin, slow>>

(* The last call collects garbage if there is enough of it. *)
AAllowOldGenGC ==
    /\ OldGenGCDisallowCount > 0
    /\ OldGenGCDisallowCount' = OldGenGCDisallowCount - 1
    /\ \/ OldGenGCDisallowCount = 1 /\ CollectUnless(FALSE)
       \/ UNCHANGED <<gen, progVars, listVars, markVars, unswept, fin, slow>>

-----------------------------------------------------------------------------

Program ==
    \/ \E o \in Obj : AAlloc(o)
    \/ \E v \in Value : Push(v)
    \/ Pop
    \/ \E i, j \in Location, f \in Field :
          AModifyObject(i, f, j) \/ AdvanceList(i, f, j)
    \/ ModifyAfterAdvance
    \/ \E i \in 1..StackSize : AAllocTemp(i)
    \/ AFreeTemp

Mark ==
    \/ \E i \in 1..StackSize : MarkSlot(i)
    \/ MarkTemp
    \/ \E o \in Obj : MarkUntraced(o)
    \/ \E o \in Obj, f \in Field : MarkField(o, f)

Collector ==
    \/ ACollectGarbage
    \/ Mark \/ MarkFails \/ RescanStops \/ RescanCompletes
    \/ (\E o \in Obj : Sweep(o)) \/ SweepEnds
    \/ ACollectAllGarbage
    \/ ADisallowOldGenGC \/ AAllowOldGenGC

GCNext == Program \/ Collector

GCSpec == GCInit /\ [][GCNext]_vars

(* The program goes on allocating, so that collections and increments keep
   coming; an old generation full of garbage makes AIsItTimeForFullGC true; an
   increment has more steps than the roots need. *)
GCFairSpec ==
    /\ GCSpec
    /\ SF_vars(ACollectGarbage /\ AGCState' # AGCState)
    /\ WF_vars(Mark)
    /\ SF_vars(RescanCompletes)
    /\ WF_vars((\E o \in Obj : Sweep(o)) \/ SweepEnds)

-----------------------------------------------------------------------------
(* Properties. *)

GCTypeOK ==
    /\ gen \in [Obj -> {"free", "new", "old"}]
    /\ field \in [Obj -> [Field -> Value]]
    /\ sp \in 0..StackSize
    /\ stack \in [1..StackSize -> Value \cup {Stale}]
    /\ temp \in Value \cup {Stale} /\ tempUsed \in BOOLEAN
    /\ newRef \subseteq Obj \X Field /\ untraced \subseteq Obj
    /\ AGCState \in {"none", "mark", "sweep"}
    /\ marked \subseteq Obj
    /\ graySlot \subseteq 1..StackSize /\ grayTemp \in BOOLEAN
    /\ grayField \subseteq Obj \X Field /\ grayObj \subseteq Obj
    /\ markBottom \in 0..StackSize
    /\ unswept \subseteq Obj
    /\ fin \in [Obj -> {"no", "new", "old", "run"}]
    /\ slow = NoSlow \/ slow.kind \in {"newRef", "untraced"}
    /\ OldGenGCDisallowCount \in 0..MaxDisallow

(* The collector implements the managed heap: whatever it frees is garbage, and
   it changes nothing that the program can see, however collections,
   increments and assignments follow each other. *)
ImplementsHeap == H!HeapSpec

(* The lists never outlive what they refer to: TraverseNewGen reads and writes
   through the pointers in newRef, so each must lie in an old object that has
   not been freed, and what Mark takes from the untraced list must be an old
   object. *)
ListsAreSound ==
    /\ \A l \in newRef : gen[l[1]] = "old"
    /\ untraced \cup grayObj \subseteq Objects("old")

(* "Trace only old-generation objects": a range that Mark has yet to read, after
   ClearUnusedStack, holds no reference to memory that has been reused. *)
MarkReadsNoStale ==
    /\ \A i \in graySlot : ClearUnusedStack[i] # Stale
    /\ grayTemp => temp # Stale

(* The collector's own state is sound: no list, and no range that Mark has yet
   to read, refers to memory that has been freed or reused. *)
CollectorIsSound == GCTypeOK /\ ListsAreSound /\ MarkReadsNoStale

(* A finalizer runs before its object is freed, only when the program cannot
   reach the object, and only once. *)
FinalizerRunsOnce ==
    [][\A o \in Obj :
         /\ fin'[o] = "run" /\ fin[o] # "run" => o \notin H!Reachable
         /\ gen[o] # "free" /\ gen'[o] = "free" => fin'[o] \in {"no", "run"}
         /\ fin[o] = "run" /\ fin'[o] # "run" => gen[o] = "free"]_vars

-----------------------------------------------------------------------------
(* What a proof of these properties needs, as one inductive invariant. *)

(* What the sweep in progress will free, the old objects that stay, and all the
   objects that the program may yet reach. *)
Doomed == unswept \ marked
Kept   == Objects("old") \ Doomed
Alive  == Kept \cup Objects("new")

PhasesAreSound ==
    /\ AGCState = "none" => marked = {}
    /\ AGCState # "mark" => NothingGray
    /\ AGCState # "sweep" => unswept = {}
    /\ AGCState = "sweep" => marked \subseteq unswept
    /\ marked \cup unswept \subseteq Objects("old")
    /\ graySlot \subseteq 1..markBottom

FreeIsEmpty == \A o \in Objects("free") : field[o] = Empty

RootsAreAlive == Roots \subseteq Alive \cup {Nil}

(* What is alive refers to what is alive, and newRef knows of every reference
   from an old object to a new one. *)
RefsAreAlive ==
    \A o \in Alive, f \in Field :
       /\ field[o][f] \in Alive \cup {Nil}
       /\ o \in Kept /\ field[o][f] \in Objects("new") => <<o, f>> \in newRef

ListsAreKept ==
    /\ \A l \in newRef : l[1] \in Kept
    /\ untraced \cup grayObj \subseteq Kept

(* Mark has followed the references of marked objects, or a list makes sure
   that it will. *)
MarkedIsTraced ==
    AGCState = "mark" =>
       \A o \in marked, f \in Field :
          \/ field[o][f] \in {Nil} \cup marked \cup untraced \cup grayObj
          \/ <<o, f>> \in grayField \cup newRef

(* The assignment that waits has its object and its value in variables. *)
SlowIsSound ==
    slow # NoSlow =>
       /\ slow \in [kind : {"newRef", "untraced"}, i : Location, f : Field,
                    j : Location, newVal : Value \cup {Stale}]
       /\ InUse(slow.i) /\ InUse(slow.j)
       /\ Val(slow.i) \in Kept
       /\ slow.kind = "untraced" => slow.newVal = Val(slow.j) /\ slow.newVal \in Kept

FinalizersFollow ==
    \A o \in Obj :
       /\ fin[o] = "new" => o \in Objects("new")
       /\ fin[o] = "old" => o \in Kept
       /\ fin[o] = "run" => o \notin Alive

GCIInv ==
    /\ GCTypeOK /\ PhasesAreSound /\ FreeIsEmpty
    /\ RootsAreAlive /\ RefsAreAlive /\ ListsAreKept /\ MarkedIsTraced
    /\ SlowIsSound /\ FinalizersFollow

(* Garbage does not stay: what the program cannot reach is freed, cycles and
   objects that died while they were marked included. *)
GarbageIsFreed ==
    \A o \in Obj :
       gen[o] # "free" /\ o \notin H!Reachable ~> gen[o] = "free"
=============================================================================
