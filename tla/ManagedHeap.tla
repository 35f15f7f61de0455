---------------------------- MODULE ManagedHeap ----------------------------
(***************************************************************************)
(* What the memory manager promises to the interpreter: the program        *)
(* allocates objects, keeps references in variables, temporaries and       *)
(* fields, and loses nothing that it can still reach.  Objects that it can *)
(* no longer reach are reclaimed at any time, several at once.             *)
(***************************************************************************)
EXTENDS Naturals

CONSTANTS
    Obj,        \* the objects (blocks) that the heap has room for
    Field,      \* the fields of an object
    Nil,        \* a value that is no reference
    StackSize   \* the number of variables

VARIABLES
    allocated,  \* the objects that are in use
    field,      \* the contents of the objects
    stack,      \* local and global variables; Nil above sp
    sp,         \* the number of variables in use
    temps       \* the value of the temporary, if it is in use

heapVars == <<allocated, field, stack, sp, temps>>

Value == Obj \cup {Nil}
Empty == [f \in Field |-> Nil]

HeapInit ==
    /\ allocated = {}
    /\ field = [o \in Obj |-> Empty]
    /\ stack = [i \in 1..StackSize |-> Nil]
    /\ sp = 0
    /\ temps = {}

(* The objects that a chain of references leads to, from the set S and only
   over objects of the set N: the smallest subset of N that contains what is
   in S and is closed under references.  A walk that sets a flag in each
   object, and does not follow the references of flagged objects, visits
   exactly these. *)
Trace(S, N, contents) ==
    {o \in N : \A C \in SUBSET N :
        /\ S \cap N \subseteq C
        /\ \A p \in C, f \in Field : contents[p][f] \in N => contents[p][f] \in C
        => o \in C}

Roots     == {stack[i] : i \in 1..sp} \cup temps
Reachable == Trace(Roots, Obj, field)
Readable  == Roots \cup {Nil} \cup
             {field[o][f] : o \in Roots \cap Obj, f \in Field}

New(o) ==
    /\ o \notin allocated
    /\ sp < StackSize
    /\ allocated' = allocated \cup {o}
    /\ sp' = sp + 1
    /\ stack' = [stack EXCEPT ![sp'] = o]
    /\ UNCHANGED <<field, temps>>

Push(v) ==
    /\ sp < StackSize
    /\ v \in Readable
    /\ sp' = sp + 1
    /\ stack' = [stack EXCEPT ![sp'] = v]
    /\ UNCHANGED <<allocated, field, temps>>

Pop ==
    /\ sp > 0
    /\ sp' = sp - 1
    /\ stack' = [stack EXCEPT ![sp] = Nil]
    /\ UNCHANGED <<allocated, field, temps>>

Store(o, f, v) ==
    /\ {o, v} \subseteq Roots
    /\ field' = [field EXCEPT ![o][f] = v]
    /\ UNCHANGED <<allocated, stack, sp, temps>>

SetTemp(i) ==
    /\ i \in 1..sp
    /\ temps' = {stack[i]}
    /\ UNCHANGED <<allocated, field, stack, sp>>

FreeTemp ==
    /\ temps' = {}
    /\ UNCHANGED <<allocated, field, stack, sp>>

Reclaim ==
    /\ allocated' \subseteq allocated
    /\ allocated \cap Reachable \subseteq allocated'
    /\ field' = [o \in Obj |-> IF o \in allocated' THEN field[o] ELSE Empty]
    /\ UNCHANGED <<stack, sp, temps>>

HeapNext ==
    \/ \E o \in Obj : New(o)
    \/ \E v \in Value : Push(v)
    \/ Pop
    \/ \E o \in Obj, f \in Field, v \in Value : Store(o, f, v)
    \/ \E i \in 1..StackSize : SetTemp(i)
    \/ FreeTemp
    \/ Reclaim

HeapSpec == HeapInit /\ [][HeapNext]_heapVars
=============================================================================
