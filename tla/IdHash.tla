------------------------------- MODULE IdHash -------------------------------
(***************************************************************************)
(* The hash values of objects without a _hash method (std_hashvalue.c).    *)
(* They are numbers that two tables keep for the addresses of objects, one *)
(* for the nursery and one for the old generation, because collections     *)
(* move objects.  A thread may have to wait in AGetIdHashValue, for the    *)
(* mutex of the tables or for the heap; then another thread can collect    *)
(* garbage, and the object is moved.                                       *)
(*                                                                         *)
(* A table is a set of nodes; the chains, and the list of free nodes, are  *)
(* left out.                                                               *)
(***************************************************************************)
EXTENDS Integers, FiniteSets

CONSTANTS
    HvThreads,      \* threads that call Hash
    HvObjects,      \* objects
    HvNursery,      \* addresses of the nursery
    HvOld,          \* addresses of the old generation
    HvNowhere,      \* no address
    HvTableSize,    \* INITIAL_HASH_MAPPING_TABLE_SIZE
    MaxHashValue,   \* bound: hash values that are given out
    HvDeviations    \* whether an address that a thread holds, waiting for the
                    \* tables, may become that of a new object

ASSUME HvAssumption ==
    /\ HvNursery \cap HvOld = {}
    /\ HvNowhere \notin HvNursery \union HvOld

VARIABLES
    hvAddr,     \* the address of each object
    hvHeld,     \* the objects that the program refers to
    hvNodes,    \* the nodes of NewGenTable and of OldGenTable
    hvSize,     \* the num and the size of each table
    hvCounter,  \* HashValueCounter
    hvCall,     \* the call of each thread: [pc, obj, p, table, hash, again]
    hvGiven     \* the hash value that was returned last for each object, or 0

hvVars == <<hvAddr, hvHeld, hvNodes, hvSize, hvCounter, hvCall, hvGiven>>

HvIdle == [pc |-> "idle"]

Generations == {"new", "old"}

InitializeTable ==
    /\ hvNodes = [g \in Generations |-> {}]
    /\ hvSize = [g \in Generations |-> [num |-> 0, size |-> HvTableSize]]

HvInit ==
    /\ hvAddr = [o \in HvObjects |-> HvNowhere]
    /\ hvHeld = {}
    /\ InitializeTable
    /\ hvCounter = 1
    /\ hvCall = [t \in HvThreads |-> HvIdle]
    /\ hvGiven = [o \in HvObjects |-> 0]

TableOf(p) == IF p \in HvNursery THEN "new" ELSE "old"

HvGoto(t, pc) == hvCall' = [hvCall EXCEPT ![t].pc = pc]
HvUntouched   == UNCHANGED <<hvAddr, hvHeld>>
hvTables      == <<hvNodes, hvSize>>

\* A thread has the mutex of the tables.
HvLocked == \E t \in HvThreads : hvCall[t].pc \in {"alloc", "grow", "insert"}

(***************************************************************************)
(* AGetIdHashValue, from one place where the thread may wait to the next.  *)
(***************************************************************************)
\* The address and the table are chosen before the mutex is locked.
HvChoose(o, again) ==
    [pc |-> "lock", obj |-> o, p |-> hvAddr[o], table |-> TableOf(hvAddr[o]), hash |-> 0, again |-> again]

AGetIdHashValue(t, o) ==
    /\ hvCall[t] = HvIdle /\ o \in hvHeld
    /\ hvCall' = [hvCall EXCEPT ![t] = HvChoose(o, 0)]
    /\ HvUntouched /\ UNCHANGED <<hvTables, hvCounter, hvGiven>>

HvReturns(t, hash) ==
    /\ hvCall' = [hvCall EXCEPT ![t] = HvIdle]
    /\ hvGiven' = [hvGiven EXCEPT ![hvCall[t].obj] = hash]

GetHashMapping(table, p) == {n.hash : n \in {m \in hvNodes[table] : m.ptr = p}}

\* The thread has got the mutex and looks up the address.
HvLookUp(t) ==
    LET c == hvCall[t]
        found == GetHashMapping(c.table, c.p)
    IN  /\ c.pc = "lock" /\ ~HvLocked
        /\ IF found = {} THEN HvGoto(t, "alloc") /\ UNCHANGED hvGiven
           ELSE \E h \in found : HvReturns(t, h)
        /\ HvUntouched /\ UNCHANGED <<hvTables, hvCounter>>

\* A new node has the next value.  It may need memory, and may not get it.
AllocNode(t) ==
    LET c == hvCall[t]
        full == hvSize[c.table].num > hvSize[c.table].size
    IN  /\ c.pc = "alloc" /\ hvCounter <= MaxHashValue
        /\ \/ /\ hvCall' = [hvCall EXCEPT ![t] = [@ EXCEPT !.hash = hvCounter,
                                                           !.pc = IF full THEN "grow" ELSE "insert"]]
              /\ hvCounter' = hvCounter + 1
           \/ hvCall' = [hvCall EXCEPT ![t] = HvIdle] /\ UNCHANGED hvCounter
        /\ HvUntouched /\ UNCHANGED <<hvTables, hvGiven>>

\* The table doubles if there is memory for it.  (To free the old array is a
\* place where the thread may wait, with both arrays half valid; that
\* collections come just there is left out.)
GrowHashTable(t) ==
    LET c == hvCall[t]
    IN  /\ c.pc = "grow"
        /\ \/ hvSize' = [hvSize EXCEPT ![c.table].size = 2 * @] /\ HvGoto(t, "insert")
           \/ hvCall' = [hvCall EXCEPT ![t] = HvIdle] /\ UNCHANGED hvSize
        /\ HvUntouched /\ UNCHANGED <<hvNodes, hvCounter, hvGiven>>

(* Faulty variant: the object is taken to be where it was. *)
NeverMoved(c) == FALSE

\* The object has been moved since its address was read.
IsMoved(c) == hvAddr[c.obj] # c.p

\* Link the node, or begin again if the object has been moved.
InsertNode(t) ==
    LET c == hvCall[t]
    IN  /\ c.pc = "insert"
        /\ IF IsMoved(c)
           THEN /\ hvCall' = [hvCall EXCEPT ![t] = HvChoose(c.obj, c.again + 1)]
                /\ UNCHANGED <<hvTables, hvGiven>>
           ELSE /\ hvNodes' = [hvNodes EXCEPT ![c.table] = @ \union {[ptr |-> c.p, hash |-> c.hash]}]
                /\ hvSize' = [hvSize EXCEPT ![c.table].num = @ + 1]
                /\ HvReturns(t, c.hash)
        /\ HvUntouched /\ UNCHANGED hvCounter

(***************************************************************************)
(* The program and the collector.                                          *)
(***************************************************************************)
FreeOf(S) == S \ {hvAddr[o] : o \in HvObjects}

\* A thread waits for the mutex with an address that is not valid any more.
IsStaleAt(p) == \E t \in HvThreads : /\ hvCall[t].pc = "lock"
                                     /\ hvCall[t].p = p /\ IsMoved(hvCall[t])

HvCreate(o) ==
    /\ hvAddr[o] = HvNowhere
    /\ \E p \in FreeOf(HvNursery) :
          /\ IsStaleAt(p) => HvDeviations
          /\ hvAddr' = [hvAddr EXCEPT ![o] = p]
    /\ hvHeld' = hvHeld \union {o}
    /\ hvGiven' = [hvGiven EXCEPT ![o] = 0]
    /\ UNCHANGED <<hvTables, hvCounter, hvCall>>

\* The program drops its last reference to an object.
HvForget(o) ==
    /\ o \in hvHeld
    /\ \A t \in HvThreads : hvCall[t] # HvIdle => hvCall[t].obj # o
    /\ hvHeld' = hvHeld \ {o}
    /\ UNCHANGED <<hvAddr, hvTables, hvCounter, hvCall, hvGiven>>

\* Another thread collects garbage while these wait, for the mutex of the
\* tables or for memory, or run other code.
HvCollects == \A t \in HvThreads : hvCall[t].pc \in {"idle", "lock", "alloc", "grow"}

\* The nodes of objects that were copied; the others are forgotten.
MovedNodes(to) ==
    {n \in [ptr : HvOld, hash : {m.hash : m \in hvNodes["new"]}] :
        \E o \in DOMAIN to : /\ n.ptr = to[o]
                             /\ [ptr |-> hvAddr[o], hash |-> n.hash] \in hvNodes["new"]}

AMoveNewGenHashMappingsToOldGen(to) ==
    /\ hvNodes' = [g \in Generations |-> IF g = "new" THEN {} ELSE hvNodes["old"] \union MovedNodes(to)]
    /\ hvSize' = [hvSize EXCEPT !["new"].num = 0, !["old"].num = @ + hvSize["new"].num]

\* The nursery is emptied: live objects move, the others are gone.
CollectNursery ==
    LET young == {o \in HvObjects : hvAddr[o] \in HvNursery}
        live  == young \cap hvHeld
    IN  /\ HvCollects /\ young # {}
        /\ \E to \in [live -> FreeOf(HvOld)] :
              /\ \A o, u \in live : to[o] = to[u] => o = u
              /\ hvAddr' = [o \in HvObjects |-> IF o \in live THEN to[o]
                                                ELSE IF o \in young THEN HvNowhere ELSE hvAddr[o]]
              /\ AMoveNewGenHashMappingsToOldGen(to)
        /\ UNCHANGED <<hvHeld, hvCounter, hvCall, hvGiven>>

\* Before the sweep, when the nursery has been emptied, the nodes of the
\* objects that are not marked are freed; the sweep frees the objects.  An
\* object that was dropped while others were marked can be marked.
ASweepOldGenHashMappings ==
    /\ HvCollects
    /\ \A o \in HvObjects : hvAddr[o] \notin HvNursery
    /\ \E dead \in SUBSET {o \in HvObjects : hvAddr[o] # HvNowhere /\ o \notin hvHeld} :
          /\ dead # {}
          /\ hvNodes' = [hvNodes EXCEPT !["old"] = {n \in @ : \A o \in dead : n.ptr # hvAddr[o]}]
          /\ hvAddr' = [o \in HvObjects |-> IF o \in dead THEN HvNowhere ELSE hvAddr[o]]
    /\ UNCHANGED <<hvHeld, hvSize, hvCounter, hvCall, hvGiven>>

HvNext ==
    \/ \E t \in HvThreads, o \in HvObjects : AGetIdHashValue(t, o)
    \/ \E t \in HvThreads : HvLookUp(t) \/ AllocNode(t) \/ GrowHashTable(t) \/ InsertNode(t)
    \/ \E o \in HvObjects : HvCreate(o) \/ HvForget(o)
    \/ CollectNursery
    \/ ASweepOldGenHashMappings

HvSpec == HvInit /\ [][HvNext]_hvVars

(***************************************************************************)
(* Properties.                                                             *)
(***************************************************************************)
\* The value that AGetIdHashValue returned for an object is the one that the
\* tables hold for the address the object has now, however often it has been
\* asked for, by several threads at once, and the object has been moved.
ValuesAreKept ==
    \A o \in hvHeld : hvGiven[o] # 0
        => GetHashMapping(TableOf(hvAddr[o]), hvAddr[o]) = {hvGiven[o]}

\* No node is left for an address where there is no object, which a later
\* object at that address would inherit.
NodesHaveObjects ==
    \A g \in Generations : \A n \in hvNodes[g] :
        TableOf(n.ptr) = g /\ \E o \in HvObjects : hvAddr[o] = n.ptr

\* AGetIdHashValue begins again at most once: objects are moved only once.
BeginsAgainOnce == \A t \in HvThreads : hvCall[t] # HvIdle => hvCall[t].again <= 1

\* Identity hash values do not change while an object lives.
IdentityHashIsKept == ValuesAreKept /\ NodesHaveObjects /\ BeginsAgainOnce

(***************************************************************************)
(* The inductive invariant behind IdentityHashIsKept.                      *)
(***************************************************************************)
HvAddresses == HvNursery \union HvOld

HvCalls == [pc : {"lock", "alloc", "grow", "insert"}, obj : HvObjects, p : HvAddresses,
            table : Generations, hash : Nat, again : {0, 1}]

HvTypeOK ==
    /\ hvAddr \in [HvObjects -> HvAddresses \union {HvNowhere}]
    /\ hvHeld \in SUBSET HvObjects
    /\ hvNodes \in [Generations -> SUBSET [ptr : HvAddresses, hash : Nat]]
    /\ hvCounter \in Nat
    /\ hvCall \in [HvThreads -> HvCalls \union {HvIdle}]
    /\ hvGiven \in [HvObjects -> Nat]

\* Objects that the program refers to are in memory, each in its place.
ObjectsAreApart ==
    /\ \A o \in hvHeld : hvAddr[o] # HvNowhere
    /\ \A o, u \in HvObjects : hvAddr[o] = hvAddr[u] /\ hvAddr[o] # HvNowhere => o = u

\* The tables are functions: an address has one node.
NodesAreApart ==
    \A g \in Generations : \A n, m \in hvNodes[g] : n.ptr = m.ptr => n = m

GivenHasNode ==
    \A o \in hvHeld : hvGiven[o] # 0
        => [ptr |-> hvAddr[o], hash |-> hvGiven[o]] \in hvNodes[TableOf(hvAddr[o])]

\* What a call knows: its address is out of date only if the object was moved
\* out of the nursery, and is nobody's while the call waits for the tables; an
\* address that was looked up in vain, and is still right, has no node.
CallIsSound(c) ==
    /\ c.obj \in hvHeld
    /\ c.table = TableOf(c.p)
    /\ c.again = 1 => c.p \in HvOld
    /\ IsMoved(c) => c.p \in HvNursery /\ hvAddr[c.obj] \in HvOld
    /\ c.pc = "lock" /\ IsMoved(c) => \A o \in HvObjects : hvAddr[o] # c.p
    /\ c.pc # "lock" /\ ~IsMoved(c) => \A n \in hvNodes[c.table] : n.ptr # c.p

CallsAreSound == \A t \in HvThreads : hvCall[t] # HvIdle => CallIsSound(hvCall[t])

OneHasMutex ==
    \A t, u \in HvThreads :
        hvCall[t].pc \notin {"idle", "lock"} /\ hvCall[u].pc \notin {"idle", "lock"} => t = u

HvIInv ==
    /\ HvTypeOK
    /\ ObjectsAreApart
    /\ NodesHaveObjects
    /\ NodesAreApart
    /\ GivenHasNode
    /\ CallsAreSound
    /\ OneHasMutex
=============================================================================
