----------------------------- MODULE BlockHeap -----------------------------
(***************************************************************************)
(* The global heap (heap.c, heapalloc.c) and what the collector does to    *)
(* its blocks (gc.c: static blocks, big blocks of the new generation, the  *)
(* sweep).  The heap is a list of chunks; a chunk is a header, the blocks  *)
(* and the mark bits.  Free blocks are linked into lists by their size:    *)
(* the smallest have no back pointers, the largest share lists that are    *)
(* sorted, with the blocks of equal size hanging from the first of them.   *)
(* The block allocated from last (cur) is in no list and has no header.    *)
(*                                                                         *)
(* Sizes and addresses count words of 8 bytes.  What the mark phase finds  *)
(* is open: it marks what is held and any part of the garbage (GC.tla is   *)
(* about the marking).                                                     *)
(***************************************************************************)
EXTENDS Integers, Sequences, SequencesExt, FiniteSetsExt, Functions

CONSTANTS
    HpMinBlock,    \* A_MIN_BLOCK_SIZE (2)
    HpNode,        \* the size of an AFreeListNode (4)
    HpNonUniform,  \* A_SMALLEST_NONUNIFORM_LIST_SIZE (8)
    HpLists,       \* the last free list (63)
    HpCurLimit,    \* the largest cur that is always used (64)
    HpPage,        \* PAGE_SIZE (512)
    HpBitRatio,    \* words per word of mark bits (64)
    HpMaxSize,     \* AMaxHeapSize
    HpRequests,    \* the kinds (old, static, new) and sizes of the blocks asked for
    HpCounts,      \* the numbers of objects that a sweep increment is for
    MaxHpAllocs,   \* the bound on the number of allocations
    HpDeviations   \* do blocks change under the sweep, and does a search leave the lists?

VARIABLES bh, hpUsed, hpAllocs

heapVars == <<bh, hpUsed, hpAllocs>>

Null    == 0
ListEnd == -1       \* AListTerminator
HeapEnd == -2       \* AHeapTerminator
Outside == -3       \* what is behind the array of lists

HpHeader == 2       \* sizeof(AHeapBlock)
BigStub  == 3       \* A_NEW_GEN_NODE_HEADER_SIZE

\* AGetFreeList(n): the pointer before list n, seen as a node.
AGetFreeList(n) == -10 - n
IsListHead(p)   == p <= -10

UsedHead(size, kind) == [kind |-> kind, size |-> size, next |-> Null, child |-> Null, prev |-> Null]
FreeHead(size)       == UsedHead(size, "free")
IsFreeAt(h, p) == p \in DOMAIN h.heads /\ h.heads[p].kind = "free"

AIsLargeEnoughFreeBlock(free, size) == free >= size + HpMinBlock \/ free = size

AGetFreeListNum(size) ==
    Min({IF size < HpNonUniform THEN size ELSE HpNonUniform + ((size - HpNonUniform) \div 4), HpLists})

AGetBitFieldSize(size) == size \div HpBitRatio
AGetHeapBlockData(c)    == c.at + HpHeader
AGetHeapBlockDataEnd(c) == c.at + c.size - AGetBitFieldSize(c.size)
IsInChunk(c, p) == c.at <= p /\ p < AGetHeapBlockDataEnd(c)

(***************************************************************************)
(* The free lists.                                                         *)
(***************************************************************************)
NextNode(h, p) == IF IsListHead(p) THEN h.lists[-10 - p] ELSE h.heads[p].next
SetNext(h, p, v) == IF IsListHead(p) THEN [h EXCEPT !.lists[-10 - p] = v]
                    ELSE [h EXCEPT !.heads[p].next = v]
SetPrev(h, p, v)  == IF p \in {ListEnd, HeapEnd, Null} THEN h ELSE [h EXCEPT !.heads[p].prev = v]
SetChild(h, p, v) == [h EXCEPT !.heads[p].child = v]

IsSmaller(h, p, size) == p \notin {ListEnd, HeapEnd} /\ h.heads[p].size < size
IsEqualTo(h, p, size) == p \notin {ListEnd, HeapEnd} /\ h.heads[p].size = size

RECURSIVE PlaceInList(_, _, _)
PlaceInList(h, cur, size) ==
    IF IsSmaller(h, NextNode(h, cur), size) THEN PlaceInList(h, NextNode(h, cur), size) ELSE cur

\* The block behind cur; a block of a size that is there hangs from the first.
LinkBehind(h, at, cur, next) ==
    SetNext(SetPrev([h EXCEPT !.heads[at].next = next, !.heads[at].prev = cur], next, at), cur, at)
LinkBelow(h, at, cur) ==
    SetChild(SetPrev([h EXCEPT !.heads[at].prev = cur, !.heads[at].child = h.heads[cur].child],
                     h.heads[cur].child, at), cur, at)

LinkSorted(h, at, cur, size) ==
    IF IsEqualTo(h, NextNode(h, cur), size) THEN LinkBelow(h, at, NextNode(h, cur))
    ELSE LinkBehind(h, at, cur, NextNode(h, cur))

LinkFree(h, at, size, n) ==
    CASE size < HpNode -> [h EXCEPT !.heads[at].next = h.lists[n], !.lists[n] = at]
      [] size >= HpNode /\ size < HpNonUniform -> LinkBehind(h, at, AGetFreeList(n), h.lists[n])
      [] OTHER -> LinkSorted(h, at, PlaceInList(h, AGetFreeList(n), size), size)

\* What was in the block is forgotten.
WithHead(h, at, head) ==
    [h EXCEPT !.heads = [p \in (DOMAIN @ \ (at .. at + head.size - 1)) \union {at} |->
                            IF p = at THEN head ELSE @[p]]]

AAddFreeBlock(h, at, size) ==
    LinkFree(WithHead(h, at, FreeHead(size)), at, size, AGetFreeListNum(size))

\* A block is unlinked and left as an allocated block.  It is a fault if it
\* is not free, or has no back pointer.
Unlinked(h, p, n) ==
    IF n.next # Null
    THEN IF n.size >= HpNonUniform /\ n.child # Null
         THEN SetNext(SetPrev([h EXCEPT !.heads[n.child].prev = n.prev, !.heads[n.child].next = n.next],
                              n.next, n.child), n.prev, n.child)
         ELSE SetNext(SetPrev(h, n.next, n.prev), n.prev, n.next)
    ELSE SetChild(SetPrev(h, n.child, n.prev), n.prev, n.child)

ARemoveBlockFromFreeList(h, p) ==
    IF ~IsFreeAt(h, p) \/ h.heads[p].size < HpNode THEN [h EXCEPT !.fault = TRUE]
    ELSE [Unlinked(h, p, h.heads[p]) EXCEPT !.heads[p] = UsedHead(h.heads[p].size, "old")]

RECURSIVE ListNodes(_, _)
ListNodes(h, p) == IF p \in {ListEnd, HeapEnd, Null} THEN <<>> ELSE <<p>> \o ListNodes(h, h.heads[p].next)

\* The blocks of the lists without back pointers become garbage.
ARemoveSmallBlocksFromFreeList(h) ==
    LET small == UNION {ToSet(ListNodes(h, h.lists[n])) : n \in 1 .. AGetFreeListNum(HpNode) - 1}
    IN  [h EXCEPT !.heads = [p \in DOMAIN @ |-> IF p \in small THEN UsedHead(@[p].size, "old") ELSE @[p]],
                  !.lists = [n \in DOMAIN @ |-> IF n < AGetFreeListNum(HpNode) THEN ListEnd ELSE @[n]]]

AIsInsideLastBlock(h, p) == p >= h.last /\ p <= h.lastEnd

\* cur goes back to a list.  The pointer is still set when forget is false.
RetireCur(h, forget) ==
    LET Update(g) == [g EXCEPT !.last = IF AIsInsideLastBlock(g, g.cur) THEN g.cur ELSE @]
        Add(g)    == IF g.curSize > 0 THEN AAddFreeBlock(g, g.cur, g.curSize) ELSE g
    IN  [Add(Update(h)) EXCEPT !.curSize = 0, !.cur = IF forget THEN Null ELSE @]

AInactivateCurFreeBlock(h) == RetireCur(h, TRUE)

(***************************************************************************)
(* Allocation.                                                             *)
(***************************************************************************)
RECURSIVE FirstFit(_, _, _)
FirstFit(h, p, size) ==
    IF p \in {ListEnd, HeapEnd} \/ AIsLargeEnoughFreeBlock(h.heads[p].size, size) THEN p
    ELSE FirstFit(h, h.heads[p].next, size)

RECURSIVE FirstOfLists(_, _, _)
\* Only the first block of each of the lists above is looked at.
FirstOfLists(h, n, size) ==
    IF n > HpLists THEN [at |-> Outside, list |-> n]
    ELSE IF h.lists[n] = HeapEnd
       \/ (h.lists[n] # ListEnd /\ AIsLargeEnoughFreeBlock(h.heads[h.lists[n]].size, size))
    THEN [at |-> h.lists[n], list |-> n]
    ELSE FirstOfLists(h, n + 1, size)

FindBlock(h, n, size) ==
    LET Find(p) == IF p = ListEnd THEN FirstOfLists(h, n + 1, size) ELSE [at |-> p, list |-> n]
    IN  Find(FirstFit(h, h.lists[n], size))

\* A block of f.list is taken out: a child of the block found, if it has one.
TakeBlock(h, f, node) ==
    IF node.size >= HpNonUniform /\ node.child # Null
    THEN [h  |-> SetChild(SetPrev(h, h.heads[node.child].child, f.at), f.at, h.heads[node.child].child),
          at |-> node.child, size |-> node.size]
    ELSE [h  |-> IF node.size >= HpNode THEN SetNext(SetPrev(h, node.next, node.prev), node.prev, node.next)
                 ELSE [h EXCEPT !.lists[f.list] = node.next],
          at |-> f.at, size |-> node.size]

\* The rest of the block becomes cur.
SplitBlock(b, size) ==
    [h |-> [b.h EXCEPT !.cur = b.at + size, !.curSize = b.size - size,
                       !.heads = Restrict(@, DOMAIN @ \ {b.at})],
     at |-> b.at]

FromLists(h, size) ==
    LET Take(f) == IF f.at = HeapEnd THEN [h |-> h, at |-> Null]
                   ELSE IF f.at = Outside THEN [h |-> [h EXCEPT !.fault = TRUE], at |-> Null]
                   ELSE SplitBlock(TakeBlock(h, f, h.heads[f.at]), size)
    IN  Take(FindBlock(h, AGetFreeListNum(size), size))

\* AGlobalAlloc as long as the heap does not grow; Null if it has to.
AllocFromHeap(h, size) ==
    IF AIsLargeEnoughFreeBlock(h.curSize, size) /\ h.curSize <= HpCurLimit
    THEN [h |-> [h EXCEPT !.cur = @ + size, !.curSize = @ - size], at |-> h.cur]
    ELSE FromLists(RetireCur(h, FALSE), size)

\* The space to be asked for; 0 if that is too much.
GrowSize(h, size) ==
    LET req == size + 2 * AGetBitFieldSize(size) + HpHeader
        more == Min({Max({req, (h.total * 5) \div 32}), HpMaxSize - h.total})
    IN  IF h.total + req > HpMaxSize THEN 0
        ELSE ((more + HpPage - 1) \div HpPage) * HpPage

\* The first chunk, now of size, was longer before: its end was at oldEnd.
GrowLast(h, oldEnd, newEnd) ==
    LET Joined(g) == [g EXCEPT !.lastEnd = newEnd]
        Apart(g)  == [g EXCEPT !.last = oldEnd, !.lastEnd = newEnd]
        Add(g)    == AAddFreeBlock(g, g.last, g.lastEnd - g.last)
    IN  Add(IF h.lastEnd = oldEnd /\ h.lastEnd - h.last >= HpNode
            THEN Joined(ARemoveBlockFromFreeList(h, h.last))
            ELSE Apart(h))

GrowChunk(h, size) ==
    LET c == h.chunks[1]
    IN  GrowLast(AInactivateCurFreeBlock([h EXCEPT !.chunks[1].size = @ + size, !.total = @ + size]),
                 AGetHeapBlockDataEnd(c), AGetHeapBlockDataEnd([c EXCEPT !.size = @ + size]))

\* The new chunk is the first one; the one that is swept stays the same.
NewChunk(h, c) ==
    AAddFreeBlock([h EXCEPT !.chunks = <<c>> \o @, !.sweep.chunk = @ + 1, !.total = @ + c.size,
                            !.last = AGetHeapBlockData(c), !.lastEnd = AGetHeapBlockDataEnd(c)],
                  AGetHeapBlockData(c), AGetHeapBlockDataEnd(c) - AGetHeapBlockData(c))

\* mmap gives the place behind the last chunk, another one, or none.
ChunkEnd(h) == Max({0} \union {c.at + c.size : c \in ToSet(h.chunks)})

GrowHeap(h, size, place) ==
    IF place = "behind" /\ h.chunks # <<>> /\ ChunkEnd(h) = h.chunks[1].at + h.chunks[1].size
    THEN GrowChunk(h, size)
    ELSE NewChunk(h, [at |-> ChunkEnd(h) + 1, size |-> size])

(***************************************************************************)
(* The sweep.                                                              *)
(***************************************************************************)
IsSweepable(h, p) == p \notin h.marks /\ h.heads[p].kind \notin {"new", "stub"}

\* The blocks from p on that are not marked; free ones leave their lists.
RECURSIVE SweepRegion(_, _, _, _)
SweepRegion(h, p, end, n) ==
    IF p >= end \/ p \notin DOMAIN h.heads THEN [h |-> h, p |-> p, n |-> n]
    ELSE IF ~IsSweepable(h, p) THEN [h |-> h, p |-> p, n |-> n]
    ELSE SweepRegion(IF IsFreeAt(h, p) THEN ARemoveBlockFromFreeList(h, p) ELSE h,
                     p + h.heads[p].size, end, n + 1)

(* Faulty variant: the last block keeps its place when it is joined. *)
LastBlockKept(h, begin, end) == h

LastBlockSwept(h, begin, end) ==
    [h EXCEPT !.last = IF @ > begin /\ @ <= end THEN begin ELSE @]

\* What is behind the region is alive.  The size of a free block is not read
\* right there.
SkipLive(r, end, count) ==
    IF r.p = end THEN [h |-> r.h, p |-> r.p, n |-> count]
    ELSE IF r.p \notin DOMAIN r.h.heads \/ IsFreeAt(r.h, r.p)
    THEN [h |-> [r.h EXCEPT !.fault = TRUE], p |-> end, n |-> count - 1]
    ELSE [h |-> r.h, p |-> r.p + r.h.heads[r.p].size, n |-> count - 1]

SweepBlocks(h, p, end, count) ==
    LET Freed(r) == IF r.p = p THEN r
                    ELSE [r EXCEPT !.h = AAddFreeBlock(LastBlockSwept(@, p, r.p), p, r.p - p)]
        Skip(r)  == SkipLive(r, end, count - r.n)
    IN  Skip(Freed(SweepRegion(h, p, end, 0)))

RECURSIVE SweepChunk(_, _, _, _)
SweepChunk(h, p, end, count) ==
    LET Next(r) == SweepChunk(r.h, r.p, end, r.n)
    IN  IF p >= end \/ count <= 0 THEN [h |-> h, p |-> p, n |-> count]
        ELSE Next(SweepBlocks(h, p, end, count))

RECURSIVE SweepFrom(_, _, _, _)
\* r is the state, the pointer and the count behind chunk k.
LeaveChunk(r, k) ==
    LET marks == {m \in r.h.marks : ~IsInChunk(r.h.chunks[k], m) \/ m >= r.p}
    IN  IF r.n <= 0 THEN [r.h EXCEPT !.marks = marks, !.sweep = [chunk |-> k, p |-> r.p]]
        ELSE IF k = Len(r.h.chunks) THEN [r.h EXCEPT !.marks = marks, !.gc = "none"]
        ELSE SweepFrom([r.h EXCEPT !.marks = marks], k + 1, AGetHeapBlockData(r.h.chunks[k + 1]), r.n)
SweepFrom(h, k, p, count) == LeaveChunk(SweepChunk(h, p, AGetHeapBlockDataEnd(h.chunks[k]), count), k)

Sweep(h, count) ==
    LET From(g) == SweepFrom(g, g.sweep.chunk, g.sweep.p, count + 1)
    IN  From(ARemoveSmallBlocksFromFreeList(AInactivateCurFreeBlock(h)))

\* Chunks before the one that is swept have been swept.
AIsSwept(h, p) ==
    \/ \E k \in 1 .. h.sweep.chunk - 1 : IsInChunk(h.chunks[k], p)
    \/ IsInChunk(h.chunks[h.sweep.chunk], p) /\ h.sweep.p > p

MarkIfUnswept(h, p) ==
    IF h.gc = "sweep" /\ ~AIsSwept(h, p) THEN [h EXCEPT !.marks = @ \union {p}] ELSE h

\* Everything is swept before the space runs out.
Everything == 1000

(***************************************************************************)
(* The blocks of the program: hpUsed has their kinds and sizes.  A static  *)
(* block is used until it is freed, another one until it is dropped.       *)
(***************************************************************************)
Holds(kinds) == {p \in DOMAIN hpUsed : hpUsed[p].kind \in kinds}

InitializeSweep(h, marks) ==
    [h EXCEPT !.gc = "sweep", !.marks = marks, !.sweep = [chunk |-> 1, p |-> AGetHeapBlockData(h.chunks[1])]]

TerminateGC(h) == [h EXCEPT !.gc = "none", !.marks = {}]

ACollectGarbageForced(h) ==
    TerminateGC(Sweep(InitializeSweep(TerminateGC(h), Holds({"old", "static"})), Everything))

\* The heap is locked, and nothing but the size asked for is new.  A heap
\* that cannot grow is collected, once.
RECURSIVE AGlobalAlloc(_, _, _)
AGlobalAlloc(h, size, place) ==
    LET Again(g)  == AllocFromHeap(ACollectGarbageForced(g), size)
        Grown(g)  == AGlobalAlloc(GrowHeap(g, GrowSize(g, size), place), size, place)
        Retry(r)  == IF r.at # Null THEN r
                     ELSE IF place = "none" \/ GrowSize(r.h, size) = 0 THEN Again(r.h)
                     ELSE Grown(r.h)
    IN  Retry(AllocFromHeap(h, size))

HpInit ==
    /\ bh = [chunks |-> <<>>, heads |-> <<>>, total |-> 0,
             lists |-> [n \in 1 .. HpLists |-> IF n = HpLists THEN HeapEnd ELSE ListEnd],
             cur |-> Null, curSize |-> 0, last |-> Null, lastEnd |-> Null,
             gc |-> "none", marks |-> {}, sweep |-> [chunk |-> 1, p |-> 0], fault |-> FALSE]
    /\ hpUsed = <<>>
    /\ hpAllocs = 0

HpStep(h, used) == bh' = h /\ hpUsed' = used /\ UNCHANGED hpAllocs

AddUsed(f, p, kind, size) ==
    [q \in DOMAIN f \union {p} |-> IF q = p THEN [kind |-> kind, size |-> size] ELSE f[q]]
DropUsed(p) == Restrict(hpUsed, DOMAIN hpUsed \ {p})

\* AllocUnmovable_NoLock, AAllocStatic, and the copying of a block; a big
\* block of the new generation has a stub before it (AllocNewGenBlockFromHeap).
Created(h, p, kind, size) ==
    IF kind = "new"
    THEN WithHead(WithHead(h, p, UsedHead(BigStub, "stub")), p + BigStub, UsedHead(size, "new"))
    ELSE MarkIfUnswept(WithHead(h, p, UsedHead(size, kind)), p)

StubSize(kind) == IF kind = "new" THEN BigStub ELSE 0

\* Where the heap grows if it has to.
GrowPlaces(at) == IF at = Null THEN {"behind", "apart", "none"} ELSE {"none"}

HpAllocates(h, used) == hpAllocs' = hpAllocs + 1 /\ bh' = h /\ hpUsed' = used

HpAlloc == hpAllocs < MaxHpAllocs /\ \E b \in HpRequests :
    LET size == b.size + StubSize(b.kind)
        Allocated(r) ==
            IF r.at = Null THEN HpAllocates(r.h, hpUsed)
            ELSE HpAllocates(Created(r.h, r.at, b.kind, b.size),
                             AddUsed(hpUsed, r.at + StubSize(b.kind), b.kind, b.size))
    IN  \E place \in GrowPlaces(AllocFromHeap(bh, size).at) : Allocated(AGlobalAlloc(bh, size, place))

HpDrop == \E p \in Holds({"old", "new"}) : HpStep(bh, DropUsed(p))

\* During the mark phase the block is left to the sweep.
AFreeStatic == \E p \in Holds({"static"}) :
    /\ ~HpDeviations /\ bh.gc = "sweep" => AIsSwept(bh, p)
    /\ HpStep(IF bh.gc = "mark" THEN bh ELSE AAddFreeBlock(bh, p, hpUsed[p].size), DropUsed(p))

\* A block that is not used any more is freed with its stub.
RetireBig(h, stub) ==
    LET p == stub + BigStub
        size == h.heads[p].size
    IN  IF p \in DOMAIN hpUsed
        THEN MarkIfUnswept(WithHead(AAddFreeBlock(h, stub, BigStub), p, UsedHead(size, "old")), p)
        ELSE AAddFreeBlock(h, stub, BigStub + size)

Stubs(h) == {p \in DOMAIN h.heads : h.heads[p].kind = "stub"}
RetireBigBlocks(h) == FoldRight(LAMBDA p, g : RetireBig(g, p), SetToSortSeq(Stubs(h), <), h)
Retired == [p \in DOMAIN hpUsed |-> [hpUsed[p] EXCEPT !.kind = IF @ = "new" THEN "old" ELSE @]]

ACollectNewGen ==
    /\ Stubs(bh) # {}
    /\ ~HpDeviations /\ bh.gc = "sweep" => bh.sweep.p - BigStub \notin Stubs(bh)
    /\ HpStep(RetireBigBlocks(bh), Retired)

HpBeginMark == bh.gc = "none" /\ HpStep([bh EXCEPT !.gc = "mark"], hpUsed)

\* The end of the mark phase: the new generation is retired, and what is held
\* is marked.  Garbage that was dropped too late may be marked as well.
HpBeginSweep ==
    /\ bh.gc = "mark"
    /\ LET h    == RetireBigBlocks(bh)
           dead == {p \in DOMAIN h.heads : h.heads[p].kind \in {"old", "static"}} \ DOMAIN hpUsed
       IN  \E late \in {{}, dead} : HpStep(InitializeSweep(h, DOMAIN hpUsed \union late), Retired)

\* A sweep that stops at the end of a chunk has not left the chunk.
StopsAtEnd(h) == h.gc = "sweep" /\ h.sweep.p = AGetHeapBlockDataEnd(h.chunks[h.sweep.chunk])

HpSweep == \E count \in HpCounts :
    LET Swept(h) == (HpDeviations \/ ~StopsAtEnd(h)) /\ HpStep(h, hpUsed)
    IN  bh.gc = "sweep" /\ Swept(Sweep(bh, count))

AInitializeHeap == HpStep(NewChunk(bh, [at |-> 1, size |-> HpPage]), hpUsed)

HpNext ==
    IF bh.chunks = <<>> THEN AInitializeHeap
    ELSE \/ HpAlloc \/ HpDrop \/ AFreeStatic \/ ACollectNewGen
         \/ HpBeginMark \/ HpBeginSweep \/ HpSweep

(***************************************************************************)
(* Properties.                                                             *)
(***************************************************************************)
\* The pieces of the heap: the blocks and cur.
HeapPieces == {<<p, bh.heads[p].size>> : p \in DOMAIN bh.heads}
                \union (IF bh.curSize > 0 THEN {<<bh.cur, bh.curSize>>} ELSE {})
PiecesCover ==
    /\ \A x, y \in HeapPieces : x # y => x[1] + x[2] <= y[1] \/ y[1] + y[2] <= x[1]
    /\ \A c \in ToSet(bh.chunks) :
          LET inside == {x \in HeapPieces : IsInChunk(c, x[1])}
          IN  /\ \A x \in inside : x[1] >= AGetHeapBlockData(c) /\ x[1] + x[2] <= AGetHeapBlockDataEnd(c)
              /\ MapThenSumSet(LAMBDA x : x[2], inside) = AGetHeapBlockDataEnd(c) - AGetHeapBlockData(c)

RECURSIVE ChildNodes(_)
ChildNodes(p) == IF p = Null THEN <<>> ELSE <<p>> \o ChildNodes(bh.heads[p].child)

\* A list has the free blocks of its sizes, each once, linked both ways.
ListIsSound(n) ==
    LET nodes == ListNodes(bh, bh.lists[n])
        below(p) == IF bh.heads[p].size >= HpNonUniform THEN ChildNodes(p) ELSE <<p>>
        all == FlattenSeq([i \in DOMAIN nodes |-> below(nodes[i])])
    IN  /\ ToSet(all) = {p \in DOMAIN bh.heads : IsFreeAt(bh, p) /\ AGetFreeListNum(bh.heads[p].size) = n}
        /\ IsInjective(all)
        /\ \A i \in DOMAIN nodes : bh.heads[nodes[i]].size >= HpNode =>
              /\ bh.heads[nodes[i]].prev = IF i = 1 THEN AGetFreeList(n) ELSE nodes[i - 1]
              /\ \A j \in 2 .. Len(below(nodes[i])) :
                    LET q == bh.heads[below(nodes[i])[j]]
                    IN  q.prev = below(nodes[i])[j - 1] /\ q.next = Null /\ q.size = bh.heads[nodes[i]].size
        /\ \A i \in 2 .. Len(nodes) : bh.heads[nodes[i]].size >= HpNonUniform =>
              bh.heads[nodes[i - 1]].size < bh.heads[nodes[i]].size

(* The blocks and the block allocated from last cover each chunk of the heap
   without a gap or an overlap, whatever was allocated, freed, retired and
   swept in between; every block that the program uses is there with its
   size; every free block is in the list of its size exactly once and can be
   unlinked; the last block is known as long as it can grow; and no mark is
   left when no collection is going on (AGlobalAlloc, AAddFreeBlock, Sweep). *)
HeapIsSound ==
    bh.chunks # <<>> =>
    /\ ~bh.fault
    /\ PiecesCover
    /\ \A n \in 1 .. HpLists : ListIsSound(n)
    /\ \A p \in DOMAIN hpUsed : p \in DOMAIN bh.heads /\ bh.heads[p].size = hpUsed[p].size
                                  /\ bh.heads[p].kind = hpUsed[p].kind
    /\ ~AIsInsideLastBlock(bh, bh.cur) /\ bh.lastEnd - bh.last >= HpNode =>
          IsFreeAt(bh, bh.last) /\ bh.heads[bh.last].size = bh.lastEnd - bh.last
    /\ bh.gc = "none" => bh.marks = {}
=============================================================================
