------------------------------- MODULE Arrays -------------------------------
(***************************************************************************)
(* Array objects (std_array.c) and std::Sort (std_sort.c).  An Array is a  *)
(* length, a capacity and a reference to a FixArray that AResizeArray      *)
(* replaces when it is full.  An iterator keeps the FixArray and the       *)
(* length of the moment it was made: it sees what is changed in that       *)
(* FixArray, and goes on in it after the array has moved to another.       *)
(*                                                                         *)
(* arrBufs holds the FixArrays made so far, arrObj the array, arrIter its  *)
(* iterator; arrItems is the sequence that the array stands for and        *)
(* arrSeen the items that the iterator may return at each place.           *)
(***************************************************************************)
EXTENDS Integers, Sequences, SequencesExt, FiniteSetsExt

CONSTANTS
    ArrVals,         \* the items: integers
    ArrOthers,       \* the sequences that are the other operand
    ArrIndices,      \* the indices passed
    ArrNested,       \* nested arrays to compare
    ArrOrders,       \* the functions passed to Sort: sets of pairs <<x, y>> with x > y
    MaxArrLen,       \* the bound on the length
    MaxArrSteps,     \* the bound on the number of changes
    MaxCompareDepth, \* MAX_ARRAY_COMPARE_DEPTH
    ArrHashSize      \* the number of values of an AValue

VARIABLES arrBufs, arrObj, arrIter, arrItems, arrSeen, arrCall, arrSteps

arrVars == <<arrBufs, arrObj, arrIter, arrItems, arrSeen, arrCall, arrSteps>>

Nil == 0
IndexError == "IndexError"
NoArrIter == [i |-> 0, len |-> 0, a |-> 0]

(***************************************************************************)
(* The array and its FixArrays.                                            *)
(***************************************************************************)
AMakeFixArray(n) == <<>> \o [i \in 1 .. n |-> Nil]

\* A copy of the array state: its FixArrays and the object.
ArrState == [bufs |-> arrBufs, len |-> arrObj.len, cap |-> arrObj.cap, a |-> arrObj.a]

FixArrayItem(s, i) == s.bufs[s.a][i + 1]
SetFixArrayItem(s, i, v) == [s EXCEPT !.bufs[s.a][i + 1] = v]

ArrayItems(s) == SubSeq(s.bufs[s.a], 1, s.len)

(* Faulty variant: only the doubling is considered. *)
DoubledCapacity(capacity, amount) == 2 * capacity

GrownCapacity(capacity, amount) == Max({2 * capacity, capacity + amount})

AResizeArray(s, amount) ==
    LET n   == Max({GrownCapacity(s.cap, amount), 4})
        new == [i \in 1 .. n |-> IF i <= s.cap THEN s.bufs[s.a][i] ELSE Nil]
    IN [s EXCEPT !.bufs = Append(@, <<>> \o new), !.cap = n, !.a = Len(s.bufs) + 1]

\* The items that are written past the end of a FixArray are lost, as is
\* whatever was there: the array cannot hold them.
StoreItems(s, at, items) ==
    [s EXCEPT !.bufs[s.a] = [i \in 1 .. Len(@) |->
       IF i > at /\ i <= at + Len(items) THEN items[i - at] ELSE @[i]]]

AAppendArray(s, v) ==
    LET r == IF s.len = s.cap THEN AResizeArray(s, 0) ELSE s
    IN [SetFixArrayItem(r, s.len, v) EXCEPT !.len = @ + 1]

AArrayExtend(s, items) ==
    LET r == IF Len(items) > s.cap - s.len THEN AResizeArray(s, Len(items)) ELSE s
    IN [StoreItems(r, s.len, items) EXCEPT !.len = @ + Len(items)]

ANormIndex(i, len) == IF i < 0 THEN len + i ELSE i

AArrayInsertAt(s, i, v) ==
    LET r == IF s.len = s.cap THEN AResizeArray(s, 0) ELSE s
        a == SubSeq(r.bufs[r.a], i + 1, r.len)    \* moved up, the last one first
    IN [SetFixArrayItem(StoreItems(r, i + 1, a), i, v) EXCEPT !.len = @ + 1]

AArrayRemoveAt(s, i) ==
    LET r == StoreItems(s, i, SubSeq(s.bufs[s.a], i + 2, s.len))
    IN [SetFixArrayItem(r, s.len - 1, 0) EXCEPT !.len = @ - 1]

\* The loop of Array.remove from index i on; _eq of item fails raises an
\* exception, which leaves the items moved so far where they are.
RECURSIVE RemoveFrom(_, _, _, _, _)
RemoveFrom(s, i, v, numDel, fails) ==
    IF i >= s.len THEN [s EXCEPT !.len = @ - numDel]
    ELSE IF i = fails THEN s
    ELSE IF FixArrayItem(s, i) = v THEN RemoveFrom(s, i + 1, v, numDel + 1, fails)
    ELSE IF numDel # 0
    THEN RemoveFrom(SetFixArrayItem(s, i - numDel, FixArrayItem(s, i)), i + 1, v, numDel, fails)
    ELSE RemoveFrom(s, i + 1, v, numDel, fails)

ASubArray(s, i, j) ==
    LET beg  == IF i < 0 THEN Max({s.len + i, 0}) ELSE i
        end0 == IF j < 0 THEN s.len + j ELSE Min({j, s.len})
        end1 == IF end0 < beg THEN beg ELSE end0
    IN SubSeq(s.bufs[s.a], beg + 1, end1)

AConcatArrays(s, items) == ArrayItems(s) \o items

\* The copying index starts again when it has reached the end.
RECURSIVE RepeatArray(_, _, _)
RepeatArray(items, n, j) ==
    IF n = 0 THEN <<>>
    ELSE <<items[j]>> \o RepeatArray(items, n - 1, IF j = Len(items) THEN 1 ELSE j + 1)

RECURSIVE ArrayFindFrom(_, _, _)
ArrayFindFrom(s, v, i) ==
    IF i >= s.len THEN -1 ELSE IF FixArrayItem(s, i) = v THEN i ELSE ArrayFindFrom(s, v, i + 1)

RECURSIVE ArrayCountFrom(_, _, _)
ArrayCountFrom(s, v, i) ==
    IF i >= s.len THEN 0 ELSE (IF FixArrayItem(s, i) = v THEN 1 ELSE 0) + ArrayCountFrom(s, v, i + 1)

AArrayTupleHashValue(s) ==
    FoldLeft(LAMBDA h, x : (h + h * 32 + x) % ArrHashSize, 0, ArrayItems(s))

(***************************************************************************)
(* Comparison of nested arrays.  An array is a record [sub |-> sequence],  *)
(* any other item a record [val |-> integer].                              *)
(***************************************************************************)
IsArray(x) == "sub" \in DOMAIN x
CompareError == "error"

YesNo(b) == IF b THEN "yes" ELSE "no"
ACompareInts(x, y, op) == YesNo(CASE op = "eq" -> x = y [] op = "lt" -> x < y [] op = "gt" -> x > y)

RECURSIVE CompareArraysRecursive(_, _, _, _)
CompareArraysRecursive(x, y, op, depth) ==
    IF ~IsArray(x) \/ ~IsArray(y)
    THEN IF ~IsArray(x) /\ ~IsArray(y) THEN ACompareInts(x.val, y.val, op)
         ELSE IF op = "eq" THEN "no" ELSE CompareError
    ELSE IF depth >= MaxCompareDepth - 1 THEN CompareError
    ELSE LET len   == Min({Len(x.sub), Len(y.sub)})
             Eq(i) == CompareArraysRecursive(x.sub[i], y.sub[i], "eq", depth + 1)
             stop  == {i \in 1 .. len : Eq(i) # "yes"}
         IN IF stop = {} THEN ACompareInts(Len(x.sub), Len(y.sub), op)
            ELSE IF Eq(Min(stop)) = CompareError THEN CompareError
            ELSE CompareArraysRecursive(x.sub[Min(stop)], y.sub[Min(stop)], op, depth + 1)

ACompareArrays(x, y, op) == CompareArraysRecursive(x, y, op, 0)

(***************************************************************************)
(* Sort.                                                                   *)
(***************************************************************************)
Swap(a, i, j) == [a EXCEPT ![i] = a[j], ![j] = a[i]]

\* The partition of a with the pivot v: items that may follow v are moved to
\* the end.  After(v, x) is what the comparison answers.
RECURSIVE Partition(_, _, _, _, _)
Partition(a, v, l, r, After) ==
    IF l > r THEN [a |-> a, l |-> l]
    ELSE IF <<a[l], v>> \in After THEN Partition(Swap(a, l, r), v, l, r - 1, After)
    ELSE Partition(a, v, l + 1, r, After)

RECURSIVE QSort(_, _, _, _)
QSort(a, b, e, After) ==
    IF b >= e THEN a
    ELSE LET p == Partition(a, a[b], b + 1, e, After)
             l == p.l - 1
         IN QSort(QSort(Swap(p.a, l, b), b, l - 1, After), l + 1, e, After)

AStdSort(items, After) == QSort(items, 1, Len(items), After)

(***************************************************************************)
(* What the operations promise.                                            *)
(***************************************************************************)
InsertItem(s, i, v) == SubSeq(s, 1, i) \o <<v>> \o SubSeq(s, i + 1, Len(s))
DeleteItem(s, i) == SubSeq(s, 1, i) \o SubSeq(s, i + 2, Len(s))
WithoutItem(s, v) == SelectSeq(s, LAMBDA x : x # v)
TimesOf(s, v) == Cardinality({i \in 1 .. Len(s) : s[i] = v})
Between(s, i, j) ==
    LET From(k) == IF k < 0 THEN Len(s) + k ELSE k
        at == SelectSeq([k \in 1 .. Len(s) |-> k], LAMBDA k : From(i) < k /\ k <= From(j))
    IN [n \in 1 .. Len(at) |-> s[at[n]]]

\* The order of nested arrays: by the first items that differ.
RECURSIVE NestedLess(_, _)
NestedLess(x, y) ==
    IF ~IsArray(x) THEN x.val < y.val
    ELSE \/ IsStrictPrefix(x.sub, y.sub)
         \/ \E i \in 1 .. Min({Len(x.sub), Len(y.sub)}) :
              SubSeq(x.sub, 1, i - 1) = SubSeq(y.sub, 1, i - 1) /\ x.sub[i] # y.sub[i] /\ NestedLess(x.sub[i], y.sub[i])

\* Can x and y be compared: items at the same place are of the same kind?
RECURSIVE Comparable(_, _)
Comparable(x, y) ==
    /\ IsArray(x) <=> IsArray(y)
    /\ IsArray(x) => \A i \in 1 .. Min({Len(x.sub), Len(y.sub)}) : Comparable(x.sub[i], y.sub[i])

\* Do x and y both have as many levels as are not compared?
RECURSIVE Levels(_)
Levels(x) == IF IsArray(x) THEN 1 + Max({0} \union {Levels(x.sub[i]) : i \in DOMAIN x.sub}) ELSE 0
AreTooDeep(x, y) == Levels(x) >= MaxCompareDepth /\ Levels(y) >= MaxCompareDepth

\* The items that an iterator with n places finds in a FixArray that it shares
\* with an array of these items; behind them anything may have been left.
SeenItems(items, n) == [i \in 1 .. n |-> IF i <= Len(items) THEN {items[i]} ELSE ArrVals \union {Nil}]

IsSortOf(s, items, After) ==
    /\ \A v \in ToSet(items) \union ToSet(s) : TimesOf(s, v) = TimesOf(items, v)
    /\ (\A x, y, z \in ToSet(items) :       \* when the function passed is a strict weak order
           /\ <<x, x>> \notin After
           /\ <<x, z>> \in After => <<x, y>> \in After \/ <<y, z>> \in After
           /\ ~(<<x, y>> \in After /\ <<y, x>> \in After))
         => \A i, j \in 1 .. Len(s) : i < j => <<s[i], s[j]>> \notin After

(***************************************************************************)
(* Behaviours.                                                             *)
(***************************************************************************)
NoArrCall == [op |-> "none", got |-> 0, want |-> 0]

ArrInit ==
    /\ arrBufs = <<AMakeFixArray(1)>> /\ arrObj = [len |-> 0, cap |-> 1, a |-> 1]
    /\ arrIter = NoArrIter /\ arrItems = <<>> /\ arrSeen = <<>>
    /\ arrCall = NoArrCall /\ arrSteps = 0

\* The array becomes s, which has to stand for items.  FixArrays that nothing
\* refers to are gone.
ArrBecomes(s, items) ==
    /\ Len(items) <= MaxArrLen /\ arrSteps < MaxArrSteps
    /\ arrSteps' = arrSteps + 1
    /\ arrBufs' = [b \in 1 .. Len(s.bufs) |-> IF b \in {s.a, arrIter.a} THEN s.bufs[b] ELSE <<>>]
    /\ arrObj' = [len |-> s.len, cap |-> s.cap, a |-> s.a]
    /\ arrItems' = items /\ arrCall' = NoArrCall
    /\ arrSeen' = IF s.a = arrIter.a THEN SeenItems(items, arrIter.len) ELSE arrSeen
    /\ UNCHANGED arrIter

ArrAnswers(op, got, want) ==
    /\ arrCall' = [op |-> op, got |-> got, want |-> want]
    /\ UNCHANGED <<arrBufs, arrObj, arrIter, arrItems, arrSeen, arrSteps>>

AArrayAppend == \E v \in ArrVals : ArrBecomes(AAppendArray(ArrState, v), Append(arrItems, v))

ArrExtend == \E o \in ArrOthers :
    ArrBecomes(AArrayExtend(ArrState, o), arrItems \o o)

ArrExtendItself == ArrBecomes(AArrayExtend(ArrState, ArrayItems(ArrState)), arrItems \o arrItems)

AArray_set == \E i \in ArrIndices, v \in ArrVals :
    LET k == ANormIndex(i, arrObj.len)
    IN IF k < 0 \/ k >= arrObj.len
       THEN ArrAnswers("set", IndexError, IF i \in -Len(arrItems) .. Len(arrItems) - 1 THEN "ok" ELSE IndexError)
       ELSE ArrBecomes(SetFixArrayItem(ArrState, k, v), ReplaceAt(arrItems, IF i < 0 THEN Len(arrItems) + i + 1 ELSE i + 1, v))

AArray_get == \E i \in ArrIndices :
    LET k == ANormIndex(i, arrObj.len)
    IN ArrAnswers("get", IF k < 0 \/ k >= arrObj.len THEN <<IndexError>> ELSE <<FixArrayItem(ArrState, k)>>,
                  IF i \in 0 .. Len(arrItems) - 1 THEN <<arrItems[i + 1]>>
                  ELSE IF i \in -Len(arrItems) .. -1 THEN <<arrItems[Len(arrItems) + i + 1]>> ELSE <<IndexError>>)

ArrInsertAt == \E i \in ArrIndices, v \in ArrVals :
    LET k == ANormIndex(i, arrObj.len)
    IN IF k < 0 \/ k > arrObj.len
       THEN ArrAnswers("insertAt", IndexError, IF i \in -Len(arrItems) .. Len(arrItems) THEN "ok" ELSE IndexError)
       ELSE ArrBecomes(AArrayInsertAt(ArrState, k, v), InsertItem(arrItems, IF i < 0 THEN Len(arrItems) + i ELSE i, v))

ArrRemoveAt == \E i \in ArrIndices :
    LET k == ANormIndex(i, arrObj.len)
    IN IF k < 0 \/ k >= arrObj.len
       THEN ArrAnswers("removeAt", IndexError, IF i \in -Len(arrItems) .. Len(arrItems) - 1 THEN "ok" ELSE IndexError)
       ELSE ArrBecomes(AArrayRemoveAt(ArrState, k), DeleteItem(arrItems, IF i < 0 THEN Len(arrItems) + i ELSE i))

ArrRemove == \E v \in ArrVals :
    \/ ArrBecomes(RemoveFrom(ArrState, 0, v, 0, -1), WithoutItem(arrItems, v))
    \/ \E fails \in 0 .. arrObj.len - 1 :
         LET s == RemoveFrom(ArrState, 0, v, 0, fails)
         IN ArrBecomes(s, ArrayItems(s))

ArrSlice == \E i, j \in ArrIndices : ArrAnswers("slice", ASubArray(ArrState, i, j), Between(arrItems, i, j))

ArrConcat == \E o \in ArrOthers : ArrAnswers("+", AConcatArrays(ArrState, o), arrItems \o o)

AArray_mul == \E n \in 0 .. 2 :
    ArrAnswers("*", RepeatArray(ArrayItems(ArrState), n * arrObj.len, 1), FlattenSeq([k \in 1 .. n |-> arrItems]))

AArray_in == \E v \in ArrVals : ArrAnswers("in", ArrayFindFrom(ArrState, v, 0) >= 0, v \in ToSet(arrItems))

ArrSearch == \E v \in ArrVals :
    \/ ArrAnswers("find", ArrayFindFrom(ArrState, v, 0),
                  IF TimesOf(arrItems, v) = 0 THEN -1 ELSE Min({i \in 1 .. Len(arrItems) : arrItems[i] = v}) - 1)
    \/ ArrAnswers("count", ArrayCountFrom(ArrState, v, 0), TimesOf(arrItems, v))

\* The hash value is that of a tuple with the same items, whatever the
\* capacity.
ArrHash == ArrAnswers("hash", AArrayTupleHashValue(ArrState),
    AArrayTupleHashValue([bufs |-> <<arrItems>>, len |-> Len(arrItems), cap |-> Len(arrItems), a |-> 1]))

AArrayIter ==
    /\ arrIter' = [i |-> 0, len |-> arrObj.len, a |-> arrObj.a] /\ arrSeen' = SeenItems(arrItems, arrObj.len)
    /\ arrCall' = NoArrCall
    /\ UNCHANGED <<arrBufs, arrObj, arrItems, arrSteps>>

AArrayTupleIterNext ==
    /\ arrIter # NoArrIter
    /\ IF arrIter.i < arrIter.len
       THEN /\ arrCall' = [op |-> "next", got |-> arrBufs[arrIter.a][arrIter.i + 1] \in arrSeen[arrIter.i + 1], want |-> TRUE]
            /\ arrIter' = [arrIter EXCEPT !.i = @ + 1]
       ELSE /\ arrIter' = NoArrIter
            /\ arrCall' = [op |-> "done", got |-> arrIter.len, want |-> Len(arrSeen)]
    /\ UNCHANGED <<arrBufs, arrObj, arrItems, arrSeen, arrSteps>>

ArrSort == \E After \in ArrOrders :
    ArrAnswers("sort", IsSortOf(AStdSort(ArrayItems(ArrState), After), arrItems, After), TRUE)

ArrCompare == \E x, y \in ArrNested :
    LET Answers(op, is) ==
          LET got == ACompareArrays(x, y, op)
          IN ArrAnswers(op, got, IF got = CompareError /\ AreTooDeep(x, y) THEN CompareError ELSE YesNo(is))
    IN /\ arrItems = <<>>
       /\ \/ Answers("eq", x = y)
          \/ Comparable(x, y) /\ Answers("lt", NestedLess(x, y))
          \/ Comparable(x, y) /\ Answers("gt", NestedLess(y, x))

\* A behaviour ends with the first question about the array.
ArrNext ==
    /\ arrCall.op \in {"none", "next", "done"}
    /\ \/ AArrayAppend \/ ArrExtend \/ ArrExtendItself \/ AArray_set \/ AArray_get \/ ArrInsertAt
       \/ ArrRemoveAt \/ ArrRemove \/ ArrSlice \/ ArrConcat \/ AArray_mul \/ AArray_in \/ ArrSearch \/ ArrHash
       \/ AArrayIter \/ AArrayTupleIterNext \/ ArrSort \/ ArrCompare

(* An Array stands for the sequence that its operations describe, through
   every growth of its FixArray: its length never exceeds the capacity and
   the capacity is that of the FixArray it uses.  An iterator returns the
   items that the array had when it was made, with the changes made to the
   array until it moved to another FixArray and none that were made later.
   Comparison is that of sequences and fails only if both arrays are too
   deep.  Sort returns a permutation of the items whatever the comparison
   function answers, in order when that is an order. *)
ArraysAreExact ==
    /\ arrObj.len <= arrObj.cap /\ arrObj.cap = Len(arrBufs[arrObj.a])
    /\ ArrayItems(ArrState) = arrItems
    /\ arrCall.got = arrCall.want

=============================================================================
