----------------------------- MODULE HashTable -----------------------------
(***************************************************************************)
(* The hash table of std::Map (std_map.c) and set::Set (set_module.c), an  *)
(* open table whose removed items stay as markers, and an iterator that    *)
(* goes over the table while the program changes it.                       *)
(*                                                                         *)
(* A table is a function from indices to EmptyMarker, RemovedMarker or an  *)
(* item [key, val]; its size is a power of two.                            *)
(***************************************************************************)
EXTENDS Integers, FiniteSets, FiniteSetsExt

CONSTANTS
    MapKeys,      \* objects that are used as keys
    MapVals,      \* the values that each key may be given
    MapHash,      \* the hash value of each key (AStdHash)
    MaxMapSize,   \* bound: tables do not grow beyond it
    MaxChanges    \* bound: calls that change the map during an iteration

VARIABLES
    map,      \* [a, len, removed]: MAP_A, MAP_LEN, MAP_NUM_REMOVED
    iter,     \* the iterator [i, a, live]: ITER_I, ITER_A, and whether ITER_A
              \* still is the table of the map
    items,    \* the items the map should hold: a function of keys
    due,      \* the keys that were in the map ever since the iterator was made
    got,      \* the number of times the iterator has returned each key
    changes   \* the number of changes since the iterator was made

mapVars == <<map, iter, items, due, got, changes>>

INITIAL_MAP_CAPACITY == 4

EmptyMarker   == [marker |-> "empty"]
RemovedMarker == [marker |-> "removed"]
IsItem(x)     == x \notin {EmptyMarker, RemovedMarker}

TableSize(a) == Cardinality(DOMAIN a)

\* EmptyArray: AMakeFixArray(t, 2 * size, EmptyMarker)
EmptyArray(size) == [i \in 0..(size - 1) |-> EmptyMarker]

AMapInitialize == [a |-> EmptyArray(INITIAL_MAP_CAPACITY), len |-> 0, removed |-> 0]

NextIndex(i, a) == (i * 5 + 1) % TableSize(a)

\* The chain of k has no end: a lookup of k would loop for ever.
NoEnd == -1

RECURSIVE KeyChain(_, _, _, _)

\* The index of k in the table, or of the empty place where its chain ends,
\* from index i on; n places have not been visited.
KeyChain(a, k, i, n) ==
    CASE a[i] = EmptyMarker -> i
      [] IsItem(a[i]) /\ a[i].key = k -> i
      [] n = 0 -> NoEnd
      [] OTHER -> KeyChain(a, k, NextIndex(i, a), n - 1)

FindKey(a, k) == KeyChain(a, k, MapHash[k] % TableSize(a), TableSize(a))

HoldsKey(a, k) == FindKey(a, k) # NoEnd /\ a[FindKey(a, k)] # EmptyMarker

\* The value of k, or default.
MapLookup(m, k, default) ==
    IF HoldsKey(m.a, k) THEN m.a[FindKey(m.a, k)].val ELSE default

AMapHasKey(m, k) == HoldsKey(m.a, k)

MapLen(m) == m.len - m.removed

\* The size of the new table.
NewMapSize(m) ==
    LET old == TableSize(m.a)
    IN  CASE MapLen(m) * 3 > old  -> 2 * old
          [] MapLen(m) * 6 <= old -> Max({INITIAL_MAP_CAPACITY, old \div 2})
          [] OTHER                -> old

IsFull(m) == m.len * 3 >= TableSize(m.a) * 2

MapStore(m, k, v) ==
    LET i == FindKey(m.a, k)
    IN  [m EXCEPT !.a[i] = [key |-> k, val |-> v],
                  !.len  = IF m.a[i] = EmptyMarker THEN @ + 1 ELSE @]

RECURSIVE RefillMap(_, _, _)

\* Store the items of the old table from index i on.
RefillMap(m, old, i) ==
    IF i = TableSize(old) THEN m
    ELSE RefillMap(IF IsItem(old[i]) THEN MapStore(m, old[i].key, old[i].val) ELSE m,
                old, i + 1)

ResizeMap(m) ==
    RefillMap([a |-> EmptyArray(NewMapSize(m)), len |-> 0, removed |-> 0], m.a, 0)

\* The map and its old table after the key is set.
AMap_set(m, k, v) ==
    LET n == MapStore(m, k, v)
    IN  IF n.len > m.len /\ IsFull(n) THEN ResizeMap(n) ELSE n

AMapRemove(m, k) ==
    IF HoldsKey(m.a, k)
    THEN [m EXCEPT !.a[FindKey(m.a, k)] = RemovedMarker, !.removed = @ + 1]
    ELSE m

\* A set is a map whose values do not matter.
SetAdd(s, k) == AMap_set(s, k, 0)

RECURSIVE CopyItems(_, _, _)

\* Add the items of table a from index i on to the set s.
CopyItems(s, a, i) ==
    IF i = TableSize(a) THEN s
    ELSE CopyItems(IF IsItem(a[i]) THEN SetAdd(s, a[i].key) ELSE s, a, i + 1)

SetCopy(s) == CopyItems(AMapInitialize, s.a, 0)

\* The keys of a table in the order of an iteration.
KeyAt(a, n) == CHOOSE i \in DOMAIN a :
                  IsItem(a[i]) /\ Cardinality({j \in 0..i : IsItem(a[j])}) = n

Set_eq(s, u) ==
    /\ MapLen(s) = MapLen(u)
    /\ \A n \in 1..MapLen(u) : HoldsKey(s.a, u.a[KeyAt(u.a, n)].key)

(***************************************************************************)
(* Hash values of sets.  The hash values of the items are multiplied and   *)
(* combined with exclusive or; here the product is a set of bits.          *)
(***************************************************************************)
HashBits(h) == {b \in 0..7 : ((h * 33) \div 2^b) % 2 = 1}

XorBits(S, T) == (S \ T) \union (T \ S)

RECURSIVE HashFrom(_, _, _)

HashFrom(a, i, hash) ==
    IF i = TableSize(a) THEN hash
    ELSE HashFrom(a, i + 1, IF IsItem(a[i]) THEN XorBits(hash, HashBits(MapHash[a[i].key]))
                            ELSE hash)

Set_hash(s) == HashFrom(s.a, 0, {})

(***************************************************************************)
(* The program calls the methods of a map and of its iterator.             *)
(***************************************************************************)
NoIter == [i |-> 0, a |-> EmptyArray(0), live |-> FALSE]

MapInit ==
    /\ map = AMapInitialize
    /\ iter = NoIter
    /\ items = [k \in {} |-> 0]
    /\ due = {}
    /\ got = [k \in MapKeys |-> 0]
    /\ changes = 0

MapChange == IF iter.a = EmptyArray(0) THEN UNCHANGED changes
          ELSE changes < MaxChanges /\ changes' = changes + 1

(* Faulty variant: the iterator goes on with the new table. *)
KeepNewTable(n, resized) ==
    IF iter.live THEN [iter EXCEPT !.a = IF resized THEN ResizeMap(n).a ELSE n.a] ELSE iter

\* The iterator keeps the table that it was made for.
KeepTable(n, resized) ==
    IF iter.live THEN [iter EXCEPT !.a = n.a, !.live = ~resized] ELSE iter

MapSet(k, v) ==
    LET n == MapStore(map, k, v)
        m == AMap_set(map, k, v)
    IN  /\ TableSize(m.a) <= MaxMapSize
        /\ MapChange
        /\ map' = m
        /\ iter' = KeepTable(n, m # n)
        /\ items' = [j \in DOMAIN items \union {k} |-> IF j = k THEN v ELSE items[j]]
        /\ UNCHANGED <<due, got>>

MapRemove(k) ==
    /\ MapChange
    /\ map' = AMapRemove(map, k)
    /\ iter' = KeepTable(map', FALSE)
    /\ items' = [j \in DOMAIN items \ {k} |-> items[j]]
    /\ due' = due \ {k}
    /\ UNCHANGED got

AMapIter ==
    /\ iter.a = EmptyArray(0)
    /\ iter' = [i |-> 0, a |-> map.a, live |-> TRUE]
    /\ due' = DOMAIN items
    /\ got' = [k \in MapKeys |-> 0]
    /\ changes' = 0
    /\ UNCHANGED <<map, items>>

\* The index of the next item of the iterator, or the size of its table.
IterItem == Min({j \in iter.i..TableSize(iter.a) : j = TableSize(iter.a) \/ IsItem(iter.a[j])})

AMapIterNext ==
    /\ iter.a # EmptyArray(0)
    /\ IterItem < TableSize(iter.a)
    /\ iter' = [iter EXCEPT !.i = IterItem + 1]
    /\ got' = [got EXCEPT ![iter.a[IterItem].key] = @ + 1]
    /\ UNCHANGED <<map, items, due, changes>>

\* next raises an exception: No items left.  The program drops the iterator.
AMapIterEnd ==
    /\ iter.a # EmptyArray(0)
    /\ IterItem = TableSize(iter.a)
    /\ iter' = NoIter
    /\ due' = {}
    /\ got' = [k \in MapKeys |-> 0]
    /\ changes' = 0
    /\ UNCHANGED <<map, items>>

MapNext ==
    \/ \E k \in MapKeys : \E v \in MapVals[k] : MapSet(k, v)
    \/ \E k \in MapKeys : MapRemove(k)
    \/ AMapIter
    \/ AMapIterNext
    \/ AMapIterEnd

(***************************************************************************)
(* Properties.                                                             *)
(***************************************************************************)
\* Whatever was set and removed before, every lookup ends, finds exactly the
\* items that the map holds, and the number of items is right (so that items,
\* keys and values fill the arrays that they allocate by it).
MapHoldsItems ==
    /\ \A k \in MapKeys :
          /\ FindKey(map.a, k) # NoEnd
          /\ AMapHasKey(map, k) <=> k \in DOMAIN items
          /\ k \in DOMAIN items => MapLookup(map, k, 0) = items[k]
    /\ MapLen(map) = Cardinality(DOMAIN items)
    /\ MapLen(map) = Cardinality({i \in DOMAIN map.a : IsItem(map.a[i])})

\* An iteration returns every item that stays in the map from its beginning
\* to its end, and returns it once, although the program inserts and removes
\* others and the table is replaced meanwhile.
IterationIsComplete ==
    \A k \in due : /\ got[k] <= 1
                   /\ iter.a # EmptyArray(0) /\ IterItem = TableSize(iter.a) => got[k] = 1

\* A copy of a set is equal to it, however the items came to be where they
\* are, and equal sets have equal hash values.
EqualSetsHashAlike ==
    /\ Set_eq(map, SetCopy(map)) /\ Set_eq(SetCopy(map), map)
    /\ Set_hash(SetCopy(map)) = Set_hash(map)

\* Lookups, iterations and copies see the items of the map, and nothing else.
MapIsExact == MapHoldsItems /\ IterationIsComplete /\ EqualSetsHashAlike
=============================================================================
