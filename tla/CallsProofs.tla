---------------------------- MODULE CallsProofs ----------------------------
(***************************************************************************)
(* Proofs about Calls: a call passes exactly the arguments that its caller *)
(* means, for any number of arguments and of parameters. First what the    *)
(* operators do that make a frame and put the arguments into it, then the  *)
(* arguments that are shifted to make room for self, the function that is  *)
(* found, what the caller means, and the theorem.                          *)
(***************************************************************************)
EXTENDS Calls, TLAPS

\* A function on 1..k is a sequence of length k.
LEMMA FcnIsSeq ==
    ASSUME NEW k \in Nat, NEW s, s = [n \in 1 .. k |-> s[n]]
    PROVE  /\ s \in Seq({s[n] : n \in 1 .. k})
           /\ Len(s) = k
           /\ DOMAIN s = 1 .. k
  <1> DEFINE S == {s[n] : n \in 1 .. k}
  <1>1. s \in [1 .. k -> S]
    OBVIOUS
  <1>2. s \in Seq(S)
    BY <1>1
  <1>3. DOMAIN s = 1 .. Len(s) /\ Len(s) \in Nat
    BY <1>2
  <1>4. DOMAIN s = 1 .. k
    BY <1>1
  <1> QED
    BY <1>2, <1>3, <1>4

\* The state of a call has these members.
CallFields == {"src", "ip", "argc", "f", "frame", "top", "unsafe", "err"}
CallRec(m) == m = [x \in CallFields |-> m[x]]

\* Its frame has size slots.
HasFrame(m, size) == m.frame = [i \in 0 .. size - 1 |-> m.frame[i]]

SameCall(m, a) ==
    /\ CallRec(a)
    /\ a.src = m.src /\ a.ip = m.ip /\ a.argc = m.argc /\ a.f = m.f
    /\ a.top = m.top /\ a.unsafe = m.unsafe /\ a.err = m.err

\* a is m with the values vs in its slots from dst + from on.
StoredIn(m, a, size, dst, from, vs) ==
    /\ SameCall(m, a)
    /\ HasFrame(a, size)
    /\ \A i \in 0 .. size - 1 : a.frame[i] = IF dst + from <= i /\ i < dst + from + Len(vs)
                                             THEN vs[i - dst - from + 1] ELSE m.frame[i]

\* StoreAt writes the given values to their slots and nothing else.
LEMMA StoreAtFacts ==
    ASSUME NEW m, CallRec(m), NEW size \in Nat, HasFrame(m, size),
           NEW dst \in Nat, NEW from \in Nat, NEW vs, Len(vs) \in Nat
    PROVE  StoredIn(m, StoreAt(m, dst, from, vs), size, dst, from, vs)
  <1> DEFINE a == StoreAt(m, dst, from, vs)
  <1>1. SameCall(m, a)
    BY DEF CallRec, CallFields, SameCall, StoreAt
  <1>2. a.frame = [i \in DOMAIN m.frame |-> IF i \in dst + from .. dst + from + Len(vs) - 1
                                            THEN vs[i - dst - from + 1] ELSE m.frame[i]]
    BY DEF CallRec, CallFields, StoreAt
  <1>3. DOMAIN m.frame = 0 .. size - 1
    BY DEF HasFrame
  <1> HIDE DEF a
  <1>4. HasFrame(a, size)
    BY <1>2, <1>3 DEF HasFrame
  <1>5. \A i \in 0 .. size - 1 :
          a.frame[i] = IF dst + from <= i /\ i < dst + from + Len(vs)
                       THEN vs[i - dst - from + 1] ELSE m.frame[i]
    BY <1>2, <1>3
  <1> QED
    BY <1>1, <1>4, <1>5 DEF a, StoredIn

\* a is m with the value v in the slot place.
SlotIs(m, a, size, place, v) ==
    /\ SameCall(m, a)
    /\ HasFrame(a, size)
    /\ \A i \in 0 .. size - 1 : a.frame[i] = IF i = place THEN v ELSE m.frame[i]

\* StoreAt with a single value writes that slot and nothing else.
LEMMA StoreOneFacts ==
    ASSUME NEW m, CallRec(m), NEW size \in Nat, HasFrame(m, size), NEW dst \in Nat, NEW from \in Nat, NEW v
    PROVE  SlotIs(m, StoreAt(m, dst, from, <<v>>), size, dst + from, v)
  <1>1. PICK vs : vs = <<v>>
    BY Zenon
  <1>2. Len(vs) = 1 /\ vs[1] = v /\ Len(vs) \in Nat
    BY <1>1
  <1> DEFINE a == StoreAt(m, dst, from, vs)
  <1>3. StoredIn(m, a, size, dst, from, vs)
    BY <1>2, StoreAtFacts
  <1>4. SlotIs(m, a, size, dst + from, v)
    <2> HIDE DEF a
    <2> QED
      BY <1>2, <1>3 DEF StoredIn, SlotIs
  <1> QED
    BY <1>1, <1>4

\* What a slot may hold on purpose is never what an old frame left there.
LEMMA ValuesDiffer ==
    /\ ClZero # Stale /\ ADefault # Stale /\ Instance # Stale /\ Object # Stale
    /\ \A n : Arg(n) # Stale /\ ItemArg(n) # Stale /\ RestArray(n) # Stale /\ <<"header", n>> # Stale
  BY DEF ClZero, Stale, ADefault, Instance, Object, Arg, ItemArg, RestArray

\* len items of s, the first n left out.
ItemsOf(s, n, len) == [k \in 1 .. len |-> s[n + k]]

\* What follows the first n items of a sequence.
LEMMA RestOfSeq ==
    ASSUME NEW k \in Nat, NEW s, s = [n \in 1 .. k |-> s[n]], NEW n \in Nat
    PROVE  SubSeq(s, n + 1, k) = ItemsOf(s, n, k - n)
  <1> DEFINE S == {s[j] : j \in 1 .. k}
  <1>1. s \in Seq(S) /\ Len(s) = k
    BY FcnIsSeq
  <1> HIDE DEF S
  <1>2. CASE n < k
    <2>1. /\ Len(SubSeq(s, n + 1, k)) = k - n
          /\ SubSeq(s, n + 1, k) \in Seq(S)
          /\ \A i \in 1 .. k - n : SubSeq(s, n + 1, k)[i] = s[n + i]
      <3>1. n + 1 \in Int /\ k \in Int /\ \A i \in n + 1 .. k : s[i] \in S
        BY <1>1
      <3>2. /\ SubSeq(s, n + 1, k) \in Seq(S)
            /\ Len(SubSeq(s, n + 1, k)) = IF n + 1 <= k THEN k - (n + 1) + 1 ELSE 0
            /\ \A i \in 1 .. k - (n + 1) + 1 : SubSeq(s, n + 1, k)[i] = s[(n + 1) + i - 1]
        BY ONLY <3>1
      <3>3. n + 1 <= k /\ k - (n + 1) + 1 = k - n /\ \A i \in Int : (n + 1) + i - 1 = n + i
        BY <1>2
      <3> QED
        BY ONLY <3>2, <3>3
    <2>2. DOMAIN SubSeq(s, n + 1, k) = 1 .. k - n
      BY <2>1
    <2>3. SubSeq(s, n + 1, k) = [i \in 1 .. k - n |-> SubSeq(s, n + 1, k)[i]]
      BY <2>1, <2>2
    <2> QED
      BY <2>1, <2>3 DEF ItemsOf
  <1>3. CASE n >= k
    <2>1. SubSeq(s, n + 1, k) = << >>
      BY <1>1, <1>3
    <2>2. 1 .. k - n = {}
      BY <1>3
    <2> QED
      BY <2>1, <2>2 DEF ItemsOf
  <1>4. n < k \/ n >= k
    OBVIOUS
  <1> QED
    BY <1>2, <1>3, <1>4, Zenon

\* The first n items of a sequence.
LEMMA FirstOfSeq ==
    ASSUME NEW k \in Nat, NEW s, s = [n \in 1 .. k |-> s[n]], NEW n \in 0 .. k
    PROVE  SubSeq(s, 1, n) = [i \in 1 .. n |-> s[i]]
  <1> DEFINE S == {s[j] : j \in 1 .. k}
             t == SubSeq(s, 1, n)
  <1>1. \A i \in 1 .. n : s[i] \in S
    OBVIOUS
  <1> HIDE DEF S
  <1>2. /\ t \in Seq(S) /\ Len(t) = IF 1 <= n THEN n - 1 + 1 ELSE 0
        /\ \A i \in 1 .. n - 1 + 1 : t[i] = s[1 + i - 1]
    <2>1. 1 \in Int /\ n \in Int /\ \A i \in 1 .. n : s[i] \in S
      BY <1>1
    <2> QED
      BY ONLY <2>1
  <1>3. t = [i \in 1 .. n |-> t[i]]
    BY <1>2
  <1> QED
    BY <1>2, <1>3

\* The items of two sequences, one after the other.
LEMMA ConcatSeqs ==
    ASSUME NEW k \in Nat, NEW s, s = [n \in 1 .. k |-> s[n]],
           NEW l \in Nat, NEW t, t = [n \in 1 .. l |-> t[n]]
    PROVE  s \o t = [n \in 1 .. k + l |-> IF n <= k THEN s[n] ELSE t[n - k]]
  <1> DEFINE S == {s[n] : n \in 1 .. k} \union {t[n] : n \in 1 .. l}
             u == s \o t
  <1>1. s \in Seq(S) /\ t \in Seq(S) /\ Len(s) = k /\ Len(t) = l
    <2>1. s \in [1 .. k -> S] /\ t \in [1 .. l -> S]
      OBVIOUS
    <2>2. Len(s) = k /\ Len(t) = l
      BY FcnIsSeq
    <2> HIDE DEF S
    <2> QED
      BY <2>1, <2>2
  <1> HIDE DEF S
  <1>2. /\ u \in Seq(S) /\ Len(u) = k + l
        /\ \A i \in 1 .. k + l : u[i] = IF i <= k THEN s[i] ELSE t[i - k]
    BY <1>1
  <1>3. u = [n \in 1 .. k + l |-> u[n]]
    BY <1>2
  <1> QED
    BY <1>2, <1>3

\* The frame of a is the one of m with the arguments all, count of them, in the
\* parameters from dst on.
ParamsIn(m, a, size, dst, max, all, count) ==
    \A i \in 0 .. size - 1 :
      a.frame[i] = IF dst <= i /\ i < dst + MaxCount(max)
                   THEN IF i - dst < count THEN all[i - dst + 1] ELSE ADefault
                   ELSE IF HasFlag(max) /\ i = dst + MaxCount(max)
                   THEN RestArray(ItemsOf(all, MaxCount(max), count - MaxCount(max)))
                   ELSE m.frame[i]
IsFilled(m, a, size, dst, max, all, count) ==
    SameCall(m, a) /\ HasFrame(a, size) /\ ParamsIn(m, a, size, dst, max, all, count)

\* The rest of the arguments is stored, and nothing else changes; no slot is
\* stale when memory is allocated.
LEMMA StoreRestFacts ==
    ASSUME NEW m, CallRec(m), NEW size \in Nat, HasFrame(m, size),
           NEW dst \in Nat, NEW max, MaxCount(max) \in Nat, dst + MaxCount(max) < size,
           \A i \in 0 .. size - 1 : m.frame[i] # Stale,
           NEW len \in Nat, NEW vs, Len(vs) = len, m.unsafe = FALSE
    PROVE  SlotIs(m, StoreRest(m, dst, max, len, vs), size, dst + MaxCount(max), RestArray(ItemsOf(vs, 0, len)))
  <1> DEFINE n == MaxCount(max)
             b == StoreAt(m, dst, n, <<ClZero>>)
             c == [b EXCEPT !.unsafe = @ \/ Stale \in {b.frame[i] : i \in DOMAIN b.frame}]
             r == RestArray([i \in 1 .. len |-> IF i <= Len(vs) THEN vs[i] ELSE Stale])
             a == StoreAt(c, dst, n, <<r>>)
  <1>1. StoreRest(m, dst, max, len, vs) = a
    BY DEF StoreRest
  <1>2. r = RestArray(ItemsOf(vs, 0, len))
    <2>1. [i \in 1 .. len |-> IF i <= Len(vs) THEN vs[i] ELSE Stale] = ItemsOf(vs, 0, len)
      BY DEF ItemsOf
    <2> QED
      BY <2>1
  <1> HIDE DEF r
  <1>3. SlotIs(m, b, size, dst + n, ClZero)
    BY StoreOneFacts
  <1> HIDE DEF b
  <1>4. CallRec(c) /\ SameCall(m, c) /\ c.frame = b.frame
    <2>1. Stale \notin {b.frame[i] : i \in DOMAIN b.frame}
      BY <1>3, ValuesDiffer DEF SlotIs, HasFrame
    <2>2. b.unsafe = m.unsafe /\ m.unsafe = FALSE
      BY <1>3 DEF SlotIs, SameCall
    <2> QED
      BY <1>3, <2>1, <2>2, Zenon DEF SlotIs, SameCall, CallRec, CallFields
  <1> HIDE DEF c
  <1>5. HasFrame(c, size)
    BY <1>3, <1>4 DEF HasFrame, SlotIs
  <1>6. SlotIs(c, a, size, dst + n, r)
    BY <1>4, <1>5, StoreOneFacts
  <1> HIDE DEF a
  <1>7. SameCall(m, a)
    BY <1>4, <1>6 DEF SlotIs, SameCall
  <1>8. SlotIs(m, a, size, dst + n, r)
    BY <1>3, <1>4, <1>6, <1>7 DEF SlotIs
  <1> QED
    BY <1>1, <1>2, <1>8

\* A frame is ready for the arguments of a function that takes min to max of
\* them: only the slots of those it must have may be stale.
ArgsReady(m, size, dst, min, max) ==
    /\ CallRec(m) /\ size \in Nat /\ HasFrame(m, size) /\ dst \in Nat /\ min \in Nat
    /\ MaxCount(max) \in Nat /\ min <= MaxCount(max)
    /\ dst + MaxCount(max) <= size
    /\ HasFlag(max) => dst + MaxCount(max) < size
    /\ \A i \in 0 .. size - 1 : m.frame[i] = Stale => dst <= i /\ i < dst + min
    /\ m.unsafe = FALSE /\ m.err = "none"

\* b is m with the first g of the arguments all in the slots from dst on.
PrefixIn(m, b, size, dst, all, g) ==
    /\ SameCall(m, b)
    /\ HasFrame(b, size)
    /\ \A i \in 0 .. size - 1 : b.frame[i] = IF dst <= i /\ i < dst + g THEN all[i - dst + 1] ELSE m.frame[i]

\* c is m with the first g of the arguments all and defaults in n slots.
CopiedIn(m, c, size, dst, n, all, g) ==
    /\ SameCall(m, c)
    /\ HasFrame(c, size)
    /\ \A i \in 0 .. size - 1 :
         c.frame[i] = IF dst <= i /\ i < dst + n
                      THEN IF i - dst < g THEN all[i - dst + 1] ELSE ADefault ELSE m.frame[i]

\* Before anything is copied, no argument is in place.
LEMMA PrefixNone ==
    ASSUME NEW m, CallRec(m), NEW size, HasFrame(m, size), NEW dst \in Nat, NEW all
    PROVE  PrefixIn(m, m, size, dst, all, 0)
  BY DEF PrefixIn, SameCall

\* Storing the next arguments behind the first g leaves g + Len(vs) in place.
LEMMA PrefixStep ==
    ASSUME NEW m, NEW b, NEW size \in Nat, NEW dst \in Nat, NEW all, NEW g \in Nat,
           PrefixIn(m, b, size, dst, all, g),
           NEW vs, Len(vs) \in Nat, \A k \in 1 .. Len(vs) : vs[k] = all[g + k]
    PROVE  PrefixIn(m, StoreAt(b, dst, g, vs), size, dst, all, g + Len(vs))
  <1> DEFINE a == StoreAt(b, dst, g, vs)
             l == Len(vs)
  <1>1. StoredIn(b, a, size, dst, g, vs)
    BY StoreAtFacts DEF PrefixIn, SameCall
  <1> HIDE DEF a
  <1>2. SameCall(m, a)
    BY <1>1 DEF StoredIn, PrefixIn, SameCall
  <1>3. ASSUME NEW i \in 0 .. size - 1
        PROVE  a.frame[i] = IF dst <= i /\ i < dst + (g + l) THEN all[i - dst + 1] ELSE m.frame[i]
    <2>1. /\ a.frame[i] = IF dst + g <= i /\ i < dst + g + l THEN vs[i - dst - g + 1] ELSE b.frame[i]
          /\ b.frame[i] = IF dst <= i /\ i < dst + g THEN all[i - dst + 1] ELSE m.frame[i]
      BY <1>1 DEF StoredIn, PrefixIn
    <2>2. CASE dst + g <= i /\ i < dst + g + l
      <3>1. i - dst - g + 1 \in 1 .. l /\ g + (i - dst - g + 1) = i - dst + 1
        BY <2>2
      <3>2. a.frame[i] = vs[i - dst - g + 1]
        BY ONLY <2>1, <2>2
      <3>3. vs[i - dst - g + 1] = all[i - dst + 1]
        BY <3>1
      <3>4. dst <= i /\ i < dst + (g + l)
        BY <2>2
      <3> QED
        BY ONLY <3>2, <3>3, <3>4
    <2>3. CASE ~(dst + g <= i /\ i < dst + g + l)
      BY <2>1, <2>3
    <2> QED
      BY <2>2, <2>3
  <1> QED
    BY <1>1, <1>2, <1>3 DEF StoredIn, PrefixIn, a

\* Filling the rest with defaults completes the parameters without a flag.
LEMMA DefaultsStep ==
    ASSUME NEW m, NEW b, NEW size \in Nat, NEW dst \in Nat, NEW all, NEW g \in Nat, NEW n \in Nat, g <= n,
           PrefixIn(m, b, size, dst, all, g)
    PROVE  CopiedIn(m, DefaultsFrom(b, dst, g, n), size, dst, n, all, g)
  <1> DEFINE vs == [k \in 1 .. n - g |-> ADefault]
             a == StoreAt(b, dst, g, vs)
  <1>1. Len(vs) = n - g /\ \A k \in 1 .. n - g : vs[k] = ADefault
    <2>1. n - g \in Nat /\ vs = [k \in 1 .. n - g |-> vs[k]] /\ \A k \in 1 .. n - g : vs[k] = ADefault
      OBVIOUS
    <2> HIDE DEF vs
    <2> QED
      BY <2>1, FcnIsSeq
  <1>2. DefaultsFrom(b, dst, g, n) = a
    BY DEF DefaultsFrom
  <1> HIDE DEF vs
  <1>3. StoredIn(b, a, size, dst, g, vs)
    BY <1>1, StoreAtFacts DEF PrefixIn, SameCall
  <1> HIDE DEF a
  <1>4. SameCall(m, a)
    BY <1>3 DEF StoredIn, PrefixIn, SameCall
  <1>5. ASSUME NEW i \in 0 .. size - 1
        PROVE  a.frame[i] = IF dst <= i /\ i < dst + n
                            THEN IF i - dst < g THEN all[i - dst + 1] ELSE ADefault ELSE m.frame[i]
    <2>1. /\ a.frame[i] = IF dst + g <= i /\ i < dst + g + (n - g) THEN vs[i - dst - g + 1] ELSE b.frame[i]
          /\ b.frame[i] = IF dst <= i /\ i < dst + g THEN all[i - dst + 1] ELSE m.frame[i]
      BY <1>1, <1>3 DEF StoredIn, PrefixIn
    <2>2. CASE dst + g <= i /\ i < dst + n
      <3>1. i - dst - g + 1 \in 1 .. n - g /\ i < dst + g + (n - g) /\ dst <= i /\ ~(i - dst < g)
        BY ONLY <2>2, i \in 0 .. size - 1, size \in Nat, dst \in Nat, g \in Nat, n \in Nat
      <3> QED
        BY ONLY <1>1, <2>1, <2>2, <3>1
    <2>3. CASE ~(dst + g <= i /\ i < dst + n)
      BY <2>1, <2>3
    <2> QED
      BY <2>2, <2>3
  <1> QED
    BY <1>2, <1>3, <1>4, <1>5 DEF StoredIn, CopiedIn

\* Once the parameters have their values, no slot is stale.
LEMMA CopiedIsClean ==
    ASSUME NEW m, NEW size, NEW dst, NEW min, NEW max, ArgsReady(m, size, dst, min, max),
           NEW all, NEW c, NEW g \in Nat, CopiedIn(m, c, size, dst, MaxCount(max), all, g),
           \A k \in 1 .. g : all[k] # Stale
    PROVE  \A i \in 0 .. size - 1 : c.frame[i] # Stale
  <1> SUFFICES ASSUME NEW i \in 0 .. size - 1 PROVE c.frame[i] # Stale
    OBVIOUS
  <1>1. /\ size \in Nat /\ dst \in Nat /\ min \in Nat /\ MaxCount(max) \in Nat /\ min <= MaxCount(max)
        /\ m.frame[i] = Stale => dst <= i /\ i < dst + min
    BY DEF ArgsReady
  <1>2. c.frame[i] = IF dst <= i /\ i < dst + MaxCount(max)
                     THEN IF i - dst < g THEN all[i - dst + 1] ELSE ADefault ELSE m.frame[i]
    BY DEF CopiedIn
  <1>3. CASE dst <= i /\ i < dst + MaxCount(max) /\ i - dst < g
    <2>1. i - dst + 1 \in 1 .. g
      BY <1>1, <1>3
    <2> QED
      BY <1>2, <1>3, <2>1
  <1>4. CASE ~(dst <= i /\ i < dst + MaxCount(max) /\ i - dst < g)
    BY <1>1, <1>2, <1>4, ValuesDiffer
  <1> QED
    BY <1>3, <1>4

\* Without a parameter for the rest, the parameters are the frame.
LEMMA FilledWithoutRest ==
    ASSUME NEW m, NEW size, NEW dst, NEW min, NEW max, ArgsReady(m, size, dst, min, max), ~HasFlag(max),
           NEW all, NEW c, NEW count \in Nat, count <= MaxCount(max),
           CopiedIn(m, c, size, dst, MaxCount(max), all, count)
    PROVE  IsFilled(m, c, size, dst, max, all, count)
  BY DEF CopiedIn, IsFilled, ParamsIn

\* With one, it gets what the others did not take.
LEMMA FilledWithRest ==
    ASSUME NEW m, NEW size, NEW dst, NEW min, NEW max, ArgsReady(m, size, dst, min, max), HasFlag(max),
           NEW all, NEW c, NEW count \in Nat, NEW g \in Nat, g = MinOf(count, MaxCount(max)),
           CopiedIn(m, c, size, dst, MaxCount(max), all, g),
           \A k \in 1 .. count : all[k] # Stale,
           NEW len \in Nat, len = MaxOf(count - MaxCount(max), 0),
           NEW vs, Len(vs) = len, \A k \in 1 .. len : vs[k] = all[MaxCount(max) + k]
    PROVE  IsFilled(m, StoreRest(c, dst, max, len, vs), size, dst, max, all, count)
  <1> DEFINE n == MaxCount(max)
             a == StoreRest(c, dst, max, len, vs)
  <1>1. /\ size \in Nat /\ dst \in Nat /\ n \in Nat /\ dst + n < size
        /\ CallRec(c) /\ HasFrame(c, size) /\ c.unsafe = FALSE
    BY DEF ArgsReady, CopiedIn, SameCall
  <1>2. \A i \in 0 .. size - 1 : c.frame[i] # Stale
    <2>1. \A k \in 1 .. g : all[k] # Stale
      BY <1>1 DEF MinOf
    <2> QED
      BY <2>1, CopiedIsClean
  <1>3. SlotIs(c, a, size, dst + n, RestArray(ItemsOf(vs, 0, len)))
    BY <1>1, <1>2, StoreRestFacts, Zenon
  <1> HIDE DEF a
  <1>4. ItemsOf(vs, 0, len) = ItemsOf(all, n, count - n)
    <2>1. 1 .. len = 1 .. count - n
      BY <1>1 DEF MaxOf
    <2> QED
      BY <2>1 DEF ItemsOf
  <1>5. SameCall(m, a)
    BY <1>3 DEF SlotIs, CopiedIn, SameCall
  <1>6. ASSUME NEW i \in 0 .. size - 1
        PROVE  a.frame[i] = IF dst <= i /\ i < dst + n
                            THEN IF i - dst < count THEN all[i - dst + 1] ELSE ADefault
                            ELSE IF i = dst + n THEN RestArray(ItemsOf(all, n, count - n)) ELSE m.frame[i]
    <2>1. /\ a.frame[i] = IF i = dst + n THEN RestArray(ItemsOf(vs, 0, len)) ELSE c.frame[i]
          /\ c.frame[i] = IF dst <= i /\ i < dst + n
                          THEN IF i - dst < g THEN all[i - dst + 1] ELSE ADefault ELSE m.frame[i]
      BY <1>3 DEF SlotIs, CopiedIn
    <2>2. dst <= i /\ i < dst + n => (i - dst < g <=> i - dst < count)
      BY <1>1 DEF MinOf
    <2> QED
      BY <1>1, <1>4, <2>1, <2>2
  <1> QED
    BY <1>3, <1>5, <1>6 DEF SlotIs, IsFilled, ParamsIn, a

\* An exception has been raised and the stack is as it was.
HasRaised(m, a, error) == CallRec(a) /\ a.f = m.f /\ a.err = error

\* The arguments all, count of them, are in the parameters, or there are too
\* few or too many of them.
ArgsPassed(m, a, size, dst, min, max, all, count) ==
    IF count < min \/ (~HasFlag(max) /\ count > max) THEN HasRaised(m, a, "ValueError")
    ELSE IsFilled(m, a, size, dst, max, all, count)

\* An exception while arguments are set up changes nothing but the error.
LEMMA RaiseInFacts ==
    ASSUME NEW m, NEW b, SameCall(m, b), NEW error
    PROVE  HasRaised(m, RaiseIn(b, error), error)
  <1>1. CallRec(b) /\ b.f = m.f
    BY DEF SameCall
  <1> QED
    BY <1>1, Zenon DEF HasRaised, RaiseIn, CallRec, CallFields

\* s has the arguments from number from on, up to to.
ItemsFrom(m, s, from, to) ==
    /\ s = [k \in 1 .. to - from |-> s[k]]
    /\ Len(s) = to - from
    /\ \A k \in 1 .. to - from : s[k] = SrcItem(m, from + k - 1)

\* SrcItems reads the arguments of the caller in order.
LEMMA SrcItemsFacts ==
    ASSUME NEW m, NEW from \in Nat, NEW to \in Nat, from <= to
    PROVE  ItemsFrom(m, SrcItems(m, from, to), from, to)
  <1> DEFINE s == SrcItems(m, from, to)
             l == to - from
  <1>1. /\ l \in Nat /\ s = [k \in 1 .. l |-> s[k]]
        /\ \A k \in 1 .. l : s[k] = SrcItem(m, from + k - 1)
    BY DEF SrcItems
  <1> HIDE DEF s, l
  <1>2. Len(s) = l
    BY <1>1, FcnIsSeq
  <1> QED
    BY <1>1, <1>2 DEF s, l, ItemsFrom

\* Arguments that are given one by one arrive.
LEMMA SetupFixedFacts ==
    ASSUME NEW m, NEW size, NEW dst, NEW min, NEW max, ArgsReady(m, size, dst, min, max),
           m.argc \in Nat, NEW all, \A k \in 1 .. m.argc : all[k] = SrcItem(m, k - 1) /\ all[k] # Stale
    PROVE  ArgsPassed(m, SetupFixedArguments(m, dst, min, max), size, dst, min, max, all, m.argc)
  <1> DEFINE argc == m.argc
             n == MaxCount(max)
             g == MinOf(argc, n)
             b == StoreAt(m, dst, 0, SrcItems(m, 0, g))
             c == DefaultsFrom(b, dst, g, n)
             len == IF argc > n THEN argc - n ELSE 0
             vs == IF argc > n THEN SrcItems(m, n, argc) ELSE <<>>
             a == SetupFixedArguments(m, dst, min, max)
  <1>1. /\ CallRec(m) /\ size \in Nat /\ HasFrame(m, size) /\ dst \in Nat /\ min \in Nat
        /\ n \in Nat /\ min <= n /\ m.unsafe = FALSE /\ argc \in Nat
    BY DEF ArgsReady
  <1>2. a = IF argc < min THEN RaiseIn(m, "ValueError")
            ELSE IF HasFlag(max) THEN StoreRest(c, dst, max, len, vs)
            ELSE IF argc > max THEN RaiseIn(c, "ValueError") ELSE c
    BY DEF SetupFixedArguments
  <1> HIDE DEF a
  <1>3. g \in Nat /\ g <= n /\ g <= argc
    BY <1>1 DEF MinOf
  <1>4. CopiedIn(m, c, size, dst, n, all, g)
    <2> DEFINE fs == SrcItems(m, 0, g)
    <2>1. Len(fs) = g /\ \A k \in 1 .. g : fs[k] = all[0 + k]
      <3> HIDE DEF g
      <3>1. ItemsFrom(m, fs, 0, g)
        BY <1>3, SrcItemsFacts
      <3> HIDE DEF fs
      <3> QED
        BY <1>1, <1>3, <3>1 DEF ItemsFrom
    <2> HIDE DEF g, fs, n
    <2>2. PrefixIn(m, m, size, dst, all, 0)
      BY <1>1, PrefixNone
    <2>3. PrefixIn(m, b, size, dst, all, 0 + Len(fs))
      <3>1. Len(fs) \in Nat /\ \A k \in 1 .. Len(fs) : fs[k] = all[0 + k]
        BY <1>3, <2>1
      <3>2. PrefixIn(m, StoreAt(m, dst, 0, fs), size, dst, all, 0 + Len(fs))
        BY <1>1, <2>2, <3>1, PrefixStep, Zenon
      <3> QED
        BY <3>2 DEF fs
    <2>4. 0 + Len(fs) = g
      BY <1>3, <2>1
    <2>5. PrefixIn(m, b, size, dst, all, g)
      BY <2>3, <2>4
    <2> HIDE DEF b
    <2> QED
      BY <1>1, <1>3, <2>5, DefaultsStep
  <1> HIDE DEF c, b
  <1>5. CASE argc < min
    <2>1. SameCall(m, m)
      BY <1>1 DEF SameCall
    <2>2. a = RaiseIn(m, "ValueError")
      BY <1>2, <1>5
    <2>3. HasRaised(m, a, "ValueError")
      BY <1>1, <2>1, <2>2, RaiseInFacts, Zenon
    <2> QED
      BY <1>5, <2>3 DEF ArgsPassed, a
  <1>6. CASE argc >= min /\ HasFlag(max)
    <2>1. /\ len \in Nat /\ len = MaxOf(argc - n, 0) /\ Len(vs) = len
          /\ \A k \in 1 .. len : vs[k] = all[n + k]
      <3>1. CASE argc > n
        <4>1. ItemsFrom(m, vs, n, argc)
          BY <1>1, <3>1, SrcItemsFacts
        <4>2. \A k \in 1 .. argc - n : n + k \in 1 .. argc
          BY <1>1
        <4> HIDE DEF vs
        <4>3. len = argc - n /\ len \in Nat /\ len = MaxOf(argc - n, 0)
          BY <1>1, <3>1 DEF MaxOf
        <4>4. Len(vs) = argc - n /\ \A k \in 1 .. argc - n : vs[k] = SrcItem(m, n + k - 1)
          BY <4>1, Zenon DEF ItemsFrom
        <4>5. ASSUME NEW k \in 1 .. argc - n PROVE vs[k] = all[n + k]
          <5>1. vs[k] = SrcItem(m, n + k - 1) /\ all[n + k] = SrcItem(m, (n + k) - 1)
            BY <4>2, <4>4
          <5>2. n + k - 1 = (n + k) - 1
            BY <1>1
          <5> QED
            BY <5>1, <5>2
        <4> HIDE DEF len
        <4> QED
          BY <4>3, <4>4, <4>5
      <3>2. CASE argc <= n
        BY <1>1, <3>2 DEF MaxOf
      <3> QED
        BY <1>1, <3>1, <3>2
    <2> HIDE DEF len, vs
    <2>2. IsFilled(m, StoreRest(c, dst, max, len, vs), size, dst, max, all, argc)
      BY <1>1, <1>3, <1>4, <1>6, <2>1, FilledWithRest, Zenon
    <2>3. a = StoreRest(c, dst, max, len, vs)
      BY <1>1, <1>2, <1>6
    <2> QED
      BY <1>1, <1>6, <2>2, <2>3 DEF ArgsPassed, a
  <1>7. CASE argc >= min /\ ~HasFlag(max)
    <2>1. max = n
      BY <1>7 DEF MaxCount
    <2>2. CASE argc > max
      <3>1. a = RaiseIn(c, "ValueError")
        BY <1>1, <1>2, <1>7, <2>2
      <3>2. HasRaised(m, a, "ValueError")
        BY <1>1, <1>4, <3>1, RaiseInFacts, Zenon DEF CopiedIn
      <3> QED
        BY <1>7, <2>2, <3>2 DEF ArgsPassed, a
    <2>3. CASE argc <= max
      <3>1. g = argc
        BY <1>1, <2>1, <2>3 DEF MinOf
      <3>2. IsFilled(m, c, size, dst, max, all, argc)
        BY <1>1, <1>4, <1>7, <2>1, <2>3, <3>1, FilledWithoutRest
      <3>3. a = c
        BY <1>1, <1>2, <1>7, <2>1, <2>3
      <3> QED
        BY <1>1, <1>7, <2>1, <2>3, <3>2, <3>3 DEF ArgsPassed, a
    <2> QED
      BY <1>1, <2>1, <2>2, <2>3
  <1> QED
    BY <1>1, <1>5, <1>6, <1>7 DEF a

\* How many arguments are taken from the call and how many from the sequence:
\* together as many as there are, or as many as there are parameters for.
IsTaken(argc, L, n, fixed, taken) ==
    /\ fixed \in Nat /\ taken \in Nat /\ taken <= L /\ fixed <= argc
    /\ fixed + taken = MinOf(argc + L, n)
    /\ argc > n => fixed = n /\ taken = 0
    /\ argc <= n => fixed = argc

\* SetupVarArguments takes as many arguments, and then items of the last one, as
\* there are parameters for.
LEMMA TakenFacts ==
    ASSUME NEW argc \in Nat, NEW L \in Nat, NEW min \in Nat, NEW n \in Nat, min <= n, argc + L >= min,
           NEW fixed, fixed = (IF argc < min THEN argc ELSE MinOf(argc, n)),
           NEW least, least = (IF argc < min THEN min - argc ELSE 0),
           NEW taken, taken = least + MinOf(n - (fixed + least), L - least)
    PROVE  IsTaken(argc, L, n, fixed, taken)
  BY DEF MinOf, IsTaken

\* The items of the last argument that are left over come behind parameter n.
LEMMA RestPlace ==
    ASSUME NEW argc \in Nat, NEW L \in Nat, NEW n \in Nat, NEW taken \in Nat, taken <= L,
           argc + taken = (IF argc + L < n THEN argc + L ELSE n),
           NEW len, len = L - taken, NEW k \in 1 .. len
    PROVE  taken + k \in 1 .. L /\ argc + (taken + k) = n + k
  OBVIOUS

\* The arguments in front of the last one, and the items of the last one.
StarCount(m) == NoFlag(m.argc) - 1
StarItems(m) == SrcItem(m, StarCount(m))[2]

\* The items of the sequence that is the last argument arrive after the other
\* arguments.
LEMMA SetupVarFacts ==
    ASSUME NEW m, NEW size, NEW dst, NEW min, NEW max, ArgsReady(m, size, dst, min, max),
           NEW argc \in Nat, argc = StarCount(m),
           NEW items, items = StarItems(m), SrcItem(m, argc)[1] = "seq",
           NEW L \in Nat, items = [k \in 1 .. L |-> items[k]],
           NEW all, \A k \in 1 .. argc : all[k] = SrcItem(m, k - 1),
           \A k \in 1 .. L : all[argc + k] = items[k],
           \A k \in 1 .. argc + L : all[k] # Stale
    PROVE  ArgsPassed(m, SetupVarArguments(m, dst, min, max), size, dst, min, max, all, argc + L)
  <1> DEFINE n == MaxCount(max)
             i == MinOf(min, argc)
             fixed == IF argc < min THEN argc ELSE MinOf(argc, n)
             least == IF argc < min THEN min - argc ELSE 0
             taken == least + MinOf(n - (fixed + least), L - least)
             fs == SrcItems(m, 0, fixed)
             ts == SubSeq(items, 1, taken)
             b == StoreAt(m, dst, 0, fs)
             d == StoreAt(b, dst, fixed, ts)
             c == DefaultsFrom(d, dst, fixed + taken, n)
             count == argc + L
             len == MaxOf(argc + L - n, 0)
             us == IF argc > n THEN SrcItems(m, n, argc) ELSE <<>>
             rs == SubSeq(items, taken + 1, L)
             vs == us \o rs
             few == StoreAt(m, dst, 0, SrcItems(m, 0, i))
             a == SetupVarArguments(m, dst, min, max)
             Outcome(l) ==
               LET tk == least + MinOf(n - (fixed + least), l - least)
                   cp == DefaultsFrom(StoreAt(b, dst, fixed, SubSeq(items, 1, tk)), dst, fixed + tk, n)
               IN IF argc < min /\ i + l < min THEN RaiseIn(few, "ValueError")
                  ELSE IF HasFlag(max)
                  THEN StoreRest(cp, dst, max, MaxOf(argc + l - n, 0), us \o SubSeq(items, tk + 1, l))
                  ELSE IF argc + l > n THEN RaiseIn(cp, "ValueError") ELSE cp
  <1>1. /\ CallRec(m) /\ size \in Nat /\ HasFrame(m, size) /\ dst \in Nat /\ min \in Nat
        /\ n \in Nat /\ min <= n /\ m.unsafe = FALSE
    BY DEF ArgsReady
  <1>a. count \in Nat
    OBVIOUS
  <1>2. Len(items) = L
    BY FcnIsSeq
  <1>3. a = IF argc < min /\ i + L < min THEN RaiseIn(few, "ValueError")
            ELSE IF HasFlag(max) THEN StoreRest(c, dst, max, len, vs)
            ELSE IF argc + L > n THEN RaiseIn(c, "ValueError") ELSE c
    <2>1. a = IF SrcItem(m, argc)[1] # "seq" THEN RaiseIn(m, "TypeError") ELSE Outcome(Len(items))
      BY ZenonT(40) DEF SetupVarArguments, StarCount, StarItems
    <2>2. a = Outcome(L)
      <3> HIDE DEF a, Outcome
      <3> QED
        BY <1>2, <2>1
    <2> QED
      BY <2>2, Zenon
  <1> HIDE DEF a
  <1>4. argc < min /\ i + L < min <=> count < min
    BY <1>1 DEF MinOf
  <1>5. CASE count < min
    <2>1. i \in Nat /\ argc < min
      BY <1>1, <1>5 DEF MinOf
    <2> HIDE DEF i
    <2>2. ItemsFrom(m, SrcItems(m, 0, i), 0, i)
      BY <2>1, SrcItemsFacts
    <2>3. Len(SrcItems(m, 0, i)) \in Nat
      BY <2>1, <2>2 DEF ItemsFrom
    <2>4. SameCall(m, few)
      BY <1>1, <2>3, StoreAtFacts, Zenon DEF StoredIn
    <2> HIDE DEF few
    <2>5. a = RaiseIn(few, "ValueError")
      BY <1>3, <1>4, <1>5
    <2>6. HasRaised(m, a, "ValueError")
      BY <1>1, <2>4, <2>5, RaiseInFacts, Zenon
    <2> QED
      BY <1>5, <2>6 DEF ArgsPassed, a
  <1>6. CASE count >= min
    <2>0. IsTaken(argc, L, n, fixed, taken)
      BY <1>1, <1>6, TakenFacts, Zenon
    <2> HIDE DEF fixed, taken
    <2>1. /\ fixed \in Nat /\ taken \in Nat /\ taken <= L /\ fixed <= argc
          /\ fixed + taken = MinOf(count, n)
          /\ argc > n => fixed = n /\ taken = 0
          /\ argc <= n => fixed = argc
      BY <2>0 DEF IsTaken
    <2>2. PrefixIn(m, m, size, dst, all, 0)
      BY <1>1, PrefixNone
    <2>3. PrefixIn(m, b, size, dst, all, fixed)
      <3>1. ItemsFrom(m, fs, 0, fixed)
        BY <2>1, SrcItemsFacts
      <3> HIDE DEF fs
      <3>2. Len(fs) = fixed /\ \A k \in 1 .. fixed : fs[k] = all[0 + k]
        BY <2>1, <3>1 DEF ItemsFrom
      <3>3. PrefixIn(m, b, size, dst, all, 0 + Len(fs))
        BY <1>1, <2>1, <2>2, <3>2, PrefixStep
      <3>4. 0 + Len(fs) = fixed
        BY <2>1, <3>2
      <3> QED
        BY <3>3, <3>4
    <2> HIDE DEF b
    <2>4. PrefixIn(m, d, size, dst, all, fixed + taken)
      <3>1. ts = [k \in 1 .. taken |-> items[k]]
        BY <2>1, FirstOfSeq
      <3>2. Len(ts) = taken /\ \A k \in 1 .. taken : ts[k] = items[k]
        <4>1. ts = [k \in 1 .. taken |-> ts[k]]
          BY <3>1, Zenon
        <4>2. \A k \in 1 .. taken : ts[k] = items[k]
          BY <3>1, Zenon
        <4> HIDE DEF ts
        <4> QED
          BY <2>1, <4>1, <4>2, FcnIsSeq, Zenon
      <3> HIDE DEF ts
      <3>3. ASSUME NEW k \in 1 .. Len(ts) PROVE ts[k] = all[fixed + k]
        <4>1. k \in 1 .. taken /\ taken > 0 /\ k \in 1 .. L
          BY <2>1, <3>2
        <4>2. fixed = argc
          BY <1>1, <2>1, <4>1
        <4> QED
          BY <3>2, <4>1, <4>2, Zenon
      <3> QED
        BY <1>1, <2>1, <2>3, <3>2, <3>3, PrefixStep, Zenon
    <2> HIDE DEF d
    <2>5. fixed + taken \in Nat /\ fixed + taken <= n
      BY <1>1, <2>1 DEF MinOf
    <2>6. CopiedIn(m, c, size, dst, n, all, fixed + taken)
      BY <1>1, <2>4, <2>5, DefaultsStep
    <2> HIDE DEF c
    <2>7. CASE HasFlag(max)
      <3>1. len \in Nat
        BY <1>1 DEF MaxOf
      <3>2. Len(vs) = len /\ \A k \in 1 .. len : vs[k] = all[n + k]
        <4>1. rs = ItemsOf(items, taken, L - taken)
          BY <2>1, RestOfSeq, Zenon
        <4>2. rs = [k \in 1 .. L - taken |-> rs[k]] /\ \A k \in 1 .. L - taken : rs[k] = items[taken + k]
          BY <4>1, Zenon DEF ItemsOf
        <4> HIDE DEF rs
        <4>3. CASE argc > n
          <5>1. ItemsFrom(m, us, n, argc)
            BY <1>1, <3>1, <4>3, SrcItemsFacts
          <5> HIDE DEF us
          <5>2. argc - n \in Nat /\ L - taken = L /\ len = (argc - n) + L
            BY <1>1, <2>1, <4>3 DEF MaxOf
          <5>3. vs = [k \in 1 .. (argc - n) + L |-> IF k <= argc - n THEN us[k] ELSE rs[k - (argc - n)]]
            <6>1. us = [k \in 1 .. argc - n |-> us[k]]
              BY ONLY <5>1 DEF ItemsFrom
            <6>2. rs = [k \in 1 .. L |-> rs[k]] /\ L \in Nat
              BY <2>1, <4>2, <5>2
            <6>3. us \o rs = [k \in 1 .. (argc - n) + L |-> IF k <= argc - n THEN us[k] ELSE rs[k - (argc - n)]]
              BY ONLY <5>2, <6>1, <6>2, ConcatSeqs
            <6> QED
              BY ONLY <6>3
          <5> HIDE DEF vs, len
          <5>4. Len(vs) = len
            <6>1. vs = [k \in 1 .. len |-> vs[k]] /\ len \in Nat
              BY <5>2, <5>3
            <6> QED
              BY <6>1, FcnIsSeq
          <5>5. ASSUME NEW k \in 1 .. len PROVE vs[k] = all[n + k]
            <6>1. vs[k] = IF k <= argc - n THEN us[k] ELSE rs[k - (argc - n)]
              BY <5>2, <5>3
            <6>2. CASE k <= argc - n
              <7>1. us[k] = SrcItem(m, n + k - 1) /\ n + k \in 1 .. argc /\ n + k - 1 = (n + k) - 1
                BY <1>1, <5>1, <5>2, <6>2 DEF ItemsFrom
              <7> QED
                BY <6>1, <6>2, <7>1
            <6>3. CASE k > argc - n
              <7>1. k - (argc - n) \in 1 .. L /\ argc + (k - (argc - n)) = n + k
                BY <1>1, <5>2, <6>3
              <7>2. rs[k - (argc - n)] = items[k - (argc - n)]
                <8>1. rs[k - (argc - n)] = items[taken + (k - (argc - n))]
                  BY <4>2, <5>2, <7>1, Zenon
                <8>2. taken = 0
                  BY <2>1, <4>3
                <8>3. taken + (k - (argc - n)) = k - (argc - n)
                  BY <7>1, <8>2
                <8> QED
                  BY <8>1, <8>3
              <7>3. items[k - (argc - n)] = all[n + k]
                BY <7>1
              <7> QED
                BY <1>1, <5>2, <6>1, <6>3, <7>2, <7>3
            <6> QED
              BY <1>1, <5>2, <6>2, <6>3
          <5> QED
            BY <5>4, <5>5
        <4>4. CASE argc <= n
          <5>1. vs = rs
            <6>1. us = <<>>
              BY <1>1, <4>4
            <6>2. rs \in Seq({rs[k] : k \in 1 .. L - taken})
              <7>1. L - taken \in Nat
                BY <2>1
              <7> QED
                BY <4>2, <7>1, FcnIsSeq
            <6> QED
              BY <6>1, <6>2
          <5>a. argc + taken = IF argc + L < n THEN argc + L ELSE n
            BY <2>1, <4>4 DEF MinOf
          <5>2. L - taken = len /\ len \in Nat
            BY <1>1, <2>1, <4>4, <5>a DEF MaxOf
          <5>3. Len(rs) = len
            BY <4>2, <5>2, FcnIsSeq
          <5>4. ASSUME NEW k \in 1 .. len PROVE rs[k] = all[n + k]
            <6> HIDE DEF len
            <6>1. taken + k \in 1 .. L /\ argc + (taken + k) = n + k
              <7>1. argc \in Nat /\ L \in Nat /\ n \in Nat /\ taken \in Nat /\ taken <= L
                BY <1>1, <2>1
              <7>2. len = L - taken
                BY <5>2
              <7> QED
                BY ONLY <7>1, <7>2, <5>a, k \in 1 .. len, RestPlace
            <6> QED
              BY <4>2, <5>2, <6>1, Zenon
          <5> QED
            BY <5>1, <5>3, <5>4
        <4> QED
          BY <1>1, <4>3, <4>4
      <3> HIDE DEF vs
      <3>3. IsFilled(m, StoreRest(c, dst, max, len, vs), size, dst, max, all, count)
        <4> DEFINE g == fixed + taken
        <4>1. g \in Nat /\ g = MinOf(count, n) /\ CopiedIn(m, c, size, dst, n, all, g)
          BY <2>1, <2>5, <2>6
        <4>2. len = MaxOf(count - n, 0)
          <5> HIDE DEF n
          <5>1. argc + L - n = count - n
            BY <1>1
          <5> QED
            BY <5>1, Zenon
        <4>3. \A k \in 1 .. count : all[k] # Stale
          OBVIOUS
        <4> HIDE DEF g, len, count
        <4> QED
          BY <1>1, <1>a, <2>7, <3>1, <3>2, <4>1, <4>2, <4>3, FilledWithRest, Zenon
      <3>4. a = StoreRest(c, dst, max, len, vs)
        BY <1>3, <1>4, <1>6, <2>7, <1>1
      <3> QED
        BY <1>1, <1>6, <2>7, <3>3, <3>4 DEF ArgsPassed, a
    <2>8. CASE ~HasFlag(max)
      <3>1. max = n
        BY <2>8 DEF MaxCount
      <3>2. CASE count > n
        <4>1. a = RaiseIn(c, "ValueError")
          BY <1>1, <1>3, <1>4, <1>6, <2>8, <3>2
        <4>2. HasRaised(m, a, "ValueError")
          BY <1>1, <2>6, <4>1, RaiseInFacts, Zenon DEF CopiedIn
        <4> QED
          BY <2>8, <3>1, <3>2, <4>2 DEF ArgsPassed, a
      <3>3. CASE count <= n
        <4>1. fixed + taken = count
          BY <1>1, <2>1, <3>3 DEF MinOf
        <4>2. IsFilled(m, c, size, dst, max, all, count)
          BY <1>1, <2>6, <2>8, <3>3, <4>1, FilledWithoutRest
        <4>3. a = c
          BY <1>1, <1>3, <1>4, <1>6, <2>8, <3>3
        <4> QED
          BY <1>1, <1>6, <2>8, <3>1, <3>3, <4>2, <4>3 DEF ArgsPassed, a
      <3> QED
        BY <1>1, <3>2, <3>3
    <2> QED
      BY <2>7, <2>8
  <1> QED
    BY <1>1, <1>5, <1>6 DEF a

\* The arguments of the call m are all, count of them.
HasArgs(m, all, count) ==
    /\ count \in Nat /\ m.argc \in Nat
    /\ \A k \in 1 .. count : all[k] # Stale
    /\ ~HasFlag(m.argc) => /\ count = m.argc
                           /\ \A k \in 1 .. count : all[k] = SrcItem(m, k - 1)
    /\ HasFlag(m.argc) =>
         /\ StarCount(m) \in Nat /\ SrcItem(m, StarCount(m))[1] = "seq"
         /\ \A k \in 1 .. StarCount(m) : all[k] = SrcItem(m, k - 1)
         /\ \E L \in Nat : /\ count = StarCount(m) + L
                           /\ StarItems(m) = [k \in 1 .. L |-> StarItems(m)[k]]
                           /\ \A k \in 1 .. L : all[StarCount(m) + k] = StarItems(m)[k]

\* What follows * is not a sequence.
BadStar(m) == HasFlag(m.argc) /\ SrcItem(m, StarCount(m))[1] # "seq"

\* ASetupArguments puts every argument, the items of a *args included, into its
\* parameter, or raises ValueError when there are too few or too many.
LEMMA SetupFacts ==
    ASSUME NEW m, NEW size, NEW dst, NEW min, NEW max, ArgsReady(m, size, dst, min, max),
           NEW all, NEW count, HasArgs(m, all, count)
    PROVE  ArgsPassed(m, ASetupArguments(m, dst, min, max), size, dst, min, max, all, count)
  <1>1. CASE HasFlag(m.argc)
    <2> DEFINE argc == StarCount(m)
               items == StarItems(m)
    <2>1. PICK L \in Nat : /\ count = argc + L
                          /\ items = [k \in 1 .. L |-> items[k]]
                          /\ \A k \in 1 .. L : all[argc + k] = items[k]
      BY <1>1 DEF HasArgs
    <2>2. /\ argc \in Nat /\ SrcItem(m, argc)[1] = "seq"
          /\ \A k \in 1 .. argc : all[k] = SrcItem(m, k - 1)
          /\ \A k \in 1 .. argc + L : all[k] # Stale
      BY <1>1, <2>1 DEF HasArgs
    <2>3. argc = StarCount(m) /\ items = StarItems(m)
      OBVIOUS
    <2> HIDE DEF argc, items
    <2>4. ArgsPassed(m, SetupVarArguments(m, dst, min, max), size, dst, min, max, all, argc + L)
      BY <2>1, <2>2, <2>3, SetupVarFacts
    <2> QED
      BY <1>1, <2>1, <2>4 DEF ASetupArguments
  <1>2. CASE ~HasFlag(m.argc)
    <2>1. m.argc \in Nat /\ \A k \in 1 .. m.argc : all[k] = SrcItem(m, k - 1) /\ all[k] # Stale
      BY <1>2 DEF HasArgs
    <2>2. ArgsPassed(m, SetupFixedArguments(m, dst, min, max), size, dst, min, max, all, m.argc)
      BY <2>1, SetupFixedFacts
    <2>3. count = m.argc
      BY <1>2 DEF HasArgs
    <2> QED
      BY <1>2, <2>2, <2>3 DEF ASetupArguments
  <1> QED
    BY <1>1, <1>2

\* ASetupArguments raises TypeError when the *args argument is no sequence.
LEMMA SetupBadFacts ==
    ASSUME NEW m, NEW size, NEW dst, NEW min, NEW max, ArgsReady(m, size, dst, min, max),
           BadStar(m)
    PROVE  HasRaised(m, ASetupArguments(m, dst, min, max), "TypeError")
  <1>1. ASetupArguments(m, dst, min, max) = RaiseIn(m, "TypeError")
    BY Zenon DEF ASetupArguments, SetupVarArguments, BadStar, StarCount
  <1>2. SameCall(m, m) /\ m.unsafe = FALSE
    BY DEF ArgsReady, SameCall
  <1> QED
    BY <1>1, <1>2, RaiseInFacts, Zenon

\* The arguments are in the parameters and the frame is the top of the stack, or
\* there are too few or too many of them.
ArgsStored(m, a, size, dst, min, max, all, count) ==
    /\ (a.err = "none" => a.unsafe = FALSE) /\ a.top = (a.err = "none")
    /\ IF count < min \/ (~HasFlag(max) /\ count > max) THEN a.err = "ValueError"
       ELSE a.err = "none" /\ ParamsIn(m, a, size, dst, max, all, count)

\* As many arguments as parameters are copied as they are.
LEMMA StoreAllFacts ==
    ASSUME NEW m, CallRec(m), NEW size \in Nat, HasFrame(m, size), NEW first \in Nat,
           NEW min \in Nat, NEW max \in Nat, min <= max, ~HasFlag(max), m.unsafe = FALSE, m.err = "none",
           NEW all, \A k \in 1 .. max : all[k] = SrcItem(m, k - 1)
    PROVE  ArgsStored(m, [StoreAt(m, first, 0, SrcItems(m, 0, max)) EXCEPT !.top = TRUE],
                      size, first, min, max, all, max)
  <1> DEFINE vs == SrcItems(m, 0, max)
             b == StoreAt(m, first, 0, vs)
             a == [b EXCEPT !.top = TRUE]
  <1>1. ItemsFrom(m, vs, 0, max)
    BY SrcItemsFacts
  <1> HIDE DEF vs
  <1>2. Len(vs) = max /\ \A k \in 1 .. max : vs[k] = all[k]
    BY <1>1 DEF ItemsFrom
  <1>3. StoredIn(m, b, size, first, 0, vs)
    BY <1>2, StoreAtFacts
  <1> HIDE DEF b
  <1>4. a.unsafe = FALSE /\ a.top = TRUE /\ a.err = "none" /\ a.frame = b.frame
    BY <1>3 DEF StoredIn, SameCall, CallRec, CallFields
  <1> HIDE DEF a
  <1>5. ASSUME NEW i \in 0 .. size - 1
        PROVE  a.frame[i] = IF first <= i /\ i < first + max
                            THEN IF i - first < max THEN all[i - first + 1] ELSE ADefault ELSE m.frame[i]
    <2>1. a.frame[i] = IF first + 0 <= i /\ i < first + 0 + max THEN vs[i - first - 0 + 1] ELSE m.frame[i]
      BY <1>2, <1>3, <1>4 DEF StoredIn
    <2>2. CASE first <= i /\ i < first + max
      <3>1. i - first - 0 + 1 = i - first + 1 /\ i - first + 1 \in 1 .. max /\ i - first < max
        BY <2>2
      <3> QED
        BY <1>2, <2>1, <2>2, <3>1
    <2>3. CASE ~(first <= i /\ i < first + max)
      BY <2>1, <2>3
    <2> QED
      BY <2>2, <2>3
  <1>6. ParamsIn(m, a, size, first, max, all, max)
    BY <1>5 DEF ParamsIn, MaxCount
  <1>7. ~(max < min \/ max > max)
    OBVIOUS
  <1> QED
    BY <1>4, <1>6, <1>7, Zenon DEF ArgsStored, a, b, vs

\* StoreArguments does what ASetupArguments does, by the direct copy too.
LEMMA StoreArgumentsFacts ==
    ASSUME NEW m, NEW size, NEW first \in Nat, NEW min, NEW max, ArgsReady(m, size, first, min, max),
           min = m.f[1] - (first - 3), max = m.f[2] - (first - 3),
           NEW all, NEW count, HasArgs(m, all, count),
           NEW slowSrc, slowSrc = m.src \/ (m.argc = max /\ ~HasFlag(m.argc))
    PROVE  ArgsStored(m, StoreArguments(m, first, slowSrc), size, first, min, max, all, count)
  <1> DEFINE a == StoreArguments(m, first, slowSrc)
             p == [m EXCEPT !.src = slowSrc, !.top = TRUE]
             q == ASetupArguments(p, first, min, max)
  <1>1. CASE m.argc = max /\ ~HasFlag(m.argc)
    <2>1. a = [StoreAt(m, first, 0, SrcItems(m, 0, m.argc)) EXCEPT !.top = TRUE]
      BY <1>1 DEF StoreArguments
    <2>2. /\ CallRec(m) /\ size \in Nat /\ HasFrame(m, size) /\ count \in Nat
          /\ min \in Nat /\ m.unsafe = FALSE /\ m.err = "none"
          /\ count = m.argc
          /\ \A k \in 1 .. count : all[k] = SrcItem(m, k - 1)
      BY <1>1 DEF ArgsReady, HasArgs
    <2>3. count = max /\ ~HasFlag(max)
      BY <1>1, <2>2, Zenon
    <2>4. max \in Nat /\ \A k \in 1 .. max : all[k] = SrcItem(m, k - 1)
      BY <2>2, <2>3, Zenon
    <2>5. min <= max
      BY <2>3 DEF ArgsReady, MaxCount
    <2> HIDE DEF a
    <2>6. a = [StoreAt(m, first, 0, SrcItems(m, 0, max)) EXCEPT !.top = TRUE]
      BY <1>1, <2>1, Zenon
    <2>7. ArgsStored(m, [StoreAt(m, first, 0, SrcItems(m, 0, max)) EXCEPT !.top = TRUE],
                     size, first, min, max, all, max)
      BY ONLY <2>2, <2>3, <2>4, <2>5, StoreAllFacts, first \in Nat, Zenon
    <2> QED
      BY <2>3, <2>6, <2>7, Zenon DEF a
  <1>2. CASE ~(m.argc = max /\ ~HasFlag(m.argc))
    <2>1. a = [q EXCEPT !.top = (q.err = "none")]
      BY <1>2 DEF StoreArguments
    <2>2. SameCall(m, [p EXCEPT !.top = m.top]) /\ p.frame = m.frame /\ CallRec(p)
      BY <1>2, Zenon DEF ArgsReady, SameCall, CallRec, CallFields
    <2>3. p.src = m.src /\ p.ip = m.ip /\ p.argc = m.argc /\ p.unsafe = m.unsafe /\ p.err = m.err
      BY <1>2 DEF ArgsReady, CallRec, CallFields
    <2> HIDE DEF p
    <2>4. ArgsReady(p, size, first, min, max)
      BY <2>2, <2>3 DEF ArgsReady, HasFrame
    <2>5. HasArgs(p, all, count)
      <3>1. \A k : SrcItem(p, k) = SrcItem(m, k)
        BY <2>3 DEF SrcItem
      <3>2. StarCount(p) = StarCount(m)
        BY <2>3 DEF StarCount
      <3>3. StarItems(p) = StarItems(m)
        BY <3>1, <3>2 DEF StarItems
      <3> QED
        BY <2>3, <3>1, <3>2, <3>3 DEF HasArgs
    <2>6. ArgsPassed(p, q, size, first, min, max, all, count)
      BY <2>4, <2>5, SetupFacts
    <2> HIDE DEF q
    <2>7. CASE count < min \/ (~HasFlag(max) /\ count > max)
      <3>1. HasRaised(p, q, "ValueError")
        BY <2>6, <2>7 DEF ArgsPassed
      <3>2. a.top = FALSE /\ a.err = "ValueError"
        BY <2>1, <3>1, Zenon DEF HasRaised, CallRec, CallFields
      <3> QED
        BY <2>7, <3>2, Zenon DEF ArgsStored
    <2>8. CASE ~(count < min \/ (~HasFlag(max) /\ count > max))
      <3>1. IsFilled(p, q, size, first, max, all, count)
        BY <2>6, <2>8 DEF ArgsPassed
      <3>2. q.unsafe = FALSE /\ q.err = "none" /\ CallRec(q)
        BY <2>4, <3>1 DEF IsFilled, SameCall, ArgsReady
      <3>3. a.unsafe = FALSE /\ a.top = TRUE /\ a.err = "none" /\ a.frame = q.frame
        BY <2>1, <3>2, Zenon DEF CallRec, CallFields
      <3> HIDE DEF a
      <3>4. ParamsIn(m, a, size, first, max, all, count)
        BY <2>2, <3>1, <3>3 DEF IsFilled, ParamsIn
      <3> QED
        BY <2>8, <3>3, <3>4, Zenon DEF ArgsStored, a
    <2> QED
      BY <2>7, <2>8
  <1> QED
    BY <1>1, <1>2

\* StoreArguments fails with TypeError when the *args argument is no sequence.
LEMMA StoreArgumentsBad ==
    ASSUME NEW m, NEW size, NEW first \in Nat, NEW min, NEW max, ArgsReady(m, size, first, min, max),
           min = m.f[1] - (first - 3), max = m.f[2] - (first - 3), BadStar(m)
    PROVE  LET a == StoreArguments(m, first, m.src)
           IN a.top = FALSE /\ a.err = "TypeError"
  <1> DEFINE a == StoreArguments(m, first, m.src)
             p == [m EXCEPT !.src = m.src, !.top = TRUE]
             q == ASetupArguments(p, first, min, max)
  <1>1. a = [q EXCEPT !.top = (q.err = "none")]
    BY DEF StoreArguments, BadStar
  <1>2. /\ p.frame = m.frame /\ CallRec(p)
        /\ p.src = m.src /\ p.ip = m.ip /\ p.argc = m.argc /\ p.unsafe = m.unsafe /\ p.err = m.err
    BY Zenon DEF ArgsReady, CallRec, CallFields
  <1> HIDE DEF p
  <1>3. ArgsReady(p, size, first, min, max)
    BY <1>2 DEF ArgsReady, HasFrame
  <1>4. BadStar(p)
    BY <1>2 DEF BadStar, StarCount, SrcItem
  <1>5. HasRaised(p, q, "TypeError")
    BY <1>3, <1>4, SetupBadFacts
  <1> HIDE DEF q
  <1> QED
    BY <1>1, <1>5, Zenon DEF HasRaised, CallRec, CallFields

(***************************************************************************)
(* Frames.                                                                 *)
(***************************************************************************)
\* f is a pair of a least and a greatest number of arguments.
IsArity(f) ==
    /\ f \in Nat \X Nat
    /\ \/ f[1] <= f[2] /\ f[2] < VarArgFlag
       \/ VarArgFlag + f[1] < f[2] /\ f[2] < 2 * VarArgFlag

\* Taking the flag away from a count leaves the count.
LEMMA ModFacts ==
    ASSUME NEW q \in Nat, q < VarArgFlag
    PROVE  NoFlag(q) = q /\ NoFlag(q + VarArgFlag) = q
  BY CallsOK DEF NoFlag

\* The numbers of parameters that are left after s of them.
LEMMA ArityFacts ==
    ASSUME NEW f, IsArity(f), NEW s \in {0, 1}, s <= f[1]
    PROVE  /\ f[1] \in Nat /\ f[2] \in Nat /\ f[1] - s \in Nat
           /\ MaxCount(f[2] - s) \in Nat /\ MaxCount(f[2]) \in Nat
           /\ MaxCount(f[2] - s) = MaxCount(f[2]) - s
           /\ f[1] <= MaxCount(f[2])
           /\ HasFlag(f[2] - s) <=> HasFlag(f[2])
           /\ ~HasFlag(f[2]) => MaxCount(f[2]) = f[2]
  <1>1. f[1] \in Nat /\ f[2] \in Nat /\ f[1] - s \in Nat /\ VarArgFlag \in Nat
    BY CallsOK DEF IsArity
  <1>2. CASE f[1] <= f[2] /\ f[2] < VarArgFlag
    BY <1>1, <1>2 DEF MaxCount, HasFlag
  <1>3. CASE VarArgFlag + f[1] < f[2] /\ f[2] < 2 * VarArgFlag
    <2> DEFINE n == f[2] - 1 - VarArgFlag
    <2>1. n \in Nat /\ n < VarArgFlag /\ f[1] <= n /\ n - s \in Nat /\ n - s < VarArgFlag
      BY <1>1, <1>3
    <2>2. n + VarArgFlag = f[2] - 1 /\ (n - s) + VarArgFlag = (f[2] - s) - 1
      BY <1>1
    <2>3. HasFlag(f[2]) /\ HasFlag(f[2] - s)
      BY <1>1, <1>3 DEF HasFlag
    <2> HIDE DEF n
    <2>4. NoFlag(f[2] - 1) = n /\ NoFlag((f[2] - s) - 1) = n - s
      BY <2>1, <2>2, ModFacts
    <2>5. MaxCount(f[2]) = n /\ MaxCount(f[2] - s) = n - s
      BY <2>3, <2>4 DEF MaxCount
    <2> QED
      BY <1>1, <2>1, <2>3, <2>5
  <1> QED
    BY <1>2, <1>3 DEF IsArity

\* a is m with a new frame: only the slots of the arguments that the function
\* must have are stale.
HasNewFrame(m, a, size) ==
    /\ SameCall(m, a) /\ size \in Nat /\ HasFrame(a, size)
    /\ \A i \in 0 .. size - 1 : /\ a.frame[i] = Stale => 3 <= i /\ i < 3 + m.f[1]
                                /\ 3 + m.f[1] <= i => a.frame[i] = ClZero

\* The frame has slots for all of the parameters.
LEMMA SizeFacts ==
    ASSUME NEW f, IsArity(f)
    PROVE  /\ FrameSize(f) \in Nat /\ 3 + MaxCount(f[2]) <= FrameSize(f)
           /\ HasFlag(f[2]) => 3 + MaxCount(f[2]) < FrameSize(f)
  <1>1. MaxCount(f[2]) \in Nat /\ ClLocals \in Nat
    <2>1. f[1] \in Nat
      BY DEF IsArity
    <2> QED
      BY <2>1, ArityFacts, CallsOK
  <1> QED
    BY <1>1 DEF FrameSize

\* NewFrame makes such a frame.
LEMMA NewFrameFacts ==
    ASSUME NEW m, CallRec(m), IsArity(m.f)
    PROVE  HasNewFrame(m, NewFrame(m), FrameSize(m.f))
  <1> DEFINE a == NewFrame(m)
             size == FrameSize(m.f)
  <1>1. size \in Nat /\ m.f[1] \in Nat
    BY SizeFacts DEF IsArity
  <1>2. SameCall(m, a)
    BY Zenon DEF CallRec, CallFields, SameCall, NewFrame
  <1>3. a.frame = [i \in 0 .. size - 1 |-> IF i < 3 THEN <<"header", i>>
                                           ELSE IF i < 3 + m.f[1] THEN Stale ELSE ClZero]
    BY DEF CallRec, CallFields, NewFrame
  <1> HIDE DEF a, size
  <1>4. HasFrame(a, size)
    BY <1>3 DEF HasFrame
  <1>5. ASSUME NEW i \in 0 .. size - 1
        PROVE  /\ a.frame[i] = Stale => 3 <= i /\ i < 3 + m.f[1]
               /\ 3 + m.f[1] <= i => a.frame[i] = ClZero
    <2>1. <<"header", i>> # Stale /\ ClZero # Stale
      BY DEF Stale, ClZero
    <2> QED
      BY <1>1, <1>3, <2>1
  <1> QED
    BY <1>1, <1>2, <1>4, <1>5 DEF HasNewFrame, a, size

\* A frame with self, if there is one, is ready for the arguments.
SelfIn(m, a, size, self) ==
    \A i \in 0 .. size - 1 : /\ 3 <= i /\ i < 3 + Len(self) => a.frame[i] = self[i - 2]
                             /\ 3 + m.f[1] <= i => a.frame[i] = ClZero

\* Storing self in a new frame (CallWithInstance, ASetupMethodFrame).
LEMMA SelfFacts ==
    ASSUME NEW m, CallRec(m), IsArity(m.f), m.unsafe = FALSE, m.err = "none",
           NEW self, NEW s \in {0, 1}, Len(self) = s, s <= m.f[1], \A k \in 1 .. s : self[k] # Stale
    PROVE  LET a == StoreAt(NewFrame(m), 3, 0, self)
           IN /\ SameCall(m, a) /\ SelfIn(m, a, FrameSize(m.f), self)
              /\ ArgsReady(a, FrameSize(m.f), 3 + s, m.f[1] - s, m.f[2] - s)
  <1> DEFINE b == NewFrame(m)
             a == StoreAt(b, 3, 0, self)
             size == FrameSize(m.f)
  <1>1. HasNewFrame(m, b, size)
    BY NewFrameFacts
  <1>2. CallRec(b) /\ size \in Nat /\ HasFrame(b, size)
    BY <1>1 DEF HasNewFrame, SameCall
  <1>3. StoredIn(b, a, size, 3, 0, self)
    BY <1>2, StoreAtFacts
  <1> HIDE DEF a, b
  <1>4. SameCall(m, a) /\ HasFrame(a, size)
    BY <1>1, <1>3 DEF HasNewFrame, StoredIn, SameCall
  <1>5. /\ m.f[1] \in Nat /\ m.f[1] - s \in Nat /\ 3 + s \in Nat
        /\ MaxCount(m.f[2] - s) \in Nat
        /\ MaxCount(m.f[2] - s) = MaxCount(m.f[2]) - s /\ MaxCount(m.f[2]) \in Nat
        /\ m.f[1] <= MaxCount(m.f[2])
        /\ HasFlag(m.f[2] - s) <=> HasFlag(m.f[2])
    BY ArityFacts
  <1>6. /\ 3 + MaxCount(m.f[2]) <= size
        /\ HasFlag(m.f[2]) => 3 + MaxCount(m.f[2]) < size
    BY SizeFacts
  <1>7. ASSUME NEW i \in 0 .. size - 1
        PROVE  /\ 3 <= i /\ i < 3 + s => a.frame[i] = self[i - 2]
               /\ 3 + m.f[1] <= i => a.frame[i] = ClZero
               /\ a.frame[i] = Stale => 3 + s <= i /\ i < 3 + s + (m.f[1] - s)
    <2>1. a.frame[i] = IF 3 + 0 <= i /\ i < 3 + 0 + s THEN self[i - 3 - 0 + 1] ELSE b.frame[i]
      BY <1>3 DEF StoredIn
    <2>2. /\ b.frame[i] = Stale => 3 <= i /\ i < 3 + m.f[1]
          /\ 3 + m.f[1] <= i => b.frame[i] = ClZero
      BY <1>1 DEF HasNewFrame
    <2>3. i - 3 - 0 + 1 = i - 2
      BY <1>2
    <2>4. CASE 3 <= i /\ i < 3 + s
      <3>1. a.frame[i] = self[i - 2]
        BY <2>1, <2>3, <2>4
      <3>2. i - 2 \in 1 .. s
        BY <2>4, <1>2
      <3>3. self[i - 2] # Stale
        BY <3>2
      <3>4. ~(3 + m.f[1] <= i)
        <4>1. s \in Int /\ i \in Int /\ m.f[1] \in Int
          BY <1>2, <1>5
        <4> QED
          BY ONLY <2>4, <4>1, s <= m.f[1]
      <3> QED
        BY ONLY <3>1, <3>3, <3>4
    <2>5. CASE ~(3 <= i /\ i < 3 + s)
      <3>1. a.frame[i] = b.frame[i]
        BY <2>1, <2>5, <1>2
      <3>2. ASSUME a.frame[i] = Stale PROVE 3 + s <= i /\ i < 3 + s + (m.f[1] - s)
        <4>1. 3 <= i /\ i < 3 + m.f[1]
          BY ONLY <3>1, <3>2, <2>2
        <4>2. i \in Int /\ s \in Int /\ m.f[1] \in Int
          BY <1>2, <1>5
        <4> QED
          BY ONLY <4>1, <4>2, <2>5
      <3>3. 3 + m.f[1] <= i => a.frame[i] = ClZero
        BY ONLY <3>1, <2>2
      <3> QED
        BY ONLY <2>5, <3>2, <3>3
    <2> QED
      BY <2>4, <2>5
  <1>8. SelfIn(m, a, size, self)
    BY <1>7 DEF SelfIn
  <1>9. ArgsReady(a, size, 3 + s, m.f[1] - s, m.f[2] - s)
    <2>1. CallRec(a) /\ a.unsafe = FALSE /\ a.err = "none"
      BY <1>4 DEF SameCall
    <2>2. \A i \in 0 .. size - 1 : a.frame[i] = Stale => 3 + s <= i /\ i < 3 + s + (m.f[1] - s)
      BY <1>7
    <2>3. m.f[1] - s <= MaxCount(m.f[2] - s) /\ 3 + s + MaxCount(m.f[2] - s) <= size
      BY <1>5, <1>6, <1>2
    <2>4. HasFlag(m.f[2] - s) => 3 + s + MaxCount(m.f[2] - s) < size
      BY <1>5, <1>6, <1>2
    <2> QED
      BY <1>2, <1>4, <1>5, <2>1, <2>2, <2>3, <2>4 DEF ArgsReady
  <1> QED
    BY <1>4, <1>8, <1>9 DEF a, b

\* The parameters of f in a have the arguments total, T of them, and its local
\* variables are cleared; or the call has failed since they are too few or too
\* many.
IsEntered(a, f, total, T) ==
    /\ (a.err = "none" => a.unsafe = FALSE) /\ a.top = (a.err = "none")
    /\ (T < f[1] \/ (~HasFlag(f[2]) /\ T > f[2])) => a.err = "ValueError"
    /\ ~(T < f[1] \/ (~HasFlag(f[2]) /\ T > f[2])) =>
         /\ a.err = "none"
         /\ \A i \in 3 .. FrameSize(f) - 1 :
              /\ i < 3 + MaxCount(f[2]) /\ i - 3 < T => a.frame[i] = total[i - 2]
              /\ i < 3 + MaxCount(f[2]) /\ ~(i - 3 < T) => a.frame[i] = ADefault
              /\ HasFlag(f[2]) /\ i = 3 + MaxCount(f[2]) =>
                   a.frame[i] = RestArray(ItemsOf(total, MaxCount(f[2]), T - MaxCount(f[2])))
              /\ ~(i < 3 + MaxCount(f[2])) /\ ~(HasFlag(f[2]) /\ i = 3 + MaxCount(f[2])) => a.frame[i] = ClZero

\* s values, none of them stale, that are passed as self.
IsSelf(self, s, f) == Len(self) = s /\ s <= f[1] /\ \A k \in 1 .. s : self[k] # Stale

\* total is self followed by all.
AfterSelf(total, self, s, all, count) ==
    (\A k \in 1 .. s : total[k] = self[k]) /\ (\A k \in 1 .. count : total[s + k] = all[k])

\* Storing the arguments after self is storing all of them.
LEMMA EnteredFromStored ==
    ASSUME NEW m, NEW a, NEW f, IsArity(f), m.f = f, NEW self, NEW s \in {0, 1}, IsSelf(self, s, f),
           NEW size, size = FrameSize(f), SelfIn(m, m, size, self), NEW all, NEW count \in Nat,
           NEW first, first = 3 + s, NEW min, min = f[1] - s, NEW max, max = f[2] - s,
           ArgsStored(m, a, size, first, min, max, all, count),
           NEW total, AfterSelf(total, self, s, all, count), NEW T, T = s + count
    PROVE  IsEntered(a, f, total, T)
  <1> DEFINE n == MaxCount(f[2])
             few == T < f[1] \/ (~HasFlag(f[2]) /\ T > f[2])
             rest == RestArray(ItemsOf(total, n, T - n))
  <1>0. /\ ArgsStored(m, a, size, 3 + s, f[1] - s, f[2] - s, all, count)
        /\ Len(self) = s /\ s <= f[1]
        /\ \A k \in 1 .. s : total[k] = self[k]
        /\ \A k \in 1 .. count : total[s + k] = all[k]
    BY Zenon DEF IsSelf, AfterSelf
  <1>1. /\ f[1] \in Nat /\ f[2] \in Nat
        /\ MaxCount(f[2] - s) = n - s /\ n \in Nat
        /\ f[1] <= n
        /\ HasFlag(f[2] - s) <=> HasFlag(f[2])
    BY ArityFacts, Zenon DEF IsSelf
  <1>2. size \in Nat
    BY SizeFacts
  <1>3. few <=> (count < f[1] - s \/ (~HasFlag(f[2] - s) /\ count > f[2] - s))
    <2>1. T < f[1] <=> count < f[1] - s
      BY <1>1
    <2>2. T > f[2] <=> count > f[2] - s
      BY <1>1
    <2> QED
      BY ONLY <2>1, <2>2, <1>1
  <1>4. (a.err = "none" => a.unsafe = FALSE) /\ a.top = (a.err = "none") /\ (few => a.err = "ValueError")
    BY ONLY <1>0, <1>3 DEF ArgsStored
  <1>5. ~few => a.err = "none" /\ ParamsIn(m, a, size, 3 + s, f[2] - s, all, count)
    BY ONLY <1>0, <1>3 DEF ArgsStored
  <1>6. ItemsOf(all, n - s, count - (n - s)) = ItemsOf(total, n, T - n)
    <2>1. s <= n /\ n \in Nat
      BY <1>0, <1>1
    <2>2. \A k \in 1 .. count : total[s + k] = all[k]
      BY <1>0
    <2>3. s \in {0, 1} /\ count \in Nat /\ T = s + count
      OBVIOUS
    <2> HIDE DEF n
    <2>4. /\ n - s \in Nat /\ count - (n - s) \in Int
          /\ count - (n - s) = T - n
      BY ONLY <2>1, <2>3
    <2>5. ItemsOf(all, n - s, count - (n - s)) = ItemsOf(total, n, count - (n - s))
      <3> DEFINE r == n - s
                 len == count - r
      <3>1. r \in Nat /\ len \in Int /\ r = n - s /\ len = count - r
        BY <2>4
      <3> HIDE DEF r, len
      <3>2. ASSUME NEW k \in 1 .. len PROVE all[r + k] = total[n + k]
        <4>1. r + k \in 1 .. count /\ s + (r + k) = n + k
          BY ONLY <3>1, <2>1, <2>3, k \in 1 .. len
        <4> QED
          BY ONLY <2>2, <4>1
      <3>3. [k \in 1 .. len |-> all[r + k]] = [k \in 1 .. len |-> total[n + k]]
        BY ONLY <3>2
      <3>4. ItemsOf(all, r, len) = ItemsOf(total, n, len)
        BY ONLY <3>3 DEF ItemsOf
      <3> QED
        BY <3>4 DEF r, len
    <2> QED
      BY ONLY <2>4, <2>5
  <1>7. ASSUME ~few, NEW i \in 3 .. size - 1
        PROVE  /\ i < 3 + n /\ i - 3 < T => a.frame[i] = total[i - 2]
               /\ i < 3 + n /\ ~(i - 3 < T) => a.frame[i] = ADefault
               /\ HasFlag(f[2]) /\ i = 3 + n => a.frame[i] = rest
               /\ ~(i < 3 + n) /\ ~(HasFlag(f[2]) /\ i = 3 + n) => a.frame[i] = ClZero
    <2>1. i \in 0 .. size - 1 /\ i \in Int /\ s \in Int /\ count \in Int /\ i >= 3
      BY ONLY <1>2, i \in 3 .. size - 1, s \in {0, 1}, count \in Nat
    <2>2. a.frame[i] = IF 3 + s <= i /\ i < 3 + s + (n - s)
                       THEN IF i - (3 + s) < count THEN all[i - (3 + s) + 1] ELSE ADefault
                       ELSE IF HasFlag(f[2]) /\ i = 3 + s + (n - s)
                       THEN rest
                       ELSE m.frame[i]
      BY <1>1, <1>5, <1>6, <1>7, <2>1, Zenon DEF ParamsIn
    <2>3. /\ 3 <= i /\ i < 3 + s => m.frame[i] = self[i - 2]
          /\ 3 + f[1] <= i => m.frame[i] = ClZero
      BY <1>0, <2>1, Zenon DEF SelfIn
    <2> HIDE DEF rest, n
    <2>4. 3 + s + (n - s) = 3 + n
      BY <1>1, <2>1
    <2>5. CASE i < 3 + s
      <3>1. a.frame[i] = m.frame[i] /\ m.frame[i] = self[i - 2]
        <4>1. s <= n /\ n \in Int
          BY ONLY <1>0, <1>1, <2>1
        <4>2. ~(3 + s <= i) /\ ~(i = 3 + n)
          BY ONLY <4>1, <2>1, <2>5
        <4>3. a.frame[i] = m.frame[i]
          BY ONLY <2>2, <2>4, <4>2
        <4> QED
          BY ONLY <2>1, <2>3, <2>5, <4>3
      <3>2. i - 2 \in 1 .. s /\ i < 3 + n /\ i - 3 < T
        <4>1. s <= n /\ n \in Int
          BY ONLY <1>0, <1>1, <2>1
        <4>2. i - 3 < s + count
          BY ONLY <2>1, <2>5, count \in Nat
        <4>3. i - 2 \in 1 .. s /\ i < 3 + n
          BY ONLY <4>1, <2>1, <2>5
        <4> QED
          BY ONLY <4>2, <4>3, T = s + count
      <3>3. total[i - 2] = self[i - 2]
        BY ONLY <1>0, <3>2
      <3>4. ~(i = 3 + n)
        BY <3>2, <1>1, <2>1
      <3> QED
        BY ONLY <3>1, <3>2, <3>3, <3>4
    <2>6. CASE 3 + s <= i /\ i < 3 + n /\ i - 3 < T
      <3>1. a.frame[i] = all[i - (3 + s) + 1]
        BY <1>1, <2>1, <2>2, <2>4, <2>6
      <3>2. i - (3 + s) + 1 \in 1 .. count /\ s + (i - (3 + s) + 1) = i - 2
        BY ONLY <2>1, <2>6, T = s + count
      <3>3. total[i - 2] = all[i - (3 + s) + 1]
        BY ONLY <1>0, <3>2
      <3>4. ~(i = 3 + n)
        BY <2>6, <1>1, <2>1
      <3> QED
        BY ONLY <3>1, <3>3, <3>4, <2>6
    <2>7. CASE 3 + s <= i /\ i < 3 + n /\ ~(i - 3 < T)
      <3>1. ~(i - (3 + s) < count)
        BY <2>1, <2>7
      <3>2. a.frame[i] = ADefault
        BY ONLY <3>1, <2>2, <2>4, <2>7
      <3>3. ~(i = 3 + n)
        BY <2>7, <1>1, <2>1
      <3> QED
        BY ONLY <3>2, <3>3, <2>7
    <2>8. CASE ~(i < 3 + n)
      <3>1. a.frame[i] = IF HasFlag(f[2]) /\ i = 3 + n THEN rest ELSE m.frame[i]
        BY ONLY <2>2, <2>4, <2>8
      <3>2. 3 + f[1] <= i
        BY <1>1, <2>1, <2>8
      <3> QED
        BY ONLY <3>1, <3>2, <2>3, <2>8
    <2>9. i < 3 + s \/ 3 + s <= i
      BY <2>1
    <2> QED
      BY ONLY <2>5, <2>6, <2>7, <2>8, <2>9
  <1> HIDE DEF n, few
  <1> QED
    BY <1>4, <1>5, <1>7, Zenon DEF IsEntered, n, few

\* The arguments are those of m as long as their places are the same.
LEMMA SameArgs ==
    ASSUME NEW m, NEW a, SameCall(m, a)
    PROVE  /\ \A all, count : HasArgs(m, all, count) => HasArgs(a, all, count)
           /\ BadStar(m) => BadStar(a)
  <1>1. a.src = m.src /\ a.ip = m.ip /\ a.argc = m.argc
    BY DEF SameCall
  <1>2. \A k : SrcItem(a, k) = SrcItem(m, k)
    BY <1>1 DEF SrcItem
  <1>3. StarCount(a) = StarCount(m) /\ StarItems(a) = StarItems(m)
    BY <1>1, <1>2 DEF StarCount, StarItems
  <1> QED
    BY <1>1, <1>2, <1>3 DEF HasArgs, BadStar

\* The call has failed with error, and the stack is as it was.
HasFailed(a, error) == a.top = FALSE /\ a.err = error

\* m is the state of a call of a function before its frame is made.
IsPrepared(m) == CallRec(m) /\ IsArity(m.f) /\ m.unsafe = FALSE /\ m.err = "none"

\* A call that stores self by itself has self and the arguments.
LEMMA EnterWithSelfFacts ==
    ASSUME NEW m, IsPrepared(m),
           NEW self, NEW s \in {0, 1}, IsSelf(self, s, m.f),
           NEW all, NEW count, HasArgs(m, all, count), NEW total, AfterSelf(total, self, s, all, count)
    PROVE  IsEntered(EnterWithSelf(m, self), m.f, total, s + count)
  <1> DEFINE b == StoreAt(NewFrame(m), 3, 0, self)
             a == StoreArguments(b, 3 + Len(self), m.src)
             size == FrameSize(m.f)
  <1>1. EnterWithSelf(m, self) = a
    BY DEF EnterWithSelf
  <1>2. /\ SameCall(m, b) /\ SelfIn(m, b, size, self)
        /\ ArgsReady(b, size, 3 + s, m.f[1] - s, m.f[2] - s)
    BY SelfFacts, Zenon DEF IsPrepared, IsSelf
  <1> HIDE DEF b, size
  <1>3. HasArgs(b, all, count) /\ b.f = m.f /\ b.src = m.src /\ count \in Nat
    <2>1. HasArgs(b, all, count)
      BY <1>2, SameArgs, Zenon
    <2> QED
      BY <1>2, <2>1 DEF SameCall, HasArgs
  <1>4. ArgsStored(b, a, size, 3 + s, m.f[1] - s, m.f[2] - s, all, count)
    <2> DEFINE first == 3 + s
               min == m.f[1] - s
               max == m.f[2] - s
    <2>1. first \in Nat /\ first - 3 = s
      OBVIOUS
    <2>2. min = b.f[1] - (first - 3) /\ max = b.f[2] - (first - 3)
      BY <1>3, <2>1
    <2>3. a = StoreArguments(b, first, m.src)
      BY DEF IsSelf
    <2>4. ArgsReady(b, size, first, min, max)
      BY <1>2
    <2> HIDE DEF first, min, max, a
    <2>5. ArgsStored(b, StoreArguments(b, first, m.src), size, first, min, max, all, count)
      BY <1>3, <2>1, <2>2, <2>4, StoreArgumentsFacts, Zenon
    <2> QED
      BY <2>3, <2>5 DEF first, min, max
  <1>5. SelfIn(b, b, size, self)
    BY <1>2, <1>3, Zenon DEF SelfIn
  <1> HIDE DEF a
  <1>6. IsEntered(a, m.f, total, s + count)
    <2>1. IsArity(m.f) /\ size = FrameSize(m.f)
      BY DEF IsPrepared, size
    <2> QED
      BY <1>3, <1>4, <1>5, <2>1, EnteredFromStored, Zenon
  <1> QED
    BY <1>1, <1>6

\* Such a call fails if what follows * is not a sequence.
LEMMA EnterWithSelfBad ==
    ASSUME NEW m, IsPrepared(m),
           NEW self, NEW s \in {0, 1}, IsSelf(self, s, m.f), BadStar(m)
    PROVE  HasFailed(EnterWithSelf(m, self), "TypeError")
  <1> DEFINE b == StoreAt(NewFrame(m), 3, 0, self)
             size == FrameSize(m.f)
             first == 3 + s
             min == m.f[1] - s
             max == m.f[2] - s
  <1>1. SameCall(m, b) /\ ArgsReady(b, size, first, min, max)
    BY SelfFacts, Zenon DEF IsPrepared, IsSelf
  <1>2. EnterWithSelf(m, self) = StoreArguments(b, first, m.src)
    BY DEF EnterWithSelf, IsSelf
  <1> HIDE DEF b, size
  <1>3. BadStar(b) /\ b.f = m.f /\ b.src = m.src
    BY <1>1, SameArgs, Zenon DEF SameCall
  <1>4. first \in Nat /\ first - 3 = s
    OBVIOUS
  <1>5. min = b.f[1] - (first - 3) /\ max = b.f[2] - (first - 3)
    BY <1>3, <1>4
  <1> HIDE DEF first, min, max
  <1> QED
    BY <1>1, <1>2, <1>3, <1>4, <1>5, StoreArgumentsBad, Zenon DEF HasFailed

\* What IsCalledExactly says of a call that finds a function and whose last
\* argument is a sequence if it must be.
TakesAll(a, f, total) ==
    IF Len(total) < f[1] \/ (~HasFlag(f[2]) /\ Len(total) > f[2]) THEN a.err = "ValueError"
    ELSE /\ a.err = "none"
         /\ LET ps == Parameters(f, total)
            IN \A i \in 3 .. FrameSize(f) - 1 : a.frame[i] = IF i - 2 <= Len(ps) THEN ps[i - 2] ELSE ClZero

\* The parameters, one by one.
LEMMA ParametersFacts ==
    ASSUME NEW f, IsArity(f), NEW T \in Nat, NEW total, total = [k \in 1 .. T |-> total[k]]
    PROVE  LET ps == Parameters(f, total)
               n == MaxCount(f[2])
           IN /\ n \in Nat
              /\ Len(ps) = n + (IF HasFlag(f[2]) THEN 1 ELSE 0)
              /\ \A i \in 1 .. n : ps[i] = IF i <= T THEN total[i] ELSE ADefault
              /\ HasFlag(f[2]) => ps[n + 1] = RestArray(ItemsOf(total, n, T - n))
  <1> DEFINE n == MaxCount(f[2])
             first == [i \in 1 .. n |-> IF i <= Len(total) THEN total[i] ELSE ADefault]
             r == RestArray(SubSeq(total, n + 1, Len(total)))
             ps == Parameters(f, total)
  <1>1. n \in Nat
    <2>1. f[1] \in Nat
      BY DEF IsArity
    <2>2. 0 <= f[1]
      BY <2>1
    <2> QED
      BY <2>2, ArityFacts
  <1>2. Len(total) = T
    BY FcnIsSeq
  <1>3. r = RestArray(ItemsOf(total, n, T - n))
    <2> HIDE DEF n
    <2>1. SubSeq(total, n + 1, T) = ItemsOf(total, n, T - n)
      BY <1>1, RestOfSeq, Zenon
    <2> QED
      BY <1>2, <2>1, Zenon
  <1>4. ps = first \o (IF HasFlag(f[2]) THEN <<r>> ELSE <<>>)
    BY DEF Parameters
  <1>5. /\ first = [i \in 1 .. n |-> first[i]]
        /\ \A i \in 1 .. n : first[i] = IF i <= T THEN total[i] ELSE ADefault
    BY <1>2
  <1> HIDE DEF n, first, r, ps
  <1>6. CASE HasFlag(f[2])
    <2>1. <<r>> = [i \in 1 .. 1 |-> <<r>>[i]] /\ <<r>>[1] = r /\ 1 \in Nat
      OBVIOUS
    <2> DEFINE t == <<r>>
               l == 1
    <2>2. t = [i \in 1 .. l |-> t[i]] /\ t[1] = r /\ l \in Nat
      BY <2>1
    <2>3. ps = first \o t
      BY <1>4, <1>6
    <2> HIDE DEF t, l
    <2>4. ps = [i \in 1 .. n + l |-> IF i <= n THEN first[i] ELSE t[i - n]]
      BY ONLY <1>1, <1>5, <2>2, <2>3, ConcatSeqs
    <2>5. l = 1
      BY DEF l
    <2>6. n + 1 \in Nat /\ ps = [i \in 1 .. n + 1 |-> ps[i]]
      BY ONLY <1>1, <2>4, <2>5
    <2>7. Len(ps) = n + 1
      BY ONLY <2>6, FcnIsSeq
    <2>8. \A i \in 1 .. n : ps[i] = first[i]
      BY ONLY <1>1, <2>4, <2>5
    <2>9. ps[n + 1] = r
      <3>1. n + 1 \in 1 .. n + 1 /\ ~(n + 1 <= n) /\ (n + 1) - n = 1
        BY ONLY <1>1
      <3> QED
        BY ONLY <2>2, <2>4, <2>5, <3>1
    <2> QED
      BY <1>1, <1>3, <1>5, <1>6, <2>7, <2>8, <2>9 DEF n, ps
  <1>7. CASE ~HasFlag(f[2])
    <2> DEFINE t == <<>>
               l == 0
    <2>1. t = [i \in 1 .. l |-> t[i]] /\ l \in Nat
      OBVIOUS
    <2>2. ps = first \o t
      BY <1>4, <1>7
    <2> HIDE DEF t, l
    <2>3. ps = [i \in 1 .. n + l |-> IF i <= n THEN first[i] ELSE t[i - n]]
      BY ONLY <1>1, <1>5, <2>1, <2>2, ConcatSeqs
    <2>4. l = 0
      BY DEF l
    <2>5. ps = [i \in 1 .. n |-> ps[i]]
      BY ONLY <1>1, <2>3, <2>4
    <2>6. Len(ps) = n
      BY ONLY <1>1, <2>5, FcnIsSeq
    <2>7. \A i \in 1 .. n : ps[i] = first[i]
      BY ONLY <1>1, <2>3, <2>4
    <2> QED
      BY <1>1, <1>5, <1>7, <2>6, <2>7 DEF n, ps
  <1> QED
    BY <1>6, <1>7

\* A function that is entered takes all of its arguments.
LEMMA EnteredTakesAll ==
    ASSUME NEW a, NEW f, IsArity(f), NEW T \in Nat, NEW total, total = [k \in 1 .. T |-> total[k]],
           IsEntered(a, f, total, T)
    PROVE  TakesAll(a, f, total)
  <1> DEFINE n == MaxCount(f[2])
             ps == Parameters(f, total)
             few == T < f[1] \/ (~HasFlag(f[2]) /\ T > f[2])
             r == RestArray(ItemsOf(total, n, T - n))
             size == FrameSize(f)
  <1>1. Len(total) = T
    BY FcnIsSeq
  <1>2. /\ n \in Nat
        /\ Len(ps) = n + (IF HasFlag(f[2]) THEN 1 ELSE 0)
        /\ \A i \in 1 .. n : ps[i] = IF i <= T THEN total[i] ELSE ADefault
        /\ HasFlag(f[2]) => ps[n + 1] = r
    BY ParametersFacts
  <1>3. /\ few => a.err = "ValueError"
        /\ ~few => /\ a.err = "none"
                   /\ \A i \in 3 .. size - 1 :
                        /\ i < 3 + n /\ i - 3 < T => a.frame[i] = total[i - 2]
                        /\ i < 3 + n /\ ~(i - 3 < T) => a.frame[i] = ADefault
                        /\ HasFlag(f[2]) /\ i = 3 + n => a.frame[i] = r
                        /\ ~(i < 3 + n) /\ ~(HasFlag(f[2]) /\ i = 3 + n) => a.frame[i] = ClZero
    BY Zenon DEF IsEntered
  <1>4. size \in Nat
    BY SizeFacts
  <1> HIDE DEF n, ps, r, size
  <1>5. ASSUME ~few, NEW i \in 3 .. size - 1
        PROVE  a.frame[i] = IF i - 2 <= Len(ps) THEN ps[i - 2] ELSE ClZero
    <2>1. /\ i < 3 + n /\ i - 3 < T => a.frame[i] = total[i - 2]
          /\ i < 3 + n /\ ~(i - 3 < T) => a.frame[i] = ADefault
          /\ HasFlag(f[2]) /\ i = 3 + n => a.frame[i] = r
          /\ ~(i < 3 + n) /\ ~(HasFlag(f[2]) /\ i = 3 + n) => a.frame[i] = ClZero
      BY ONLY <1>3, <1>5
    <2>2. i \in Int /\ i >= 3 /\ n \in Int /\ T \in Int
      BY <1>2, <1>4
    <2>3. CASE i < 3 + n
      <3>1. i - 2 \in 1 .. n /\ (i - 2 <= T <=> i - 3 < T)
        BY ONLY <2>2, <2>3
      <3>2. ps[i - 2] = IF i - 2 <= T THEN total[i - 2] ELSE ADefault
        BY ONLY <1>2, <3>1
      <3>3. a.frame[i] = ps[i - 2]
        BY ONLY <2>1, <2>3, <3>1, <3>2
      <3>4. i - 2 <= Len(ps)
        BY ONLY <1>2, <2>2, <2>3
      <3> QED
        BY ONLY <3>3, <3>4
    <2>4. CASE HasFlag(f[2]) /\ i = 3 + n
      <3>1. i - 2 = n + 1 /\ i - 2 <= Len(ps)
        BY ONLY <1>2, <2>2, <2>4
      <3>2. a.frame[i] = r /\ ps[n + 1] = r
        BY ONLY <1>2, <2>1, <2>4
      <3> QED
        BY ONLY <3>1, <3>2
    <2>5. CASE ~(i < 3 + n) /\ ~(HasFlag(f[2]) /\ i = 3 + n)
      <3>1. ~(i - 2 <= Len(ps))
        BY ONLY <1>2, <2>2, <2>5
      <3>2. a.frame[i] = ClZero
        BY ONLY <2>1, <2>5
      <3> QED
        BY ONLY <3>1, <3>2
    <2> QED
      BY ONLY <2>3, <2>4, <2>5
  <1> QED
    BY <1>1, <1>3, <1>5 DEF TakesAll, size, ps

-----------------------------------------------------------------------------
\* The call m with self in front of its arguments.
Shifted(m, self) ==
    LET args == self \o SrcItems(m, 0, NoFlag(m.argc))
    IN [m EXCEPT !.src = [i \in 0 .. Len(args) - 1 |-> args[i + 1]], !.ip = [i \in 1 .. Len(args) |-> i - 1],
                 !.argc = @ + Len(self)]

\* argc is a count of c arguments, with or without the flag.
CountIs(argc, c) == c \in Nat /\ (argc = c \/ (argc = c + VarArgFlag /\ c > 0))

\* The count and the flag can be told apart, also with s more arguments.
IsReadable(argc, c, s) ==
    /\ argc \in Nat /\ NoFlag(argc) = c /\ NoFlag(argc + s) = c + s
    /\ HasFlag(argc) <=> argc = c + VarArgFlag
    /\ HasFlag(argc) => c > 0
    /\ ~HasFlag(argc) => argc = c
    /\ HasFlag(argc + s) <=> HasFlag(argc)

\* The count of the arguments is below the flag, so it is readable.
LEMMA CountFacts ==
    ASSUME NEW argc, NEW c, CountIs(argc, c), NEW s \in {0, 1}, c + s < VarArgFlag
    PROVE  IsReadable(argc, c, s)
  <1>0. c \in Nat /\ (argc = c \/ (argc = c + VarArgFlag /\ c > 0))
    BY DEF CountIs
  <1>1. VarArgFlag \in Nat
    BY CallsOK
  <1>2. CASE argc = c
    <2>1. NoFlag(c) = c /\ NoFlag(c + s) = c + s
      BY <1>0, <1>1, ModFacts
    <2>2. ~HasFlag(argc) /\ ~HasFlag(argc + s)
      BY <1>0, <1>1, <1>2 DEF HasFlag
    <2> QED
      BY <1>0, <1>1, <1>2, <2>1, <2>2 DEF IsReadable
  <1>3. CASE argc = c + VarArgFlag /\ c > 0
    <2>1. NoFlag(c + VarArgFlag) = c
      BY <1>0, <1>1, ModFacts
    <2>2. NoFlag((c + s) + VarArgFlag) = c + s
      BY <1>0, <1>1, ModFacts
    <2>3. (c + s) + VarArgFlag = (c + VarArgFlag) + s
      BY <1>0, <1>1
    <2>4. HasFlag(argc) /\ HasFlag(argc + s)
      BY <1>0, <1>1, <1>3 DEF HasFlag
    <2>5. NoFlag(argc) = c /\ NoFlag(argc + s) = c + s
      BY ONLY <1>3, <2>1, <2>2, <2>3
    <2> QED
      BY <1>0, <1>1, <1>3, <2>4, <2>5 DEF IsReadable
  <1> QED
    BY <1>0, <1>2, <1>3

\* p is m with the s values self in front of its c arguments.
IsShifted(m, p, self, s, c) ==
    /\ CallRec(p) /\ p.f = m.f /\ p.unsafe = m.unsafe /\ p.err = m.err /\ p.argc = m.argc + s
    /\ \A k \in 1 .. s : SrcItem(p, k - 1) = self[k]
    /\ \A k \in 1 .. c : SrcItem(p, s + k - 1) = SrcItem(m, k - 1)

\* Shifting the arguments makes room for self (CallWithInstance2).
LEMMA ShiftedFacts ==
    ASSUME NEW m, CallRec(m), NEW c, CountIs(m.argc, c), NEW s \in {0, 1}, c + s < VarArgFlag,
           NEW self, self = [n \in 1 .. s |-> self[n]]
    PROVE  IsShifted(m, Shifted(m, self), self, s, c)
  <1> DEFINE p == Shifted(m, self)
             t == SrcItems(m, 0, c)
             args == self \o t
             src == [i \in 0 .. Len(args) - 1 |-> args[i + 1]]
             ip == [i \in 1 .. Len(args) |-> i - 1]
  <1>1. c \in Nat /\ NoFlag(m.argc) = c
    BY CountFacts DEF CountIs, IsReadable
  <1>2. p = [m EXCEPT !.src = src, !.ip = ip, !.argc = @ + Len(self)]
    BY <1>1 DEF Shifted
  <1>3. Len(self) = s
    BY FcnIsSeq
  <1>4. /\ t = [n \in 1 .. c |-> t[n]]
        /\ \A k \in 1 .. c : t[k] = SrcItem(m, k - 1)
    <2>1. ItemsFrom(m, t, 0, c)
      BY <1>1, SrcItemsFacts
    <2> HIDE DEF t
    <2> QED
      BY <1>1, <2>1 DEF ItemsFrom
  <1> HIDE DEF t
  <1>5. args = [n \in 1 .. s + c |-> IF n <= s THEN self[n] ELSE t[n - s]]
    <2>1. s \in Nat /\ self = [n \in 1 .. s |-> self[n]]
      OBVIOUS
    <2>2. c \in Nat /\ t = [n \in 1 .. c |-> t[n]]
      BY <1>1, <1>4
    <2> QED
      BY ONLY <2>1, <2>2, ConcatSeqs
  <1>6. Len(args) = s + c
    <2>1. s + c \in Nat /\ args = [n \in 1 .. s + c |-> args[n]]
      BY <1>1, <1>5
    <2> HIDE DEF args
    <2> QED
      BY <2>1, FcnIsSeq
  <1>7. CallRec(p) /\ p.f = m.f /\ p.unsafe = m.unsafe /\ p.err = m.err
    BY <1>2, Zenon DEF CallRec, CallFields
  <1>8. p.src = src /\ p.ip = ip /\ p.argc = m.argc + s
    BY <1>2, <1>3, Zenon DEF CallRec, CallFields
  <1> HIDE DEF p, args
  <1>9. ASSUME NEW k \in 1 .. s + c PROVE SrcItem(p, k - 1) = args[k]
    <2>1. k \in Int /\ k - 1 + 1 = k /\ k - 1 \in 0 .. Len(args) - 1 /\ k \in 1 .. Len(args)
      BY <1>1, <1>6
    <2>2. ip[k] = k - 1 /\ src[k - 1] = args[k]
      BY <2>1
    <2>3. SrcItem(p, k - 1) = src[ip[k - 1 + 1]]
      BY <1>8 DEF SrcItem
    <2> QED
      BY ONLY <2>1, <2>2, <2>3
  <1>10. ASSUME NEW k \in 1 .. s PROVE SrcItem(p, k - 1) = self[k]
    <2>1. k \in 1 .. s + c /\ k <= s
      BY <1>1
    <2> QED
      BY <1>5, <1>9, <2>1
  <1>11. ASSUME NEW k \in 1 .. c PROVE SrcItem(p, s + k - 1) = SrcItem(m, k - 1)
    <2>1. s + k \in 1 .. s + c /\ ~(s + k <= s) /\ (s + k) - s = k
      BY <1>1
    <2>2. args[s + k] = t[k]
      BY <1>5, <2>1
    <2>3. SrcItem(p, (s + k) - 1) = args[s + k]
      BY <1>9, <2>1
    <2>4. (s + k) - 1 = s + k - 1
      BY <1>1
    <2> QED
      BY ONLY <1>4, <2>2, <2>3, <2>4, k \in 1 .. c
  <1> QED
    BY <1>7, <1>8, <1>10, <1>11 DEF IsShifted, p

\* Shifted arguments are self and then the arguments.
LEMMA ShiftedArgs ==
    ASSUME NEW m, NEW p, NEW c \in Nat, NEW s \in {0, 1}, IsReadable(m.argc, c, s),
           NEW self, NEW f, IsSelf(self, s, f), IsShifted(m, p, self, s, c),
           NEW all, NEW count, HasArgs(m, all, count),
           NEW total, AfterSelf(total, self, s, all, count), NEW T, T = s + count
    PROVE  HasArgs(p, total, T)
  <1>1. /\ c \in Nat /\ m.argc \in Nat /\ NoFlag(m.argc) = c /\ NoFlag(m.argc + s) = c + s
        /\ HasFlag(m.argc) => c > 0
        /\ ~HasFlag(m.argc) => m.argc = c
        /\ HasFlag(m.argc + s) <=> HasFlag(m.argc)
    BY DEF IsReadable
  <1>2. /\ p.argc = m.argc + s
        /\ \A k \in 1 .. s : SrcItem(p, k - 1) = self[k]
        /\ \A k \in 1 .. c : SrcItem(p, s + k - 1) = SrcItem(m, k - 1)
    BY DEF IsShifted
  <1>3. p.argc \in Nat /\ (HasFlag(p.argc) <=> HasFlag(m.argc)) /\ NoFlag(p.argc) = c + s
    BY <1>1, <1>2
  <1>4. /\ \A k \in 1 .. s : total[k] = self[k]
        /\ \A k \in 1 .. count : total[s + k] = all[k]
    BY DEF AfterSelf
  <1>5. count \in Nat /\ \A k \in 1 .. count : all[k] # Stale
    BY DEF HasArgs
  <1>6. T \in Nat
    BY <1>5
  <1>7. ASSUME NEW k \in 1 .. T PROVE total[k] # Stale
    <2>1. CASE k <= s
      BY <1>4, <1>6, <2>1 DEF IsSelf
    <2>2. CASE ~(k <= s)
      <3>1. k - s \in 1 .. count /\ s + (k - s) = k
        BY <1>5, <1>6, <2>2
      <3> QED
        BY ONLY <1>4, <1>5, <3>1
    <2> QED
      BY <2>1, <2>2
  <1>8. ASSUME NEW n \in Nat, n <= c, n <= count, \A k \in 1 .. n : all[k] = SrcItem(m, k - 1)
        PROVE  \A k \in 1 .. s + n : total[k] = SrcItem(p, k - 1)
    <2> SUFFICES ASSUME NEW k \in 1 .. s + n PROVE total[k] = SrcItem(p, k - 1)
      OBVIOUS
    <2>1. CASE k <= s
      <3>1. k \in 1 .. s
        BY <2>1
      <3> QED
        BY ONLY <1>2, <1>4, <3>1
    <2>2. CASE ~(k <= s)
      <3> DEFINE j == k - s
      <3>1. j \in 1 .. n /\ j \in 1 .. c /\ j \in 1 .. count /\ s + j = k /\ s + j - 1 = k - 1
        BY <1>1, <1>5, <1>8, <2>2
      <3> HIDE DEF j
      <3>2. total[s + j] = all[j] /\ all[j] = SrcItem(m, j - 1) /\ SrcItem(p, s + j - 1) = SrcItem(m, j - 1)
        BY ONLY <1>2, <1>4, <1>8, <3>1
      <3> QED
        BY ONLY <3>1, <3>2
    <2> QED
      BY <2>1, <2>2
  <1>9. CASE ~HasFlag(m.argc)
    <2>1. count = c /\ \A k \in 1 .. c : all[k] = SrcItem(m, k - 1)
      BY <1>1, <1>9 DEF HasArgs
    <2>2. \A k \in 1 .. s + c : total[k] = SrcItem(p, k - 1)
      <3>1. c \in Nat /\ c <= c /\ c <= count
        BY ONLY c \in Nat, <2>1
      <3> QED
        BY ONLY <1>8, <2>1, <3>1
    <2>3. T = p.argc /\ T = s + c
      <3>1. p.argc = c + s /\ T = s + c
        BY <1>1, <1>2, <1>9, <2>1, Zenon
      <3> QED
        BY ONLY <3>1, s \in {0, 1}, c \in Nat
    <2>4. ~HasFlag(p.argc) /\ p.argc \in Nat
      BY <1>3, <1>9
    <2> QED
      BY ONLY <1>6, <1>7, <2>2, <2>3, <2>4 DEF HasArgs
  <1>10. CASE HasFlag(m.argc)
    <2> DEFINE n == c - 1
    <2>1. n \in Nat /\ StarCount(m) = n /\ StarCount(p) = s + n /\ n + 1 = c
      BY <1>1, <1>3, <1>10 DEF StarCount
    <2>2. PICK L \in Nat : /\ count = n + L
                           /\ StarItems(m) = [k \in 1 .. L |-> StarItems(m)[k]]
                           /\ \A k \in 1 .. L : all[n + k] = StarItems(m)[k]
      BY <1>10, <2>1 DEF HasArgs
    <2>3. SrcItem(m, n)[1] = "seq" /\ \A k \in 1 .. n : all[k] = SrcItem(m, k - 1)
      BY <1>10, <2>1 DEF HasArgs
    <2> HIDE DEF n
    <2>4. SrcItem(p, s + n) = SrcItem(m, n)
      <3>1. c \in 1 .. c /\ c - 1 = n /\ s + c - 1 = s + n
        BY <1>1, <2>1
      <3> QED
        BY ONLY <1>2, <3>1
    <2>5. StarItems(p) = StarItems(m)
      BY ONLY <2>1, <2>4 DEF StarItems
    <2>6. \A k \in 1 .. s + n : total[k] = SrcItem(p, k - 1)
      <3>1. n <= c /\ n <= count
        BY <2>1, <2>2, <1>1
      <3> QED
        BY <1>8, <2>1, <2>3, <3>1
    <2>7. T = (s + n) + L /\ s + n \in Nat
      BY <2>1, <2>2
    <2>8. ASSUME NEW k \in 1 .. L PROVE total[(s + n) + k] = StarItems(p)[k]
      <3>1. n + k \in 1 .. count /\ s + (n + k) = (s + n) + k
        <4>1. k \in 1 .. L /\ L \in Nat /\ n \in Nat /\ s \in Int /\ count = n + L
          BY <2>1, <2>2
        <4> QED
          BY ONLY <4>1
      <3> QED
        BY ONLY <1>4, <2>2, <2>5, <3>1, k \in 1 .. L
    <2>9. StarItems(p) = [k \in 1 .. L |-> StarItems(p)[k]]
      BY ONLY <2>2, <2>5
    <2>10. SrcItem(p, StarCount(p))[1] = "seq" /\ StarCount(p) \in Nat
      BY ONLY <2>1, <2>3, <2>4, <2>7
    <2>11. \E l \in Nat : /\ T = StarCount(p) + l
                          /\ StarItems(p) = [k \in 1 .. l |-> StarItems(p)[k]]
                          /\ \A k \in 1 .. l : total[StarCount(p) + k] = StarItems(p)[k]
      <3> WITNESS L \in Nat
      <3> QED
        BY ONLY <2>1, <2>7, <2>8, <2>9
    <2>12. \A k \in 1 .. StarCount(p) : total[k] = SrcItem(p, k - 1)
      BY ONLY <2>1, <2>6
    <2>13. HasFlag(p.argc) /\ p.argc \in Nat
      BY <1>3, <1>10
    <2> QED
      BY ONLY <1>6, <1>7, <2>10, <2>11, <2>12, <2>13 DEF HasArgs
  <1> QED
    BY <1>9, <1>10

\* A new frame is ready for all of the arguments.
LEMMA NewFrameReady ==
    ASSUME NEW p, IsPrepared(p)
    PROVE  LET b == NewFrame(p)
               size == FrameSize(p.f)
           IN /\ SameCall(p, b) /\ ArgsReady(b, size, 3, p.f[1], p.f[2])
              /\ SelfIn(b, b, size, <<>>) /\ IsSelf(<<>>, 0, p.f)
  <1> DEFINE b == NewFrame(p)
             size == FrameSize(p.f)
             n == MaxCount(p.f[2])
  <1>1. IsArity(p.f) /\ CallRec(p) /\ p.unsafe = FALSE /\ p.err = "none"
    BY DEF IsPrepared
  <1>2. HasNewFrame(p, b, size)
    BY <1>1, NewFrameFacts
  <1>3. SameCall(p, b) /\ size \in Nat /\ HasFrame(b, size) /\ CallRec(b) /\ b.f = p.f /\ b.unsafe = FALSE /\ b.err = "none"
    BY <1>1, <1>2 DEF HasNewFrame, SameCall
  <1>4. p.f[1] \in Nat /\ n \in Nat /\ p.f[1] <= n
    <2>1. p.f[1] \in Nat
      BY <1>1 DEF IsArity
    <2>2. 0 <= p.f[1]
      BY <2>1
    <2> QED
      BY <1>1, <2>2, ArityFacts
  <1>5. 3 + n <= size /\ (HasFlag(p.f[2]) => 3 + n < size)
    BY <1>1, SizeFacts
  <1>6. \A i \in 0 .. size - 1 : /\ b.frame[i] = Stale => 3 <= i /\ i < 3 + p.f[1]
                                 /\ 3 + p.f[1] <= i => b.frame[i] = ClZero
    BY <1>2 DEF HasNewFrame
  <1> HIDE DEF b, size
  <1>7. ArgsReady(b, size, 3, p.f[1], p.f[2])
    BY <1>3, <1>4, <1>5, <1>6 DEF ArgsReady
  <1>8. SelfIn(b, b, size, <<>>)
    <2>1. Len(<<>>) = 0
      OBVIOUS
    <2> SUFFICES ASSUME NEW i \in 0 .. size - 1
                 PROVE  ~(3 <= i /\ i < 3 + 0) /\ (3 + b.f[1] <= i => b.frame[i] = ClZero)
      BY <2>1 DEF SelfIn
    <2>2. b.f = p.f /\ p.f[1] \in Nat /\ size \in Nat
      BY <1>3, <1>4, Zenon
    <2>3. i \in Int /\ ~(3 <= i /\ i < 3 + 0)
      BY ONLY <2>2, i \in 0 .. size - 1
    <2> QED
      BY ONLY <1>6, <2>2, <2>3, i \in 0 .. size - 1, Zenon
  <1>9. IsSelf(<<>>, 0, p.f)
    BY <1>4 DEF IsSelf
  <1> QED
    BY <1>3, <1>7, <1>8, <1>9 DEF b, size

\* A call that shifts the arguments has self and the arguments, too.  If the
\* arguments of the slow way come from another place, there are as many of them
\* as parameters, and they take the fast way.
LEMMA EnterShiftedFacts ==
    ASSUME NEW m, IsPrepared(m), NEW c, CountIs(m.argc, c), NEW s \in {0, 1}, c + s < VarArgFlag,
           NEW self, self = [n \in 1 .. s |-> self[n]], IsSelf(self, s, m.f),
           NEW all, NEW count, HasArgs(m, all, count), NEW total, AfterSelf(total, self, s, all, count),
           NEW T, T = s + count,
           NEW frame, frame = <<>> \/ (m.argc + s = m.f[2] /\ ~HasFlag(m.argc + s))
    PROVE  IsEntered(EnterShifted(m, self, frame), m.f, total, T)
  <1> DEFINE p == Shifted(m, self)
             b == NewFrame(p)
             size == FrameSize(p.f)
             slow == IF frame = <<>> THEN p.src ELSE [i \in DOMAIN p.src |-> frame[i]]
             a == StoreArguments(b, 3, slow)
  <1>1. EnterShifted(m, self, frame) = a
    <2>1. CallRec(m)
      BY DEF IsPrepared
    <2> DEFINE args == self \o SrcItems(m, 0, NoFlag(m.argc))
               src == [i \in 0 .. Len(args) - 1 |-> args[i + 1]]
    <2>2. p.src = src
      BY <2>1 DEF Shifted, CallRec, CallFields
    <2>3. p = [m EXCEPT !.src = src, !.ip = [i \in 1 .. Len(args) |-> i - 1], !.argc = @ + Len(self)]
      BY DEF Shifted
    <2>4. EnterShifted(m, self, frame) =
            StoreArguments(NewFrame([m EXCEPT !.src = src, !.ip = [i \in 1 .. Len(args) |-> i - 1], !.argc = @ + Len(self)]),
                           3, IF frame = <<>> THEN src ELSE [i \in DOMAIN src |-> frame[i]])
      BY DEF EnterShifted
    <2> HIDE DEF p, args, src
    <2> QED
      BY ONLY <2>2, <2>3, <2>4
  <1>2. IsShifted(m, p, self, s, c)
    BY ShiftedFacts, Zenon DEF IsPrepared
  <1> HIDE DEF p
  <1>3. IsPrepared(p) /\ p.f = m.f /\ p.argc = m.argc + s
    BY <1>2 DEF IsShifted, IsPrepared
  <1>4. HasArgs(p, total, T)
    <2>1. IsReadable(m.argc, c, s) /\ c \in Nat
      BY CountFacts DEF CountIs
    <2>2. /\ s \in {0, 1} /\ IsSelf(self, s, m.f)
          /\ HasArgs(m, all, count) /\ AfterSelf(total, self, s, all, count) /\ T = s + count
      OBVIOUS
    <2> QED
      BY ONLY <1>2, <2>1, <2>2, ShiftedArgs
  <1>5. /\ SameCall(p, b) /\ ArgsReady(b, size, 3, p.f[1], p.f[2])
        /\ SelfIn(b, b, size, <<>>) /\ IsSelf(<<>>, 0, p.f)
    BY <1>3, NewFrameReady
  <1> HIDE DEF b
  <1>6. HasArgs(b, total, T) /\ b.f = m.f /\ b.src = p.src /\ b.argc = m.argc + s
    <2>1. HasArgs(b, total, T)
      BY <1>4, <1>5, SameArgs
    <2> QED
      BY <1>3, <1>5, <2>1 DEF SameCall
  <1>7. IsArity(m.f) /\ m.f[1] \in Nat /\ m.f[2] \in Nat
    BY DEF IsPrepared, IsArity
  <1>8. slow = b.src \/ (b.argc = m.f[2] /\ ~HasFlag(b.argc))
    BY <1>6
  <1> HIDE DEF slow, size
  <1>9. ArgsStored(b, a, size, 3, m.f[1], m.f[2], total, T)
    <2>1. m.f[1] = b.f[1] - (3 - 3) /\ m.f[2] = b.f[2] - (3 - 3) /\ 3 \in Nat
      BY <1>6, <1>7
    <2> DEFINE first == 3
               min == m.f[1]
               max == m.f[2]
    <2>2. /\ first \in Nat /\ min = b.f[1] - (first - 3) /\ max = b.f[2] - (first - 3)
          /\ ArgsReady(b, size, first, min, max)
          /\ slow = b.src \/ (b.argc = max /\ ~HasFlag(b.argc))
      BY <1>3, <1>5, <1>8, <2>1
    <2> HIDE DEF first, min, max
    <2>3. ArgsStored(b, StoreArguments(b, first, slow), size, first, min, max, total, T)
      BY ONLY <1>6, <2>2, StoreArgumentsFacts, Zenon
    <2> QED
      BY <2>3 DEF first, min, max
  <1> HIDE DEF a
  <1>10. IsEntered(a, m.f, total, T)
    <2> DEFINE none == <<>>
               z == 0
               first == 3
               min == m.f[1]
               max == m.f[2]
    <2>1. /\ z \in {0, 1} /\ IsSelf(none, z, m.f) /\ SelfIn(b, b, size, none)
          /\ size = FrameSize(m.f) /\ T \in Nat /\ T = z + T
          /\ first = 3 + z /\ min = m.f[1] - z /\ max = m.f[2] - z
          /\ ArgsStored(b, a, size, first, min, max, total, T)
      <3>1. T \in Nat
        BY <1>4 DEF HasArgs
      <3> QED
        BY <1>3, <1>5, <1>7, <1>9, <3>1 DEF size
    <2>2. AfterSelf(total, none, z, total, T)
      <3>1. T \in Nat
        BY <2>1
      <3> QED
        BY <3>1 DEF AfterSelf
    <2> HIDE DEF none, z, first, min, max
    <2> QED
      BY ONLY <1>6, <1>7, <2>1, <2>2, EnteredFromStored, Zenon
  <1> QED
    BY <1>1, <1>10

\* Such a call fails if what follows * is not a sequence.
LEMMA EnterShiftedBad ==
    ASSUME NEW m, IsPrepared(m), NEW c, CountIs(m.argc, c), NEW s \in {0, 1}, c + s < VarArgFlag,
           NEW self, self = [n \in 1 .. s |-> self[n]], BadStar(m)
    PROVE  HasFailed(EnterShifted(m, self, <<>>), "TypeError")
  <1> DEFINE p == Shifted(m, self)
             b == NewFrame(p)
             size == FrameSize(p.f)
  <1>1. EnterShifted(m, self, <<>>) = StoreArguments(b, 3, p.src)
    BY Zenon DEF EnterShifted, Shifted, IsPrepared, CallRec, CallFields
  <1>2. IsShifted(m, p, self, s, c)
    BY ShiftedFacts, Zenon DEF IsPrepared
  <1> HIDE DEF p
  <1>3. IsPrepared(p) /\ p.f = m.f /\ p.argc = m.argc + s
    BY <1>2 DEF IsShifted, IsPrepared
  <1>4. BadStar(p)
    <2>1. IsReadable(m.argc, c, s)
      BY CountFacts
    <2>2. HasFlag(m.argc) /\ c \in Nat /\ SrcItem(m, StarCount(m))[1] # "seq"
      BY DEF BadStar, CountIs
    <2>3. HasFlag(p.argc) /\ c > 0 /\ StarCount(m) = c - 1 /\ StarCount(p) = s + c - 1
      BY <1>3, <2>1, <2>2 DEF IsReadable, StarCount
    <2>4. c \in 1 .. c
      BY <2>2, <2>3
    <2>5. SrcItem(p, s + c - 1) = SrcItem(m, c - 1)
      BY <1>2, <2>4 DEF IsShifted
    <2> QED
      BY ONLY <2>2, <2>3, <2>5 DEF BadStar
  <1>5. SameCall(p, b) /\ ArgsReady(b, size, 3, p.f[1], p.f[2])
    BY <1>3, NewFrameReady
  <1> HIDE DEF b, size
  <1>6. BadStar(b) /\ b.f = p.f /\ b.src = p.src
    BY <1>4, <1>5, SameArgs DEF SameCall
  <1>7. p.f[1] \in Nat /\ p.f[2] \in Nat
    BY <1>3 DEF IsPrepared, IsArity
  <1>8. HasFailed(StoreArguments(b, 3, b.src), "TypeError")
    <2> DEFINE first == 3
               min == p.f[1]
               max == p.f[2]
    <2>1. /\ first \in Nat /\ min = b.f[1] - (first - 3) /\ max = b.f[2] - (first - 3)
          /\ ArgsReady(b, size, first, min, max)
      BY <1>5, <1>6, <1>7
    <2> HIDE DEF first, min, max
    <2>2. LET a == StoreArguments(b, first, b.src)
          IN a.top = FALSE /\ a.err = "TypeError"
      BY ONLY <1>6, <2>1, StoreArgumentsBad, Zenon
    <2> QED
      BY <2>2 DEF first, HasFailed
  <1> QED
    BY <1>1, <1>6, <1>8

(***************************************************************************)
(* Finding what is called.                                                 *)
(***************************************************************************)
AllRoutes == {"op", "opm", "operator", "value", "member", "indirect", "indirectm"}

\* The function with the right self is found, or the right error is raised.
FindsValue(u, w) ==
    /\ u = [err |-> u.err, f |-> u.f, self |-> u.self, drop |-> FALSE]
    /\ \/ u.err # "none" /\ u.err \in w.errs
       \/ /\ u.err = "none" /\ w.errs = {} /\ w.f = u.f /\ w.self = u.self /\ IsArity(u.f)
          /\ u.self = <<>> \/ (u.self = <<Instance>> /\ u.f[1] > 0)

\* What the functions of a module look like.
LEMMA ArityOfFunction ==
    ASSUME NEW f \in ClArities
    PROVE  IsArity(f)
  BY CallsOK DEF IsArity

\* The kinds of the values that are called.
LEMMA CalleeKinds ==
    ASSUME NEW v \in Callees
    PROVE  \/ v.k = "function" /\ v.f \in ClArities
           \/ v.k \in {"type", "method", "instance"} /\ v.f \in Methods
           \/ v.k \in {"interface", "plain", "other"}
  BY DEF Callees, Callables

\* Calling a value, except an interface that is not called as it should.
LEMMA ValueFacts ==
    ASSUME NEW v \in Callees, NEW route \in AllRoutes,
           v.k = "interface" => route \in {"op", "opm", "value", "member"}
    PROVE  FindsValue(CalledFunction(route, v), CalledValue(v))
  <1> DEFINE u == CalledFunction(route, v)
             w == CalledValue(v)
  <1>1. CASE v.k = "function" /\ v.f \in ClArities
    <2>1. u = ClFound(v.f, <<>>) /\ w = [f |-> v.f, self |-> <<>>, errs |-> {}]
      BY <1>1 DEF CalledFunction, CalledValue
    <2>2. IsArity(v.f)
      BY <1>1, ArityOfFunction
    <2> HIDE DEF u, w
    <2> QED
      BY <2>1, <2>2 DEF ClFound, FindsValue, u, w
  <1>2. CASE v.k \in {"type", "method", "instance"} /\ v.f \in Methods
    <2>1. u = ClFound(v.f, <<Instance>>)
      BY <1>2 DEF CalledFunction
    <2>2. w = [f |-> v.f, self |-> <<Instance>>, errs |-> {}]
      BY <1>2 DEF CalledValue
    <2>3. v.f \in ClArities /\ v.f[1] > 0
      BY <1>2 DEF Methods
    <2>4. IsArity(v.f)
      BY <2>3, ArityOfFunction
    <2> HIDE DEF u, w
    <2> QED
      BY <2>1, <2>2, <2>3, <2>4 DEF ClFound, FindsValue, u, w
  <1>3. CASE v.k = "interface"
    <2>1. u = NotFound("ValueError") /\ w = [errs |-> {"ValueError"}]
      BY <1>3 DEF CalledFunction, CalledValue
    <2> HIDE DEF u, w
    <2> QED
      BY <2>1 DEF NotFound, FindsValue, u, w
  <1>4. CASE v.k = "plain"
    <2>1. u = NotFound("TypeError") \/ u = NotFound("MemberError")
      BY <1>4 DEF CalledFunction
    <2>2. w = [errs |-> {"TypeError", "MemberError"}]
      BY <1>4 DEF CalledValue
    <2> HIDE DEF u, w
    <2> QED
      BY <2>1, <2>2 DEF NotFound, FindsValue, u, w
  <1>5. CASE v.k = "other"
    <2>1. u = NotFound("TypeError")
      BY <1>5 DEF CalledFunction
    <2>2. w = [errs |-> {"TypeError", "MemberError"}]
      BY <1>5 DEF CalledValue
    <2> HIDE DEF u, w
    <2> QED
      BY <2>1, <2>2 DEF NotFound, FindsValue, u, w
  <1> QED
    BY <1>1, <1>2, <1>3, <1>4, <1>5, CalleeKinds

\* A call that can be made, none of those that IsDeviation names.
IsCall(call) ==
    /\ call.route \in AllRoutes /\ call.n \in 0 .. ClMaxArgs /\ call.star \in BOOLEAN /\ call.room \in BOOLEAN
    /\ IsMemberRoute(call.route) => call.callee \in Members
    /\ ~IsMemberRoute(call.route) => call.callee \in Callees
    /\ call.star => call.n > 0 /\ (call.seq = Arg(0) \/ \E len \in Nat : call.seq = Sequence(len))
    /\ call.route = "operator" => ~call.star
    /\ ~IsDeviation(call)

\* The object is an argument, unless it is left out.
Objects(call, found) ==
    IF IsMemberRoute(call.route) /\ ~found.drop /\ ~(call.route = "indirectm" /\ found.self # <<>>) THEN 1 ELSE 0

\* With d times the object as an argument and s times a self, the function is
\* called with the self that it should have.
FindsFunction(call, found, c, s, d) ==
    /\ found.err = "none" /\ c.errs = {} /\ c.f = found.f /\ IsArity(found.f)
    /\ s \in {0, 1} /\ d \in {0, 1} /\ (d = 1 => s = 0)
    /\ d = Objects(call, found)
    /\ found.self = [n \in 1 .. s |-> found.self[n]] /\ IsSelf(found.self, s, found.f)
    /\ c.self = IF d = 1 THEN <<Object>> ELSE found.self
    /\ found.drop \in BOOLEAN /\ (found.drop => IsMemberRoute(call.route))

Finds(call, found, c) ==
    \/ found.err # "none" /\ found.err \in c.errs
    \/ \E s, d : FindsFunction(call, found, c, s, d)

\* A function that is found for a value, with the object left out if it is the
\* value of a member, is the one to be called.
LEMMA ValueIsFound ==
    ASSUME NEW call, NEW u, NEW w, FindsValue(u, w), NEW found, NEW drop \in BOOLEAN,
           found = [u EXCEPT !.drop = drop], drop <=> IsMemberRoute(call.route)
    PROVE  Finds(call, found, w)
  <1>1. found = [err |-> u.err, f |-> u.f, self |-> u.self, drop |-> drop]
    <2>1. u = [err |-> u.err, f |-> u.f, self |-> u.self, drop |-> FALSE]
      BY DEF FindsValue
    <2> QED
      BY <2>1
  <1>2. CASE u.err # "none" /\ u.err \in w.errs
    BY <1>1, <1>2 DEF Finds
  <1>3. CASE /\ u.err = "none" /\ w.errs = {} /\ w.f = u.f /\ w.self = u.self /\ IsArity(u.f)
             /\ u.self = <<>> \/ (u.self = <<Instance>> /\ u.f[1] > 0)
    <2>1. Objects(call, found) = 0
      BY <1>1 DEF Objects
    <2>2. u.f[1] \in Nat
      BY <1>3 DEF IsArity
    <2>3. CASE u.self = <<>>
      <3>1. FindsFunction(call, found, w, 0, 0)
        BY <1>1, <1>3, <2>1, <2>2, <2>3 DEF FindsFunction, IsSelf
      <3> QED
        BY <3>1 DEF Finds
    <2>4. CASE u.self = <<Instance>> /\ u.f[1] > 0
      <3>1. Instance # Stale
        BY DEF Instance, Stale
      <3>2. Len(<<Instance>>) = 1 /\ <<Instance>>[1] = Instance
        OBVIOUS
      <3>3. IsSelf(<<Instance>>, 1, u.f)
        BY <2>2, <2>4, <3>1, <3>2 DEF IsSelf
      <3>4. <<Instance>> = [n \in 1 .. 1 |-> <<Instance>>[n]]
        OBVIOUS
      <3>5. FindsFunction(call, found, w, 1, 0)
        BY <1>1, <1>3, <2>1, <2>2, <2>4, <3>3, <3>4 DEF FindsFunction
      <3> QED
        BY <3>5 DEF Finds
    <2> QED
      BY <1>3, <2>3, <2>4
  <1> QED
    BY <1>2, <1>3 DEF FindsValue

\* The kinds of members.
LEMMA MemberKinds ==
    ASSUME NEW x \in Members
    PROVE  \/ x.k = "method" /\ x.f \in Methods /\ x.of \in {"instance", "primitive"}
           \/ x.k \in {"slot", "accessor"} /\ x.v \in Callees /\ x.of = "instance"
           \/ x.k \in {"raises", "none"}
  BY DEF Members

\* A method is found, with the object as an argument or v by itself.
FindsMethod(call, found, f, v) ==
    \/ found = ClFound(f, <<>>) /\ call.route # "indirectm" /\ v = Object
    \/ found = ClFound(f, <<v>>) /\ call.route = "indirectm"
IsMethod(c, f, v) == c = [f |-> f, errs |-> {}, self |-> <<v>>]

\* A method takes the object or its wrapper as self.
LEMMA MethodIsFound ==
    ASSUME NEW call, IsMemberRoute(call.route), NEW f \in Methods, NEW v \in {Object, Wrapper},
           NEW found, FindsMethod(call, found, f, v), NEW c, IsMethod(c, f, v)
    PROVE  Finds(call, found, c)
  <1>1. IsArity(f) /\ f[1] \in Nat /\ f[1] > 0
    <2>1. f \in ClArities /\ f[1] > 0
      BY DEF Methods
    <2> QED
      BY <2>1, ArityOfFunction DEF IsArity
  <1>2. c.f = f /\ c.self = <<v>> /\ c.errs = {}
    BY DEF IsMethod
  <1>3. CASE found = ClFound(f, <<>>) /\ call.route # "indirectm" /\ v = Object
    <2>1. found.err = "none" /\ found.f = f /\ found.self = <<>> /\ found.drop = FALSE
      BY <1>3 DEF ClFound
    <2>2. Objects(call, found) = 1
      BY <1>3, <2>1 DEF Objects
    <2>3. IsSelf(<<>>, 0, f) /\ <<>> = [n \in 1 .. 0 |-> <<>>[n]]
      BY <1>1 DEF IsSelf
    <2>4. FindsFunction(call, found, c, 0, 1)
      BY ONLY <1>1, <1>2, <1>3, <2>1, <2>2, <2>3, Zenon DEF FindsFunction
    <2> QED
      BY <2>4 DEF Finds
  <1>4. CASE found = ClFound(f, <<v>>) /\ call.route = "indirectm"
    <2>1. found.err = "none" /\ found.f = f /\ found.self = <<v>> /\ found.drop = FALSE
      BY <1>4 DEF ClFound
    <2>2. <<v>> # <<>>
      OBVIOUS
    <2>3. Objects(call, found) = 0
      BY <1>4, <2>1, <2>2 DEF Objects
    <2>4. v # Stale
      BY DEF Object, Wrapper, Stale
    <2>5. IsSelf(<<v>>, 1, f) /\ <<v>> = [n \in 1 .. 1 |-> <<v>>[n]]
      BY <1>1, <2>4 DEF IsSelf
    <2>6. FindsFunction(call, found, c, 1, 0)
      <3>1. c.self = IF 0 = 1 THEN <<Object>> ELSE found.self
        BY ONLY <1>2, <2>1
      <3>2. 1 \in {0, 1} /\ 0 \in {0, 1} /\ (0 = 1 => 1 = 0) /\ FALSE \in BOOLEAN
        OBVIOUS
      <3> QED
        BY ONLY <1>1, <1>2, <2>1, <2>3, <2>5, <3>1, <3>2, Zenon DEF FindsFunction
    <2> QED
      BY <2>6 DEF Finds
  <1> QED
    BY <1>3, <1>4 DEF FindsMethod

\* ClFind finds what should be called.
LEMMA FindFacts ==
    ASSUME NEW call, IsCall(call)
    PROVE  Finds(call, ClFind(call), Called1(call))
  <1> DEFINE found == ClFind(call)
             c == Called1(call)
             x == call.callee
  <1>1. /\ call.route \in AllRoutes
        /\ IsMemberRoute(call.route) => x \in Members /\ x.k # "raises"
        /\ ~IsMemberRoute(call.route) => x \in Callees
        /\ call.route \in {"operator", "indirect", "indirectm"} => x.k # "interface"
        /\ call.route \in {"operator", "indirect", "indirectm"} /\ x.k \in {"slot", "accessor"} => x.v.k # "interface"
    BY DEF IsCall, IsDeviation
  <1>2. CASE ~IsMemberRoute(call.route)
    <2>1. call.route \in {"op", "value", "indirect"}
      BY <1>1, <1>2 DEF AllRoutes, IsMemberRoute
    <2>2. found = CalledFunction(call.route, x)
      BY <2>1 DEF ClFind
    <2>3. c = CalledValue(x)
      BY <1>2 DEF Called1
    <2>4. x.k = "interface" => call.route \in {"op", "opm", "value", "member"}
      BY <1>1, <2>1
    <2>5. x \in Callees
      BY <1>1, <1>2
    <2> HIDE DEF found, c, x
    <2>6. FindsValue(found, c)
      BY <1>1, <2>2, <2>3, <2>4, <2>5, ValueFacts
    <2>7. found = [found EXCEPT !.drop = FALSE]
      <3>1. found = [err |-> found.err, f |-> found.f, self |-> found.self, drop |-> FALSE]
        BY <2>6 DEF FindsValue
      <3> QED
        BY ONLY <3>1
    <2>8. Finds(call, found, c)
      BY <1>2, <2>6, <2>7, ValueIsFound, Zenon
    <2> QED
      BY <2>8 DEF found, c
  <1>3. CASE IsMemberRoute(call.route) /\ x.k = "method"
    <2>1. x.f \in Methods /\ x.of \in {"instance", "primitive"}
      BY <1>1, <1>3, MemberKinds
    <2>2. MemberFunction("operator", x) = ClFound(x.f, <<>>) /\ MemberFunction(call.route, x) = ClFound(x.f, <<>>)
      BY <1>3, <2>1 DEF MemberFunction
    <2>3. CASE x.of = "primitive" /\ call.route = "operator"
      <3>1. found = NotFound("TypeError")
        BY <2>3 DEF ClFind, MethodCall
      <3>2. c = [errs |-> {"TypeError"}]
        BY <1>3, <2>3 DEF Called1
      <3>3. found.err = "TypeError" /\ c.errs = {"TypeError"}
        BY <3>1, <3>2 DEF NotFound
      <3> HIDE DEF found, c
      <3>4. Finds(call, found, c)
        BY <3>3 DEF Finds
      <3> QED
        BY <3>4 DEF found, c
    <2>4. CASE ~(x.of = "primitive" /\ call.route = "operator")
      <3> DEFINE v == IF call.route = "indirectm" THEN AWrapObject(x) ELSE Object
      <3>1. c = [f |-> x.f, errs |-> {}, self |-> <<v>>]
        BY <1>3, <2>4 DEF Called1
      <3>v. v \in {Object, Wrapper} /\ (call.route # "indirectm" => v = Object)
        BY DEF AWrapObject
      <3>2. call.route = "operator" => found = ClFound(x.f, <<>>)
        BY <2>1, <2>2, <2>4 DEF ClFind, MethodCall
      <3>3. call.route = "indirectm" => found = ClFound(x.f, <<v>>)
        BY <1>3 DEF ClFind, ACallMethodIndirect
      <3>4. call.route \in {"opm", "member"} => found = ClFound(x.f, <<>>)
        BY <2>2 DEF ClFind
      <3>5. call.route \in {"opm", "operator", "member", "indirectm"}
        BY <1>3 DEF IsMemberRoute
      <3> HIDE DEF found, c, x, v
      <3>6. FindsMethod(call, found, x.f, v) /\ IsMethod(c, x.f, v)
        BY ONLY <3>1, <3>v, <3>2, <3>3, <3>4, <3>5 DEF FindsMethod, IsMethod
      <3>7. Finds(call, found, c)
        BY ONLY <1>3, <2>1, <3>v, <3>6, MethodIsFound
      <3> QED
        BY <3>7 DEF found, c
    <2> QED
      BY <2>3, <2>4
  <1>4. CASE IsMemberRoute(call.route) /\ x.k \in {"slot", "accessor"}
    <2>1. x.v \in Callees /\ x.of = "instance"
      BY <1>1, <1>4, MemberKinds
    <2>2. MemberFunction(call.route, x) = [CalledFunction(call.route, x.v) EXCEPT !.drop = TRUE]
      BY <1>4, <2>1 DEF MemberFunction
    <2>3. call.route \in {"opm", "operator", "member", "indirectm"}
      BY <1>4 DEF IsMemberRoute
    <2>4. found = MemberFunction(call.route, x)
      <3>1. CASE call.route = "operator"
        BY <2>1, <3>1 DEF ClFind, MethodCall
      <3>2. CASE call.route = "indirectm"
        BY <1>4, <3>2 DEF ClFind, ACallMethodIndirect
      <3>3. CASE call.route \in {"opm", "member"}
        BY <3>3 DEF ClFind
      <3> QED
        BY <2>3, <3>1, <3>2, <3>3
    <2>5. c = CalledValue(x.v)
      BY <1>4, Zenon DEF Called1
    <2>6. x.v.k = "interface" => call.route \in {"op", "opm", "value", "member"}
      BY <1>1, <1>4, <2>3
    <2> DEFINE u == CalledFunction(call.route, x.v)
    <2>7. FindsValue(u, c)
      BY <1>1, <2>1, <2>5, <2>6, ValueFacts
    <2>8. found = [u EXCEPT !.drop = TRUE]
      BY ONLY <2>2, <2>4
    <2> HIDE DEF found, c, x, u
    <2>9. Finds(call, found, c)
      <3>1. TRUE <=> IsMemberRoute(call.route)
        BY <1>4
      <3> QED
        BY ONLY <2>7, <2>8, <3>1, ValueIsFound, Zenon
    <2> QED
      BY <2>9 DEF found, c
  <1>5. CASE IsMemberRoute(call.route) /\ x.k = "none"
    <2>1. c = [errs |-> {"MemberError", "TypeError"}]
      BY <1>5 DEF Called1
    <2>2. call.route \in {"opm", "operator", "member", "indirectm"}
      BY <1>5 DEF IsMemberRoute
    <2>3. \A r : MemberFunction(r, x) = NotFound("MemberError")
      BY <1>5 DEF MemberFunction
    <2>4. found = NotFound("MemberError") \/ found = NotFound("TypeError")
      BY <1>5, <2>2, <2>3 DEF ClFind, MethodCall, ACallMethodIndirect
    <2>5. found.err \in {"MemberError", "TypeError"} /\ c.errs = {"MemberError", "TypeError"}
      BY <2>1, <2>4 DEF NotFound
    <2> HIDE DEF found, c
    <2>6. Finds(call, found, c)
      BY <2>5 DEF Finds
    <2> QED
      BY <2>6 DEF found, c
  <1> QED
    BY <1>1, <1>2, <1>3, <1>4, <1>5, MemberKinds

(***************************************************************************)
(* The arguments of a call.                                                *)
(***************************************************************************)
\* The argument j of the caller, and what the callee should get for it.
GivenArg(call, j) == IF call.star /\ j = call.n THEN call.seq ELSE Arg(j)

\* The caller's frame has the o objects and then the arguments from slot 3 on.
LEMMA CallerFrameFacts ==
    ASSUME NEW call, IsCall(call), NEW o \in {0, 1}, o = 1 <=> IsMemberRoute(call.route)
    PROVE  \A j \in 1 .. o + call.n : CallerFrame(call)[j + 2] = IF j <= o THEN Object ELSE GivenArg(call, j - o)
  <1> DEFINE n == call.n
             object == IF IsMemberRoute(call.route) THEN <<Object>> ELSE <<>>
             given == [k \in 1 .. n |-> IF call.star /\ k = n THEN call.seq ELSE Arg(k)]
             args == object \o given
  <1>1. n \in Nat
    BY CallsOK DEF IsCall
  <1>2. object = [k \in 1 .. o |-> object[k]] /\ \A k \in 1 .. o : object[k] = Object
    <2>1. CASE o = 1
      <3>1. object = <<Object>>
        BY <2>1
      <3>2. <<Object>> = [k \in 1 .. 1 |-> <<Object>>[k]] /\ <<Object>>[1] = Object
        OBVIOUS
      <3> HIDE DEF object
      <3> QED
        BY <2>1, <3>1, <3>2
    <2>2. CASE o = 0
      <3>1. object = <<>>
        BY <2>2
      <3> HIDE DEF object
      <3> QED
        BY <2>2, <3>1
    <2> QED
      BY <2>1, <2>2
  <1>3. given = [k \in 1 .. n |-> given[k]] /\ \A k \in 1 .. n : given[k] = GivenArg(call, k)
    BY DEF GivenArg
  <1>4. CallerFrame(call) = [i \in 0 .. Len(args) + 2 |-> IF i < 3 THEN <<"caller", i>> ELSE args[i - 2]]
    BY DEF CallerFrame
  <1> HIDE DEF object, given, n
  <1>5. args = [k \in 1 .. o + n |-> IF k <= o THEN object[k] ELSE given[k - o]]
    <2>1. o \in Nat
      OBVIOUS
    <2> QED
      BY ONLY <1>1, <1>2, <1>3, <2>1, ConcatSeqs
  <1>6. Len(args) = o + n
    <2>1. o + n \in Nat /\ args = [k \in 1 .. o + n |-> args[k]]
      BY <1>1, <1>5
    <2> HIDE DEF args
    <2> QED
      BY ONLY <2>1, FcnIsSeq
  <1> HIDE DEF args
  <1>7. ASSUME NEW j \in 1 .. o + n
        PROVE  CallerFrame(call)[j + 2] = IF j <= o THEN Object ELSE GivenArg(call, j - o)
    <2>1. j + 2 \in 0 .. Len(args) + 2 /\ ~(j + 2 < 3) /\ j + 2 - 2 = j
      BY <1>1, <1>6
    <2>2. CallerFrame(call)[j + 2] = args[j]
      BY ONLY <1>4, <2>1
    <2>3. CASE j <= o
      <3>1. j \in 1 .. o
        BY <1>1, <2>3
      <3>2. args[j] = object[j]
        BY ONLY <1>5, <2>3, j \in 1 .. o + n
      <3> QED
        BY ONLY <1>2, <2>2, <2>3, <3>1, <3>2
    <2>4. CASE ~(j <= o)
      <3>1. j - o \in 1 .. n
        BY <1>1, <2>4
      <3>2. args[j] = given[j - o]
        BY ONLY <1>5, <2>4, j \in 1 .. o + n
      <3> QED
        BY ONLY <1>3, <2>2, <2>4, <3>1, <3>2
    <2> QED
      BY <2>3, <2>4
  <1> QED
    BY <1>7 DEF n

\* m is the state before the frame: d times the object, and the arguments.
HasPrepared(call, found, d, m) ==
    /\ IsPrepared(m) /\ m.f = found.f /\ m.top = FALSE
    /\ CountIs(m.argc, call.n + d)
    /\ m.argc = call.n + d + (IF call.star THEN VarArgFlag ELSE 0)
    /\ \A k \in 1 .. call.n + d : SrcItem(m, k - 1) = IF k <= d THEN Object ELSE GivenArg(call, k - d)

\* Prepared makes this state.
LEMMA PreparedFacts ==
    ASSUME NEW call, IsCall(call), NEW found, NEW c, NEW s, NEW d, FindsFunction(call, found, c, s, d)
    PROVE  HasPrepared(call, found, d, Prepared(call, found))
  <1> DEFINE m == Prepared(call, found)
             o == IF IsMemberRoute(call.route) THEN 1 ELSE 0
             skip == IF found.drop \/ (call.route = "indirectm" /\ found.self # <<>>) THEN 1 ELSE 0
             n == call.n
  <1>1. n \in Nat /\ VarArgFlag \in Nat /\ call.star \in BOOLEAN /\ (call.star => n > 0)
    BY CallsOK DEF IsCall
  <1>2. /\ d \in {0, 1} /\ d = Objects(call, found) /\ found.err = "none" /\ IsArity(found.f)
        /\ found.drop \in BOOLEAN /\ (found.drop => IsMemberRoute(call.route))
    BY DEF FindsFunction
  <1>3. o \in {0, 1} /\ skip \in {0, 1} /\ o - skip = d /\ (o = 1 <=> IsMemberRoute(call.route))
    <2>1. call.route = "indirectm" => IsMemberRoute(call.route)
      BY DEF IsMemberRoute
    <2> QED
      BY <1>2, <2>1 DEF Objects
  <1>4. m = [src |-> CallerFrame(call), ip |-> [i \in 1 .. (n + o) - skip |-> 2 + i + skip],
             argc |-> (n + o) - skip + (IF call.star THEN VarArgFlag ELSE 0), f |-> found.f, frame |-> <<>>,
             top |-> FALSE, unsafe |-> MovesTooMuch(call), err |-> found.err]
    BY DEF Prepared
  <1>u. MovesTooMuch(call) = FALSE
    BY DEF IsCall, IsDeviation, MovesTooMuch
  <1> HIDE DEF o, skip, n, m
  <1>5. (n + o) - skip = n + d
    BY <1>1, <1>2, <1>3
  <1>6. /\ m.src = CallerFrame(call) /\ m.ip = [i \in 1 .. n + d |-> 2 + i + skip]
        /\ m.f = found.f /\ m.top = FALSE /\ m.unsafe = FALSE /\ m.err = "none"
    BY ONLY <1>2, <1>4, <1>5, <1>u
  <1>7. m.argc = n + d + (IF call.star THEN VarArgFlag ELSE 0)
    BY ONLY <1>4, <1>5
  <1>8. CallRec(m)
    BY ONLY <1>4, Zenon DEF CallRec, CallFields
  <1>9. IsPrepared(m)
    BY ONLY <1>2, <1>6, <1>8 DEF IsPrepared
  <1>10. CountIs(m.argc, n + d)
    BY <1>1, <1>2, <1>7 DEF CountIs
  <1>11. ASSUME NEW k \in 1 .. n + d PROVE SrcItem(m, k - 1) = IF k <= d THEN Object ELSE GivenArg(call, k - d)
    <2> DEFINE j == k + skip
    <2>1. /\ j \in 1 .. o + n /\ k - 1 + 1 = k /\ 2 + k + skip = j + 2
          /\ (j <= o <=> k <= d) /\ j - o = k - d
      BY <1>1, <1>2, <1>3
    <2>2. SrcItem(m, k - 1) = CallerFrame(call)[j + 2]
      <3>1. SrcItem(m, k - 1) = m.src[m.ip[k - 1 + 1]]
        BY DEF SrcItem
      <3>2. m.ip[k] = 2 + k + skip
        BY ONLY <1>6, k \in 1 .. n + d
      <3> QED
        BY ONLY <1>6, <2>1, <3>1, <3>2
    <2> HIDE DEF j
    <2>3. CallerFrame(call)[j + 2] = IF j <= o THEN Object ELSE GivenArg(call, j - o)
      BY <1>3, <2>1, CallerFrameFacts DEF n
    <2> QED
      BY ONLY <2>1, <2>2, <2>3
  <1> QED
    BY <1>6, <1>7, <1>9, <1>10, <1>11 DEF HasPrepared, m, n

\* all has the A arguments of a call whose last argument has len items if it
\* is a sequence.
IsMeant(call, all, A, len) ==
    /\ A \in Nat /\ all = [k \in 1 .. A |-> all[k]]
    /\ ~call.star => A = call.n /\ \A k \in 1 .. A : all[k] = Arg(k)
    /\ call.star => /\ A = (call.n - 1) + len
                    /\ \A k \in 1 .. call.n - 1 : all[k] = Arg(k)
                    /\ \A k \in 1 .. len : all[(call.n - 1) + k] = ItemArg(k)

\* AllArguments, one by one.
LEMMA AllArgumentsFacts ==
    ASSUME NEW call, IsCall(call), NEW len \in Nat, call.star => call.seq = Sequence(len)
    PROVE  \E A \in Nat : IsMeant(call, AllArguments(call), A, len)
  <1> DEFINE n == call.n
             all == AllArguments(call)
             given == [k \in 1 .. n |-> Arg(k)]
  <1>1. n \in Nat /\ call.star \in BOOLEAN /\ (call.star => n > 0)
    BY CallsOK DEF IsCall
  <1>2. CASE ~call.star
    <2>1. all = given
      BY <1>2 DEF AllArguments
    <2> HIDE DEF all
    <2>2. IsMeant(call, all, n, len)
      BY <1>1, <1>2, <2>1 DEF IsMeant
    <2> QED
      BY <1>1, <2>2 DEF all
  <1>3. CASE call.star
    <2> DEFINE b == n - 1
               t == [i \in 1 .. len |-> ItemArg(i)]
               r == SubSeq(given, 1, b)
    <2>1. b \in Nat /\ b \in 0 .. n
      BY <1>1, <1>3
    <2>2. call.seq[2] = t
      BY <1>3 DEF Sequence
    <2>3. all = r \o t
      BY <1>3, <2>2, Zenon DEF AllArguments
    <2>4. given = [k \in 1 .. n |-> given[k]] /\ \A k \in 1 .. n : given[k] = Arg(k)
      OBVIOUS
    <2>5. t = [k \in 1 .. len |-> t[k]] /\ \A k \in 1 .. len : t[k] = ItemArg(k)
      OBVIOUS
    <2> HIDE DEF given, t, b, all
    <2>6. r = [k \in 1 .. b |-> given[k]]
      BY <1>1, <2>1, <2>4, FirstOfSeq
    <2>7. r = [k \in 1 .. b |-> r[k]] /\ \A k \in 1 .. b : r[k] = Arg(k)
      <3> HIDE DEF r
      <3>1. \A k \in 1 .. b : k \in 1 .. n
        BY <1>1, <2>1
      <3> QED
        BY ONLY <2>4, <2>6, <3>1
    <2> HIDE DEF r
    <2>8. all = [k \in 1 .. b + len |-> IF k <= b THEN r[k] ELSE t[k - b]]
      <3>1. len \in Nat
        OBVIOUS
      <3> QED
        BY ONLY <2>1, <2>3, <2>5, <2>7, <3>1, ConcatSeqs
    <2>9. b + len \in Nat /\ all = [k \in 1 .. b + len |-> all[k]]
      BY <2>1, <2>8
    <2>10. \A k \in 1 .. b : all[k] = Arg(k)
      BY <2>1, <2>7, <2>8
    <2>11. ASSUME NEW k \in 1 .. len PROVE all[b + k] = ItemArg(k)
      <3>1. b + k \in 1 .. b + len /\ ~(b + k <= b) /\ (b + k) - b = k
        BY <2>1
      <3> QED
        BY ONLY <2>5, <2>8, <3>1, k \in 1 .. len
    <2>12. IsMeant(call, all, b + len, len)
      BY <1>3, <2>9, <2>10, <2>11, Zenon DEF IsMeant, b
    <2> QED
      BY <2>9, <2>12 DEF all
  <1> QED
    BY <1>1, <1>2, <1>3

\* The values that the caller passes are not stale.
LEMMA NotStale ==
    /\ Object # Stale
    /\ \A k : Arg(k) # Stale
    /\ \A k : ItemArg(k) # Stale
  BY DEF Object, Stale, Arg, ItemArg

\* The d objects and the arguments all.
WithObject(d, all, A) == [k \in 1 .. d + A |-> IF k <= d THEN Object ELSE all[k - d]]

\* The arguments of the state before the frame are the object, if it is passed,
\* and the arguments that the caller means.
LEMMA PreparedArgs ==
    ASSUME NEW call, IsCall(call), NEW len \in Nat, call.star => call.seq = Sequence(len),
           NEW d \in {0, 1}, call.n + d < VarArgFlag,
           NEW m, m.argc = call.n + d + (IF call.star THEN VarArgFlag ELSE 0),
           \A k \in 1 .. call.n + d : SrcItem(m, k - 1) = IF k <= d THEN Object ELSE GivenArg(call, k - d),
           NEW all, NEW A, IsMeant(call, all, A, len)
    PROVE  HasArgs(m, WithObject(d, all, A), d + A)
  <1> DEFINE n == call.n
             w == WithObject(d, all, A)
             T == d + A
             c == n + d
  <1>1. n \in Nat /\ call.star \in BOOLEAN /\ (call.star => n > 0) /\ VarArgFlag \in Nat
    BY CallsOK DEF IsCall
  <1>2. A \in Nat /\ T \in Nat /\ c \in Nat
    BY <1>1 DEF IsMeant
  <1>3. \A k \in 1 .. T : w[k] = IF k <= d THEN Object ELSE all[k - d]
    BY DEF WithObject
  <1>4. /\ m.argc = c + (IF call.star THEN VarArgFlag ELSE 0) /\ c < VarArgFlag
        /\ \A k \in 1 .. c : SrcItem(m, k - 1) = IF k <= d THEN Object ELSE GivenArg(call, k - d)
    OBVIOUS
  <1> HIDE DEF n, w, T, c
  <1>5. ASSUME NEW k \in 1 .. A PROVE all[k] # Stale
    <2>1. CASE ~call.star
      BY <2>1, NotStale DEF IsMeant
    <2>2. CASE call.star /\ k <= n - 1
      <3>1. k \in 1 .. n - 1
        BY <1>1, <1>2, <2>2
      <3>2. all[k] = Arg(k)
        BY <2>2, <3>1 DEF IsMeant, n
      <3> QED
        BY <3>2, NotStale
    <2>3. CASE call.star /\ ~(k <= n - 1)
      <3>1. A = (n - 1) + len /\ \A j \in 1 .. len : all[(n - 1) + j] = ItemArg(j)
        BY <2>3 DEF IsMeant, n
      <3>2. k - (n - 1) \in 1 .. len /\ (n - 1) + (k - (n - 1)) = k
        BY <1>1, <1>2, <2>3, <3>1
      <3>3. all[k] = ItemArg(k - (n - 1))
        BY ONLY <3>1, <3>2
      <3> QED
        BY <3>3, NotStale
    <2> QED
      BY <1>1, <2>1, <2>2, <2>3
  <1>6. ASSUME NEW k \in 1 .. T PROVE w[k] # Stale
    <2>1. CASE k <= d
      BY <1>3, <2>1, NotStale
    <2>2. CASE ~(k <= d)
      <3>1. k - d \in 1 .. A
        BY <1>2, <2>2 DEF T
      <3>2. w[k] = all[k - d]
        BY <1>3, <2>2
      <3> QED
        BY ONLY <1>5, <3>1, <3>2
    <2> QED
      BY <2>1, <2>2
  <1>7. ASSUME NEW b \in Nat, b <= A, b <= n, call.star => b < n, \A k \in 1 .. b : all[k] = Arg(k)
        PROVE  \A k \in 1 .. d + b : w[k] = SrcItem(m, k - 1)
    <2> SUFFICES ASSUME NEW k \in 1 .. d + b PROVE w[k] = SrcItem(m, k - 1)
      OBVIOUS
    <2>1. k \in 1 .. c /\ k \in 1 .. T /\ k \in Int
      BY <1>1, <1>2, <1>7 DEF c, T
    <2>2. /\ w[k] = IF k <= d THEN Object ELSE all[k - d]
          /\ SrcItem(m, k - 1) = IF k <= d THEN Object ELSE GivenArg(call, k - d)
      BY ONLY <1>3, <1>4, <2>1
    <2>3. CASE k <= d
      BY ONLY <2>2, <2>3
    <2>4. CASE ~(k <= d)
      <3>1. k - d \in 1 .. b /\ (call.star => k - d # n)
        BY <1>1, <1>7, <2>1, <2>4
      <3>2. all[k - d] = Arg(k - d)
        BY ONLY <1>7, <3>1
      <3>3. GivenArg(call, k - d) = Arg(k - d)
        BY <3>1 DEF GivenArg, n
      <3> QED
        BY ONLY <2>2, <2>4, <3>2, <3>3
    <2> QED
      BY <2>3, <2>4
  <1>8. CASE ~call.star
    <2>1. A = n /\ \A k \in 1 .. n : all[k] = Arg(k)
      BY <1>8 DEF IsMeant, n
    <2>2. \A k \in 1 .. d + n : w[k] = SrcItem(m, k - 1)
      BY <1>1, <1>7, <1>8, <2>1
    <2>3. m.argc = c /\ T = c /\ T = d + n
      BY <1>1, <1>2, <1>4, <1>8, <2>1 DEF T, c
    <2>4. ~HasFlag(m.argc) /\ m.argc \in Nat
      BY <1>1, <1>2, <1>4, <2>3 DEF HasFlag
    <2>5. HasArgs(m, w, T)
      BY ONLY <1>2, <1>6, <2>2, <2>3, <2>4 DEF HasArgs
    <2> QED
      BY <2>5 DEF w, T
  <1>9. CASE call.star
    <2> DEFINE b == n - 1
    <2>1. b \in Nat /\ b <= n /\ b < n /\ b + 1 = n
      BY <1>1, <1>9
    <2>2. /\ A = b + len /\ \A k \in 1 .. b : all[k] = Arg(k)
          /\ \A k \in 1 .. len : all[b + k] = ItemArg(k)
      BY <1>9, Zenon DEF IsMeant, n
    <2>3. m.argc = c + VarArgFlag
      BY <1>4, <1>9
    <2> HIDE DEF b
    <2>4. NoFlag(m.argc) = c /\ HasFlag(m.argc) /\ m.argc \in Nat
      <3>1. NoFlag(c + VarArgFlag) = c
        BY <1>2, <1>4, ModFacts
      <3>2. c + VarArgFlag >= VarArgFlag /\ c + VarArgFlag \in Nat
        BY <1>1, <1>2
      <3> QED
        BY ONLY <2>3, <3>1, <3>2 DEF HasFlag
    <2>5. StarCount(m) = d + b /\ d + b \in Nat /\ c = (d + b) + 1
      <3>1. c - 1 = d + b /\ d + b \in Nat /\ c = (d + b) + 1
        BY <1>1, <2>1 DEF c
      <3> QED
        BY ONLY <2>4, <3>1 DEF StarCount
    <2>6. SrcItem(m, d + b) = call.seq
      <3>1. c \in 1 .. c /\ ~(c <= d) /\ c - d = n /\ c - 1 = d + b
        BY <1>1, <1>2, <2>1 DEF c
      <3>2. SrcItem(m, c - 1) = GivenArg(call, n)
        BY ONLY <1>4, <3>1
      <3>3. GivenArg(call, n) = call.seq
        BY <1>9 DEF GivenArg, n
      <3> QED
        BY ONLY <3>1, <3>2, <3>3
    <2>7. call.seq = <<"seq", [i \in 1 .. len |-> ItemArg(i)]>>
      BY <1>9 DEF Sequence
    <2>8. SrcItem(m, StarCount(m))[1] = "seq" /\ StarItems(m) = [i \in 1 .. len |-> ItemArg(i)]
      BY ONLY <2>5, <2>6, <2>7 DEF StarItems
    <2>9. StarItems(m) = [i \in 1 .. len |-> StarItems(m)[i]] /\ \A k \in 1 .. len : StarItems(m)[k] = ItemArg(k)
      BY ONLY <2>8
    <2>10. \A k \in 1 .. d + b : w[k] = SrcItem(m, k - 1)
      <3>1. b <= A
        BY <2>1, <2>2
      <3> QED
        BY <1>7, <2>1, <2>2, <3>1
    <2>11. T = (d + b) + len
      BY <2>1, <2>2 DEF T
    <2>12. ASSUME NEW k \in 1 .. len PROVE w[(d + b) + k] = StarItems(m)[k]
      <3>1. (d + b) + k \in 1 .. T /\ ~((d + b) + k <= d) /\ ((d + b) + k) - d = b + k
        BY <2>1, <2>11
      <3>2. w[(d + b) + k] = all[b + k]
        BY ONLY <1>3, <3>1
      <3> QED
        BY ONLY <2>2, <2>9, <3>2, k \in 1 .. len
    <2>13. \E L \in Nat : /\ T = StarCount(m) + L
                          /\ StarItems(m) = [k \in 1 .. L |-> StarItems(m)[k]]
                          /\ \A k \in 1 .. L : w[StarCount(m) + k] = StarItems(m)[k]
      <3> WITNESS len \in Nat
      <3> QED
        BY ONLY <2>5, <2>9, <2>11, <2>12
    <2>14. \A k \in 1 .. StarCount(m) : w[k] = SrcItem(m, k - 1)
      BY ONLY <2>5, <2>10
    <2>15. HasArgs(m, w, T)
      BY ONLY <1>2, <1>6, <2>4, <2>5, <2>8, <2>13, <2>14, Zenon DEF HasArgs
    <2> QED
      BY <2>15 DEF w, T
  <1> QED
    BY <1>1, <1>8, <1>9

\* total is self, the object if it is an argument, and the arguments all.
IsTotal(total, self, s, d, all, A) ==
    /\ total = [k \in 1 .. s + (d + A) |-> total[k]]
    /\ AfterSelf(total, self, s, WithObject(d, all, A), d + A)

\* These are the self and the arguments that the caller means.
LEMMA SelfAndArguments ==
    ASSUME NEW call, NEW found, NEW c, NEW s, NEW d, FindsFunction(call, found, c, s, d),
           NEW A \in Nat, NEW all, all = [k \in 1 .. A |-> all[k]]
    PROVE  IsTotal(c.self \o all, found.self, s, d, all, A)
  <1> DEFINE total == c.self \o all
             T == s + (d + A)
             w == WithObject(d, all, A)
  <1>1. /\ s \in {0, 1} /\ d \in {0, 1} /\ (d = 1 => s = 0)
        /\ found.self = [n \in 1 .. s |-> found.self[n]]
        /\ c.self = IF d = 1 THEN <<Object>> ELSE found.self
    BY DEF FindsFunction
  <1>2. \A k \in 1 .. d + A : w[k] = IF k <= d THEN Object ELSE all[k - d]
    BY DEF WithObject
  <1> DEFINE e == s + d
             self == c.self
  <1>3. e \in Nat /\ self = [n \in 1 .. e |-> self[n]]
    <2>1. CASE d = 1
      <3>1. self = <<Object>> /\ e = 1
        BY <1>1, <2>1
      <3>2. <<Object>> = [n \in 1 .. 1 |-> <<Object>>[n]]
        OBVIOUS
      <3> HIDE DEF self, e
      <3> QED
        BY ONLY <3>1, <3>2
    <2>2. CASE d = 0
      <3>1. self = found.self /\ e = s /\ s \in Nat
        BY <1>1, <2>2
      <3> HIDE DEF self, e
      <3> QED
        BY ONLY <1>1, <3>1
    <2> QED
      BY <1>1, <2>1, <2>2
  <1>4. d = 1 => self[1] = Object
    BY <1>1
  <1>5. d = 0 => self = found.self
    BY <1>1
  <1>6. A \in Nat /\ all = [k \in 1 .. A |-> all[k]] /\ total = self \o all
    OBVIOUS
  <1> HIDE DEF self, e, total, w
  <1>7. total = [k \in 1 .. e + A |-> IF k <= e THEN self[k] ELSE all[k - e]]
    BY ONLY <1>3, <1>6, ConcatSeqs
  <1>8. e + A = T /\ T \in Nat
    BY <1>1 DEF e
  <1>9. total = [k \in 1 .. T |-> total[k]]
    BY ONLY <1>7, <1>8
  <1>10. ASSUME NEW k \in 1 .. s PROVE total[k] = found.self[k]
    <2>1. d = 0 /\ k <= e /\ k \in 1 .. e + A
      BY <1>1 DEF e
    <2> QED
      BY ONLY <1>5, <1>7, <2>1
  <1>11. ASSUME NEW k \in 1 .. d + A PROVE total[s + k] = w[k]
    <2>1. s + k \in 1 .. e + A /\ (s + k <= e <=> k <= d) /\ (s + k) - e = k - d /\ k \in Int
      BY <1>1 DEF e
    <2>2. CASE k <= d
      <3>1. d = 1 /\ k = 1 /\ s = 0 /\ s + k = 1
        BY <1>1, <2>2
      <3>2. total[s + k] = self[1]
        BY ONLY <1>7, <2>1, <2>2, <3>1
      <3> QED
        BY ONLY <1>2, <1>4, <1>11, <2>2, <3>1, <3>2
    <2>3. CASE ~(k <= d)
      <3>1. total[s + k] = all[k - d]
        BY ONLY <1>7, <2>1, <2>3
      <3> QED
        BY ONLY <1>2, <1>11, <2>3, <3>1
    <2> QED
      BY <2>2, <2>3
  <1>12. AfterSelf(total, found.self, s, w, d + A)
    BY ONLY <1>10, <1>11 DEF AfterSelf
  <1> QED
    BY <1>9, <1>12, Zenon DEF IsTotal, total, w

\* What CallsAreExact says of a call whose state is a.
IsExact(call, a) ==
    /\ IsCalledExactly(call, a, Called1(call))
    /\ a.err = "none" => ~a.unsafe
    /\ a.top = (a.err = "none")

\* A call that finds nothing to call fails with the right exception.
LEMMA NothingToCall ==
    ASSUME NEW call, NEW found, NEW c, c = Called1(call), found.err # "none", found.err \in c.errs
    PROVE  IsExact(call, EnterFunction(call, Prepared(call, found), found.self))
  <1> DEFINE m == Prepared(call, found)
  <1>1. m.err = found.err /\ m.top = FALSE
    BY DEF Prepared
  <1> HIDE DEF m
  <1>2. EnterFunction(call, m, found.self) = m
    BY <1>1 DEF EnterFunction
  <1>3. IsCalledExactly(call, m, c)
    BY <1>1 DEF IsCalledExactly
  <1> QED
    BY <1>1, <1>2, <1>3, Zenon DEF IsExact, m

\* The ways to enter a function, once there is room for its frame.
LEMMA EnterRoutes ==
    ASSUME NEW call, IsCall(call), call.room, NEW m, m.err = "none", NEW self
    PROVE  LET a == EnterFunction(call, m, self)
           IN \/ a = EnterWithSelf(m, self) /\ call.route # "operator"
              \/ a = EnterShifted(m, self, <<>>) /\ call.route # "operator"
              \/ a = EnterShifted(m, self, CallerFrame(call)) /\ call.route = "operator"
  <1>1. CASE call.route \in {"value", "member"}
    BY <1>1 DEF EnterFunction, ACallValue
  <1>2. CASE call.route = "operator"
    BY <1>2 DEF EnterFunction, FunctionCall
  <1>3. CASE ~(call.route \in {"value", "member"}) /\ call.route # "operator"
    BY <1>3 DEF EnterFunction
  <1> QED
    BY <1>1, <1>2, <1>3

\* A call that finds a function enters it with all of its arguments, or fails
\* with the right exception.
LEMMA FunctionToCall ==
    ASSUME NEW call, IsCall(call), NEW found, found = ClFind(call), NEW c, c = Called1(call),
           NEW s, NEW d, FindsFunction(call, found, c, s, d)
    PROVE  IsExact(call, EnterFunction(call, Prepared(call, found), found.self))
  <1> DEFINE m == Prepared(call, found)
             self == found.self
             a == EnterFunction(call, m, self)
             n == call.n
  <1>1. /\ n \in Nat /\ n <= ClMaxArgs /\ call.star \in BOOLEAN /\ call.room \in BOOLEAN /\ (call.star => n > 0)
        /\ VarArgFlag \in Nat /\ ClMaxArgs \in Nat /\ ClMaxArgs + 1 < VarArgFlag
        /\ call.route = "operator" => ~call.star
    BY CallsOK DEF IsCall
  <1>2. /\ IsPrepared(m) /\ m.f = found.f /\ m.top = FALSE
        /\ CountIs(m.argc, n + d)
        /\ m.argc = n + d + (IF call.star THEN VarArgFlag ELSE 0)
        /\ \A k \in 1 .. n + d : SrcItem(m, k - 1) = IF k <= d THEN Object ELSE GivenArg(call, k - d)
    <2>1. HasPrepared(call, found, d, m)
      BY PreparedFacts
    <2> HIDE DEF m
    <2> QED
      BY ONLY <2>1 DEF HasPrepared, n
  <1>3. /\ s \in {0, 1} /\ d \in {0, 1} /\ (d = 1 => s = 0) /\ c.errs = {} /\ c.f = found.f
        /\ self = [k \in 1 .. s |-> self[k]] /\ IsSelf(self, s, m.f) /\ d = Objects(call, found)
    BY <1>2 DEF FindsFunction
  <1>4. m.err = "none" /\ m.unsafe = FALSE /\ IsArity(m.f)
    BY <1>2, Zenon DEF IsPrepared
  <1> HIDE DEF m, self, n
  <1>5. n + d + s < VarArgFlag /\ n + d < VarArgFlag /\ n + d \in Nat
    <2>1. /\ n \in Nat /\ VarArgFlag \in Nat /\ n + 1 < VarArgFlag
          /\ s \in {0, 1} /\ d \in {0, 1} /\ (d = 1 => s = 0)
      BY <1>1, <1>3
    <2> QED
      BY ONLY <2>1
  <1>6. CASE ~call.room
    <2>1. a = [m EXCEPT !.err = "RuntimeError"]
      BY <1>4, <1>6 DEF EnterFunction
    <2>2. CallRec(m)
      BY <1>2 DEF IsPrepared
    <2>3. a.err = "RuntimeError" /\ a.top = FALSE
      BY ONLY <1>2, <1>4, <2>1, <2>2 DEF CallRec, CallFields
    <2> HIDE DEF a
    <2>4. IsCalledExactly(call, a, c)
      BY <1>3, <1>6, <2>3 DEF IsCalledExactly
    <2>5. IsExact(call, a)
      BY <2>3, <2>4, Zenon DEF IsExact
    <2> QED
      BY <2>5 DEF a, m, self
  <1>7. CASE call.room /\ call.star /\ call.seq = Arg(0)
    <2>1. call.seq[1] # "seq"
      BY <1>7 DEF Arg
    <2>2. call.route # "operator"
      BY <1>1, <1>7
    <2>3. BadStar(m)
      <3> DEFINE b == n + d
      <3>1. m.argc = b + VarArgFlag /\ b \in Nat /\ b < VarArgFlag
        BY <1>2, <1>5, <1>7
      <3>2. b \in 1 .. b /\ ~(b <= d) /\ b - d = n
        BY <1>1, <1>3, <1>7
      <3>3. SrcItem(m, b - 1) = GivenArg(call, n)
        BY ONLY <1>2, <3>2
      <3> HIDE DEF b
      <3>4. GivenArg(call, n) = call.seq
        BY <1>7 DEF GivenArg, n
      <3>5. NoFlag(b + VarArgFlag) = b
        BY <3>1, ModFacts
      <3>6. b + VarArgFlag >= VarArgFlag
        BY <1>1, <3>1
      <3>7. HasFlag(m.argc) /\ StarCount(m) = b - 1
        BY ONLY <3>1, <3>5, <3>6 DEF HasFlag, StarCount
      <3> QED
        BY ONLY <2>1, <3>3, <3>4, <3>7 DEF BadStar
    <2>4. HasFailed(EnterWithSelf(m, self), "TypeError")
      BY <1>2, <1>3, <2>3, EnterWithSelfBad
    <2>5. HasFailed(EnterShifted(m, self, <<>>), "TypeError")
      <3> DEFINE b == n + d
      <3>1. CountIs(m.argc, b) /\ b + s < VarArgFlag
        BY <1>2, <1>5
      <3> HIDE DEF b
      <3> QED
        BY ONLY <1>2, <1>3, <2>3, <3>1, EnterShiftedBad, Zenon
    <2>6. a = EnterWithSelf(m, self) \/ a = EnterShifted(m, self, <<>>)
      BY <1>4, <1>7, <2>2, EnterRoutes
    <2> HIDE DEF a
    <2>7. a.top = FALSE /\ a.err = "TypeError"
      BY ONLY <2>4, <2>5, <2>6 DEF HasFailed
    <2>8. IsCalledExactly(call, a, c)
      BY <1>3, <1>7, <2>1, <2>7 DEF IsCalledExactly
    <2>9. IsExact(call, a)
      BY <2>7, <2>8, Zenon DEF IsExact
    <2> QED
      BY <2>9 DEF a, m, self
  <1>8. ASSUME call.room, NEW len \in Nat, call.star => call.seq = Sequence(len) PROVE IsExact(call, a)
    <2> DEFINE all == AllArguments(call)
               total == c.self \o all
    <2>1. PICK A \in Nat : IsMeant(call, all, A, len)
      BY <1>8, AllArgumentsFacts
    <2>2. all = [k \in 1 .. A |-> all[k]]
      BY <2>1 DEF IsMeant
    <2> DEFINE w == WithObject(d, all, A)
               count == d + A
               T == s + count
    <2>3. count \in Nat /\ T \in Nat
      BY <1>3
    <2> HIDE DEF all
    <2>4. HasArgs(m, w, count)
      BY <1>2, <1>3, <1>5, <1>8, <2>1, PreparedArgs DEF n
    <2>5. total = [k \in 1 .. T |-> total[k]] /\ AfterSelf(total, self, s, w, count)
      <3>1. IsTotal(total, self, s, d, all, A)
        BY <2>2, SelfAndArguments DEF self
      <3> HIDE DEF total
      <3> QED
        BY ONLY <3>1 DEF IsTotal
    <2> HIDE DEF w, count, total
    <2>6. IsEntered(EnterWithSelf(m, self), m.f, total, T)
      BY <1>2, <1>3, <2>4, <2>5, EnterWithSelfFacts
    <2>7. ASSUME NEW frame, frame = <<>> \/ (m.argc + s = m.f[2] /\ ~HasFlag(m.argc + s))
          PROVE  IsEntered(EnterShifted(m, self, frame), m.f, total, T)
      <3> DEFINE b == n + d
      <3>1. CountIs(m.argc, b) /\ b + s < VarArgFlag
        BY <1>2, <1>5, Zenon
      <3>2. T = s + count
        OBVIOUS
      <3>3. /\ IsPrepared(m) /\ s \in {0, 1} /\ self = [k \in 1 .. s |-> self[k]] /\ IsSelf(self, s, m.f)
            /\ AfterSelf(total, self, s, w, count)
        BY <1>2, <1>3, <2>5
      <3> HIDE DEF b, T
      <3> QED
        BY ONLY <2>4, <2>7, <3>1, <3>2, <3>3, EnterShiftedFacts, Zenon
    <2>8. call.route = "operator" => m.argc + s = m.f[2] /\ ~HasFlag(m.argc + s)
      <3> SUFFICES ASSUME call.route = "operator" PROVE m.argc + s = m.f[2] /\ ~HasFlag(m.argc + s)
        OBVIOUS
      <3>1. m.argc = n + d
        <4>1. m.argc = n + d + (IF call.star THEN VarArgFlag ELSE 0) /\ ~call.star
          BY ONLY <1>1, <1>2, call.route = "operator", Zenon
        <4>2. m.argc = (n + d) + 0
          BY ONLY <4>1
        <4> QED
          BY ONLY <1>5, <4>2
      <3>2. found.f[2] = n + (IF found.drop THEN 0 ELSE 1) + Len(found.self)
        BY ONLY IsCall(call), call.route = "operator", found = ClFind(call),
                FindsFunction(call, found, c, s, d) DEF IsCall, IsDeviation, FindsFunction, n
      <3>3. Len(found.self) = s
        BY <1>3 DEF IsSelf, self
      <3>4. d = IF found.drop THEN 0 ELSE 1
        BY <1>3 DEF Objects, IsMemberRoute, FindsFunction
      <3>5. m.argc + s = n + d + s
        BY ONLY <3>1
      <3>6. m.f[2] = n + d + s
        BY ONLY <1>2, <3>2, <3>3, <3>4
      <3>7. ~(n + d + s >= VarArgFlag)
        BY <1>1, <1>3, <1>5
      <3> QED
        BY ONLY <3>5, <3>6, <3>7 DEF HasFlag
    <2>9. IsEntered(a, m.f, total, T)
      <3>1. \/ a = EnterWithSelf(m, self) /\ call.route # "operator"
            \/ a = EnterShifted(m, self, <<>>) /\ call.route # "operator"
            \/ a = EnterShifted(m, self, CallerFrame(call)) /\ call.route = "operator"
        BY <1>4, <1>8, EnterRoutes
      <3> HIDE DEF a, T
      <3> QED
        BY ONLY <2>6, <2>7, <2>8, <3>1
    <2> HIDE DEF a, T
    <2>10. TakesAll(a, m.f, total)
      BY <1>4, <2>3, <2>5, <2>9, EnteredTakesAll
    <2>11. ~(call.star /\ call.seq[1] # "seq")
      BY ONLY <1>8 DEF Sequence
    <2>12. m.f = c.f
      BY <1>2, <1>3
    <2>13. IsCalledExactly(call, a, c)
      BY <1>3, <1>8, <2>10, <2>11, <2>12 DEF IsCalledExactly, TakesAll, total, all
    <2>14. (a.err = "none" => a.unsafe = FALSE) /\ a.top = (a.err = "none")
      BY <2>9, Zenon DEF IsEntered
    <2> QED
      BY <2>13, <2>14 DEF IsExact
  <1>9. \/ ~call.room \/ (call.room /\ call.star /\ call.seq = Arg(0))
        \/ call.room /\ \E len \in Nat : call.star => call.seq = Sequence(len)
    <2>1. 0 \in Nat
      OBVIOUS
    <2> QED
      BY <2>1 DEF IsCall
  <1>10. CASE call.room /\ \E len \in Nat : call.star => call.seq = Sequence(len)
    <2>1. IsExact(call, a)
      BY ONLY <1>8, <1>10
    <2> QED
      BY <2>1 DEF a, m, self
  <1> QED
    BY <1>6, <1>7, <1>9, <1>10

\* Every call that is made has the outcome that it should have.
LEMMA CallIsExact ==
    ASSUME NEW call, IsCall(call)
    PROVE  IsExact(call, EnterFunction(call, Prepared(call, ClFind(call)), ClFind(call).self))
  <1> DEFINE found == ClFind(call)
             c == Called1(call)
  <1>1. Finds(call, found, c)
    BY FindFacts
  <1>2. found = ClFind(call) /\ c = Called1(call)
    OBVIOUS
  <1> HIDE DEF found, c
  <1>3. CASE found.err # "none" /\ found.err \in c.errs
    BY <1>2, <1>3, NothingToCall
  <1>4. CASE \E s, d : FindsFunction(call, found, c, s, d)
    <2>1. PICK s, d : FindsFunction(call, found, c, s, d)
      BY <1>4
    <2>2. IsExact(call, EnterFunction(call, Prepared(call, found), found.self))
      BY <1>2, <2>1, FunctionToCall
    <2> QED
      BY <1>2, <2>2
  <1> QED
    BY <1>1, <1>3, <1>4 DEF Finds

(***************************************************************************)
(* The states: no call, a call that is chosen, a call that has been        *)
(* entered or has failed.                                                  *)
(***************************************************************************)
CallsInv ==
    /\ clCall = ClNoCall => clM = ClNoCall
    /\ clCall # ClNoCall => IsCall(clCall)
    /\ clM # ClNoCall => IsExact(clCall, clM)

\* Only calls that can be made are chosen.
LEMMA ChosenIsCall ==
    ASSUME ClChoose, ~ClDeviations
    PROVE  IsCall(clCall')
  <1>1. PICK route \in ClRoutes, n \in 0 .. ClMaxArgs, star \in BOOLEAN, room \in BOOLEAN :
        \E callee \in IF IsMemberRoute(route) THEN Members ELSE Callees :
        \E seq \in IF star THEN {Sequence(len) : len \in 0 .. ClMaxItems} \cup {Arg(0)} ELSE {<<>>} :
          /\ star => n > 0
          /\ route = "operator" => n <= 1 /\ ~star
          /\ clCall' = [route |-> route, callee |-> callee, n |-> n, star |-> star, seq |-> seq, room |-> room]
          /\ ClDeviations \/ ~IsDeviation(clCall')
          /\ UNCHANGED clM
    BY Zenon DEF ClChoose
  <1>2. PICK callee \in IF IsMemberRoute(route) THEN Members ELSE Callees :
        \E seq \in IF star THEN {Sequence(len) : len \in 0 .. ClMaxItems} \cup {Arg(0)} ELSE {<<>>} :
          /\ star => n > 0
          /\ route = "operator" => n <= 1 /\ ~star
          /\ clCall' = [route |-> route, callee |-> callee, n |-> n, star |-> star, seq |-> seq, room |-> room]
          /\ ClDeviations \/ ~IsDeviation(clCall')
          /\ UNCHANGED clM
    BY ONLY <1>1, Zenon
  <1>3. PICK seq \in IF star THEN {Sequence(len) : len \in 0 .. ClMaxItems} \cup {Arg(0)} ELSE {<<>>} :
          /\ star => n > 0
          /\ route = "operator" => n <= 1 /\ ~star
          /\ clCall' = [route |-> route, callee |-> callee, n |-> n, star |-> star, seq |-> seq, room |-> room]
          /\ ClDeviations \/ ~IsDeviation(clCall')
          /\ UNCHANGED clM
    BY ONLY <1>2, Zenon
  <1>4. ~IsDeviation(clCall')
    BY <1>3
  <1> DEFINE call == clCall'
  <1>5. /\ call.route = route /\ call.callee = callee /\ call.n = n /\ call.star = star
        /\ call.seq = seq /\ call.room = room
    BY <1>3
  <1>6. route \in AllRoutes
    BY CallsOK DEF AllRoutes
  <1>7. star => seq = Arg(0) \/ \E len \in Nat : seq = Sequence(len)
    <2>1. ClMaxItems \in Nat
      BY CallsOK
    <2>2. star => seq \in {Sequence(len) : len \in 0 .. ClMaxItems} \cup {Arg(0)}
      BY <1>3
    <2>3. 0 .. ClMaxItems \subseteq Nat
      BY <2>1
    <2> QED
      BY ONLY <2>2, <2>3
  <1>8. (IsMemberRoute(route) => callee \in Members) /\ (~IsMemberRoute(route) => callee \in Callees)
    BY <1>2
  <1>9. (star => n > 0) /\ (route = "operator" => ~star)
    BY <1>3
  <1>10. n \in 0 .. ClMaxArgs /\ star \in BOOLEAN /\ room \in BOOLEAN
    BY <1>1
  <1> HIDE DEF call
  <1>11. ~IsDeviation(call)
    BY <1>4 DEF call
  <1>12. IsCall(call)
    BY ONLY <1>5, <1>6, <1>7, <1>8, <1>9, <1>10, <1>11 DEF IsCall
  <1> QED
    BY <1>12 DEF call

\* The invariant is inductive.
LEMMA CallsNextInv ==
    ASSUME CallsInv, [ClNext]_clVars, ~ClDeviations
    PROVE  CallsInv'
  <1>1. CASE clCall = ClNoCall /\ ClChoose
    <2>1. clM = ClNoCall /\ clM' = clM
      BY <1>1 DEF CallsInv, ClChoose
    <2>2. IsCall(clCall')
      BY <1>1, ChosenIsCall
    <2> QED
      BY ONLY <2>1, <2>2 DEF CallsInv, ClNoCall
  <1>2. CASE clCall # ClNoCall /\ clM = ClNoCall /\ ClEnter
    <2>1. IsCall(clCall)
      BY <1>2 DEF CallsInv
    <2>2. clCall' = clCall /\ clM' = EnterFunction(clCall, Prepared(clCall, ClFind(clCall)), ClFind(clCall).self)
      BY <1>2 DEF ClEnter
    <2>3. IsExact(clCall, clM')
      BY <2>1, <2>2, CallIsExact
    <2>4. IsExact(clCall', clM') /\ IsCall(clCall') /\ clCall' # ClNoCall
      BY ONLY <1>2, <2>1, <2>2, <2>3
    <2> QED
      BY ONLY <2>4 DEF CallsInv, ClNoCall
  <1>3. CASE UNCHANGED clVars
    <2>1. clCall' = clCall /\ clM' = clM
      BY <1>3 DEF clVars
    <2>2. CallsInv' = CallsInv
      BY ONLY <2>1 DEF CallsInv, ClNoCall
    <2> QED
      BY <2>2
  <1> QED
    BY <1>1, <1>2, <1>3 DEF ClNext

(***************************************************************************)
(* However a function is called and whatever it takes, its parameters have *)
(* the arguments that the caller means, or the call fails with the right   *)
(* exception and leaves the stack as it was; no slot of the frame of an    *)
(* entered function was stale when memory was allocated for it.  This      *)
(* holds for any number of arguments and parameters up to A_MAX_ARG_COUNT  *)
(* (ASetupArguments and its callers), for all calls but those that         *)
(* IsDeviation names: in particular not for the value of a slot that C     *)
(* code calls as a method with an array of arguments.                      *)
(***************************************************************************)
THEOREM CallsPassArguments == ~ClDeviations /\ ClSpec => []CallsAreExact
  <1>1. ClInit => CallsInv
    BY DEF ClInit, CallsInv
  <1>2. ~ClDeviations /\ CallsInv /\ [ClNext]_clVars => CallsInv'
    BY CallsNextInv
  <1>3. CallsInv => CallsAreExact
    BY DEF CallsInv, CallsAreExact, IsExact
  <1>4. CASE ClDeviations
    BY <1>4
  <1>5. CASE ~ClDeviations
    <2>1. CallsInv /\ [ClNext]_clVars => CallsInv'
      BY <1>2, <1>5
    <2> QED
      BY <1>1, <1>3, <2>1, PTL DEF ClSpec
  <1> QED
    BY <1>4, <1>5

=============================================================================
