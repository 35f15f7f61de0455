----------------------------- MODULE MCLibrary -----------------------------
(***************************************************************************)
(* Small instances of the sequential components: each behaviour is one of  *)
(* part, the component that runs.                                          *)
(***************************************************************************)
EXTENDS HashTable, StreamOutput, StreamInput, StreamList, Encodings, Arithmetic, RegExp, Strings, Arrays,
        BlockHeap, IdHash, MCPrograms

CONSTANTS Parts

VARIABLE part    \* the component that this behaviour is one of

libraryVars == <<part, mapVars, outVars, inVars, listVars, decVars, arithVars, reVars, strVars,
                 arrVars, heapVars, exVars, clVars, clsVars, mdVars, tbVars, hvVars>>

(***************************************************************************)
(* The instances.                                                          *)
(***************************************************************************)
\* Two keys share a slot in the smaller table.
MapHashes == [k \in {"a", "b", "c"} |-> CASE k = "a" -> 0 [] k = "b" -> 4 [] k = "c" -> 1]
MapValues == [k \in {"a", "b", "c"} |-> IF k = "a" THEN {1, 2} ELSE {1}]

NarrowArg(s) == [k |-> "str", wide |-> FALSE, s |-> s]
WideArg(s)   == [k |-> "str", wide |-> TRUE, s |-> s]
WriteCalls ==
    {<<>>, <<[k |-> "obj", s |-> <<"a">>, inner |-> <<>>]>>,
     <<NarrowArg(<<"b", "\n">>), WideArg(<<"W">>)>>,
     <<NarrowArg(<<"a">>), WideArg(<<"W">>), NarrowArg(<<"a", "b", "b">>)>>,
     <<NarrowArg(<<"a">>)>>, <<WideArg(<<"W">>)>>,
     <<NarrowArg(<<"a", "b", "b">>)>>}

FileContents ==
    UNION {[1..n -> {"a", "\r", "\n"}] : n \in 0..3}
      \union {<<"a", "\r", "\n", "b">>, <<"\r", "\r", "\n", "\n">>, <<"a", "b", "\r", "\n">>}

EncodedBytes ==
    [c \in {"utf8", "utf16le", "utf16be", "8bit"} |->
       CASE c = "utf8" -> UNION {[1..n -> {65, 160, 193, 194, 224}] : n \in 0..4}
         [] c = "8bit" -> {<<x, y>> : x, y \in 0..8}
         [] OTHER      -> UNION {[1..n -> {0, 65}] : n \in 0..5}]
PieceSizes == [c \in DOMAIN EncodedBytes |-> IF c = "utf8" THEN 0..4 ELSE 1..3]
Entry(k, n) == [k |-> k, n |-> n]
CodeTables ==
    {<<Entry("code", 9), Entry("delta", 3), Entry("none", 1), Entry("code", 17)>>,
     <<Entry("same", 2), Entry("code", 20), Entry("run", 1)>>,
     <<Entry("code", 20), Entry("delta", -2), Entry("none", 1), Entry("delta", -9)>>}

\* Short integers have 6 bits and digits 4: up to four digits.
Magnitudes == {0, 1, 2, 3, 7, 8, 12, 15, 16, 31, 32, 33, 47, 255, 256, 257, 511, 512, 544,
               3840, 4095, 4096, 4352, 32767}
IntOperands == Magnitudes \union {-m : m \in Magnitudes}
OtherOperands == {Float(0, 1), Float(-3, 1), Float(2, 1), Str(<<1>>), Str(<<1, 2>>),
                  [t |-> "inst"], [t |-> "const"]}

\* Regular expressions: sequences of two items, repeated groups with what may
\* follow or precede them, groups in groups, and alternatives.
ReCharacters == {"a", "b", "A", "_", "\n"}
ReLowerCase == [c \in ReCharacters |-> IF c = "A" THEN "a" ELSE c]
Ch(c) == [t |-> "char", ch |-> c]
Tk(k) == [t |-> k]
NotA == [t |-> "[", chars |-> {"a"}, comp |-> TRUE]
BackRef(n) == [t |-> "\\1", num |-> n]
Rep(e, min, max, lazy) == [t |-> "rep", of |-> e, min |-> min, max |-> max, lazy |-> lazy]
Reps(es, ranges) == {Rep(e, k[1], k[2], lazy) : e \in es, k \in ranges, lazy \in BOOLEAN}
ReGroup(n, e) == [t |-> "group", num |-> n, of |-> e]
Cat(es) == [t |-> "cat", of |-> es]
Alt(es) == [t |-> "alt", of |-> es]
SimpleItems == {Ch("a"), NotA, Rep(Ch("a"), 1, 2, TRUE), Rep(Ch("a"), 0, 1, FALSE)}
                 \union Reps({Tk("."), NotA}, {<<0, -1>>})
GroupBodies == {Cat(<<>>), Rep(Ch("a"), 0, -1, FALSE), Alt(<<Ch("a"), Cat(<<Ch("a"), Ch("b")>>)>>),
                Alt(<<Ch("a"), Cat(<<>>), Tk(".")>>)}
GroupReps == {ReGroup(1, e) : e \in GroupBodies}
    \union Reps({ReGroup(1, e) : e \in GroupBodies}, {<<0, 1>>, <<0, -1>>, <<0, 2>>, <<2, 3>>})
RegExps ==
    {Cat(<<x, y>>) : x, y \in SimpleItems}
      \union {Cat(<<g, y>>) : g \in GroupReps, y \in {Ch("b"), BackRef(1), Tk("$")}}
      \union {Cat(<<h, g, Tk("\\>")>>) : h \in {Tk("^"), Tk("\\<")}, g \in GroupReps}
      \union Reps({ReGroup(1, Cat(<<ReGroup(2, e), Rep(Ch("b"), 0, 1, FALSE)>>)) : e \in GroupBodies},
                  {<<0, -1>>, <<1, -1>>, <<1, 2>>})
      \union {Alt(<<x, Rep(ReGroup(1, y), 0, -1, FALSE)>>) : x \in SimpleItems, y \in GroupBodies}
      \union {Cat(<<Ch("a"), Ch("b"), Ch("a")>>), Cat(<<Ch("a"), Ch("b"), Rep(Ch("a"), 0, -1, TRUE)>>)}
NoRegExps ==
    {<<Tk("(")>>, <<Tk(")")>>, <<Ch("a"), Tk(")")>>, <<Tk("("), Ch("a")>>, <<Tk("*")>>,
     <<Ch("a"), Tk("*"), Tk("*")>>, <<Tk("|"), Tk("+")>>, <<Ch("a"), Tk("?"), Tk("?"), Tk("?")>>,
     <<Ch("a"), [t |-> "{", min |-> 2, max |-> 1]>>, <<Tk("("), BackRef(1), Tk(")")>>, <<BackRef(1)>>,
     [k \in 1 .. 11 |-> Tk(IF k < 6 THEN "(" ELSE IF k = 6 THEN "." ELSE ")")]}
RegExpTexts ==
    {<<>>, <<"a">>, <<"b", "a">>, <<"a", "A">>, <<"a", "\n", "a">>, <<"b", "_", "a">>,
     <<"A", "b", "a", "a">>, <<"a", "b", "a", "b">>}

\* Strings over a space, both quotes, a letter in two cases, a narrow letter
\* with a wide upper case, and that letter; each in every representation.
SliceIndices == {-2, 0, 1, 3, 9}
SmallInts == {-8, -1, 0, 1, 5, 16}
StringChars == {32, 34, 39, 65, 97, 255, 376, 8364}
UpperCase == [c \in StringChars |-> IF c = 97 THEN 65 ELSE IF c = 255 THEN 376 ELSE c]
LowerCase == [c \in StringChars |-> IF c = 65 THEN 97 ELSE IF c = 376 THEN 255 ELSE c]
Represented(s) == {NarrowStr(s), WideStr(s), SubStr(NarrowStr(<<39, 97>> \o s \o <<65>>), 2, Len(s)),
                   SubStr(WideStr(<<376, 97>> \o s \o <<32>>), 2, Len(s))}
FirstStrings ==
    Represented(<<97, 65, 97, 97>>) \union Represented(<<32, 97, 32, 65, 32>>)
      \union {NarrowStr(<<>>), WideStr(<<376, 97, 8364>>), NarrowStr(<<39, 255, 34>>)}
ArgumentStrings ==
    {NarrowStr(<<>>), WideStr(<<97>>), SubStr(NarrowStr(<<65, 97, 97, 32>>), 1, 2),
     SubStr(WideStr(<<376, 32, 97, 376>>), 2, 2), NarrowStr(<<97, 65, 97, 97>>)}
JoinedStrings ==
    {<<>>, <<WideStr(<<65>>)>>, <<NarrowStr(<<97>>), SubStr(NarrowStr(<<65, 97, 97, 32>>), 1, 3)>>,
     <<NarrowStr(<<>>), WideStr(<<376>>), NarrowStr(<<32>>)>>}

\* Arrays of one and two; nested ones up to one level deeper than a
\* comparison goes; the two orders, an inconsistent and a constant answer.
OtherArrays == {<<>>, <<2, 1, 2, 2, 1>>}
ArrayIndices == {-2, 0, 1, 4}
Item(n) == [val |-> n]
Nested(s) == [sub |-> s]
NestedArrays ==
    LET flat == {Nested(s) : s \in {<<>>, <<Item(1)>>, <<Item(2)>>, <<Item(1), Item(2)>>}}
    IN flat \union {Nested(<<x>>) : x \in flat} \union {Nested(<<x, Item(1)>>) : x \in flat}
         \union {Nested(<<Item(1), x>>) : x \in flat}
         \union {Nested(<<Nested(<<x>>)>>) : x \in flat} \union {Nested(<<Item(2), Nested(<<Nested(<<>>)>>)>>)}
Comparisons ==
    {{<<2, 1>>}, {<<1, 2>>}, {<<1, 1>>, <<1, 2>>}, {}, {1, 2} \X {1, 2}}

\* A request one word smaller than the smallest block of the last list is a
\* deviation: the search goes on behind the array of lists (heap.c:111).
BlocksAskedFor ==
    {[kind |-> "old", size |-> 2], [kind |-> "static", size |-> 5], [kind |-> "new", size |-> 2]}
      \union (IF HpDeviations THEN {[kind |-> "old", size |-> n] : n \in {9, 16}} ELSE {})

(***************************************************************************)
(* The composition.                                                        *)
(***************************************************************************)
LibraryInit ==
    /\ part \in Parts
    /\ MapInit /\ OutInit /\ InInit /\ ListInit /\ DecInit /\ ArithInit /\ ReInit /\ StrInit /\ ArrInit
    /\ HpInit /\ ExInit /\ ClInit /\ ClsInit /\ MdInit /\ TbInit /\ HvInit

LibraryNext ==
    /\ UNCHANGED part
    /\ IF part = "map"   THEN MapNext   ELSE UNCHANGED mapVars
    /\ IF part = "out"   THEN OutNext   ELSE UNCHANGED outVars
    /\ IF part = "in"    THEN InNext    ELSE UNCHANGED inVars
    /\ IF part = "list"  THEN ListNext  ELSE UNCHANGED listVars
    /\ IF part = "dec"   THEN DecNext   ELSE UNCHANGED decVars
    /\ IF part = "arith" THEN ArithNext ELSE UNCHANGED arithVars
    /\ IF part = "re"    THEN ReNext    ELSE UNCHANGED reVars
    /\ IF part = "str"   THEN StrNext   ELSE UNCHANGED strVars
    /\ IF part = "arr"   THEN ArrNext   ELSE UNCHANGED arrVars
    /\ IF part = "heap"  THEN HpNext    ELSE UNCHANGED heapVars
    /\ IF part = "expr"  THEN ExNext    ELSE UNCHANGED exVars
    /\ IF part = "call"  THEN ClNext    ELSE UNCHANGED clVars
    /\ IF part = "cls"   THEN ClsNext   ELSE UNCHANGED clsVars
    /\ IF part = "mod"   THEN MdNext    ELSE UNCHANGED mdVars
    /\ IF part = "tb"    THEN TbNext    ELSE UNCHANGED tbVars
    /\ IF part = "hash"  THEN HvNext    ELSE UNCHANGED hvVars

LibrarySpec == LibraryInit /\ [][LibraryNext]_libraryVars

=============================================================================
