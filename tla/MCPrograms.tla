----------------------------- MODULE MCPrograms -----------------------------
(***************************************************************************)
(* Instances of what the compiler and the interpreter are given: the       *)
(* statements, the calls, the class hierarchies, the modules and the       *)
(* stacks of frames.                                                       *)
(***************************************************************************)
EXTENDS ExprMachine, Calls, Classes, Modules, Tracebacks

(***************************************************************************)
(* Statements: locals self, x, a and e (e is exposed), an array a, objects *)
(* self and G; f returns what it was given, t is true, u false and w an    *)
(* object.                                                                 *)
(***************************************************************************)
StmtSlots == [self |-> 3, x |-> 4, a |-> 5, e |-> 6]
StmtLocals == [self |-> Ref(2), x |-> IntV(5), a |-> Ref(1), e |-> IntV(7)]
StmtGlobals == [g |-> IntV(9), G |-> Ref(3), f |-> Fn("f"), t |-> Fn("t"), u |-> Fn("u"),
                w |-> Fn("w"), Int |-> <<"type", "Int">>]
StmtConsts == {"f", "t", "u", "w", "Int"}
StmtArity == [f |-> <<0, 3>>, t |-> <<0, 2>>, u |-> <<0, 2>>, w |-> <<0, 0>>, m |-> <<1, 3>>]
StmtMembers == [p |-> "public", k |-> "constant", s |-> "slot", c |-> "slotConst", m |-> "method",
                r |-> "accessor"]
StmtHeap ==
    <<[k |-> "arr", items |-> <<IntV(1), IntV(2), IntV(3)>>],
      [k |-> "obj", slots |-> [p |-> IntV(4), k |-> IntV(6), s |-> IntV(8), c |-> Ref(1)], methods |-> {"m"}],
      [k |-> "obj", slots |-> [p |-> IntV(3)], methods |-> {"m"}]>>

Vr(n) == [k |-> "var", n |-> n]
Gl(n) == [k |-> "global", n |-> n]
Mem(n) == [k |-> "member", n |-> n]
Num(n) == [k |-> "const", v |-> IntV(n)]
NilE == [k |-> "const", v |-> NilV]
OpE(op, l, r) == [k |-> "op", op |-> op, of |-> <<l, r>>]
ExprOf(k, es) == [k |-> k, of |-> es]
CallE(f, es, star) == [k |-> "call", of |-> <<f>> \o es, star |-> star]
MCallE(e, m, es, star) == [k |-> "mcall", m |-> m, of |-> <<e>> \o es, star |-> star]
DotE(e, m) == [k |-> "dot", m |-> m, of |-> <<e>>]
AsE(e, m) == [k |-> "as", m |-> m, of |-> <<e>>]

Fx == CallE(Gl("f"), <<>>, FALSE)
TrueE == CallE(Gl("t"), <<Vr("x")>>, FALSE)
FalseE == CallE(Gl("u"), <<>>, FALSE)
SelfE == Vr("self")
Gp == DotE(Gl("G"), "p")
Simple == {Vr("x"), Vr("e"), Num(1), Gl("g"), Mem("s"), NilE, Fx, Gp, TrueE,
           ExprOf("index", <<Vr("a"), Num(0)>>)}

\* The operations on operands of two sets; a member is called as "mcall".
BinaryE(L, R) ==
    {OpE(op, l, r) : op \in {"+", "**", "==", ">=", "in", ":"}, l \in L, r \in R}
      \union {ExprOf(k, <<l, r>>) : k \in {"and", "or", "array", "tuple", "index"}, l \in L, r \in R}
      \union {CallE(l, <<r>>, star) : l \in {e \in L : e.k # "dot"}, r \in R, star \in BOOLEAN}
      \union {MCallE(l, m, <<r>>, FALSE) : l \in L, m \in {"m", "p"}, r \in R}
UnaryE(L) ==
    {ExprOf(k, <<l>>) : k \in {"neg", "not", "array", "tuple"}, l \in L}
      \union {DotE(l, m) : l \in L, m \in {"p", "q", "m"}} \union {AsE(l, "Int") : l \in L}
Logical ==
    {ExprOf("and", <<TrueE, FalseE>>), ExprOf("or", <<FalseE, TrueE>>), ExprOf("or", <<TrueE, FalseE>>),
     ExprOf("not", <<ExprOf("and", <<TrueE, FalseE>>)>>), OpE("==", Fx, Vr("x")), OpE(">=", Vr("x"), Vr("e"))}
Nesteds ==
    {OpE("+", Fx, Vr("x")), OpE(":", Num(0), NilE), ExprOf("array", <<Fx, Mem("r")>>),
     ExprOf("index", <<Vr("a"), Fx>>), DotE(CallE(Gl("w"), <<>>, FALSE), "p"), Mem("m"), Mem("c"), SelfE,
     Gl("Int"), CallE(Gl("w"), <<>>, FALSE), DotE(SelfE, "z"), OpE("**", Num(2), Fx)}
Few == {Vr("x"), Fx, Gp, TrueE}
Arguments == {Vr("x"), Fx, Gp, ExprOf("array", <<Num(1), Fx>>)}
Lvalues ==
    {Vr("x"), Vr("e"), Gl("g"), Gl("f"), Mem("s"), Mem("p"), Mem("k"), Mem("c"), Mem("r"), Mem("m"),
     SelfE, DotE(SelfE, "p"), ExprOf("index", <<Vr("a"), Num(0)>>), ExprOf("index", <<Vr("a"), Fx>>),
     ExprOf("index", <<Mem("c"), Mem("r")>>), Gp, DotE(Gl("G"), "m"), DotE(Fx, "p"), Fx, Num(1)}
FewLvalues ==
    {Vr("x"), Vr("e"), Gl("g"), Mem("s"), Mem("r"), ExprOf("index", <<Vr("a"), Fx>>),
     ExprOf("index", <<Gl("G"), Vr("e")>>), Gp, Fx}
Expressioned ==
    BinaryE(Simple, Few) \union BinaryE(Few, Simple) \union UnaryE(Simple \union Logical \union Nesteds)
      \union BinaryE(Nesteds \union Logical, {Vr("x"), Fx}) \union BinaryE({Fx, Gp}, Nesteds \union Logical)
      \union {CallE(f, <<a, b, c>>, star) : f \in {Gl("f"), Mem("m")}, a, b \in Arguments,
                                            c \in Arguments \ {Gp}, star \in BOOLEAN}
      \union {MCallE(b, m, <<a, c>>, star) : b \in {Gl("G"), SelfE, Fx}, m \in {"m", "q"},
                                             a, c \in Arguments, star \in BOOLEAN}
StatementsToRun ==
    {[k |-> "expr", e |-> e] : e \in Expressioned}
      \union {[k |-> "if", e |-> ExprOf(k, <<a, b>>), cond |-> cond] :
                 k \in {"and", "or"}, a, b \in Logical \union Few, cond \in BOOLEAN}
      \union {[k |-> "assign", l |-> l, r |-> r] : l \in Lvalues, r \in Simple \union Nesteds \union Logical}
      \union {[k |-> "opassign", op |-> op, l |-> l, r |-> r] :
                 op \in {"+", "-"}, l \in Lvalues, r \in Few \union Logical}
      \union {[k |-> "multi", by |-> by, ls |-> <<l, m>>, r |-> r] :
                 by \in {"array", "tuple"}, l, m \in FewLvalues,
                 r \in {Vr("a"), Fx, ExprOf("tuple", <<Vr("e"), Fx>>), ExprOf("array", <<Vr("x"), Vr("e")>>),
                        ExprOf("array", <<Vr("x")>>)}}
      \union {[k |-> "multi", by |-> "array", ls |-> <<l, m, n>>, r |-> Vr("a")] :
                 l, m, n \in {Vr("x"), Gl("g"), Mem("s"), ExprOf("index", <<Vr("a"), Fx>>), Gp}}
      \union {[k |-> "case", n |-> "x", es |-> <<a, b>>] : a, b \in {Vr("x"), Num(5), NilE, Fx, Gp, Mem("s")}}
      \union {[k |-> "multi", by |-> "tuple", ls |-> <<l, m>>, r |-> ExprOf("tuple", <<Vr("e"), Fx>>)] :
                 l, m \in {Vr("x"), ExprOf("index", <<Vr("a"), ExprOf("index", <<ExprOf("array", <<Vr("e")>>), Num(0)>>)>>)}}
      \union {[k |-> "assign", l |-> Vr("x"), r |-> OpE(":", l, r)] :
                 l, r \in {Num(1), OpE(":", Vr("e"), Fx), ExprOf("and", <<TrueE, ExprOf("and", <<TrueE, FalseE>>)>>)}}

(***************************************************************************)
(* Calls: arities, a flag of 16 marking a rest argument.                   *)
(***************************************************************************)
Arities ==
    {<<0, 0>>, <<0, 1>>, <<1, 1>>, <<1, 2>>, <<1, 3>>, <<2, 2>>, <<0, 17>>, <<1, 18>>, <<1, 19>>, <<2, 19>>}

(***************************************************************************)
(* Class hierarchies, the types in the order of their definitions.         *)
(***************************************************************************)
MemberKeys == [create |-> 1, _eq |-> 2, x |-> 5, y |-> 9, z |-> 7]
Df(n, k, p, a) == [n |-> n, k |-> k, priv |-> p, a |-> a]
Pub(n, k) == Df(n, k, FALSE, 0)
Cls(t, s, im, m) == [t |-> t, iface |-> FALSE, c |-> FALSE, super |-> s, impl |-> im, bind |-> <<>>,
                     mem |-> m, slots |-> 0, fin |-> FALSE, data |-> 0]
Ifc(t, s, b, m) == [Cls(t, s, <<>>, m) EXCEPT !.iface = TRUE, !.bind = b]
CCls(t, s, m, sl, f, da) == [Cls(t, s, <<>>, m) EXCEPT !.c = TRUE, !.slots = sl, !.fin = f, !.data = da]
Orders(S) == UNION {{[i \in DOMAIN s |-> s[p[i]]] : p \in Permutations(DOMAIN s)} : s \in S}
BothWays(S) == S \union {Reverse(s) : s \in S}

OneMember ==
    {<<Df("x", k, p, 0)>> : k \in {"def", "var", "const", "get", "set"}, p \in BOOLEAN}
TwoMembers ==
    {<<Pub("x", k[1]), Pub("x", k[2])>> :
        k \in {<<"get", "set">>, <<"var", "set">>, <<"const", "get">>, <<"def", "get">>, <<"def", "def">>,
               <<"var", "var">>}}
FewMembers ==
    {<<>>, <<Pub("x", "var")>>, <<Pub("x", "get")>>, <<Pub("x", "get"), Pub("x", "set")>>,
     <<Pub("x", "def")>>, <<Df("y", "const", TRUE, 1), Pub("_eq", "def")>>}
\* Tables whose members collide, in every order.
Tables ==
    {<<Cls("A", NoType, <<>>, m)>> :
        m \in [1..3 -> {Pub("x", "var"), Pub("x", "get"), Pub("y", "get"), Pub("y", "def"), Pub("z", "var"),
                        Pub("z", "def"), Pub("y", "var")}]}
      \union {<<Cls("A", NoType, <<>>, <<Df("x", "var", FALSE, a), Df("y", k, p, 0), Df("z", "var", FALSE, b),
                                        Pub("x", "set")>>)>> :
                 a, b \in 0..1, k \in {"var", "get"}, p \in BOOLEAN}
Inherited ==
    LET some == {<<>>} \union OneMember \union TwoMembers
    IN Orders({<<Cls("A", NoType, <<>>, m), Cls("B", "A", <<>>, k)>> : m, k \in some})
Chains ==
    LET Chain(m, k, l) == <<Cls("A", NoType, <<>>, m), Cls("B", "A", <<>>, k), Cls("C", "B", <<>>, l)>>
    IN BothWays({Chain(m, k, l) : m, k, l \in FewMembers})
         \union Orders({Chain(m, <<Pub("y", "var")>>, l) : m, l \in FewMembers})
Interfaces ==
    LET y == <<Pub("y", "get")>>
    IN BothWays({<<Ifc("I", s, b, m), Ifc("J", NoType, <<>>, y), Cls("A", NoType, ia, k), Cls("B", "A", ib, l)>> :
           s \in {NoType, "J"}, b \in {<<>>, <<"A">>}, ia, ib \in {<<>>, <<"I">>},
           m \in {<<Pub("x", "def")>>, <<Pub("x", "get")>>, <<Pub("x", "get"), Pub("x", "set")>>},
           k \in {n \o y : n \in FewMembers \ {<<Pub("x", "get")>>, <<Pub("x", "var")>>}} \union {<<Pub("x", "def")>>},
           l \in {<<Df("x", "var", TRUE, 0)>>, <<Pub("x", "set")>>}})
Creates ==
    Orders({<<Cls("A", NoType, <<>>, m), Cls("B", s, <<>>, k)>> : s \in {NoType, "A"},
       m \in {<<Df("create", "def", FALSE, 1)>>, <<Pub("x", "var"), Df("y", "var", FALSE, 1)>>,
              <<Pub("x", "var"), Df("create", "def", FALSE, 2)>>, <<Df("create", "get", FALSE, 2)>>},
       k \in {<<>>, <<Df("z", "var", FALSE, 1), Pub("_eq", "def")>>, <<Pub("z", "const"), Df("y", "var", TRUE, 0)>>,
              <<Df("create", "def", FALSE, 3), Pub("y", "def")>>}})
CCode ==
    {<<CCls("A", NoType, m, sa, f, da), CCls("B", "A", k, sb, FALSE, db),
       Cls("C", "B", <<>>, <<Pub("y", "var"), Pub("_eq", "def")>>)>> :
        m \in {<<Df("create", "def", FALSE, 1)>>, <<Df("x", "var", TRUE, 0)>>}, sa, sb \in 0..1,
        f \in BOOLEAN, da, db \in {0, 8}, k \in {<<>>, <<Pub("x", "var")>>}}
Cycles ==
    Orders({<<Cls("A", sa, <<>>, <<Pub("x", "var")>>), Cls("B", sb, <<>>, <<>>), Ifc("C", sc, <<>>, <<>>)>> :
              sa \in {"A", "B", "C"}, sb \in {"A", "B", "Object", "C"}, sc \in {NoType, "C", "A"}})
Hierarchies == Tables \union Inherited \union Chains \union Interfaces \union Creates \union CCode \union Cycles

(***************************************************************************)
(* Modules: a and a::b, c and c::b are written in Alore, a in two files; s *)
(* and std are C modules.  PathX stands for the path of module x.          *)
(***************************************************************************)
PathA == <<"a">>
PathAB == <<"a", "b">>
PathC == <<"c">>
PathCB == <<"c", "b">>
PathS == <<"s">>
PathStd == <<"std">>
MainPaths == << <<"main0">>, <<"main1">>, <<"main2">> >>
ModulePaths == {PathA, PathAB, PathC, PathCB, PathS, PathStd} \union ToSet(MainPaths)
ModuleNames == {"a", "b", "c", "s", "std", "main0", "main1", "main2", "x", "y", "z", "t", "Main", "Str"}
NameRef(p, n) == [quoted |-> FALSE, path |-> p, n |-> n]
NameRefs ==
    {NameRef(<<>>, n) : n \in {"x", "y", "z", "c", "Str", "Main"}}
      \union {NameRef(p, "x") : p \in {PathA, PathC, PathAB, <<"b">>, PathS, <<"x">>}}
      \union {NameRef(<<"b">>, "y"), NameRef(PathA, "y"), NameRef(PathStd, "Str"), NameRef(PathA, "Main")}
      \union {[quoted |-> TRUE, path |-> <<>>, n |-> n] : n \in {"x", "y"}}
Global(n, k, p) == [n |-> n, kind |-> k, priv |-> p, super |-> NameRef(<<>>, "z")]
ClassOf(n, r) == [n |-> n, kind |-> "class", priv |-> FALSE, super |-> r]
SourceFile(im, defs, code, uses) == [imports |-> im, defs |-> defs, code |-> code, uses |-> uses]
AloreModule(fs) == [k |-> "alore", files |-> fs]
CModule(defs) == [k |-> "c", files |-> <<SourceFile(<<>>, defs, FALSE, {})>>]
MissingModule == [k |-> "missing", files |-> <<>>]
NoFileGiven == <<"none">>
\* im: the imports of a, a::b, c and of the main files, the second of which
\* may refer to a name that means nothing (bad); a::b may be missing.
Sources(im, bad, missing) ==
    LET C == IF im.c = <<PathA>> THEN Global("y", "var", FALSE) ELSE ClassOf("y", NameRef(<<>>, "z"))
        Main(i, defs, uses) ==
            IF i = NoFileGiven THEN MissingModule ELSE AloreModule(<<SourceFile(i, defs, TRUE, uses)>>)
    IN [p \in ModulePaths |->
          CASE p = PathStd -> CModule(<<Global("Str", "def", FALSE)>>)
            [] p = PathS -> CModule(<<Global("z", "const", FALSE), Global("Main", "def", FALSE), ClassOf("t", NameRef(<<>>, "z"))>>)
            [] p = PathA ->
                 AloreModule(<<SourceFile(im.a, <<Global("x", "var", FALSE), Global("Main", "def", FALSE)>>, TRUE, {}),
                               SourceFile(<<PathCB>>, <<Global("y", "def", TRUE)>>, TRUE, {})>>)
            [] p = PathAB ->
                 IF missing THEN MissingModule
                 ELSE AloreModule(<<SourceFile(im.ab, <<Global("x", "const", FALSE), Global("y", "var", FALSE)>>, TRUE, {})>>)
            [] p = PathC ->
                 AloreModule(<<SourceFile(im.c, <<Global("x", "def", FALSE), C, Global("z", "var", TRUE),
                                                  Global("c", "var", FALSE)>>, FALSE, {})>>)
            [] p = PathCB ->
                 AloreModule(<<SourceFile(<<PathS>>, <<ClassOf("z", NameRef(PathS, "z")), Global("Main", "def", FALSE)>>, FALSE, {})>>)
            [] p = MainPaths[1] -> Main(im.m0, <<Global("x", "def", FALSE), Global("Main", "def", FALSE)>>, {})
            [] p = MainPaths[2] -> Main(im.m1, <<Global("y", "var", FALSE)>>, IF bad THEN {NameRef(<<>>, "c")} ELSE {})
            [] p = MainPaths[3] ->
                 Main(im.m2, IF im.m2 = <<PathA, PathAB>> THEN <<ClassOf("z", NameRef(<<>>, "x"))>> ELSE <<>>, {})]
Importing(a, ab, c, m0, m1, m2) == [a |-> a, ab |-> ab, c |-> c, m0 |-> m0, m1 |-> m1, m2 |-> m2]
\* Modules loaded at run time, with errors, at the start of the program, and
\* importing each other.
ModuleSources ==
    {Sources(Importing(a, <<>>, c, <<>>, m1, m2), FALSE, FALSE) :
        a \in {<<>>, <<PathC>>}, c \in {<<PathAB>>}, m1 \in {<<PathA>>, <<PathCB, PathC>>},
        m2 \in {<<PathAB, PathA>>, <<PathA, PathAB>>}}
      \union {Sources(Importing(<<PathC>>, <<>>, <<>>, <<PathS>>, m1, <<PathAB, PathA>>), TRUE, m) :
                 m1 \in {<<PathA, PathCB>>, <<PathC>>}, m \in BOOLEAN}
      \union {Sources(Importing(a, ab, c, m0, NoFileGiven, NoFileGiven), FALSE, m) :
                 a \in {<<>>, <<PathC>>}, ab \in {<<>>, <<PathCB>>}, c \in {<<PathAB>>, <<PathA>>},
                 m0 \in {<<PathA>>, <<PathAB, PathCB, PathS>>}, m \in BOOLEAN}
      \union {Sources(Importing(a, <<>>, <<PathA>>, <<PathC>>, <<PathA, PathAB>>, <<>>), FALSE, FALSE) :
                 a \in {<<>>, <<PathC>>}}

(***************************************************************************)
(* Stacks: functions f with up to two finally blocks, a C function, class  *)
(* constructors with and without a create method, anonymous functions with *)
(* their _call, and what runs at the bottom.                               *)
(***************************************************************************)
StackFrame(s, fin) == [sym |-> s, ctor |-> FALSE, c |-> FALSE, fin |-> fin]
CFrame(s) == [StackFrame(s, 0) EXCEPT !.c = TRUE]
CtorFrame == [StackFrame("C", 0) EXCEPT !.ctor = TRUE]
FrameGroups ==
    {<<>>, <<CFrame("c")>>, <<CtorFrame>>} \union {<<StackFrame("f", n)>> : n \in {0, 2}}
      \union {<<StackFrame("C", n), CtorFrame>> : n \in 0..1}
      \union {<<StackFrame("anon", n), CFrame("call")>> : n \in 0..1}
BottomFrames ==
    {<<StackFrame("Main", n), StackFrame("main level", 0), StackFrame("bottom", 0)>> : n \in 0..1}
      \union {<<StackFrame("main level", 1), StackFrame("main level", 0), StackFrame("bottom", 0)>>}
FrameStacks ==
    {a \o b \o c \o d : a, b \in FrameGroups, c \in {<<>>, <<StackFrame("f", 1)>>, <<CFrame("c")>>},
                       d \in BottomFrames}

=============================================================================
