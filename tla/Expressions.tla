----------------------------- MODULE Expressions -----------------------------
(***************************************************************************)
(* The expressions of the language: their trees, the tokens that they are  *)
(* written with, and what the reference manual says that they compute.     *)
(*                                                                         *)
(* A tree is a record whose field k is the kind of the expression.  The    *)
(* expression is one of a method: the stack frame holds self in slot 3 and *)
(* the local variables after it.                                           *)
(*                                                                         *)
(* A value is a tuple that begins with its type.  Arrays and instances     *)
(* that exist before the expression is evaluated are references into heap; *)
(* the arrays and tuples that it creates are values.                       *)
(***************************************************************************)
EXTENDS Integers, Sequences, SequencesExt

CONSTANTS
    ExSlots,     \* the local variables: a slot for each name
    ExExposed,   \* the ones that nested functions use: kept in a container
    ExLocals,    \* the values of the local variables
    ExGlobals,   \* the values of the global names, by name
    ExConsts,    \* the global names that cannot be assigned to
    ExArity,     \* the least and the greatest number of arguments of functions
    ExMembers,   \* the kinds of the members of the class, by name
    ExHeap       \* the arrays and instances: sequences of items, members

IntV(n)   == <<"i", n>>
BoolV(b)  == <<"b", b>>
NilV      == <<"nil", 0>>
Fn(f)    == <<"fn", f>>
Ref(k)   == <<"ref", k>>
Tup(s)   == <<"tup", s>>
Arr(s)   == <<"arr", s>>
Exc(x)   == <<"exc", x>>
IsError(v) == v[1] = "exc"

(***************************************************************************)
(* What operations on values do, apart from evaluating their operands.     *)
(* The effects of a function, of a method or of an accessor are not known: *)
(* it is recorded in log, changes the items of the first array, and        *)
(* returns a value that depends on how much has been called before.        *)
(***************************************************************************)
Called(w, f, args) ==
    LET v == CASE f = "t" -> BoolV(TRUE) [] f = "u" -> BoolV(FALSE) [] f = "w" -> Fn("f")
               [] OTHER   -> IntV(Len(w.log) + 1)
    IN [w EXCEPT !.log = Append(@, <<f, args>>), !.heap[1].items = Append(Tail(@), IntV(Len(w.log) + 1)),
                 !.val = v]
Raised(w, x) == [w EXCEPT !.val = Exc(x)]
Valued(w, v) == [w EXCEPT !.val = v]

IsArrayV(w, v)    == v[1] = "arr" \/ (v[1] = "ref" /\ w.heap[v[2]].k = "arr")
IsInstanceV(w, v) == v[1] = "ref" /\ w.heap[v[2]].k = "obj"
ItemsOf(w, v)      == IF v[1] = "ref" THEN w.heap[v[2]].items ELSE v[2]
IsSequence(w, v) == v[1] = "tup" \/ IsArrayV(w, v)

TypeOf(v) == CASE v[1] = "i" -> "Int" [] v[1] = "b" -> "Boolean" [] v[1] = "nil" -> "nil" [] OTHER -> "Object"

\* A slice with bounds beyond the ends takes what there is.
SliceOf(s, lo, hi) ==
    LET Bound(i) == IF i < 0 THEN IF i + Len(s) < 0 THEN 0 ELSE i + Len(s)
                    ELSE IF i > Len(s) THEN Len(s) ELSE i
    IN SubSeq(s, Bound(lo) + 1, Bound(hi))

\* An item of an array, or what _get of an instance returns.
ItemOf(w, base, ix) ==
    CASE IsArrayV(w, base) ->
           LET s  == ItemsOf(w, base)
               at == IF ix[1] = "i" THEN IF ix[2] < 0 THEN ix[2] + Len(s) ELSE ix[2] ELSE 0
               lo == IF ix[1] = "pair" /\ ix[2] = NilV THEN IntV(0) ELSE ix[2]
               hi == IF ix[1] = "pair" /\ ix[3] = NilV THEN IntV(Len(s)) ELSE ix[3]
           IN CASE ix[1] = "i" -> IF at \in 0 .. Len(s) - 1 THEN Valued(w, s[at + 1]) ELSE Raised(w, "IndexError")
                [] ix[1] = "pair" -> IF lo[1] = "i" /\ hi[1] = "i" THEN Valued(w, Arr(SliceOf(s, lo[2], hi[2])))
                                     ELSE Raised(w, "TypeError")
                [] OTHER -> Raised(w, "TypeError")
      [] IsInstanceV(w, base) -> Called(w, "_get", <<base, ix>>)
      [] OTHER -> Raised(w, "TypeError")

SetItemOf(w, base, ix, v) ==
    CASE IsArrayV(w, base) ->
           LET s  == ItemsOf(w, base)
               at == IF ix[1] = "i" THEN IF ix[2] < 0 THEN ix[2] + Len(s) ELSE ix[2] ELSE 0
           IN CASE ix[1] # "i" -> Raised(w, "TypeError")
                [] at \notin 0 .. Len(s) - 1 -> Raised(w, "IndexError")
                [] base[1] = "ref" -> [w EXCEPT !.heap[base[2]].items[at + 1] = v]
                [] OTHER -> w
      [] IsInstanceV(w, base) -> Called(w, "_set", <<base, ix, v>>)
      [] OTHER -> Raised(w, "TypeError")

Arithmetical(op, a, b) ==
    CASE op = "+" -> a + b [] op = "-" -> a - b [] op = "*" -> a * b
      [] op = "**" -> IF b = 0 THEN 1 ELSE a ^ b

Relations == {"==", "!=", "<", ">=", ">", "<=", "in", "not in", "is", "is not"}

\* The value of an operation; == of an instance is a method.
Operation(w, op, l, r) ==
    CASE op \in {"==", "!="} ->
           IF IsInstanceV(w, l) /\ r # NilV
           THEN Valued(Called(w, "_eq", <<l, r>>), BoolV(op = "!="))
           ELSE Valued(w, BoolV((op = "==") = (l = r)))
      [] op \notin {"in", "not in", "is", "is not", ":", "to"} /\ IsInstanceV(w, l) ->
           IF op \notin Relations THEN Called(w, op, <<l, r>>)
           ELSE Valued(Called(w, IF op \in {"<", ">="} THEN "_lt" ELSE "_gt", <<l, r>>), BoolV(op \in {">=", "<="}))
      [] op \in {"<", ">=", ">", "<="} /\ l[1] = "i" /\ r[1] = "i" ->
           Valued(w, BoolV(CASE op = "<" -> l[2] < r[2] [] op = ">=" -> l[2] >= r[2]
                            [] op = ">" -> l[2] > r[2] [] op = "<=" -> l[2] <= r[2]))
      [] op \in {"in", "not in"} /\ IsArrayV(w, r) ->
           Valued(w, BoolV((op = "in") = (\E n \in DOMAIN ItemsOf(w, r) : ItemsOf(w, r)[n] = l)))
      [] op \in {"is", "is not"} /\ r[1] = "type" -> Valued(w, BoolV((op = "is") = (TypeOf(l) = r[2])))
      [] op = ":" -> Valued(w, <<"pair", l, r>>)
      [] op = "to" /\ l[1] = "i" /\ r[1] = "i" -> Valued(w, <<"range", l, r>>)
      [] op \in {"+", "-", "*", "**"} /\ l[1] = "i" /\ r[1] = "i" /\ (op # "**" \/ r[2] \in 0 .. 4) ->
           Valued(w, IntV(Arithmetical(op, l[2], r[2])))
      [] OTHER -> Raised(w, "TypeError")

Negated(w, v) == IF v[1] = "i" THEN Valued(w, IntV(-v[2])) ELSE Raised(w, "TypeError")

\* A member of an instance: a slot, or an accessor method.
MemberOf(w, v, m) ==
    IF ~IsInstanceV(w, v) THEN Raised(w, "MemberError")
    ELSE IF m \in DOMAIN w.heap[v[2]].slots THEN Valued(w, w.heap[v[2]].slots[m])
    ELSE IF m \in w.heap[v[2]].methods THEN Valued(w, <<"method", v, m>>)
    ELSE Called(w, "get " \o m, <<v>>)

SetMemberOf(w, v, m, x) ==
    IF ~IsInstanceV(w, v) THEN Raised(w, "MemberError")
    ELSE IF m \in DOMAIN w.heap[v[2]].slots THEN [w EXCEPT !.heap[v[2]].slots[m] = x]
    ELSE IF m \in w.heap[v[2]].methods THEN Raised(w, "MemberError")
    ELSE Called(w, "set " \o m, <<v, x>>)

\* A call of a value; the items of the last argument may be the last ones.
CallOf(w, f, args, isVarArg) ==
    IF isVarArg /\ ~IsSequence(w, Last(args)) THEN Raised(w, "TypeError")
    ELSE LET all == IF isVarArg THEN Front(args) \o ItemsOf(w, Last(args)) ELSE args
         IN CASE f[1] = "fn" -> IF Len(all) \in ExArity[f[2]][1] .. ExArity[f[2]][2] THEN Called(w, f[2], all)
                                ELSE Raised(w, "ValueError")
              [] f[1] = "method" -> IF Len(all) + 1 \in ExArity[f[3]][1] .. ExArity[f[3]][2] THEN Called(w, f[3], <<f[2]>> \o all)
                                    ELSE Raised(w, "ValueError")
              [] OTHER -> Raised(w, "TypeError")

MemberCallOf(w, v, m, args, isVarArg) ==
    IF ~IsInstanceV(w, v) THEN Raised(w, "MemberError")
    ELSE LET f == MemberOf(w, v, m) IN IF IsError(f.val) THEN f ELSE CallOf(f, f.val, args, isVarArg)

(***************************************************************************)
(* Evaluation as the manual describes it: operands and items from left to  *)
(* right, the operands of and and or only as far as needed.                *)
(***************************************************************************)
RECURSIVE Eval(_, _)
RECURSIVE EvalAll(_, _, _)

\* The values of es from the n-th on; the ones before are in w.list.
EvalAll(w, es, n) ==
    IF n > Len(es) THEN w
    ELSE LET After(a) == IF IsError(a.val) THEN a
                         ELSE EvalAll([a EXCEPT !.list = Append(w.list, a.val)], es, n + 1)
         IN After(Eval([w EXCEPT !.list = <<>>], es[n]))
Values(w, es) == EvalAll([w EXCEPT !.list = <<>>], es, 1)

\* The value of e has to be a boolean.
InBooleanContext(w) == IF IsError(w.val) \/ w.val[1] = "b" THEN w ELSE Raised(w, "TypeError")

\* What is left of an operation on the values of es.
EvalOperation(w, e) ==
    IF IsError(w.val) THEN w
    ELSE CASE e.k = "op"    -> Operation(w, e.op, w.list[1], w.list[2])
           [] e.k = "neg"   -> Negated(w, w.list[1])
           [] e.k = "index" -> ItemOf(w, w.list[1], w.list[2])
           [] e.k = "dot"   -> MemberOf(w, w.list[1], e.m)
           [] e.k = "call"  -> CallOf(w, w.list[1], Tail(w.list), e.star)
           [] e.k = "mcall" -> MemberCallOf(w, w.list[1], e.m, Tail(w.list), e.star)
           [] e.k = "array" -> Valued(w, Arr(w.list))
           [] e.k = "tuple" -> Valued(w, Tup(w.list))
           [] e.k = "as"    -> IF TypeOf(w.list[1]) = e.m THEN Valued(w, w.list[1]) ELSE Raised(w, "CastError")

Eval(w, e) ==
    CASE e.k = "const"  -> Valued(w, e.v)
      [] e.k = "var"    -> Valued(w, w.locals[e.n])
      [] e.k = "global" -> Valued(w, w.globals[e.n])
      [] e.k = "member" -> MemberOf(w, w.locals["self"], e.n)
      [] e.k = "not" -> LET After(a) == IF IsError(a.val) THEN a ELSE Valued(a, BoolV(~a.val[2]))
                        IN After(InBooleanContext(Eval(w, e.of[1])))
      [] e.k \in {"and", "or"} ->
           LET After(a) == IF IsError(a.val) \/ a.val[2] = (e.k = "or") THEN a
                           ELSE InBooleanContext(Eval(a, e.of[2]))
           IN After(InBooleanContext(Eval(w, e.of[1])))
      [] OTHER -> EvalOperation(Values(w, e.of), e)

(***************************************************************************)
(* Statements.  The right side of an assignment comes first; the operands  *)
(* of the left side of an operator assignment are evaluated once.          *)
(***************************************************************************)
\* Assign v to the lvalue e whose operands have the values list.
StoreTo(w, e, list, v) ==
    CASE e.k = "var"    -> [w EXCEPT !.locals[e.n] = v]
      [] e.k = "global" -> [w EXCEPT !.globals[e.n] = v]
      [] e.k = "member" -> SetMemberOf(w, w.locals["self"], e.n, v)
      [] e.k = "index"  -> SetItemOf(w, list[1], list[2], v)
      [] e.k = "dot"    -> SetMemberOf(w, list[1], e.m, v)

ExOperands(e) == IF e.k \in {"index", "dot"} THEN e.of ELSE <<>>

Assign(w, e, v) ==
    LET After(a) == IF IsError(a.val) THEN a ELSE StoreTo(a, e, a.list, v)
    IN After(Values(w, ExOperands(e)))

RECURSIVE AssignAll(_, _, _, _)
AssignAll(w, es, vs, n) ==
    IF n > Len(es) \/ IsError(w.val) THEN w ELSE AssignAll(Assign(w, es[n], vs[n]), es, vs, n + 1)

AssignItems(w, es) ==
    IF IsError(w.val) THEN w
    ELSE IF ~IsSequence(w, w.val) THEN Raised(w, "TypeError")
    ELSE IF Len(ItemsOf(w, w.val)) # Len(es) THEN Raised(w, "ValueError")
    ELSE AssignAll(w, es, ItemsOf(w, w.val), 1)

\* The operands of the left side are in list.
OperatorAssign(w, s, list) ==
    LET Store(a)  == IF IsError(a.val) THEN a ELSE StoreTo(a, s.l, list, a.val)
        Right(a, l) == IF IsError(a.val) THEN a ELSE Store(Operation(a, s.op, l, a.val))
        Left(a)   == IF IsError(a.val) THEN a ELSE Right(Eval(a, s.r), a.val)
    IN Left(CASE s.l.k = "index" -> ItemOf(w, list[1], list[2])
              [] s.l.k = "dot"   -> MemberOf(w, list[1], s.l.m)
              [] OTHER           -> Eval(w, s.l))

\* Is v one of the values of es from the n-th on?
RECURSIVE IsCase(_, _, _, _)
IsCase(w, v, es, n) ==
    IF n > Len(es) THEN Valued(w, BoolV(FALSE))
    ELSE LET Compare(a) == IF IsError(a.val) THEN a ELSE Operation(a, "==", v, a.val)
             After(a)   == IF IsError(a.val) \/ a.val[2] THEN a ELSE IsCase(a, v, es, n + 1)
         IN After(Compare(Eval(w, es[n])))

Execute(w, s) ==
    CASE s.k = "expr"   -> Eval(w, s.e)
      [] s.k = "assign" -> LET After(a) == IF IsError(a.val) THEN a ELSE Assign(a, s.l, a.val) IN After(Eval(w, s.r))
      [] s.k = "multi"  -> AssignItems(Eval(w, s.r), s.ls)
      [] s.k = "opassign" -> LET After(a) == IF IsError(a.val) THEN a ELSE OperatorAssign(a, s, a.list)
                             IN After(Values(w, ExOperands(s.l)))
      [] s.k = "if"     -> InBooleanContext(Eval(w, s.e))
      [] s.k = "case"   -> IsCase(w, w.locals[s.n], s.es, 1)

\* Is s a statement of the language?
Self == [k |-> "var", n |-> "self"]
IsAssignable(e) ==
    CASE e.k = "var"    -> e.n # "self"
      [] e.k = "global" -> e.n \notin ExConsts
      [] e.k = "member" -> ExMembers[e.n] \in {"public", "slot", "accessor"}
      [] e.k = "dot"    -> (e.of[1] = Self /\ e.m \in DOMAIN ExMembers) => ExMembers[e.m] \in {"public", "slot", "accessor"}
      [] OTHER          -> e.k = "index"

RECURSIVE HasValidCalls(_)
HasValidCalls(e) ==
    IF e.k \notin {"op", "neg", "index", "dot", "call", "mcall", "array", "tuple", "as", "not", "and", "or"} THEN TRUE
    ELSE /\ \A n \in DOMAIN e.of : HasValidCalls(e.of[n])
         /\ e.k = "call" /\ e.of[1].k = "global" /\ e.of[1].n \in ExConsts /\ e.of[1].n \in DOMAIN ExArity
              => LET n == Len(e.of) - 1 - (IF e.star THEN 1 ELSE 0)
                 IN (e.star \/ n >= ExArity[e.of[1].n][1]) /\ n <= ExArity[e.of[1].n][2]


IsValid(s) ==
    CASE s.k = "assign" -> IsAssignable(s.l) /\ HasValidCalls(s.l) /\ HasValidCalls(s.r)
      [] s.k = "multi"  -> /\ \A n \in DOMAIN s.ls : IsAssignable(s.ls[n]) /\ HasValidCalls(s.ls[n])
                           /\ HasValidCalls(s.r)
                           /\ s.r.k \in {"array", "tuple"} /\ s.r.of # <<>> => Len(s.r.of) = Len(s.ls)
      [] s.k = "opassign" -> IsAssignable(s.l) /\ HasValidCalls(s.l) /\ HasValidCalls(s.r)
      [] s.k = "case"   -> \A n \in DOMAIN s.es : HasValidCalls(s.es[n])
      [] OTHER -> HasValidCalls(s.e)

(***************************************************************************)
(* The tokens of an expression, with parentheses only where the manual     *)
(* says that they are needed: all operators but ** are left associative.   *)
(***************************************************************************)
\* The parser takes the operators of an odd precedence as right associative.
Precedence(op) ==
    CASE op = "as" -> 6 [] op = "or" -> 8 [] op = "and" -> 10 [] op = "not" -> 12 [] op = ":" -> 13
      [] op \in Relations -> 14 [] op = "to" -> 16 [] op \in {"+", "-"} -> 18 [] op = "*" -> 20
      [] op = "**" -> 25
UnaryPrecedence == 22

Tok(t) == [t |-> t]
Commas(ts) == FlattenSeq([n \in DOMAIN ts |-> IF n = 1 THEN ts[n] ELSE <<Tok(",")>> \o ts[n]])

RECURSIVE ExWritten(_, _)

\* The arguments of a call.
WrittenArgs(es, star) ==
    <<Tok("(")>> \o Commas([n \in DOMAIN es |-> IF star /\ n = Len(es) THEN <<Tok("*")>> \o ExWritten(es[n], 4)
                                               ELSE ExWritten(es[n], 4)]) \o <<Tok(")")>>

\* The index of an array: nil may be left out beside a colon.
WrittenIndex(e) ==
    IF e.k # "op" \/ e.op # ":" THEN ExWritten(e, 0)
    ELSE LET Side(x, p) == IF x.k = "const" /\ x.v = NilV THEN <<>> ELSE ExWritten(x, p)
         IN Side(e.of[1], 13) \o <<Tok(":")>> \o Side(e.of[2], 14)

\* The tokens of e where an expression of a precedence of at least p may be.
ExWritten(e, p) ==
    LET In(q, ts) == IF q < p THEN <<Tok("(")>> \o ts \o <<Tok(")")>> ELSE ts
        Left(op)  == IF op = "**" THEN Precedence(op) + 1 ELSE Precedence(op)
        Right(op) == IF op = "**" THEN Precedence(op) ELSE Precedence(op) + 1
    IN CASE e.k = "const"  -> IF e.v = NilV THEN <<Tok("nil")>> ELSE <<[t |-> "int", n |-> e.v[2]]>>
         [] e = Self       -> <<Tok("self")>>
         [] e.k \in {"var", "global", "member"} -> <<[t |-> e.k, n |-> e.n]>>
         [] e.k = "op"     -> In(Precedence(e.op), ExWritten(e.of[1], Left(e.op)) \o <<Tok(e.op)>>
                                                     \o ExWritten(e.of[2], Right(e.op)))
         [] e.k \in {"and", "or"} -> In(Precedence(e.k), ExWritten(e.of[1], Left(e.k)) \o <<Tok(e.k)>>
                                                     \o ExWritten(e.of[2], Right(e.k)))
         [] e.k = "not"    -> In(12, <<Tok("not")>> \o ExWritten(e.of[1], 12))
         [] e.k = "neg"    -> In(UnaryPrecedence, <<Tok("-")>> \o ExWritten(e.of[1], UnaryPrecedence))
         [] e.k = "index"  -> ExWritten(e.of[1], 30) \o <<Tok("[")>> \o WrittenIndex(e.of[2]) \o <<Tok("]")>>
         [] e.k = "dot"    -> ExWritten(e.of[1], 30) \o <<Tok("."), [t |-> "name", n |-> e.m]>>
         [] e.k = "call"   -> ExWritten(e.of[1], 30) \o WrittenArgs(Tail(e.of), e.star)
         [] e.k = "mcall"  -> ExWritten(e.of[1], 30) \o <<Tok("."), [t |-> "name", n |-> e.m]>>
                                \o WrittenArgs(Tail(e.of), e.star)
         [] e.k = "array"  -> <<Tok("[")>> \o Commas([n \in DOMAIN e.of |-> ExWritten(e.of[n], 4)]) \o <<Tok("]")>>
         [] e.k = "tuple"  -> IF e.of = <<>> THEN <<Tok("("), Tok(")")>>
                              ELSE In(2, Commas([n \in DOMAIN e.of |-> ExWritten(e.of[n], 4)])
                                           \o (IF Len(e.of) = 1 THEN <<Tok(",")>> ELSE <<>>))
         [] e.k = "as"     -> In(6, ExWritten(e.of[1], 6) \o <<Tok("as"), [t |-> "name", n |-> e.m]>>)

WrittenStatement(s) ==
    CASE s.k \in {"expr", "if"} -> ExWritten(s.e, 2)
      [] s.k = "assign"   -> ExWritten(s.l, 2) \o <<Tok("=")>> \o ExWritten(s.r, 2)
      [] s.k = "multi"    -> ExWritten([k |-> s.by, of |-> s.ls], 2) \o <<Tok("=")>> \o ExWritten(s.r, 2)
      [] s.k = "opassign" -> ExWritten(s.l, 2) \o <<[t |-> "op=", op |-> s.op]>> \o ExWritten(s.r, 8)
      [] s.k = "case"     -> Commas([n \in DOMAIN s.es |-> ExWritten(s.es[n], 8)])

(***************************************************************************)
(* Statements that the compiler does not take as the manual says.          *)
(***************************************************************************)
\* An expression and all of its operands.
RECURSIVE Within(_)
Within(e) == {e} \union (IF "of" \in DOMAIN e THEN UNION {Within(e.of[n]) : n \in DOMAIN e.of} ELSE {})

ExpressionsOf(s) ==
    CASE s.k \in {"expr", "if"} -> {s.e}
      [] s.k \in {"assign", "opassign"} -> {s.l, s.r}
      [] s.k = "multi" -> {s.r} \union {s.ls[n] : n \in DOMAIN s.ls}
      [] s.k = "case"  -> {s.es[n] : n \in DOMAIN s.es}

IsPair(e) == e.k = "op" /\ e.op = ":"

\* A statement cannot end in the comma of a tuple of one item, the pair
\* x : y : z is x : (y : z), and an array within a target of a multiple
\* assignment is taken for targets.
IsMisread(s) ==
    \/ Last(WrittenStatement(s)) = Tok(",")
    \/ \E e \in UNION {Within(x) : x \in ExpressionsOf(s)} : IsPair(e) /\ IsPair(e.of[1])
    \/ s.k = "multi" /\ \E n \in DOMAIN s.ls : \E e \in Within(s.ls[n]) : e.k \in {"array", "tuple"}

=============================================================================
