---------------------------- MODULE ExprCompiler ----------------------------
(***************************************************************************)
(* The expression compiler (parseexpr.c, output.c, output.h): precedence   *)
(* climbing over the tokens, with the code emitted on the way.             *)
(*                                                                         *)
(* An opcode and its arguments are one instruction, a tuple, and code      *)
(* indices count instructions.  An instruction that computes a value is    *)
(* partial until the slot that it writes has been emitted.  A branch holds *)
(* its displacement.                                                       *)
(*                                                                         *)
(* The state of the compiler, c, is                                        *)
(*   toks        the tokens that are left                                  *)
(*   buf, prev   ABuf and APrevOpcodeInd                                   *)
(*   active, num ANumLocalsActive and ANumLocals                           *)
(*   assign      AAssignPos                                                *)
(*   rvalue      AIsRvalue                                                 *)
(*   left        the expression parsed last: its type, the slot, name or   *)
(*               number it refers to, its member, and for a logical one    *)
(*               the branches to follow if it is true and if it is false   *)
(*   err         has an error been reported?  Nothing is parsed after it.  *)
(***************************************************************************)
EXTENDS Expressions

CONSTANTS
    MaxQuickArgs,   \* A_MAX_QUICK_ARGS
    MaxMultiAssign, \* A_MAX_MULTI_ASSIGN
    NoRetVal        \* A_NO_RET_VAL

(***************************************************************************)
(* Expression types.                                                       *)
(***************************************************************************)
AIsLocalExpression(e)  == e.type \in {"local_lv", "local"}
AIsGlobalExpression(e) == e.type \in {"global_lv", "global"}
AIsExposedLocalExpression(e) == e.type \in {"exposed_lv", "exposed"}
AIsArrayExpression(e)  == e.type \in {"array_lv", "array", "array_local_lv"}
AIsTupleExpression(e)  == e.type \in {"tuple_lv", "tuple", "tuple_local_lv"}
AIsMemberExpression(e) == e.type \in {"member_lv", "member", "member_fn"}
AIsPartialExpression(e) ==
    e.type \in {"partial_lv", "partial"} \/ AIsArrayExpression(e) \/ AIsTupleExpression(e)
AIsComplexExpression(e) ==
    AIsMemberExpression(e) \/ AIsExposedLocalExpression(e) \/ AIsPartialExpression(e)
AIsLvalueExpression(e) ==
    e.type \in {"local_lv", "global_lv", "member_lv", "exposed_lv", "partial_lv", "array_lv",
                "array_local_lv", "tuple_lv", "tuple_local_lv"}
AIsCallableExpression(e)  == AIsLocalExpression(e) \/ AIsGlobalExpression(e) \/ AIsMemberExpression(e)
AIsIndexableExpression(e) == AIsLocalExpression(e) \/ AIsGlobalExpression(e)

Expr(type, num, sym) == [type |-> type, num |-> num, sym |-> sym, true |-> <<>>, false |-> <<>>, final |-> 0]
NilExpr == Expr("global", "nil", "")
Is(c, e) == [c EXCEPT !.left = e]

Next1(c) == Head(c.toks).t
AAdvanceTok(c) == [c EXCEPT !.toks = Tail(@)]
AGenerateParseError(c) == [c EXCEPT !.err = TRUE, !.left = Expr("error", 0, "")]

(***************************************************************************)
(* Emitting code.                                                          *)
(***************************************************************************)
AGetCodeIndexX(c) == Len(c.buf) + 1
AEmitOpcode(c, ins) == [c EXCEPT !.buf = Append(@, ins), !.prev = Len(c.buf) + 1]
AEmitArg(c, arg) == [c EXCEPT !.buf[Len(c.buf)] = Append(@, arg)]
AEmitArgs(c, args) == [c EXCEPT !.buf[Len(c.buf)] = @ \o args]
\* The instruction that ABuf[0] holds is the one before the first.
AGetPrevOpcode(c) == IF c.prev = 0 THEN "NOP" ELSE c.buf[c.prev][1]
AUnemitArrayOrTupleCreate(c) == [c EXCEPT !.buf = Front(@)]

Quick == {"+", "-", "==", "!=", "<", ">=", ">", "<="}

\* An operand type and an operand: an expression that is local, global or an
\* integer.
OperandOf(e) == <<IF AIsGlobalExpression(e) THEN "G" ELSE IF e.type = "int" THEN "I" ELSE "L", e.num>>

\* A comparison is a branch, here with no displacement yet.
AEmitBinaryOperation(c, op, l, r) ==
    LET code == IF l[1] = "L" /\ r[1] = "L" /\ op \in Quick
                THEN AEmitOpcode(c, <<"LL", op, l[2], r[2]>>)
                ELSE AEmitOpcode(AEmitOpcode(c, <<"GET">> \o l \o r), <<"OP", op>>)
    IN IF op \in Relations THEN AEmitArg(code, 0) ELSE code

AGetLocalVariable(c) ==
    [c EXCEPT !.active = @ + 1, !.num = IF c.active >= @ THEN c.active + 1 ELSE @]

(***************************************************************************)
(* Branches: lists of the instructions to give a target, and to negate.    *)
(***************************************************************************)
NegatedOp(op) ==
    CASE op = "==" -> "!=" [] op = "!=" -> "==" [] op = "<" -> ">=" [] op = ">=" -> "<"
      [] op = ">" -> "<=" [] op = "<=" -> ">" [] op = "in" -> "not in" [] op = "not in" -> "in"
      [] op = "is" -> "is not" [] op = "is not" -> "is" [] op = "true" -> "false" [] op = "false" -> "true"

AToggleBranches(c, list) ==
    [c EXCEPT !.buf = <<>> \o [n \in DOMAIN @ |-> IF n \in Range(list) THEN [@[n] EXCEPT ![2] = NegatedOp(@)] ELSE @[n]]]
ASetBranches(c, list, to) ==
    [c EXCEPT !.buf = <<>> \o [n \in DOMAIN @ |-> IF n \in Range(list) THEN [@[n] EXCEPT ![Len(c.buf[n])] = to - n] ELSE @[n]]]
ASetBranchesHere(c, list) == ASetBranches(c, list, AGetCodeIndexX(c))

\* The expression that the branch emitted last decides.
LogicalExpr(c) == Is(c, [Expr("logical", 0, "") EXCEPT !.final = c.prev])

(***************************************************************************)
(* Converting expressions.                                                 *)
(***************************************************************************)
\* The false branches, with the final one, go to the second instruction,
\* which the first one skips.
AConvertToValueExpression(c) ==
    LET e     == c.left
        false == <<e.final>> \o e.false
        True1(d) == AEmitOpcode(ASetBranchesHere(d, e.true), <<"ASSIGN_TRUEL_SKIP">>)
        False1(d) == AEmitOpcode(ASetBranchesHere(AToggleBranches(d, false), false), <<"ASSIGN_FALSEL">>)
    IN Is(False1(True1(c)), Expr("partial", 0, ""))

ACreateOpcode(c) ==
    LET e == c.left
    IN CASE AIsLocalExpression(e)  -> AEmitOpcode(c, <<"ASSIGN_LL", e.num>>)
         [] e.type = "int"         -> AEmitOpcode(c, <<"ASSIGN_IL", e.num>>)
         [] AIsGlobalExpression(e) -> AEmitOpcode(c, <<"ASSIGN_GL", e.num>>)
         [] e.type = "logical"     -> AConvertToValueExpression(c)
         [] e.type \in {"member", "member_lv"} -> AEmitOpcode(c, <<"ASSIGN_ML", e.num, e.sym>>)
         [] e.type = "member_fn"   -> AEmitOpcode(c, <<"ASSIGN_FL", e.num>>)
         [] AIsExposedLocalExpression(e) -> AEmitOpcode(c, <<"ASSIGN_EL", e.num>>)
         [] OTHER -> c

AConvertToLocalExpression(c) ==
    LET Stored(d) == AEmitArg(Is(AGetLocalVariable(d), Expr("local", d.active, "")), d.active)
    IN IF c.err THEN c ELSE Stored(ACreateOpcode(c))

ConvertUnlessLocal(c) == IF AIsLocalExpression(c.left) THEN c ELSE AConvertToLocalExpression(c)
\* An operand may stay a variable or an integer.
ConvertComplex(c) ==
    IF AIsComplexExpression(c.left) \/ c.left.type = "logical" THEN AConvertToLocalExpression(c) ELSE c

AConvertToLogicalExpression(c) ==
    LET Local(d) == [AConvertToLocalExpression(d) EXCEPT !.active = d.active]
        Tested(d) == LogicalExpr(AEmitOpcode(d, <<"IF", "true", d.left.num, 0>>))
    IN IF c.left.type = "logical" \/ c.err THEN c
       ELSE Tested(IF AIsLocalExpression(c.left) THEN c ELSE Local(c))

(***************************************************************************)
(* Subexpressions.                                                         *)
(***************************************************************************)
\* A member of the class that is being compiled, by the way it is accessed.
CreateMemberAccess(c, m) ==
    LET kind == ExMembers[m]
    IN CASE kind = "public"      -> Is(c, Expr("member_lv", 3, m))
         [] kind = "constant"    -> Is(c, Expr("member", 3, m))
         [] kind = "method"      -> Is(c, Expr("member_fn", m, ""))
         [] kind = "slot"        -> Is(AEmitOpcode(c, <<"ASSIGN_VL", m>>), Expr("partial_lv", 0, ""))
         [] kind = "slotConst"   -> Is(AEmitOpcode(c, <<"ASSIGN_VL", m>>), Expr("partial", 0, ""))
         [] kind = "accessor"    -> Is(AEmitOpcode(c, <<"ASSIGN_MDL", m, m>>), Expr("partial_lv", 0, ""))

ARecordAssignment(c, n) == [c EXCEPT !.assign[n] = c.prev]

RECURSIVE ParseSubExpression(_, _, _)
RECURSIVE ParseOperators(_, _, _, _)
RECURSIVE ParseArguments(_, _)
RECURSIVE ParseItems(_, _, _, _)

\* The first items, left and the ones after a comma, go to consecutive slots.
\* list has the number of them, and whether each can be assigned to and is a
\* local variable.
ParseItems(c, allowCast, old, list) ==
    LET one  == [n |-> list.n, lvalue |-> list.lvalue /\ AIsLvalueExpression(c.left) /\ list.n <= MaxMultiAssign,
                 local |-> list.local /\ AIsLocalExpression(c.left)]
        Item(d) == IF one.lvalue THEN ARecordAssignment(d, list.n) ELSE d
        More(d) == IF d.err \/ Next1(d) # "," THEN [d EXCEPT !.list = one]
                   ELSE IF Next1(AAdvanceTok(d)) \in {")", "=", "]", "eof"}
                        THEN [AAdvanceTok(d) EXCEPT !.list = one]
                   ELSE ParseItems(ParseSubExpression(AAdvanceTok(d), 4, allowCast), allowCast, old,
                                   [one EXCEPT !.n = @ + 1])
    IN More(Item(AConvertToLocalExpression([c EXCEPT !.active = old + list.n - 1])))

ParseExpressionList(c, allowCast, old, kind) ==
    LET Kind(l) == IF l.lvalue /\ l.local THEN kind \o "_local_lv" ELSE IF l.lvalue THEN kind \o "_lv" ELSE kind
        Created(d) == [Is(AEmitOpcode(d, <<"CREATE", kind, d.list.n, old>>), Expr(Kind(d.list), d.list.n, ""))
                         EXCEPT !.active = old]
    IN Created(ParseItems(c, allowCast, old, [n |-> 1, lvalue |-> ~c.rvalue, local |-> TRUE]))

\* The arguments, with the slots of the first ones in quick and their number
\* in n; the ones after are in the slots taken last.
ParseArguments(c, args) ==
    LET Arg(d) == IF d.err THEN d ELSE IF args.n >= MaxQuickArgs THEN AConvertToLocalExpression(d)
                  ELSE ConvertUnlessLocal(d)
        More(d, a) == IF d.err \/ Next1(d) # "," \/ a.star THEN [d EXCEPT !.list = a]
                      ELSE ParseArguments(AAdvanceTok(d), a)
        Taken(d, star) ==
            More(d, [n |-> args.n + 1, star |-> star,
                     quick |-> IF args.n < MaxQuickArgs THEN Append(args.quick, d.left.num) ELSE args.quick])
        One(d, star) == Taken(Arg(ParseSubExpression(d, 4, TRUE)), star)
    IN IF Next1(c) \in {")", "newline"} THEN [c EXCEPT !.list = args]
       ELSE IF Next1(c) = "*" THEN One(AAdvanceTok(c), TRUE) ELSE One(c, FALSE)

\* The slots of all of the arguments; rest is where the ones that are not
\* quick would begin if every argument had taken one slot.
ArgumentSlots(args, rest) ==
    [i \in 1 .. args.n |-> IF i <= MaxQuickArgs THEN args.quick[i] ELSE rest + i - 1]

WrongNumberOfArgs(e, args) ==
    /\ e.type = "global" /\ e.num \in DOMAIN ExArity
    /\ LET n == args.n - (IF args.star THEN 1 ELSE 0)
       IN (~args.star /\ n < ExArity[e.num][1]) \/ n > ExArity[e.num][2]

AEmitCall(c, e, args) ==
    LET slots == ArgumentSlots(args, c.active - args.n)
    IN CASE e.type \in {"member", "member_lv"} -> AEmitOpcode(c, <<"CALL_M", e.sym, args.star, <<e.num>> \o slots>>)
         [] e.type = "member_fn"   -> AEmitOpcode(c, <<"CALL_G", e.num, args.star, <<3>> \o slots>>)
         [] AIsGlobalExpression(e) -> AEmitOpcode(c, <<"CALL_G", e.num, args.star, slots>>)
         [] OTHER                  -> AEmitOpcode(c, <<"CALL_L", e.num, args.star, slots>>)

ParseCall(c, old) ==
    LET Called1(d, e) == [Is(AEmitCall(d, e, d.list), Expr("partial", 0, "")) EXCEPT !.active = old]
        Done(d, e) == IF d.err THEN d
                      ELSE IF Next1(d) # ")" \/ WrongNumberOfArgs(e, d.list) THEN AGenerateParseError(d)
                      ELSE Called1(AAdvanceTok(d), e)
        Callee(d) == Done(ParseArguments(AAdvanceTok(d), [n |-> 0, star |-> FALSE, quick |-> <<>>]), d.left)
    IN Callee(IF AIsCallableExpression(c.left) THEN c ELSE AConvertToLocalExpression(c))

ParseIndex(c, old) ==
    LET Emitted(d, e) ==
            [Is(AEmitOpcode(d, <<IF AIsLocalExpression(e) THEN "AGET_LLL" ELSE "AGET_GLL", e.num, d.left.num>>),
                Expr("partial_lv", 0, "")) EXCEPT !.active = old]
        Done(d, e) == IF d.err THEN d ELSE IF Next1(d) # "]" THEN AGenerateParseError(d)
                      ELSE Emitted(AAdvanceTok(d), e)
        Base(d) == Done(ConvertUnlessLocal(ParseSubExpression(AAdvanceTok(d), 0, TRUE)), d.left)
    IN Base(IF AIsIndexableExpression(c.left) THEN c ELSE AConvertToLocalExpression(c))

\* The base of a member stays in its slot: the arguments of a call must not
\* overwrite it.
ParseMember(c) ==
    LET Named(d) == Is(AAdvanceTok(d), Expr("member_lv", d.left.num, Head(d.toks).n))
    IN IF Next1(AAdvanceTok(c)) # "name" THEN AGenerateParseError(c)
       ELSE Named(ConvertUnlessLocal(AAdvanceTok(c)))

ParseCast(c) ==
    LET Checked(d) == AAdvanceTok([d EXCEPT !.buf = Append(@, <<"CHECK_TYPE", d.left.num, Head(d.toks).n>>),
                                            !.prev = Len(d.buf) + 1])
    IN IF Next1(AAdvanceTok(c)) # "name" THEN AGenerateParseError(c)
       ELSE Checked(ConvertUnlessLocal(AAdvanceTok(c)))

\* A comparison with the literal nil has it first: no == method is called.
AEmitOperator(c, op, l, r, old) ==
    LET swap == op \in {"==", "!="} /\ AIsGlobalExpression(r) /\ r.num = "nil"
        d    == AEmitBinaryOperation([c EXCEPT !.active = old], op, OperandOf(IF swap THEN r ELSE l),
                                     OperandOf(IF swap THEN l ELSE r))
    IN IF op \in Relations THEN LogicalExpr(d) ELSE Is(d, Expr("partial", 0, ""))

ParseBinary(c, prec, allowCast, old) ==
    LET op == Next1(c)
        Right(d) == IF op = ":" /\ Next1(d) = "]" /\ prec = 0 THEN Is(d, NilExpr)
                    ELSE ParseSubExpression(d, IF Precedence(op) % 2 = 1 THEN Precedence(op) ELSE Precedence(op) + 1,
                                            allowCast)
        Done(d, e) == IF d.err THEN d ELSE AEmitOperator(d, op, e, d.left, old)
        Both(d) == Done(ConvertComplex(Right(AAdvanceTok(d))), d.left)
    IN Both(ConvertComplex(c))

\* The branches of the left operand that lead to the right one are given their
\* target; the final one joins the ones that do not.
ParseLogical(c, allowCast) ==
    LET and == Next1(c) = "and"
        ToRight(d) == ASetBranchesHere(IF and THEN d ELSE AToggleBranches(d, d.left.false),
                                       IF and THEN d.left.true ELSE d.left.false)
        Joined(e, r) == [Expr("logical", 0, "") EXCEPT
                           !.true  = IF and THEN r.true ELSE <<e.final>> \o e.true \o r.true,
                           !.false = IF and THEN <<e.final>> \o e.false \o r.false ELSE r.false,
                           !.final = r.final]
        Done(d, e) == IF d.err THEN d ELSE Is(d, Joined(e, d.left))
        Both(d) == IF d.err THEN d
                   ELSE Done(AConvertToLogicalExpression(
                               ParseSubExpression(AAdvanceTok(ToRight(d)), Precedence(Next1(c)), allowCast)), d.left)
    IN Both(AConvertToLogicalExpression(c))

\* Operators, calls, indices, members and items after the expression left, as
\* long as they bind at least as tightly as prec.
ParseOperators(c, prec, allowCast, old) ==
    LET t == IF c.err THEN "error" ELSE Next1(c)
        Binds(op) == Precedence(op) >= prec
        On(d) == ParseOperators(d, prec, allowCast, old)
    IN CASE t \in {"==", "!=", "<", "<=", ">", ">=", "+", "-", "*", "**", "to", ":", "is", "in"} ->
              IF Binds(t) THEN On(ParseBinary(c, prec, allowCast, old)) ELSE c
         [] t = "as" -> IF allowCast /\ Binds(t) THEN On(ParseCast(c)) ELSE c
         [] t \in {"and", "or"} -> IF Binds(t) THEN On(ParseLogical(c, allowCast)) ELSE c
         [] t = "(" -> On(ParseCall(c, old))
         [] t = "[" -> On(ParseIndex(c, old))
         [] t = "." -> On(ParseMember(c))
         [] t = "," -> IF prec >= 4 THEN c ELSE ParseExpressionList(c, allowCast, old, "tuple")
         [] OTHER   -> c

ParseUnary(c, allowCast, old) ==
    LET Not(d) == IF d.err THEN d
                  ELSE LET e == d.left
                       IN Is(AToggleBranches(d, <<e.final>> \o e.true \o e.false),
                             [e EXCEPT !.true = e.false, !.false = e.true])
        Minus(d) == IF d.err THEN d
                    ELSE [Is(AEmitOpcode(d, <<"MINUS_LL", d.left.num>>), Expr("partial", 0, "")) EXCEPT !.active = old]
        Sub(prec) == ParseSubExpression(AAdvanceTok(c), prec, allowCast)
    IN IF Next1(c) = "not" THEN Not(AConvertToLogicalExpression(Sub(Precedence("not"))))
       ELSE Minus(ConvertUnlessLocal(Sub(UnaryPrecedence)))

ParseBracketed(c, old) ==
    LET Closed(d, t) == IF d.err THEN d ELSE IF Next1(d) = t THEN AAdvanceTok(d) ELSE AGenerateParseError(d)
        Empty(kind)  == Is(AEmitOpcode(AAdvanceTok(AAdvanceTok(c)), <<"CREATE", kind, 0, 0>>), Expr("partial", 0, ""))
        Array(d)     == IF d.err THEN d ELSE ParseExpressionList(d, TRUE, old, "array")
        In           == AAdvanceTok(c)
    IN IF Next1(c) = "("
       THEN IF Next1(In) = ")" THEN Empty("tuple") ELSE Closed(ParseSubExpression(In, 2, TRUE), ")")
       ELSE IF Next1(In) = "]" THEN Empty("array") ELSE Closed(Array(ParseSubExpression(In, 4, TRUE)), "]")

\* self and a member are one expression if the member is one of the class.
ParseSelf(c) ==
    LET d == AAdvanceTok(AAdvanceTok(c))
    IN IF Next1(AAdvanceTok(c)) # "." THEN AAdvanceTok(Is(c, Expr("local", 3, "")))
       ELSE IF Next1(d) # "name" THEN AGenerateParseError(d)
       ELSE IF Head(d.toks).n \in DOMAIN ExMembers THEN AAdvanceTok(CreateMemberAccess(d, Head(d.toks).n))
       ELSE AAdvanceTok(Is(d, Expr("member_lv", 3, Head(d.toks).n)))

ParsePrimary(c, prec, allowCast) ==
    LET tok == Head(c.toks)
    IN CASE tok.t = "var"    -> AAdvanceTok(Is(c, Expr(IF tok.n \in ExExposed THEN "exposed_lv" ELSE "local_lv",
                                                       ExSlots[tok.n], "")))
         [] tok.t = "member" -> AAdvanceTok(CreateMemberAccess(c, tok.n))
         [] tok.t = "global" -> AAdvanceTok(Is(c, Expr(IF tok.n \in ExConsts THEN "global" ELSE "global_lv", tok.n, "")))
         [] tok.t = "nil"    -> AAdvanceTok(Is(c, NilExpr))
         [] tok.t = "int"    -> AAdvanceTok(Is(c, Expr("int", tok.n, "")))
         [] tok.t = "self"   -> ParseSelf(c)
         [] tok.t = ":" /\ prec = 0 -> Is(c, NilExpr)
         [] tok.t \in {"not", "-"} -> ParseUnary(c, allowCast, c.active)
         [] tok.t \in {"(", "["}   -> ParseBracketed(c, c.active)
         [] OTHER -> AGenerateParseError(c)

ParseSubExpression(c, prec, allowCast) ==
    IF c.err THEN c ELSE ParseOperators(ParsePrimary(c, prec, allowCast), prec, allowCast, c.active)

(***************************************************************************)
(* Expressions in statements.                                              *)
(***************************************************************************)
\* The slot of the value is left.num.
AParseExpression(c, allowCast) ==
    LET Done(d) == IF d.err THEN d ELSE [ConvertUnlessLocal([d EXCEPT !.active = c.active]) EXCEPT !.active = c.active]
    IN Done(ParseSubExpression(c, 2, allowCast))

\* A partial instruction computes the value.
AParseAssignExpression(c, allowCast) ==
    LET Done(d) == IF d.err THEN d ELSE [ACreateOpcode(d) EXCEPT !.active = c.active]
    IN Done(ParseSubExpression(c, 2, allowCast))

\* The n values go to the slots from the first one that is not active on.
AParseMultiExpression(c, n) ==
    LET Expanded(d) == AEmitOpcode([d EXCEPT !.active = c.active, !.num = IF @ < c.active + n THEN c.active + n ELSE @],
                                   <<"EXPAND", d.left.num, [i \in 1 .. n |-> c.active + i - 1]>>)
        Done(d) == IF d.err THEN d
                   ELSE IF ~AIsArrayExpression(d.left) /\ ~AIsTupleExpression(d.left)
                   THEN Expanded(AConvertToLocalExpression(d))
                   ELSE IF d.left.num # n THEN AGenerateParseError(d)
                   ELSE AUnemitArrayOrTupleCreate(d)
    IN Done(ParseSubExpression(c, 2, TRUE))

\* Execution goes on after the expression unless it is cond: then it follows
\* the branches that are left in list.
AParseLogicalExpression(c, cond) ==
    LET Taken(e)   == <<e.final>> \o (IF cond THEN e.true ELSE e.false)
        Toggled(d) == AToggleBranches(d, IF cond THEN d.left.false ELSE Taken(d.left))
        Done(d, e) == [ASetBranchesHere(d, IF cond THEN e.false ELSE e.true) EXCEPT !.list = Taken(e)]
        Both(d)    == IF d.err THEN d ELSE Done(Toggled(d), d.left)
    IN Both(AConvertToLogicalExpression(ParseSubExpression(c, 2, TRUE)))

\* The values of a case, each compared with the variable in slot n: a branch
\* to the end of the comparisons if one is equal, but for the last one, a
\* branch to the next case if it is not, which is left in list.
RECURSIVE AParseCaseExpression(_, _, _)
AParseCaseExpression(c, n, equal) ==
    LET Compared(d) == AEmitOpcode(d, <<"GET", "L", n>> \o OperandOf(d.left))
        Branch(d, op) == AEmitOpcode(d, <<"OP", op, 0>>)
        Ended(d) == [ASetBranchesHere(d, equal) EXCEPT !.list = <<d.prev>>, !.active = c.active]
        Next2(d) == AParseCaseExpression(AAdvanceTok(d), n, Append(equal, d.prev))
        Done(d) == IF d.err THEN d
                   ELSE IF Next1(d) = "," THEN Next2(Branch(Compared(d), "=="))
                   ELSE Ended(Branch(Compared(d), "!="))
        Value(d) == IF ~d.err /\ AIsComplexExpression(d.left) THEN AConvertToLocalExpression(d) ELSE d
    IN Done(Value(ParseSubExpression(c, 4, FALSE)))

(***************************************************************************)
(* Assignments: an instruction that reads the left side becomes one that   *)
(* writes to it, and the code of the left side is moved after the one of   *)
(* the right side.                                                         *)
(***************************************************************************)
Toggled(op) ==
    CASE op = "ASSIGN_LL" -> "ASSIGN_LL_REV" [] op = "ASSIGN_GL" -> "ASSIGN_LG" [] op = "ASSIGN_ML" -> "ASSIGN_LM"
      [] op = "ASSIGN_VL" -> "ASSIGN_LV" [] op = "ASSIGN_MDL" -> "ASSIGN_LMD" [] op = "ASSIGN_EL" -> "ASSIGN_LE"
      [] op = "AGET_LLL" -> "ASET_LLL" [] op = "AGET_GLL" -> "ASET_GLL" [] OTHER -> "error"
AIsSpecialAssignmentOpcode(op) == op \in {"AGET_LLL", "AGET_GLL", "ASSIGN_ML", "ASSIGN_MDL"}
Displaced(op, slot) == IF AIsSpecialAssignmentOpcode(op) THEN slot + NoRetVal ELSE slot

AToggleInstruction(c, i) == [c EXCEPT !.buf[i][1] = Toggled(@), !.err = @ \/ Toggled(c.buf[i][1]) = "error"]

ASaveCode(c, from)    == [c EXCEPT !.buf = SubSeq(@, 1, from - 1)]
ARestoreCode(c, code) == [c EXCEPT !.buf = @ \o code, !.prev = 0]

\* x = x + 1 is one instruction.
AEmitAssignmentDestination(c, n) ==
    LET last == Len(c.buf)
        Inc  == /\ AGetPrevOpcode(c) = "OP" /\ c.buf[last][2] \in {"+", "-"}
                /\ c.buf[last - 1] = <<"GET", "L", n, "I", 1>>
    IN IF Inc THEN AEmitArg(AEmitOpcode([c EXCEPT !.buf = SubSeq(@, 1, last - 2)],
                                        <<IF c.buf[last][2] = "+" THEN "INC_L" ELSE "DEC_L">>), n)
       ELSE AEmitArg(c, n)

RECURSIVE ToggleEach(_, _, _, _)
\* The instructions that read the n items of the left side, which have been
\* moved by delta.
ToggleEach(c, i, n, delta) ==
    IF i > n \/ c.err THEN c
    ELSE LET at == c.assign[i] + delta
             Stored(d) == [d EXCEPT !.buf[at][Len(c.buf[at])] = Displaced(c.buf[at][1], c.active + i - 1)]
         IN ToggleEach(Stored(AToggleInstruction(c, at)), i + 1, n, delta)
AToggleMultipleAssignment(c, n, delta) == ToggleEach(c, 1, n, delta)

ParseMultipleAssignment(c, first, old) ==
    LET e        == c.left
        code     == SubSeq(c.buf, first, Len(c.buf) - 1)
        Moved(d) == IF d.err THEN d
                    ELSE AToggleMultipleAssignment([ARestoreCode(d, code) EXCEPT !.rvalue = FALSE], e.num,
                                                   Len(d.buf) + 1 - first)
    IN Moved(AParseMultiExpression([ASaveCode(AAdvanceTok(c), first) EXCEPT
                 !.rvalue = TRUE,
                 !.active = IF e.type \in {"array_local_lv", "tuple_local_lv"} THEN old ELSE @], e.num))

\* The code of the left side, from first on and with op last, goes after that
\* of the right side.
AssignedFrom(c, first, op) ==
    LET Moved(d) == IF d.err THEN d
                    ELSE AEmitArg(ARestoreCode(d, SubSeq(c.buf, first, Len(c.buf))), Displaced(op, d.left.num))
    IN IF c.err THEN c ELSE Moved(AParseExpression(ASaveCode(AAdvanceTok(c), first), TRUE))

ParseSingleAssignment(c, first) ==
    LET Local(d) == IF d.err THEN d ELSE AEmitAssignmentDestination(d, c.left.num)
        Left(d)  == AssignedFrom(AToggleInstruction(d, d.prev), first, AGetPrevOpcode(d))
    IN IF c.left.type = "local_lv" THEN Local(AParseAssignExpression(AAdvanceTok(c), TRUE))
       ELSE Left(ACreateOpcode(c))

\* Faulty variant: the right side may use the slots of the left one.
MaintainNoOperandValues(c) == c

\* The slots that the instruction emitted last reads stay as they are.
MaintainOperandValuesForPreviousOpcode(c) ==
    LET ins == c.buf[c.prev]
        max == CASE ins[1] = "ASSIGN_ML" -> ins[2] [] ins[1] = "AGET_GLL" -> ins[3]
                 [] ins[1] = "AGET_LLL"  -> IF ins[2] > ins[3] THEN ins[2] ELSE ins[3]
                 [] OTHER -> 0
    IN [c EXCEPT !.active = IF @ > max THEN @ ELSE max + 1]

\* The instruction that writes to what the one at i has read.
EmitAssignmentOpcodeForOperatorAssignment(c, i, slot) ==
    LET ins == c.buf[i]
    IN AEmitArg(AEmitOpcode(c, <<Toggled(ins[1])>> \o SubSeq(ins, 2, Len(ins) - 1)), Displaced(ins[1], slot))

\* The value of e op= right: to the slot of e if it is a local variable, else
\* to where the instruction at i has read it from.
OperatorAssigned(d, op, e, i, slot) ==
    LET Computed == AEmitAssignmentDestination(AEmitBinaryOperation(d, op, <<"L", slot>>, OperandOf(d.left)), slot)
    IN IF d.err THEN d
       ELSE IF e.type = "local_lv" THEN Computed
       ELSE EmitAssignmentOpcodeForOperatorAssignment(Computed, i, slot)

OperatorAssignmentFrom(c, e) ==
    OperatorAssigned(ConvertComplex(ParseSubExpression(AAdvanceTok(c), 2, FALSE)), Head(c.toks).op, e, c.prev,
                     c.left.num)

ParseOperatorAssignment(c) ==
    LET e == c.left
    IN IF ~AIsLvalueExpression(e) \/ AIsArrayExpression(e) \/ AIsTupleExpression(e) THEN AGenerateParseError(c)
       ELSE OperatorAssignmentFrom(
                IF e.type = "local_lv" THEN c
                ELSE IF e.type \in {"member_lv", "global_lv", "exposed_lv"}
                THEN MaintainOperandValuesForPreviousOpcode(AConvertToLocalExpression(c))
                ELSE AConvertToLocalExpression(MaintainOperandValuesForPreviousOpcode(c)), e)

ParseExpressionStatement(c) ==
    LET Stored(d) == AEmitArg(AGetLocalVariable(d), d.active)
        Value(d) == IF d.left.type = "logical" THEN AConvertToLocalExpression(d)
                    ELSE IF AIsPartialExpression(d.left)
                    THEN IF AGetPrevOpcode(d) \in {"CALL_L", "CALL_G", "CALL_M"} THEN AEmitArg(d, NoRetVal)
                         ELSE Stored(d)
                    ELSE IF AIsMemberExpression(d.left) THEN Stored(ACreateOpcode(d)) ELSE d
    IN Value(c)

ParseAssignment(d, c) ==
    IF ~AIsLvalueExpression(d.left) THEN AGenerateParseError(d)
    ELSE IF AIsArrayExpression(d.left) \/ AIsTupleExpression(d.left)
    THEN ParseMultipleAssignment(d, Len(c.buf) + 1, c.active)
    ELSE ParseSingleAssignment(d, Len(c.buf) + 1)

\* What follows the first expression; c is the state before it.
ParseAfterExpression(d, c) ==
    CASE d.err -> d
      [] Next1(d) = "="   -> ParseAssignment([d EXCEPT !.active = d.num], c)
      [] Next1(d) = "op=" -> ParseOperatorAssignment(d)
      [] OTHER -> ParseExpressionStatement([d EXCEPT !.active = c.active])

AParseAssignmentOrExpression(c) ==
    LET Ended(d) == IF d.err THEN d
                    ELSE IF Next1(d) # "newline" THEN AGenerateParseError(d)
                    ELSE [d EXCEPT !.num = IF c.num > @ THEN c.num ELSE @, !.active = c.active]
    IN Ended(ParseAfterExpression(ParseSubExpression([c EXCEPT !.num = c.active], 2, TRUE), c))

\* The code of a statement whose locals take the slots up to slots.
Compiled(s, slots) ==
    LET c == [toks |-> Append(WrittenStatement(s), Tok("newline")), buf |-> <<>>, prev |-> 0, active |-> slots,
              num |-> slots, assign |-> [n \in 1 .. MaxMultiAssign |-> 0], rvalue |-> FALSE,
              left |-> Expr("error", 0, ""), list |-> <<>>, err |-> FALSE]
    IN CASE s.k = "if"   -> AParseLogicalExpression(c, s.cond)
         [] s.k = "case" -> AParseCaseExpression(c, ExSlots[s.n], <<>>)
         [] OTHER        -> [AParseAssignmentOrExpression(c) EXCEPT !.list = <<>>]

=============================================================================
