---------------------------- MODULE ExprMachine ----------------------------
(***************************************************************************)
(* The instructions of expressions (interp.c): a statement is compiled and *)
(* then run one instruction at a time.                                     *)
(***************************************************************************)
EXTENDS ExprCompiler

CONSTANTS ExStatements   \* the statements to compile

VARIABLES
    exStmt,   \* the statement
    exCode,   \* the state of the compiler at its end
    exRun     \* the machine: stack, globals, heap, ip, what has been called

exVars == <<exStmt, exCode, exRun>>

NoStatement == [k |-> "none"]
NotCompiled == [k |-> "none"]

\* The frame header and self, the local variables, and the temporaries, which
\* are cleared when the function is called.
FirstTemp == 3 + Cardinality(DOMAIN ExSlots)
FrameOf(size) ==
    [n \in 3 .. size - 1 |->
        IF n >= FirstTemp THEN IntV(0)
        ELSE LET x == CHOOSE y \in DOMAIN ExSlots : ExSlots[y] = n
             IN IF x \in ExExposed THEN <<"box", ExLocals[x]>> ELSE ExLocals[x]]

\* The code, with the branches that leave it given a target of their own.
CodeOf(c) == IF c.err THEN <<>> ELSE ASetBranches(c, c.list, Len(c.buf) + 2).buf
Taken == 2

Loaded(c) == [stack |-> FrameOf(c.num), globals |-> ExGlobals, heap |-> ExHeap, log |-> <<>>, val |-> NilV,
              args |-> <<>>, ip |-> 1]

(***************************************************************************)
(* Instructions.                                                           *)
(***************************************************************************)
Advance(m) == [m EXCEPT !.ip = @ + 1]
Put(m, slot, v) ==
    IF slot \in DOMAIN m.stack THEN Advance([m EXCEPT !.stack[slot] = v]) ELSE Raised(m, "fault")

\* What a step leaves in val goes to a slot, unless it is not wanted.
Result(m, slot) ==
    IF IsError(m.val) THEN m ELSE IF slot >= NoRetVal THEN Advance(m) ELSE Put(m, slot, m.val)
Done(m) == IF IsError(m.val) THEN m ELSE Advance(m)

\* A branch is followed if the comparison, or the slot tested, is true.
Branch(m, displacement) ==
    IF IsError(m.val) THEN m
    ELSE IF m.val[1] # "b" THEN Raised(m, "TypeError")
    ELSE [m EXCEPT !.ip = @ + (IF m.val[2] THEN displacement ELSE 1)]

\* nil and the methods of the class are kept with the global variables.
GlobalOf(m, name) ==
    IF name = "nil" THEN NilV ELSE IF name \in DOMAIN m.globals THEN m.globals[name] ELSE Fn(name)

OperandValue(m, type, num) ==
    CASE type = "L" -> m.stack[num] [] type = "I" -> IntV(num)
      [] type = "G" -> GlobalOf(m, num)

Operate(m, op, l, r, last) ==
    IF op \in Relations THEN Branch(Operation(m, op, l, r), last) ELSE Result(Operation(m, op, l, r), last)

RECURSIVE PutAll(_, _, _, _)
PutAll(m, slots, vs, n) ==
    IF n > Len(slots) THEN Advance(m)
    ELSE PutAll([m EXCEPT !.stack[slots[n]] = vs[n]], slots, vs, n + 1)

OP_EXPAND(m, v, slots) ==
    IF ~IsSequence(m, v) THEN Raised(m, "TypeError")
    ELSE IF Len(ItemsOf(m, v)) # Len(slots) THEN Raised(m, "ValueError")
    ELSE PutAll(m, slots, ItemsOf(m, v), 1)

StackItems(m, first, n) == [i \in 1 .. n |-> m.stack[first + i - 1]]
Slots(m, slots) == [i \in DOMAIN slots |-> m.stack[slots[i]]]

SelfOf(m) == m.stack[3]

\* Instructions that move a value to a slot, ...
ToSlot == {"ASSIGN_IL", "ASSIGN_LL", "ASSIGN_GL", "ASSIGN_ML", "ASSIGN_VL", "ASSIGN_MDL", "ASSIGN_EL", "ASSIGN_FL"}
MoveToSlot(m, i) ==
    CASE i[1] = "ASSIGN_IL"     -> Put(m, i[3], IntV(i[2]))
      [] i[1] = "ASSIGN_LL"     -> Put(m, i[3], m.stack[i[2]])
      [] i[1] = "ASSIGN_GL"     -> Put(m, i[3], GlobalOf(m, i[2]))
      [] i[1] = "ASSIGN_ML"     -> Result(MemberOf(m, m.stack[i[2]], i[3]), i[4])
      [] i[1] = "ASSIGN_VL"     -> Put(m, i[3], m.heap[SelfOf(m)[2]].slots[i[2]])
      [] i[1] = "ASSIGN_MDL"    -> Result(MemberOf(m, SelfOf(m), i[2]), i[4])
      [] i[1] = "ASSIGN_EL"     -> Put(m, i[3], m.stack[i[2]][2])
      [] i[1] = "ASSIGN_FL"     -> Put(m, i[3], <<"method", SelfOf(m), i[2]>>)

\* ... or from one.
FromSlot == {"ASSIGN_LL_REV", "ASSIGN_LG", "ASSIGN_LM", "ASSIGN_LV", "ASSIGN_LMD", "ASSIGN_LE"}
MoveFromSlot(m, i) ==
    CASE i[1] = "ASSIGN_LL_REV" -> Put(m, i[2], m.stack[i[3]])
      [] i[1] = "ASSIGN_LG"     -> Advance([m EXCEPT !.globals[i[2]] = m.stack[i[3]]])
      [] i[1] = "ASSIGN_LM"     -> Done(SetMemberOf(m, m.stack[i[2]], i[3], m.stack[i[4] - NoRetVal]))
      [] i[1] = "ASSIGN_LV"     -> Advance([m EXCEPT !.heap[SelfOf(m)[2]].slots[i[2]] = m.stack[i[3]]])
      [] i[1] = "ASSIGN_LMD"    -> Done(SetMemberOf(m, SelfOf(m), i[3], m.stack[i[4] - NoRetVal]))
      [] i[1] = "ASSIGN_LE"     -> Put(m, i[2], <<"box", m.stack[i[3]]>>)

\* Operations on slots.
Unary1 == {"INC_L", "DEC_L", "MINUS_LL", "ASSIGN_TRUEL_SKIP", "ASSIGN_FALSEL"}
ExecuteUnary(m, i, next) ==
    CASE i[1] = "INC_L"    -> Result(Operation(m, "+", m.stack[i[2]], IntV(1)), i[2])
      [] i[1] = "DEC_L"    -> Result(Operation(m, "-", m.stack[i[2]], IntV(1)), i[2])
      [] i[1] = "MINUS_LL" -> Result(Negated(m, m.stack[i[2]]), i[3])
      [] i[1] = "ASSIGN_TRUEL_SKIP" -> Advance(Put(m, next[2], BoolV(TRUE)))
      [] i[1] = "ASSIGN_FALSEL"     -> Put(m, i[2], BoolV(FALSE))

\* Operations with two operands; GET loads those that are not both in slots.
Binary1 == {"LL", "GET", "OP"}
ExecuteBinary(m, i) ==
    CASE i[1] = "LL"       -> Operate(m, i[2], m.stack[i[3]], m.stack[i[4]], i[5])
      [] i[1] = "GET"      -> Advance([m EXCEPT !.args = <<OperandValue(m, i[2], i[3]), OperandValue(m, i[4], i[5])>>])
      [] i[1] = "OP"       -> Operate(m, i[2], m.args[1], m.args[2], i[3])

OP_IF(m, v, sense, displacement) ==
    Branch(IF v[1] = "b" THEN Valued(m, BoolV(v[2] = (sense = "true"))) ELSE Raised(m, "TypeError"), displacement)

OP_CREATE(m, k, n, first, to) == Put(m, to, <<IF k = "array" THEN "arr" ELSE "tup", StackItems(m, first, n)>>)

OP_CHECK_TYPE(m, v, type) == IF TypeOf(v) = type THEN Advance(m) ELSE Raised(m, "CastError")

ExecuteInstruction(m, i, next) ==
    CASE i[1] \in ToSlot   -> MoveToSlot(m, i)
      [] i[1] \in FromSlot -> MoveFromSlot(m, i)
      [] i[1] \in Unary1   -> ExecuteUnary(m, i, next)
      [] i[1] \in Binary1  -> ExecuteBinary(m, i)
      [] i[1] = "IF"       -> OP_IF(m, m.stack[i[3]], i[2], i[4])
      [] i[1] = "AGET_LLL" -> Result(ItemOf(m, m.stack[i[2]], m.stack[i[3]]), i[4])
      [] i[1] = "AGET_GLL" -> Result(ItemOf(m, GlobalOf(m, i[2]), m.stack[i[3]]), i[4])
      [] i[1] = "ASET_LLL" -> Done(SetItemOf(m, m.stack[i[2]], m.stack[i[3]], m.stack[i[4] - NoRetVal]))
      [] i[1] = "ASET_GLL" -> Done(SetItemOf(m, GlobalOf(m, i[2]), m.stack[i[3]], m.stack[i[4] - NoRetVal]))
      [] i[1] = "CALL_L"   -> Result(CallOf(m, m.stack[i[2]], Slots(m, i[4]), i[3]), i[5])
      [] i[1] = "CALL_G"   -> Result(CallOf(m, GlobalOf(m, i[2]), Slots(m, i[4]), i[3]), i[5])
      [] i[1] = "CALL_M"   -> Result(MemberCallOf(m, m.stack[Head(i[4])], i[2], Slots(m, Tail(i[4])), i[3]), i[5])
      [] i[1] = "CREATE"   -> OP_CREATE(m, i[2], i[3], i[4], i[5])
      [] i[1] = "EXPAND"   -> OP_EXPAND(m, m.stack[i[2]], i[3])
      [] i[1] = "CHECK_TYPE" -> OP_CHECK_TYPE(m, m.stack[i[2]], i[3])

(***************************************************************************)
(* The statement is chosen, compiled and run.                              *)
(***************************************************************************)
ExInit == exStmt = NoStatement /\ exCode = NotCompiled /\ exRun = NotCompiled

ExChoose ==
    /\ exStmt' \in ExStatements
    /\ UNCHANGED <<exCode, exRun>>

ExCompile ==
    LET Ready(c) == exCode' = [code |-> CodeOf(c), err |-> c.err] /\ exRun' = Loaded(c)
    IN Ready(Compiled(exStmt, FirstTemp)) /\ UNCHANGED exStmt

IsEnded == IsError(exRun.val) \/ exRun.ip > Len(exCode.code)

ExStep ==
    /\ ~exCode.err /\ ~IsEnded
    /\ exRun' = ExecuteInstruction(exRun, exCode.code[exRun.ip],
                                   IF exRun.ip < Len(exCode.code) THEN exCode.code[exRun.ip + 1] ELSE <<>>)
    /\ UNCHANGED <<exStmt, exCode>>

ExNext ==
    IF exStmt = NoStatement THEN ExChoose ELSE IF exCode = NotCompiled THEN ExCompile ELSE ExStep

(***************************************************************************)
(* Properties.                                                             *)
(***************************************************************************)
ExStart == [locals |-> ExLocals, globals |-> ExGlobals, heap |-> ExHeap, log |-> <<>>, val |-> NilV, list |-> <<>>]

LocalsOf(m) == [x \in DOMAIN ExSlots |-> IF x \in ExExposed THEN m.stack[ExSlots[x]][2] ELSE m.stack[ExSlots[x]]]

\* The code does to the variables, to the objects and to what is called the
\* same as the statement; if it tests a condition, it goes where it should.
Agrees(m, w) ==
    /\ m.log = w.log /\ m.heap = w.heap /\ m.globals = w.globals /\ LocalsOf(m) = w.locals
    /\ IsError(m.val) = IsError(w.val) /\ (IsError(w.val) => m.val = w.val)
    /\ exStmt.k \in {"if", "case"} /\ ~IsError(w.val)
         => (m.ip = Len(exCode.code) + Taken) = (w.val[2] = (exStmt.k = "if" /\ exStmt.cond))

(***************************************************************************)
(* A statement is refused exactly if it is not one of the language.  One   *)
(* that is compiled calls, reads and changes what the reference manual     *)
(* says, in that order: no temporary is overwritten before it is used, the *)
(* operands of the left side of an operator assignment are evaluated once, *)
(* and the branches of a condition lead where its value says               *)
(* (ParseSubExpression and AParseAssignmentOrExpression in parseexpr.c).   *)
(* This is not so of the statements that IsMisread names.                  *)
(***************************************************************************)
ExpressionsAreExact ==
    exCode # NotCompiled /\ ~IsMisread(exStmt) =>
        /\ exCode.err = ~IsValid(exStmt)
        /\ ~exCode.err /\ IsEnded => Agrees(exRun, Execute(ExStart, exStmt))

=============================================================================
