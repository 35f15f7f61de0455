---------------------------- MODULE Interpreter ----------------------------
(***************************************************************************)
(* The interpreter loop, ARun (interp.c), running the code that the        *)
(* compiler makes of a program, with the search for exception handlers     *)
(* (exception.c) and the stack of exception contexts (runtime.c, thread.h) *)
(* that exceptions raised directly by C code jump to.                      *)
(***************************************************************************)
EXTENDS Compiler

CONSTANTS
    Program,    \* the programs, each a pair of blocks
    MaxConds,   \* the conditions of a run that may be true: the first ones
    MaxLocal    \* number of stack slots of a frame

\* The code of a program: of its first function and of the second.
Compile(g) == <<ParseFunctionDefinition(g[1], <<1>>),
                ParseFunctionDefinition(g[2], Callee)>>

VARIABLES
    prog,       \* the program
    funcs,      \* its functions: the code and the exception information
    answers,    \* the answers that its conditions have given
    frames,     \* the stack: a frame is [fn, ip, loc], the newest last; fn is
                \* 0 in the frame of a C function
    context,    \* t->context: the number of frames (stackPtr) at each TRY; the
                \* first context is that of the C code that runs the program
    exception,  \* t->exception
    mode,       \* "run", "unwind", "done", or "wild": jumped out of the code
    out,        \* what the program has written
    end         \* how the first function ended

vars == <<prog, funcs, answers, frames, context, exception, mode, out, end>>

Slot  == 1..MaxLocal
Frame(f) == [fn |-> f, ip |-> 1, loc |-> [s \in Slot |-> ShortInt(0)]]
CFrame   == [fn |-> 0, ip |-> 0, loc |-> <<>>]

Init ==
    /\ prog \in Program
    /\ funcs = Compile(prog)
    /\ answers = <<>>
    /\ frames = <<Frame(1)>>
    /\ context = <<0>>
    /\ exception = Nil
    /\ mode = "run"
    /\ out = <<>>
    /\ end = Normal

top    == frames[Len(frames)]
stack  == top.loc
ip     == top.ip
Ins    == funcs[top.fn].code[ip]

IsOp(op) == mode = "run" /\ Ins.op = op

InCode(i) == i \in DOMAIN funcs[top.fn].code

\* The top frame continues at i with the slots l.
Goto(i, l) ==
    IF InCode(i)
    THEN frames' = [frames EXCEPT ![Len(frames)].ip = i, ![Len(frames)].loc = l]
         /\ mode' = "run"
    ELSE mode' = "wild" /\ UNCHANGED frames

Store(s, v) == [stack EXCEPT ![s] = v]

\* t->contextIndex -= n
PopContexts(n) == context' = SubSeq(context, 1, Len(context) - n)

source == <<prog, funcs>>
Raise(e) == exception' = e /\ mode' = "unwind"

(***************************************************************************)
(* The opcodes.                                                            *)
(***************************************************************************)
OP_WRITE ==
    /\ IsOp("WRITE")
    /\ out' = Append(out, <<Ins.v>> \o [i \in DOMAIN Ins.args |-> stack[Ins.args[i]]])
    /\ Goto(ip + 1, Store(Ins.slot, Str(Ins.v)))
    /\ UNCHANGED <<source, answers, context, exception, end>>

OP_ASSIGN_GL ==
    /\ IsOp("ASSIGN_GL")
    /\ Goto(ip + 1, Store(Ins.slot, Ins.v))
    /\ UNCHANGED <<source, answers, context, exception, out, end>>

OP_ASSIGN_IL ==
    /\ IsOp("ASSIGN_IL")
    /\ Goto(ip + 1, Store(Ins.slot, ShortInt(Ins.n)))
    /\ UNCHANGED <<source, answers, context, exception, out, end>>

OP_ASSIGN_NILL ==
    /\ IsOp("ASSIGN_NILL")
    /\ Goto(ip + 1, Store(Ins.slot, Nil))
    /\ UNCHANGED <<source, answers, context, exception, out, end>>

OP_ASSIGN_PL ==
    /\ IsOp("ASSIGN_PL")
    /\ Goto(ip + 1, Store(Ins.slot, ShortInt(Ins.dest)))
    /\ UNCHANGED <<source, answers, context, exception, out, end>>

OP_JMP ==
    /\ IsOp("JMP")
    /\ Goto(Ins.dest, stack)
    /\ UNCHANGED <<source, answers, context, exception, out, end>>

\* A condition answers b, and the branch is taken if the answer is on.
Branch(on) ==
    \E b \in IF Len(answers) < MaxConds THEN BOOLEAN ELSE {FALSE} :
        /\ answers' = Append(answers, b)
        /\ Goto(IF b = on THEN Ins.dest ELSE ip + 1, Store(Ins.slot, Bool(b)))
        /\ UNCHANGED <<source, context, exception, out, end>>

OP_IF_TRUE_L  == IsOp("IF_TRUE")  /\ Branch(TRUE)
OP_IF_FALSE_L == IsOp("IF_FALSE") /\ Branch(FALSE)

\* A for loop over a range: the slot holds the loop variable, the next one
\* the end of the range.
OP_FOR_L ==
    /\ IsOp("FOR_L")
    /\ Goto(Ins.dest, [stack EXCEPT ![Ins.slot] = ShortInt(-1),
                                    ![Ins.slot + 1] = ShortInt(Iterations)])
    /\ UNCHANGED <<source, answers, context, exception, out, end>>

OP_FOR_LOOP_RANGE ==
    /\ IsOp("FOR_LOOP_RANGE")
    /\ LET lo == stack[Ins.slot][2] + 1
       IN  IF lo >= stack[Ins.slot + 1][2] THEN Goto(ip + 1, stack)
           ELSE Goto(Ins.dest, Store(Ins.slot, ShortInt(lo)))
    /\ UNCHANGED <<source, answers, context, exception, out, end>>

OP_CALL ==
    /\ IsOp("CALL")
    /\ frames' = Append(frames, Frame(2))
    /\ UNCHANGED <<source, answers, context, exception, mode, out, end>>

\* A C function calls the second function (ACallValue).
OP_CALL_C ==
    /\ IsOp("CALL_C")
    /\ frames' = frames \o <<CFrame, Frame(2)>>
    /\ UNCHANGED <<source, answers, context, exception, mode, out, end>>

\* Return v from the top frame, and from the C function that called it, if
\* one did.
Return(v) ==
    LET below == Front(frames)
        rest  == IF below # <<>> /\ Last(below).fn = 0 THEN Front(below) ELSE below
        n     == Len(rest)
    IN  IF rest = <<>>
        THEN frames' = rest /\ mode' = "done" /\ end' = Returns(v)
        ELSE LET call == funcs[rest[n].fn].code[rest[n].ip]
             IN  /\ frames' = [rest EXCEPT ![n].ip = @ + 1,
                                           ![n].loc[call.slot] = v]
                 /\ UNCHANGED <<mode, end>>

OP_RET_L ==
    /\ IsOp("RET_L")
    /\ Return(stack[Ins.slot])
    /\ UNCHANGED <<source, answers, context, exception, out>>

OP_RET ==
    /\ IsOp("RET")
    /\ Return(Nil)
    /\ UNCHANGED <<source, answers, context, exception, out>>

OP_TRY ==
    /\ IsOp("TRY")
    /\ context' = Append(context, Len(frames))
    /\ Goto(ip + 1, stack)
    /\ UNCHANGED <<source, answers, exception, out, end>>

OP_TRY_END ==
    /\ IsOp("TRY_END")
    /\ PopContexts(Ins.n)
    /\ Goto(ip + 1, stack)
    /\ UNCHANGED <<source, answers, exception, out, end>>

\* The end of a finally block: go on, raise the exception again, finish the
\* break or the return that led here, or go to the next finally block.
OP_LEAVE_FINALLY ==
    /\ IsOp("LEAVE_FINALLY")
    /\ LET s   == Ins.slot
           val == stack[s]
           isBreak == val[1] = "int" /\ val[2] < Ins.dest
       IN  CASE val = ShortInt(0) ->
                  Goto(ip + 1, stack) /\ UNCHANGED <<context, exception, end>>
             [] IsInstance(val) ->
                  Raise(val) /\ UNCHANGED <<frames, context, end>>
             [] isBreak ->
                  /\ PopContexts(stack[s + 2][2])
                  /\ Goto(val[2], stack)
                  /\ UNCHANGED <<exception, end>>
             [] ~isBreak /\ Ins.dest = LastFinally ->
                  /\ PopContexts(stack[s + 2][2])
                  /\ Return(stack[s + 1])
                  /\ UNCHANGED exception
             [] ~isBreak /\ Ins.dest # LastFinally ->
                  LET to == funcs[top.fn].code[Ins.dest - 1].slot
                  IN  /\ PopContexts(Ins.n)
                      /\ Goto(Ins.dest,
                              [i \in Slot |-> IF i \in to..(to + 2)
                                              THEN stack[s + (i - to)] ELSE stack[i]])
                      /\ UNCHANGED <<exception, end>>
    /\ UNCHANGED <<source, answers, out>>

(***************************************************************************)
(* Exceptions.                                                             *)
(***************************************************************************)
OP_RAISE_L ==
    /\ IsOp("RAISE_L")
    /\ Raise(Ins.v)
    /\ frames' = [frames EXCEPT ![Len(frames)].loc = Store(Ins.slot, Ins.v)]
    /\ UNCHANGED <<source, answers, context, out, end>>

\* A C function raises an exception directly: ADispatchException jumps to the
\* newest context, which stays on the stack.  The frames above the one that
\* set it are gone.
CallDirect ==
    /\ IsOp("CALL_DIRECT")
    /\ exception' = Ins.v
    /\ LET n == Last(context)
       IN  /\ frames' = SubSeq(frames, 1, n)
           /\ IF n = 0 THEN mode' = "done" /\ end' = Raises(Ins.v)
              ELSE mode' = "unwind" /\ UNCHANGED end
    /\ UNCHANGED <<source, answers, context, out>>

(***************************************************************************)
(* The search for the handler of an exception of class cls raised at index *)
(* code goes through the exception information.  In its state r, depth is  *)
(* how deep the try statements nest, direct tells which of them have a     *)
(* context, skip is the depth of the statement whose clauses are ignored,  *)
(* and over counts the statements that begin after code.  at is the index  *)
(* of the handler, once it is found, slot where it expects the exception,  *)
(* and pops the number of contexts to pop.                                 *)
(***************************************************************************)
NoContext(r) == [r EXCEPT !.direct[r.depth] = FALSE]

PopContext(r) ==
    IF r.direct[r.depth] THEN [NoContext(r) EXCEPT !.pops = @ + 1] ELSE r

(* Faulty variant: the first instruction of a handler is not in it. *)
IsAheadOrAt(e, code) == e.at >= code

\* Is the handler after the code that raised the exception?
IsAhead(e, code) == e.at > code

Found(r, e) == [PopContext(r) EXCEPT !.at = e.at, !.slot = e.slot]

\* One entry e of the exception information.
ScanInfo(cls, code, r, e) ==
    CASE r.over > 0 ->
           [r EXCEPT !.over = @ + (CASE e.k = "begin" -> 1
                                     [] e.k = "end" -> -1
                                     [] OTHER -> 0)]
      [] r.over = 0 /\ e.k = "begin" ->
           IF e.at > code THEN [r EXCEPT !.over = 1]
           ELSE [r EXCEPT !.depth = @ + 1, !.direct = Append(@, e.direct)]
      [] r.over = 0 /\ e.k = "end" ->
           [r EXCEPT !.depth = @ - 1, !.direct = Front(@),
                     !.skip = IF @ = r.depth THEN 0 ELSE @]
      [] r.over = 0 /\ e.k = "finally" ->
           IF IsAhead(e, code) THEN Found(r, e) ELSE r
      [] r.over = 0 /\ e.k = "except" ->
           CASE IsAhead(e, code) /\ r.depth # r.skip ->
                  IF IsSubtype(cls, e.c) THEN Found(r, e) ELSE PopContext(r)
             [] ~(IsAhead(e, code) /\ r.depth # r.skip) /\ r.skip = 0 ->
                  [NoContext(r) EXCEPT !.skip = r.depth]
             [] OTHER -> r

RECURSIVE ScanFrom(_, _, _, _, _)
ScanFrom(info, i, cls, code, r) ==
    IF i > Len(info) \/ r.at # 0 THEN r
    ELSE ScanFrom(info, i + 1, cls, code, ScanInfo(cls, code, r, info[i]))

AGetExceptionHandler(info, cls, code) ==
    ScanFrom(info, 1, cls, code,
             [depth |-> 0, skip |-> 0, direct |-> <<>>, over |-> 0,
              pops |-> 0, at |-> 0, slot |-> 0])

\* RaiseException: the top frame handles the exception, or is left.  The
\* contexts that the search has passed are popped in either case.
Unwind ==
    /\ mode = "unwind"
    /\ IF frames = <<>>
       THEN /\ mode' = "done" /\ end' = Raises(exception)
            /\ UNCHANGED <<frames, context>>
       ELSE IF top.fn = 0
       THEN frames' = Front(frames) /\ UNCHANGED <<mode, end, context>>
       ELSE LET r == AGetExceptionHandler(funcs[top.fn].info,
                                          exception[2], ip)
            IN  /\ PopContexts(r.pops)
                /\ UNCHANGED end
                /\ IF r.at # 0 THEN Goto(r.at, Store(r.slot, exception))
                   ELSE frames' = Front(frames) /\ UNCHANGED mode
    /\ UNCHANGED <<source, answers, exception, out>>

Next ==
    \/ OP_WRITE \/ OP_ASSIGN_GL \/ OP_ASSIGN_IL \/ OP_ASSIGN_NILL \/ OP_ASSIGN_PL
    \/ OP_JMP \/ OP_IF_TRUE_L \/ OP_IF_FALSE_L \/ OP_FOR_L \/ OP_FOR_LOOP_RANGE
    \/ OP_CALL \/ OP_CALL_C \/ OP_RET_L \/ OP_RET
    \/ OP_TRY \/ OP_TRY_END \/ OP_LEAVE_FINALLY
    \/ OP_RAISE_L \/ CallDirect \/ Unwind

Spec     == Init /\ [][Next]_vars
\* The interpreter loop runs on while the thread does.  This is WF_vars(Next)
\* with its ENABLED spelled out: a step is possible until the program ends.
Halted   == mode \in {"done", "wild"}
FairSpec == Spec /\ ([]<>Halted \/ []<><<TRUE>>_vars)

(***************************************************************************)
(* Properties.                                                             *)
(***************************************************************************)
\* Only the indices of code and slots that exist are used, and a context
\* belongs to a frame.
TypeOK ==
    /\ mode \in {"run", "unwind", "done", "wild"}
    /\ \A i \in DOMAIN frames :
          frames[i].fn # 0 => frames[i].ip \in DOMAIN funcs[frames[i].fn].code
    /\ context # <<>>

\* When a program has ended it has written what its statements say, in that
\* order, and ended the way they say (doc/statements.html), whatever breaks,
\* returns and exceptions crossed which try statements.  It never jumps out
\* of its code.
RunsAsWritten ==
    /\ mode # "wild"
    /\ mode = "done" => [out |-> out, end |-> end] = Meaning(prog, answers)

\* No exception context outlives the call that set it: ADispatchException
\* never jumps into a frame that has been left (interp.c, OP_TRY: "stack
\* frames below the original frame can be skipped without having to pop from
\* the context stack").
ContextsAreLive ==
    \A i \in DOMAIN context : context[i] <= Len(frames)

\* A program that has ended has popped every context that it pushed
\* (AEndAloreProgram reports any other number as an internal error), except
\* that of the handler that C code runs the program under.
ContextsAreBalanced ==
    mode = "done" => context = <<0>>

\* Exception contexts are sound: they belong to calls that have not been left,
\* and a program that ends leaves none behind.
ContextsAreSound == TypeOK /\ ContextsAreLive /\ ContextsAreBalanced

\* Every program whose conditions are false in the end comes to its end.
Terminates == <>(mode = "done")
=============================================================================
