------------------------------ MODULE Compiler ------------------------------
(***************************************************************************)
(* The statement compiler (parse.c, output.h): the code and the exception  *)
(* information of a function.                                              *)
(*                                                                         *)
(* A cell of the opcode array that holds an opcode and its arguments is    *)
(* one instruction here, a record whose field op is the opcode; code       *)
(* indices count instructions, from 1.  The evaluation of an expression    *)
(* is one instruction: only the stack slot that it writes matters.  A      *)
(* condition and the branch on it are one instruction as well.  The tokens *)
(* of a statement matter only to IsDirectTryStatement.                     *)
(*                                                                         *)
(* The state of the parser, cs, is                                         *)
(*   code, info     what has been emitted                                  *)
(*   active         ANumLocalsActive (the frame header is left out)        *)
(*   locals         Locals: the slot and the block depth of each variable, *)
(*                  the newest last; named is FALSE if out does not write  *)
(*                  the variable                                           *)
(*   depth          ABlockDepth                                            *)
(*   loop           LoopDepth                                              *)
(*   try            TryLocalVar, 0 outside every try statement             *)
(*   exits          LoopExits, the newest last                             *)
(*   rets           ReturnBranches                                         *)
(*   fins           FinallyExits: the LEAVE_FINALLY instructions           *)
(***************************************************************************)
EXTENDS Statements, SequencesExt

\* A branch that has not been given a target: so far before the code that
\* nothing is there.
Unset == -1000
\* The target of LEAVE_FINALLY in an outermost finally block, beyond all code.
LastFinally == 1000

AInitFunctionParseState ==
    [code |-> <<>>, info |-> <<>>, active |-> 1, locals |-> <<>>, depth |-> 0,
     loop |-> 0, try |-> 0, exits |-> <<>>, rets |-> <<>>, fins |-> {}]

AGetCodeIndex(cs) == Len(cs.code) + 1
Emit(cs, ins)     == [cs EXCEPT !.code = Append(@, ins)]
Info(cs, e)       == [cs EXCEPT !.info = Append(@, e)]
ASetBranchDest(cs, i, d) == [cs EXCEPT !.code[i].dest = d]
ASetBranches(cs, S, d) ==
    [cs EXCEPT !.code = [i \in DOMAIN @ |->
                            IF i \in S THEN [@[i] EXCEPT !.dest = d] ELSE @[i]]]

\* A branch, or each of several, to the next instruction.
ASetBranchHere(cs, i)   == ASetBranchDest(cs, i, AGetCodeIndex(cs))
ASetBranchesHere(cs, S) == ASetBranches(cs, S, AGetCodeIndex(cs))

AGetLocalVariable(cs, n) == [cs EXCEPT !.active = @ + n]

AddLocalVariableAt(cs, slot, named) ==
    [cs EXCEPT !.locals = Append(@, [slot |-> slot, depth |-> cs.depth,
                                     named |-> named])]

InScope(cs) == LET L == SelectSeq(cs.locals, LAMBDA v : v.named)
               IN  [i \in DOMAIN L |-> L[i].slot]

AEnterBlock(cs) == [cs EXCEPT !.depth = @ + 1]

\* The variables of the block go out of scope, and as many slots are given
\* back as there were variables.
ALeaveBlock(cs) ==
    LET keep == SelectSeq(cs.locals, LAMBDA v : v.depth # cs.depth)
    IN  [cs EXCEPT !.locals = keep, !.depth = @ - 1,
                   !.active = @ - (Len(cs.locals) - Len(keep))]

(***************************************************************************)
(* Is the try statement one that may catch an exception raised directly?   *)
(* The compiler looks ahead over the tokens of the body, with a count of   *)
(* the blocks it is in that leaves out the function that def begins.       *)
(***************************************************************************)
RECURSIVE Tokens(_)

Tokens(b) ==
    LET T(s) == CASE s.k \in {"if", "switch"} -> 
                         <<"open">> \o Tokens(s.b) \o Tokens(s.b2) \o <<"end">>
                  [] s.k \in {"while", "repeat", "for"} ->
                         <<"open">> \o Tokens(s.b) \o <<"end">>
                  [] s.k = "except"  -> <<"open">> \o Tokens(s.b)
                         \o FlattenSeq([n \in DOMAIN s.h |->
                                <<"except", s.h[n].c>> \o Tokens(s.h[n].b)])
                         \o <<"end">>
                  [] s.k = "finally" -> <<"open">> \o Tokens(s.b)
                         \o <<"finally">> \o Tokens(s.b2) \o <<"end">>
                  [] s.k = "anon"    -> <<"def", "end">>
                  [] OTHER           -> <<>>
    IN  FlattenSeq([i \in DOMAIN b |-> T(b[i])])

RECURSIVE SkipTo(_, _, _, _)

\* The first token of kinds S at depth 0 or less, from the i-th on.
SkipTo(toks, i, depth, S) ==
    CASE i > Len(toks) -> i
      [] toks[i] \in S /\ depth <= 0 -> i
      [] OTHER -> SkipTo(toks, i + 1,
                         depth + (CASE toks[i] = "open" -> 1
                                    [] toks[i] = "end"  -> -1
                                    [] OTHER -> 0), S)

RECURSIVE CatchesDirect(_, _)

\* Does one of the except clauses that start at token i catch one?
CatchesDirect(toks, i) ==
    /\ i <= Len(toks) /\ toks[i] = "except"
    /\ \/ toks[i + 1] \in {"Exception", "ValueError"}
       \/ CatchesDirect(toks, SkipTo(toks, i + 2, 0, {"end", "except"}))

(* Faulty variant: a try statement with a finally block is never direct. *)
IsDirectTryStatementExcept(s) ==
    LET toks == Tail(Tokens(<<s>>))
    IN  CatchesDirect(toks, SkipTo(toks, 1, 0, {"except", "finally"}))

IsDirectTryStatement(s) ==
    LET toks == Tail(Tokens(<<s>>))
        i    == SkipTo(toks, 1, 0, {"except", "finally"})
    IN  (i <= Len(toks) /\ toks[i] = "finally") \/ CatchesDirect(toks, i)

(***************************************************************************)
(* Leaving loops, try statements and functions.  The instructions that a   *)
(* break or a return needs depend on the try statements around it, which   *)
(* the parser completes as it comes to the end of each.                    *)
(***************************************************************************)
\* at is the first instruction of the break, jmp its last, or 0 once a
\* finally block has taken it over.
ParseBreakStatement(cs) ==
    LET i   == AGetCodeIndex(cs)
        out == IF cs.try = 0 THEN <<>>
               ELSE <<[op |-> "ASSIGN_PL", slot |-> cs.try, dest |-> Unset],
                      [op |-> "TRY_END", n |-> 0],
                      [op |-> "ASSIGN_IL", n |-> 0, slot |-> cs.try + 2]>>
    IN  [cs EXCEPT !.code  = @ \o Append(out, [op |-> "JMP", dest |-> Unset]),
                   !.exits = Append(@, [at |-> i, jmp |-> i + Len(out),
                                        depth |-> cs.loop, isSet |-> FALSE])]

\* at is the last instruction of the return.
ParseReturnStatement(cs, v) ==
    IF cs.try = 0
    THEN Emit(Emit(cs, [op |-> "ASSIGN_GL", v |-> v, slot |-> cs.active]),
              [op |-> "RET_L", slot |-> cs.active])
    ELSE [cs EXCEPT
            !.code = @ \o <<[op |-> "ASSIGN_GL", v |-> v, slot |-> cs.try + 1],
                            [op |-> "ASSIGN_IL", n |-> 0, slot |-> cs.try + 2],
                            [op |-> "TRY_END", n |-> 0],
                            [op |-> "ASSIGN_NILL", slot |-> cs.try],
                            [op |-> "JMP", dest |-> Unset]>>,
            !.rets = Append(@, [at |-> AGetCodeIndex(cs) + 4, isSet |-> FALSE])]

\* Where in the code the breaks and returns after index begin count the
\* contexts to pop: at once (if no finally block has taken them over), and
\* after the last finally block.
PopNow(cs, begin) ==
    {e.at + 1 : e \in {x \in ToSet(cs.exits) : x.at >= begin /\ ~x.isSet}}
      \union {r.at - 2 : r \in {x \in ToSet(cs.rets) : x.at >= begin /\ ~x.isSet}}
PopLast(cs, begin) ==
    {e.at + 2 : e \in {x \in ToSet(cs.exits) : x.at >= begin}}
      \union {r.at - 3 : r \in {x \in ToSet(cs.rets) : x.at >= begin}}
(* Faulty variant: a finally block never leads to another one. *)
FinallyWithinNone(cs, begin) == {}

FinallyWithin(cs, begin) == {f \in cs.fins : f > begin}

\* The end of the body of a direct try statement.
EndDirectBody(cs, begin) ==
    LET S(c) == PopNow(c, begin) \union PopLast(c, begin) \union FinallyWithin(c, begin)
    IN  [Emit(cs, [op |-> "TRY_END", n |-> 1]) EXCEPT !.code =
           [i \in DOMAIN @ |-> IF i \in S(cs) THEN [@[i] EXCEPT !.n = @ + 1] ELSE @[i]]]

\* The finally block starts here: the breaks, returns and finally blocks of
\* the body lead to it.
EnterFinally(cs, begin) ==
    LET here == AGetCodeIndex(cs)
        tlv  == cs.try
        brk  == {e \in ToSet(cs.exits) : e.at >= begin /\ ~e.isSet}
        ret  == {r \in ToSet(cs.rets) : r.at > begin /\ ~r.isSet}
        slot == [i \in {e.at : e \in brk} \union {r.at - 1 : r \in ret} |-> tlv]
             @@ [i \in {r.at - 4 : r \in ret} |-> tlv + 1]
             @@ [i \in {e.at + 2 : e \in brk} \union {r.at - 3 : r \in ret}
                   |-> tlv + 2]
        c1   == ASetBranches(cs, {e.jmp : e \in brk} \union {r.at : r \in ret}
                                   \union FinallyWithin(cs, begin), here)
        c2   == [c1 EXCEPT !.code = [i \in DOMAIN @ |->
                    IF i \in DOMAIN slot THEN [@[i] EXCEPT !.slot = slot[i]]
                    ELSE @[i]]]
    IN  [c2 EXCEPT
           !.code  = [i \in DOMAIN @ |->
                        IF i \in PopLast(cs, begin) THEN [@[i] EXCEPT !.n = 0]
                        ELSE @[i]],
           !.exits = [i \in DOMAIN @ |->
                        IF @[i] \in brk THEN [@[i] EXCEPT !.isSet = TRUE, !.jmp = 0]
                        ELSE @[i]],
           !.rets  = [i \in DOMAIN @ |->
                        IF @[i] \in ret THEN [@[i] EXCEPT !.isSet = TRUE] ELSE @[i]],
           !.fins  = @ \ FinallyWithin(cs, begin)]

\* The end of a try statement: outside all of them, the returns that no
\* finally block has taken over become plain ones.
LeaveTry(cs, oldTry) ==
    LET c   == [Info(cs, [k |-> "end"]) EXCEPT !.try = oldTry]
        ret == {r.at : r \in {x \in ToSet(c.rets) : ~x.isSet}}
    IN  IF oldTry # 0 THEN c
        ELSE [c EXCEPT !.rets = <<>>,
                       !.code = [i \in DOMAIN @ |->
                           IF i + 1 \in ret
                           THEN [op |-> "RET_L", slot |-> @[i - 3].slot]
                           ELSE @[i]]]

\* The end of a loop: its breaks get their target.
LeaveLoop(cs) ==
    LET here == AGetCodeIndex(cs)
        out  == {e \in ToSet(cs.exits) : e.depth >= cs.loop}
        c    == ASetBranches(cs, {IF e.jmp # 0 THEN e.jmp ELSE e.at : e \in out},
                             here)
    IN  [c EXCEPT !.exits = SelectSeq(@, LAMBDA e : e \notin out)]

(***************************************************************************)
(* The statements.                                                         *)
(***************************************************************************)
RECURSIVE ParseBlock(_, _, _), ParseStatement(_, _, _),
          ParseStatements(_, _, _, _), ParseHandlers(_, _, _, _, _)

ParseElse(cs, s, q, i) ==
    LET j == AGetCodeIndex(cs)
    IN  ASetBranchHere(ParseBlock(ASetBranchHere(Emit(cs, [op |-> "JMP", dest |-> Unset]), i),
                                  s.b2, Append(q, 2)), j)

ParseIfStatement(cs, s, q) ==
    LET i  == AGetCodeIndex(cs)
        c1 == ParseBlock(Emit(cs, [op |-> "IF_FALSE", slot |-> cs.active,
                                   dest |-> Unset]), s.b, Append(q, 1))
    IN  IF s.b2 = <<>> THEN ASetBranchHere(c1, i) ELSE ParseElse(c1, s, q, i)

\* The two values of a case: to the block, which starts at the first
\* instruction after them, if the first is equal; past it if neither is.
AParseCaseExpression(cs) ==
    Emit(Emit(cs, [op |-> "IF_TRUE", slot |-> cs.active,
                   dest |-> AGetCodeIndex(cs) + 2]),
         [op |-> "IF_FALSE", slot |-> cs.active, dest |-> Unset])

\* The rest of the switch, after the JMP that ends its first block.
ParseDefault(cs, s, q, i) ==
    LET j == Len(cs.code)
    IN  ASetBranchHere(ParseBlock(ASetBranchHere(cs, i), s.b2, Append(q, 2)), j)

ParseCases(cs, s, q) ==
    LET i == AGetCodeIndex(cs) - 1
        c == Emit(ParseBlock(cs, s.b, Append(q, 1)), [op |-> "JMP", dest |-> Unset])
    IN  ParseDefault(c, s, q, i)

ParseSwitchStatement(cs, s, q) ==
    LET c1 == AGetLocalVariable(Emit(cs, [op |-> "ASSIGN_GL", v |-> Str(q),
                                          slot |-> cs.active]), 1)
    IN  [ParseCases(AParseCaseExpression(c1), s, q) EXCEPT !.active = @ - 1]

ParseWhileStatement(cs, s, q) ==
    LET top == AGetCodeIndex(cs)
        c1  == ParseBlock(Emit([cs EXCEPT !.loop = cs.depth],
                               [op |-> "JMP", dest |-> Unset]),
                          s.b, Append(q, 1))
        c2  == Emit(ASetBranchHere(c1, top),
                    [op |-> "IF_TRUE", slot |-> cs.active, dest |-> top + 1])
    IN  [LeaveLoop(c2) EXCEPT !.loop = cs.loop]

ParseRepeatStatement(cs, s, q) ==
    LET Until(c) == Emit(c, [op |-> "IF_TRUE", slot |-> c.active,
                             dest |-> AGetCodeIndex(cs)])
        c1 == ParseBlock([cs EXCEPT !.loop = cs.depth], s.b, Append(q, 1))
    IN  [LeaveLoop(Until(c1)) EXCEPT !.loop = cs.loop]

ParseForStatement(cs, s, q) ==
    LET i  == AGetCodeIndex(cs)
        c1 == AEnterBlock([cs EXCEPT !.loop = cs.depth])
        c2 == Emit(AGetLocalVariable(c1, 2),
                   [op |-> "FOR_L", slot |-> cs.active, dest |-> Unset])
        c3 == ParseBlock(AddLocalVariableAt(c2, cs.active, FALSE),
                         s.b, Append(q, 1))
        c4 == Emit(ASetBranchHere(c3, i),
                   [op |-> "FOR_LOOP_RANGE", slot |-> cs.active, dest |-> i + 1])
    IN  [ALeaveBlock(LeaveLoop(c4)) EXCEPT !.active = cs.active, !.loop = cs.loop]

\* The except clauses from the n-th on; outs are the branches to the end of
\* the statement.
ParseHandlers(cs, s, q, n, outs) ==
    IF n > Len(s.h) THEN ASetBranchesHere(cs, outs)
    ELSE LET h  == s.h[n]
             Scope(c)  == IF h.v THEN AddLocalVariableAt(c, cs.try, TRUE) ELSE c
             Except(c) == Info(c, [k |-> "except", slot |-> cs.try, c |-> h.c,
                                   at |-> AGetCodeIndex(c)])
             c1 == AEnterBlock(Emit(cs, [op |-> "JMP", dest |-> Unset]))
             c2 == ParseBlock(Except(Scope(c1)), h.b, Append(q, n + 1))
         IN  ParseHandlers(ALeaveBlock(c2), s, q, n + 1, outs \union {AGetCodeIndex(cs)})

\* The finally block of a try statement that began at begin, and what
\* follows it.
LeaveFinally(cs) ==
    Emit([cs EXCEPT !.fins = @ \union {AGetCodeIndex(cs)}],
         [op |-> "LEAVE_FINALLY", slot |-> cs.try, n |-> 0, dest |-> LastFinally])
FinallyInfo(cs) == Info(cs, [k |-> "finally", slot |-> cs.try, at |-> AGetCodeIndex(cs)])
ParseFinally(cs, s, q, begin) ==
    LET c == Emit(cs, [op |-> "ASSIGN_IL", n |-> 0, slot |-> cs.try])
    IN  LeaveFinally(ParseBlock(EnterFinally(FinallyInfo(c), begin), s.b2, Append(q, 2)))

ParseTryStatement(cs, s, q) ==
    LET direct == IsDirectTryStatement(s)
        begin  == AGetCodeIndex(cs)
        Start(c) == IF direct THEN Emit(c, [op |-> "TRY"]) ELSE c
        Ended(c)   == IF direct THEN EndDirectBody(c, begin) ELSE c
        Catch(c) == IF s.k = "finally" THEN ParseFinally(c, s, q, begin)
                    ELSE ParseHandlers(c, s, q, 1, {})
        c1 == Info([AGetLocalVariable(cs, 3) EXCEPT !.try = cs.active],
                   [k |-> "begin", at |-> begin, direct |-> direct])
    IN  LeaveTry(Catch(Ended(ParseBlock(Start(c1), s.b, Append(q, 1)))), cs.try)

ParseStatement(cs, s, q) ==
    CASE s.k = "out"    -> Emit(cs, [op |-> "WRITE", v |-> q, slot |-> cs.active,
                                     args |-> InScope(cs)])
      [] s.k = "var"    -> AddLocalVariableAt(
                             AGetLocalVariable(
                               Emit(cs, [op |-> "ASSIGN_GL", v |-> Str(q),
                                         slot |-> cs.active]), 1),
                             cs.active, TRUE)
      [] s.k = "anon"   -> cs
      [] s.k = "raise"  -> Emit(cs, [op |-> "RAISE_L", slot |-> cs.active,
                                     v |-> Exc(s.c, q)])
      [] s.k = "direct" -> Emit(cs, [op |-> "CALL_DIRECT",
                                     v |-> Exc("ValueError", q)])
      [] s.k = "call"   -> Emit(Emit(cs, [op |-> "CALL", slot |-> cs.active + 1]),
                                [op |-> "WRITE", v |-> "ret", slot |-> cs.active,
                                 args |-> <<cs.active + 1>>])
      [] s.k = "callc"  -> Emit(Emit(cs, [op |-> "CALL_C", slot |-> cs.active + 1]),
                                [op |-> "WRITE", v |-> "ret", slot |-> cs.active,
                                 args |-> <<cs.active + 1>>])
      [] s.k = "break"  -> ParseBreakStatement(cs)
      [] s.k = "return" -> ParseReturnStatement(cs, Str(q))
      [] s.k = "if"     -> ParseIfStatement(cs, s, q)
      [] s.k = "switch" -> ParseSwitchStatement(cs, s, q)
      [] s.k = "while"  -> ParseWhileStatement(cs, s, q)
      [] s.k = "repeat" -> ParseRepeatStatement(cs, s, q)
      [] s.k = "for"    -> ParseForStatement(cs, s, q)
      [] s.k \in {"except", "finally"} -> ParseTryStatement(cs, s, q)

\* The statements of b from the i-th on.
ParseStatements(cs, b, p, i) ==
    IF i > Len(b) THEN cs
    ELSE ParseStatements(ParseStatement(cs, b[i], Append(p, i)), b, p, i + 1)

ParseBlock(cs, b, p) ==
    ALeaveBlock(ParseStatements(AEnterBlock(cs), b, p, 1))

\* The code and the exception information of the function with body b.
ParseFunctionDefinition(b, p) ==
    LET cs == Emit(ParseBlock(AInitFunctionParseState, b, p), [op |-> "RET"])
    IN  [code |-> cs.code, info |-> cs.info]
=============================================================================
