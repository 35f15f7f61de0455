----------------------------- MODULE Statements -----------------------------
(***************************************************************************)
(* The statements of an Alore function and what they mean                  *)
(* (doc/statements.html): a block is a sequence of statements, and a       *)
(* statement is a record whose field k is its kind:                        *)
(*                                                                         *)
(*   out              call a function that writes the variables in scope   *)
(*   var              define a local variable                              *)
(*   raise  [c]       raise an exception of class c                        *)
(*   direct           call a C function that raises ValueError directly    *)
(*   call             call the program's second function                   *)
(*   callc            call a C function that calls the second function     *)
(*   anon             create an anonymous function                         *)
(*   break, return                                                         *)
(*   if [b, b2], while [b], repeat [b], for [b]                            *)
(*   switch [b, b2]   with one case of two values, b, and else b2          *)
(*   except [b, h]    try b with handlers h, each [c, v, b]: a class,      *)
(*                    whether the exception is bound, and a block          *)
(*   finally [b, b2]                                                       *)
(*                                                                         *)
(* The i-th statement of the block at path p has the path Append(p, i):    *)
(* what a program writes, raises and returns is named by the path of the   *)
(* statement that did it.  A condition has no effect; the answers of the   *)
(* conditions, in the order they are evaluated, are an input of the        *)
(* program, and every one after them is false.  A for loop iterates twice. *)
(***************************************************************************)
EXTENDS Integers, Sequences

Classes == {"ValueError", "OtherError"}     \* what is raised
Bases   == Classes \union {"Exception"}     \* what except clauses name

\* Is class c the class b or a subtype of it?
IsSubtype(c, b) == b \in {c, "Exception"}

Iterations == 2

ShortInt(n)  == <<"int", n>>
Nil          == <<"nil">>
Str(p)       == <<"str", p>>
Bool(b)      == <<"bool", b>>
Exc(c, p)    == <<"exc", c, p>>
IsInstance(v) == v[1] = "exc"

Callee == <<2>>     \* the path of the second function; <<1>> is the first

(***************************************************************************)
(* Running.  A run is [out, conds, end]: what has been written, the        *)
(* answers that are left, and how the last statement ended.                *)
(***************************************************************************)
Normal     == <<"normal">>
Breaks     == <<"break">>
Returns(v) == <<"return", v>>
Raises(e)  == <<"raise", e>>

Write(st, v)    == [st EXCEPT !.out = Append(@, v)]
End(st, e)      == [st EXCEPT !.end = e]
Answer(conds)   == conds # <<>> /\ Head(conds)
Rest(conds)     == IF conds = <<>> THEN conds ELSE Tail(conds)
Asked(st)       == [st EXCEPT !.conds = Rest(@)]
AfterLoop(st)   == IF st.end = Breaks THEN End(st, Normal) ELSE st

RECURSIVE Block(_, _, _, _, _, _), Loop(_, _, _, _, _), For(_, _, _, _, _, _)

\* The statements of b from the i-th on.  prog is the program, and env holds
\* the values of the variables in scope.
Block(prog, b, p, i, env, st) ==
    IF i > Len(b) \/ st.end # Normal THEN st
    ELSE LET s     == b[i]
             q     == Append(p, i)
             In(c, n, s1) == Block(prog, c, Append(q, n), 1, env, s1)
             Call  == LET r == Block(prog, prog[2], Callee, 1, <<>>, st)
                      IN  CASE r.end = Normal -> Write(r, <<"ret", Nil>>)
                            [] r.end[1] = "return" ->
                                   Write(End(r, Normal), <<"ret", r.end[2]>>)
                            [] r.end[1] = "raise" -> r
             Try   == In(s.b, 1, st)
             first == LET M == {n \in DOMAIN s.h :
                                   IsSubtype(Try.end[2][2], s.h[n].c)}
                      IN  CHOOSE n \in M \union {0} :
                              IF M = {} THEN n = 0
                              ELSE n \in M /\ \A m \in M : n <= m
             env2  == IF s.k = "var" THEN Append(env, Str(q)) ELSE env
         IN Block(prog, b, p, i + 1, env2,
              CASE s.k = "out"    -> Write(st, <<q>> \o env)
                [] s.k \in {"var", "anon"} -> st
                [] s.k = "raise"  -> End(st, Raises(Exc(s.c, q)))
                [] s.k = "direct" -> End(st, Raises(Exc("ValueError", q)))
                [] s.k \in {"call", "callc"} -> Call
                [] s.k = "break"  -> End(st, Breaks)
                [] s.k = "return" -> End(st, Returns(Str(q)))
                [] s.k = "if"     -> IF Answer(st.conds) THEN In(s.b, 1, Asked(st))
                                     ELSE In(s.b2, 2, Asked(st))
                [] s.k = "switch" ->
                       CASE Answer(st.conds) -> In(s.b, 1, Asked(st))
                         [] ~Answer(st.conds) /\ Answer(Rest(st.conds)) ->
                               In(s.b, 1, Asked(Asked(st)))
                         [] OTHER -> In(s.b2, 2, Asked(Asked(st)))
                [] s.k = "while"  -> IF Answer(st.conds)
                                     THEN Loop(prog, s, q, env, Asked(st))
                                     ELSE Asked(st)
                [] s.k = "repeat" -> Loop(prog, s, q, env, st)
                [] s.k = "for"    -> For(prog, s, q, 1, env, st)
                [] s.k = "except" ->
                       IF Try.end[1] # "raise" \/ first = 0 THEN Try
                       ELSE LET h == s.h[first]
                            IN  Block(prog, h.b, Append(q, 1 + first), 1,
                                      IF h.v THEN Append(env, Try.end[2]) ELSE env,
                                      End(Try, Normal))
                [] s.k = "finally" ->
                       LET f == In(s.b2, 2, End(Try, Normal))
                       IN  IF f.end = Normal THEN End(f, Try.end) ELSE f)

\* The body of a while or repeat loop, and what follows it in the loop.
Loop(prog, s, q, env, st) ==
    LET r == Block(prog, s.b, Append(q, 1), 1, env, st)
    IN  CASE r.end # Normal  -> AfterLoop(r)
          [] Answer(r.conds) -> Loop(prog, s, q, env, Asked(r))
          [] OTHER           -> Asked(r)

For(prog, s, q, n, env, st) ==
    IF n > Iterations \/ st.end # Normal THEN AfterLoop(st)
    ELSE For(prog, s, q, n + 1, env,
             Block(prog, s.b, Append(q, 1), 1, env, st))

\* What the program prog, a pair of blocks, does when its conditions answer
\* conds: what it writes, and how the first function ends.
Meaning(prog, conds) ==
    LET r == Block(prog, prog[1], <<1>>, 1, <<>>,
                   [out |-> <<>>, conds |-> conds, end |-> Normal])
    IN  [out |-> r.out, end |-> IF r.end = Normal THEN Returns(Nil) ELSE r.end]
=============================================================================
