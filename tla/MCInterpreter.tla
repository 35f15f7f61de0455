--------------------------- MODULE MCInterpreter ---------------------------
(* Enumerates the programs that the interpreter is checked on. *)
EXTENDS Interpreter

CONSTANT
    Deviations   \* which of the constructs that are compiled wrongly to use:
                 \* "break" (of a loop in a handler), "except" (a try with two
                 \* handlers in a handler), "anon" (in front of a try)

Jumps == {"raise", "direct", "return", "break"}

(***************************************************************************)
(* Where a block is: in a loop (loop), one that is in a handler of the     *)
(* innermost try statement around the block (bad); in a handler of that    *)
(* statement (hand); in any except block (exc); in the second function     *)
(* (inner).                                                                *)
(***************************************************************************)
Outside(inner) == [loop |-> FALSE, bad |-> FALSE, hand |-> FALSE,
                   exc |-> FALSE, inner |-> inner]
InLoop(w)    == [w EXCEPT !.loop = TRUE, !.bad = w.hand]
InTry(w)     == [w EXCEPT !.hand = FALSE, !.bad = FALSE]
InExcept(w)  == [w EXCEPT !.hand = TRUE, !.exc = TRUE]
InFinally(w) == [w EXCEPT !.hand = TRUE]

MayBreak(w) == w.loop /\ (w.bad => "break" \in Deviations)
MayTwo(w)   == w.exc => "except" \in Deviations

Simple(ks, w) ==
    {[k |-> x] : x \in ks \cap {"direct", "return", "var", "anon"}}
      \union {[k |-> "break"] : x \in {y \in ks : y = "break" /\ MayBreak(w)}}
      \union {[k |-> x] : x \in IF w.inner THEN {} ELSE ks \cap {"call", "callc"}}
      \union [k : ks \cap {"raise"}, c : Classes]

RECURSIVE Blocks(_, _, _), Statement(_, _, _)

\* The handlers of class c in Cs whose block has n statements.
Handlers(ks, Cs, n, w) == [c : Cs, v : {Cs = Bases}, b : Blocks(ks, n, InExcept(w))]

\* The statements of kinds ks that count as n.
Statement(ks, n, w) ==
    (IF n = 1 THEN Simple(ks, w) ELSE {})
    \union [k : ks \cap {"while", "repeat", "for"}, b : Blocks(ks, n - 1, InLoop(w))]
    \union UNION {[k : ks \cap {"if", "switch"}, b : Blocks(ks, i, w),
                   b2 : Blocks(ks, n - 1 - i, w)] : i \in 0..(n - 1)}
    \union [k : ks \cap {"if"}, b : Blocks(ks, n - 1, w), b2 : {<<>>}]
    \union UNION {[k : ks \cap {"finally"}, b : Blocks(ks, i, InTry(w)),
                   b2 : Blocks(ks, n - 1 - i, InFinally(w))] : i \in 0..(n - 1)}
    \union UNION {[k : ks \cap {"except"}, b : Blocks(ks, i, InTry(w)),
                   h : {<<x>> : x \in Handlers(ks, Bases, n - 1 - i, w)}] :
                     i \in 0..(n - 1)}
    \union UNION {[k : {"except"}, b : Blocks(ks, z[1], InTry(w)),
                   h : {<<x, y>> : x \in Handlers(ks, Classes, z[2], w),
                                   y \in Handlers(ks, Bases, z[3], w)}] :
                     z \in {y \in (0..(n - 1)) \X (0..(n - 1)) \X (0..(n - 1)) :
                              /\ "except2" \in ks /\ MayTwo(w)
                              /\ y[1] + y[2] + y[3] = n - 1}}

\* The blocks of n statements; one that can be left at its end writes there.
Blocks(ks, n, w) ==
    IF n = 0 THEN {<<[k |-> "out"]>>}
    ELSE UNION {{<<s>> \o b : s \in {x \in Statement(ks, i, w) : x.k \notin Jumps},
                              b \in Blocks(ks, n - i, w)} : i \in 1..n}
         \union {<<s>> : s \in {x \in Statement(ks, n, w) : x.k \in Jumps}}
RECURSIVE Calls(_)
Calls(b) == \E i \in DOMAIN b :
               \/ b[i].k \in {"call", "callc"}
               \/ b[i].k \in {"if", "switch", "while", "repeat", "for",
                               "finally", "except"}
                    /\ Calls(b[i].b)
               \/ b[i].k \in {"if", "switch", "finally"} /\ Calls(b[i].b2)
               \/ b[i].k = "except" /\ \E n \in DOMAIN b[i].h : Calls(b[i].h[n].b)

\* A program that calls its second function is combined with every small one.
Programs(ks, n) ==
    LET B == UNION {Blocks(ks, i, Outside(FALSE)) : i \in 1..n}
        F == Blocks(ks, 1, Outside(TRUE))
    IN  UNION {{b} \X (IF Calls(b) THEN F ELSE {<<>>}) : b \in B}

Wide == {"raise", "direct", "return", "break", "var", "call", "callc", "if",
         "switch", "while", "repeat", "for", "except", "except2", "finally"}
Deep == {"raise", "direct", "return", "break", "for", "except", "finally"}
Conditional == {"while", "if", "break", "return", "direct", "finally"}
Deepest == {"direct", "return", "break", "for", "finally"}
\* A block of two handlers raises what the other one names.
Handling == {"raise", "direct", "return", "except2", "finally"}

MCProgram == Programs(Wide, 2) \union Programs(Deep, 3)
               \union Programs(Conditional, 3) \union Programs(Deepest, 4)
               \union Programs(Handling, 3)

MCBreakProgram == Programs({"for", "break", "finally"}, 3)
=============================================================================
