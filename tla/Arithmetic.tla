----------------------------- MODULE Arithmetic -----------------------------
(***************************************************************************)
(* The arithmetic and comparison operators as the interpreter evaluates    *)
(* them (interp.c, runtime.c) and as C modules do (aloreapi.c), for every  *)
(* combination of operand types.                                           *)
(*                                                                         *)
(* Beside integers there are floats [t |-> "float", n, d] (the number n/d, *)
(* infinity if d is 0), strings, instances and constants.  An operator     *)
(* returns a value, an error [t |-> "error", e], a call of a method of an  *)
(* instance [t |-> "call", m, args], or Undefined.                         *)
(***************************************************************************)
EXTENDS LongInt, FiniteSets

CONSTANTS
    ArithInts,      \* the integers among the operands
    ArithOthers,    \* the other operands
    MaxPower,       \* bound: the largest exponent
    ArithDeviations \* whether the operands that Deviates names are used, too

ASSUME ArithBounds == ArithInts \subseteq Int /\ MaxPower \in Nat /\ ArithDeviations \in BOOLEAN

VARIABLES
    arith,     \* the last operation: its operands, what the interpreter and
               \* what the C API returned
    forLoop    \* a loop over a range of integers

arithVars == <<arith, forLoop>>

Float(n, d) == [t |-> "float", n |-> n, d |-> d]
Error(e)    == [t |-> "error", e |-> e]
Call(m, args) == [t |-> "call", m |-> m, args |-> args]
Str(s)      == [t |-> "str", s |-> s]

AIsFloat(v)    == v.t = "float"
AIsStr(v)      == v.t = "str"
AIsInstance(v) == v.t = "inst"
IsNumber(v)    == AIsInt(v) \/ AIsFloat(v)
AZero          == Short(0)
TypeError      == Error("TypeError")
DivisionByZero == Error("ArithmeticError")

ALongIntToFloat(v) == Float(IntValue(v), 1)

\* The operands with a common type, or a TypeError.
ACoerce(l, r) ==
    LET to(v, w) == CASE AIsFloat(w) -> IF AIsFloat(v) THEN v ELSE ALongIntToFloat(v)
                      [] AIsLongInt(w) /\ AIsShortInt(v) -> ACreateLongIntFromInt(v.n)
                      [] OTHER -> v
    IN  IF IsNumber(l) /\ IsNumber(r) THEN [ok |-> TRUE, l |-> to(l, r), r |-> to(r, l)]
        ELSE [ok |-> FALSE, l |-> l, r |-> r]

FloatFloor(f, g) == Float(IF g.n > 0 THEN f.n \div g.n ELSE (-f.n) \div (-g.n), 1)

\* fmod has the sign of the dividend.
FloatMod(f, g) ==
    LET m == IF f.n < 0 THEN -(Abs(f.n) % Abs(g.n)) ELSE f.n % Abs(g.n)
    IN  Float(IF m * g.n < 0 THEN m + g.n ELSE m, 1)

FloatPow(f, g) == IF g.n = 0 THEN Float(1, 1)
                  ELSE IF g.n > 0 THEN Float(f.n ^ g.n, 1) ELSE Float(1, f.n ^ (-g.n))

APowFloatInt(f, v) ==
    IF f.n = 0 THEN Float(IF v = AZero THEN 1 ELSE 0, 1) ELSE FloatPow(f, ALongIntToFloat(v))

ARepeatString(s, n) ==
    IF n < 0 THEN Error("ValueError") ELSE Str(FlattenSeq([i \in 1..n |-> s.s]))

(***************************************************************************)
(* Powers: base^exp * val stays the same.  The loop goes over to long      *)
(* integers as soon as one of them is long.                                *)
(***************************************************************************)
RECURSIVE LongPow(_, _, _)
LongPow(base, val, exp) ==
    CASE exp = 0     -> val
      [] exp % 2 = 0 -> LongPow(AMultiplyLongInt(base, base), val, exp \div 2)
      [] OTHER       -> LongPow(base, AMultiplyLongInt(val, base), exp - 1)

RECURSIVE ShortPow(_, _, _)
ShortPow(base, val, exp) ==
    LET Square(b) == IF AIsLongInt(b)
                     THEN LongPow(b, AMultiplyLongInt(ACreateLongIntFromInt(val), b), exp \div 2 - 1)
                     ELSE ShortPow(b.n, val, exp \div 2)
        Times(v)  == IF AIsLongInt(v) THEN LongPow(ACreateLongIntFromInt(base), v, exp - 1)
                     ELSE ShortPow(base, v.n, exp - 1)
    IN  CASE exp = 0 -> Short(val)
          [] exp # 0 /\ exp % 2 = 0 -> Square(AMultiplyShortInt(base, base))
          [] OTHER -> Times(AMultiplyShortInt(val, base))

APowInt(base, exp) ==
    IF AIsLongInt(exp)
    THEN CASE exp.neg -> Error("ArithmeticError")
           [] ~exp.neg /\ base \in {AZero, Short(1)} -> base
           [] ~exp.neg /\ base = Short(-1) -> Short(IF exp.d[1] % 2 = 0 THEN 1 ELSE -1)
           [] OTHER -> Error("ValueError")
    ELSE CASE exp.n = 0 -> Short(1)
           [] exp.n < 0 -> Error("ArithmeticError")
           [] OTHER -> IF AIsLongInt(base) THEN LongPow(base, base, exp.n - 1)
                       ELSE ShortPow(base.n, base.n, exp.n - 1)

(***************************************************************************)
(* The opcodes.  Operands that both are short integers are a fast path.    *)
(***************************************************************************)
\* The overflow tests compare signs.
FitsShort(n) == WrapShort(n) = n

IntAdd(l, r) == IF FitsShort(l + r) THEN Short(l + r) ELSE ACreateLongIntFromInt(l + r)
IntSub(l, r) == IF FitsShort(l - r) THEN Short(l - r) ELSE ACreateLongIntFromInt(l - r)

IntMul(l, r) ==
    IF AHi(l) = 0 /\ AHi(r) = 0 /\ WrapShort(l * r) >= 0 THEN Short(WrapShort(l * r))
    ELSE AMultiplyShortInt(l, r)

IntOper(op, l, r) ==
    CASE op = "*"  -> IntMul(l.n, r.n)
      [] op = "/"  -> IF r = AZero THEN DivisionByZero ELSE Float(l.n, r.n)
      [] op = "div" -> IF r = AZero THEN DivisionByZero ELSE AIntDivMod(l.n, r.n).div
      [] op = "mod" -> IF r = AZero THEN DivisionByZero ELSE AIntDivMod(l.n, r.n).mod
      [] op = "**"  -> APowInt(l, r)

RECURSIVE AddOper(_, _)
AddOper(l, r) ==
    CASE AIsFloat(l) /\ AIsFloat(r) -> Float(l.n + r.n, 1)
      [] AIsInstance(l)             -> Call("_add", <<l, r>>)
      [] AIsInstance(r) /\ IsNumber(l) -> Call("_add", <<r, l>>)
      [] AIsStr(l) -> IF AIsStr(r) THEN Str(l.s \o r.s) ELSE TypeError
      [] AIsLongInt(l) /\ AIsLongInt(r) -> AAddLongInt(l, r)
      [] OTHER -> LET c == ACoerce(l, r) IN IF c.ok THEN AddOper(c.l, c.r) ELSE TypeError

RECURSIVE SubOper(_, _)
SubOper(l, r) ==
    CASE AIsFloat(l) /\ AIsFloat(r) -> Float(l.n - r.n, 1)
      [] AIsInstance(l)             -> Call("_sub", <<l, r>>)
      [] AIsLongInt(l) /\ AIsLongInt(r) -> ASubLongInt(l, r)
      [] OTHER -> LET c == ACoerce(l, r) IN IF c.ok THEN SubOper(c.l, c.r) ELSE TypeError

RECURSIVE MulOper(_, _)
MulOper(l, r) ==
    CASE AIsFloat(l) /\ AIsFloat(r) -> Float(l.n * r.n, 1)
      [] AIsInstance(l)             -> Call("_mul", <<l, r>>)
      [] AIsInstance(r) /\ IsNumber(l) -> Call("_mul", <<r, l>>)
      [] AIsLongInt(l) /\ AIsLongInt(r) -> AMultiplyLongInt(l, r)
      [] AIsStr(l) -> IF AIsShortInt(r) THEN ARepeatString(l, r.n) ELSE TypeError
      [] AIsStr(r) -> IF AIsShortInt(l) THEN ARepeatString(r, l.n) ELSE TypeError
      [] OTHER -> LET c == ACoerce(l, r) IN IF c.ok THEN MulOper(c.l, c.r) ELSE TypeError

RECURSIVE DivOper(_, _)
\* The exception of a float division by zero is never created.
DivOper(l, r) ==
    CASE AIsFloat(l) /\ AIsFloat(r) -> IF r.n = 0 THEN Undefined ELSE Float(l.n, r.n)
      [] AIsInstance(l)             -> Call("_div", <<l, r>>)
      [] AIsLongInt(l) /\ AIsLongInt(r) -> Float(IntValue(l), IntValue(r))
      [] OTHER -> LET c == ACoerce(l, r) IN IF c.ok THEN DivOper(c.l, c.r) ELSE TypeError

DivOrMod(op, x) == IF op = "div" THEN x.div ELSE x.mod

RECURSIVE DivModOper(_, _, _)
\* div and mod
DivModOper(op, l, r) ==
    CASE AIsLongInt(l) /\ AIsLongInt(r) ->
           DivOrMod(op, ADivModLongInt(l, r))
      [] AIsInstance(l) -> Call(IF op = "div" THEN "_idiv" ELSE "_mod", <<l, r>>)
      [] AIsFloat(l) /\ AIsFloat(r) ->
           IF r.n = 0 THEN DivisionByZero
           ELSE IF op = "div" THEN FloatFloor(l, r) ELSE FloatMod(l, r)
      [] r = AZero /\ AIsLongInt(l) -> DivisionByZero
      [] OTHER -> LET c == ACoerce(l, r) IN IF c.ok THEN DivModOper(op, c.l, c.r) ELSE TypeError

RECURSIVE PowOper(_, _)
PowOper(l, r) ==
    CASE AIsFloat(l) /\ AIsFloat(r) -> IF l.n < 0 THEN Error("ArithmeticError") ELSE FloatPow(l, r)
      [] AIsInt(l) /\ AIsInt(r)     -> APowInt(l, r)
      [] AIsFloat(l) /\ AIsInt(r)   -> APowFloatInt(l, r)
      [] AIsInstance(l)             -> Call("_pow", <<l, r>>)
      [] OTHER -> LET c == ACoerce(l, r) IN IF c.ok THEN PowOper(c.l, c.r) ELSE TypeError

OP_ADD_LLL(l, r) ==
    IF AIsShortInt(l) /\ AIsShortInt(r) THEN IntAdd(l.n, r.n) ELSE AddOper(l, r)
OP_SUB_LLL(l, r) ==
    IF AIsShortInt(l) /\ AIsShortInt(r) THEN IntSub(l.n, r.n) ELSE SubOper(l, r)

Opcode(op, l, r) ==
    IF op = "+" THEN OP_ADD_LLL(l, r)
    ELSE IF op = "-" THEN OP_SUB_LLL(l, r)
    ELSE IF AIsShortInt(l) /\ AIsShortInt(r) THEN IntOper(op, l, r)
    ELSE CASE op = "*"  -> MulOper(l, r)
           [] op = "/"  -> DivOper(l, r)
           [] op = "**" -> PowOper(l, r)
           [] OTHER     -> DivModOper(op, l, r)

OP_INC_L(v) ==
    CASE AIsShortInt(v) -> IF v.n # A_SHORT_INT_MAX THEN Short(v.n + 1)
                           ELSE ACreateLongIntFromInt(A_SHORT_INT_MAX + 1)
      [] AIsFloat(v)    -> Float(v.n + 1, 1)
      [] AIsLongInt(v)  -> AAddLongIntSingle(v, 1)
      [] OTHER          -> Call("_add", <<v, Short(1)>>)

OP_DEC_L(v) ==
    CASE AIsShortInt(v) -> IF v.n # A_SHORT_INT_MIN THEN Short(v.n - 1)
                           ELSE ACreateLongIntFromInt(A_SHORT_INT_MIN - 1)
      [] AIsFloat(v)    -> Float(v.n - 1, 1)
      [] AIsLongInt(v)  -> ASubLongIntSingle(v, 1)
      [] OTHER          -> Call("_sub", <<v, Short(1)>>)

OP_MINUS_LL(v) ==
    CASE AIsShortInt(v) -> IF v.n = A_SHORT_INT_MIN THEN ACreateLongIntFromInt(-A_SHORT_INT_MIN)
                           ELSE Short(-v.n)
      [] AIsFloat(v)    -> Float(-v.n, 1)
      [] AIsLongInt(v)  -> ANegateLongInt(v)
      [] OTHER          -> Call("_neg", <<v>>)

(***************************************************************************)
(* The same operators in the C API.                                        *)
(***************************************************************************)
\* The operands are coerced once; f is for floats, g for long integers.
Coerced(l, r, f(_, _), g(_, _)) ==
    LET c == ACoerce(l, r)
    IN  CASE ~c.ok -> TypeError
          [] AIsLongInt(c.l) /\ AIsLongInt(c.r) -> g(c.l, c.r)
          [] AIsFloat(c.l) -> f(c.l, c.r)
          [] OTHER -> TypeError

AAdd(l, r) ==
    CASE AIsShortInt(l) /\ AIsShortInt(r) -> IntAdd(l.n, r.n)
      [] AIsInstance(l) -> Call("_add", <<l, r>>)
      [] AIsInstance(r) /\ IsNumber(l) -> Call("_add", <<r, l>>)
      [] AIsStr(l) -> IF AIsStr(r) THEN Str(l.s \o r.s) ELSE TypeError
      [] OTHER -> Coerced(l, r, LAMBDA f, g : Float(f.n + g.n, 1), AAddLongInt)

ASub(l, r) ==
    CASE AIsShortInt(l) /\ AIsShortInt(r) -> IntSub(l.n, r.n)
      [] AIsInstance(l) -> Call("_sub", <<l, r>>)
      [] OTHER -> Coerced(l, r, LAMBDA f, g : Float(f.n - g.n, 1), ASubLongInt)

AMul(l, r) ==
    CASE AIsShortInt(l) /\ AIsShortInt(r) -> IntMul(l.n, r.n)
      [] AIsInstance(l) -> Call("_mul", <<l, r>>)
      [] AIsInstance(r) /\ IsNumber(l) -> Call("_mul", <<r, l>>)
      [] AIsShortInt(l) /\ AIsStr(r) -> ARepeatString(r, l.n)
      [] AIsShortInt(r) /\ AIsStr(l) -> ARepeatString(l, r.n)
      [] OTHER -> Coerced(l, r, LAMBDA f, g : Float(f.n * g.n, 1), AMultiplyLongInt)

ADiv(l, r) ==
    CASE r = AZero -> DivisionByZero
      [] AIsShortInt(l) /\ AIsShortInt(r) -> Float(l.n, r.n)
      [] AIsInstance(l) -> Call("_div", <<l, r>>)
      [] OTHER -> Coerced(l, r,
                    LAMBDA f, g : IF g.n = 0 THEN DivisionByZero ELSE Float(f.n, g.n),
                    LAMBDA a, b : Float(IntValue(a), IntValue(b)))

AIntDiv(l, r) ==
    CASE AIsShortInt(l) /\ AIsShortInt(r) ->
           IF r = AZero THEN DivisionByZero ELSE AIntDivMod(l.n, r.n).div
      [] AIsInstance(l) -> Call("_idiv", <<l, r>>)
      [] r = AZero      -> DivisionByZero
      [] OTHER -> Coerced(l, r,
                    LAMBDA f, g : IF g.n = 0 THEN DivisionByZero ELSE FloatFloor(f, g),
                    LAMBDA a, b : ADivModLongInt(a, b).div)

AMod(l, r) ==
    CASE AIsShortInt(l) /\ AIsShortInt(r) ->
           IF r = AZero THEN DivisionByZero ELSE AIntDivMod(l.n, r.n).mod
      [] AIsInstance(l) -> Call("_mod", <<l, r>>)
      [] r = AZero      -> DivisionByZero
      [] OTHER -> Coerced(l, r,
                    LAMBDA f, g : IF g.n = 0 THEN DivisionByZero ELSE FloatMod(f, g),
                    LAMBDA a, b : ADivModLongInt(a, b).mod)

APow(l, r) ==
    CASE AIsInt(l) /\ AIsInt(r)   -> APowInt(l, r)
      [] AIsFloat(l) /\ AIsInt(r) -> APowFloatInt(l, r)
      [] AIsInstance(l)           -> Call("_pow", <<l, r>>)
      [] OTHER -> LET c == ACoerce(l, r)
                  IN  CASE ~c.ok -> TypeError
                        [] c.l.n < 0 -> Error("ArithmeticError")
                        [] OTHER -> FloatPow(c.l, c.r)

ANeg(v) == IF IsNumber(v) \/ AIsInstance(v) THEN OP_MINUS_LL(v) ELSE TypeError

Api(op, l, r) ==
    CASE op = "+"   -> AAdd(l, r)
      [] op = "-"   -> ASub(l, r)
      [] op = "*"   -> AMul(l, r)
      [] op = "/"   -> ADiv(l, r)
      [] op = "div" -> AIntDiv(l, r)
      [] op = "mod" -> AMod(l, r)
      [] op = "**"  -> APow(l, r)

(***************************************************************************)
(* Comparisons.                                                            *)
(***************************************************************************)
Bool(b) == [t |-> "bool", b |-> b]

RECURSIVE ACompareStrings(_, _)
\* Negative, zero or positive.
ACompareStrings(s, u) ==
    CASE s = <<>> \/ u = <<>> -> Len(s) - Len(u)
      [] s[1] # u[1] -> s[1] - u[1]
      [] OTHER -> ACompareStrings(Tail(s), Tail(u))

RECURSIVE AIsEqual(_, _)
AIsEqual(l, r) ==
    CASE AIsInstance(l) -> Call("_eq", <<l, r>>)
      [] AIsInstance(r) /\ IsNumber(l) -> AIsEqual(r, l)
      [] AIsStr(l)      -> Bool(AIsStr(r) /\ ACompareStrings(l.s, r.s) = 0)
      [] AIsFloat(l)    -> Bool(\/ AIsFloat(r) /\ l.n = r.n
                                \/ AIsInt(r) /\ l.n = IntValue(r))
      [] AIsLongInt(l)  -> CASE AIsLongInt(r) -> Bool(ACompareLongInt(l, r) = 0)
                             [] AIsFloat(r)   -> AIsEqual(r, l)
                             [] OTHER         -> Bool(FALSE)
      [] AIsShortInt(l) /\ ~AIsShortInt(r) -> AIsEqual(r, l)
      [] OTHER -> Bool(l = r)

Order == {"<", "<=", ">", ">="}

ASwitchOperator(op) == CASE op = "<" -> ">" [] op = ">" -> "<" [] op = "<=" -> ">=" [] OTHER -> "<="

\* Whether a difference satisfies the operator.
Satisfies(op, n) ==
    CASE op = "<" -> n < 0 [] op = "<=" -> n <= 0 [] op = ">" -> n > 0 [] OTHER -> n >= 0

RECURSIVE ACompareOrder(_, _, _)
\* _lt and _gt of an instance are also used, negated, for >= and <=.
ACompareOrder(op, l, r) ==
    CASE AIsInstance(l) ->
           [t |-> "call", m |-> IF op \in {"<", ">="} THEN "_lt" ELSE "_gt",
            args |-> <<l, r>>, negated |-> op \in {"<=", ">="}]
      [] AIsInstance(r) /\ IsNumber(l)  -> ACompareOrder(ASwitchOperator(op), r, l)
      [] AIsFloat(l) /\ AIsFloat(r)     -> Bool(Satisfies(op, l.n - r.n))
      [] AIsStr(l) /\ AIsStr(r)         -> Bool(Satisfies(op, ACompareStrings(l.s, r.s)))
      [] AIsLongInt(l) /\ AIsLongInt(r) -> Bool(Satisfies(op, ACompareLongInt(l, r)))
      [] AIsShortInt(l) /\ AIsShortInt(r) -> Bool(Satisfies(op, l.n - r.n))
      [] IsNumber(l) /\ IsNumber(r) -> LET c == ACoerce(l, r) IN ACompareOrder(op, c.l, c.r)
      [] OTHER -> TypeError

(***************************************************************************)
(* One operation after the other.                                          *)
(***************************************************************************)
RECURSIVE Digits(_)
Digits(n) == IF n < Base THEN <<n>> ELSE <<Digit(n)>> \o Digits(n \div Base)
IntOf(n) == IF FitsShort(n) THEN Short(n) ELSE Long(n < 0, Digits(Abs(n)))

Operands == {IntOf(n) : n \in ArithInts} \union ArithOthers

Binary == {"+", "-", "*", "/", "div", "mod", "**"}
Unary  == {"inc", "dec", "neg"}

\* The operands for which the code computes something else than the integer
\* (or the float, or the error) that it should:
\*  - a product of short integers that is negative and just too large;
\*  - the quotient of an integer by one that is longer by two digits;
\*  - the remainder of a long integer by a short negative one of one digit;
\*  - a division of a float or a long integer by zero, and the division of an
\*    instance, or of what is not a number, by zero in the API;
\*  - the negation of a long integer whose lower digits are those of -MIN.
Deviates(op, l, r) ==
    \/ /\ op \in {"*", "**"} /\ AIsShortInt(l) /\ AIsShortInt(r)
       /\ op = "*" => /\ ~FitsShort(l.n * r.n)
                      /\ ~AIsLongInt(AMultiplyShortInt(l.n, r.n))
       /\ op = "**" => l.n < 0 /\ r.n > 2
    \/ /\ op \in {"div", "mod"} /\ AIsInt(l) /\ AIsLongInt(r)
       /\ Len(r.d) > Len(Digits(Abs(IntValue(l)))) + 1
    \/ /\ op = "mod" /\ AIsLongInt(l) /\ AIsShortInt(r)
       /\ ~l.neg /\ r.n < 0 /\ -r.n < Base
    \/ /\ op = "/"
       /\ \/ AIsFloat(r) /\ r.n = 0 /\ IsNumber(l)
          \/ r = AZero /\ ~AIsShortInt(l)
    \/ op \in {"div", "mod"} /\ r = AZero /\ ~IsNumber(l) /\ ~AIsInstance(l)
    \/ /\ op = "neg" /\ AIsLongInt(l)
       /\ ~l.neg /\ Len(l.d) > 2 /\ l.d[1] = 0 /\ l.d[2] = TopOfShort

NoArith == [op |-> "none"]
NoLoop  == [state |-> "none"]

ArithInit == arith = NoArith /\ forLoop = NoLoop

\* MaxPower bounds the digits of a power.
Magnitude(v) == Abs(IF AIsFloat(v) THEN v.n ELSE IntValue(v))
PowerIsBounded(l, r) ==
    IsNumber(l) /\ IsNumber(r) /\ ~(AIsInt(l) /\ AIsLongInt(r))
      => Len(Digits(Magnitude(l))) * Magnitude(r) <= MaxPower

Evaluate(op, l, r) ==
    /\ ArithDeviations \/ ~Deviates(op, l, r)
    /\ op = "**" => PowerIsBounded(l, r)
    /\ arith' = [op |-> op, l |-> l, r |-> r, res |-> Opcode(op, l, r), api |-> Api(op, l, r)]
    /\ UNCHANGED forLoop

EvaluateUnary(op, v) ==
    /\ ArithDeviations \/ ~Deviates(op, v, v)
    /\ arith' = [op |-> op, l |-> v, r |-> Short(1),
                 res |-> CASE op = "inc" -> OP_INC_L(v) [] op = "dec" -> OP_DEC_L(v)
                           [] OTHER -> OP_MINUS_LL(v),
                 api |-> CASE op = "inc" -> AAdd(v, Short(1)) [] op = "dec" -> ASub(v, Short(1))
                           [] OTHER -> ANeg(v)]
    /\ UNCHANGED forLoop

\* The comparisons of a pair of operands.
Compare(l, r) ==
    /\ arith' = [op |-> "cmp", l |-> l, r |-> r, res |-> AIsEqual(l, r),
                 api |-> [op \in Order |-> ACompareOrder(op, l, r)]]
    /\ UNCHANGED forLoop

(***************************************************************************)
(* A loop over a range.  The variable before the loop is start - 1.        *)
(***************************************************************************)
InitForRange(l, r) ==
    /\ forLoop' = [state |-> "on", first |-> TRUE, start |-> l, lo |-> OP_SUB_LLL(l, Short(1)), hi |-> r]
    /\ UNCHANGED arith

\* OP_FOR_LOOP_RANGE
ForLoopRange ==
    LET lo == forLoop.lo
        hi == forLoop.hi
        More(next) == IF AIsShortInt(lo) /\ AIsShortInt(hi) THEN lo.n + 1 < hi.n
                      ELSE ACompareOrder(">=", next, hi) = Bool(FALSE)
        Step(next) == IF More(next) THEN [forLoop EXCEPT !.lo = next, !.first = FALSE]
                      ELSE [forLoop EXCEPT !.state = "end"]
    IN  Step(OP_ADD_LLL(lo, Short(1)))

ForLoopStep == forLoop.state = "on" /\ forLoop' = ForLoopRange /\ UNCHANGED arith

RangeBounds == {IntOf(n) : n \in UNION {{A_SHORT_INT_MAX + i, A_SHORT_INT_MIN + i, i} : i \in -2..2}}

NoOperation == arith = NoArith /\ forLoop = NoLoop

ArithNext ==
    \/ NoOperation /\ \E op \in Binary, l, r \in Operands : Evaluate(op, l, r)
    \/ NoOperation /\ \E op \in Unary, v \in Operands : EvaluateUnary(op, v)
    \/ NoOperation /\ \E l, r \in Operands : Compare(l, r)
    \/ NoOperation /\ \E l, r \in RangeBounds : InitForRange(l, r)
    \/ ForLoopStep

(***************************************************************************)
(* Properties.                                                             *)
(***************************************************************************)
FloorDiv(a, b) == IF b > 0 THEN a \div b ELSE (-a) \div (-b)

Exact(op, a, b) ==
    CASE op = "+" -> a + b [] op = "-" -> a - b [] op = "*" -> a * b
      [] op = "div" -> FloorDiv(a, b) [] op = "mod" -> a - b * FloorDiv(a, b)
      [] op = "**" -> IF b = 0 THEN 1 ELSE a ^ b
      [] op = "inc" -> a + 1 [] op = "dec" -> a - 1 [] op = "neg" -> -a

\* Integer operators compute the mathematical integer, whatever the length of
\* the operands and however often short and long ones are mixed, and return a
\* short integer exactly if the result fits into one (which equality and the
\* comparison of long integers rely on).
IntegersAreExact ==
    /\ arith.op \in (Binary \union Unary) \ {"/"}
    /\ AIsInt(arith.l) /\ AIsInt(arith.r)
    /\ arith.res.t # "error"
    => /\ AIsInt(arith.res)
       /\ IntValue(arith.res) = Exact(arith.op, IntValue(arith.l), IntValue(arith.r))
       /\ AIsShortInt(arith.res) <=> FitsShort(IntValue(arith.res))
       /\ AIsLongInt(arith.res) => arith.res.d[Len(arith.res.d)] # 0

\* The C API and the interpreter give the same result, exception or method
\* call for all types of operands (an object that is neither a number nor an
\* instance has no operator methods: the interpreter raises an exception, too).
ApiMatchesOpcodes ==
    arith.op \in Binary \union Unary
      => \/ arith.res = arith.api
         \/ arith.res.t = "call" /\ ~AIsInstance(arith.res.args[1]) /\ arith.api = TypeError

NumberOf(v) == IF AIsFloat(v) THEN v.n ELSE IntValue(v)

\* Numbers are ordered by their values whatever their types are, and strings
\* totally: exactly one of <, == and > holds, and <= and >= are what they
\* should be.
OrderIsTotal ==
    arith.op = "cmp" /\ (\/ IsNumber(arith.l) /\ IsNumber(arith.r)
                         \/ AIsStr(arith.l) /\ AIsStr(arith.r))
      => LET c == arith.api
         IN  /\ IsNumber(arith.l) =>
                  /\ c["<"] = Bool(NumberOf(arith.l) < NumberOf(arith.r))
                  /\ arith.res = Bool(NumberOf(arith.l) = NumberOf(arith.r))
             /\ Cardinality({x \in {<<"lt", c["<"]>>, <<"eq", arith.res>>, <<"gt", c[">"]>>} : x[2].b}) = 1
             /\ c["<="].b <=> ~c[">"].b
             /\ c[">="].b <=> ~c["<"].b

\* A loop over a range runs for the integers from its lower bound up to, and
\* not including, its upper bound, also where short integers end.
RangeLoopIsExact ==
    forLoop.state # "none"
      => LET at == IntValue(forLoop.lo) IN
         /\ ~forLoop.first => at \in IntValue(forLoop.start)..(IntValue(forLoop.hi) - 1)
         /\ forLoop.state = "end" =>
               IF IntValue(forLoop.start) < IntValue(forLoop.hi)
               THEN at = IntValue(forLoop.hi) - 1 ELSE forLoop.first

\* Operators compute, order and step through numbers as mathematics does, by
\* whatever path they are reached.
OperatorsAreExact == IntegersAreExact /\ ApiMatchesOpcodes /\ OrderIsTotal /\ RangeLoopIsExact
=============================================================================
