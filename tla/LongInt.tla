------------------------------ MODULE LongInt ------------------------------
(***************************************************************************)
(* Integers (std_int_long.c, std_int.c).  A short integer [t |-> "int", n] *)
(* is kept in a word, a long one [t |-> "long", neg, d] is a sign and a    *)
(* sequence of digits, the least significant first.  A word has the bits   *)
(* of two digits; a short integer has two bits fewer, for the tag.         *)
(***************************************************************************)
EXTENDS Integers, Sequences, SequencesExt, FiniteSetsExt

CONSTANT DigitBits     \* A_LONG_INT_DIGIT_BITS (32)

ASSUME DigitBitsOK == DigitBits \in Nat /\ DigitBits > 2

Base  == 2^DigitBits
Digit(n) == n % Base

A_VALUE_INT_SHIFT == 2
A_VALUE_INT_BITS  == 2 * DigitBits - A_VALUE_INT_SHIFT
A_SHORT_INT_MAX   == 2^(A_VALUE_INT_BITS - 1) - 1
A_SHORT_INT_MIN   == -(2^(A_VALUE_INT_BITS - 1))

Short(n)    == [t |-> "int", n |-> n]
Long(neg, d) == [t |-> "long", neg |-> neg, d |-> d]

AIsShortInt(v) == v.t = "int"
AIsLongInt(v)  == v.t = "long"
AIsInt(v)      == AIsShortInt(v) \/ AIsLongInt(v)

\* What a word holds that is to hold n.
WrapShort(n) == ((n + A_SHORT_INT_MAX + 1) % 2^A_VALUE_INT_BITS) - A_SHORT_INT_MAX - 1

\* The mathematical integer.
RECURSIVE DigitsFrom(_, _)
DigitsFrom(d, i) == IF i > Len(d) THEN 0 ELSE d[i] + Base * DigitsFrom(d, i + 1)
DigitsValue(d) == DigitsFrom(d, 1)
IntValue(v) == IF AIsShortInt(v) THEN v.n
               ELSE IF v.neg THEN -DigitsValue(v.d) ELSE DigitsValue(v.d)

Abs(n) == IF n < 0 THEN -n ELSE n

ACreateLongIntFromInt(n) ==
    Long(n < 0, IF Abs(n) >= Base THEN <<Digit(Abs(n)), Abs(n) \div Base>> ELSE <<Abs(n)>>)

RECURSIVE DropZeroDigits(_)
DropZeroDigits(d) ==
    IF Len(d) > 1 /\ d[Len(d)] = 0 THEN DropZeroDigits(SubSeq(d, 1, Len(d) - 1)) ELSE d

\* A single zero digit goes, too.
TruncateZeroDigits(d) ==
    IF d[Len(d)] = 0 THEN DropZeroDigits(SubSeq(d, 1, Len(d) - 1)) ELSE d

\* A digit that was never stored reads as one that is too large.
Unset == Base

\* digit[1] of the block that held d.
SecondDigit(d) == IF Len(d) > 1 THEN d[2] ELSE Unset

TopOfShort == (A_SHORT_INT_MAX + 1) \div Base

ANormalize(d, isNeg) ==
    LET e == TruncateZeroDigits(d)
        hi == SecondDigit(d)
        isShort == /\ Len(e) <= 2
                   /\ IF isNeg THEN hi < TopOfShort \/ (d[1] = 0 /\ hi = TopOfShort)
                               ELSE Len(e) <= 1 \/ hi < TopOfShort
    IN  IF isShort THEN Short(IF isNeg THEN -DigitsValue(e) ELSE DigitsValue(e))
        ELSE Long(isNeg, e)

(***************************************************************************)
(* Sums and differences.                                                   *)
(***************************************************************************)
RECURSIVE AddFrom(_, _, _, _)
AddFrom(a, b, i, carry) ==
    IF i > Len(a) THEN <<carry>>
    ELSE LET s == carry + a[i] + (IF i <= Len(b) THEN b[i] ELSE 0)
         IN  <<Digit(s)>> \o AddFrom(a, b, i + 1, s \div Base)

\* The digits of the sum of two absolute values.
AddAbsolute(a, b) == IF Len(a) < Len(b) THEN AddFrom(b, a, 1, 0) ELSE AddFrom(a, b, 1, 0)

RECURSIVE SubFrom(_, _, _, _)
SubFrom(a, b, i, borrow) ==
    IF i > Len(a) THEN <<>>
    ELSE LET s == a[i] - (IF i <= Len(b) THEN b[i] ELSE 0) - borrow
         IN  <<Digit(s)>> \o SubFrom(a, b, i + 1, IF s < 0 THEN 1 ELSE 0)

\* Whether a is smaller than b.
IsBelow(a, b) ==
    \/ Len(a) < Len(b)
    \/ /\ Len(a) = Len(b)
       /\ \E i \in DOMAIN a : a[i] < b[i] /\ \A j \in (i + 1)..Len(a) : a[j] = b[j]

\* The difference of the absolute values, and whether the sign changes.
SubAbsolute(a, b) ==
    IF IsBelow(a, b) THEN [d |-> SubFrom(b, a, 1, 0), flip |-> TRUE]
                     ELSE [d |-> SubFrom(a, b, 1, 0), flip |-> FALSE]

SumOf(a, b)  == ANormalize(AddAbsolute(a.d, b.d), a.neg)
DiffOf(a, b) == LET r == SubAbsolute(a.d, b.d) IN ANormalize(r.d, a.neg # r.flip)

AAddLongInt(a, b) == IF a.neg = b.neg THEN SumOf(a, b) ELSE DiffOf(a, b)
ASubLongInt(a, b) == IF a.neg = b.neg THEN DiffOf(a, b) ELSE SumOf(a, b)

\* Adding and subtracting a digit; a digit that wraps around gives a carry.
RECURSIVE AddSingleFrom(_, _, _)
AddSingleFrom(a, i, carry) ==
    IF i > Len(a) THEN <<carry>>
    ELSE LET res == Digit(carry + a[i])
         IN  <<res>> \o IF res >= a[i] THEN SubSeq(a, i + 1, Len(a)) \o <<0>>
                        ELSE AddSingleFrom(a, i + 1, 1)

RECURSIVE SubSingleFrom(_, _, _)
SubSingleFrom(a, i, borrow) ==
    IF i > Len(a) THEN <<>>
    ELSE LET res == Digit(a[i] - borrow)
         IN  <<res>> \o IF res <= a[i] THEN SubSeq(a, i + 1, Len(a))
                        ELSE SubSingleFrom(a, i + 1, 1)

AddAbsoluteSingle(a, n) == ANormalize(AddSingleFrom(a.d, 1, n), a.neg)
SubAbsoluteSingle(a, n) == ANormalize(SubSingleFrom(a.d, 1, n), a.neg)

AAddLongIntSingle(a, n) == IF a.neg THEN SubAbsoluteSingle(a, n) ELSE AddAbsoluteSingle(a, n)
ASubLongIntSingle(a, n) == IF a.neg THEN AddAbsoluteSingle(a, n) ELSE SubAbsoluteSingle(a, n)

\* The test for the integer whose negation is the smallest short integer
\* looks at two digits only.
ANegateLongInt(a) ==
    IF ~a.neg /\ a.d[1] = 0 /\ a.d[2] = TopOfShort THEN Short(A_SHORT_INT_MIN)
    ELSE Long(~a.neg, a.d)

\* Negative, zero or positive.  The arguments have no leading zeroes.
ACompareLongInt(a, b) ==
    LET r == CASE a.neg # b.neg       -> 1
               [] Len(a.d) # Len(b.d) -> Len(a.d) - Len(b.d)
               [] a.d = b.d           -> 0
               [] OTHER -> LET i == Max({j \in DOMAIN a.d : a.d[j] # b.d[j]}) IN a.d[i] - b.d[i]
    IN  IF a.neg THEN -r ELSE r

(***************************************************************************)
(* Products.                                                               *)
(***************************************************************************)
RECURSIVE MulRow(_, _, _, _, _, _)
\* Add the product of the digit x and b, from its digit j on, to d at i + j.
MulRow(d, x, b, i, j, carry) ==
    IF j = Len(b) THEN [d EXCEPT ![i + j + 1] = carry]
    ELSE LET s == carry + d[i + j + 1] + x * b[j + 1]
         IN  MulRow([d EXCEPT ![i + j + 1] = Digit(s)], x, b, i, j + 1, s \div Base)

RECURSIVE MulFrom(_, _, _, _)
MulFrom(d, a, b, i) ==
    IF i = Len(a) THEN d ELSE MulFrom(MulRow(d, a[i + 1], b, i, 0, 0), a, b, i + 1)

AMultiplyLongInt(a, b) ==
    ANormalize(MulFrom(<<>> \o [i \in 1..(Len(a.d) + Len(b.d)) |-> 0], a.d, b.d, 0),
               a.neg # b.neg)

RECURSIVE MulAddFrom(_, _, _, _)
MulAddFrom(a, mul, i, carry) ==
    IF i > Len(a) THEN <<carry>>
    ELSE <<Digit(carry + a[i] * mul)>>
           \o MulAddFrom(a, mul, i + 1, (carry + a[i] * mul) \div Base)

AMulAddSingle(d, mul, add) == TruncateZeroDigits(MulAddFrom(d, mul, 1, add))

HalfBits == A_VALUE_INT_BITS \div 2

\* The upper half of a word (a negative one is a large unsigned one), and the
\* lower half of the tagged word.
AHi(n) == IF n < 0 THEN 2^HalfBits ELSE n \div 2^HalfBits
ALo(n) == (n * 2^A_VALUE_INT_SHIFT) % 2^HalfBits

AIsIntTimesHalfIntOverflow(full, half, isNeg) ==
    /\ \/ AHi(full) * half >= 2^(HalfBits - 1)
       \/ full * half >= 2^(A_VALUE_INT_BITS - 1)
    /\ ~isNeg \/ AHi(full) * half > 2^(HalfBits - 1) \/ ALo(full) # 0

FullLongMul(l, r) == AMultiplyLongInt(ACreateLongIntFromInt(l), ACreateLongIntFromInt(r))
ShortLongMul(l, r, isNeg) == Long(isNeg, AMulAddSingle(ACreateLongIntFromInt(l).d, r, 0))

\* The product of short integers.
AMultiplyShortInt(l, r) ==
    LET isNeg == (l < 0) # (r < 0)
        hi    == Max({Abs(l), Abs(r)})
        lo    == Min({Abs(l), Abs(r)})
    IN  IF AHi(l) = 0 /\ AHi(r) = 0
        THEN IF WrapShort(l * r) < 0 THEN ShortLongMul(l, r, FALSE) ELSE Short(WrapShort(l * r))
        ELSE CASE l = A_SHORT_INT_MIN /\ r \in {0, 1} -> Short(l * r)
               [] r = A_SHORT_INT_MIN /\ l \in {0, 1} -> Short(l * r)
               [] A_SHORT_INT_MIN \in {l, r} \/ AHi(lo) # 0 -> FullLongMul(l, r)
               [] AIsIntTimesHalfIntOverflow(hi, lo, isNeg) -> ShortLongMul(hi, lo, isNeg)
               [] OTHER -> Short(WrapShort(IF isNeg THEN -WrapShort(hi * lo)
                                           ELSE WrapShort(hi * lo)))

(***************************************************************************)
(* Quotients and remainders; a remainder has the sign of the divisor.      *)
(***************************************************************************)
RECURSIVE DivSingleFrom(_, _, _, _)
DivSingleFrom(a, b, i, rem) ==
    IF i = 0 THEN [d |-> <<>>, rem |-> rem]
    ELSE LET x == rem * Base + a[i]
             r == DivSingleFrom(a, b, i - 1, x % b)
         IN  [d |-> r.d \o <<x \div b>>, rem |-> r.rem]

ADivModSingle(d, b) ==
    LET r == DivSingleFrom(d, b, Len(d), 0) IN [r EXCEPT !.d = TruncateZeroDigits(@)]

RECURSIVE ShlFrom(_, _, _, _)
\* n digits of a * 2^shift, from digit i on.
ShlFrom(a, n, i, carry) ==
    IF n = 0 THEN <<>>
    ELSE LET x == carry.v + (IF i <= Len(a) THEN a[i] * 2^carry.shift ELSE 0)
         IN  <<Digit(x)>> \o ShlFrom(a, n - 1, i + 1, [carry EXCEPT !.v = x \div Base])

Shl(a, n, shift) == ShlFrom(a, n, 1, [v |-> 0, shift |-> shift])

Shr(a, shift) ==
    [i \in DOMAIN a |-> (a[i] \div 2^shift)
                          + (IF i < Len(a) THEN Digit(a[i + 1] * 2^(DigitBits - shift)) ELSE 0)]

\* The shift that makes the upper bit of the divisor one.
DivShift(b) == CHOOSE s \in 0..(DigitBits - 1) :
                  b[Len(b)] * 2^s \in (Base \div 2)..(Base - 1)

\* digit[i] of a; indices as in the code.
At(a, i) == IF i < Len(a) THEN a[i + 1] ELSE 0

RECURSIVE CorrectQuotient(_, _, _, _)
\* The estimate q is lowered until its error is at most one.
CorrectQuotient(a, b, aInd, q) ==
    LET n     == Len(b)
        t     == At(a, aInd) * Base + At(a, aInd - 1) - q * b[n]
        bDig2 == IF n >= 2 THEN b[n - 1] ELSE 0
    IN  IF t >= Base \/ bDig2 * q <= t * Base + (IF aInd >= 2 THEN At(a, aInd - 2) ELSE 0) THEN q
        ELSE CorrectQuotient(a, b, aInd, q - 1)

RECURSIVE SubProduct(_, _, _, _, _, _)
\* Subtract q * b from a at dInd; the result and the carry.
SubProduct(a, b, q, dInd, i, carry) ==
    IF i = Len(b)
    THEN IF Len(b) + dInd < Len(a)
         THEN [a |-> [a EXCEPT ![Len(b) + dInd + 1] = 0], carry |-> carry - a[Len(b) + dInd + 1]]
         ELSE [a |-> a, carry |-> carry]
    ELSE LET s == b[i + 1] * q
             t == a[i + dInd + 1]
         IN  SubProduct([a EXCEPT ![i + dInd + 1] = Digit(t - s - carry)], b, q, dInd, i + 1,
                        (s - t + carry + Base - 1) \div Base)

RECURSIVE AddBack(_, _, _, _, _)
AddBack(a, b, dInd, i, carry) ==
    IF i = Len(b) THEN a
    ELSE LET s == carry + a[i + dInd + 1] + b[i + 1]
         IN  AddBack([a EXCEPT ![i + dInd + 1] = Digit(s)], b, dInd, i + 1, s \div Base)

\* The quotient of the first two digits by the first one.
EstimatedDigit(a, aInd, top) ==
    IF At(a, aInd) = top THEN Base - 1 ELSE (At(a, aInd) * Base + At(a, aInd - 1)) \div top

QuotientDigit(a, b, aInd) == CorrectQuotient(a, b, aInd, EstimatedDigit(a, aInd, b[Len(b)]))

(* Faulty variant: a digit that is too large by one is kept. *)
KeepDigit(s, b, dInd, q) == [a |-> s.a, q |-> q]

\* A digit that was too large by one: b is added back.
CheckDigit(s, b, dInd, q) ==
    IF s.carry = 0 THEN [a |-> s.a, q |-> q] ELSE [a |-> AddBack(s.a, b, dInd, 0, 0), q |-> q - 1]

\* The next digit of the quotient, and what remains of a.
DivDigit(a, b, dInd) ==
    LET Subtract(q) == CheckDigit(SubProduct(a, b, q, dInd, 0, 0), b, dInd, q)
    IN  Subtract(QuotientDigit(a, b, dInd + Len(b)))

AddDigit(r, q) == [a |-> r.a, d |-> r.d \o <<q>>]

RECURSIVE DivFrom(_, _, _)
DivFrom(a, b, dInd) ==
    LET Then(x) == AddDigit(DivFrom(x.a, b, dInd - 1), x.q)
    IN  IF dInd < 0 THEN [a |-> a, d |-> <<>>] ELSE Then(DivDigit(a, b, dInd))

Undefined == [t |-> "undefined"]

\* If the signs differ, |b| - 1 is added first, which rounds the quotient
\* away from zero, and the remainder is turned round.  A quotient of less
\* than one digit is undefined.
DivModResult(r, shift, low, differ, neg) ==
    LET Remainder(rem) == IF differ THEN SubAbsolute(low, TruncateZeroDigits(rem)).d ELSE rem
    IN  [div |-> ANormalize(r.d, differ), mod |-> ANormalize(Remainder(Shr(r.a, shift)), neg)]

DivModAbsolute(a, b, low, shift, differ) ==
    IF Len(a) + 1 < Len(b.d) THEN [div |-> Undefined, mod |-> Undefined]
    ELSE DivModResult(DivFrom(Shl(a, Len(a) + 1, shift), Shl(b.d, Len(b.d), shift),
                              Len(a) + 1 - Len(b.d)),
                      shift, low, differ, b.neg)

ADivModLongInt(a, b) ==
    LET DivMod(low, differ) ==
            DivModAbsolute(IF differ THEN AddAbsolute(a.d, low) ELSE a.d, b, low, DivShift(b.d), differ)
    IN  DivMod(SubSingleFrom(b.d, 1, 1), a.neg # b.neg)

\* Short integers: C truncates the quotient.
Quot(l, r) == IF (l < 0) = (r < 0) THEN Abs(l) \div Abs(r) ELSE -(Abs(l) \div Abs(r))

AIntDivMod(l, r) ==
    LET quot == Quot(l, r)
        mod  == l - quot * r
        down == (mod < 0 /\ r > 0) \/ (mod > 0 /\ r < 0)
    IN  IF l = A_SHORT_INT_MIN /\ r = -1
        THEN [div |-> ACreateLongIntFromInt(-A_SHORT_INT_MIN), mod |-> Short(0)]
        ELSE [div |-> Short(IF down THEN quot - 1 ELSE quot),
              mod |-> Short(IF down THEN mod + r ELSE mod)]
=============================================================================
