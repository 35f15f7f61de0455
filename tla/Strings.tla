------------------------------ MODULE Strings ------------------------------
(***************************************************************************)
(* Str objects (std_str.c).  A string has one of four representations: a   *)
(* narrow or a wide block of characters, or a substring that shares part   *)
(* of such a block.  Every operation has a path for each representation of *)
(* each operand; which one a program meets depends on how its strings came *)
(* about, and must not be visible.                                         *)
(*                                                                         *)
(* A behaviour takes a string, replaces it MaxStrSteps times by the result *)
(* of an operation on it, and asks one question about it.  strVal is the   *)
(* object, strText the characters it must have; strCall holds what the     *)
(* last call returned and what it had to return.  Characters are their     *)
(* codes and indices count from 0, as in the code.                         *)
(***************************************************************************)
EXTENDS Integers, Sequences, SequencesExt, FiniteSetsExt

CONSTANTS
    StrStarts,      \* the strings that behaviours start from
    StrArgs,        \* the strings passed as arguments
    StrSequences,   \* the sequences passed to join
    StrIndices,     \* the indices of slices
    StrUpper,       \* the upper case of each character
    StrLower,       \* the lower case of each character
    MinSubStrLen,   \* A_MIN_SUBSTR_LEN: shorter narrow pieces are copied
    StrHashSize,    \* the number of values of an unsigned
    RadixInts,      \* the integers converted to strings
    MaxStrSteps,    \* the operations before the question
    StrDeviations   \* do the inputs include those that std_str.c gets wrong?

VARIABLES strVal, strText, strSteps, strCall

strVars == <<strVal, strText, strSteps, strCall>>

(***************************************************************************)
(* Representations.                                                        *)
(***************************************************************************)
NarrowStr(e) == [k |-> "narrow", e |-> e]
WideStr(e)   == [k |-> "wide", e |-> e]
SubStr(s, ind, len) == [k |-> "sub", str |-> s, ind |-> ind, len |-> len]

StrBlock(v) == IF v.k = "sub" THEN v.str ELSE v
IsNarrowStr(v) == StrBlock(v).k = "narrow"

AStrLen(v) == IF v.k = "sub" THEN v.len ELSE Len(v.e)

AStrItem(v, i) == StrBlock(v).e[1 + i + (IF v.k = "sub" THEN v.ind ELSE 0)]

AMakeCh(ch) == IF ch < 256 THEN NarrowStr(<<ch>>) ELSE WideStr(<<ch>>)

\* ACopySubStr into a new block, as the list of what is copied.
Piece(v, i, n) == [j \in 1 .. n |-> AStrItem(v, i + j - 1)]
Pieces(v) == Piece(v, 0, AStrLen(v))

\* A new block that can hold the characters of all of vs.
NewStr(vs, e) == IF \A v \in vs : IsNarrowStr(v) THEN NarrowStr(e) ELSE WideStr(e)

\* Memory that is read after the object has moved or past its end.
Fault == [k |-> "fault"]
StrError == [k |-> "error"]

(* Faulty variant: the offset of a substring is not added to that of the
   substring taken of it. *)
OffsetOfOuter(v, begInd) == begInd

OffsetIn(v, begInd) == IF v.k = "sub" THEN begInd + v.ind ELSE begInd

\* A short wide piece is copied from where the block was before the
\* allocation: a collection there moves it.
ACreateSubStr(v, i, j) ==
    LET len    == AStrLen(v)
        beg0   == IF i < 0 THEN Max({len + i, 0}) ELSE i
        end0   == IF j < 0 THEN len + j ELSE Min({j, len})
        begInd == IF end0 < beg0 THEN 0 ELSE beg0
        endInd == IF end0 < beg0 THEN 0 ELSE end0
        n      == endInd - begInd
        limit  == IF IsNarrowStr(v) THEN MinSubStrLen ELSE (MinSubStrLen + 1) \div 2
        from   == OffsetIn(v, begInd)
    IN IF n < limit
       THEN IF StrDeviations /\ ~IsNarrowStr(v) THEN Fault
            ELSE NewStr({v}, SubSeq(StrBlock(v).e, from + 1, from + n))
       ELSE SubStr(StrBlock(v), from, n)

ANarrowStringToWide(v) == IF IsNarrowStr(v) THEN WideStr(Pieces(v)) ELSE v

AConcatWideStrings(v, w) == WideStr(Pieces(ANarrowStringToWide(v)) \o Pieces(ANarrowStringToWide(w)))

AConcatStrings(v, w) ==
    IF IsNarrowStr(v) /\ IsNarrowStr(w) THEN NarrowStr(Pieces(v) \o Pieces(w))
    ELSE AConcatWideStrings(v, w)

RepeatString(v, num) == NewStr({v}, FlattenSeq([i \in 1 .. num |-> Pieces(v)]))

\* A narrow string with the one letter whose upper case is wide is
\* converted, but it is the wrapper of the string that is.
AStrUpper(v) ==
    IF IsNarrowStr(v) /\ \E i \in 0 .. AStrLen(v) - 1 : AStrItem(v, i) = 255 THEN Fault
    ELSE NewStr({v}, [i \in 1 .. AStrLen(v) |-> StrUpper[AStrItem(v, i - 1)]])

AStrLower(v) == NewStr({v}, [i \in 1 .. AStrLen(v) |-> StrLower[AStrItem(v, i - 1)]])

\* The conversion to a C string wants the characters in a narrow block.
ANormalizeNarrowString(v) ==
    IF v.k = "narrow" THEN v
    ELSE IF \E i \in 0 .. AStrLen(v) - 1 : AStrItem(v, i) > 255 THEN StrError
    ELSE NarrowStr(Pieces(v))

(***************************************************************************)
(* Searching.                                                              *)
(***************************************************************************)
IsMatchAt(v, i, sub) ==
    \A j \in 0 .. AStrLen(sub) - 1 : AStrItem(v, i + j) = AStrItem(sub, j)

RECURSIVE Find(_, _, _)
Find(v, i, sub) ==
    IF AStrLen(sub) = 0 THEN IF i <= AStrLen(v) THEN i ELSE -1
    ELSE IF i > AStrLen(v) - AStrLen(sub) THEN -1
    ELSE IF IsMatchAt(v, i, sub) THEN i ELSE Find(v, i + 1, sub)

RECURSIVE CountFrom(_, _, _, _, _)
CountFrom(v, i, sub, max, count) ==
    IF i > AStrLen(v) - AStrLen(sub) THEN count
    ELSE IF ~IsMatchAt(v, i, sub) THEN CountFrom(v, i + 1, sub, max, count)
    ELSE IF count + 1 = max THEN max
    ELSE CountFrom(v, i + AStrLen(sub), sub, max, count + 1)

\* The characters of AStrReplace's new block from index i of v on, when n
\* pieces have been replaced.
RECURSIVE ReplaceFrom(_, _, _, _, _, _)
ReplaceFrom(v, i, old, new, max, n) ==
    IF i > AStrLen(v) - AStrLen(old) \/ n >= max THEN Piece(v, i, AStrLen(v) - i)
    ELSE IF IsMatchAt(v, i, old)
    THEN Pieces(new) \o ReplaceFrom(v, i + AStrLen(old), old, new, max, n + 1)
    ELSE <<AStrItem(v, i)>> \o ReplaceFrom(v, i + 1, old, new, max, n)

\* The length of the new block is settled first: with more characters than
\* that the copying would run past its end.
AStrReplace(v, old, new, max) ==
    LET c == CountFrom(v, 0, old, max, 0)
        e == ReplaceFrom(v, 0, old, new, max, 0)
    IN IF AStrLen(old) = 0 \/ max <= 0 THEN v
       ELSE IF AStrLen(old) # AStrLen(new) /\ c = 0 THEN v
       ELSE IF Len(e) # AStrLen(v) + (AStrLen(new) - AStrLen(old)) * c THEN Fault
       ELSE NewStr({v, old, new}, e)

RECURSIVE SplitFrom(_, _, _, _, _, _)
SplitFrom(v, i0, i, sep, max, n) ==
    IF i > AStrLen(v) - AStrLen(sep) THEN <<ACreateSubStr(v, i0, AStrLen(v))>>
    ELSE IF IsMatchAt(v, i, sep) /\ n < max
    THEN LET k == i + AStrLen(sep)
         IN <<ACreateSubStr(v, i0, i)>> \o SplitFrom(v, k, k, sep, max, n + 1)
    ELSE SplitFrom(v, i0, i + 1, sep, max, n)

IsSplitSpace(ch) == ch \in {9, 10, 13, 32}

\* The first index from i on that is not white space.
SkipSpace(v, i) == Min({j \in i .. AStrLen(v) : j < AStrLen(v) => ~IsSplitSpace(AStrItem(v, j))})

RECURSIVE SplitSpaceFrom(_, _, _, _, _)
SplitSpaceFrom(v, i0, i, max, n) ==
    IF i0 >= AStrLen(v) THEN <<>>
    ELSE IF i >= AStrLen(v) THEN <<ACreateSubStr(v, i0, AStrLen(v))>>
    ELSE IF IsSplitSpace(AStrItem(v, i)) /\ n < max
    THEN LET k == SkipSpace(v, i)
         IN <<ACreateSubStr(v, i0, i)>> \o SplitSpaceFrom(v, k, k, max, n + 1)
    ELSE SplitSpaceFrom(v, i0, i + 1, max, n)

AStrSplit(v, max) == SplitSpaceFrom(v, SkipSpace(v, 0), SkipSpace(v, 0), max, 0)

AStrJoin(sep, vs) ==
    IF Len(vs) = 1 THEN vs[1]
    ELSE NewStr({sep} \union ToSet(vs),
                FlattenSeq([i \in 1 .. Len(vs) |->
                   Pieces(vs[i]) \o (IF i < Len(vs) THEN Pieces(sep) ELSE <<>>)]))

AStrStrip(v) ==
    LET len == AStrLen(v)
        i1  == SkipSpace(v, 0)
        i2  == Max({i \in i1 - 1 .. len - 1 : i <= i1 \/ ~IsSplitSpace(AStrItem(v, i))})
    IN ACreateSubStr(v, i1, i2 + 1)

AStrStartsWith(v, w) == AStrLen(v) >= AStrLen(w) /\ IsMatchAt(v, 0, w)

AStrEndsWith(v, w) ==
    /\ AStrLen(v) >= AStrLen(w)
    /\ \A i \in 1 .. AStrLen(w) : AStrItem(w, AStrLen(w) - i) = AStrItem(v, AStrLen(v) - i)

RECURSIVE CompareFrom(_, _, _)
CompareFrom(v, w, i) ==
    IF i >= AStrLen(v) \/ i >= AStrLen(w) THEN AStrLen(v) - AStrLen(w)
    ELSE IF AStrItem(v, i) # AStrItem(w, i) THEN AStrItem(v, i) - AStrItem(w, i)
    ELSE CompareFrom(v, w, i + 1)
CompareStrings(v, w) == CompareFrom(v, w, 0)

AStringHashValue(v) ==
    FoldLeft(LAMBDA h, ch : (h + h * 32 + ch) % StrHashSize, 0, Pieces(v))

\* What a loop over a StrIterator collects: next until hasNext is false.
RECURSIVE IterateFrom(_, _)
IterateFrom(v, i) == IF i < AStrLen(v) THEN <<AMakeCh(AStrItem(v, i))>> \o IterateFrom(v, i + 1) ELSE <<>>

(***************************************************************************)
(* Conversions.                                                            *)
(***************************************************************************)
HexDigit(d) == IF d < 10 THEN 48 + d ELSE 87 + d
HexValue(ch) == IF ch < 58 THEN ch - 48 ELSE ch - 87
Hex4(n) == <<HexDigit(n \div 4096), HexDigit((n \div 256) % 16), HexDigit((n \div 16) % 16), HexDigit(n % 16)>>

\* Repr: a literal in single quotes, or in double quotes when only that
\* avoids doubled ones.  The characters are read again after the block of the
\* result was allocated.
AStrRepr(v) ==
    LET items == ToSet(Pieces(v))
        quote == IF ~(39 \in items) \/ 34 \in items THEN 39 ELSE 34
        Written(ch) == IF ch < 32 \/ ch >= 127 THEN <<92, 117>> \o Hex4(ch)
                       ELSE IF ch = quote THEN <<ch, ch>> ELSE <<ch>>
    IN IF StrDeviations THEN Fault
       ELSE NarrowStr(<<quote>> \o FlattenSeq([i \in 1 .. AStrLen(v) |-> Written(AStrItem(v, i - 1))])
                        \o <<quote>>)

IsHex(ch) == ch \in 48 .. 57 \union 97 .. 102
IsUnicodeSequence(p, i) ==
    i + 5 <= Len(p) /\ p[i] = 92 /\ p[i + 1] = 117 /\ \A j \in 2 .. 5 : IsHex(p[i + j])

\* The lexical analysis of a literal that starts at index i of p, after the
\* opening quote: the characters and whether a wide string is built.
RECURSIVE LiteralFrom(_, _, _)
LiteralFrom(p, i, quote) ==
    IF p[i] = quote /\ (i = Len(p) \/ p[i + 1] # quote) THEN [e |-> <<>>, wide |-> FALSE]
    ELSE LET uni  == p[i] # quote /\ IsUnicodeSequence(p, i)
             ch   == IF uni THEN HexValue(p[i + 2]) * 4096 + HexValue(p[i + 3]) * 256
                                   + HexValue(p[i + 4]) * 16 + HexValue(p[i + 5])
                     ELSE p[i]
             rest == LiteralFrom(p, i + (IF uni THEN 6 ELSE IF p[i] = quote THEN 2 ELSE 1), quote)
         IN [e |-> <<ch>> \o rest.e, wide |-> rest.wide \/ (uni /\ ch > 255)]

CreateStringLiteral(v) ==
    LET l == LiteralFrom(v.e, 2, v.e[1])
    IN IF l.wide THEN WideStr(l.e) ELSE NarrowStr(l.e)

\* The UTF-8 of a string, and the string made of UTF-8.
AGetStrUtf8(v) ==
    FlattenSeq([i \in 1 .. AStrLen(v) |->
       LET ch == AStrItem(v, i - 1)
       IN IF ch <= 127 THEN <<ch>>
          ELSE IF ch <= 2047 THEN <<192 + ch \div 64, 128 + (ch % 64)>>
          ELSE <<224 + ch \div 4096, 128 + ((ch \div 64) % 64), 128 + (ch % 64)>>])

RECURSIVE Utf8From(_, _)
Utf8From(b, j) ==
    IF j > Len(b) THEN <<>>
    ELSE IF b[j] <= 127 THEN <<b[j]>> \o Utf8From(b, j + 1)
    ELSE IF b[j] < 224 THEN <<(b[j] % 32) * 64 + (b[j + 1] % 64)>> \o Utf8From(b, j + 2)
    ELSE <<(b[j] % 16) * 4096 + (b[j + 1] % 64) * 64 + (b[j + 2] % 64)>> \o Utf8From(b, j + 3)
AMakeStrUtf8(b) == WideStr(Utf8From(b, 1))

\* string::IntToStr, and std::Int with a radix.
RECURSIVE RadixDigits(_, _)
RadixDigits(n, radix) == IF n < radix THEN <<HexDigit(n)>> ELSE RadixDigits(n \div radix, radix) \o <<HexDigit(n % radix)>>
IntToStr(n, radix, minWidth) ==
    LET d == RadixDigits(IF n < 0 THEN -n ELSE n, radix)
    IN NarrowStr((IF n < 0 THEN <<45>> ELSE <<>>)
                   \o [i \in 1 .. Max({minWidth - Len(d), 0}) |-> 48] \o d)
RadixInt(v, radix) ==
    LET isNeg == AStrLen(v) > 0 /\ AStrItem(v, 0) = 45
        d     == Piece(v, IF isNeg THEN 1 ELSE 0, AStrLen(v) - (IF isNeg THEN 1 ELSE 0))
        n     == FoldLeft(LAMBDA acc, ch : acc * radix + HexValue(ch), 0, d)
    IN IF isNeg THEN -n ELSE n

(***************************************************************************)
(* What the operations promise, in terms of the characters alone.          *)
(***************************************************************************)
OccursAt(s, i, x) == i + Len(x) <= Len(s) /\ SubSeq(s, i + 1, i + Len(x)) = x
Occurrences(s, x) == {i \in 0 .. Len(s) : OccursAt(s, i, x)}

\* The pieces between the first max occurrences of x that do not overlap.
RECURSIVE PartsBetween(_, _, _)
PartsBetween(s, x, max) ==
    IF max <= 0 \/ Occurrences(s, x) = {} THEN <<s>>
    ELSE LET i == Min(Occurrences(s, x))
         IN <<SubSeq(s, 1, i)>> \o PartsBetween(SubSeq(s, i + Len(x) + 1, Len(s)), x, max - 1)

Joined(ss, x) == FlattenSeq([i \in 1 .. 2 * Len(ss) - 1 |-> IF i % 2 = 1 THEN ss[(i + 1) \div 2] ELSE x])

Blank(s) == \A i \in 1 .. Len(s) : IsSplitSpace(s[i])

\* The pieces i..j that have no white space in or before them, or hold all
\* that is left after max others.
Words(s, max) ==
    LET Begins == {i \in 1 .. Len(s) : ~IsSplitSpace(s[i]) /\ (i = 1 \/ IsSplitSpace(s[i - 1]))}
        begin  == SelectSeq([i \in 1 .. Len(s) |-> i], LAMBDA i : i \in Begins)
        End(i) == Min({j \in i .. Len(s) : j = Len(s) \/ IsSplitSpace(s[j + 1])})
    IN [k \in 1 .. Min({Len(begin), Max({max, 0}) + 1}) |->
          SubSeq(s, begin[k], IF k = max + 1 THEN Len(s) ELSE End(begin[k]))]

Trimmed(s) ==
    IF Blank(s) THEN <<>>
    ELSE LET solid == {i \in 1 .. Len(s) : ~IsSplitSpace(s[i])}
         IN SubSeq(s, Min(solid), Max(solid))

Slice(s, i, j) ==
    LET At(k) == IF k < 0 THEN Len(s) + k ELSE k
    IN SelectSeq([k \in 1 .. Len(s) |-> <<k, s[k]>>], LAMBDA p : At(i) < p[1] /\ p[1] <= At(j))

Sign(n) == IF n < 0 THEN -1 ELSE IF n > 0 THEN 1 ELSE 0
TextOrder(s, x) ==
    IF s = x THEN 0
    ELSE IF IsPrefix(s, x) THEN -1 ELSE IF IsPrefix(x, s) THEN 1
    ELSE LET i == Min({k \in 1 .. Min({Len(s), Len(x)}) : s[k] # x[k]}) IN Sign(s[i] - x[i])

(***************************************************************************)
(* Behaviours.                                                             *)
(***************************************************************************)
\* The characters of an object, and whether it is one that the code makes.
TextOf(v) == IF v.k \in {"fault", "error"} THEN <<v.k>> ELSE Pieces(v)
TextsOf(vs) == [i \in 1 .. Len(vs) |-> TextOf(vs[i])]
WellFormed(v) ==
    /\ v.k = "sub" => v.str.k \in {"narrow", "wide"} /\ v.ind >= 0 /\ v.ind + v.len <= Len(v.str.e)
    /\ v.k # "fault" /\ (v.k # "error" /\ IsNarrowStr(v) => \A i \in 1 .. Len(StrBlock(v).e) : StrBlock(v).e[i] < 256)

NoCall == [op |-> "none", got |-> 0, want |-> 0]

StrInit ==
    /\ strVal = NarrowStr(<<>>) /\ strText = <<>>
    /\ strSteps = -1 /\ strCall = NoCall

StrStart ==
    /\ strSteps = -1
    /\ strSteps' = 0
    /\ strVal' \in StrStarts /\ strText' = Pieces(strVal')
    /\ UNCHANGED strCall

\* An operation that returns a string, which takes the place of the first.
StrBecomes(op, v, text) ==
    /\ strVal' = v /\ strText' = text
    /\ strSteps' = strSteps + 1
    /\ UNCHANGED strCall

StrAnswers(op, got, want) ==
    /\ strCall' = [op |-> op, got |-> got, want |-> want]
    /\ strSteps' = MaxStrSteps + 1
    /\ UNCHANGED <<strVal, strText>>

StrSlice == \E i, j \in StrIndices :
    StrBecomes("slice", ACreateSubStr(strVal, i, j), [k \in 1 .. Len(Slice(strText, i, j)) |-> Slice(strText, i, j)[k][2]])

StrConcat == \E x \in StrArgs :
    \/ StrBecomes("+", AConcatStrings(strVal, x), strText \o Pieces(x))
    \/ StrBecomes("+", AConcatStrings(x, strVal), Pieces(x) \o strText)

StrRepeat == \E n \in 0 .. 2 :
    StrBecomes("*", RepeatString(strVal, n), FlattenSeq([i \in 1 .. n |-> strText]))

StrCase ==
    \/ /\ StrDeviations \/ ~IsNarrowStr(strVal) \/ 255 \notin ToSet(strText)
       /\ StrBecomes("upper", AStrUpper(strVal), [i \in 1 .. Len(strText) |-> StrUpper[strText[i]]])
    \/ StrBecomes("lower", AStrLower(strVal), [i \in 1 .. Len(strText) |-> StrLower[strText[i]]])

StrStrip == StrBecomes("strip", AStrStrip(strVal), Trimmed(strText))

StrReplace == \E old, new \in StrArgs, max \in 0 .. 2 :
    StrBecomes("replace", AStrReplace(strVal, old, new, max),
               IF AStrLen(old) = 0 THEN strText ELSE Joined(PartsBetween(strText, Pieces(old), max), Pieces(new)))

StrJoin == \E vs \in StrSequences :
    StrBecomes("join", AStrJoin(strVal, vs), Joined(TextsOf(vs), strText))

StrSearch == \E x \in StrArgs :
    LET found == Occurrences(strText, Pieces(x))
    IN \/ \E i \in 0 .. 2 : StrAnswers("find", Find(strVal, i, x), Min({k \in found : k >= i} \union (IF \E k \in found : k >= i THEN {} ELSE {-1})))
       \/ StrAnswers("in", Find(strVal, 0, x) >= 0, found # {})
       \/ StrAnswers("startsWith", AStrStartsWith(strVal, x), IsPrefix(Pieces(x), strText))
       \/ StrAnswers("endsWith", AStrEndsWith(strVal, x), IsSuffix(Pieces(x), strText))

\* With an empty string the code counts characters equal to the byte after
\* its header, and does not move on from the first.
StrCount == \E x \in StrArgs :
    /\ AStrLen(x) > 0
    /\ StrAnswers("count", CountFrom(strVal, 0, x, -1, 0), Len(PartsBetween(strText, Pieces(x), 100)) - 1)

StrSplit ==
    \/ \E x \in StrArgs, max \in -1 .. 2 :
         /\ AStrLen(x) > 0
         /\ StrAnswers("split", TextsOf(SplitFrom(strVal, 0, 0, x, max, 0)), PartsBetween(strText, Pieces(x), max))
    \/ \E max \in 0 .. 2 : StrAnswers("split", TextsOf(AStrSplit(strVal, max)), Words(strText, max))

StrCompare == \E x \in StrArgs :
    \/ StrAnswers("compare", Sign(CompareStrings(strVal, x)), TextOrder(strText, Pieces(x)))
    \/ StrAnswers("compare", Sign(CompareStrings(x, strVal)), TextOrder(Pieces(x), strText))
    \/ /\ Pieces(x) = strText
       /\ StrAnswers("hash", AStringHashValue(strVal), AStringHashValue(x))

StrConvert ==
    \/ StrAnswers("iter", TextsOf(IterateFrom(strVal, 0)), [i \in 1 .. Len(strText) |-> <<strText[i]>>])
    \/ StrAnswers("repr", TextOf(CreateStringLiteral(AStrRepr(strVal))), strText)
    \/ StrAnswers("utf8", TextOf(AMakeStrUtf8(AGetStrUtf8(strVal))), strText)
    \/ StrAnswers("narrow", TextOf(ANormalizeNarrowString(strVal)),
                  IF \A i \in 1 .. Len(strText) : strText[i] < 256 THEN strText ELSE <<"error">>)

StrRadix == \E n \in RadixInts, radix \in {2, 3, 16}, width \in {0, 3} :
    /\ strSteps = 0
    /\ StrAnswers("int", RadixInt(IntToStr(n, radix, width), radix), n)

StrNext ==
    \/ StrStart
    \/ /\ strSteps \in 0 .. MaxStrSteps - 1
       /\ \/ StrSlice \/ StrConcat \/ StrRepeat \/ StrCase \/ StrStrip \/ StrReplace \/ StrJoin
    \/ /\ strSteps \in 0 .. MaxStrSteps
       /\ \/ StrSearch \/ StrCount \/ StrSplit \/ StrCompare \/ StrConvert \/ StrRadix

(* Whatever the representations of the operands, every operation of Str
   returns an object with the characters (or the answer) that its meaning on
   sequences of characters gives: narrow blocks, wide blocks and substrings
   that share a block at some offset are the same string to +, *, slices,
   comparisons, hash values, searching, splitting, joining and the
   conversions to UTF-8, to a literal and back. *)
StringsAreExact ==
    /\ WellFormed(strVal)
    /\ TextOf(strVal) = strText
    /\ strCall.got = strCall.want

=============================================================================
