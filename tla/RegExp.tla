------------------------------- MODULE RegExp -------------------------------
(***************************************************************************)
(* Regular expressions: the compiler (re_comp.c), which translates a       *)
(* pattern into words of code, and the matcher (re_match.c and             *)
(* re_match_inc.c), which runs the code with a stack of the alternatives   *)
(* that are left to try.                                                   *)
(*                                                                         *)
(* A pattern is a sequence of tokens [t |-> kind, ...]: an escape sequence *)
(* or a character class is a token, and so is a number in braces.          *)
(***************************************************************************)
EXTENDS Integers, Sequences, SequencesExt, FiniteSets, FiniteSetsExt

CONSTANTS
    RePatterns,     \* syntax trees of the patterns
    ReBadPatterns,  \* sequences of tokens that are no pattern
    ReTexts,        \* texts: sequences of characters
    ReChars,        \* all characters
    ReWordChars,    \* those that are part of words
    ReLower,        \* the lower case character of each
    ReStackSize,    \* entries of the first stack (STACK_INITIAL_SIZE)
    ReMaxDepth,     \* A_MAX_NESTING_DEPTH
    ReInfinite,     \* A_INFINITE_REPEAT: the repetitions of an unbounded one
    ReTextMoves     \* whether the collector moves the text when the stack grows

ASSUME ReBounds == ReStackSize \in Nat \ {0} /\ ReMaxDepth \in Nat /\ ReInfinite \in Nat
                     /\ ReTextMoves \in BOOLEAN

VARIABLES
    regExp,    \* the compiled expression
    reMatch    \* the last call of match or search, and what it returned

reVars == <<regExp, reMatch>>

(***************************************************************************)
(* The compiler.  Its state: the rest str of the pattern, the code buf,    *)
(* the number of groups, the groups that are complete, the length of the   *)
(* shortest match of the code so far, and the characters that begin one.   *)
(* An error skips the rest of the pattern.                                 *)
(***************************************************************************)
Unbounded == -1

AtToken(p, kinds) == p.str # <<>> /\ Head(p.str).t \in kinds
SkipToken(p) == [p EXCEPT !.str = Tail(@)]
Emit(p, words) == [p EXCEPT !.buf = @ \o words]
Unemit(p, n) == [p EXCEPT !.buf = SubSeq(@, 1, Len(@) - n)]
AGenerateError(p) == [p EXCEPT !.error = TRUE, !.str = <<>>]
AddStartSet(p, chars) == IF p.minLen = 0 THEN [p EXCEPT !.start = @ \union chars] ELSE p
SameButCase(p, chars) ==
    {c \in ReChars : \E d \in chars : c = d \/ (p.nocase /\ ReLower[c] = ReLower[d])}

\* Positions in the code count from 0, as in the source.
InsertCode(p, pos, words) ==
    [p EXCEPT !.buf = SubSeq(@, 1, pos) \o words \o SubSeq(@, pos + 1, Len(@))]
CopyCode(p, pos, n) == Emit(p, SubSeq(p.buf, pos + 1, pos + n))

\* The displacement counts from its own word.
EmitBranchAt(p, pos, code, dest) ==
    InsertCode(p, pos, <<code, dest - pos - 1 + (IF dest >= pos THEN 2 ELSE 0)>>)

\* [min, opt]: the repetitions that must be, and how many more may be.
ParseRange(token) ==
    [min |-> token.min,
     opt |-> IF token.max = Unbounded THEN ReInfinite ELSE token.max - token.min]

RepeatRange(p) ==
    CASE AtToken(p, {"?"}) -> [min |-> 0, opt |-> 1]
      [] AtToken(p, {"+"}) -> [min |-> 1, opt |-> ReInfinite]
      [] AtToken(p, {"*"}) -> [min |-> 0, opt |-> ReInfinite]
      [] AtToken(p, {"{"}) -> ParseRange(Head(p.str))
      [] OTHER             -> [min |-> 1, opt |-> 0]

\* A question mark behind the range: as few repetitions as possible.
ParseLazy(p, n) ==
    LET lazy == AtToken(p, {"?"})
    IN  [min |-> n.min, opt |-> n.opt, lazy |-> lazy, p |-> IF lazy THEN SkipToken(p) ELSE p]

RepeatTokens == {"?", "+", "*", "{"}

ParseRepeatType(p) ==
    LET Parse(n) == ParseLazy(IF n.opt < 0 \/ n.opt > ReInfinite THEN AGenerateError(p)
                              ELSE IF AtToken(p, RepeatTokens) THEN SkipToken(p) ELSE p, n)
    IN  Parse(RepeatRange(p))

\* A character, a set or a dot, with its repetition.
ParseSimpleRepetition(p, code, operand) ==
    LET op(r)     == IF r.min = 1 /\ r.opt = 0 THEN <<code>>
                     ELSE <<code \o (IF r.lazy THEN "_REPEAT_MIN" ELSE "_REPEAT"), r.min, r.opt>>
        Repeat(r) == [Emit(r.p, op(r) \o operand) EXCEPT !.minLen = @ + r.min]
    IN  Repeat(ParseRepeatType(p))

RECURSIVE CopyTimes(_, _, _)
CopyTimes(p, size, n) ==
    IF n = 0 THEN p ELSE CopyTimes(CopyCode(p, Len(p.buf) - size, size), size, n - 1)

EmitOptional(p, branch, size) ==
    CopyCode(Emit(p, <<branch, size + 1>>), Len(p.buf) - size, size)

RECURSIVE EmitOptionals(_, _, _, _)
EmitOptionals(p, branch, size, n) ==
    IF n = 0 THEN p ELSE EmitOptionals(EmitOptional(p, branch, size), branch, size, n - 1)

\* The opcode that ends a repeated group leaves the loop when the group is empty;
\* that of a back reference is the next one in the enumeration.
SkipOpcode(code) == CASE code = "RPAREN" -> "RPAREN_SKIP"
                      [] code = "BACKREF" -> "BACKREF_I"
                      [] code = "BACKREF_I" -> "BACKREF_SKIP"
                      [] OTHER -> code

\* q has the code r.min times, and once more at its end: that is repeated at
\* most r.opt times.  EmitBranch leads back behind the first branch.
EmitRepetition(q, r, size) ==
    LET at     == Len(q.buf) - size
        skip   == IF r.lazy THEN "BRANCH_BEFORE" ELSE "BRANCH_AFTER"
        again  == IF r.lazy THEN "BRANCH_AFTER" ELSE "BRANCH_BEFORE"
        loop   == [q EXCEPT !.buf[Len(q.buf) - 1] = SkipOpcode(@)]
    IN  IF r.opt = ReInfinite
        THEN Emit(EmitBranchAt(loop, at, skip, Len(q.buf) + 2), <<again, -size - 1>>)
        ELSE IF r.opt > 0
        THEN EmitOptionals(EmitBranchAt(q, at, skip, Len(q.buf)), skip, size, r.opt - 1)
        ELSE Unemit(q, size)

\* A group or a back reference, whose code is the last size words.
ParseRepetition(p, oldMinLen, size) ==
    LET Repeat(r) == EmitRepetition(
            CopyTimes([r.p EXCEPT !.minLen = oldMinLen + r.min * (@ - oldMinLen)], size, r.min), r, size)
    IN  Repeat(ParseRepeatType(p))

\* Literals that follow each other become one string: its length is the
\* word before the characters.
AddLiteral(p, code, ch, litLen) ==
    LET n == Len(p.buf)
    IN  CASE litLen = 1 -> Emit(p, <<code, ch>>)
          [] litLen = 2 -> [p EXCEPT !.buf = SubSeq(@, 1, n - 2) \o <<code \o "_STRING", 2, @[n], ch>>]
          [] OTHER      -> [p EXCEPT !.buf = [@ EXCEPT ![n - litLen + 1] = litLen] \o <<ch>>]

RECURSIVE ParseAlternatives(_), ParseConcat(_, _)

\* body is what has been parsed behind the parenthesis at which p is.
CloseParen(p, body, num) ==
    IF ~AtToken(body, {")"}) THEN AGenerateError(p)
    ELSE ParseRepetition([SkipToken(Emit(body, <<"RPAREN", num>>)) EXCEPT !.parens = @ \union {num}],
                         p.minLen, Len(body.buf) + 2 - Len(p.buf))

ParseParen(p) ==
    LET num == p.numParen
    IN  IF Tail(p.str) = <<>> THEN AGenerateError(p)
        ELSE CloseParen(p, ParseAlternatives(Emit([SkipToken(p) EXCEPT !.numParen = @ + 1],
                                                  <<"LPAREN", num>>)), num)

ParseSet(p, token) ==
    LET in    == SameButCase(p, token.chars)
        chars == IF token.comp THEN ReChars \ in ELSE in
    IN  ParseSimpleRepetition(AddStartSet(SkipToken(p), chars), "SET", <<chars>>)

ParseBackRef(p, num) ==
    IF num \notin p.parens THEN AGenerateError(p)
    ELSE ParseRepetition(Emit(SkipToken(p), <<IF p.nocase THEN "BACKREF_I" ELSE "BACKREF", num>>),
                         p.minLen, 2)

\* A character that is repeated is not part of a string.
IsRepeated(p) == AtToken(SkipToken(p), RepeatTokens)

ParseLiteral(p, token, litLen) ==
    LET code == IF p.nocase THEN "LITERAL_I" ELSE "LITERAL"
        ch   == IF p.nocase THEN ReLower[token.ch] ELSE token.ch
        q    == AddStartSet(SkipToken(p), SameButCase(p, {ch}))
    IN  IF IsRepeated(p) THEN ParseSimpleRepetition(q, code, <<ch>>)
        ELSE AddLiteral([q EXCEPT !.minLen = @ + 1], code, ch, litLen + 1)

\* What the next token begins.
ParseItem(p, token, litLen) ==
    LET anchor(code) == Emit(SkipToken(p), <<code>>)
    IN  CASE token.t = "char" -> ParseLiteral(p, token, litLen)
          [] token.t = "("  -> ParseParen(p)
          [] token.t = "^"  -> anchor("BOL_MULTI")
          [] token.t = "$"  -> anchor("EOL_MULTI")
          [] token.t = "\\<" -> anchor("BOW")
          [] token.t = "\\>" -> anchor("EOW")
          [] token.t = "."  ->
                ParseSimpleRepetition(AddStartSet(SkipToken(p), ReChars), "ANY", <<>>)
          [] token.t = "["  -> ParseSet(p, token)
          [] token.t = "\\1" -> ParseBackRef(p, token.num)
          [] OTHER          -> AGenerateError(p)

\* litLen literals, not repeated, are the last that was parsed.
ParseConcat(p, litLen) ==
    IF p.str = <<>> \/ AtToken(p, {")", "|"}) THEN p
    ELSE ParseConcat(ParseItem(p, Head(p.str), litLen),
                     IF AtToken(p, {"char"}) /\ ~IsRepeated(p) THEN litLen + 1 ELSE 0)

\* The other alternatives are parsed with the minimum length of what is
\* before; at is where they begin.
JoinAlternatives(first, rest, at) ==
    [EmitBranchAt(rest, at, "BRANCH_ALWAYS", Len(rest.buf))
        EXCEPT !.minLen = IF first.minLen < @ THEN first.minLen ELSE @]
ParseOthers(p, first) ==
    JoinAlternatives(first,
        ParseAlternatives(EmitBranchAt([SkipToken(first) EXCEPT !.minLen = p.minLen],
                                       Len(p.buf), "BRANCH_AFTER", Len(first.buf) + 2)),
        Len(first.buf) + 2)

ParseAlternatives(p) ==
    LET Parsed(first) == IF AtToken(first, {"|"}) THEN ParseOthers(p, first) ELSE first
    IN  IF p.depth + 1 >= ReMaxDepth THEN AGenerateError(p)
        ELSE [Parsed(ParseConcat([p EXCEPT !.depth = @ + 1], 0)) EXCEPT !.depth = p.depth]

ACompileRegExp(tokens, nocase) ==
    LET Compiled(p) == [error  |-> p.error \/ p.str # <<>>,
                        code   |-> p.buf \o <<"MATCH">>,
                        start  |-> IF p.minLen = 0 THEN ReChars ELSE p.start,
                        minLen |-> p.minLen,
                        groups |-> p.numParen - 1]
    IN  Compiled(ParseAlternatives(
            [str |-> tokens, buf |-> <<>>, numParen |-> 1, parens |-> {}, minLen |-> 0,
             start |-> {}, depth |-> 0, nocase |-> nocase, error |-> FALSE]))

(***************************************************************************)
(* The matcher.  Positions in the text count from 0.  A stack entry is an  *)
(* alternative left ("try"), a repetition that can still give up ("more")  *)
(* or take ("less") characters, or the mark of a group that was opened     *)
(* (with the beginning the group had before) or closed.  The end of a      *)
(* closed group is a pointer into the text as it lay when it was stored.   *)
(***************************************************************************)
NoRange == <<-1, -1>>

PushEntry(m, entry) ==
    LET grown == Len(m.st) + 1 = m.top
    IN  [m EXCEPT !.st = Append(@, entry),
                  !.top = IF grown THEN 2 * @ ELSE @,
                  !.moves = IF grown /\ ReTextMoves THEN @ + 1 ELSE @]

ReEntry(kind, ip, str, n) == [kind |-> kind, ip |-> ip, str |-> str, n |-> n, moves |-> 0]

(* Faulty variant: the old beginning of a group is not restored. *)
RECURSIVE FailTryKeepBeg(_)
FailTryKeepBeg(m) ==
    LET e == Last(m.st)
        popped == [m EXCEPT !.st = Front(@)]
    IN  CASE e.kind = "empty" -> [m EXCEPT !.status = "fail"]
          [] e.kind = "try"   -> [popped EXCEPT !.ip = e.ip, !.str = e.str]
          [] e.kind \in {"more", "less"} ->
                LET n == IF e.kind = "more" THEN e.n - 1 ELSE e.n + 1
                IN  [m EXCEPT !.ip = e.ip, !.str = e.str + n, !.st[Len(m.st)].n = n,
                              !.st[Len(m.st)].kind = IF n = 0 THEN "try" ELSE e.kind]
          [] OTHER -> FailTryKeepBeg(popped)

\* The Fail label: a repetition that is exhausted is an alternative like another.
RECURSIVE FailTry(_)
FailTry(m) ==
    LET e == Last(m.st)
        popped == [m EXCEPT !.st = Front(@)]
    IN  CASE e.kind = "empty" -> [m EXCEPT !.status = "fail"]
          [] e.kind = "try"   -> [popped EXCEPT !.ip = e.ip, !.str = e.str]
          [] e.kind \in {"more", "less"} ->
                LET n == IF e.kind = "more" THEN e.n - 1 ELSE e.n + 1
                IN  [m EXCEPT !.ip = e.ip, !.str = e.str + n, !.st[Len(m.st)].n = n,
                              !.st[Len(m.st)].kind = IF n = 0 THEN "try" ELSE e.kind]
          [] e.kind = "open"  -> FailTry([popped EXCEPT !.beg[e.n] = e.str])
          [] OTHER            -> FailTry(popped)

\* A repetition takes all it can (or, if it minimizes, all is left to take).
TryRepeat(m, text, min, opt, chars, ip, lazy, fold) ==
    LET in(i)  == (IF fold THEN ReLower[text[i + 1]] ELSE text[i + 1]) \in chars
        beg    == m.str + min
        limit  == IF beg + opt > Len(text) THEN Len(text) ELSE beg + opt
        end    == CHOOSE e \in beg .. limit :
                     /\ \A i \in beg .. e - 1 : in(i)
                     /\ e = limit \/ ~in(e)
    IN  IF beg > Len(text) \/ (\E i \in m.str .. beg - 1 : ~in(i)) THEN FailTry(m)
        ELSE IF end = beg THEN [m EXCEPT !.ip = ip, !.str = beg]
        ELSE IF lazy THEN PushEntry([m EXCEPT !.ip = ip, !.str = beg], ReEntry("less", ip, end, beg - end))
        ELSE PushEntry([m EXCEPT !.ip = ip, !.str = end], ReEntry("more", ip, beg, end - beg))

TryString(m, text, string, fold) ==
    IF /\ m.str + Len(string) <= Len(text)
       /\ \A i \in DOMAIN string :
             (IF fold THEN ReLower[text[m.str + i]] ELSE text[m.str + i]) = string[i]
    THEN [m EXCEPT !.ip = @ + Len(string), !.str = @ + Len(string)]
    ELSE FailTry(m)

\* The test for a _SKIP opcode (8 and above) reads the word of the group instead.
TryBackRef(m, text, num, fold) ==
    LET closed == {i \in DOMAIN m.st : m.st[i].kind = "close" /\ m.st[i].n = num}
        e      == m.st[Max(closed)]
        len    == e.ip - e.str
        same(a, b) == a = b \/ (fold /\ ReLower[a] = ReLower[b])
    IN  IF closed # {} /\ m.str + len <= Len(text)
           /\ \A i \in 1 .. len : same(text[m.str + i], text[e.str + i])
        THEN [m EXCEPT !.str = @ + len, !.ip = @ + 1 + (IF len = 0 /\ num >= 8 THEN 2 ELSE 0)]
        ELSE FailTry(m)

\* A condition on the place.
TryAnchor(m, text, op) ==
    LET isWord(i) == m.str + i \in 1 .. Len(text) /\ text[m.str + i] \in ReWordChars
        holds == CASE op = "BOW" -> ~isWord(0) /\ isWord(1)
                   [] op = "EOW" -> isWord(0) /\ ~isWord(1)
                   [] op = "BOL_MULTI" -> m.str = 0 \/ text[m.str] = "\n"
                   [] op = "EOL_MULTI" -> m.str = Len(text) \/ text[m.str + 1] = "\n"
    IN  IF holds THEN [m EXCEPT !.ip = @ + 1] ELSE FailTry(m)

\* The beginning or the end of group g.
TryGroup(m, op, g) ==
    LET next == [m EXCEPT !.ip = @ + 2]
    IN  IF op = "LPAREN"
        THEN PushEntry([next EXCEPT !.beg[g] = m.str], ReEntry("open", 0, m.beg[g], g))
        ELSE IF op = "RPAREN_SKIP" /\ m.beg[g] = m.str THEN [m EXCEPT !.ip = @ + 4]
        ELSE PushEntry(next, [ReEntry("close", m.str, m.beg[g], g) EXCEPT !.moves = m.moves])

\* A branch tries one of two places first.
TryBranch(m, op, disp) ==
    LET there == m.ip + 1 + disp
    IN  CASE op = "BRANCH_ALWAYS" -> [m EXCEPT !.ip = there]
          [] op = "BRANCH_BEFORE" -> PushEntry([m EXCEPT !.ip = there], ReEntry("try", m.ip + 2, m.str, 0))
          [] op = "BRANCH_AFTER"  -> PushEntry([m EXCEPT !.ip = @ + 2], ReEntry("try", there, m.str, 0))

\* One character of a set (of all for A_ANY), whose operand is size words.
TryChar(m, text, chars, size) ==
    IF m.str < Len(text) /\ text[m.str + 1] \in chars
    THEN [m EXCEPT !.ip = @ + 1 + size, !.str = @ + 1]
    ELSE FailTry(m)

\* One turn of the loop of Try.
TryStep(m, code, text) ==
    LET word(i) == code[m.ip + 1 + i]
        op      == word(0)
        repeat(chars, size, fold) ==
            TryRepeat(m, text, word(1), word(2), chars, m.ip + 3 + size,
                      op \in {"LITERAL_REPEAT_MIN", "LITERAL_I_REPEAT_MIN", "SET_REPEAT_MIN",
                              "ANY_REPEAT_MIN"}, fold)
    IN  CASE op \in {"BOW", "EOW", "BOL_MULTI", "EOL_MULTI"} -> TryAnchor(m, text, op)
          [] op \in {"LPAREN", "RPAREN", "RPAREN_SKIP"} -> TryGroup(m, op, word(1))
          [] op \in {"BACKREF", "BACKREF_I", "BACKREF_SKIP", "BACKREF_I_SKIP"} ->
                TryBackRef([m EXCEPT !.ip = @ + 1], text, word(1), op \in {"BACKREF_I", "BACKREF_I_SKIP"})
          [] op \in {"LITERAL", "LITERAL_I"} ->
                TryString([m EXCEPT !.ip = @ + 1], text, <<word(1)>>, op = "LITERAL_I")
          [] op \in {"LITERAL_STRING", "LITERAL_I_STRING"} ->
                TryString([m EXCEPT !.ip = @ + 2], text, SubSeq(code, m.ip + 3, m.ip + 2 + word(1)),
                          op = "LITERAL_I_STRING")
          [] op \in {"LITERAL_REPEAT", "LITERAL_REPEAT_MIN"} -> repeat({word(3)}, 1, FALSE)
          [] op \in {"LITERAL_I_REPEAT", "LITERAL_I_REPEAT_MIN"} -> repeat({word(3)}, 1, TRUE)
          [] op \in {"SET_REPEAT", "SET_REPEAT_MIN"} -> repeat(word(3), 1, FALSE)
          [] op \in {"ANY_REPEAT", "ANY_REPEAT_MIN"} -> repeat(ReChars, 0, FALSE)
          [] op = "SET" -> TryChar(m, text, word(1), 1)
          [] op = "ANY" -> TryChar(m, text, ReChars, 0)
          [] op \in {"BRANCH_BEFORE", "BRANCH_AFTER", "BRANCH_ALWAYS"} -> TryBranch(m, op, word(1))
          [] op = "MATCH" -> [m EXCEPT !.status = "match"]

RECURSIVE TryLoop(_, _, _)
TryLoop(m, code, text) ==
    IF m.status # "run" THEN m ELSE TryLoop(TryStep(m, code, text), code, text)

Try(re, text, pos, top) ==
    TryLoop([ip |-> 0, str |-> pos, st |-> <<ReEntry("empty", 0, 0, 0)>>,
             beg |-> [g \in 1 .. re.groups |-> 0], top |-> top, moves |-> 0,
             status |-> "run"], re.code, text)

\* The last mark of a group tells where it is.
FindSubExpressions(re, m) ==
    [g \in 1 .. re.groups |->
        LET closed == {i \in DOMAIN m.st : m.st[i].kind = "close" /\ m.st[i].n = g}
            e      == m.st[Max(closed)]
        IN  IF closed = {} THEN NoRange
            ELSE <<e.str, IF e.moves = m.moves THEN e.ip ELSE -2>>]

Found(re, m, pos) == <<<<pos, m.str>>>> \o FindSubExpressions(re, m)

\* The positions are tried in turn; the first that matches is the result.
RECURSIVE SearchFrom(_, _, _, _)
SearchFrom(re, text, pos, top) ==
    LET After(m) == IF m.status = "match" THEN Found(re, m, pos)
                    ELSE SearchFrom(re, text, pos + 1, m.top)
    IN  IF pos > Len(text) \/ (pos = Len(text) /\ re.minLen > 0) THEN <<>>
        ELSE After(IF pos < Len(text) => text[pos + 1] \in re.start THEN Try(re, text, pos, top)
                   ELSE [status |-> "skip", top |-> top])

\* A match object: the ranges of the match and of the groups.
AMatchRegExp(re, text, pos, noSearch) ==
    LET Result(m) == IF m.status = "match" THEN Found(re, m, pos) ELSE <<>>
    IN  IF Len(text) < re.minLen THEN <<>>
        ELSE IF ~noSearch THEN SearchFrom(re, text, pos, ReStackSize)
        ELSE IF pos <= Len(text) THEN Result(Try(re, text, pos, ReStackSize))
        ELSE <<>>

(***************************************************************************)
(* The reference: the matches of a syntax tree at a position, with the     *)
(* groups they find, the preferred ones first.  An iteration that takes    *)
(* no text ends the loop and leaves the group as it was.                   *)
(***************************************************************************)
SameChar(a, b, nocase) == a = b \/ (nocase /\ ReLower[a] = ReLower[b])

TakesChar(e, c, nocase) ==
    CASE e.t = "char" -> SameChar(e.ch, c, nocase)
      [] e.t = "."    -> TRUE
      [] e.t = "["    -> e.comp # \E d \in e.chars : SameChar(d, c, nocase)

IsWordAt(text, i) == i \in DOMAIN text /\ text[i] \in ReWordChars

HoldsAt(t, text, i) ==
    CASE t = "^"   -> i = 0 \/ text[i] = "\n"
      [] t = "$"   -> i = Len(text) \/ text[i + 1] = "\n"
      [] t = "\\<" -> ~IsWordAt(text, i) /\ IsWordAt(text, i + 1)
      [] t = "\\>" -> IsWordAt(text, i) /\ ~IsWordAt(text, i + 1)

RECURSIVE Matches(_, _, _, _), Iterations(_, _, _, _, _, _)

\* The matches of a sequence of expressions: i, the end, and c, the groups.
MatchesOfAll(es, text, at, nocase) ==
    FoldLeft(LAMBDA ms, e : FlattenSeq([k \in 1 .. Len(ms) |-> Matches(e, text, ms[k], nocase)]),
             <<at>>, es)

Matches(e, text, at, nocase) ==
    CASE e.t \in {"char", ".", "["} ->
            IF at.i < Len(text) /\ TakesChar(e, text[at.i + 1], nocase)
            THEN <<[at EXCEPT !.i = @ + 1]>> ELSE <<>>
      [] e.t \in {"^", "$", "\\<", "\\>"} -> IF HoldsAt(e.t, text, at.i) THEN <<at>> ELSE <<>>
      [] e.t = "\\1" ->
            LET r == at.c[e.num]
                n == r[2] - r[1]
            IN  IF r # NoRange /\ at.i + n <= Len(text)
                   /\ \A k \in 1 .. n : SameChar(text[r[1] + k], text[at.i + k], nocase)
                THEN <<[at EXCEPT !.i = @ + n]>> ELSE <<>>
      [] e.t = "group" ->
            LET ms == Matches(e.of, text, at, nocase)
            IN  [k \in 1 .. Len(ms) |-> [ms[k] EXCEPT !.c[e.num] = <<at.i, ms[k].i>>]]
      [] e.t = "cat" -> MatchesOfAll(e.of, text, at, nocase)
      [] e.t = "alt" -> FlattenSeq([k \in 1 .. Len(e.of) |-> Matches(e.of[k], text, at, nocase)])
      [] e.t = "rep" -> Iterations(e, e.min, e.max, text, at, nocase)

\* Just n iterations.
Exactly(n, e, text, at, nocase) == MatchesOfAll([k \in 1 .. n |-> e], text, at, nocase)

\* At least min and at most max more iterations.  A bounded repetition that is
\* to be short prefers fewer iterations to any choice within an iteration.
Iterations(e, min, max, text, at, nocase) ==
    LET ms      == Matches(e.of, text, at, nocase)
        less(n) == IF n = Unbounded \/ n = 0 THEN n ELSE n - 1
        after(m) ==
            IF m.i = at.i /\ min = 0 /\ max = Unbounded
            THEN <<IF e.of.t = "group" THEN [m EXCEPT !.c[e.of.num] = at.c[e.of.num]] ELSE m>>
            ELSE Iterations(e, less(min), less(max), text, m, nocase)
        more    == IF max = 0 THEN <<>> ELSE FlattenSeq([k \in 1 .. Len(ms) |-> after(ms[k])])
    IN  IF min > 0 THEN more
        ELSE IF e.lazy /\ max # Unbounded
        THEN FlattenSeq([n \in 1 .. max + 1 |-> Exactly(n - 1, e.of, text, at, nocase)])
        ELSE IF e.lazy THEN <<at>> \o more ELSE more \o <<at>>

\* What a pattern is written like.
RepeatToken(e) ==
    CASE e.min = 0 /\ e.max = 1 -> [t |-> "?"]
      [] e.min = 0 /\ e.max = Unbounded -> [t |-> "*"]
      [] e.min = 1 /\ e.max = Unbounded -> [t |-> "+"]
      [] OTHER -> [t |-> "{", min |-> e.min, max |-> e.max]

RECURSIVE Written(_)
Written(e) ==
    CASE e.t = "group" -> <<[t |-> "("]>> \o Written(e.of) \o <<[t |-> ")"]>>
      [] e.t = "cat"   -> FlattenSeq([k \in 1 .. Len(e.of) |-> Written(e.of[k])])
      [] e.t = "alt"   -> FlattenSeq([k \in 1 .. Len(e.of) |->
                              (IF k = 1 THEN <<>> ELSE <<[t |-> "|"]>>) \o Written(e.of[k])])
      [] e.t = "rep"   -> Written(e.of) \o <<RepeatToken(e)>>
                              \o (IF e.lazy THEN <<[t |-> "?"]>> ELSE <<>>)
      [] OTHER         -> <<e>>

NumGroups(tokens) == Cardinality({k \in DOMAIN tokens : tokens[k].t = "("})

MatchAt(e, nocase, text, pos) ==
    LET First(ms) == IF ms = <<>> THEN <<>> ELSE <<<<pos, ms[1].i>>>> \o ms[1].c
    IN  IF pos > Len(text) THEN <<>>
        ELSE First(Matches(e, text, [i |-> pos, c |-> [g \in 1 .. NumGroups(Written(e)) |-> NoRange]], nocase))

FirstMatch(e, nocase, text, pos) ==
    LET found == [i \in pos .. Len(text) |-> MatchAt(e, nocase, text, i)]
        First(f) == IF \A i \in DOMAIN f : f[i] = <<>> THEN <<>>
                    ELSE f[Min({i \in DOMAIN f : f[i] # <<>>})]
    IN  First(found)

(***************************************************************************)
(* An expression is compiled, and then a text is matched or searched.      *)
(***************************************************************************)
NoMatchYet == [text |-> <<>>, pos |-> 0, noSearch |-> TRUE, result |-> <<"none">>]

ReInit == regExp = [pattern |-> [t |-> "none"]] /\ reMatch = NoMatchYet

Compile(pattern, tokens, nocase) ==
    /\ regExp.pattern.t = "none"
    /\ regExp' = [pattern |-> pattern, nocase |-> nocase, re |-> ACompileRegExp(tokens, nocase)]
    /\ UNCHANGED reMatch

\* match and search; an index behind the text finds nothing.
ReRun(text, pos, noSearch) ==
    /\ regExp.pattern.t \notin {"none", "bad"} /\ ~regExp.re.error
    /\ reMatch = NoMatchYet
    /\ reMatch' = [text |-> text, pos |-> pos, noSearch |-> noSearch,
                   result |-> AMatchRegExp(regExp.re, text, pos, noSearch)]
    /\ UNCHANGED regExp

ReMatchOrSearch == \E text \in ReTexts, pos \in {0, 1}, noSearch \in BOOLEAN : ReRun(text, pos, noSearch)

ReNext ==
    \/ /\ regExp.pattern.t = "none"
       /\ \E c \in {<<e, Written(e)>> : e \in RePatterns} \union {<<[t |-> "bad"], p>> : p \in ReBadPatterns},
            nocase \in BOOLEAN : Compile(c[1], c[2], nocase)
    \/ ReMatchOrSearch

\* A sequence of tokens compiles exactly if it is a pattern, and match and search
\* find the range, and the ranges of the groups, that the pattern's own meaning
\* prefers: the code of ParseRepetition and EmitBranchAt, the stack of Try, the
\* marks of the groups and the filters startChar and minLen lose no match and
\* find no other.
RegExpIsExact ==
    /\ regExp.pattern.t # "none" => (regExp.re.error <=> regExp.pattern.t = "bad")
    /\ reMatch # NoMatchYet =>
          reMatch.result =
              IF reMatch.noSearch
              THEN MatchAt(regExp.pattern, regExp.nocase, reMatch.text, reMatch.pos)
              ELSE FirstMatch(regExp.pattern, regExp.nocase, reMatch.text, reMatch.pos)
=============================================================================
