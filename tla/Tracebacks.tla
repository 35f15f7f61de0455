----------------------------- MODULE Tracebacks -----------------------------
(***************************************************************************)
(* Tracebacks (output.c, exception.c and the raising of exceptions in      *)
(* interp.c): which source line the compiler records for every opcode, and *)
(* which functions and lines the traceback of an uncaught exception lists. *)
(*                                                                         *)
(* An opcode stands for the line of the statement that it belongs to, 0 if *)
(* it raises nothing.  A stack is the sequence of its frames, the topmost  *)
(* first, and a frame is named by its place in it.                         *)
(***************************************************************************)
EXTENDS Integers, Sequences, FiniteSets, SequencesExt

CONSTANTS
    TbMaxCode,        \* the largest code distance of a relative line number, 15
    TbMaxLine,        \* the largest line distance of a relative line number, 7
    TbDistances,      \* distances of the lines of consecutive statements
    TbSizes,          \* numbers of the opcodes of a statement
    MaxTbStatements,  \* how many statements are compiled
    TbEntries,        \* MAX_TRACEBACK_ENTRIES
    TbStacks,         \* the stacks when an exception is raised
    TbDeviations      \* whether programs that the code handles wrongly are included

ASSUME TbEntriesAreEven == TbEntries > 0 /\ TbEntries % 2 = 0

VARIABLES
    em,     \* the state of the code generator
    tr      \* the state of an exception

tbVars == <<em, tr>>

(***************************************************************************)
(* Line numbers: em.buf is ABuf, em.info DebugInfoBuf, em.at and em.prev   *)
(* PrevLineCodeIndex and PrevLine.                                         *)
(***************************************************************************)
AbsoluteLine(l) == [abs |-> TRUE, code |-> 0, line |-> l]
RelativeLine(c, l) == [abs |-> FALSE, code |-> c, line |-> l]

AEmitDebugInfo(e, opc) == [e EXCEPT !.info = Append(@, opc)]

AEmitAbsoluteLineNumber(e, l) == [AEmitDebugInfo(e, AbsoluteLine(l)) EXCEPT !.prev = l]

\* How often AEmitLineNumber records the largest distance.
LongSteps(codeDelta) == IF codeDelta = 0 THEN 0 ELSE (codeDelta - 1) \div TbMaxCode

\* A line before the previous one is a large unsigned distance.
IsFarLine(lineDelta) == lineDelta < 0 \/ lineDelta > TbMaxLine

AEmitLineNumber(e, l) ==
    LET codeDelta == Len(e.buf) - e.at
        lineDelta == l - e.prev
        n == LongSteps(codeDelta)
        far == [e EXCEPT !.info = @ \o [i \in 1..n |-> RelativeLine(TbMaxCode, 0)], !.at = Len(e.buf), !.prev = l]
        near == codeDelta - n * TbMaxCode
    IN IF IsFarLine(lineDelta)
       THEN AEmitDebugInfo(AEmitAbsoluteLineNumber(far, l), RelativeLine(near, 0))
       ELSE AEmitDebugInfo(far, RelativeLine(near, lineDelta))

\* The code and the line numbers of the current section.
SectionCode(e) == SubSeq(e.buf, Last(e.sections).buf + 1, Len(e.buf))
SectionInfo(e) == SubSeq(e.info, Last(e.sections).info + 1, Len(e.info))

AEnterSection(e) ==
    [e EXCEPT !.sections = Append(@, [buf |-> Len(e.buf), info |-> Len(e.info), at |-> e.at, prev |-> e.prev,
                                      line |-> e.line, whiles |-> Len(e.whiles)]),
              !.at = Len(e.buf)]

\* e.func: the function that has been built last.
ALeaveSection(e) ==
    LET s == Last(e.sections)
    IN [e EXCEPT !.func = [code |-> SectionCode(e), info |-> SectionInfo(e)],
                 !.buf = SubSeq(@, 1, s.buf), !.info = SubSeq(@, 1, s.info),
                 !.at = s.at, !.prev = s.prev, !.sections = Front(@)]

\* k opcodes of a statement of line l.
EmitCode(e, k, l) == [e EXCEPT !.buf = @ \o [i \in 1..k |-> l]]

\* ASaveCode and ARestoreCode.
SaveLines(e, size) ==
    [e EXCEPT !.saved = @ \o SubSeq(e.buf, Len(e.buf) - size + 1, Len(e.buf)),
              !.buf = SubSeq(@, 1, Len(@) - size)]

RestoreLines(e, size) ==
    [e EXCEPT !.buf = @ \o SubSeq(e.saved, Len(e.saved) - size + 1, Len(e.saved)),
              !.saved = SubSeq(@, 1, Len(@) - size)]

\* One step of GetLineNumber: s is its state, opc the next line number.
ReadLineNumber(s, opc, ip) ==
    LET cur == s.cur + opc.code
        line == s.line + opc.line
    IN IF opc.abs THEN [s EXCEPT !.line = opc.line]
       ELSE IF cur <= ip /\ cur >= s.found THEN [cur |-> cur, line |-> line, found |-> cur, foundLine |-> line]
       ELSE [s EXCEPT !.cur = cur, !.line = line]

GetLineNumber(info, ip) ==
    LET Read(s, opc) == ReadLineNumber(s, opc, ip)
    IN FoldLeft(Read, [cur |-> 0, line |-> 0, found |-> 0, foundLine |-> 0], info).foundLine

(***************************************************************************)
(* Compiling statements.                                                   *)
(***************************************************************************)
\* The section of a file.  The first opcode of the buffer is a NOP.
FileSection ==
    AEmitAbsoluteLineNumber(
        AEnterSection([buf |-> <<0>>, info |-> <<>>, sections |-> <<>>, at |-> 0, prev |-> 0, saved |-> <<>>,
                       whiles |-> <<>>, line |-> 1, func |-> [code |-> <<>>, info |-> <<>>], n |-> 0]), 1)

\* Another statement begins d lines below.
NextStatement(d) == [em EXCEPT !.line = @ + d, !.n = @ + 1]

ParseStatement(d, k) ==
    /\ em.n < MaxTbStatements
    /\ LET e == NextStatement(d) IN em' = EmitCode(AEmitLineNumber(e, e.line), k, e.line)

\* The condition is moved behind the body, and a jump leads to it.
BeginWhileStatement(d, k) ==
    /\ em.n < MaxTbStatements
    /\ TbDeviations \/ k <= TbMaxCode
    /\ LET e == NextStatement(d)
           rest == SaveLines(EmitCode(e, k, e.line), k)
       IN em' = [EmitCode(rest, 1, 0) EXCEPT !.whiles = Append(@, [line |-> e.line, size |-> k])]

EndWhileStatement(d) ==
    /\ Len(em.whiles) > Last(em.sections).whiles
    /\ TbDeviations \/ Len(em.buf) - em.at <= TbMaxCode
    /\ LET w == Last(em.whiles)
           top == AEmitLineNumber(AEmitAbsoluteLineNumber(em, w.line), w.line)
           l == em.line + d
       IN em' = [AEmitAbsoluteLineNumber(RestoreLines(top, w.size), l) EXCEPT !.line = l, !.whiles = Front(@)]

\* A statement with k opcodes before an anonymous function in it.
BeginAnonymousFunction(d, k) ==
    /\ em.n < MaxTbStatements
    /\ Len(em.sections) < 2
    /\ LET e == NextStatement(d)
       IN em' = AEmitAbsoluteLineNumber(AEnterSection(EmitCode(AEmitLineNumber(e, e.line), k, e.line)), e.line)

\* The function returns at its end; the statement has k more opcodes.
EndAnonymousFunction(d, k) ==
    /\ Len(em.sections) > 1
    /\ Len(em.whiles) = Last(em.sections).whiles
    /\ LET l == em.line + d
           end == EmitCode(AEmitLineNumber(em, l), 1, l)
       IN em' = [EmitCode(ALeaveSection(end), k, Last(em.sections).line) EXCEPT !.line = l]

(***************************************************************************)
(* Exceptions: tr.top is uncaughtExceptionStackPtr, tr.ptr stackPtr,       *)
(* tr.re isExceptionReraised and tr.arr the traceback of the exception.    *)
(* A frame has the symbol of its function, whether it is that of a class   *)
(* constructor or of a C function, and how many finally blocks enclose the *)
(* place where it is.                                                      *)
(***************************************************************************)
Bottom(t) == Len(t.st)

\* Class constructors are skipped when they called a function of the class.
IsSkippedFrame(t, i) == i > t.top /\ t.st[i].ctor /\ t.st[i].sym = t.st[i - 1].sym

RECURSIVE FramesFrom(_, _)
\* The frames that are not skipped, from frame i on.
FramesFrom(t, i) ==
    IF i > Bottom(t) THEN <<>>
    ELSE (IF IsSkippedFrame(t, i) THEN <<>> ELSE <<i>>) \o FramesFrom(t, i + 1)

\* The number of the entries.
TracebackLength(t) ==
    (IF t.re THEN 0 ELSE 1)
      + Cardinality({i \in t.top..(t.ptr - 1) : ~IsSkippedFrame(t, i)})
      - IF t.ptr = Bottom(t) THEN 1 ELSE 0

\* An entry that stands for n frames.
SkippedEntries(n) == <<"skipped", n>>
FrameEntry(t, i) == <<t.st[i].sym, i>>

\* The entries, at most TbEntries of them.
LimitedEntries(t, frames) ==
    LET len == Len(frames)
        half == TbEntries \div 2
        Entry(i) == IF i = half /\ len > TbEntries THEN SkippedEntries(len - TbEntries + 1)
                    ELSE FrameEntry(t, frames[i])
        kept == {i \in 1..len : i <= half \/ i > len - half}
    IN [j \in 1..Cardinality(kept) |-> Entry(IF j <= half THEN j ELSE len - (Cardinality(kept) - j))]

ACreateTracebackArray(t) ==
    LET len == TracebackLength(t)
        all == FramesFrom(t, t.top)
        frames == SubSeq(IF t.re THEN Tail(all) ELSE all, 1, len)
    IN [t EXCEPT !.arr = @ \o LimitedEntries(t, frames), !.re = @ /\ len = 0]

\* The entry after one for the main level or for an anonymous function is
\* that of the code that the compiler made to call it.  One that is the last
\* entry is cut off itself.
RECURSIVE AFilterTracebackArray(_)
AFilterTracebackArray(arr) ==
    IF arr = <<>> THEN <<>>
    ELSE IF Head(arr)[1] \in {"Main", "anon", "main level"}
         THEN (IF Len(arr) = 1 THEN <<>> ELSE <<Head(arr)>>) \o AFilterTracebackArray(SubSeq(arr, 3, Len(arr)))
         ELSE <<Head(arr)>> \o AFilterTracebackArray(Tail(arr))

NoException == [st |-> <<>>, at |-> "none", top |-> 0, ptr |-> 0, re |-> FALSE, arr |-> <<>>, fin |-> 0]

\* Not: a C function below a function with a finally block, and an anonymous
\* function among more frames than a traceback lists.
IsRegularStack(st) ==
    /\ \A i, j \in DOMAIN st : i < j /\ st[j].c => st[i].fin = 0
    /\ Len(st) > TbEntries + 1 => \A i \in DOMAIN st : st[i].sym # "anon"

\* ARaiseExceptionValue or OP_RAISE in the topmost frame.
ARaiseExceptionValue ==
    /\ tr.at = "none"
    /\ \E st \in TbStacks :
          /\ TbDeviations \/ IsRegularStack(st)
          /\ tr' = [NoException EXCEPT !.st = st, !.at = "unwind", !.top = 1, !.ptr = 1, !.fin = Head(st).fin]

\* The exception leaves frame tr.ptr.  It reaches the caller of a C function
\* as an exception that the function returns.
UnwindFrame ==
    /\ tr.at = "unwind" /\ tr.ptr < Bottom(tr) /\ tr.fin = 0
    /\ tr' = [tr EXCEPT !.ptr = @ + 1, !.fin = tr.st[tr.ptr + 1].fin, !.re = @ /\ ~tr.st[tr.ptr].c]

\* AGetExceptionHandler finds a finally block.
EnterFinally ==
    /\ tr.at = "unwind" /\ tr.fin > 0
    /\ tr' = [ACreateTracebackArray(tr) EXCEPT !.at = "finally", !.fin = @ - 1]

\* Another exception is raised and caught in the finally block.
RaiseInFinally ==
    /\ tr.at = "finally"
    /\ tr' = [tr EXCEPT !.top = tr.ptr, !.re = FALSE]

\* Faulty variant: the exception is raised again as if by the frame.
OP_LEAVE_FINALLY_Again ==
    /\ tr.at = "finally"
    /\ tr' = [tr EXCEPT !.at = "unwind", !.top = tr.ptr, !.re = FALSE]

OP_LEAVE_FINALLY ==
    /\ tr.at = "finally"
    /\ tr' = [tr EXCEPT !.at = "unwind", !.top = tr.ptr, !.re = TRUE]

\* Nothing caught the exception.
ADisplayStackTraceback ==
    /\ tr.at = "unwind" /\ tr.ptr = Bottom(tr)
    /\ tr' = LET t == ACreateTracebackArray(tr)
             IN [t EXCEPT !.at = "shown", !.arr = AFilterTracebackArray(@)]

(***************************************************************************)
(* What tracebacks are meant to tell.                                      *)
(***************************************************************************)
IsLineOf(code, info) == \A ip \in DOMAIN code : code[ip] # 0 => GetLineNumber(info, ip - 1) = code[ip]

\* Every opcode has the line of its statement.
LinesAreExact ==
    /\ IsLineOf(SectionCode(em), SectionInfo(em))
    /\ IsLineOf(em.func.code, em.func.info)

\* The frames that a reader of the program knows of: those of the functions
\* that it defines, and class constructors only for what they call.
IsShownFrame(st, i) ==
    /\ i < Len(st)
    /\ ~(i > 1 /\ st[i].ctor /\ st[i].sym = st[i - 1].sym)
    /\ ~(i > 1 /\ st[i - 1].sym \in {"Main", "anon", "main level"})

\* The entries stand for the frames of the stack, each once and in order; only
\* an entry of skipped frames stands for several, as many as it says.
TracebackIsExact ==
    LET shown == {i \in DOMAIN tr.st : IsShownFrame(tr.st, i)}
        named == SelectSeq(tr.arr, LAMBDA x : x[1] # "skipped")
        left == SelectSeq(tr.arr, LAMBDA x : x[1] = "skipped")
    IN tr.at = "shown" =>
          /\ \A j \in 1..(Len(named) - 1) : named[j][2] < named[j + 1][2]
          /\ \A j \in DOMAIN named : named[j][2] \in shown /\ named[j][1] = tr.st[named[j][2]].sym
          /\ Len(named) + FoldLeft(LAMBDA n, x : n + x[2], 0, left) = Cardinality(shown)

\* The traceback of an uncaught exception lists the functions that were being
\* executed, each once and innermost first, whatever finally blocks ran on the
\* way, and GetLineNumber finds the line of the statement that every opcode
\* belongs to (AEmitLineNumber, ACreateTracebackArray, AFilterTracebackArray).
TracebacksAreExact == LinesAreExact /\ TracebackIsExact

TbInit == em = FileSection /\ tr = NoException

TbNext ==
    \/ tr.at = "none" /\ UNCHANGED tr
         /\ \/ \E d \in TbDistances, k \in TbSizes : ParseStatement(d, k)
            \/ \E d \in TbDistances, k \in TbSizes : BeginWhileStatement(d, k)
            \/ \E d \in TbDistances : EndWhileStatement(d)
            \/ \E d \in TbDistances, k \in TbSizes : BeginAnonymousFunction(d, k)
            \/ \E d \in TbDistances, k \in TbSizes : EndAnonymousFunction(d, k)
    \/ em.n = 0 /\ UNCHANGED em
         /\ \/ ARaiseExceptionValue \/ UnwindFrame \/ EnterFinally \/ RaiseInFinally \/ OP_LEAVE_FINALLY
            \/ ADisplayStackTraceback

=============================================================================
