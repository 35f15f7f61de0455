---------------------------- MODULE StreamOutput ----------------------------
(***************************************************************************)
(* The output side of io::Stream and io::File (io_module.c, io_posix.c):   *)
(* the program writes strings and other objects, the stream collects them  *)
(* in a buffer of narrow (8-bit) or of wide characters, and passes full    *)
(* buffers to _write, which may fail.                                      *)
(*                                                                         *)
(* A narrow string is [k |-> "str", wide |-> FALSE, s]; an object that is  *)
(* not a string is [k |-> "obj", s, inner], whose _str method first writes *)
(* the arguments inner to the same stream, or [k |-> "bad"], whose _str    *)
(* raises an exception.                                                    *)
(***************************************************************************)
EXTENDS Integers, Sequences, SequencesExt, FiniteSets

CONSTANTS
    WriteArgs,     \* the argument lists of the calls of write and writeLn
    WideChars,     \* the characters that do not fit into a narrow string
    OutBufSize,    \* A_IO_BUFFER_SIZE, in bytes: a multiple of WideSize
    OutLineSize,   \* A_IO_LINE_BUFFER_SIZE
    FailWritten    \* how many characters a failing _write has written

ASSUME OutSizes ==
    /\ OutBufSize % 2 = 0 /\ OutBufSize > 0
    /\ OutLineSize % 2 = 0 /\ OutLineSize > 0
    /\ FailWritten \subseteq Nat

VARIABLES
    outs,      \* the stream
    outLast    \* the last call: what was buffered before it (before), what it
               \* was to write (data), and whether it returned normally (ok)

outVars == <<outs, outLast>>

WideSize == 2          \* sizeof(AWideChar)
NewLine  == "\n"
Garbage  == "garbage"  \* an element of a buffer that was never stored to

\* A stream: its mode flags, the buffering mode, its class, its buffer (buf:
\* whether there is one, wide, the elements e, and ind, in bytes) and what
\* _write was given since the call began.
AStreamCreate(mode, bufMode, class) ==
    [mode |-> mode, bufMode |-> bufMode, class |-> class,
     buf |-> FALSE, wide |-> FALSE, e |-> <<>>, ind |-> 0, dev |-> <<>>]

BufLen(o) == IF o.bufMode = "buffered" THEN OutBufSize ELSE OutLineSize
Width(o)  == IF o.wide THEN WideSize ELSE 1

CreateOutBuffer(o) == [o EXCEPT !.buf = TRUE, !.e = <<>>, !.ind = 0]

\* The first n bytes of the buffer.
Contents(o, n) ==
    [i \in 1..(n \div Width(o)) |-> IF i <= Len(o.e) THEN o.e[i] ELSE Garbage]

Buffered(o) == IF o.buf THEN Contents(o, o.ind) ELSE <<>>

\* How much of n elements the device takes, and whether without an error: a
\* keyboard interrupt may follow even the last of them.
WriteBlock(n) ==
    {[taken |-> n, ok |-> TRUE]}
      \union {[taken |-> m, ok |-> FALSE] : m \in {i \in FailWritten : i <= n}}

\* The results of the method _write of the stream.
AFile_Write(o, data) ==
    {[o |-> [o EXCEPT !.dev = @ \o SubSeq(data, 1, w.taken)], ok |-> w.ok] :
       w \in WriteBlock(Len(data))}

\* The results of a flush.  Only a File may keep its buffer, the other
\* streams make a new one.
AStreamFlush(o) ==
    IF "output" \notin o.mode THEN {[o |-> o, ok |-> FALSE]}
    ELSE IF ~o.buf THEN {[o |-> o, ok |-> TRUE]}
    ELSE {IF ~w.ok THEN w
          ELSE IF o.class = "File" THEN [w EXCEPT !.o.ind = 0]
          ELSE [w EXCEPT !.o = CreateOutBuffer(w.o)] : w \in AFile_Write(o, Buffered(o))}

(***************************************************************************)
(* The state of a call of write: the stream o, the local copy n of the     *)
(* index, in bytes, the index orig where the call began to write, and      *)
(* whether no exception has been raised.                                   *)
(***************************************************************************)
FlushAt(l, n) ==
    {IF f.ok THEN [l EXCEPT !.o = f.o, !.n = 0, !.orig = 0]
             ELSE [l EXCEPT !.o = f.o, !.ok = FALSE] :
       f \in AStreamFlush([l.o EXCEPT !.ind = n])}

Copy(l, s) == [l EXCEPT !.o.e = Contents(l.o, l.n) \o s,
                        !.n   = @ + Len(s) * Width(l.o)]

RECURSIVE FillBuffer(_, _)

\* Copy the characters s, and flush whenever the buffer is full.
FillBuffer(l, s) ==
    LET room == (BufLen(l.o) - l.n) \div Width(l.o)
    IN  IF ~l.ok THEN {l}
        ELSE IF Len(s) <= room THEN {Copy(l, s)}
        ELSE UNION {FillBuffer(m, SubSeq(s, room + 1, Len(s))) :
                      m \in FlushAt(Copy(l, SubSeq(s, 1, room)), BufLen(l.o))}

IsNarrowStringContents(s) == \A i \in DOMAIN s : s[i] \notin WideChars

(* Faulty variant: the index is not converted. *)
ExpandInPlace(l) == [l EXCEPT !.o.wide = TRUE, !.o.e = Contents(l.o, l.n)]

\* Make the buffer one of wide characters.
ExpandBuffer(l) == [l EXCEPT !.o.wide = TRUE, !.o.e = Contents(l.o, l.n), !.n = 2 * @]

\* Make room for the characters that are in the buffer, then expand it.
CheckBufferExpand(l) ==
    IF l.o.wide THEN {l}
    ELSE IF l.n > BufLen(l.o) \div 2
         THEN {IF m.ok THEN ExpandBuffer(m) ELSE m : m \in FlushAt(l, l.n)}
         ELSE {ExpandBuffer(l)}

WriteString(l, s, wide) ==
    IF ~wide THEN FillBuffer(l, s)
    ELSE IF "narrow" \notin l.o.mode
         THEN UNION {FillBuffer(m, s) : m \in CheckBufferExpand(l)}
    ELSE IF IsNarrowStringContents(s) THEN FillBuffer(l, s)
    ELSE {[l EXCEPT !.ok = FALSE]}

RECURSIVE WriteItems(_, _), AStreamWrite(_, _)

\* What AStdStr makes of an argument: the string, or an exception; it runs
\* the _str method, which may write to the stream.
StrResults(o, a) ==
    CASE a.k = "bad" -> {[o |-> o, ok |-> FALSE]}
      [] a.k = "obj" /\ a.inner # <<>> -> AStreamWrite(o, a.inner)
      [] OTHER -> {[o |-> o, ok |-> TRUE]}

WriteItems(l, args) ==
    IF args = <<>> \/ ~l.ok THEN {l}
    ELSE LET a == Head(args)
             after == IF a.k = "str" THEN WriteString(l, a.s, a.wide)
                      ELSE UNION {WriteString([l EXCEPT !.o = r.o], a.s, FALSE) :
                                    r \in {x \in StrResults(l.o, a) : x.ok}}
                             \union {[l EXCEPT !.o = r.o, !.ok = FALSE] :
                                       r \in {x \in StrResults(l.o, a) : ~x.ok}}
         IN  UNION {WriteItems(m, Tail(args)) : m \in after}

WroteNewLine(l) ==
    \E i \in (l.orig \div Width(l.o) + 1)..(l.n \div Width(l.o)) :
        Contents(l.o, l.n)[i] = NewLine

\* The end of a buffered write: the line break of a writeLn, a flush if the
\* stream is line buffered and a line break was written, and the index.
FinishWrite(l) ==
    LET isLine == l.o.bufMode = "line"
        room   == IF "writeline" \notin l.o.mode THEN {l}
                  ELSE {IF m.ok THEN Copy(m, <<NewLine>>) ELSE m :
                          m \in IF l.n = BufLen(l.o) THEN FlushAt(l, l.n) ELSE {l}}
        flush(m) == m.ok /\ isLine /\ ("writeline" \in m.o.mode \/ WroteNewLine(m))
    IN  {IF m.ok THEN [m EXCEPT !.o.ind = m.n] ELSE m :
           m \in UNION {IF flush(r) THEN FlushAt(r, r.n) ELSE {r} : r \in room}}

\* The characters that a call is to write.
Data(args) == FlattenSeq([i \in DOMAIN args |-> IF args[i].k = "bad" THEN <<>> ELSE args[i].s])
WithLine(args, line) == Data(args) \o (IF line THEN <<NewLine>> ELSE <<>>)

\* All arguments are converted before the first is written.
WriteUnbuffered(o, args) ==
    LET data == WithLine(args, "writeline" \in o.mode)
    IN  IF \/ \E i \in DOMAIN args : args[i].k = "bad"
           \/ "narrow" \in o.mode /\ ~IsNarrowStringContents(data)
        THEN {[o |-> o, ok |-> FALSE]}
        ELSE AFile_Write(o, data)

AStreamWrite(o, args) ==
    IF o.buf
    THEN LET l == [o |-> o, n |-> o.ind, orig |-> o.ind, ok |-> TRUE]
         IN  {[o |-> m.o, ok |-> m.ok] :
                m \in UNION {IF w.ok THEN FinishWrite(w) ELSE {w} : w \in WriteItems(l, args)}}
    ELSE IF "output" \notin o.mode THEN {[o |-> o, ok |-> FALSE]}
    ELSE IF o.bufMode = "unbuffered" THEN WriteUnbuffered(o, args)
    ELSE AStreamWrite(CreateOutBuffer(o), args)

AStreamWriteLn(o, args) ==
    {[r EXCEPT !.o.mode = @ \ {"writeline"}] :
       r \in AStreamWrite([o EXCEPT !.mode = @ \union {"writeline"}], args)}

\* A Stream drops its buffers when it is closed.
StreamClose(o) ==
    IF o.mode = {} THEN {[o |-> o, ok |-> TRUE]}
    ELSE {IF ~f.ok THEN f
          ELSE [f EXCEPT !.o.mode = {}, !.o.buf = FALSE] : f \in AStreamFlush(o)}

\* A File keeps its buffer, and is closed even if the system reports an error.
AFileCloseWithMethod(o) ==
    IF o.mode = {} THEN {[o |-> o, ok |-> TRUE]}
    ELSE UNION {IF ~f.ok THEN {f}
                ELSE {[f EXCEPT !.o.mode = {}, !.ok = ok] : ok \in BOOLEAN} : f \in AStreamFlush(o)}

(***************************************************************************)
(* The program makes a stream and calls its methods.                       *)
(***************************************************************************)
OutInit ==
    /\ outs = AStreamCreate({}, "unbuffered", "Stream")
    /\ outLast = [before |-> <<>>, data |-> <<>>, ok |-> TRUE]

\* The call returns: elements that are not in use any more are forgotten.
Returned(r, data) ==
    /\ outs' = [r.o EXCEPT !.e = Buffered(r.o)]
    /\ outLast' = [before |-> Buffered(outs), data |-> data, ok |-> r.ok]

Fresh(o) == [o EXCEPT !.dev = <<>>]

OpenOutput(bufMode, class) ==
    /\ outs.mode = {} /\ ~outs.buf
    /\ Returned([o |-> AStreamCreate({"output"} \union (IF class = "File" THEN {"narrow"} ELSE {}),
                                     bufMode, class),
                 ok |-> TRUE], <<>>)

WriteCall(args, line) ==
    /\ outs.mode # {}
    /\ \E r \in IF line THEN AStreamWriteLn(Fresh(outs), args)
                        ELSE AStreamWrite(Fresh(outs), args) : Returned(r, WithLine(args, line))

FlushCall ==
    /\ outs.mode # {}
    /\ \E r \in AStreamFlush(Fresh(outs)) : Returned(r, <<>>)

CloseCall ==
    /\ outs.mode # {}
    /\ \E r \in IF outs.class = "File" THEN AFileCloseWithMethod(Fresh(outs))
                                        ELSE StreamClose(Fresh(outs)) : Returned(r, <<>>)

OutNext ==
    \/ \E m \in {"unbuffered", "line", "buffered"}, c \in {"Stream", "File"} : OpenOutput(m, c)
    \/ \E args \in WriteArgs, line \in BOOLEAN : WriteCall(args, line)
    \/ FlushCall
    \/ CloseCall

(***************************************************************************)
(* Properties.                                                             *)
(***************************************************************************)
\* A call of write passes on or keeps everything that was buffered before it
\* and the characters of its arguments, in order and once: all of them if it
\* returns, some beginning of them if it raises an exception.
WritesKeepOrder ==
    LET now == outs.dev \o Buffered(outs)
    IN  /\ IsPrefix(outLast.before, now)
        /\ IsPrefix(now, outLast.before \o outLast.data)
        /\ outLast.ok => now = outLast.before \o outLast.data

\* A line buffered stream has passed on a line break when the call that wrote
\* it returns, and a closed stream everything.
LinesAreOut ==
    /\ outLast.ok /\ outs.bufMode = "line" /\ NewLine \in Range(outLast.data)
         => NewLine \notin Range(Buffered(outs))
    /\ outs.mode = {} => Buffered(outs) = <<>>

\* What is written arrives in order, and lines at once.
OutputIsExact == WritesKeepOrder /\ LinesAreOut
=============================================================================
