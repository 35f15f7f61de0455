----------------------------- MODULE StreamInput -----------------------------
(***************************************************************************)
(* The input side of io::Stream and io::File (io_module.c, io_posix.c): a  *)
(* stream reads its contents in pieces that _read chooses, and hands them  *)
(* out as characters and lines.                                            *)
(*                                                                         *)
(* A call has several possible results, one for each way in which _read    *)
(* may cut the contents into pieces.                                       *)
(***************************************************************************)
EXTENDS Integers, Sequences, SequencesExt, FiniteSets, FiniteSetsExt

CONSTANTS
    InContents,   \* the possible contents of the stream
    InBufSize,    \* the largest piece: A_IO_BUFFER_SIZE (and MAX_READ)
    InSizes,      \* the arguments of read, and the positions of seek
    ReadMayFail   \* whether _read may raise an exception

ASSUME InSizesOK == InBufSize > 0 /\ InSizes \subseteq Int /\ ReadMayFail \in BOOLEAN

VARIABLES
    ins,      \* the stream: contents, pos (what _read has read), its buffer
              \* (empty if there is none), whether it is open and buffered
    inLast    \* the last call, the characters that were unread before it, and
              \* its result

inVars == <<ins, inLast>>

CR == "\r"
LF == "\n"

ReadError == [error |-> TRUE, v |-> <<>>]
\* A truth value or a number is a sequence of one.
Value(v)  == [error |-> FALSE, v |-> v]

\* What has not been handed out: the rest of the buffer, then what _read will
\* read.
Unread(i) == i.buf \o SubSeq(i.contents, i.pos + 1, Len(i.contents))

AtEnd(i) == i.pos = Len(i.contents)

\* The streams after _read has read up to n characters, which are in buf.
AFile_Read(i, n) ==
    {[i EXCEPT !.pos = @ + k, !.buf = SubSeq(i.contents, i.pos + 1, i.pos + k)] :
       k \in 1..Min({n, Len(i.contents) - i.pos})}

\* Fill the empty buffer: the possible results of _read, after it has returned
\* something other than an empty string.  At the end there is none.
StreamFillInputBuffer(i) ==
    IF AtEnd(i) THEN {} ELSE AFile_Read(i, InBufSize)

\* A _read that raises an exception leaves the buffer empty.
FailedRead(i) == IF ReadMayFail THEN {[i |-> [i EXCEPT !.buf = <<>>], r |-> ReadError]} ELSE {}

\* The buffer is not filled: _read raises an exception, or the thread is
\* interrupted after it, and what it has read is lost.
FailedFill(i) == FailedRead(i) \union UNION {FailedRead(j) : j \in StreamFillInputBuffer(i)}

RECURSIVE StreamReadMore(_, _, _)

\* Read n more characters than those in acc.
StreamReadMore(i, n, acc) ==
    IF i.buf # <<>>
    THEN LET m == Min({n, Len(i.buf)})
             j == [i EXCEPT !.buf = SubSeq(@, m + 1, Len(@))]
         IN  IF n <= Len(i.buf) THEN {[i |-> j, r |-> Value(acc \o SubSeq(i.buf, 1, m))]}
             ELSE StreamReadMore(j, n - m, acc \o i.buf)
    ELSE IF ~i.open THEN {[i |-> i, r |-> ReadError]}
    ELSE (IF i.buffered THEN FailedFill(i) ELSE FailedRead(i)) \union
         IF AtEnd(i) THEN {[i |-> i, r |-> Value(acc)]}
         ELSE IF i.buffered
              THEN UNION {StreamReadMore(j, n, acc) : j \in StreamFillInputBuffer(i)}
              ELSE UNION {IF Len(j.buf) = n
                          THEN {[i |-> [j EXCEPT !.buf = <<>>], r |-> Value(acc \o j.buf)]}
                          ELSE StreamReadMore([j EXCEPT !.buf = <<>>], n - Len(j.buf), acc \o j.buf) :
                            j \in AFile_Read(i, n)}

StreamRead(i, n) ==
    IF n < 0 THEN {[i |-> i, r |-> ReadError]}
    ELSE IF n = 0 THEN {[i |-> i, r |-> Value(<<>>)]}
    ELSE StreamReadMore(i, n, <<>>)

\* Closing forgets the buffer of a Stream (not that of a File).
InputClose(i) == [i EXCEPT !.open = FALSE, !.buf = IF i.class = "File" THEN @ ELSE <<>>]

\* Take everything, a block at a time, and close the stream.
StreamReadAll(i) ==
    IF i.buf = <<>> /\ ~i.open THEN {[i |-> i, r |-> ReadError]}
    ELSE UNION {FailedRead([i EXCEPT !.pos = p]) : p \in i.pos..Len(i.contents)} \union
         {[i |-> InputClose([i EXCEPT !.buf = <<>>, !.pos = Len(i.contents)]),
           r |-> Value(Unread(i))]}

\* The number of characters in front of the first line break of s.
LineLen(s) == Min({k \in 0..Len(s) : k = Len(s) \/ s[k + 1] \in {CR, LF}})


\* The line ends within the buffer.  After a CR the next character must be
\* known, for which the buffer may have to be filled again.
EndOfLine(i, line) ==
    LET k    == LineLen(i.buf)
        skip(j, n) == [i |-> [j EXCEPT !.buf = SubSeq(@, n + 1, Len(@))], r |-> Value(line)]
        lf(s) == IF Head(s) = LF THEN 1 ELSE 0
    IN  CASE i.buf[k + 1] = LF -> {skip(i, k + 1)}
          [] k + 1 < Len(i.buf) -> {skip(i, k + 1 + lf(SubSeq(i.buf, k + 2, Len(i.buf))))}
          [] AtEnd(i) -> FailedFill(i) \union {skip(i, k + 1)}
          [] OTHER -> FailedFill(i) \union
                      {skip(j, lf(j.buf)) : j \in StreamFillInputBuffer(i)}

RECURSIVE ReadLnMore(_, _)

\* The buffer is not empty; line is what was found of the line before it.
ReadLnMore(i, line) ==
    LET k   == LineLen(i.buf)
        acc == line \o SubSeq(i.buf, 1, k)
    IN  IF k < Len(i.buf) THEN EndOfLine(i, acc)
        ELSE FailedFill(i) \union
             IF AtEnd(i) THEN {[i |-> [i EXCEPT !.buf = <<>>], r |-> Value(acc)]}
             ELSE UNION {ReadLnMore(j, acc) : j \in StreamFillInputBuffer(i)}

AStreamReadLn(i) ==
    IF i.buf # <<>> THEN ReadLnMore(i, <<>>)
    ELSE IF ~i.open \/ AtEnd(i) THEN {[i |-> i, r |-> ReadError]}
    ELSE FailedFill(i) \union UNION {ReadLnMore(j, <<>>) : j \in StreamFillInputBuffer(i)}

StreamEof(i) ==
    IF i.buf # <<>> THEN {[i |-> i, r |-> Value(<<FALSE>>)]}
    ELSE IF ~i.open THEN {[i |-> i, r |-> ReadError]}
    ELSE FailedFill(i) \union
         IF AtEnd(i) THEN {[i |-> i, r |-> Value(<<TRUE>>)]}
         ELSE {[i |-> j, r |-> Value(<<FALSE>>)] : j \in StreamFillInputBuffer(i)}

RECURSIVE StreamReadLines(_, _)

\* Read lines until eof and close the stream.
StreamReadLines(i, lines) ==
    UNION {IF e.r.error THEN {e}
           ELSE IF e.r.v[1] THEN {[i |-> InputClose(e.i), r |-> Value(lines)]}
           ELSE UNION {IF l.r.error THEN {l} ELSE StreamReadLines(l.i, Append(lines, l.r.v)) :
                         l \in AStreamReadLn(e.i)} :
             e \in StreamEof(i)}

StreamPeek(i) == {[i |-> i, r |-> IF i.open THEN Value(i.buf) ELSE ReadError]}

\* The logical position: the buffer holds what _read has read too far.
AFilePos(i) == {[i |-> i, r |-> Value(<<i.pos - Len(i.buf)>>)]}

AFileSeek(i, n) == {[i |-> [i EXCEPT !.pos = n, !.buf = <<>>], r |-> Value(<<>>)]}

(***************************************************************************)
(* The program reads from a stream.                                        *)
(***************************************************************************)
NoInput == [contents |-> <<>>, pos |-> 0, buf |-> <<>>, open |-> FALSE,
            buffered |-> FALSE, class |-> "Stream"]

InInit ==
    /\ ins = NoInput
    /\ inLast = [f |-> "none", n |-> 0, unread |-> <<>>, r |-> ReadError]

OpenInput(c, buffered, class) ==
    /\ ins = NoInput
    /\ ins' = [NoInput EXCEPT !.contents = c, !.open = TRUE, !.buffered = buffered, !.class = class]
    /\ inLast' = [f |-> "open", n |-> 0, unread |-> c, r |-> Value(<<>>)]

Calls(f, n, results) ==
    \E x \in results :
        /\ ins' = x.i
        /\ inLast' = [f |-> f, n |-> n, unread |-> Unread(ins), r |-> x.r]

ReadCall == \E n \in InSizes : Calls("read", n, StreamRead(ins, n))
ReadAllCall == Calls("readAll", 0, StreamReadAll(ins))
ReadLnCall == Calls("readLn", 0, AStreamReadLn(ins))
ReadLinesCall == Calls("readLines", 0, StreamReadLines(ins, <<>>))
EofCall  == Calls("eof", 0, StreamEof(ins))
PeekCall == Calls("peek", 0, StreamPeek(ins))
PosCall  == ins.class = "File" /\ Calls("pos", 0, AFilePos(ins))
SeekCall == /\ ins.class = "File"
            /\ \E n \in InSizes \cap 0..Len(ins.contents) : Calls("seek", n, AFileSeek(ins, n))

InNext ==
    \/ \E c \in InContents, b \in BOOLEAN, class \in {"Stream", "File"} : OpenInput(c, b, class)
    \/ /\ ins.open
       /\ \/ ReadCall \/ ReadAllCall \/ ReadLnCall \/ ReadLinesCall
          \/ EofCall \/ PeekCall \/ PosCall \/ SeekCall

(***************************************************************************)
(* What a call is to return, as a function of the unread characters, and   *)
(* how many of them it takes.                                              *)
(***************************************************************************)
LineTakes(s) ==
    LET k == LineLen(s)
    IN  CASE k = Len(s) -> k
          [] k + 1 < Len(s) /\ s[k + 1] = CR /\ s[k + 2] = LF -> k + 2
          [] OTHER -> k + 1

RECURSIVE LinesOf(_)
LinesOf(s) == IF s = <<>> THEN <<>>
              ELSE <<SubSeq(s, 1, LineLen(s))>> \o LinesOf(SubSeq(s, LineTakes(s) + 1, Len(s)))

Expected(f, n, s, total) ==
    CASE f = "read"      -> [v |-> SubSeq(s, 1, Min({n, Len(s)})), takes |-> Min({n, Len(s)})]
      [] f = "readAll"   -> [v |-> s, takes |-> Len(s)]
      [] f = "readLn"    -> [v |-> SubSeq(s, 1, LineLen(s)), takes |-> LineTakes(s)]
      [] f = "readLines" -> [v |-> LinesOf(s), takes |-> Len(s)]
      [] f = "eof"       -> [v |-> <<s = <<>> >>, takes |-> 0]
      [] f = "pos"       -> [v |-> <<total - Len(s)>>, takes |-> 0]
      [] OTHER           -> [v |-> <<>>, takes |-> 0]

(***************************************************************************)
(* Properties.                                                             *)
(***************************************************************************)
\* However _read cuts the contents (also between a CR and its LF, and at the
\* end of a buffer) and however read, readLn, eof, peek, pos and the others are
\* mixed, every call returns what the unread characters say and takes exactly
\* those, so that no character is lost, repeated or given to two calls.
ReadsAreExact ==
    LET e == Expected(inLast.f, inLast.n, inLast.unread, Len(ins.contents))
    IN  ~inLast.r.error /\ inLast.f \notin {"none", "seek", "peek"}
          => /\ inLast.r.v = e.v
             /\ Unread(ins) = SubSeq(inLast.unread, e.takes + 1, Len(inLast.unread))

\* A call that raises an exception in the middle (a read error, an interrupt)
\* may lose characters, but it leaves the stream at some place of the contents
\* from which reading goes on; a seek goes to the place that it names, whatever
\* was in the buffer.
PlaceIsKept ==
    /\ inLast.r.error => IsSuffix(Unread(ins), inLast.unread)
    /\ inLast.f = "seek"
         => Unread(ins) = SubSeq(ins.contents, inLast.n + 1, Len(ins.contents))

\* readAll and readLines close a stream of which they have returned the rest.
\* After a read error it is still open: of readLines the manual says that "The
\* stream will be closed even if there is an IO error" (io_stream.html), but
\* StreamReadLines returns the error before it gets to close.
ClosesWhenRead ==
    inLast.f \in {"readAll", "readLines"} => ins.open = inLast.r.error

=============================================================================
