----------------------------- MODULE StreamList -----------------------------
(***************************************************************************)
(* The list of output streams (io_posix.c): every buffered output File is  *)
(* in a doubly linked list while it is open, so that its buffer is flushed *)
(* at program exit and before a File is read.  StdOut, a text stream, has  *)
(* a buffer of its own in front of that of RawStdOut, the File it writes   *)
(* to; closing it closes RawStdOut, but StdOut stays in the list.  The     *)
(* links of a stream that has left the list keep their values.             *)
(***************************************************************************)
EXTENDS Integers

CONSTANTS
    OutFiles,    \* the streams: StdOut and File objects
    StdOut,      \* the text stream
    RawStdOut,   \* the File it wraps
    NoFile,      \* AZero
    CloseAgain   \* whether the program closes a file again whose close failed

ASSUME FilesOK ==
    /\ {StdOut, RawStdOut} \subseteq OutFiles /\ StdOut # RawStdOut
    /\ NoFile \notin OutFiles
    /\ CloseAgain \in BOOLEAN

VARIABLES
    listHead,    \* GL_OUTPUT_STREAMS
    listNext,    \* A_STREAM_LIST_NEXT
    listPrev,    \* A_STREAM_LIST_PREV
    fileState,   \* "new", "open", "failed" (close could not flush the buffer) or "closed"
    dirty,       \* the streams that have something in their buffer
    exited       \* "no", or how the flush at exit ended: "clean", "failed" (a
                 \* write failed) or "stopped" (RawStdOut had been closed)

listVars == <<listHead, listNext, listPrev, fileState, dirty, exited>>

\* RawStdOut is added to the list first, then StdOut.
ListInit ==
    /\ listHead = StdOut
    /\ listNext = [f \in OutFiles |-> IF f = StdOut THEN RawStdOut ELSE NoFile]
    /\ listPrev = [f \in OutFiles |-> IF f = RawStdOut THEN StdOut ELSE NoFile]
    /\ fileState = [f \in OutFiles |-> IF f \in {StdOut, RawStdOut} THEN "open" ELSE "new"]
    /\ dirty = {}
    /\ exited = "no"

AddOutputStreamList(f) ==
    /\ listNext' = [listNext EXCEPT ![f] = listHead]
    /\ listPrev' = [g \in OutFiles |-> IF g = listHead THEN f ELSE listPrev[g]]
    /\ listHead' = f

(* Faulty variant: the previous stream is not linked to the next one. *)
RemoveOutputStreamListHead(f) ==
    /\ listPrev' = [g \in OutFiles |-> IF g = listNext[f] THEN listPrev[f] ELSE listPrev[g]]
    /\ listHead' = IF listPrev[f] = NoFile THEN listNext[f] ELSE listHead
    /\ UNCHANGED listNext

RemoveOutputStreamList(f) ==
    /\ listPrev' = [g \in OutFiles |-> IF g = listNext[f] THEN listPrev[f] ELSE listPrev[g]]
    /\ listNext' = [g \in OutFiles |-> IF g = listPrev[f] THEN listNext[f] ELSE listNext[g]]
    /\ listHead' = IF listPrev[f] = NoFile THEN listNext[f] ELSE listHead

AFileCreate(f) ==
    /\ exited = "no" /\ fileState[f] = "new"
    /\ fileState' = [fileState EXCEPT ![f] = "open"]
    /\ AddOutputStreamList(f)
    /\ UNCHANGED <<dirty, exited>>

\* Data that fits in the buffer; the mode of a buffered stream is not tested.
WriteFile(f) ==
    /\ exited = "no" /\ fileState[f] # "new" /\ f \notin dirty
    /\ dirty' = dirty \union {f}
    /\ UNCHANGED <<listHead, listNext, listPrev, fileState, exited>>

\* The close of a file that is not closed, when the streams of d have something
\* in their buffer.  It leaves the list whether or not its flush succeeds.
CloseFile(f, ok, d) ==
    /\ fileState[f] \in {"open"} \union (IF CloseAgain THEN {"failed"} ELSE {})
    /\ ok \/ f \in d
    /\ fileState' = [fileState EXCEPT ![f] = IF ok THEN "closed" ELSE "failed"]
    /\ dirty' = IF ok THEN d \ {f} ELSE d
    /\ RemoveOutputStreamList(f)

AFileClose(f, ok) ==
    /\ exited = "no" /\ f # StdOut
    /\ CloseFile(f, ok, dirty)
    /\ UNCHANGED exited

\* The buffer of StdOut goes to that of RawStdOut, open or not (AStreamFlush).
IntoRawStdOut(d) == IF StdOut \in d THEN (d \ {StdOut}) \union {RawStdOut} ELSE d

\* StdOut.close(): RawStdOut is closed even if the flush of StdOut fails.
ATextStreamClose(flushed, ok) ==
    /\ exited = "no"
    /\ flushed \/ StdOut \in dirty
    /\ LET d == IF flushed THEN IntoRawStdOut(dirty) ELSE dirty
       IN  \/ CloseFile(RawStdOut, ok, d)
           \/ /\ ok /\ fileState[RawStdOut] = "closed"
              /\ dirty' = d
              /\ UNCHANGED <<listHead, listNext, listPrev, fileState>>
    /\ UNCHANGED exited

\* The streams that a walk along A_STREAM_LIST_NEXT from h on meets: those that
\* are in every set that has h and, with a stream, the next one.
ListFrom(h) ==
    {f \in OutFiles :
       \A S \in SUBSET OutFiles :
          (h \in S \union {NoFile} /\ \A g \in S : listNext[g] \in S \union {NoFile}) => f \in S}

Listed == ListFrom(listHead)

\* The streams in front of f.
Before(f) == {g \in Listed : f \in ListFrom(listNext[g])}

\* What is left in the buffers when the walk gets to f.
LeftBefore(f) == (dirty \ Before(f)) \ (IF StdOut \in Before(f) THEN {RawStdOut} ELSE {})

\* The streams of the list are flushed one after the other, up to the first one
\* that fails: its write fails, or it is StdOut and RawStdOut is closed.
AFlushOutputBuffers(r) ==
    \/ /\ r = "clean" /\ ~(StdOut \in Listed /\ fileState[RawStdOut] = "closed")
       /\ dirty' = (dirty \ Listed) \ (IF StdOut \in Listed THEN {RawStdOut} ELSE {})
    \/ /\ r = "failed"
       /\ \E f \in Listed : f \in LeftBefore(f) /\ dirty' = LeftBefore(f)
    \/ /\ r = "failed" /\ StdOut \in Listed
       /\ LeftBefore(StdOut) \cap {StdOut, RawStdOut} # {}
       /\ dirty' = IntoRawStdOut(LeftBefore(StdOut))
    \/ /\ r = "stopped" /\ StdOut \in Listed /\ fileState[RawStdOut] = "closed"
       /\ dirty' = IntoRawStdOut(LeftBefore(StdOut))

\* AFlushOutputBuffers as the exit handler.
AExecuteExitHandlers ==
    /\ exited = "no"
    /\ \E r \in {"clean", "failed", "stopped"} : AFlushOutputBuffers(r) /\ exited' = r
    /\ UNCHANGED <<listHead, listNext, listPrev, fileState>>

\* AFile_Read flushes the streams before it reads; it fails if that does.
FlushBeforeRead ==
    /\ exited = "no"
    /\ \E r \in {"clean", "failed", "stopped"} : AFlushOutputBuffers(r)
    /\ UNCHANGED <<listHead, listNext, listPrev, fileState, exited>>

ListNext ==
    \/ \E f \in OutFiles : AFileCreate(f) \/ WriteFile(f)
    \/ \E f \in OutFiles, ok \in BOOLEAN : AFileClose(f, ok)
    \/ \E flushed, ok \in BOOLEAN : ATextStreamClose(flushed, ok)
    \/ AExecuteExitHandlers
    \/ FlushBeforeRead

ListSpec == ListInit /\ [][ListNext]_listVars

(***************************************************************************)
(* Properties.                                                             *)
(***************************************************************************)
\* The streams in the list are the open ones, StdOut among them to the end,
\* whatever was opened and closed (or failed to close) before, and the links
\* back agree with the links forward.
ListHoldsOpenFiles ==
    /\ Listed = {f \in OutFiles : fileState[f] = "open"}
    /\ \A f \in Listed : /\ listPrev[f] = NoFile <=> f = listHead
                         /\ listNext[f] # NoFile => listPrev[listNext[f]] = f

\* After the program has ended and no write has failed, nothing that was
\* written to an open stream is still in its buffer.  The end fails at StdOut
\* if RawStdOut was closed, but only after every other file has been flushed.
ExitFlushesAll == exited \in {"clean", "stopped"} => \A f \in dirty : fileState[f] # "open"

\* The list finds every open file, and the end of the program flushes them.
OpenFilesAreFlushed == ListHoldsOpenFiles /\ ExitFlushesAll

(***************************************************************************)
(* The inductive invariant: the links of the open files stay among the     *)
(* open files and mirror each other, only the first one has no previous    *)
(* file, a file that is not open yet has no links, and StdOut is open and  *)
(* last in the list but for RawStdOut.                                     *)
(***************************************************************************)
OpenFiles == {f \in OutFiles : fileState[f] = "open"}

ListTypeOK ==
    /\ listHead \in OutFiles \union {NoFile}
    /\ listNext \in [OutFiles -> OutFiles \union {NoFile}]
    /\ listPrev \in [OutFiles -> OutFiles \union {NoFile}]
    /\ fileState \in [OutFiles -> {"new", "open", "failed", "closed"}]
    /\ dirty \subseteq OutFiles
    /\ exited \in {"no", "clean", "failed", "stopped"}

LinksAreSound ==
    /\ StdOut \in OpenFiles
    /\ listNext[StdOut] \in {RawStdOut, NoFile} /\ listNext[RawStdOut] = NoFile
    /\ fileState[RawStdOut] # "new"
    /\ fileState[RawStdOut] = "open" => listPrev[RawStdOut] = StdOut
    /\ listHead \in OpenFiles \union {NoFile}
    /\ \A f \in OutFiles : fileState[f] = "new" => listPrev[f] = NoFile
    /\ \A f \in OpenFiles : /\ listNext[f] \in OpenFiles \union {NoFile}
                            /\ listPrev[f] \in OpenFiles \union {NoFile}
                            /\ listPrev[f] = NoFile <=> f = listHead
                            /\ listNext[f] # NoFile => listPrev[listNext[f]] = f
                            /\ listPrev[f] # NoFile => listNext[listPrev[f]] = f

ListInv ==
    /\ ListTypeOK
    /\ LinksAreSound
    /\ OpenFiles \subseteq Listed
    /\ ExitFlushesAll
=============================================================================
