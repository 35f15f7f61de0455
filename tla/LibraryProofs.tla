---------------------------- MODULE LibraryProofs ----------------------------
(***************************************************************************)
(* Proofs about two parts of the library: the table of hash values         *)
(* (IdHash), for any threads, objects and addresses, where no new object   *)
(* gets an address that a thread waits with, and the list of output        *)
(* streams (StreamList), for any files.                                    *)
(***************************************************************************)
EXTENDS StreamList, IdHash, TLAPS

(***************************************************************************)
(* The list of output streams.                                             *)
(***************************************************************************)
\* A walk that starts in a set and cannot leave it meets members of it only.
LEMMA WalkStaysInside ==
    ASSUME NEW S \in SUBSET OutFiles, NEW h \in S \union {NoFile},
           \A g \in S : listNext[g] \in S \union {NoFile}
    PROVE  ListFrom(h) \subseteq S
  BY DEF ListFrom

\* A walk from no file meets none.
LEMMA NoWalk == ListFrom(NoFile) = {}
  <1>1. {} \in SUBSET OutFiles /\ NoFile \in {} \union {NoFile}
    OBVIOUS
  <1> QED
    BY <1>1, WalkStaysInside

\* The initial state satisfies the invariant: StdOut and RawStdOut are open.
LEMMA ListInitInv == ListInit => ListInv
  <1> SUFFICES ASSUME ListInit PROVE ListInv
    OBVIOUS
  <1>1. ListTypeOK
    BY FilesOK DEF ListInit, ListTypeOK
  <1>2. LinksAreSound
    BY FilesOK DEF ListInit, LinksAreSound, OpenFiles
  <1>3. OpenFiles \subseteq Listed
    BY FilesOK DEF ListInit, OpenFiles, Listed, ListFrom
  <1>4. ExitFlushesAll
    BY DEF ListInit, ExitFlushesAll
  <1> QED
    BY <1>1, <1>2, <1>3, <1>4 DEF ListInv

\* A walk from a file goes on from the next one.
LEMMA WalkGoesOn ==
    ASSUME NEW d \in OutFiles, NEW f \in ListFrom(d), f # d
    PROVE  f \in ListFrom(listNext[d])
  <1> SUFFICES ASSUME NEW S \in SUBSET OutFiles, listNext[d] \in S \union {NoFile},
                      \A g \in S : listNext[g] \in S \union {NoFile}
               PROVE  f \in S
    BY DEF ListFrom
  <1>1. /\ S \union {d} \in SUBSET OutFiles
        /\ d \in S \union {d}
        /\ \A g \in S \union {d} : listNext[g] \in (S \union {d}) \union {NoFile}
    OBVIOUS
  <1>2. ListFrom(d) \subseteq S \union {d}
    BY <1>1, WalkStaysInside
  <1> QED
    BY <1>2

\* The files of the list are the open ones.
LEMMA ListedAreOpen == ListInv => Listed = OpenFiles
  <1> SUFFICES ASSUME ListInv PROVE Listed \subseteq OpenFiles
    BY DEF ListInv
  <1>1. /\ OpenFiles \in SUBSET OutFiles
        /\ listHead \in OpenFiles \union {NoFile}
        /\ \A g \in OpenFiles : listNext[g] \in OpenFiles \union {NoFile}
    BY DEF ListInv, LinksAreSound, OpenFiles
  <1> QED
    BY <1>1, WalkStaysInside DEF Listed

\* Every open file but RawStdOut is in front of StdOut.
LEMMA StdOutIsLast ==
    ASSUME ListInv
    PROVE  OpenFiles \ {StdOut, RawStdOut} \subseteq Before(StdOut)
  <1> USE FilesOK
  <1> DEFINE A == {g \in OpenFiles : StdOut \in ListFrom(g)}
  <1>1. /\ Listed = OpenFiles /\ StdOut \in OpenFiles /\ OpenFiles \subseteq OutFiles
        /\ listNext[StdOut] \in {RawStdOut, NoFile} /\ listNext[RawStdOut] = NoFile
        /\ \A g \in OpenFiles : listNext[g] \in OpenFiles \union {NoFile}
    BY ListedAreOpen, Zenon DEF ListInv, LinksAreSound, OpenFiles
  <1>2. listHead \in A
    <2>1. StdOut \in ListFrom(listHead)
      BY <1>1 DEF Listed
    <2>2. listHead # NoFile
      BY <2>1, NoWalk
    <2> QED
      BY <2>1, <2>2 DEF ListInv, LinksAreSound
  <1>3. ASSUME NEW g \in A, g # StdOut PROVE StdOut \in ListFrom(listNext[g]) /\ listNext[g] \in A
    <2>1. StdOut \in ListFrom(listNext[g])
      BY <1>1, <1>3, WalkGoesOn
    <2>2. listNext[g] # NoFile
      BY <2>1, NoWalk
    <2> QED
      BY <1>1, <2>1, <2>2
  <1>4. /\ A \union {RawStdOut} \in SUBSET OutFiles
        /\ listHead \in (A \union {RawStdOut}) \union {NoFile}
        /\ \A g \in A \union {RawStdOut} : listNext[g] \in (A \union {RawStdOut}) \union {NoFile}
    <2> HIDE DEF A
    <2>1. A \subseteq OutFiles
      BY <1>1 DEF A
    <2> QED
      BY <1>1, <1>2, <1>3, <2>1
  <1>5. OpenFiles \subseteq A \union {RawStdOut}
    <2> HIDE DEF A
    <2> QED
      BY <1>1, <1>4, WalkStaysInside, Zenon DEF Listed
  <1> SUFFICES ASSUME NEW g \in OpenFiles, g # StdOut, g # RawStdOut
               PROVE  g \in Before(StdOut)
    OBVIOUS
  <1>6. g \in A
    BY <1>5
  <1> QED
    BY <1>1, <1>3, <1>6 DEF Before

\* Opening a file keeps the invariant: what a walk met it still meets, one
\* file later.
LEMMA CreateKeepsListInv ==
    ASSUME ListInv, NEW f \in OutFiles, AFileCreate(f)
    PROVE  ListInv'
  <1> USE FilesOK
  <1>1. /\ fileState[f] = "new" /\ listPrev[f] = NoFile
        /\ f \notin OpenFiles /\ f # listHead /\ exited = "no" /\ exited' = "no"
        /\ OpenFiles' = OpenFiles \union {f}
        /\ listHead' = f
        /\ listNext' = [listNext EXCEPT ![f] = listHead]
        /\ listPrev' = [g \in OutFiles |-> IF g = listHead THEN f ELSE listPrev[g]]
        /\ dirty' = dirty
    BY DEF ListInv, ListTypeOK, LinksAreSound, AFileCreate, AddOutputStreamList, OpenFiles
  <1>2. ListTypeOK'
    BY <1>1 DEF ListInv, ListTypeOK, AFileCreate
  <1>3. LinksAreSound'
    <2>1. \A g \in OutFiles : fileState'[g] = "new" => listPrev'[g] = NoFile
      BY <1>1 DEF ListInv, ListTypeOK, LinksAreSound, AFileCreate, OpenFiles
    <2>2. listHead' \in OpenFiles' \union {NoFile}
      BY <1>1, Zenon
    <2>3. ASSUME NEW g \in OpenFiles'
          PROVE  /\ listNext'[g] \in OpenFiles' \union {NoFile}
                 /\ listPrev'[g] \in OpenFiles' \union {NoFile}
                 /\ listPrev'[g] = NoFile <=> g = listHead'
                 /\ listNext'[g] # NoFile => listPrev'[listNext'[g]] = g
                 /\ listPrev'[g] # NoFile => listNext'[listPrev'[g]] = g
      <3>1. CASE g = f
        BY <1>1, <3>1 DEF ListInv, ListTypeOK, LinksAreSound, OpenFiles
      <3>2. CASE g # f
        BY <1>1, <3>2 DEF ListInv, ListTypeOK, LinksAreSound, OpenFiles
      <3> QED
        BY <3>1, <3>2
    <2>4. /\ StdOut \in OpenFiles'
          /\ listNext'[StdOut] \in {RawStdOut, NoFile} /\ listNext'[RawStdOut] = NoFile
          /\ fileState'[RawStdOut] # "new"
          /\ fileState'[RawStdOut] = "open" => listPrev'[RawStdOut] = StdOut
      <3>1. f # StdOut /\ f # RawStdOut
        BY <1>1 DEF ListInv, LinksAreSound, OpenFiles
      <3>2. fileState' = [fileState EXCEPT ![f] = "open"]
        BY DEF AFileCreate
      <3>3. fileState[RawStdOut] = "open" => listHead # RawStdOut
        BY DEF ListInv, LinksAreSound, OpenFiles
      <3>4. listHead \in OpenFiles \union {NoFile}
        BY DEF ListInv, LinksAreSound
      <3> QED
        BY <1>1, <3>1, <3>2, <3>3, <3>4 DEF ListInv, ListTypeOK, LinksAreSound, OpenFiles
    <2> QED
      BY <2>1, <2>2, <2>3, <2>4, Zenon DEF LinksAreSound
  <1>4. OpenFiles' \subseteq Listed'
    <2> SUFFICES ASSUME NEW g \in OpenFiles', NEW S \in SUBSET OutFiles,
                        listHead' \in S \union {NoFile},
                        \A d \in S : listNext'[d] \in S \union {NoFile}
                 PROVE  g \in S
      BY DEF Listed, ListFrom, OpenFiles
    <2>1. f \in S
      BY <1>1
    <2> DEFINE T == S \ {f}
    <2>2. /\ T \in SUBSET OutFiles
          /\ listHead \in T \union {NoFile}
      BY <1>1, <2>1 DEF ListInv, ListTypeOK
    <2>3. CASE g # f
      <3>1. \A d \in T \cap OpenFiles : listNext[d] \in (T \cap OpenFiles) \union {NoFile}
        BY <1>1 DEF ListInv, ListTypeOK, LinksAreSound, OpenFiles
      <3>2. Listed \subseteq T \cap OpenFiles
        <4>1. listHead \in (T \cap OpenFiles) \union {NoFile}
          BY <2>2, Zenon DEF ListInv, LinksAreSound
        <4> HIDE DEF T
        <4> QED
          BY <2>2, <3>1, <4>1, WalkStaysInside, Zenon DEF Listed
      <3> QED
        BY <1>1, <2>3, <3>2 DEF ListInv
    <2> QED
      BY <2>1, <2>3
  <1>5. ExitFlushesAll'
    BY <1>1 DEF ExitFlushesAll
  <1> QED
    BY <1>2, <1>3, <1>4, <1>5 DEF ListInv

\* Closing a file keeps the invariant: a walk that met the file goes on from
\* the one before it to the one after it.
LEMMA CloseKeepsListInv ==
    ASSUME ListInv, ~CloseAgain, NEW f \in OutFiles \ {StdOut}, NEW ok \in BOOLEAN,
           NEW left \in SUBSET OutFiles, CloseFile(f, ok, left), exited = "no", exited' = "no"
    PROVE  ListInv'
  <1> USE FilesOK
  <1>1. /\ f \in OpenFiles /\ exited = "no" /\ exited' = "no"
        /\ OpenFiles' = OpenFiles \ {f}
        /\ listHead' = IF listPrev[f] = NoFile THEN listNext[f] ELSE listHead
        /\ listPrev' = [g \in OutFiles |-> IF g = listNext[f] THEN listPrev[f] ELSE listPrev[g]]
        /\ listNext' = [g \in OutFiles |-> IF g = listPrev[f] THEN listNext[f] ELSE listNext[g]]
        /\ dirty' \subseteq OutFiles
    BY DEF ListInv, ListTypeOK, CloseFile, RemoveOutputStreamList, OpenFiles
  <1>2. ListTypeOK'
    BY <1>1 DEF ListInv, ListTypeOK, CloseFile
  <1>3. listNext[f] # f /\ listPrev[f] # f
    <2>1. listNext[f] = f <=> listPrev[f] = f
      <3>1. \A g \in OpenFiles : /\ listNext[g] # NoFile => listPrev[listNext[g]] = g
                                 /\ listPrev[g] # NoFile => listNext[listPrev[g]] = g
        BY DEF ListInv, LinksAreSound
      <3>2. f # NoFile /\ f \in OpenFiles
        BY <1>1
      <3> QED
        BY ONLY <3>1, <3>2, Zenon
    <2>2. ASSUME listNext[f] = f, listPrev[f] = f PROVE FALSE
      <3>1. /\ OpenFiles \ {f} \in SUBSET OutFiles
            /\ listHead \in (OpenFiles \ {f}) \union {NoFile}
            /\ \A g \in OpenFiles \ {f} : listNext[g] \in (OpenFiles \ {f}) \union {NoFile}
        BY <1>1, <2>2, Zenon DEF ListInv, LinksAreSound, OpenFiles
      <3> QED
        BY <1>1, <3>1, WalkStaysInside, Zenon DEF Listed, ListInv
    <2> QED
      BY <2>1, <2>2
  <1>4. LinksAreSound'
    <2>1. \A g \in OutFiles : fileState'[g] = "new" => listPrev'[g] = NoFile
      BY <1>1 DEF ListInv, ListTypeOK, LinksAreSound, CloseFile, OpenFiles
    <2>2. listHead' \in OpenFiles' \union {NoFile}
      BY <1>1, <1>3 DEF ListInv, LinksAreSound
    <2>3. ASSUME NEW g \in OpenFiles'
          PROVE  /\ listNext'[g] \in OpenFiles' \union {NoFile}
                 /\ listPrev'[g] \in OpenFiles' \union {NoFile}
                 /\ listPrev'[g] = NoFile <=> g = listHead'
                 /\ listNext'[g] # NoFile => listPrev'[listNext'[g]] = g
                 /\ listPrev'[g] # NoFile => listNext'[listPrev'[g]] = g
      BY <1>1, <1>3 DEF ListInv, ListTypeOK, LinksAreSound, OpenFiles
    <2>4. /\ StdOut \in OpenFiles'
          /\ listNext'[StdOut] \in {RawStdOut, NoFile} /\ listNext'[RawStdOut] = NoFile
          /\ fileState'[RawStdOut] # "new"
          /\ fileState'[RawStdOut] = "open" => listPrev'[RawStdOut] = StdOut
      <3>1. /\ StdOut \in OpenFiles
            /\ listNext[StdOut] \in {RawStdOut, NoFile} /\ listNext[RawStdOut] = NoFile
            /\ fileState[RawStdOut] # "new"
            /\ fileState[RawStdOut] = "open" => listPrev[RawStdOut] = StdOut
        BY DEF ListInv, LinksAreSound
      <3>2. fileState' = [fileState EXCEPT ![f] = IF ok THEN "closed" ELSE "failed"]
        BY DEF CloseFile
      <3>3. listPrev[f] = RawStdOut => listNext[f] = NoFile
        BY <1>1, <3>1 DEF ListInv, LinksAreSound, OpenFiles
      <3>4. listPrev[f] = StdOut => listNext[f] = NoFile
        BY <1>1, <3>1 DEF ListInv, LinksAreSound, OpenFiles
      <3>5. listNext[f] = RawStdOut /\ fileState[RawStdOut] = "open" => f = StdOut
        BY <1>1, <3>1 DEF ListInv, LinksAreSound, OpenFiles
      <3> QED
        BY <1>1, <3>1, <3>2, <3>3, <3>4, <3>5 DEF ListInv, ListTypeOK, OpenFiles
    <2> QED
      BY <2>1, <2>2, <2>3, <2>4 DEF LinksAreSound
  <1>5. OpenFiles' \subseteq Listed'
    <2> SUFFICES ASSUME NEW g \in OpenFiles', NEW S \in SUBSET OutFiles,
                        listHead' \in S \union {NoFile},
                        \A d \in S : listNext'[d] \in S \union {NoFile}
                 PROVE  g \in S
      BY DEF Listed, ListFrom, OpenFiles
    <2>1. PICK T \in SUBSET OutFiles : /\ T \subseteq S \union {f}
                                       /\ listHead \in T \union {NoFile}
                                       /\ \A d \in T : listNext[d] \in T \union {NoFile}
      <3>1. CASE listPrev[f] \in S \union {NoFile}
        <4>1. listHead \in S \union {f, NoFile}
          BY <1>1, <3>1, Zenon DEF ListInv, LinksAreSound
        <4>2. listNext[f] \in S \union {NoFile}
          BY <1>1, <1>3, <3>1 DEF ListInv, ListTypeOK
        <4>3. \A d \in S : listNext[d] \in S \union {f, NoFile}
          BY <1>1, <3>1 DEF ListInv, LinksAreSound
        <4> WITNESS S \union {f} \in SUBSET OutFiles
        <4> QED
          BY <4>1, <4>2, <4>3
      <3>2. CASE listPrev[f] \notin S \union {NoFile}
        <4>1. listHead \in S \union {NoFile}
          BY <1>1, <3>2
        <4>2. \A d \in S : listNext[d] \in S \union {NoFile}
          BY <1>1, <3>2
        <4> QED
          BY <4>1, <4>2
      <3> QED
        BY <3>1, <3>2
    <2>2. Listed \subseteq T
      BY <2>1, WalkStaysInside DEF Listed
    <2> QED
      BY <1>1, <2>1, <2>2 DEF ListInv
  <1>6. ExitFlushesAll'
    BY <1>1 DEF ExitFlushesAll
  <1> QED
    BY <1>2, <1>4, <1>5, <1>6 DEF ListInv

\* The invariant is inductive when a file whose close failed is not closed again.
LEMMA ListNextInv == ListInv /\ ~CloseAgain /\ [ListNext]_listVars => ListInv'
  <1> SUFFICES ASSUME ListInv, ~CloseAgain, [ListNext]_listVars PROVE ListInv'
    OBVIOUS
  <1>1. ASSUME NEW f \in OutFiles, AFileCreate(f) PROVE ListInv'
    BY <1>1, CreateKeepsListInv
  <1>2. ASSUME NEW f \in OutFiles, WriteFile(f) PROVE ListInv'
    BY <1>2 DEF ListInv, ListTypeOK, LinksAreSound, OpenFiles, Listed, ListFrom, ExitFlushesAll, WriteFile
  <1>3. ASSUME NEW f \in OutFiles, NEW ok \in BOOLEAN, AFileClose(f, ok) PROVE ListInv'
    <2>1. /\ f \in OutFiles \ {StdOut} /\ CloseFile(f, ok, dirty) /\ exited = "no" /\ exited' = "no"
          /\ dirty \in SUBSET OutFiles
      BY <1>3 DEF AFileClose, ListInv, ListTypeOK
    <2> QED
      BY <2>1, CloseKeepsListInv
  <1>4. ASSUME NEW flushed \in BOOLEAN, NEW ok \in BOOLEAN, ATextStreamClose(flushed, ok) PROVE ListInv'
    <2> DEFINE d == IF flushed THEN IntoRawStdOut(dirty) ELSE dirty
    <2>1. d \in SUBSET OutFiles
      BY FilesOK DEF IntoRawStdOut, ListInv, ListTypeOK
    <2>2. exited = "no" /\ exited' = "no"
      BY <1>4 DEF ATextStreamClose
    <2>3. \/ CloseFile(RawStdOut, ok, d)
          \/ dirty' = d /\ UNCHANGED <<listHead, listNext, listPrev, fileState>>
      BY <1>4 DEF ATextStreamClose
    <2> HIDE DEF d
    <2>4. CASE CloseFile(RawStdOut, ok, d)
      BY <2>1, <2>2, <2>4, CloseKeepsListInv, FilesOK
    <2>5. CASE dirty' = d /\ UNCHANGED <<listHead, listNext, listPrev, fileState>>
      <3>1. ExitFlushesAll'
        BY <2>2 DEF ExitFlushesAll
      <3>2. ListTypeOK' /\ LinksAreSound' /\ (OpenFiles \subseteq Listed)'
        BY <2>1, <2>2, <2>5 DEF ListInv, ListTypeOK, LinksAreSound, OpenFiles, Listed, ListFrom
      <3> QED
        BY <3>1, <3>2 DEF ListInv
    <2> QED
      BY <2>3, <2>4, <2>5
  <1>5. CASE AExecuteExitHandlers \/ FlushBeforeRead
    <2>1. PICK r \in {"clean", "failed", "stopped"} : AFlushOutputBuffers(r) /\ exited' \in {"no", r}
      BY <1>5 DEF AExecuteExitHandlers, FlushBeforeRead
    <2>2. UNCHANGED <<listHead, listNext, listPrev, fileState>>
      BY <1>5 DEF AExecuteExitHandlers, FlushBeforeRead
    <2>3. dirty' \in SUBSET OutFiles
      BY <2>1, FilesOK DEF AFlushOutputBuffers, LeftBefore, IntoRawStdOut, ListInv, ListTypeOK
    <2>4. ExitFlushesAll'
      <3>1. CASE r = "clean"
        <4>1. dirty' \cap Listed = {}
          BY <2>1, <3>1 DEF AFlushOutputBuffers
        <4> QED
          BY <2>2, <2>3, <4>1 DEF ExitFlushesAll, ListInv, OpenFiles
      <3>2. CASE r = "failed"
        BY <2>1, <3>2 DEF ExitFlushesAll
      <3>3. CASE r = "stopped"
        <4>1. /\ fileState[RawStdOut] = "closed"
              /\ dirty' = IntoRawStdOut(LeftBefore(StdOut))
          BY <2>1, <3>3 DEF AFlushOutputBuffers
        <4>2. dirty' \cap (OpenFiles \ {RawStdOut}) = {}
          BY <4>1, StdOutIsLast DEF IntoRawStdOut, LeftBefore
        <4> QED
          BY <2>2, <2>3, <4>1, <4>2 DEF ExitFlushesAll, OpenFiles
      <3> QED
        BY <3>1, <3>2, <3>3
    <2>5. exited' \in {"no", "clean", "failed", "stopped"}
      BY <2>1
    <2>6. ListTypeOK' /\ LinksAreSound' /\ (OpenFiles \subseteq Listed)'
      BY <2>2, <2>3, <2>5 DEF ListInv, ListTypeOK, LinksAreSound, OpenFiles, Listed, ListFrom
    <2> QED
      BY <2>4, <2>6 DEF ListInv
  <1>6. CASE UNCHANGED listVars
    BY <1>6 DEF listVars, ListInv, ListTypeOK, LinksAreSound, OpenFiles, Listed, ListFrom, ExitFlushesAll
  <1> QED
    BY <1>1, <1>2, <1>3, <1>4, <1>5, <1>6 DEF ListNext

(***************************************************************************)
(* However many files are opened, written and closed, and in whatever      *)
(* order, the list of io_posix.c has exactly the open streams, linked both *)
(* ways, and a program that ends without a failed write leaves nothing in  *)
(* the buffer of an open stream (AddOutputStreamList,                      *)
(* RemoveOutputStreamList, AFlushOutputBuffers), even if the walk stops at *)
(* StdOut because RawStdOut was closed.  A file whose close has failed     *)
(* must not be closed again: the second removal would use links that are   *)
(* out of date.                                                            *)
(***************************************************************************)
THEOREM FilesFlushed == ~CloseAgain /\ ListSpec => []OpenFilesAreFlushed
  <1> SUFFICES ASSUME ~CloseAgain PROVE ListSpec => []OpenFilesAreFlushed
    OBVIOUS
  <1>1. ListInit => ListInv
    BY ListInitInv
  <1>2. ListInv /\ [ListNext]_listVars => ListInv'
    BY ListNextInv
  <1>3. ListInv => OpenFilesAreFlushed
    <2> SUFFICES ASSUME ListInv PROVE OpenFilesAreFlushed
      OBVIOUS
    <2>1. Listed = OpenFiles
      BY ListedAreOpen
    <2> QED
      BY <2>1, Zenon DEF ListInv, LinksAreSound, OpenFiles, OpenFilesAreFlushed, ListHoldsOpenFiles
  <1> QED
    BY <1>1, <1>2, <1>3, PTL DEF ListSpec

(***************************************************************************)
(* The hash values of objects.                                             *)
(***************************************************************************)
USE HvAssumption

-----------------------------------------------------------------------------
(* A call that has begun has all the fields of one. *)
LEMMA CallFields ==
    ASSUME HvTypeOK, NEW t \in HvThreads
    PROVE  /\ hvCall[t].pc # "idle" <=> hvCall[t] # HvIdle
           /\ hvCall[t] # HvIdle => hvCall[t] \in HvCalls
           /\ hvCall[t] \in HvCalls => hvCall[t].pc \in {"lock", "alloc", "grow", "insert"}
BY DEF HvTypeOK, HvCalls, HvIdle

(* The table that an address belongs to. *)
LEMMA TableType ==
    ASSUME NEW p
    PROVE  /\ TableOf(p) \in Generations
           /\ p \in HvOld => TableOf(p) = "old"
           /\ p \in HvNursery => TableOf(p) = "new"
BY DEF TableOf, Generations

(* What AGetIdHashValue chooses when it begins, or begins again. *)
LEMMA ChooseIsSound ==
    ASSUME HvTypeOK, ObjectsAreApart, NEW o \in hvHeld, NEW again \in {0, 1},
           again = 1 => hvAddr[o] \in HvOld
    PROVE  /\ HvChoose(o, again) \in HvCalls
           /\ HvChoose(o, again) # HvIdle
           /\ HvChoose(o, again).pc = "lock"
           /\ CallIsSound(HvChoose(o, again))
<1>1. hvAddr[o] \in HvAddresses /\ o \in HvObjects
  BY DEF HvTypeOK, ObjectsAreApart
<1>2. HvChoose(o, again) \in HvCalls /\ HvChoose(o, again).pc = "lock"
  BY <1>1, TableType DEF HvChoose, HvCalls
<1>3. HvChoose(o, again) # HvIdle
  BY <1>2 DEF HvIdle
<1>4. CallIsSound(HvChoose(o, again))
  BY <1>1 DEF HvChoose, CallIsSound, IsMoved
<1> QED BY <1>2, <1>3, <1>4

-----------------------------------------------------------------------------
(* The initial states. *)
LEMMA HvInitIInv == HvInit => HvIInv
<1> SUFFICES ASSUME HvInit PROVE HvIInv
  OBVIOUS
<1> USE DEF HvInit, InitializeTable
<1>1. HvTypeOK
  BY DEF HvTypeOK, Generations
<1>2. ObjectsAreApart /\ NodesHaveObjects /\ NodesAreApart /\ GivenHasNode /\ CallsAreSound
  BY DEF ObjectsAreApart, NodesHaveObjects, NodesAreApart, GivenHasNode, CallsAreSound, Generations
<1>3. OneHasMutex
  BY DEF OneHasMutex, HvIdle
<1> QED BY <1>1, <1>2, <1>3 DEF HvIInv

(* A step that changes only the call of one thread, and what is given for its
   object to what the tables hold, keeps the invariant if the new call is
   sound and the thread does not take a mutex that another has. *)
LEMMA CallStep ==
    ASSUME HvIInv, NEW t \in HvThreads, NEW c \in HvCalls \union {HvIdle},
           hvCall' = [hvCall EXCEPT ![t] = c],
           UNCHANGED <<hvAddr, hvHeld, hvNodes>>, hvCounter' \in Nat,
           c # HvIdle => CallIsSound(c),
           c.pc \in {"idle", "lock"} \/ hvCall[t].pc \notin {"idle", "lock"} \/ ~HvLocked,
           hvGiven' \in [HvObjects -> Nat], GivenHasNode'
    PROVE  HvIInv'
<1>1. HvTypeOK'
  BY DEF HvIInv, HvTypeOK
<1>2. ObjectsAreApart' /\ NodesHaveObjects' /\ NodesAreApart'
  BY DEF HvIInv, ObjectsAreApart, NodesHaveObjects, NodesAreApart
<1>3. CallsAreSound'
  BY DEF HvIInv, HvTypeOK, CallsAreSound, CallIsSound, IsMoved
<1>4. OneHasMutex'
  BY CallFields DEF HvIInv, HvTypeOK, OneHasMutex, HvLocked, HvCalls
<1> QED BY <1>1, <1>2, <1>3, <1>4 DEF HvIInv
-----------------------------------------------------------------------------
(* The steps of AGetIdHashValue. *)
LEMMA BeginKeeps ==
    ASSUME HvIInv, NEW t \in HvThreads, NEW o \in HvObjects, AGetIdHashValue(t, o)
    PROVE  HvIInv'
<1>1. /\ HvChoose(o, 0) \in HvCalls /\ HvChoose(o, 0).pc = "lock"
      /\ CallIsSound(HvChoose(o, 0))
  BY ChooseIsSound DEF HvIInv, AGetIdHashValue
<1>2. hvGiven' \in [HvObjects -> Nat] /\ GivenHasNode'
  BY DEF HvIInv, HvTypeOK, GivenHasNode, AGetIdHashValue, HvUntouched, hvTables
<1> QED BY <1>1, <1>2, CallStep, Zenon DEF HvIInv, HvTypeOK, AGetIdHashValue, HvUntouched, hvTables

(* A thread with the mutex that gives up, for lack of memory. *)
LEMMA GiveUpKeeps ==
    ASSUME HvIInv, NEW t \in HvThreads, hvCall' = [hvCall EXCEPT ![t] = HvIdle],
           UNCHANGED <<hvAddr, hvHeld, hvNodes, hvCounter, hvGiven>>
    PROVE  HvIInv'
<1>1. hvGiven' \in [HvObjects -> Nat] /\ GivenHasNode'
  BY DEF HvIInv, HvTypeOK, GivenHasNode
<1>2. HvIdle.pc = "idle"
  BY DEF HvIdle
<1> QED BY <1>1, <1>2, CallStep, Zenon DEF HvIInv, HvTypeOK

LEMMA LookUpKeeps ==
    ASSUME HvIInv, NEW t \in HvThreads, HvLookUp(t)
    PROVE  HvIInv'
<1> DEFINE c == hvCall[t]
<1>1. c \in HvCalls /\ c # HvIdle /\ CallIsSound(c) /\ c.pc = "lock" /\ ~HvLocked
  BY CallFields DEF HvIInv, CallsAreSound, HvLookUp, HvIdle
<1>2. CASE GetHashMapping(c.table, c.p) = {}
  <2> DEFINE d == [c EXCEPT !.pc = "alloc"]
  <2>1. \A n \in hvNodes[c.table] : n.ptr # c.p
    BY <1>2 DEF GetHashMapping
  <2>2. d \in HvCalls /\ d # HvIdle
    BY <1>1 DEF HvCalls, HvIdle
  <2>3. CallIsSound(d)
    BY <1>1, <2>1 DEF CallIsSound, IsMoved, HvCalls
  <2>4. hvCall' = [hvCall EXCEPT ![t] = d]
    BY <1>2 DEF HvLookUp, HvGoto
  <2>5. hvGiven' \in [HvObjects -> Nat] /\ GivenHasNode'
    BY <1>2 DEF HvIInv, HvTypeOK, GivenHasNode, HvLookUp, HvUntouched, hvTables
  <2> QED BY <1>1, <2>2, <2>3, <2>4, <2>5, CallStep, Zenon DEF HvIInv, HvTypeOK, HvLookUp, HvUntouched, hvTables
<1>3. CASE GetHashMapping(c.table, c.p) # {}
  <2>1. PICK h \in GetHashMapping(c.table, c.p) : HvReturns(t, h)
    BY <1>3 DEF HvLookUp
  <2>2. PICK n \in hvNodes[c.table] : n.ptr = c.p /\ n.hash = h
    BY <2>1 DEF GetHashMapping
  <2>3. n = [ptr |-> c.p, hash |-> h] /\ h \in Nat
    BY <1>1, <2>2 DEF HvIInv, HvTypeOK, HvCalls
  <2>4. hvAddr[c.obj] = c.p
    BY <1>1, <2>2 DEF HvIInv, NodesHaveObjects, CallIsSound, IsMoved, HvCalls
  <2>5. hvGiven' \in [HvObjects -> Nat]
    BY <1>1, <2>1, <2>3 DEF HvIInv, HvTypeOK, HvReturns, HvCalls
  <2>6. GivenHasNode'
    BY <1>1, <2>1, <2>2, <2>3, <2>4
    DEF HvIInv, HvTypeOK, GivenHasNode, HvLookUp, HvReturns, HvUntouched, hvTables, CallIsSound, TableOf
  <2>7. HvIdle.pc = "idle"
    BY DEF HvIdle
  <2> QED BY <2>1, <2>5, <2>6, <2>7, CallStep, Zenon DEF HvIInv, HvTypeOK, HvLookUp, HvReturns, HvUntouched, hvTables
<1> QED BY <1>2, <1>3

(* A call that goes on holding the mutex, with a hash value. *)
LEMMA GoOnIsSound ==
    ASSUME HvIInv, NEW t \in HvThreads, hvCall[t].pc \in {"alloc", "grow"},
           NEW d \in HvCalls, d.pc \in {"grow", "insert"},
           d.obj = hvCall[t].obj, d.p = hvCall[t].p, d.table = hvCall[t].table, d.again = hvCall[t].again,
           hvCall' = [hvCall EXCEPT ![t] = d],
           UNCHANGED <<hvAddr, hvHeld, hvNodes, hvGiven>>, hvCounter' \in Nat
    PROVE  HvIInv'
<1>1. CallIsSound(hvCall[t])
  BY CallFields DEF HvIInv, CallsAreSound
<1>2. CallIsSound(d)
  BY <1>1 DEF CallIsSound, IsMoved
<1>3. hvGiven' \in [HvObjects -> Nat] /\ GivenHasNode'
  BY DEF HvIInv, HvTypeOK, GivenHasNode
<1> QED BY <1>2, <1>3, CallStep, Zenon

LEMMA AllocKeeps ==
    ASSUME HvIInv, NEW t \in HvThreads, AllocNode(t)
    PROVE  HvIInv'
<1> DEFINE c == hvCall[t]
<1>1. c \in HvCalls /\ c.pc = "alloc"
  BY CallFields DEF HvIInv, AllocNode, HvIdle
<1>2. CASE hvCall' = [hvCall EXCEPT ![t] = HvIdle] /\ UNCHANGED hvCounter
  BY <1>2, GiveUpKeeps, Zenon DEF AllocNode, HvUntouched, hvTables
<1> DEFINE d == [c EXCEPT !.hash = hvCounter,
                          !.pc = IF hvSize[c.table].num > hvSize[c.table].size THEN "grow" ELSE "insert"]
<1>3. CASE hvCall' = [hvCall EXCEPT ![t] = d] /\ hvCounter' = hvCounter + 1
  <2>2. /\ d \in HvCalls /\ d.pc \in {"grow", "insert"}
        /\ d.obj = c.obj /\ d.p = c.p /\ d.table = c.table /\ d.again = c.again
    BY <1>1, Zenon DEF HvIInv, HvTypeOK, HvCalls
  <2>3. UNCHANGED <<hvAddr, hvHeld, hvNodes, hvGiven>>
    BY DEF AllocNode, HvUntouched, hvTables
  <2>4. hvCounter' \in Nat
    BY <1>3 DEF HvIInv, HvTypeOK
  <2> HIDE DEF d
  <2> QED BY <1>1, <1>3, <2>2, <2>3, <2>4, GoOnIsSound, Zenon
<1> QED BY <1>2, <1>3 DEF AllocNode

LEMMA GrowKeeps ==
    ASSUME HvIInv, NEW t \in HvThreads, GrowHashTable(t)
    PROVE  HvIInv'
<1> DEFINE c == hvCall[t]
<1>1. c \in HvCalls /\ c.pc = "grow"
  BY CallFields DEF HvIInv, GrowHashTable, HvIdle
<1>2. CASE hvCall' = [hvCall EXCEPT ![t] = HvIdle]
  BY <1>2, GiveUpKeeps, Zenon DEF GrowHashTable, HvUntouched
<1>3. CASE HvGoto(t, "insert")
  <2> DEFINE d == [c EXCEPT !.pc = "insert"]
  <2>1. hvCall' = [hvCall EXCEPT ![t] = d]
    BY <1>3 DEF HvGoto
  <2>2. /\ d \in HvCalls /\ d.pc = "insert"
        /\ d.obj = c.obj /\ d.p = c.p /\ d.table = c.table /\ d.again = c.again
    BY <1>1 DEF HvCalls
  <2> QED BY <1>1, <2>1, <2>2, GoOnIsSound, Zenon DEF HvIInv, HvTypeOK, GrowHashTable, HvUntouched
<1> QED BY <1>2, <1>3 DEF GrowHashTable
(* The node is linked where there was none, or the call begins again. *)
LEMMA InsertKeeps ==
    ASSUME HvIInv, NEW t \in HvThreads, InsertNode(t)
    PROVE  HvIInv'
<1> DEFINE c == hvCall[t]
           n == [ptr |-> c.p, hash |-> c.hash]
<1>1. c \in HvCalls /\ c # HvIdle /\ c.pc = "insert" /\ CallIsSound(c)
  BY CallFields DEF HvIInv, InsertNode, HvIdle, CallsAreSound
<1>2. CASE IsMoved(c)
  <2> DEFINE d == HvChoose(c.obj, c.again + 1)
  <2>1. c.again = 0 /\ c.obj \in hvHeld /\ hvAddr[c.obj] \in HvOld
    BY <1>1, <1>2 DEF CallIsSound, HvCalls
  <2>2. /\ hvCall' = [hvCall EXCEPT ![t] = d]
        /\ UNCHANGED <<hvAddr, hvHeld, hvNodes, hvCounter, hvGiven>>
    BY <1>2 DEF InsertNode, HvUntouched, hvTables
  <2>3. d \in HvCalls /\ d.pc = "lock" /\ CallIsSound(d)
    BY <2>1, ChooseIsSound DEF HvIInv
  <2>4. hvGiven' \in [HvObjects -> Nat] /\ GivenHasNode' /\ hvCounter' \in Nat
    BY <2>2 DEF HvIInv, HvTypeOK, GivenHasNode
  <2> HIDE DEF d
  <2> QED BY <2>2, <2>3, <2>4, CallStep, Zenon
<1>3. CASE ~IsMoved(c)
  <2>1. /\ hvNodes' = [hvNodes EXCEPT ![c.table] = @ \union {n}]
        /\ HvReturns(t, c.hash)
        /\ UNCHANGED <<hvAddr, hvHeld, hvCounter>>
    BY <1>3 DEF InsertNode, HvUntouched
  <2>2. hvAddr[c.obj] = c.p /\ c.table = TableOf(c.p) /\ \A m \in hvNodes[c.table] : m.ptr # c.p
    BY <1>1, <1>3 DEF IsMoved, CallIsSound
  <2>3. /\ n \in [ptr : HvAddresses, hash : Nat] /\ n.ptr = c.p /\ n.hash = c.hash
        /\ c.table \in Generations /\ c.obj \in HvObjects /\ c.hash \in Nat
    BY <1>1 DEF HvCalls
  <2>4. \A g \in Generations : hvNodes'[g] = IF g = c.table THEN hvNodes[g] \union {n} ELSE hvNodes[g]
    BY <2>1, <2>3 DEF HvIInv, HvTypeOK
  <2> HIDE DEF n
  <2>5. HvTypeOK'
    BY <2>1, <2>3 DEF HvIInv, HvTypeOK, HvReturns
  <2>6. ObjectsAreApart'
    BY <2>1 DEF HvIInv, ObjectsAreApart
  <2>7. NodesHaveObjects'
    <3>1. TableOf(n.ptr) = c.table /\ \E o \in HvObjects : hvAddr[o] = n.ptr
      BY <2>2, <2>3
    <3>2. \A g \in Generations : \A m \in hvNodes'[g] : m \in hvNodes[g] \/ (m = n /\ g = c.table)
      BY <2>4
    <3> QED BY <2>1, <3>1, <3>2, Zenon DEF HvIInv, NodesHaveObjects, TableOf
  <2>8. NodesAreApart'
    <3> SUFFICES ASSUME NEW g \in Generations, NEW x \in hvNodes'[g], NEW y \in hvNodes'[g], x.ptr = y.ptr
                 PROVE  x = y
      BY DEF NodesAreApart
    <3>1. CASE x \in hvNodes[g] /\ y \in hvNodes[g]
      BY <3>1 DEF HvIInv, NodesAreApart
    <3>2. CASE g = c.table /\ (x = n \/ y = n)
      <4>1. hvNodes'[g] = hvNodes[g] \union {n}
        BY <2>4, <3>2, Zenon
      <4>2. \A m \in hvNodes[g] : m.ptr # n.ptr
        BY <2>2, <2>3, <3>2
      <4> QED BY <3>2, <4>1, <4>2
    <3> QED BY <2>4, <3>1, <3>2, Zenon
  <2>9. GivenHasNode'
    <3> SUFFICES ASSUME NEW o \in hvHeld, hvGiven'[o] # 0
                 PROVE  [ptr |-> hvAddr[o], hash |-> hvGiven'[o]] \in hvNodes'[TableOf(hvAddr[o])]
      BY <2>1 DEF GivenHasNode, TableOf
    <3>1. CASE o = c.obj
      <4>1. hvGiven'[o] = c.hash
        BY <2>1, <2>3, <3>1 DEF HvIInv, HvTypeOK, HvReturns
      <4> QED BY <2>2, <2>3, <2>4, <3>1, <4>1, Zenon DEF n
    <3>2. CASE o # c.obj
      <4>1. hvGiven'[o] = hvGiven[o]
        BY <2>1, <3>2 DEF HvIInv, HvTypeOK, HvReturns
      <4> QED BY <2>4, <4>1, TableType, Zenon DEF HvIInv, GivenHasNode
    <3> QED BY <3>1, <3>2
  <2>10. CallsAreSound'
    <3> SUFFICES ASSUME NEW u \in HvThreads, hvCall'[u] # HvIdle
                 PROVE  CallIsSound(hvCall[u])'
      BY DEF CallsAreSound
    <3>1. u # t /\ hvCall'[u] = hvCall[u]
      BY <2>1 DEF HvIInv, HvTypeOK, HvReturns
    <3>2. hvCall[u].pc = "lock" /\ CallIsSound(hvCall[u])
      BY <1>1, <3>1, CallFields DEF HvIInv, OneHasMutex, CallsAreSound
    <3> QED BY <2>1, <3>1, <3>2 DEF CallIsSound, IsMoved
  <2>11. OneHasMutex'
    BY <2>1 DEF HvIInv, HvTypeOK, OneHasMutex, HvReturns, HvIdle
  <2> QED BY <2>5, <2>6, <2>7, <2>8, <2>9, <2>10, <2>11 DEF HvIInv
<1> QED BY <1>2, <1>3
-----------------------------------------------------------------------------
(* The program and the collector. *)
LEMMA CreateKeeps ==
    ASSUME HvIInv, ~HvDeviations, NEW o \in HvObjects, HvCreate(o)
    PROVE  HvIInv'
<1>1. PICK p \in FreeOf(HvNursery) : ~IsStaleAt(p) /\ hvAddr' = [hvAddr EXCEPT ![o] = p]
  BY Zenon DEF HvCreate
<1>2. /\ p \in HvNursery /\ \A u \in HvObjects : hvAddr[u] # p
      /\ o \notin hvHeld /\ hvAddr[o] = HvNowhere
  BY DEF HvIInv, HvTypeOK, FreeOf, HvCreate, ObjectsAreApart
<1>3. \A u \in HvObjects : hvAddr'[u] = IF u = o THEN p ELSE hvAddr[u]
  BY <1>1 DEF HvIInv, HvTypeOK
<1>4. HvTypeOK'
  BY <1>1, <1>2 DEF HvIInv, HvTypeOK, HvCreate, HvAddresses, hvTables
<1>5. ObjectsAreApart'
  BY <1>2, <1>3 DEF HvIInv, HvTypeOK, ObjectsAreApart, HvCreate
<1>6. NodesHaveObjects' /\ NodesAreApart'
  BY <1>2, <1>3 DEF HvIInv, HvTypeOK, NodesHaveObjects, NodesAreApart, HvCreate, hvTables, HvAddresses, TableOf
<1>7. GivenHasNode'
  BY <1>2, <1>3 DEF HvIInv, HvTypeOK, GivenHasNode, HvCreate, hvTables, TableOf
<1>8. CallsAreSound'
  <2> SUFFICES ASSUME NEW t \in HvThreads, hvCall[t] # HvIdle
               PROVE  CallIsSound(hvCall[t])'
    BY DEF CallsAreSound, HvCreate
  <2>1. CallIsSound(hvCall[t]) /\ hvCall[t] \in HvCalls
    BY CallFields DEF HvIInv, CallsAreSound
  <2>2. hvCall[t].obj \in hvHeld' /\ hvAddr'[hvCall[t].obj] = hvAddr[hvCall[t].obj]
    BY <1>2, <1>3, <2>1 DEF CallIsSound, HvCreate, HvCalls
  <2>3. hvCall[t].pc = "lock" /\ IsMoved(hvCall[t]) => hvCall[t].p # p
    BY <1>1 DEF IsStaleAt
  <2> QED BY <1>3, <2>1, <2>2, <2>3 DEF CallIsSound, IsMoved, HvCreate, hvTables, TableOf
<1>9. OneHasMutex'
  BY DEF HvIInv, OneHasMutex, HvCreate
<1> QED BY <1>4, <1>5, <1>6, <1>7, <1>8, <1>9 DEF HvIInv

LEMMA ForgetKeeps ==
    ASSUME HvIInv, NEW o \in HvObjects, HvForget(o)
    PROVE  HvIInv'
<1> USE DEF HvForget, hvTables
<1>1. HvTypeOK' /\ ObjectsAreApart' /\ NodesHaveObjects' /\ NodesAreApart' /\ GivenHasNode'
  BY DEF HvIInv, HvTypeOK, ObjectsAreApart, NodesHaveObjects, NodesAreApart, GivenHasNode, TableOf
<1>2. CallsAreSound'
  BY DEF HvIInv, CallsAreSound, CallIsSound, IsMoved, TableOf
<1>3. OneHasMutex'
  BY DEF HvIInv, OneHasMutex
<1> QED BY <1>1, <1>2, <1>3 DEF HvIInv
(* Every live object of the nursery takes its node with it; the node of a dead
   one is forgotten with the object. *)
LEMMA CollectKeeps ==
    ASSUME HvIInv, CollectNursery
    PROVE  HvIInv'
<1> DEFINE young == {o \in HvObjects : hvAddr[o] \in HvNursery}
           live  == young \cap hvHeld
<1>1. PICK to \in [live -> FreeOf(HvOld)] :
         /\ \A o, u \in live : to[o] = to[u] => o = u
         /\ hvAddr' = [o \in HvObjects |-> IF o \in live THEN to[o]
                                           ELSE IF o \in young THEN HvNowhere ELSE hvAddr[o]]
         /\ AMoveNewGenHashMappingsToOldGen(to)
  BY DEF CollectNursery
<1>2. /\ UNCHANGED <<hvHeld, hvCounter, hvCall, hvGiven>>
      /\ \A t \in HvThreads : hvCall[t].pc \in {"idle", "lock", "alloc", "grow"}
  BY DEF CollectNursery, HvCollects
<1>3. \A o \in live : to[o] \in HvOld /\ \A u \in HvObjects : hvAddr[u] # to[o]
  BY <1>1 DEF FreeOf
<1>4. /\ \A o \in live : hvAddr'[o] = to[o]
      /\ \A o \in HvObjects : o \notin young => hvAddr'[o] = hvAddr[o]
      /\ \A o \in young : o \notin live => hvAddr'[o] = HvNowhere
      /\ \A o \in HvObjects : hvAddr'[o] \notin HvNursery
  BY <1>1, <1>3
<1>5. hvNodes'["new"] = {} /\ hvNodes'["old"] = hvNodes["old"] \union MovedNodes(to)
  BY <1>1 DEF AMoveNewGenHashMappingsToOldGen, Generations
<1>6. \A n \in MovedNodes(to) : \E o \in live :
         /\ n.ptr = to[o] /\ n.hash \in Nat
         /\ [ptr |-> hvAddr[o], hash |-> n.hash] \in hvNodes["new"]
  BY <1>1 DEF MovedNodes, HvIInv, HvTypeOK, Generations
<1>7. \A n \in MovedNodes(to) : n \in [ptr : HvAddresses, hash : Nat]
  BY DEF MovedNodes, HvIInv, HvTypeOK, Generations, HvAddresses
<1>8. \A n \in hvNodes["old"] : n.ptr \notin HvNursery /\ \E o \in HvObjects : hvAddr[o] = n.ptr
  BY DEF HvIInv, NodesHaveObjects, Generations, TableOf
<1> HIDE DEF young, live
<1>9. HvTypeOK'
  BY <1>1, <1>2, <1>3, <1>5, <1>7 DEF HvIInv, HvTypeOK, Generations, AMoveNewGenHashMappingsToOldGen, HvAddresses
<1>10. ObjectsAreApart'
  BY <1>1, <1>2, <1>3, <1>4 DEF HvIInv, ObjectsAreApart, HvTypeOK, live, young
<1>11. NodesHaveObjects'
  <2> SUFFICES ASSUME NEW n \in hvNodes'["old"]
               PROVE  n.ptr \notin HvNursery /\ \E o \in HvObjects : hvAddr'[o] = n.ptr
    BY <1>5 DEF NodesHaveObjects, Generations, TableOf
  <2>1. CASE n \in hvNodes["old"]
    BY <1>4, <1>8, <2>1 DEF young
  <2>2. CASE n \in MovedNodes(to)
    <3>1. PICK o \in live : n.ptr = to[o]
      BY <1>6, <2>2, Zenon
    <3> QED BY <1>3, <1>4, <3>1 DEF live, young
  <2> QED BY <1>5, <2>1, <2>2
<1>12. NodesAreApart'
  <2> SUFFICES ASSUME NEW x \in hvNodes'["old"], NEW y \in hvNodes'["old"], x.ptr = y.ptr
               PROVE  x = y
    BY <1>5 DEF NodesAreApart, Generations
  <2>1. CASE x \in hvNodes["old"] /\ y \in hvNodes["old"]
    BY <2>1 DEF HvIInv, NodesAreApart, Generations
  <2>2. CASE x \in MovedNodes(to) /\ y \in MovedNodes(to)
    <3>1. PICK o \in live : x.ptr = to[o] /\ [ptr |-> hvAddr[o], hash |-> x.hash] \in hvNodes["new"]
      BY <1>6, <2>2
    <3>2. PICK u \in live : y.ptr = to[u] /\ [ptr |-> hvAddr[u], hash |-> y.hash] \in hvNodes["new"]
      BY <1>6, <2>2
    <3>3. o = u
      BY <1>1, <3>1, <3>2, Zenon
    <3>4. x.hash = y.hash
      BY <3>1, <3>2, <3>3 DEF HvIInv, NodesAreApart, Generations
    <3> QED BY <1>7, <2>2, <3>4
  <2>3. ASSUME NEW a \in hvNodes["old"], NEW b \in MovedNodes(to) PROVE a.ptr # b.ptr
    <3>1. PICK o \in live : b.ptr = to[o]
      BY <1>6, Zenon
    <3> QED BY <1>3, <1>8, <3>1
  <2> QED BY <1>5, <2>1, <2>2, <2>3
<1>13. GivenHasNode'
  <2> SUFFICES ASSUME NEW o \in hvHeld, hvGiven[o] # 0
               PROVE  [ptr |-> hvAddr'[o], hash |-> hvGiven[o]] \in hvNodes'[TableOf(hvAddr'[o])]
    BY <1>2 DEF GivenHasNode, TableOf
  <2>1. o \in HvObjects /\ [ptr |-> hvAddr[o], hash |-> hvGiven[o]] \in hvNodes[TableOf(hvAddr[o])]
    BY DEF HvIInv, HvTypeOK, GivenHasNode
  <2>2. TableOf(hvAddr'[o]) = "old"
    BY <1>4, <2>1 DEF TableOf
  <2>3. CASE o \in live
    <3> DEFINE n == [ptr |-> to[o], hash |-> hvGiven[o]]
    <3>1. hvAddr'[o] = to[o] /\ to[o] \in HvOld /\ hvAddr[o] \in HvNursery
      BY <1>3, <1>4, <2>3 DEF live, young
    <3>2. [ptr |-> hvAddr[o], hash |-> hvGiven[o]] \in hvNodes["new"]
      BY <2>1, <3>1, TableType
    <3>3. hvGiven[o] \in {m.hash : m \in hvNodes["new"]}
      BY <3>2
    <3>4. n \in MovedNodes(to)
      BY <1>1, <2>3, <3>1, <3>2, <3>3 DEF MovedNodes
    <3> QED BY <1>5, <2>2, <3>1, <3>4
  <2>4. CASE o \notin live
    <3>1. hvAddr'[o] = hvAddr[o] /\ TableOf(hvAddr[o]) = "old"
      BY <1>4, <2>1, <2>2, <2>4 DEF live, young
    <3> QED BY <1>5, <2>1, <2>2, <3>1
  <2> QED BY <2>3, <2>4
<1>14. CallsAreSound'
  <2> SUFFICES ASSUME NEW t \in HvThreads, hvCall[t] # HvIdle
               PROVE  CallIsSound(hvCall[t])'
    BY <1>2 DEF CallsAreSound
  <2> DEFINE c == hvCall[t]
  <2>1. CallIsSound(c) /\ c \in HvCalls /\ c.pc # "insert"
    BY <1>2, CallFields DEF HvIInv, CallsAreSound
  <2>2. c.obj \in HvObjects /\ c.obj \in hvHeld /\ c.p \in HvAddresses
    BY <2>1 DEF CallIsSound, HvCalls
  <2>3. CASE c.p \in HvNursery
    <3>1. hvAddr'[c.obj] \in HvOld
      <4>1. CASE IsMoved(c)
        <5>1. hvAddr[c.obj] \in HvOld
          BY <2>1, <4>1 DEF CallIsSound
        <5> QED BY <1>4, <2>2, <5>1 DEF young
      <4>2. CASE ~IsMoved(c)
        <5>1. c.obj \in live
          BY <2>2, <2>3, <4>2 DEF IsMoved, live, young
        <5> QED BY <1>3, <1>4, <5>1
      <4> QED BY <4>1, <4>2
    <3> QED BY <1>2, <1>4, <2>1, <2>3, <3>1 DEF CallIsSound, IsMoved, TableOf
  <2>4. CASE c.p \in HvOld
    <3>1. hvAddr[c.obj] = c.p /\ hvAddr'[c.obj] = c.p /\ c.table = "old"
      BY <1>4, <2>1, <2>2, <2>4, TableType, Zenon DEF CallIsSound, IsMoved, live, young
    <3>2. \A n \in MovedNodes(to) : n.ptr # c.p
      BY <1>3, <1>6, <2>2, <3>1, Zenon
    <3> QED BY <1>2, <1>5, <2>1, <2>4, <3>1, <3>2, Zenon DEF CallIsSound, IsMoved, TableOf
  <2> QED BY <2>2, <2>3, <2>4 DEF HvAddresses
<1>15. OneHasMutex'
  BY <1>2 DEF HvIInv, OneHasMutex
<1> QED BY <1>9, <1>10, <1>11, <1>12, <1>13, <1>14, <1>15 DEF HvIInv

(* Nodes go with the objects that the sweep frees, which no call is about. *)
LEMMA SweepKeeps ==
    ASSUME HvIInv, ASweepOldGenHashMappings
    PROVE  HvIInv'
<1>1. PICK dead \in SUBSET {o \in HvObjects : hvAddr[o] # HvNowhere /\ o \notin hvHeld} :
         /\ hvNodes' = [hvNodes EXCEPT !["old"] = {n \in @ : \A o \in dead : n.ptr # hvAddr[o]}]
         /\ hvAddr' = [o \in HvObjects |-> IF o \in dead THEN HvNowhere ELSE hvAddr[o]]
  BY Zenon DEF ASweepOldGenHashMappings
<1>2. UNCHANGED <<hvHeld, hvCounter, hvCall, hvGiven>> /\ \A o \in HvObjects : hvAddr[o] \notin HvNursery
  BY DEF ASweepOldGenHashMappings
<1>3. /\ hvNodes'["new"] = hvNodes["new"]
      /\ hvNodes'["old"] = {n \in hvNodes["old"] : \A o \in dead : n.ptr # hvAddr[o]}
  BY <1>1 DEF HvIInv, HvTypeOK, Generations
<1>4. /\ \A o \in HvObjects : o \notin dead => hvAddr'[o] = hvAddr[o]
      /\ \A o \in dead : hvAddr'[o] = HvNowhere /\ hvAddr[o] # HvNowhere /\ o \in HvObjects
      /\ \A o \in hvHeld : o \in HvObjects /\ o \notin dead
  BY <1>1 DEF HvIInv, HvTypeOK
<1>5. HvTypeOK'
  BY <1>1, <1>2 DEF HvIInv, HvTypeOK, Generations
<1>6. ObjectsAreApart'
  BY <1>2, <1>4 DEF HvIInv, ObjectsAreApart
<1>7. NodesHaveObjects'
  BY <1>2, <1>3, <1>4 DEF HvIInv, NodesHaveObjects, Generations, TableOf
<1>8. NodesAreApart'
  BY <1>3 DEF HvIInv, NodesAreApart, Generations
<1>9. GivenHasNode'
  <2> SUFFICES ASSUME NEW o \in hvHeld, hvGiven[o] # 0
               PROVE  [ptr |-> hvAddr'[o], hash |-> hvGiven[o]] \in hvNodes'[TableOf(hvAddr'[o])]
    BY <1>2 DEF GivenHasNode, TableOf
  <2>1. hvAddr'[o] = hvAddr[o] /\ TableOf(hvAddr[o]) = "old" /\ hvAddr[o] # HvNowhere /\ o \in HvObjects
    BY <1>2, <1>4 DEF TableOf, HvIInv, ObjectsAreApart
  <2>2. \A u \in dead : hvAddr[o] # hvAddr[u]
    BY <1>4, <2>1 DEF HvIInv, ObjectsAreApart
  <2>3. [ptr |-> hvAddr[o], hash |-> hvGiven[o]] \in hvNodes["old"]
    BY <2>1 DEF HvIInv, GivenHasNode
  <2> QED BY <1>3, <2>1, <2>2, <2>3
<1>10. CallsAreSound'
  <2> SUFFICES ASSUME NEW t \in HvThreads, hvCall[t] # HvIdle
               PROVE  CallIsSound(hvCall[t])'
    BY <1>2 DEF CallsAreSound
  <2>1. CallIsSound(hvCall[t]) /\ hvCall[t] \in HvCalls
    BY CallFields DEF HvIInv, CallsAreSound
  <2>2. hvCall[t].obj \in hvHeld /\ hvAddr'[hvCall[t].obj] = hvAddr[hvCall[t].obj]
    BY <1>4, <2>1 DEF CallIsSound
  <2>3. hvCall[t].p # HvNowhere /\ hvCall[t].table \in Generations
    BY <2>1 DEF HvCalls, HvAddresses
  <2> QED BY <1>2, <1>3, <1>4, <2>1, <2>2, <2>3, Zenon DEF CallIsSound, IsMoved, TableOf, Generations
<1>11. OneHasMutex'
  BY <1>2 DEF HvIInv, OneHasMutex
<1> QED BY <1>5, <1>6, <1>7, <1>8, <1>9, <1>10, <1>11 DEF HvIInv

-----------------------------------------------------------------------------
(* The invariant is inductive: AGetIdHashValue's second look at the address,
   and its holding of the mutex from the lookup to the insertion, are enough
   whatever the collector does while it waits. *)
THEOREM HvStepKeepsIInv ==
    ASSUME ~HvDeviations
    PROVE  HvIInv /\ [HvNext]_hvVars => HvIInv'
<1> SUFFICES ASSUME HvIInv, [HvNext]_hvVars PROVE HvIInv'
  OBVIOUS
<1>1. CASE HvNext
  BY <1>1, BeginKeeps, LookUpKeeps, AllocKeeps, GrowKeeps, InsertKeeps, CreateKeeps, ForgetKeeps,
     CollectKeeps, SweepKeeps DEF HvNext
<1>2. CASE UNCHANGED hvVars
  <2> USE <1>2 DEF hvVars
  <2>1. HvTypeOK' /\ ObjectsAreApart' /\ NodesHaveObjects' /\ NodesAreApart' /\ GivenHasNode'
    BY DEF HvIInv, HvTypeOK, ObjectsAreApart, NodesHaveObjects, NodesAreApart, GivenHasNode, TableOf
  <2>2. CallsAreSound' /\ OneHasMutex'
    BY DEF HvIInv, CallsAreSound, CallIsSound, IsMoved, TableOf, OneHasMutex
  <2> QED BY <2>1, <2>2 DEF HvIInv
<1> QED BY <1>1, <1>2

(* What is claimed follows from the invariant. *)
LEMMA HvIInvImplies == HvIInv => IdentityHashIsKept
<1> SUFFICES ASSUME HvIInv PROVE IdentityHashIsKept
  OBVIOUS
<1>1. ValuesAreKept
  <2> SUFFICES ASSUME NEW o \in hvHeld, hvGiven[o] # 0
               PROVE  GetHashMapping(TableOf(hvAddr[o]), hvAddr[o]) = {hvGiven[o]}
    BY DEF ValuesAreKept
  <2> DEFINE n == [ptr |-> hvAddr[o], hash |-> hvGiven[o]]
  <2>1. n \in hvNodes[TableOf(hvAddr[o])] /\ TableOf(hvAddr[o]) \in Generations
    BY TableType DEF HvIInv, GivenHasNode
  <2>2. \A m \in hvNodes[TableOf(hvAddr[o])] : m.ptr = n.ptr => m = n
    BY <2>1 DEF HvIInv, NodesAreApart
  <2> QED BY <2>1, <2>2 DEF GetHashMapping
<1>2. NodesHaveObjects
  BY DEF HvIInv
<1>3. BeginsAgainOnce
  BY CallFields DEF HvIInv, BeginsAgainOnce, HvCalls
<1> QED BY <1>1, <1>2, <1>3 DEF IdentityHashIsKept

(* The hash value of an object without a _hash method does not change while
   the program refers to it, whatever threads ask for it and however often the
   collector moves it, provided that no new object gets the address that a
   thread waiting in ALockHashMappings has read. *)
THEOREM HashIsKept ==
    ASSUME ~HvDeviations
    PROVE  HvSpec => []IdentityHashIsKept
<1>1. HvIInv /\ [HvNext]_hvVars => HvIInv'
  BY HvStepKeepsIInv
<1> QED BY <1>1, HvInitIInv, HvIInvImplies, PTL DEF HvSpec

=============================================================================
