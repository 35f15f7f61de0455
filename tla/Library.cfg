SPECIFICATION LibrarySpec
CONSTANTS
    Parts = {"map", "out", "in", "list", "dec", "arith", "re", "str", "arr", "heap", "expr", "call", "cls", "mod", "tb", "hash"}
    MapKeys = {"a", "b", "c"}
    MapVals <- MapValues
    MapHash <- MapHashes
    MaxMapSize = 8
    MaxChanges = 2
    WriteArgs <- WriteCalls
    WideChars = {"W", "X"}
    OutBufSize = 4
    OutLineSize = 2
    FailWritten = {0}
    InContents <- FileContents
    InBufSize = 3
    InSizes = {0, 1, 2, 3}
    ReadMayFail = TRUE
    OutFiles = {out, raw, f1, f2}
    StdOut = out
    RawStdOut = raw
    NoFile = none
    CloseAgain = FALSE
    EncBytes <- EncodedBytes
    EncChunks <- PieceSizes
    EncTables <- CodeTables
    HalfSize = 4
    ReverseSize = 8
    DigitBits = 4
    ArithInts <- IntOperands
    ArithOthers <- OtherOperands
    MaxPower = 7
    ArithDeviations = FALSE
    RePatterns <- RegExps
    ReBadPatterns <- NoRegExps
    ReTexts <- RegExpTexts
    ReChars <- ReCharacters
    ReWordChars = {"a", "b", "A"}
    ReLower <- ReLowerCase
    ReStackSize = 3
    ReMaxDepth = 6
    ReInfinite = 6
    ReTextMoves = FALSE
    StrStarts <- FirstStrings
    StrArgs <- ArgumentStrings
    StrSequences <- JoinedStrings
    StrIndices <- SliceIndices
    StrUpper <- UpperCase
    StrLower <- LowerCase
    MinSubStrLen = 3
    StrHashSize = 65536
    RadixInts <- SmallInts
    MaxStrSteps = 1
    StrDeviations = FALSE
    ArrVals = {1, 2}
    ArrOthers <- OtherArrays
    ArrIndices <- ArrayIndices
    ArrNested <- NestedArrays
    ArrOrders <- Comparisons
    MaxArrLen = 6
    MaxArrSteps = 3
    MaxCompareDepth = 3
    ArrHashSize = 65536
    HpMinBlock = 2
    HpNode = 4
    HpNonUniform = 5
    HpLists = 8
    HpCurLimit = 6
    HpPage = 16
    HpBitRatio = 8
    HpMaxSize = 32
    HpRequests <- BlocksAskedFor
    HpCounts = {2}
    MaxHpAllocs = 3
    HpDeviations = FALSE
    ExSlots <- StmtSlots
    ExExposed = {"e"}
    ExLocals <- StmtLocals
    ExGlobals <- StmtGlobals
    ExConsts <- StmtConsts
    ExArity <- StmtArity
    ExMembers <- StmtMembers
    ExHeap <- StmtHeap
    ExStatements <- StatementsToRun
    MaxQuickArgs = 2
    MaxMultiAssign = 3
    NoRetVal = 100
    VarArgFlag = 16
    ClArities <- Arities
    ClMaxArgs = 3
    ClMaxItems = 3
    ClLocals = 1
    ClRoutes = {"op", "opm", "operator", "value", "member", "indirect", "indirectm"}
    ClDeviations = FALSE
    ClsPrograms <- Hierarchies
    MemberKey <- MemberKeys
    ClsDeviations = FALSE
    MdPaths <- ModulePaths
    MdMains <- MainPaths
    MdStd <- PathStd
    MdWorlds <- ModuleSources
    MdNames <- ModuleNames
    MdRefs <- NameRefs
    MdBucket = 4
    MdMaxDepth = 4
    MdDeviations = FALSE
    TbMaxCode = 2
    TbMaxLine = 1
    TbDistances = {0, 2}
    TbSizes = {1, 3}
    MaxTbStatements = 3
    TbEntries = 4
    TbStacks <- FrameStacks
    TbDeviations = FALSE
    HvThreads = {t1, t2}
    HvObjects = {o1, o2}
    HvNursery = {1}
    HvOld = {2, 3}
    HvNowhere = 0
    HvTableSize = 1
    MaxHashValue = 3
    HvDeviations = FALSE
INVARIANTS
    MapIsExact
    OutputIsExact
    
    OpenFilesAreFlushed
    DecodingIsExact
    OperatorsAreExact
    RegExpIsExact
    StringsAreExact
    ArraysAreExact
    HeapIsSound
    ExpressionsAreExact
    CallsAreExact
    ClassesAreExact
    ModulesAreExact
    TracebacksAreExact
    IdentityHashIsKept
CHECK_DEADLOCK FALSE
