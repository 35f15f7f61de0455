------------------------------ MODULE Modules ------------------------------
(***************************************************************************)
(* Modules (module.c, compile.c, ident.c, globals.c, dynaload.c, and the   *)
(* module part of parse.c and scan.c): how a program and the modules that  *)
(* it imports are compiled, which definition a name means in which file,   *)
(* where global values live, in which order the modules are initialised,   *)
(* and how modules compiled at run time by loader::Load are freed by the   *)
(* collector.                                                              *)
(*                                                                         *)
(* A module is named by its path, the sequence of the parts of its name.   *)
(* The main file of the i-th compilation is a module of its own: the first *)
(* is compiled when the program starts, the others by loader::Load.  The   *)
(* C recursion of the compiler through imports is md.stack.                *)
(***************************************************************************)
EXTENDS Integers, Sequences, FiniteSets, SequencesExt, FiniteSetsExt

CONSTANTS
    MdPaths,          \* the paths of all modules, the parents and the main files included
    MdMains,          \* the paths of the main files, in the order of the compilations
    MdStd,            \* the path of the module that every file imports
    MdWorlds,         \* the sources: functions of paths
    MdNames,          \* names of definitions and parts of module names
    MdRefs,           \* references, looked up in every file
    MdBucket,         \* A_GLOBAL_BUCKET_SIZE
    MdMaxDepth,       \* A_MAX_COMPILE_DEPTH
    MdDeviations      \* whether sources that the code handles wrongly are compiled

ASSUME MdBucketFits == MdBucket > 3

VARIABLE md

mdVars == <<md>>

\* The source of module p.
MdSource(c, p) == c.world[p]
MdFiles(c, p) == c.world[p].files
MdTop == Last(md.stack)

MdImports(w, p) == UNION {ToSet(w[p].files[f].imports) : f \in DOMAIN w[p].files}

RECURSIVE MdReachable(_, _)
MdReachable(w, S) ==
    LET more == S \union UNION {MdImports(w, p) : p \in S}
    IN IF more = S THEN S ELSE MdReachable(w, more)

\* The modules that p imports, directly or not.
MdNeeds(w, p) == MdReachable(w, MdImports(w, p))

(***************************************************************************)
(* Global values.  AGlobalVars is divided into buckets; the first value of *)
(* a bucket links it to the next bucket of the module or, if free, of the  *)
(* free list.                                                              *)
(***************************************************************************)
GrowGlobalVarList(g) ==
    LET blocks == {b \in 0..(2 * g.len - 1) : b % MdBucket = 0}
        new == g.len \div MdBucket
    IN [g EXCEPT !.len = 2 * @,
                 !.next = [b \in blocks |-> IF b < g.len THEN g.next[b] ELSE 0],
                 !.free = [i \in 1..new |-> g.len + (i - 1) * MdBucket]]

Grown(g) == IF g.free = <<>> THEN GrowGlobalVarList(g) ELSE g

\* The bucket that AllocGlobalBlock returns, and its effect.
NewGlobalBlock(g) == Head(Grown(g).free)
AllocGlobalBlock(g) ==
    LET h == Grown(g)
    IN [h EXCEPT !.next[Head(h.free)] = 0, !.free = Tail(h.free)]

AAllocateModuleGlobals(g) ==
    LET h == AllocGlobalBlock(g)
    IN [AllocGlobalBlock(h) EXCEPT !.var = NewGlobalBlock(g) + 1, !.const = NewGlobalBlock(h) + 3]

IsOutOfBucket(n) == n % MdBucket = 0

\* The number of the next global value of kind k, "var" or "const".
NextGlobalValue(g, k) == IF IsOutOfBucket(g[k]) THEN NewGlobalBlock(g) + 1 ELSE g[k]

AAddGlobalValue(g) ==
    IF IsOutOfBucket(g.var)
    THEN [AllocGlobalBlock(g) EXCEPT !.next[g.var - MdBucket] = NewGlobalBlock(g),
                                     !.var = NewGlobalBlock(g) + 2]
    ELSE [g EXCEPT !.var = @ + 1]

AAddConstGlobalValue(g) ==
    IF IsOutOfBucket(g.const)
    THEN [AllocGlobalBlock(g) EXCEPT !.next[g.const - MdBucket] = NewGlobalBlock(g),
                                     !.const = NewGlobalBlock(g) + 2]
    ELSE [g EXCEPT !.const = @ + 1]

RECURSIVE GlobalBuckets(_, _)
\* The buckets linked from bucket b on.
GlobalBuckets(g, b) == IF b = 0 THEN <<>> ELSE <<b>> \o GlobalBuckets(g, g.next[b])

AFreeGlobals(g, b) == [g EXCEPT !.free = Reverse(GlobalBuckets(g, b)) \o @]

(***************************************************************************)
(* Identifiers.  The meanings of a name are a list, main modules first,    *)
(* then submodules, then global definitions, the latest of a kind first.   *)
(***************************************************************************)
MdRank(id) == CASE id.t = "root" -> 2 [] id.t = "sub" -> 1 [] OTHER -> 0

AAddIdentifier(c, n, id) ==
    LET s == c.ids[n]
        i == Cardinality({k \in DOMAIN s : MdRank(s[k]) > MdRank(id)})
    IN [c EXCEPT !.ids[n] = InsertAt(s, i + 1, id)]

EmptyModule == [type |-> "empty", imported |-> FALSE, active |-> FALSE, c |-> "no"]

PartsOf(p) == {SubSeq(p, 1, k) : k \in 1..Len(p)}

\* Whether AFindModule tells its caller that module p has been compiled.
IsCompiledModule(c, p) == c.mods[p].type = "full" /\ c.mods[p].c = "no"

\* The symbols of the parts of p that do not exist are created, and that of
\* its last part stands for a compiled module from now on.
AFindModule(c, p) ==
    LET found == Cardinality({q \in PartsOf(p) : c.mods[q].type # "none"})
        Add(d, k) ==
            [AAddIdentifier(d, p[k], [t |-> IF k = 1 THEN "root" ELSE "sub", mod |-> SubSeq(p, 1, k)])
               EXCEPT !.mods[SubSeq(p, 1, k)] = EmptyModule]
    IN IF c.mods[p].type = "full" THEN c
       ELSE [FoldLeft(Add, c, [k \in 1..(Len(p) - found) |-> found + k]) EXCEPT !.mods[p].type = "full"]

AAddGlobalVariable(c, m, d) ==
    LET k == IF d.kind = "var" THEN "var" ELSE "const"
        id == [t |-> "global", mod |-> m, kind |-> d.kind, priv |-> d.priv, num |-> NextGlobalValue(c.g, k)]
    IN [AAddIdentifier(c, d.n, id)
          EXCEPT !.g = IF k = "var" THEN AAddGlobalValue(@) ELSE AAddConstGlobalValue(@)]

\* The module's identifiers are removed from all lists.
AFreeModuleIdentifiers(c, m) ==
    LET Stays(id) == id.t # "global" \/ id.mod # m
    IN [c EXCEPT !.ids = [n \in DOMAIN c.ids |-> SelectSeq(c.ids[n], Stays)],
                 !.mods[m].c = "no", !.mods[m].type = "empty"]

(***************************************************************************)
(* Modules compiled at run time.                                           *)
(***************************************************************************)
\* The module being compiled imports p: remember p if it can be freed.
AAddDynamicImportedModule(c, p) ==
    LET Is(mod) == mod.sym = p
        found == SelectSeq(c.dyn, Is)
    IN [c EXCEPT !.buf = @ \o [i \in DOMAIN found |-> found[i].num]]

AEndDynamicModuleCompilation(c, firstVar, firstConst) ==
    [c EXCEPT !.dyn = <<[num |-> firstConst, sym |-> c.cur, var |-> firstVar, imports |-> c.buf]>> \o @,
              !.compiled = <<firstConst>> \o @]

AFreeDynamicModule(c, num) ==
    LET mod == CHOOSE d \in ToSet(c.dyn) : d.num = num
        Stays(d) == d.num # num
    IN [AFreeModuleIdentifiers(c, mod.sym)
          EXCEPT !.dyn = SelectSeq(@, Stays),
                 !.g = AFreeGlobals(AFreeGlobals(@, mod.var), mod.num)]

AFreeDynamicModules(c) == FoldLeft(AFreeDynamicModule, c, c.compiled)

(***************************************************************************)
(* Scanning: the definitions of a file become identifiers.                 *)
(***************************************************************************)
\* A class or interface with supertypes: its name, and what is needed to
\* resolve the name of its supertype later.
Unresolved(m, file, d) ==
    IF d.kind = "class" THEN <<[m |-> m, super |-> d.super, modules |-> file.imports]>> ELSE <<>>

\* The Main function is always private.
ScannedDefinitions(file) ==
    [i \in DOMAIN file.defs |-> [file.defs[i] EXCEPT !.priv = @ \/ file.defs[i].n = "Main"]]

AddDefinitions(c, m, file, defs) ==
    LET Add(e, d) == [AAddGlobalVariable(e, m, d) EXCEPT !.unres = Unresolved(m, file, d) \o @]
    IN FoldLeft(Add, [c EXCEPT !.cur = m], defs)

AScan(c, m, file) ==
    AddDefinitions(c, m, file, ScannedDefinitions(file))

MdDefines(c, p, n) == \E f \in DOMAIN MdFiles(c, p) : \E i \in DOMAIN MdFiles(c, p)[f].defs : MdFiles(c, p)[f].defs[i].n = n

\* ACompileFiles up to its imports.
BeginFiles(c, m) ==
    LET g == IF c.dynamic THEN AAllocateModuleGlobals(c.g) ELSE c.g
        Scan(e, file) == AScan(e, m, file)
        scanned == FoldLeft(Scan, [c EXCEPT !.g = g], MdFiles(c, m))
        n == Len(c.stack)
    IN [scanned EXCEPT
          !.g = IF m \in ToSet(MdMains) THEN AAddConstGlobalValue(@) ELSE @,
          !.stack[n] = [@ EXCEPT !.at = "import", !.var = g.var - 1, !.const = g.const - 3]]

(***************************************************************************)
(* Importing.                                                              *)
(***************************************************************************)
CompileFrame(m, at) == [m |-> m, at |-> at, f |-> 1, i |-> 1, var |-> 0, const |-> 0]

\* The first pass over a C module and, if dynamic, its record.
RealizeFirstPass(c, m) ==
    LET g == IF c.dynamic THEN AAllocateModuleGlobals(c.g) ELSE c.g
        file == MdFiles(c, m)[1]
        scanned == AddDefinitions([c EXCEPT !.g = g, !.buf = IF c.dynamic THEN <<>> ELSE @], m, file,
                                  ScannedDefinitions(file))
        main == IF MdDefines(c, m, "Main") THEN <<<<m, 0>>>> ELSE <<>>
        first == [scanned EXCEPT !.init = @ \o main, !.mods[m].c = "active"]
    IN IF c.dynamic THEN AEndDynamicModuleCompilation(first, g.var - 1, g.const - 3) ELSE first

\* Frames above the current one compile or realize the imported module.
ARealizeModule(c, m) == [RealizeFirstPass(c, m) EXCEPT !.stack = Append(@, CompileFrame(m, "import"))]

ACompileModule(c, m) ==
    IF MdSource(c, m).k # "alore" THEN [c EXCEPT !.errors = TRUE, !.failed = TRUE]
    ELSE [c EXCEPT !.stack = Append(@, CompileFrame(m, "scan"))]

AImportModule(c, p) ==
    LET d == AFindModule(c, p)
    IN IF IsCompiledModule(c, p) THEN d
       ELSE IF d.mods[p].c = "no" THEN ACompileModule(d, p)
       ELSE IF d.mods[p].c = "c" THEN ARealizeModule(d, p)
       ELSE d

\* The number of Alore files that are being compiled.
ANumActiveFiles(c) == Cardinality({k \in DOMAIN c.stack : MdSource(c, c.stack[k].m).k = "alore"}) - 1

\* The path of the file goes to AActiveFiles, within its end or not.
EnterActiveFile(c) ==
    [c EXCEPT !.overrun = @ \/ (MdSource(c, Last(c.stack).m).k = "alore" /\ ANumActiveFiles(c) >= MdMaxDepth)]

\* CompileImportedModules takes the next import, of the next file if needed.
CompileImportedModules(before) ==
    LET c == EnterActiveFile(before)
        n == Len(c.stack)
        top == c.stack[n]
        files == MdFiles(c, top.m)
    IN IF top.f > Len(files)
       THEN [c EXCEPT !.stack[n] = [@ EXCEPT !.at = IF MdSource(c, top.m).k = "c" THEN "realized" ELSE "begin", !.f = 1]]
       ELSE IF top.i > Len(files[top.f].imports)
       THEN [c EXCEPT !.stack[n] = [@ EXCEPT !.f = @ + 1, !.i = 1]]
       ELSE AImportModule([c EXCEPT !.stack[n].i = @ + 1], files[top.f].imports[top.i])

(***************************************************************************)
(* Which modules the file being parsed sees.                               *)
(***************************************************************************)
Seen(c, p, imported, active) ==
    [c EXCEPT !.mods = [q \in DOMAIN @ |->
        [@[q] EXCEPT !.imported = IF q = p THEN imported ELSE @,
                     !.active = IF q \in PartsOf(p) THEN active ELSE @]]]

ActivateModule(c, p) == IF c.mods[p].c = "auto" THEN c ELSE Seen(c, p, TRUE, TRUE)
DeactivateModule(c, p) == Seen(c, p, FALSE, FALSE)

ActivateModules(c, modules) == FoldLeft(ActivateModule, c, modules)

\* Faulty variant: the parents of the modules stay active.
DeactivateModulesOnly(c, modules) ==
    LET Deactivate(d, p) == [d EXCEPT !.mods[p].imported = FALSE, !.mods[p].active = FALSE]
    IN FoldLeft(Deactivate, c, modules)

DeactivateModules(c, modules) == FoldLeft(DeactivateModule, c, modules)

ImportCompiledModule(c, p) ==
    LET d == AFindModule(c, p)
    IN ActivateModule(IF d.dynamic THEN AAddDynamicImportedModule(d, p) ELSE d, p)

\* The imports of a file.
ParseImports(c, imports) ==
    [FoldLeft(ImportCompiledModule, c, imports) EXCEPT !.imports = imports]

(***************************************************************************)
(* Looking names up.  The result is the module of the definition, or the   *)
(* error that is reported.                                                 *)
(***************************************************************************)
FoundAt(p) == <<"at", p>>
LookupError(e) == <<e, <<>>>>

\* A lookup: reference r for module m where modules are imported.
MdResult(m, modules, r, res, silent) == [m |-> m, modules |-> modules, r |-> r, res |-> res, silent |-> silent]

\* The definition of the current module, or the only public one in an imported
\* module; the first one if no error is to be reported.
FindGlobalVariable(c, n, isSilent) ==
    LET IsHere(id) == id.t = "global" /\ id.mod = c.cur
        IsSeen(id) == id.t = "global" /\ id.mod # c.main /\ c.mods[id.mod].imported /\ ~id.priv
        seen == SelectSeq(c.ids[n], IsSeen)
    IN CASE \E i \in DOMAIN c.ids[n] : IsHere(c.ids[n][i]) -> FoundAt(c.cur)
         [] OTHER -> IF seen = <<>> THEN LookupError("undefined")
                     ELSE IF Len(seen) > 1 /\ ~isSilent THEN LookupError("ambiguous")
                     ELSE FoundAt(seen[1].mod)

\* The first definition of n that is public in module p.
FindInModule(c, p, n) ==
    IF ~c.mods[p].imported THEN LookupError("not imported")
    ELSE IF \E i \in DOMAIN c.ids[n] : LET id == c.ids[n][i] IN id.t = "global" /\ id.mod = p /\ ~id.priv
         THEN FoundAt(p)
         ELSE LookupError("undefined")

\* r.path names a module that this file sees, by its full path or from a
\* submodule on.
AParseGlobalVariable(c, r, isSilent) ==
    LET ids == c.ids[Head(r.path)]
        starts == {i \in DOMAIN ids : ids[i].t # "global" /\ c.mods[ids[i].mod].active}
        i == Min(starts)
        ambiguous == /\ ids[i].t = "sub"
                     /\ i < Len(ids)
                     /\ ids[i + 1].t = "sub"
                     /\ c.mods[ids[i + 1].mod].active
        p == ids[i].mod \o Tail(r.path)
        inside == {q \in PartsOf(p) : Len(q) > Len(ids[i].mod)}
    IN IF r.path = <<>> THEN FindGlobalVariable(c, r.n, isSilent)
       ELSE IF starts = {} THEN FindGlobalVariable(c, Head(r.path), isSilent)
       ELSE IF ambiguous /\ ~isSilent THEN LookupError("ambiguous")
       ELSE IF \E q \in inside : q \notin MdPaths \/ ~c.mods[q].active THEN LookupError("undefined")
       ELSE FindInModule(c, p, r.n)

AParseQuotedGlobalVariable(c, r) ==
    IF \E i \in DOMAIN c.ids[r.n] : c.ids[r.n][i].t = "global" /\ c.ids[r.n][i].mod = c.cur
    THEN FoundAt(c.cur)
    ELSE LookupError("undefined")

AParseAnyGlobalVariable(c, r, isSilent) ==
    IF r.quoted THEN AParseQuotedGlobalVariable(c, r) ELSE AParseGlobalVariable(c, r, isSilent)

(***************************************************************************)
(* Supertypes are resolved when they are first needed, which may be while  *)
(* a file of another module is parsed: the modules that the file of the    *)
(* type imports are activated meanwhile.                                   *)
(***************************************************************************)
MdFixSupertype(c, u) ==
    LET old == DeactivateModules([c EXCEPT !.cur = u.m], c.imports)
        there == FoldLeft(ImportCompiledModule, old, u.modules)
        found == AParseAnyGlobalVariable(there, u.super, TRUE)
        left == DeactivateModules([there EXCEPT !.seen = @ \union {MdResult(u.m, u.modules, u.super, found, TRUE)}],
                                  u.modules)
    IN ActivateModules([left EXCEPT !.cur = c.cur], c.imports)

\* Resolve u, one of the types whose supertypes are unresolved.  Whether the
\* name means a type is left out: Classes is about types.
MdGetResolveSupertype(c, u) ==
    LET Stays(v) == v # u
    IN [MdFixSupertype(c, u) EXCEPT !.unres = SelectSeq(@, Stays)]

AFixSupertypes(c) ==
    [FoldLeft(MdFixSupertype, [c EXCEPT !.imports = <<>>], c.unres) EXCEPT !.unres = <<>>]

(***************************************************************************)
(* Parsing a file.                                                         *)
(***************************************************************************)
\* The supertypes that the file names.
SupertypesIn(file) == {d.super : d \in {e \in ToSet(file.defs) : e.kind = "class"}}

\* ParseGlobalDefinitions: every reference is looked up; those that the file
\* contains may be errors.
ParseGlobalDefinitions(c, m, file) ==
    LET Res(r) == AParseAnyGlobalVariable(c, r, FALSE)
    IN [c EXCEPT !.seen = @ \union {MdResult(m, file.imports, r, Res(r), FALSE) : r \in MdRefs},
                 !.errors = @ \/ \E r \in file.uses \union SupertypesIn(file) : Res(r)[1] # "at"]

\* The code outside definitions becomes an initialization function.
LeaveFile(c, m, f) ==
    LET d == [DeactivateModules(c, c.imports) EXCEPT !.imports = <<>>]
    IN IF MdFiles(c, m)[f].code
       THEN [d EXCEPT !.g = AAddConstGlobalValue(@), !.init = Append(@, <<m, f>>)]
       ELSE d

\* u: the types whose supertypes are resolved while the file is parsed.
AParse(c, m, f, u) ==
    LET file == MdFiles(c, m)[f]
        there == [ParseImports(c, file.imports) EXCEPT !.cur = m]
    IN IF ANumActiveFiles(c) = MdMaxDepth
       THEN [c EXCEPT !.errors = TRUE, !.failed = TRUE]
       ELSE LeaveFile(ParseGlobalDefinitions(FoldLeft(MdGetResolveSupertype, there, u), m, file), m, f)

(***************************************************************************)
(* The state before the first compilation: the C modules are known, and    *)
(* std is realized and imported by every file.                             *)
(***************************************************************************)
ACreateModule(c, p) == [AFindModule(c, p) EXCEPT !.mods[p].c = "c"]

\* std is the module that is imported automatically.
AInitializeModule(c, p) ==
    [RealizeFirstPass(Seen(AFindModule(c, p), p, TRUE, TRUE), p) EXCEPT !.mods[p].c = "auto"]

\* The first bucket is that of the built-in values.
AInitializeGlobals ==
    AAllocateModuleGlobals(AllocGlobalBlock(
        [len |-> 4 * MdBucket, next |-> [b \in {i * MdBucket : i \in 0..3} |-> 0],
         free |-> [i \in 1..4 |-> (i - 1) * MdBucket], var |-> 0, const |-> 0]))

\* Globals below this number belong to modules that are never freed.
ARecordNumMainGlobals(g) == IF g.free = <<>> THEN g.len ELSE Head(g.free)

(***************************************************************************)
(* A compilation.                                                          *)
(***************************************************************************)
\* The main file of the next compilation.
NextMain == MdMains[md.n + 1]

\* ACompileFile up to ACompileFiles.
ACompileFile ==
    /\ ~md.compiling
    /\ md.n < Len(MdMains)
    /\ MdSource(md, NextMain).k = "alore"
    /\ md' = [md EXCEPT !.compiling = TRUE, !.n = @ + 1, !.main = NextMain,
                        !.mods[NextMain] = EmptyModule,
                        !.stack = <<CompileFrame(NextMain, "scan")>>,
                        !.errors = FALSE, !.failed = FALSE, !.seen = {}, !.unres = <<>>,
                        !.init = IF md.dynamic THEN <<>> ELSE @,
                        !.compiled = <<>>, !.ran = <<>>,
                        !.had = {p \in MdPaths : md.mods[p].type = "full" /\ md.mods[p].c # "c"}]

MdAt(at) == md.compiling /\ ~md.failed /\ md.stack # <<>> /\ MdTop.at = at

ScanFiles == MdAt("scan") /\ md' = BeginFiles(md, MdTop.m)

ImportNext == MdAt("import") /\ md' = CompileImportedModules(md)

\* ABeginDynamicModuleCompilation, once all imports have been compiled.
BeginParse ==
    /\ MdAt("begin")
    /\ md' = [md EXCEPT !.stack[Len(md.stack)].at = "parse", !.buf = IF md.dynamic THEN <<>> ELSE @]

\* One file is parsed; the supertypes of one type may be needed, of its own
\* module or of one that this imports, directly or not.
ParseFile ==
    /\ MdAt("parse")
    /\ MdTop.f <= Len(MdFiles(md, MdTop.m))
    /\ \E u \in {<<>>} \union {<<v>> : v \in {w \in ToSet(md.unres) :
                                 w.m \in {MdTop.m} \union MdNeeds(md.world, MdTop.m)}} :
          LET c == AParse([md EXCEPT !.seen = {}], MdTop.m, MdTop.f, u)
          IN md' = [c EXCEPT !.stack[Len(md.stack)].f = @ + 1]

EndFiles ==
    /\ MdAt("parse")
    /\ MdTop.f > Len(MdFiles(md, MdTop.m))
    /\ LET main == IF MdDefines(md, MdTop.m, "Main") THEN <<<<MdTop.m, 0>>>> ELSE <<>>
           c == [md EXCEPT !.init = @ \o main, !.stack = Front(@), !.seen = {}]
       IN md' = IF md.dynamic THEN AEndDynamicModuleCompilation(c, MdTop.var, MdTop.const) ELSE c

\* FinishCType resolves the supertypes of the types of a C module.
RealizeSecondPass ==
    /\ MdAt("realized")
    /\ LET IsOwn(u) == u.m = MdTop.m
           c == [md EXCEPT !.cur = MdTop.m, !.stack = Front(@), !.seen = {}]
       IN md' = FoldLeft(MdGetResolveSupertype, c, SelectSeq(md.unres, IsOwn))

FreeUnlessCompiled(c) == IF c.dynamic /\ c.errors THEN AFreeDynamicModules(c) ELSE c

\* ACompileFile after ACompileFiles; md.ran: the initialization functions
\* that the compiled code calls.
FinishCompile ==
    /\ md.compiling
    /\ md.failed \/ md.stack = <<>>
    /\ LET fixed == IF md.failed THEN md ELSE AFixSupertypes([md EXCEPT !.seen = {}])
       IN md' = [FreeUnlessCompiled(fixed) EXCEPT !.compiling = FALSE, !.dynamic = TRUE, !.stack = <<>>, !.compiled = <<>>,
                          !.unres = <<>>,
                          !.numMain = IF md.dynamic THEN @ ELSE ARecordNumMainGlobals(md.g),
                          !.init = IF md.failed THEN @ ELSE <<>>,
                          !.ran = IF md.errors THEN <<>> ELSE md.init,
                          !.n = IF md.errors /\ ~md.dynamic THEN Len(MdMains) ELSE @]

(***************************************************************************)
(* The collector frees the modules that nothing refers to.                 *)
(***************************************************************************)
RECURSIVE FindUntracedModules(_, _)
\* marked: the modules found alive; what they import is alive too.
FindUntracedModules(c, marked) ==
    LET more == UNION {ToSet(d.imports) : d \in {e \in ToSet(c.dyn) : e.num \in marked}}
    IN IF more \subseteq marked THEN marked ELSE FindUntracedModules(c, marked \union more)

\* C modules are never freed; live: the modules of which a value is marked.
IsModuleAlive(c, d, live) == c.mods[d.sym].c = "active" \/ d.num \in live

SweepModules(c, live) ==
    LET alive == {d.num : d \in {e \in ToSet(c.dyn) : IsModuleAlive(c, e, live)}}
        marked == FindUntracedModules(c, alive)
        Free(e, d) == IF d.num \in marked THEN e ELSE AFreeDynamicModule(e, d.num)
    IN FoldLeft(Free, c, c.dyn)

\* Values of at most two modules are still referred to.
CollectModules ==
    /\ ~md.compiling
    /\ md.dyn # <<>>
    /\ \E live \in UNION {kSubset(k, {d.num : d \in ToSet(md.dyn)}) : k \in 0..2} :
          md' = [SweepModules(md, live) EXCEPT !.ran = <<>>, !.seen = {}]

(***************************************************************************)
(* What a program is meant to do.                                          *)
(***************************************************************************)
MdPublic(p, n) ==
    \E f \in DOMAIN MdFiles(md, p) : \E i \in DOMAIN MdFiles(md, p)[f].defs :
        MdFiles(md, p)[f].defs[i].n = n /\ ~MdFiles(md, p)[f].defs[i].priv /\ n # "Main"

\* A name means the definition of the module itself, or the only one in the
\* imported modules.
MeaningOfName(m, imported, n) ==
    LET found == {p \in imported : MdPublic(p, n)}
    IN IF MdDefines(md, m, n) THEN FoundAt(m)
       ELSE IF found = {} THEN LookupError("undefined")
       ELSE IF Cardinality(found) > 1 THEN LookupError("ambiguous")
       ELSE FoundAt(CHOOSE p \in found : TRUE)

\* A qualified name starts with the name of an imported module or of a part of
\* its path; a module that is not a submodule comes first.
MeaningOfPath(m, imported, path, n) ==
    LET visible == UNION {PartsOf(p) : p \in imported}
        named == {p \in visible : Last(p) = Head(path)}
        roots == {p \in named : Len(p) = 1}
        starts == IF roots # {} THEN roots ELSE named
        p == (CHOOSE q \in starts : TRUE) \o Tail(path)
    IN IF starts = {} THEN MeaningOfName(m, imported, Head(path))
       ELSE IF Cardinality(starts) > 1 THEN LookupError("ambiguous")
       ELSE IF p \notin visible THEN LookupError("undefined")
       ELSE IF p \notin imported THEN LookupError("not imported")
       ELSE IF MdPublic(p, n) THEN FoundAt(p) ELSE LookupError("undefined")

Meaning(m, modules, r) ==
    LET imported == ToSet(modules) \union {MdStd}
    IN IF r.quoted THEN IF MdDefines(md, m, r.n) THEN FoundAt(m) ELSE LookupError("undefined")
       ELSE IF r.path = <<>> THEN MeaningOfName(m, imported, r.n)
       ELSE MeaningOfPath(m, imported, r.path, r.n)

\* The initialization functions of module m, in their order.
InitFunctions(m) ==
    LET code(f) == MdFiles(md, m)[f].code
    IN [i \in 1..Cardinality({f \in DOMAIN MdFiles(md, m) : code(f)}) |->
          <<m, CHOOSE f \in DOMAIN MdFiles(md, m) : code(f) /\ Cardinality({h \in 1..f : code(h)}) = i>>]
       \o IF MdDefines(md, m, "Main") THEN <<<<m, 0>>>> ELSE <<>>

\* Where the name of a supertype is ambiguous, AFixSupertype takes some
\* definition; the error is reported when the file of the type is parsed.
NamesMeanTheirDefinitions ==
    \A s \in md.seen :
       LET meaning == Meaning(s.m, s.modules, s.r)
       IN IF s.silent /\ meaning = LookupError("ambiguous")
          THEN s.res[1] = "at" => MdPublic(s.res[2], s.r.n)
          ELSE s.res = meaning

\* Every module that was not there yet is initialised once, after the modules
\* that it imports unless these import it.
ModulesAreInitialised ==
    LET run == {m \in MdReachable(md.world, {md.main}) : m \notin md.had}
        Of(m) == LET IsOf(e) == e[1] = m IN SelectSeq(md.ran, IsOf)
    IN md.ran # <<>> =>
          /\ \A m \in run : Of(m) = InitFunctions(m)
          /\ \A i \in DOMAIN md.ran : md.ran[i][1] \in run
          /\ \A i, j \in DOMAIN md.ran :
                LET p == md.ran[i][1]
                    m == md.ran[j][1]
                IN p \in MdNeeds(md.world, m) /\ m \notin MdNeeds(md.world, p) => i < j

\* A global value belongs to one identifier, and neither it nor the record of
\* a module lies in a free bucket or among those of another module.
GlobalsAreApart ==
    LET IsGlobal(id) == id.t = "global"
        GlobalsOf(n) == SelectSeq(md.ids[n], IsGlobal)
        all == UNION {ToSet(GlobalsOf(n)) : n \in MdNames}
        free == ToSet(md.g.free)
        Buckets(d) == ToSet(GlobalBuckets(md.g, d.var)) \union ToSet(GlobalBuckets(md.g, d.num))
        BucketOf(n) == n - (n % MdBucket)
    IN /\ Cardinality(free) = Len(md.g.free)
       /\ \A x \in all : BucketOf(x.num) \notin free
       /\ Cardinality({x.num : x \in all}) = MapThenSumSet(LAMBDA n : Len(GlobalsOf(n)), MdNames)
       /\ \A d \in ToSet(md.dyn) :
             LET own == Buckets(d)
             IN /\ own \cap free = {}
                /\ \A b \in own : b >= md.numMain
                /\ \A e \in ToSet(md.dyn) : e # d => own \cap Buckets(e) = {}
                /\ \A x \in all : BucketOf(x.num) \in own <=> x.mod = d.sym

\* A loaded module has its identifiers and what it imports is loaded; between
\* files only std is imported.
LoadedModulesAreComplete ==
    /\ \A p \in MdPaths : /\ md.mods[p].imported <=> p = MdStd
                          /\ md.mods[p].active <=> p \in PartsOf(MdStd)
    /\ ~md.compiling /\ ~md.failed =>
          \A p \in MdPaths :
             \/ md.mods[p].type # "full" \/ md.mods[p].c = "c"
             \/ /\ \A q \in MdImports(md.world, p) : md.mods[q].type = "full" /\ md.mods[q].c # "c"
                /\ \A n \in MdNames :
                      Cardinality({i \in DOMAIN md.ids[n] : md.ids[n][i].t = "global" /\ md.ids[n][i].mod = p})
                        = IF MdDefines(md, p, n) THEN 1 ELSE 0

\* Names mean what the language says whatever was compiled or freed before,
\* modules are initialised once and in order, a loaded module stays whole as
\* long as a module that imports it is loaded, and no global value is shared
\* (ACompileFile, AParseGlobalVariable, AFreeDynamicModule).  Nothing is said
\* of imports so deep that ACompileFiles has written past AActiveFiles, which
\* it does before AParse tests the depth.
ModulesAreExact ==
    md.ready /\ ~md.overrun =>
    /\ NamesMeanTheirDefinitions
    /\ ModulesAreInitialised
    /\ GlobalsAreApart
    /\ LoadedModulesAreComplete

(***************************************************************************)
(* Sources that the code handles as it should.                             *)
(***************************************************************************)
\* Not: an explicit import of std; a module that cannot be found, or an error
\* in a file that is the first to import a C module, in any but the last
\* compilation; modules loaded at run time, or with supertypes, that import
\* each other.
MdRegular(w) ==
    LET cyclic == {p \in MdPaths : p \in MdNeeds(w, p)}
        mains == {i \in DOMAIN MdMains : w[MdMains[i]].k = "alore"}
        Bad(i) == \E p \in MdReachable(w, {MdMains[i]}) : \E f \in DOMAIN w[p].files : w[p].files[f].uses # {}
        First(i) == MdNeeds(w, MdMains[i]) \ UNION {MdNeeds(w, MdMains[j]) : j \in 1..(i - 1)}
    IN /\ \A p \in MdPaths : MdStd \notin MdImports(w, p)
       /\ \A i \in mains :
             \/ i = Len(MdMains)
             \/ i + 1 \notin mains
             \/ /\ \A p \in MdNeeds(w, MdMains[i]) : w[p].k # "missing"
                /\ Bad(i) => \A p \in First(i) : w[p].k # "c"
       /\ \A p \in cyclic :
             /\ p \in MdNeeds(w, MdMains[1])
             /\ \A f \in DOMAIN w[p].files : \A j \in DOMAIN w[p].files[f].defs : w[p].files[f].defs[j].kind # "class"

MdStart(w) ==
    LET base ==
            [ready |-> TRUE, world |-> w, ids |-> [n \in MdNames |-> <<>>],
             mods |-> [p \in MdPaths |-> [EmptyModule EXCEPT !.type = "none"]],
             g |-> AInitializeGlobals, stack |-> <<>>, imports |-> <<>>, unres |-> <<>>, cur |-> <<>>, main |-> <<>>,
             init |-> <<>>, ran |-> <<>>, dyn |-> <<>>, buf |-> <<>>, compiled |-> <<>>, numMain |-> 0,
             compiling |-> FALSE, dynamic |-> FALSE, errors |-> FALSE, failed |-> FALSE, overrun |-> FALSE,
             seen |-> {}, had |-> {}, n |-> 0]
        CModules(S) == SetToSeq({p \in MdPaths : w[p].k = "c"} \ S)
    IN AInitializeModule(FoldLeft(ACreateModule, ACreateModule(base, MdStd), CModules({MdStd})), MdStd)

MdInit == md = [ready |-> FALSE]

\* AInitializeCompiler.
AInitializeCompiler ==
    /\ ~md.ready
    /\ \E w \in MdWorlds : (MdDeviations \/ MdRegular(w)) /\ md' = MdStart(w)

MdNext ==
    \/ AInitializeCompiler
    \/ md.ready /\ (\/ ACompileFile \/ ScanFiles \/ ImportNext \/ BeginParse \/ ParseFile \/ EndFiles
                    \/ RealizeSecondPass \/ FinishCompile \/ CollectModules)

=============================================================================
