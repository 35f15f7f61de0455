------------------------------- MODULE Calls -------------------------------
(***************************************************************************)
(* Calls: what is called is found, a stack frame is set up for it and the  *)
(* arguments are put there (call.c; OP_CALL_*, MethodCall and FunctionCall *)
(* of interp.c; member lookup of runtime.c).  There are seven ways in:     *)
(*   "op", "opm"          a call instruction, of a value or of a member    *)
(*   "operator"           the method of an operator, from an instruction   *)
(*   "value", "member"    ACallValue and ACallMethodByNum, from C          *)
(*   "indirect", "indirectm"  ACallIndirect and ACallMethodIndirect        *)
(*                                                                         *)
(* A function takes from min to max arguments; as in the code, max counts  *)
(* one more and has VarArgFlag added if the function takes any number: the *)
(* last parameter is then an array of the rest.  A count of arguments has  *)
(* the flag if the last one is an array or a tuple of arguments.           *)
(***************************************************************************)
EXTENDS Integers, Sequences

CONSTANTS
    VarArgFlag,    \* A_VAR_ARG_FLAG
    ClArities,     \* pairs of min and max
    ClMaxArgs,     \* the largest number of arguments of a call
    ClMaxItems,    \* the largest number of items of an argument after *
    ClLocals,      \* slots of a frame after the parameters
    ClRoutes,      \* ways to make a call
    ClDeviations   \* BOOLEAN: include the calls that IsDeviation names

\* A count of arguments or of parameters, self included, is at most
\* A_MAX_ARG_COUNT (value.h), so that the flag can be told from it.
ASSUME CallsOK ==
    /\ VarArgFlag \in Nat /\ ClMaxItems \in Nat /\ ClLocals \in Nat
    /\ ClMaxArgs \in Nat /\ ClMaxArgs + 1 < VarArgFlag
    /\ ClArities \subseteq Nat \X Nat
    /\ \A f \in ClArities : \/ f[1] <= f[2] /\ f[2] < VarArgFlag
                            \/ VarArgFlag + f[1] < f[2] /\ f[2] < 2 * VarArgFlag
    /\ ClRoutes \subseteq {"op", "opm", "operator", "value", "member", "indirect", "indirectm"}
    /\ ClDeviations \in BOOLEAN

VARIABLES clCall, clM

clVars == <<clCall, clM>>

(***************************************************************************)
(* Values.  The parameters of the functions are told apart by the places   *)
(* the arguments come from.                                                *)
(***************************************************************************)
ClZero    == <<"zero">>
ADefault == <<"default">>
Stale    == <<"stale">>      \* left in the stack by an earlier call
Arg(n)   == <<"arg", n>>
ItemArg(n)  == <<"item", n>>
Instance == <<"instance">>   \* the one that is created, or whose method it is
Object   == <<"object">>     \* the one whose member is called
Wrapper  == <<"wrapper">>    \* the instance that wraps it, if it is primitive
RestArray(s) == <<"rest", s>>
HasFlag(n)  == n >= VarArgFlag
NoFlag(n)   == n % VarArgFlag

IsMemberRoute(r) == r \in {"opm", "operator", "member", "indirectm"}
IsInstruction(r) == r \in {"op", "opm", "operator"}

\* What can be called: functions, types, bound methods, instances with _call.
\* A method has self as its first parameter.
Callables == {[k |-> "function", f |-> f] : f \in ClArities}
Methods   == {f \in ClArities : f[1] > 0}
Callees == Callables \cup {[k |-> k, f |-> f] : k \in {"type", "method", "instance"}, f \in Methods}
             \cup {[k |-> k, f |-> <<1, 1>>] : k \in {"interface", "plain", "other"}}

\* Members: a method, a slot with something to call, or an accessor that
\* returns it or raises an exception; of an instance or of a primitive object,
\* which is wrapped.
Members == {[k |-> "method", f |-> f, of |-> o] : f \in Methods, o \in {"instance", "primitive"}}
             \cup {[k |-> k, v |-> v, of |-> "instance"] : k \in {"slot", "accessor"}, v \in Callees}
             \cup {[k |-> k, of |-> o] : k \in {"raises", "none"}, o \in {"instance", "primitive"}}
             \cup {[k |-> "none", of |-> "nothing"]}

(***************************************************************************)
(* Finding the function.                                                   *)
(***************************************************************************)
ClFound(f, self)  == [err |-> "none", f |-> f, self |-> self, drop |-> FALSE]
NotFound(error) == [err |-> error, f |-> <<0, 0>>, self |-> <<>>, drop |-> FALSE]

\* The value v is called: self, if there is one, is an extra first argument.
CalledFunction(route, v) ==
    CASE v.k = "function" -> ClFound(v.f, <<>>)
      [] v.k = "type"     -> ClFound(v.f, <<Instance>>)
      [] v.k = "interface" -> IF route \in {"op", "opm", "value", "member"} THEN NotFound("ValueError")
                              ELSE ClFound(v.f, <<Instance>>)
      [] v.k \in {"method", "instance"} -> ClFound(v.f, <<Instance>>)
      [] v.k = "plain"    -> NotFound(IF route \in {"op", "opm"} THEN "TypeError" ELSE "MemberError")
      [] v.k = "other"    -> NotFound("TypeError")

\* A method has the object as its first argument; the value of a slot or of an
\* accessor is called without it.  An error in an accessor is taken for a
\* missing member.
MemberFunction(route, m) ==
    CASE m.of = "nothing" -> NotFound("MemberError")
      [] m.k = "method"   -> ClFound(m.f, <<>>)
      [] m.k \in {"slot", "accessor"} -> [CalledFunction(route, m.v) EXCEPT !.drop = TRUE]
      [] OTHER -> NotFound("MemberError")

\* An operator is not looked up in primitive objects.
MethodCall(m) == IF m.of = "primitive" THEN NotFound("TypeError") ELSE MemberFunction("operator", m)

\* The object, wrapped if it is primitive, is passed as self by itself, and is
\* not one of the arguments.
AWrapObject(m) == IF m.of = "primitive" THEN Wrapper ELSE Object
ACallMethodIndirect(m) ==
    IF m.k = "method" THEN ClFound(m.f, <<AWrapObject(m)>>) ELSE MemberFunction("indirectm", m)

ClFind(call) ==
    CASE call.route = "operator"  -> MethodCall(call.callee)
      [] call.route = "indirectm" -> ACallMethodIndirect(call.callee)
      [] call.route \in {"opm", "member"} -> MemberFunction(call.route, call.callee)
      [] OTHER -> CalledFunction(call.route, call.callee)

(***************************************************************************)
(* The arguments.  The state m of a call has                               *)
(*   src, ip   the values and the places of the arguments among them       *)
(*   argc      how many they are, with VarArgFlag                          *)
(*   f, frame  the function and its frame, slots from 0                    *)
(*   top       does t->stackPtr point to the frame?                        *)
(*   unsafe    has memory been allocated while it did, with stale slots,   *)
(*             or have words behind the arguments been overwritten?        *)
(*   err       the exception that has been raised                          *)
(***************************************************************************)
RaiseIn(m, error) ==
    [m EXCEPT !.err = error, !.unsafe = @ \/ (m.top /\ Stale \in {m.frame[i] : i \in DOMAIN m.frame})]

SrcItem(m, n)  == m.src[m.ip[n + 1]]
MaxCount(max)  == IF HasFlag(max) THEN NoFlag(max - 1) ELSE max

\* dst[from], dst[from + 1], ... are set to the values vs.
StoreAt(m, dst, from, vs) ==
    [m EXCEPT !.frame = [i \in DOMAIN @ |-> IF i \in dst + from .. dst + from + Len(vs) - 1
                                            THEN vs[i - dst - from + 1] ELSE @[i]]]
SrcItems(m, from, to) == [n \in 1 .. to - from |-> SrcItem(m, from + n - 1)]
DefaultsFrom(m, dst, from, to) == StoreAt(m, dst, from, [n \in 1 .. to - from |-> ADefault])

\* The rest of the arguments: memory is allocated for len of them.
StoreRest(m, dst, max, len, vs) ==
    LET n == MaxCount(max)
        Allocated(a) == [a EXCEPT !.unsafe = @ \/ Stale \in {a.frame[i] : i \in DOMAIN a.frame}]
    IN StoreAt(Allocated(StoreAt(m, dst, n, <<ClZero>>)), dst, n,
               <<RestArray([i \in 1 .. len |-> IF i <= Len(vs) THEN vs[i] ELSE Stale])>>)

MaxOf(a, b) == IF a > b THEN a ELSE b
MinOf(a, b) == IF a < b THEN a ELSE b

\* The last argument has the items of a sequence.
SetupVarArguments(m, dst, min, max) ==
    LET argc   == NoFlag(m.argc) - 1
        seq    == SrcItem(m, argc)
        items  == seq[2]
        maxCnt == MaxCount(max)
        i      == MinOf(min, argc)
        \* how many are taken from the call, and then from the sequence
        fixed  == IF argc < min THEN argc ELSE MinOf(argc, maxCnt)
        least  == IF argc < min THEN min - argc ELSE 0
        taken  == least + MinOf(maxCnt - (fixed + least), Len(items) - least)
        Copied(a) == DefaultsFrom(StoreAt(StoreAt(a, dst, 0, SrcItems(a, 0, fixed)), dst, fixed, SubSeq(items, 1, taken)),
                                  dst, fixed + taken, maxCnt)
        Rest(a) == StoreRest(a, dst, max, MaxOf(argc + Len(items) - maxCnt, 0),
                             (IF argc > maxCnt THEN SrcItems(m, maxCnt, argc) ELSE <<>>)
                               \o SubSeq(items, taken + 1, Len(items)))
    IN IF seq[1] # "seq" THEN RaiseIn(m, "TypeError")
       ELSE IF argc < min /\ i + Len(items) < min THEN RaiseIn(StoreAt(m, dst, 0, SrcItems(m, 0, i)), "ValueError")
       ELSE IF HasFlag(max) THEN Rest(Copied(m))
       ELSE IF argc + Len(items) > maxCnt THEN RaiseIn(Copied(m), "ValueError") ELSE Copied(m)

\* Faulty variant: one argument too many is dropped.
SetupFixedArgumentsLax(m, dst, min, max) ==
    LET given  == MinOf(m.argc, MaxCount(max))
        Copied(a) == DefaultsFrom(StoreAt(a, dst, 0, SrcItems(a, 0, given)), dst, given, MaxCount(max))
    IN IF m.argc < min THEN RaiseIn(m, "ValueError")
       ELSE IF HasFlag(max) THEN StoreRest(Copied(m), dst, max, 0, <<>>)
       ELSE Copied(m)

SetupFixedArguments(m, dst, min, max) ==
    LET argc   == m.argc
        maxCnt == MaxCount(max)
        given  == MinOf(argc, maxCnt)
        Copied(a) == DefaultsFrom(StoreAt(a, dst, 0, SrcItems(a, 0, given)), dst, given, maxCnt)
        Rest(a) == StoreRest(a, dst, max, IF argc > maxCnt THEN argc - maxCnt ELSE 0,
                             IF argc > maxCnt THEN SrcItems(m, maxCnt, argc) ELSE <<>>)
    IN IF argc < min THEN RaiseIn(m, "ValueError")
       ELSE IF HasFlag(max) THEN Rest(Copied(m))
       ELSE IF argc > max THEN RaiseIn(Copied(m), "ValueError") ELSE Copied(m)

ASetupArguments(m, dst, min, max) ==
    IF HasFlag(m.argc) THEN SetupVarArguments(m, dst, min, max) ELSE SetupFixedArguments(m, dst, min, max)

(***************************************************************************)
(* The frame.                                                              *)
(***************************************************************************)
FrameSize(f) == 3 + MaxCount(f[2]) + (IF HasFlag(f[2]) THEN 1 ELSE 0) + ClLocals

\* The header is set and the temporaries are cleared, but the slots of the
\* arguments that the function must have hold what the stack had there.
NewFrame(m) ==
    [m EXCEPT !.frame = [i \in 0 .. FrameSize(m.f) - 1 |-> IF i < 3 THEN <<"header", i>>
                                                          ELSE IF i < 3 + m.f[1] THEN Stale ELSE ClZero]]

\* The arguments are copied as they are if they are as many as the function
\* takes; first is the slot of the first one.
StoreArguments(m, first, slowSrc) ==
    LET max  == m.f[2] - (first - 3)
        Back(a) == [a EXCEPT !.top = (a.err = "none")]
        Slow(a) == Back(ASetupArguments([a EXCEPT !.src = slowSrc, !.top = TRUE], first, a.f[1] - (first - 3), max))
    IN IF m.argc = max /\ ~HasFlag(m.argc)
       THEN [StoreAt(m, first, 0, SrcItems(m, 0, m.argc)) EXCEPT !.top = TRUE]
       ELSE Slow(m)

\* self is stored by itself (CallWithInstance, ASetupMethodFrame), ...
EnterWithSelf(m, self) == StoreArguments(StoreAt(NewFrame(m), 3, 0, self), 3 + Len(self), m.src)

\* ... or the arguments are shifted to make room for it (CallWithInstance2).
\* FunctionCall takes the arguments of the slow way from the caller's frame
\* instead of from the temporary stack.
EnterShifted(m, self, frame) ==
    LET args == self \o SrcItems(m, 0, NoFlag(m.argc))
        src  == [i \in 0 .. Len(args) - 1 |-> args[i + 1]]
    IN StoreArguments(NewFrame([m EXCEPT !.src = src, !.ip = [i \in 1 .. Len(args) |-> i - 1],
                                         !.argc = @ + Len(self)]),
                      3, IF frame = <<>> THEN src ELSE [i \in DOMAIN src |-> frame[i]])

ACallValue(m, self)          == EnterShifted(m, self, <<>>)
FunctionCall(m, self, frame) == EnterShifted(m, self, frame)

(***************************************************************************)
(* The call.                                                               *)
(***************************************************************************)
\* The caller's frame: its header, and from slot 3 on the object whose member
\* is called, if it is a member, and the arguments.
CallerFrame(call) ==
    LET object == IF IsMemberRoute(call.route) THEN <<Object>> ELSE <<>>
        args   == object \o [n \in 1 .. call.n |-> IF call.star /\ n = call.n THEN call.seq ELSE Arg(n)]
    IN [i \in 0 .. Len(args) + 2 |-> IF i < 3 THEN <<"caller", i>> ELSE args[i - 2]]

\* ACallMethodByNum moves the arguments down over the object when it calls the
\* value of a slot or of an accessor.  It moves as many words as the count of
\* the arguments says with its flag: VarArgFlag words too many after *.
MovesTooMuch(call) ==
    call.route = "member" /\ call.star /\ call.callee.k \in {"slot", "accessor"}

\* Before the frame: all of the arguments, the object included, or without it
\* if something else than a method is called.
Prepared(call, found) ==
    LET n    == call.n + (IF IsMemberRoute(call.route) THEN 1 ELSE 0)
        skip == IF found.drop \/ (call.route = "indirectm" /\ found.self # <<>>) THEN 1 ELSE 0
    IN [src |-> CallerFrame(call), ip |-> [i \in 1 .. n - skip |-> 2 + i + skip],
        argc |-> n - skip + (IF call.star THEN VarArgFlag ELSE 0), f |-> found.f, frame |-> <<>>,
        top |-> FALSE, unsafe |-> MovesTooMuch(call), err |-> found.err]

EnterFunction(call, m, self) ==
    IF m.err # "none" THEN m
    ELSE IF ~call.room THEN [m EXCEPT !.err = "RuntimeError"]
    ELSE IF call.route \in {"value", "member"} THEN ACallValue(m, self)
    ELSE IF call.route = "operator" THEN FunctionCall(m, self, CallerFrame(call))
    ELSE EnterWithSelf(m, self)

ClNoCall == [route |-> "none"]
ClInit == clCall = ClNoCall /\ clM = ClNoCall

\* The calls that are made wrongly: an operator whose method does not have as
\* many parameters as operands, an accessor that raises an exception, an
\* interface that is not called by an instruction, and the value of a slot or
\* of an accessor called from C with an array of arguments.
IsDeviation(call) ==
    \/ /\ call.route = "operator"
       /\ LET found == ClFind(call)
          IN found.err = "none" /\ found.f[2] # call.n + (IF found.drop THEN 0 ELSE 1) + Len(found.self)
    \/ IsMemberRoute(call.route) /\ call.callee.k = "raises"
    \/ MovesTooMuch(call)
    \/ /\ call.route \in {"operator", "indirect", "indirectm"}
       /\ \/ call.callee.k = "interface"
          \/ call.callee.k \in {"slot", "accessor"} /\ call.callee.v.k = "interface"

Sequence(len) == <<"seq", [i \in 1 .. len |-> ItemArg(i)]>>

\* An operator has one or two operands, and its operands are not sequences of
\* arguments.
ClChoose ==
    \E route \in ClRoutes, n \in 0 .. ClMaxArgs, star \in BOOLEAN, room \in BOOLEAN :
    \E callee \in IF IsMemberRoute(route) THEN Members ELSE Callees :
    \E seq \in IF star THEN {Sequence(len) : len \in 0 .. ClMaxItems} \cup {Arg(0)} ELSE {<<>>} :
        /\ star => n > 0
        /\ route = "operator" => n <= 1 /\ ~star
        /\ clCall' = [route |-> route, callee |-> callee, n |-> n, star |-> star, seq |-> seq, room |-> room]
        /\ ClDeviations \/ ~IsDeviation(clCall')
        /\ UNCHANGED clM

ClEnter ==
    LET Entered(found) == EnterFunction(clCall, Prepared(clCall, found), found.self)
    IN clM' = Entered(ClFind(clCall)) /\ UNCHANGED clCall

ClNext == IF clCall = ClNoCall THEN ClChoose ELSE clM = ClNoCall /\ ClEnter

ClSpec == ClInit /\ [][ClNext]_clVars

(***************************************************************************)
(* Properties.                                                             *)
(***************************************************************************)
\* What the caller means: all arguments, the items after * included.
AllArguments(call) ==
    LET given == [n \in 1 .. call.n |-> Arg(n)]
    IN IF call.star THEN SubSeq(given, 1, call.n - 1) \o call.seq[2] ELSE given

\* What is called with the value v, and the self it should have.
CalledValue(v) ==
    CASE v.k = "function" -> [f |-> v.f, self |-> <<>>, errs |-> {}]
      [] v.k \in {"type", "method", "instance"} -> [f |-> v.f, self |-> <<Instance>>, errs |-> {}]
      [] v.k = "interface" -> [errs |-> {"ValueError"}]
      [] OTHER -> [errs |-> {"TypeError", "MemberError"}]

\* A method has the object as self; from ACallMethodIndirect it has the wrapper
\* of a primitive object, which the methods of the std module would make, too.
Called1(call) ==
    IF ~IsMemberRoute(call.route) THEN CalledValue(call.callee)
    ELSE CASE call.callee.k = "method" ->
                IF call.callee.of = "primitive" /\ call.route = "operator" THEN [errs |-> {"TypeError"}]
                ELSE [f |-> call.callee.f, errs |-> {},
                      self |-> <<IF call.route = "indirectm" THEN AWrapObject(call.callee) ELSE Object>>]
           [] call.callee.k \in {"slot", "accessor"} -> CalledValue(call.callee.v)
           [] call.callee.k = "raises" -> [errs |-> {"raised by the accessor"}]
           [] call.callee.k = "none" -> [errs |-> {"MemberError", "TypeError"}]

\* The parameters have the arguments from left to right; the optional ones
\* that are not given the default; the last one the rest.
Parameters(f, all) ==
    LET n == MaxCount(f[2])
    IN [i \in 1 .. n |-> IF i <= Len(all) THEN all[i] ELSE ADefault]
         \o (IF HasFlag(f[2]) THEN <<RestArray(SubSeq(all, n + 1, Len(all)))>> ELSE <<>>)

IsCalledExactly(call, m, c) ==
    IF c.errs # {} THEN m.err \in c.errs
    ELSE IF ~call.room THEN m.err = "RuntimeError"
    ELSE IF call.star /\ call.seq[1] # "seq" THEN m.err = "TypeError"
    ELSE LET all == c.self \o AllArguments(call)
         IN IF Len(all) < c.f[1] \/ (~HasFlag(c.f[2]) /\ Len(all) > c.f[2]) THEN m.err = "ValueError"
            ELSE /\ m.err = "none"
                 /\ LET ps == Parameters(c.f, all)
                    IN \A i \in 3 .. FrameSize(c.f) - 1 : m.frame[i] = IF i - 2 <= Len(ps) THEN ps[i - 2] ELSE ClZero

(***************************************************************************)
(* However a function is called, its parameters have the arguments that    *)
(* were given, those after * included, optional ones that are missing have *)
(* the default, the rest is in the last one, and its local variables are   *)
(* cleared; or the call fails with the exception that says why.  When a    *)
(* function is entered, the array of the rest has been allocated, which    *)
(* can collect garbage, with no slot of the new frame that still has what  *)
(* an earlier call left there (ASetupArguments and its callers), and no    *)
(* word behind the arguments is overwritten; of the exception of a failed  *)
(* call this is not said, as it is made with the slots that are not filled *)
(* yet.  A failed call leaves the stack as it was.                         *)
(***************************************************************************)
CallsAreExact ==
    clM # ClNoCall => /\ IsCalledExactly(clCall, clM, Called1(clCall))
                    /\ (clM.err = "none" => ~clM.unsafe)
                    /\ clM.top = (clM.err = "none")

=============================================================================
