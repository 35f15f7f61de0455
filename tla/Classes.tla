------------------------------ MODULE Classes ------------------------------
(***************************************************************************)
(* Classes and interfaces, from their definitions to the member tables the *)
(* interpreter looks members up in (class.c; the definitions of types in   *)
(* scan.c, parse.c and module.c; members in parseexpr.c and runtime.c).    *)
(*                                                                         *)
(* A program is a sequence of definitions of types.  All of them are first *)
(* scanned (the classes of C modules: created), which fills the member     *)
(* tables and numbers the member variables of each class from zero.  Then  *)
(* they are parsed (C: finished), in the same order: the slots of a class  *)
(* move past those of its superclasses, its members are checked, and the   *)
(* code of its methods takes the slots and functions it refers to from the *)
(* tables as they are then.  The supertype of a type is a name until       *)
(* ASuperType is first asked for it.                                       *)
(*                                                                         *)
(* A definition is a record of                                             *)
(*   t, iface, c    its name; is it an interface; is it of a C module      *)
(*   super          the name after "is", or NoType                         *)
(*   impl, bind     sequences of the names after "implements" and "bind"   *)
(*   mem            its members: [n, k, priv, a] with a name, a kind       *)
(*                  ("def", "var", "const", "get", "set") and, in a, the   *)
(*                  parameters of create, or 1 if a variable is initialised*)
(*   slots, fin, data   C: anonymous slots, a finalizer, bytes of data     *)
(***************************************************************************)
EXTENDS Integers, Sequences, SequencesExt, FiniteSets, FiniteSetsExt, TLC

CONSTANTS
    ClsPrograms,     \* the programs
    MemberKey,       \* [names of members -> their ids, above zero]
    ClsDeviations    \* BOOLEAN: include the uses that go wrong (README.md)

VARIABLES
    clsProgram, \* the definitions, in the order of the text
    clsPhase,   \* "choose", "scan", "parse" or "run"
    clsNext,    \* the definition to scan or to parse
    clsT        \* what is known of the types, see ACreateTypeInfo

clsVars == <<clsProgram, clsPhase, clsNext, clsT>>

NoType == "none"
MemberNames == DOMAIN MemberKey

\* The member tables: of methods, setters and getters, public and private.
\* A variable is in the tables of setters and getters.
ClsTables == {"def", "set", "get"} \X BOOLEAN
Public(k)  == <<k, FALSE>>
Private(k) == <<k, TRUE>>

\* The items of tables: the slot of a variable, or a function (in a table of
\* accessors, an item with A_VAR_METHOD).
SlotItem(n)   == [f |-> "slot", v |-> n]
FunItem(t, i) == [f |-> "fun", v |-> <<t, i>>]
NoItem        == [f |-> "no"]
NoNode        == -1

(***************************************************************************)
(* Member tables                                                           *)
(***************************************************************************)
AAddMember(lists, table, n, item) ==
    [lists EXCEPT ![table] = <<[key |-> MemberKey[n], item |-> item]>> \o @]

RECURSIVE MemberTableSize(_)
MemberTableSize(n) == IF n <= 1 THEN 1 ELSE 2 * MemberTableSize((n + 1) \div 2)

RECURSIVE NodesFrom(_, _)
\* The nodes of a hash chain, as indices.
NodesFrom(table, i) ==
    <<i>> \o (IF table[i].next = NoNode THEN <<>> ELSE NodesFrom(table, table[i].next))

HashChain(table, key) == NodesFrom(table, key % Cardinality(DOMAIN table))

\* A member that finds its place free is stored there; the others wait.
StoreFirst(acc, m) ==
    LET home == m.key % Cardinality(DOMAIN acc.table)
    IN IF acc.table[home].key = 0
       THEN [acc EXCEPT !.table[home].key = m.key, !.table[home].item = m.item]
       ELSE [acc EXCEPT !.rest = Append(@, m)]

StoreCollision(table, m) ==
    LET free == Min({j \in DOMAIN table : table[j].key = 0})
        last == Last(HashChain(table, m.key))
    IN [table EXCEPT ![free] = [key |-> m.key, item |-> m.item, next |-> NoNode],
                     ![last].next = free]

\* Accessors come before variables, which only matters if a class defines
\* both for a name.
AccessorsFirst(list) ==
    LET IsAccessor(m) == m.item.f = "fun"
        IsVariable(m) == m.item.f = "slot"
    IN Reverse(SelectSeq(list, IsAccessor)) \o SelectSeq(list, IsVariable)

BuildTable(list) ==
    LET empty == [j \in 0..MemberTableSize(Len(list)) - 1 |-> [key |-> 0, item |-> SlotItem(0), next |-> NoNode]]
        Rest(acc) == FoldLeft(StoreCollision, acc.table, acc.rest)
    IN Rest(FoldLeft(StoreFirst, [table |-> empty, rest |-> <<>>], list))

ABuildTypeInfoMembers(lists) ==
    [k \in ClsTables |-> BuildTable(IF k[1] = "def" THEN lists[k] ELSE AccessorsFirst(lists[k]))]

\* The members of a table with a key, in the order a search meets them.
TableEntries(type, k, n) ==
    LET IsMatch(j) == type.table[k][j].key = MemberKey[n]
    IN SelectSeq(HashChain(type.table[k], MemberKey[n]), IsMatch)

ALookupMemberTable(type, k, n) ==
    LET First(m) == IF m = <<>> THEN NoItem ELSE type.table[k][m[1]].item
    IN First(TableEntries(type, k, n))

GetMemberCount(type, k, n) == Len(TableEntries(type, k, n))

GetMemberVariableCount(type, k, n, form) ==
    LET Is(j) == type.table[k][j].item.f = form
    IN Len(SelectSeq(TableEntries(type, k, n), Is))

\* The variable of a name, whatever accessors there are.
AGetMemberVar(type, private, n) ==
    LET IsSlot(j) == type.table[<<"get", private>>][j].item.f = "slot"
        First(m)  == IF m = <<>> THEN NoItem ELSE type.table[<<"get", private>>][m[1]].item
    IN First(SelectSeq(TableEntries(type, <<"get", private>>, n), IsSlot))

Shifted(item, adjust) == IF item.f = "slot" THEN SlotItem(item.v + adjust) ELSE item

UpdateMemberVars(type, adjust) ==
    LET Moved(table) == [j \in DOMAIN table |-> [table[j] EXCEPT !.item = Shifted(@, adjust)]]
    IN [type EXCEPT !.table = [k \in ClsTables |-> IF k[1] = "def" THEN @[k] ELSE Moved(@[k])]]

(***************************************************************************)
(* What is known of a type                                                 *)
(***************************************************************************)
ACreateTypeInfo(d) ==
    [d |-> d, sup |-> NoType, valid |-> TRUE, ifaces |-> <<>>, table |-> <<>>,
     numVars |-> 0, total |-> 0,   \* member variables of the class, and with those inherited
     args |-> -1,                  \* parameters of the constructor, -1 if not known
     hasInit |-> FALSE,            \* some variable has an initial value
     sets |-> <<>>,                \* slots the generated create method sets
     initial |-> <<>>,             \* slots the member initializer sets
     hasEq |-> TRUE, hasFin |-> d.fin,
     data |-> d.data, offset |-> 0,
     makes |-> <<>>,               \* what the constructor calls
     refs |-> <<>>]                \* what names in its methods stand for

Compiling(types) == [ty |-> types, err |-> {}]
Failed(c, e) == [c EXCEPT !.err = @ \cup {e}]
FailedIf(c, cond, e) == IF cond THEN Failed(c, e) ELSE c

IsVariableKind(k) == k \in {"var", "const"}

\* One member of a definition, while it is scanned.
ScanMemberVariableDefinition(m, acc) ==
    LET Var(lists, k) == AAddMember(lists, <<k, m.priv>>, m.n, SlotItem(acc.vars))
    IN [acc EXCEPT !.lists = IF m.k = "var" THEN Var(Var(@, "get"), "set") ELSE Var(@, "get"),
                   !.vars  = @ + 1,
                   !.init  = @ \/ (m.a = 1),
                   !.sets  = IF m.a = 1 \/ m.priv THEN @ ELSE Append(@, acc.vars)]

ScanMethodDefinition(m, acc, function) ==
    [acc EXCEPT !.lists = AAddMember(@, <<m.k, m.priv>>, m.n, function),
                !.args  = IF m.n = "create" /\ m.k = "def" THEN m.a ELSE @]

ScanMember(d, acc, i) ==
    IF IsVariableKind(d.mem[i].k) THEN ScanMemberVariableDefinition(d.mem[i], acc)
    ELSE ScanMethodDefinition(d.mem[i], acc, FunItem(d.t, i))

NewSlots(d) == IF d.c THEN d.slots + (IF d.fin THEN 1 ELSE 0) ELSE 0

Scanned(d) ==
    LET Scan(acc, i) == ScanMember(d, acc, i)
    IN FoldLeftDomain(Scan,
                      [lists |-> [k \in ClsTables |-> <<>>], vars |-> NewSlots(d), init |-> FALSE,
                       sets |-> <<>>, args |-> -1], d.mem)

\* A class without a superclass and a create method is given one that sets
\* its public variables without initial values.
GeneratesCreate(d, acc) == ~d.c /\ ~d.iface /\ acc.args = -1 /\ acc.sets /= <<>> /\ d.super = NoType

ScanTypeDefinition(d) ==
    LET After(acc, gen) ==
            [ACreateTypeInfo(d) EXCEPT
                !.valid   = (d.super = NoType /\ d.impl = <<>> /\ (d.c => d.iface)),
                !.sup     = IF d.super = NoType /\ d.impl = <<>> /\ ~d.c /\ ~d.iface THEN "Object" ELSE NoType,
                !.table   = ABuildTypeInfoMembers(
                                IF gen THEN AAddMember(acc.lists, Public("def"), "create", FunItem(d.t, 0)) ELSE acc.lists),
                !.numVars = acc.vars,
                !.args    = IF gen THEN Len(acc.sets) ELSE acc.args,
                !.sets    = IF gen THEN acc.sets ELSE <<>>,
                !.hasInit = ~d.c /\ acc.init]
        Generate(acc) == After(acc, GeneratesCreate(d, acc))
    IN Generate(Scanned(d))

(***************************************************************************)
(* Supertypes                                                              *)
(***************************************************************************)
RECURSIVE RawChain(_, _)
\* A type and its supertypes, as far as they have been resolved.
RawChain(c, t) == IF t = NoType THEN <<>> ELSE <<t>> \o RawChain(c, c.ty[t].sup)

SetSuperType(c, t, super, report) ==
    IF \E i \in DOMAIN RawChain(c, super) : RawChain(c, super)[i] = t
    THEN FailedIf(c, report, "CycleInSupertypeHierarchy")
    ELSE [c EXCEPT !.ty[t].sup = super]

AAddInterface(c, t, iface) ==
    IF Contains(c.ty[t].ifaces, iface) THEN c ELSE [c EXCEPT !.ty[t].ifaces = Append(@, iface)]

AddIfInterface(t, c, iface) == IF c.ty[iface].d.iface THEN AAddInterface(c, t, iface) ELSE c

AFixSupertype(c, t) ==
    LET d == c.ty[t].d
        Super(b) ==
            IF d.super /= NoType
            THEN IF b.ty[d.super].d.iface = d.iface THEN SetSuperType(b, t, d.super, FALSE) ELSE b
            ELSE IF d.iface THEN b ELSE [b EXCEPT !.ty[t].sup = "Object"]
        Add(b, iface) == AddIfInterface(t, b, iface)
    IN [FoldLeft(Add, Super(c), Reverse(d.impl)) EXCEPT !.ty[t].valid = TRUE]

AGetResolveSupertype(c, t) == IF c.ty[t].valid THEN c ELSE AFixSupertype(c, t)

RECURSIVE ResolveChain(_, _)
\* A loop with ASuperType resolves the supertypes of a type one by one.
ResolveChain(c, t) ==
    LET Up(b) == IF b.ty[t].sup = NoType THEN b ELSE ResolveChain(b, b.ty[t].sup)
    IN Up(AGetResolveSupertype(c, t))

TypeChain(c, t)  == RawChain(c, t)
SuperChain(c, t) == Tail(RawChain(c, t))

\* The first item a sequence of types has for a member in a table.
RECURSIVE FirstItem(_, _, _, _)
FirstItem(c, types, k, n) ==
    IF types = <<>> THEN NoItem
    ELSE LET This(item) == IF item = NoItem THEN FirstItem(c, Tail(types), k, n) ELSE item
         IN This(ALookupMemberTable(c.ty[types[1]], k, n))

AGetInstanceMember(c, t, k, n) == FirstItem(c, TypeChain(c, t), Public(k), n)

AGetMinArgs(c, t) ==
    LET Known(s) == c.ty[s].args /= -1
        First(s) == IF s = <<>> THEN -1 ELSE c.ty[s[1]].args
    IN First(SelectSeq(TypeChain(c, t), Known))

HasTypeMethod(c, t, n) ==
    \E i \in DOMAIN TypeChain(c, t) :
        /\ c.ty[TypeChain(c, t)[i]].sup /= NoType
        /\ GetMemberCount(c.ty[TypeChain(c, t)[i]], Public("def"), n) > 0

AUpdateInheritedMiscTypeData(c, t) ==
    [c EXCEPT !.ty[t].hasEq  = HasTypeMethod(c, t, "_eq"),
              !.ty[t].hasFin = \E i \in DOMAIN TypeChain(c, t) : c.ty[TypeChain(c, t)[i]].hasFin]

ATotalNumMemberVars(c, types) ==
    FoldLeft(LAMBDA n, s : n + c.ty[s].numVars, 0, types)

\* Faulty variant: the slots stay where the scan put them.
AUpdateTypeTotalNumVarsOnly(c, t) ==
    [c EXCEPT !.ty[t].total = ATotalNumMemberVars(c, SuperChain(c, t))]

AUpdateTypeTotalNumVars(c, t) ==
    LET Move(n) == [c EXCEPT !.ty[t] = [UpdateMemberVars(@, n) EXCEPT !.total = n]]
    IN Move(ATotalNumMemberVars(c, SuperChain(c, t)))

(***************************************************************************)
(* Checks of a member that a definition makes                              *)
(***************************************************************************)
SomeSuperHas(c, t, tables, n) ==
    \E i \in DOMAIN SuperChain(c, t) : \E k \in tables :
        GetMemberCount(c.ty[SuperChain(c, t)[i]], k, n) > 0

SomeSuperHasVariable(c, t, n) ==
    \E i \in DOMAIN SuperChain(c, t) :
        GetMemberVariableCount(c.ty[SuperChain(c, t)[i]], Public("get"), n, "slot") > 0

\* Does an interface of the class, or one it extends, define the member?
IfaceDefines(c, t, k, n) ==
    \E i \in DOMAIN c.ty[t].ifaces : \E j \in DOMAIN RawChain(c, c.ty[t].ifaces[i]) :
        GetMemberCount(c.ty[RawChain(c, c.ty[t].ifaces[i])[j]], Public(k), n) > 0

HasMethod(type, n) == \E p \in BOOLEAN : GetMemberCount(type, <<"def", p>>, n) > 0

ACheckMethodDefinition(c, t, n, p) ==
    \/ GetMemberCount(c.ty[t], <<"def", p>>, n) > 1
    \/ GetMemberCount(c.ty[t], <<"def", ~p>>, n) > 0
    \/ IfaceDefines(c, t, "get", n)
    \/ p /\ IfaceDefines(c, t, "def", n)
    \/ SomeSuperHas(c, t, {Public("get")} \cup (IF p THEN {Public("def")} ELSE {}), n)

ACheckMemberVariableDefinition(c, t, n, p) ==
    \/ GetMemberVariableCount(c.ty[t], <<"get", p>>, n, "slot") > 1
    \/ GetMemberVariableCount(c.ty[t], <<"get", ~p>>, n, "slot") > 0
    \/ HasMethod(c.ty[t], n)
    \/ IfaceDefines(c, t, "def", n)
    \/ p /\ IfaceDefines(c, t, "get", n)
    \/ SomeSuperHas(c, t, {Public("def")} \cup (IF p THEN {Public("get")} ELSE {}), n)
    \/ SomeSuperHasVariable(c, t, n)

\* Does the topmost superclass that can read the member set it too?
SettableAbove(c, t, n) ==
    LET Reads(s)   == GetMemberCount(c.ty[s], Public("get"), n) > 0
        Topmost(s) == s = <<>> \/ GetMemberCount(c.ty[Last(s)], Public("set"), n) > 0
    IN Topmost(SelectSeq(SuperChain(c, t), Reads))

ACheckSetterDefinition(c, t, n, p) ==
    \/ ~SettableAbove(c, t, n)
    \/ GetMemberVariableCount(c.ty[t], <<"set", p>>, n, "fun") > 1
    \/ GetMemberVariableCount(c.ty[t], <<"set", ~p>>, n, "fun") > 0
    \/ HasMethod(c.ty[t], n)
    \/ IfaceDefines(c, t, "def", n)
    \/ p /\ IfaceDefines(c, t, "get", n)
    \/ GetMemberCount(c.ty[t], <<"get", ~p>>, n) > 0
    \/ GetMemberVariableCount(c.ty[t], <<"get", p>>, n, "slot") > 0
    \/ \A i \in DOMAIN TypeChain(c, t) : GetMemberCount(c.ty[TypeChain(c, t)[i]], <<"get", p>>, n) = 0
    \/ SomeSuperHas(c, t, {Public("def")} \cup (IF p THEN {Public("get"), Public("set")} ELSE {}), n)

ACheckGetterDefinition(c, t, n, p) ==
    \/ GetMemberVariableCount(c.ty[t], <<"get", p>>, n, "fun") > 1
    \/ GetMemberVariableCount(c.ty[t], <<"get", ~p>>, n, "fun") > 0
    \/ HasMethod(c.ty[t], n)
    \/ \E q \in BOOLEAN : GetMemberVariableCount(c.ty[t], <<"get", q>>, n, "slot") > 0
    \/ IfaceDefines(c, t, "def", n)
    \/ p /\ IfaceDefines(c, t, "get", n)
    \/ SomeSuperHas(c, t, {Public("def")} \cup (IF p THEN {Public("get"), Public("set")} ELSE {}), n)

\* Does a class have a member of an interface?  What the class itself defines
\* as something else (own) is found by the checks above.
VerifyInterfaceMember(c, t, k, n, ignoreFirst) ==
    \/ \E i \in DOMAIN TypeChain(c, t) : GetMemberCount(c.ty[TypeChain(c, t)[i]], Public(k), n) > 0
    \/ ignoreFirst /\ GetMemberCount(c.ty[t], Public("def"), n) > 0
    \/ ignoreFirst /\ k = "def" /\ (GetMemberCount(c.ty[t], Public("get"), n)
                                    + GetMemberCount(c.ty[t], Public("set"), n) > 0)

AVerifyInterface(c, t, iface, ignoreFirst) ==
    \A k \in {"def", "get", "set"}, n \in MemberNames :
        GetMemberCount(c.ty[iface], Public(k), n) > 0 => VerifyInterfaceMember(c, t, k, n, ignoreFirst)

AVerifyInterfaces(c, t) ==
    \A i \in DOMAIN c.ty[t].ifaces : \A j \in DOMAIN RawChain(c, c.ty[t].ifaces[i]) :
        AVerifyInterface(c, t, RawChain(c, c.ty[t].ifaces[i])[j], TRUE)

(***************************************************************************)
(* What a name in a method stands for: a member looked up by name when the *)
(* code runs, or items of the tables, to read (get) and to assign (set)    *)
(***************************************************************************)
ByName == [by |-> "name", get |-> NoItem, set |-> NoItem]
Items(get, set) == [by |-> "items", get |-> get, set |-> set]
NotMember == [by |-> "none", get |-> NoItem, set |-> NoItem]

InType(type, n, private) ==
    LET At(k) == ALookupMemberTable(type, k, n)
        Has(k) == At(k) /= NoItem
    IN IF Has(Public("def")) THEN ByName
       ELSE IF private /\ Has(Private("def")) THEN Items(At(Private("def")), NoItem)
       ELSE IF Has(Public("set")) THEN ByName
       ELSE IF private /\ Has(Private("set")) THEN
           IF At(Private("set")).f = "fun" \/ At(Private("get")).f /= "slot"
           THEN Items(At(Private("get")), At(Private("set")))
           ELSE Items(At(Private("set")), At(Private("set")))
       ELSE IF Has(Public("get")) THEN ByName
       ELSE IF private /\ Has(Private("get")) THEN Items(At(Private("get")), NoItem)
       ELSE NotMember

FindMemberVariable(c, t, n) ==
    LET Found == {i \in DOMAIN TypeChain(c, t) : InType(c.ty[TypeChain(c, t)[i]], n, i = 1) /= NotMember}
    IN IF Found = {} THEN NotMember ELSE InType(c.ty[TypeChain(c, t)[Min(Found)]], n, Min(Found) = 1)

\* In a create method the variables of the class are set directly.
FindInCreate(c, t, n) ==
    LET own == {p \in BOOLEAN : AGetMemberVar(c.ty[t], p, n) /= NoItem}
        Direct(item) == Items(item, item)
    IN IF own = {} THEN FindMemberVariable(c, t, n)
       ELSE Direct(AGetMemberVar(c.ty[t], ~(FALSE \in own), n))

\* super.n: the first superclass with a method or something to read.
FindInSuper(c, t, n) ==
    LET up == SuperChain(c, t)
        Has(s) == \E k \in {"def", "get"} : ALookupMemberTable(c.ty[s], Public(k), n) /= NoItem
        In(type) == IF ALookupMemberTable(type, Public("def"), n) /= NoItem
                    THEN Items(ALookupMemberTable(type, Public("def"), n), NoItem)
                    ELSE Items(ALookupMemberTable(type, Public("get"), n), FirstItem(c, up, Public("set"), n))
    IN IF SelectSeq(up, Has) = <<>> THEN NotMember ELSE In(c.ty[SelectSeq(up, Has)[1]])

MethodCode(c, t) ==
    [n \in MemberNames |-> [self |-> FindMemberVariable(c, t, n), create |-> FindInCreate(c, t, n),
                            super |-> FindInSuper(c, t, n)]]

(***************************************************************************)
(* Parsing a definition                                                    *)
(***************************************************************************)
CheckMember(c, t, m) ==
    CASE m.k = "def" -> ACheckMethodDefinition(c, t, m.n, m.priv)
      [] m.k = "get" -> ACheckGetterDefinition(c, t, m.n, m.priv) \/ m.n = "create"
      [] m.k = "set" -> ACheckSetterDefinition(c, t, m.n, m.priv) \/ m.n = "create"
      [] OTHER       -> ACheckMemberVariableDefinition(c, t, m.n, m.priv)

ParseMethodDefinition(d, c, m) == FailedIf(c, CheckMember(c, d.t, m), "Member")

\* A variable has the next slot.
ParseMemberVariable(d, c, m) ==
    [FailedIf(c, CheckMember(c, d.t, m), "Member") EXCEPT
        !.ty[d.t].total   = @ + 1,
        !.ty[d.t].initial = IF m.a = 1 THEN Append(@, c.ty[d.t].total) ELSE @]

\* A member in an interface is neither private nor a variable.
ParseClassMember(d, c, m) ==
    LET Allowed(b) == FailedIf(b, d.iface /\ (m.priv \/ IsVariableKind(m.k)), "InterfaceMember")
    IN IF IsVariableKind(m.k) THEN ParseMemberVariable(d, Allowed(c), m) ELSE ParseMethodDefinition(d, Allowed(c), m)

BuildConstructor(c, t) ==
    LET HasInit(s) == c.ty[s].hasInit
    IN [c EXCEPT !.ty[t].makes = [init   |-> Reverse(SelectSeq(TypeChain(c, t), HasInit)),
                                  create |-> FirstItem(c, TypeChain(c, t), Public("def"), "create"),
                                  args   |-> AGetMinArgs(c, t)]]

\* The bytes of data of the nearest superclass with any come first.
ACalculateInstanceSize(c, t) ==
    LET HasData(s) == c.ty[s].data > 0
        Above(s)   == IF s = <<>> THEN 0 ELSE c.ty[s[1]].data
    IN [c EXCEPT !.ty[t].data = @ + Above(SelectSeq(SuperChain(c, t), HasData))]

ParseHeader(c, d) ==
    LET Super(b) ==
            IF d.super = NoType THEN b
            ELSE IF b.ty[d.super].d.iface = d.iface THEN SetSuperType(b, d.t, d.super, TRUE)
            ELSE Failed(b, "InvalidSuper")
        Add(b, iface) == FailedIf(AddIfInterface(d.t, b, iface), ~b.ty[iface].d.iface, "InvalidInterface")
    IN FoldLeft(Add, Super(c), d.impl)

RECURSIVE ResolveAll(_, _)
ResolveAll(c, types) == IF types = <<>> THEN c ELSE ResolveAll(ResolveChain(c, types[1]), Tail(types))

ParseBind(iface, c, t) ==
    LET Bound(b) == FailedIf(b, ~AVerifyInterface(b, t, iface, FALSE), "DoesNotImplement")
    IN FailedIf(Bound(ResolveChain(AAddInterface(c, t, iface), t)), c.ty[iface].sup /= NoType, "BindWithSuperinterface")

ParseTypeDefinition(c, d) ==
    LET Inherit(b)    == AUpdateInheritedMiscTypeData(b, d.t)
        SetArgs(b)    == [b EXCEPT !.ty[d.t].args = Max({0, AGetMinArgs(b, d.t)})]
        Interfaces(b) == IF d.iface THEN b
                         ELSE LET Verify(a) == FailedIf(a, ~AVerifyInterfaces(a, d.t), "DoesNotImplement")
                              IN Verify(ResolveAll(b, b.ty[d.t].ifaces))
        Bind(b, t)    == ParseBind(d.t, b, t)
        Binds(b)      == FoldLeft(Bind, b, d.bind)
        Member(b, m)  == ParseClassMember(d, b, m)
        Code(b)       == [b EXCEPT !.ty[d.t].refs = MethodCode(b, d.t)]
        Header(b)     == AUpdateTypeTotalNumVars(SetArgs(Inherit(b)), d.t)
        Members(b)    == FoldLeft(Member, Code(b), d.mem)
    IN ACalculateInstanceSize(BuildConstructor(
           Members(Binds(Interfaces(Header(ResolveChain(ParseHeader(c, d), d.t))))), d.t), d.t)

\* A class of a C module: nothing is checked.  Its data is put after the sum
\* of the data of all its superclasses.
FinishCType(c, d) ==
    LET Args(b)   == [AUpdateInheritedMiscTypeData(b, d.t) EXCEPT !.ty[d.t].args = Max({0, AGetMinArgs(b, d.t)})]
        Vars(b)   == [b EXCEPT !.ty[d.t].total = @ + b.ty[d.t].numVars]
        Offset(b) == [b EXCEPT !.ty[d.t].offset = FoldLeft(LAMBDA n, s : n + b.ty[s].data, 0, SuperChain(b, d.t)),
                               !.ty[d.t].data   = d.data]
        Finish(b) == Offset(Vars(AUpdateTypeTotalNumVars(Args(b), d.t)))
    IN ACalculateInstanceSize(BuildConstructor(Finish(ResolveChain(c, d.t)), d.t), d.t)

(***************************************************************************)
(* The compilation of a program                                            *)
(***************************************************************************)
ObjectMember(n, a) == [n |-> n, k |-> "def", priv |-> FALSE, a |-> a]
ObjectDef == [t |-> "Object", iface |-> FALSE, c |-> TRUE, super |-> NoType, impl |-> <<>>, bind |-> <<>>,
              mem |-> <<ObjectMember("create", 0), ObjectMember("_eq", 0)>>, slots |-> 0, fin |-> FALSE, data |-> 0]
ObjectType == [ScanTypeDefinition(ObjectDef) EXCEPT !.valid = TRUE]

ClsInit ==
    /\ clsProgram = <<>>
    /\ clsPhase = "choose"
    /\ clsNext = 1
    /\ clsT = Compiling("Object" :> ObjectType)

ClsChoose ==
    /\ clsPhase = "choose"
    /\ clsProgram' \in ClsPrograms
    /\ clsPhase' = "scan"
    /\ UNCHANGED <<clsNext, clsT>>

\* The step to the next definition, or to the next phase.
NextType(after) ==
    /\ clsNext' = IF clsNext < Len(clsProgram) THEN clsNext + 1 ELSE 1
    /\ clsPhase' = IF clsNext < Len(clsProgram) THEN clsPhase ELSE after
    /\ UNCHANGED clsProgram

ClsScan ==
    /\ clsPhase = "scan"
    /\ clsT' = [clsT EXCEPT !.ty = (clsProgram[clsNext].t :> ScanTypeDefinition(clsProgram[clsNext])) @@ @]
    /\ NextType("parse")

ClsParse ==
    /\ clsPhase = "parse"
    /\ clsT' = IF clsProgram[clsNext].c THEN FinishCType(clsT, clsProgram[clsNext])
                                        ELSE ParseTypeDefinition(clsT, clsProgram[clsNext])
    /\ NextType("run")

ClsNext == ClsChoose \/ ClsScan \/ ClsParse

(***************************************************************************)
(* What the definitions mean, read off the text                            *)
(***************************************************************************)
DefOf(t) == IF t = "Object" THEN ObjectDef ELSE CHOOSE d \in Range(clsProgram) : d.t = t

SuperInText(t) ==
    LET d == DefOf(t) IN IF d.super = NoType /\ ~d.iface /\ t /= "Object" THEN "Object" ELSE d.super

RECURSIVE TextChain(_, _)
\* Cut off after n types: longer than the program if there is a cycle.
TextChain(t, n) == IF t = NoType \/ n = 0 THEN <<>> ELSE <<t>> \o TextChain(SuperInText(t), n - 1)

Line(t)     == TextChain(t, Len(clsProgram) + 2)
IsCyclic    == \E i \in DOMAIN clsProgram : Len(Line(clsProgram[i].t)) = Len(clsProgram) + 2
ClassNames  == {clsProgram[i].t : i \in {j \in DOMAIN clsProgram : ~clsProgram[j].iface}}
Subclasses(t) == {s \in ClassNames : Contains(Line(s), t)}

\* The members a type defines for a table, as indices.
Declares(t, k, n, p) ==
    LET Kinds == CASE k = "def" -> {"def"} [] k = "get" -> {"get", "var", "const"} [] OTHER -> {"set", "var"}
    IN {i \in DOMAIN DefOf(t).mem : DefOf(t).mem[i].n = n /\ DefOf(t).mem[i].priv = p /\ DefOf(t).mem[i].k \in Kinds}

VariableCount(t, last) ==
    NewSlots(DefOf(t)) + Cardinality({i \in 1..last : IsVariableKind(DefOf(t).mem[i].k)})
SlotsOf(types) == FoldLeft(LAMBDA n, s : n + VariableCount(s, Len(DefOf(s).mem)), 0, types)

\* The item a member should have: slots are laid out from the top class down.
ItemNumber(t, i) ==
    IF IsVariableKind(DefOf(t).mem[i].k) THEN SlotItem(SlotsOf(Tail(Line(t))) + VariableCount(t, i) - 1)
    ELSE FunItem(t, i)

Generated(t) ==
    LET d == DefOf(t)
        Uninitialised == {i \in DOMAIN d.mem : IsVariableKind(d.mem[i].k) /\ ~d.mem[i].priv /\ d.mem[i].a = 0}
    IN IF d.c \/ d.super /= NoType \/ Declares(t, "def", "create", FALSE) /= {} THEN {} ELSE Uninitialised

\* The member the nearest of some types defines.
RECURSIVE Nearest(_, _, _)
Nearest(types, k, n) ==
    IF types = <<>> THEN NoItem
    ELSE IF Declares(types[1], k, n, FALSE) /= {} THEN ItemNumber(types[1], Min(Declares(types[1], k, n, FALSE)))
    ELSE IF k = "def" /\ n = "create" /\ Generated(types[1]) /= {} THEN FunItem(types[1], 0)
    ELSE Nearest(Tail(types), k, n)

NearestRead(types, n) == IF Nearest(types, "def", n) /= NoItem THEN Nearest(types, "def", n) ELSE Nearest(types, "get", n)

OwnPrivate(t, k, n) ==
    IF Declares(t, k, n, TRUE) = {} THEN NoItem ELSE ItemNumber(t, Min(Declares(t, k, n, TRUE)))

HasPrivate(t, n) == \E k \in {"def", "get", "set"} : Declares(t, k, n, TRUE) /= {}

TextInterfaces(t) ==
    LET Direct == UNION {Range(DefOf(s).impl) : s \in Range(Line(t))}
                    \cup {clsProgram[i].t : i \in {j \in DOMAIN clsProgram : Range(clsProgram[j].bind) \cap Range(Line(t)) /= {}}}
    IN UNION {Range(Line(i)) : i \in Direct}

(***************************************************************************)
(* The tables against the text                                             *)
(***************************************************************************)
\* What code in class t that names n reads and assigns in an instance of s.
ReadBy(code, s, n) ==
    IF code.by = "name"
    THEN IF AGetInstanceMember(clsT, s, "get", n) /= NoItem THEN AGetInstanceMember(clsT, s, "get", n)
         ELSE AGetInstanceMember(clsT, s, "def", n)
    ELSE code.get
AssignedBy(code, s, n) == IF code.by = "name" THEN AGetInstanceMember(clsT, s, "set", n) ELSE code.set

MembersAreFound(t) ==
    \A k \in {"def", "get", "set"}, n \in MemberNames :
        AGetInstanceMember(clsT, t, k, n) = Nearest(Line(t), k, n)

NamesAreResolved(t) ==
    \A n \in MemberNames, s \in Subclasses(t) :
        LET self == clsT.ty[t].refs[n].self
        IN IF HasPrivate(t, n)
           THEN /\ OwnPrivate(t, "def", n) /= NoItem => ReadBy(self, s, n) = OwnPrivate(t, "def", n)
                /\ OwnPrivate(t, "def", n) = NoItem =>
                      /\ OwnPrivate(t, "get", n) /= NoItem \/ ClsDeviations => 
                            ReadBy(self, s, n) = OwnPrivate(t, "get", n) /\ ReadBy(self, s, n) /= NoItem
                      /\ AssignedBy(self, s, n) = OwnPrivate(t, "set", n)
           ELSE /\ (self.by = "none") = (NearestRead(Line(t), n) = NoItem)
                /\ self.by /= "none" => /\ ReadBy(self, s, n) = NearestRead(Line(s), n)
                                        /\ AssignedBy(self, s, n) = Nearest(Line(s), "set", n)

OwnVariable(t, n) ==
    {i \in DOMAIN DefOf(t).mem : DefOf(t).mem[i].n = n /\ IsVariableKind(DefOf(t).mem[i].k)}

CreateSetsVariables(t) ==
    \A n \in MemberNames : \A i \in OwnVariable(t, n) :
        clsT.ty[t].refs[n].create = Items(ItemNumber(t, i), ItemNumber(t, i))

\* Known to go wrong: the slot of a superclass that is parsed later and has
\* inherited variables itself (README.md, Classes).
ParsedLater(t) ==
    LET At(s) == CHOOSE i \in DOMAIN clsProgram : clsProgram[i].t = s
    IN \E s \in Range(Line(t)) \ {t, "Object"} : At(s) > At(t) /\ SlotsOf(Tail(Line(s))) > 0

SuperIsResolved(t) ==
    ClsDeviations \/ ~ParsedLater(t) =>
        \A n \in MemberNames :
            LET super == clsT.ty[t].refs[n].super
            IN /\ super.get = NearestRead(Tail(Line(t)), n)
               /\ Nearest(Tail(Line(t)), "def", n) = NoItem /\ super.by /= "none" =>
                     super.set = Nearest(Tail(Line(t)), "set", n)

\* A name is a method or a variable, in a class and all its superclasses.
KindsAgree(t) ==
    \A n \in MemberNames : ~(Nearest(Line(t), "def", n) /= NoItem /\ Nearest(Line(t), "get", n) /= NoItem)

AnswersInterfaces(t) ==
    \A i \in TextInterfaces(t), k \in {"def", "get", "set"}, n \in MemberNames :
        Declares(i, k, n, FALSE) /= {} => AGetInstanceMember(clsT, t, k, n) /= NoItem

AIsOfType(t, type) ==
    IF ~clsT.ty[type].d.iface THEN Contains(RawChain(clsT, t), type)
    ELSE \E s \in Range(RawChain(clsT, t)) : \E i \in Range(clsT.ty[s].ifaces) : Contains(RawChain(clsT, i), type)

TypesAreTold(t) ==
    \A i \in DOMAIN clsProgram :
        AIsOfType(t, clsProgram[i].t) = (clsProgram[i].t \in Range(Line(t)) \cup TextInterfaces(t))

InstanceIsMade(t) ==
    LET made == clsT.ty[t].makes
        create == Nearest(Line(t), "def", "create")
        HasInitial(s) == ~DefOf(s).c /\ \E i \in DOMAIN DefOf(s).mem : IsVariableKind(DefOf(s).mem[i].k) /\ DefOf(s).mem[i].a = 1
        Slots(M) == {ItemNumber(t, i).v : i \in M}
    IN /\ clsT.ty[t].total = SlotsOf(Line(t))
       /\ made.create = create
       /\ made.args = IF create.v[2] = 0 THEN Cardinality(Generated(create.v[1])) ELSE DefOf(create.v[1]).mem[create.v[2]].a
       /\ ~DefOf(t).c => made.init = Reverse(SelectSeq(Line(t), HasInitial))
       /\ Range(clsT.ty[t].sets) = Slots(Generated(t))
       /\ ~DefOf(t).c => Range(clsT.ty[t].initial) =
                            Slots({i \in DOMAIN DefOf(t).mem : IsVariableKind(DefOf(t).mem[i].k) /\ DefOf(t).mem[i].a = 1})

\* The bytes of data a class of a C module has for itself.
Bytes(t) == clsT.ty[t].offset .. clsT.ty[t].offset + DefOf(t).data - 1
DataAbove(t) == {s \in Range(Tail(Line(t))) : clsT.ty[s].data > 0}

DataIsApart(t) ==
    \A s \in Range(Line(t)) : ClsDeviations \/ Cardinality(DataAbove(s)) <= 1 =>
        /\ Bytes(s) \subseteq 0..clsT.ty[t].data - 1
        /\ \A r \in Range(Line(s)) \ {s} : Bytes(s) \cap Bytes(r) = {}

FlagsAreRight(t) ==
    /\ clsT.ty[t].hasEq = \E s \in Range(Line(t)) \ {"Object"} : Declares(s, "def", "_eq", FALSE) /= {}
    /\ clsT.ty[t].hasFin = \E s \in Range(Line(t)) : DefOf(s).fin

(***************************************************************************)
(* Once a program has been compiled without an error, in whatever order    *)
(* its classes are written: every member is found where the nearest class  *)
(* defines it, its slot is one no other variable of the instance has, and  *)
(* the code of methods, through self, super or in create, agrees with it   *)
(* for instances of subclasses too; a class has all members of its         *)
(* interfaces, as what they are; and an instance is made by the right      *)
(* initializers and create method.  (The tables of class.c, the checks     *)
(* ACheck*Definition and AVerifyInterfaces, FindMemberVariable and "super" *)
(* of parseexpr.c, AGetInstanceMember and AIsOfType of runtime.c,          *)
(* FinishCType of module.c.)  A cycle of superclasses is always an error.  *)
(***************************************************************************)
ClassesAreExact ==
    clsPhase = "run" =>
        IF IsCyclic THEN clsT.err /= {}
        ELSE clsT.err = {} => \A t \in ClassNames :
                /\ MembersAreFound(t)
                /\ KindsAgree(t)
                /\ AnswersInterfaces(t)
                /\ TypesAreTold(t)
                /\ InstanceIsMade(t)
                /\ DataIsApart(t)
                /\ FlagsAreRight(t)
                /\ ~DefOf(t).c => /\ NamesAreResolved(t)
                                  /\ CreateSetsVariables(t)
                                  /\ SuperIsResolved(t)

=============================================================================
