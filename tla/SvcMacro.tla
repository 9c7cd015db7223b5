------------------------------ MODULE SvcMacro ------------------------------
(***************************************************************************)
(* #[rpc] (rpc_svc_macro): the attribute's arguments are read one by one,  *)
(* then the annotated item is analysed, a trait member by member.  What    *)
(* the analysis lets through is expanded into code that must compile: a    *)
(* body enum, a client method that fills it, and a dispatch arm that calls *)
(* the user's method from it.  Syntax is abstracted to what the analysis   *)
(* tells apart.                                                            *)
(***************************************************************************)
EXTENDS Paths

CONSTANTS
    Arguments,  \* [name, form, text, list]: attribute arguments
    Members,    \* [kind, name, features, receiver, args, bounds]: of a trait
    Items,      \* kind of item -> sets of the features it may have
    MaxMembers, \* bound on the members of a trait
    MaxDepth    \* bound on how deep types nest

VARIABLES
    phase,      \* "args", "members", "expanded", or "error"
    given,      \* history: the arguments read
    form,       \* RpcArgs_: "none" so far, "service", "interface", "service_of"
    methods     \* [name, args]: the methods analysed

macroVars == <<phase, given, form, methods>>

-----------------------------------------------------------------------------
(* Types: [kind, name, life, mutable, sub], kind one of "path", "ref",     *)
(* "slice", "forall".                                                      *)

\* The types below some types, n levels down, and the parts of a type.
Below(types) == UNION { { ty.sub[n] : n \in DOMAIN ty.sub } : ty \in types }
Level(ty) ==
    LET level[n \in 0 .. MaxDepth] == IF n = 0 THEN {ty} ELSE Below(level[n - 1]) IN level
Parts(ty) == UNION { Level(ty)[n] : n \in 0 .. MaxDepth }

Path(name, sub) == [kind |-> "path", name |-> name, life |-> "", mutable |-> FALSE, sub |-> sub]
RefTo(ty) == [kind |-> "ref", name |-> "", life |-> "", mutable |-> FALSE, sub |-> <<ty>>]

U8 == Path("u8", << >>)
StringType == Path("String", << >>)
VecU8 == Path("Vec", <<U8>>)
Scalars == {"u8", "u64", "bool", "char", "f64"}

\* Texts are texts, no type nests deeper than the bound, and what is known
\* by a name that takes no arguments has none.
ASSUME MacroAssumption ==
    /\ MaxDepth \in Nat
    /\ \A arg \in Arguments : arg.text \in Seq(Chars)
    /\ \A member \in Members : \A n \in DOMAIN member.args :
          LET ty == member.args[n].type IN
          /\ Below(Level(ty)[MaxDepth]) = {}
          /\ ty.kind = "ref" /\ ty.sub[1].kind = "path" /\ ty.sub[1].name \in {"str", "String"} \cup Scalars
             => ty.sub[1] = Path(ty.sub[1].name, << >>)

ContainsNonStaticLifetime(ty) == \E p \in Parts(ty) : p.life \notin {"", "static"}
ContainsReference(ty) == \E p \in Parts(ty) : p.kind = "ref"
HasBoundLifetimes(ty) == \E p \in Parts(ty) : p.kind = "forall"

\* What a top-level borrow becomes in the enum, and how the client makes it.
BorrowedAnyVec(inner) ==
    CASE inner.kind = "path" /\ inner.name = "str" -> {[owned |-> StringType, convert |-> "ToString"]}
      [] inner.kind = "path" /\ inner.name = "String" -> {[owned |-> StringType, convert |-> "Clone"]}
      [] inner.kind = "path" /\ inner.name \in Scalars -> {[owned |-> inner, convert |-> "Deref"]}
      [] inner.kind = "path" /\ inner.name = "Vec" -> {[owned |-> VecU8, convert |-> "Clone"]}
      [] inner.kind = "slice" /\ inner.sub = <<U8>> -> {[owned |-> VecU8, convert |-> "ToVec"]}
      [] OTHER -> {}
BorrowedToOwned(inner) ==
    CASE inner.kind = "path" /\ inner.name = "str" -> {[owned |-> StringType, convert |-> "ToString"]}
      [] inner.kind = "path" /\ inner.name = "String" -> {[owned |-> StringType, convert |-> "Clone"]}
      [] inner.kind = "path" /\ inner.name \in Scalars -> {[owned |-> inner, convert |-> "Deref"]}
      [] inner = VecU8 -> {[owned |-> VecU8, convert |-> "Clone"]}
      [] inner.kind = "slice" /\ inner.sub = <<U8>> -> {[owned |-> VecU8, convert |-> "ToVec"]}
      [] OTHER -> {}

\* ArgModel_ and MethodModel_.
ArgModel(owned, isRef, convert) == [owned |-> owned, isRef |-> isRef, convert |-> convert]
MethodModel(name, args) == [name |-> name, args |-> args]

\* The model of an argument, or nothing if it is refused.
AnalyzeArg(ty) ==
    IF ty.kind = "ref"
    THEN { ArgModel(b.owned, TRUE, b.convert) :
             b \in { b \in BorrowedToOwned(ty.sub[1]) : /\ ~ty.mutable /\ ty.life # "static"
                                                        /\ ~HasBoundLifetimes(ty) } }
    ELSE { ArgModel(t, FALSE, "None") :
             t \in { t \in {ty} : /\ ~HasBoundLifetimes(t)
                                  /\ ~ContainsNonStaticLifetime(t)
                                  /\ ~ContainsReference(t) } }

\* What a TrMayCancel bound may have for its output.
SuccessTypes == {"RpcResult<T>", "Result<T, RpcError>"}

\* One TrMayCancel bound, whose output has a success type; other bounds are
\* kept.
ReturnTypeIsFine(bounds) ==
    /\ Cardinality({ n \in DOMAIN bounds : bounds[n] # "other" }) = 1
    /\ \A n \in DOMAIN bounds : bounds[n] \in SuccessTypes \cup {"other"}

\* One receiver, &self or self: &Self.
ReceiverIsFine(receivers) == receivers \in { <<"&self">>, <<"self: &Self">> }

MethodRefused == {"async", "const", "unsafe", "extern", "type parameter", "const parameter"}

AnalyzeMethod(member) ==
    LET fine == /\ member.features \cap MethodRefused = {}
                /\ ReceiverIsFine(member.receivers)
                /\ \A n \in DOMAIN member.args :
                      member.args[n].plain /\ AnalyzeArg(member.args[n].type) # {}
                /\ ReturnTypeIsFine(member.bounds)
    IN { MethodModel(m.name, [n \in DOMAIN m.args |->
             [name |-> m.args[n].name, declared |-> m.args[n].type,
              model |-> CHOOSE a \in AnalyzeArg(m.args[n].type) : TRUE]]) :
         m \in { m \in {member} : fine } }

-----------------------------------------------------------------------------
(* The attribute's arguments.                                              *)

ValidatePathLoosely(text) ==
    /\ text # << >> /\ text[1] # Slash
    /\ \A n \in 1 .. Len(text) - 1 : SubSeq(text, n, n + 1) # <<Slash, Slash>>
    /\ " " \notin ToSet(text)
ValidatePath(text) ==
    /\ text # << >> /\ text[1] # Slash /\ text[Len(text)] # Slash
    /\ \A n \in 1 .. Len(text) - 1 : SubSeq(text, n, n + 1) # <<Slash, Slash>>
    /\ " " \notin ToSet(text)

\* A list of one or more plain paths, none of them twice.
ParseServices(arg) ==
    /\ arg.form = "array" /\ arg.list # << >>
    /\ \A n \in DOMAIN arg.list : arg.list[n] # "generic"
    /\ IsInjective(arg.list)

ParseServiceOf(arg) == arg.form = "list" /\ Len(arg.list) = 1

ArgIsFine(arg) ==
    CASE arg.name \in {"service", "path"} -> arg.form = "string" /\ ValidatePath(arg.text)
      [] arg.name = "services" -> ParseServices(arg)
      [] arg.name = "service_of" -> ParseServiceOf(arg)
      [] OTHER -> FALSE

Names(args) == { args[n].name : n \in DOMAIN args }

\* parse_rpc_args_, one turn of its loop.
ReadArg(arg) ==
    /\ phase = "args"
    /\ given' = Append(given, arg)
    /\ phase' = IF arg.name \notin Names(given) /\ ArgIsFine(arg) THEN "args" ELSE "error"
    /\ UNCHANGED <<form, methods>>

\* What the arguments make together.
FormOfFirst(names) ==
    CASE "service" \in names -> "service"
      [] {"path", "services"} \subseteq names -> "interface"
      [] "service_of" \in names -> "service_of"
      [] OTHER -> "none"
FormOf(names) ==
    CASE names = {"service"} -> "service"
      [] names = {"path", "services"} -> "interface"
      [] names = {"service_of"} -> "service_of"
      [] OTHER -> "none"

ItemOf == [service |-> "trait", interface |-> "struct", service_of |-> "impl"]
RefusedTrait == {"unsafe", "auto", "type parameter", "where"}
RefusedStruct == {"type parameter", "where", "fields"}
RefusedImpl == {"unsafe", "default", "no trait", "negative", "trait arguments",
                "type parameter", "where"}
Refused == [trait |-> RefusedTrait, struct |-> RefusedStruct, impl |-> RefusedImpl]

\* The arguments are all read, and an item of some kind is below them.
ReadItem(kind, features) ==
    /\ phase = "args"
    /\ form' = FormOf(Names(given))
    /\ phase' = IF form' = "none" THEN "error"
                ELSE IF kind # ItemOf[form'] \/ features \cap Refused[kind] # {} THEN "error"
                ELSE IF form' = "service" THEN "members" ELSE "expanded"
    /\ UNCHANGED <<given, methods>>

-----------------------------------------------------------------------------
(* The members of a service trait.                                         *)

\* The last name stands for every name that begins with __rpc_.
MemberRefused(member) ==
    CASE member.kind = "const" -> member.name = "SERVICE_PATH" \/ "default" \notin member.features
      [] member.kind = "type" -> "default" \notin member.features
      [] member.kind = "fn" -> member.name = "__rpc_dispatch_async" \/ AnalyzeMethod(member) = {}
      [] OTHER -> TRUE

\* (The compiler itself refuses a trait with a name twice.)
ReadMember(member) ==
    /\ phase = "members" /\ Len(methods) < MaxMembers
    /\ member.name \notin Names(methods)
    /\ phase' = IF MemberRefused(member) THEN "error" ELSE "members"
    /\ methods' = IF MemberRefused(member) \/ member.kind # "fn" THEN methods
                  ELSE Append(methods, CHOOSE m \in AnalyzeMethod(member) : TRUE)
    /\ UNCHANGED <<given, form>>

EndOfTrait ==
    /\ phase = "members"
    /\ phase' = IF methods = << >> THEN "error" ELSE "expanded"
    /\ UNCHANGED <<given, form, methods>>

-----------------------------------------------------------------------------
MacroInit == phase = "args" /\ given = << >> /\ form = "none" /\ methods = << >>

MacroNext ==
    \/ \E arg \in Arguments : ReadArg(arg)
    \/ \E kind \in DOMAIN Items : \E features \in Items[kind] : ReadItem(kind, features)
    \/ \E member \in Members : ReadMember(member)
    \/ EndOfTrait

MacroSpec == MacroInit /\ [][MacroNext]_macroVars

-----------------------------------------------------------------------------
(* The generated code, as the compiler sees it.                            *)

\* The type of the client's expression for an enum field (convert_expr_).
ConvertExpr(convert, declared) ==
    CASE convert = "None" -> declared
      [] convert = "ToString" -> StringType
      [] convert = "ToVec" -> Path("Vec", declared.sub[1].sub)
      [] convert \in {"Clone", "Deref"} -> declared.sub[1]

\* The type of the dispatch arm's expression for the method's argument.
CallArg(model) == IF model.isRef THEN RefTo(model.owned) ELSE model.owned

\* A value of the one type may be given for the other.
Coerces(from, to) ==
    \/ from = to
    \/ /\ from.kind = "ref" /\ to.kind = "ref"
       /\ LET f == from.sub[1]  t == to.sub[1] IN
             \/ f = t
             \/ f = StringType /\ t = Path("str", << >>)
             \/ f.kind = "path" /\ f.name = "Vec" /\ t.kind = "slice" /\ f.sub = t.sub

\* Two separate rules make the client's and the server's half of an
\* argument; whatever types are accepted, the halves fit the declared type
\* and each other, and the enum both derive their codec for is owned.
HalvesFit ==
    \A n \in DOMAIN methods : \A k \in DOMAIN methods[n].args :
        LET a == methods[n].args[k] IN
        /\ ConvertExpr(a.model.convert, a.declared) = a.model.owned
        /\ Coerces(CallArg(a.model), a.declared)
        /\ ~ContainsReference(a.model.owned) /\ ~ContainsNonStaticLifetime(a.model.owned)

\* The attribute is understood in one of three ways exactly when its
\* arguments are, in any order, those of that way and each is fine.
WellFormed(args) ==
    /\ Cardinality(Names(args)) = Len(args)
    /\ \A n \in DOMAIN args : ArgIsFine(args[n])
    /\ \/ Len(args) = 1 /\ Names(args) # {"path"} /\ Names(args) # {"services"}
       \/ Len(args) = 2 /\ Names(args) = {"path", "services"}
ArgumentsDecide == phase # "args" => (form # "none" <=> WellFormed(given))

\* An interface path and a service path the macro lets through make, joined
\* by the client (concat_location), a location that both kinds of router
\* take apart into the same two again.
PathsComeApart ==
    \A i \in { given[n].text : n \in { n \in DOMAIN given : form = "interface" /\ given[n].name = "path" } } :
        \A s \in { a.text : a \in { a \in Arguments : a.name = "service" /\ ArgIsFine(a) } } :
            LET location == ConcatLocation(i, s) IN
            /\ StripInterfacePrefix(i, location) = {s}
            /\ PathPrefixLen(s, s) = {Len(s)}
            /\ Split(location) = Split(i) \o Split(s) /\ Canonical(location)
=============================================================================
