------------------------------- MODULE Linker --------------------------------
(***************************************************************************)
(* completeUIDs (internal/compiler/compiler.go), what collect takes from a *)
(* module, and link (internal/compiler/linker_microglot.go) over the walk  *)
(* of a module (internal/compiler/walk.go).                                *)
(*                                                                         *)
(* A module is [uri, package, imports, structs, enums, apis, constants];   *)
(*   struct    [name, uid, fields, unions, synthetic, comment, promoted]   *)
(*   field     [name, type, union, optional3, comment]                     *)
(*   enum      [name, uid, enumerants, fromProto]                          *)
(*   api       [name, uid, methods], a method [name, input, output]        *)
(*   constant  [name, uid, type, value]                                    *)
(*   import    [uri, alias, dot].                                          *)
(* UIDs are hashes, of the URI for a module and of the module's UID and    *)
(* the name for a type: the URI and the name stand for them.  A resolved   *)
(* reference is [module, path], the path of an attribute has two names.    *)
(***************************************************************************)
EXTENDS FromProto, SymbolTable

CONSTANT Builtins      \* the names of the built-in types

Builtin == "builtin"   \* their module, which has the UID zero
ProtobufURI == "/protobuf.mglot"

-----------------------------------------------------------------------------
(* UIDs and symbols.                                                       *)

\* A UID is that of the name, unless the source has one.
CompleteTypeReference(declaration) ==
    IF declaration.uid = "" THEN [declaration EXCEPT !.uid = declaration.name] ELSE declaration

CompleteUIDs(module) ==
    LET Completed(s) == [i \in DOMAIN s |-> CompleteTypeReference(s[i])]
    IN  [module EXCEPT !.structs = Completed(@), !.enums = Completed(@),
                       !.apis = Completed(@), !.constants = Completed(@)]

\* What collect reads of a module, in its order.
Attribute(name) == [name |-> name, uid |-> name, inputs |-> << >>]
NamesOf(s) == [i \in DOMAIN s |-> Attribute(s[i].name)]
Symbols(module) ==
    LET Typed(s, attributes(_)) ==
            [i \in DOMAIN s |-> [name |-> s[i].name, uid |-> s[i].uid,
                                 attributes |-> attributes(s[i])]]
    IN  [uri   |-> module.uri,
         uid   |-> module.uri,
         pkg   |-> module.package,
         types |-> Typed(module.structs,
                         LAMBDA s : NamesOf(s.fields)
                                      \o [i \in DOMAIN s.unions |-> Attribute(s.unions[i])])
                   \o Typed(module.enums,
                            LAMBDA e : [i \in DOMAIN e.enumerants |-> Attribute(e.enumerants[i])])
                   \o Typed(module.apis, LAMBDA a : NamesOf(a.methods))
                   \o Typed(module.constants, LAMBDA c : << >>)]

-----------------------------------------------------------------------------
(* The local symbol table: references by qualifier and the names after it. *)

Symbol(qualifier, names) == [qualifier |-> qualifier, names |-> names]

\* The symbols of a module under an alias.
Aliased(gsymbols, uri, alias) ==
    LET paths == {<<e.name>> : e \in {d \in gsymbols.types : d.uri = uri}}
                 \cup {<<e.type, e.name>> : e \in {d \in gsymbols.attributes : d.uri = uri}}
    IN  [k \in {Symbol(alias, path) : path \in paths} |-> [module |-> uri, path |-> k.names]]

\* A later alias replaces what an earlier one has put there.
Alias(local, gsymbols, uri, alias, dot) ==
    Aliased(gsymbols, uri, IF dot THEN "" ELSE alias) @@ local

NewLocalSymbols(gsymbols, uri) ==
    LET builtins == [k \in {Symbol("", <<b>>) : b \in Builtins} |->
                       [module |-> Builtin, path |-> k.names]]
    IN  Alias(Alias(builtins, gsymbols, ProtobufURI, "Protobuf", FALSE),
              gsymbols, uri, "", FALSE)

LocalSymbols(gsymbols, module) ==
    FoldLeft(LAMBDA local, i : Alias(local, gsymbols, i.uri, i.alias, i.dot),
             NewLocalSymbols(gsymbols, module.uri), module.imports)

ImportsKnown(gsymbols, module) == \A i \in ToSet(module.imports) : i.uri \in gsymbols.uris

-----------------------------------------------------------------------------
(* References.                                                             *)

Unresolved == [module |-> "", path |-> << >>]

\* Mutant of ResolveProtobuf: nested types are not looked for.
ResolveUnpromoted(local, gsymbols, package, promoted, ref) ==
    LET found == PackageSearch(gsymbols, package, ref)
        short == Symbol("", <<ref.base>>)
    IN  IF found # {} THEN LET e == CHOOSE e \in found : TRUE
                           IN  [module |-> e.uri, path |-> <<e.name>>]
        ELSE IF ~ref.absolute /\ ref.qualifier = << >> /\ short \in DOMAIN local
        THEN local[short]
        ELSE Unresolved

\* A promoted name instead of the nested one, then the packages, then, for a name
\* without dots, the local symbols, which are where the built-in types are.
ResolveProtobuf(local, gsymbols, package, promoted, ref) ==
    LET simple == ~ref.absolute /\ ref.qualifier = << >>
        name   == IF simple /\ ref.base \in DOMAIN promoted
                  THEN [ref EXCEPT !.base = promoted[ref.base]] ELSE ref
        found  == PackageSearch(gsymbols, package, name)
        short  == Symbol("", <<name.base>>)
    IN  IF found # {} THEN LET e == CHOOSE e \in found : TRUE
                           IN  [module |-> e.uri, path |-> <<e.name>>]
        ELSE IF simple /\ short \in DOMAIN local THEN local[short]
        ELSE Unresolved

Resolved(reference, parameters) ==
    [kind |-> "resolved", reference |-> reference, parameters |-> parameters]

\* Parameters are linked before what has them; what is not found stays.
RECURSIVE LinkType(_, _, _, _, _)
LinkType(local, gsymbols, package, promoted, type) ==
    CASE type.kind = "microglot" ->
            LET key == Symbol(type.qualifier, <<type.name>>)
                parameters == [i \in DOMAIN type.parameters |->
                                 LinkType(local, gsymbols, package, promoted, type.parameters[i])]
            IN  IF key \in DOMAIN local THEN Resolved(local[key], parameters)
                ELSE [type EXCEPT !.parameters = parameters]
      [] type.kind = "protobuf" ->
            LET reference == ResolveProtobuf(local, gsymbols, package, promoted, type.ref)
            IN  IF reference # Unresolved THEN Resolved(reference, << >>) ELSE type
      [] OTHER -> type

\* The whole name without a qualifier, or the first of several as one.
LinkIdentifier(local, names) ==
    LET keys  == {Symbol("", names)} \cup
                   (IF Len(names) > 1 THEN {Symbol(Head(names), Tail(names))} ELSE {})
        known == keys \cap DOMAIN local
    IN  IF known = {} THEN Unresolved
        ELSE IF Symbol("", names) \in known THEN local[Symbol("", names)]
        ELSE local[Symbol(Head(names), Tail(names))]

\* Operands are walked; the elements of lists and the fields of structs are not.
RECURSIVE LinkValue(_, _)
LinkValue(local, value) ==
    CASE value.kind = "identifier" -> [value EXCEPT !.reference = LinkIdentifier(local, value.names)]
      [] value.kind = "operation"  ->
            [value EXCEPT !.operands = [i \in DOMAIN @ |-> LinkValue(local, @[i])]]
      [] OTHER -> value

-----------------------------------------------------------------------------
(* A module.                                                               *)

\* Mutant of PromotedAt: the table is that of the first struct.
PromotedAtFirst(module, i) == module.structs[1].promoted

\* The table of promoted names at the i-th struct.
PromotedAt(module, i) == module.structs[i].promoted

\* After the structs it is still the last one's.
PromotedAfter(module) ==
    IF module.structs = << >> THEN << >> ELSE Last(module.structs).promoted

\* The module with what could be linked.
LinkModule(gsymbols, module) ==
    LET local == LocalSymbols(gsymbols, module)
        Type(promoted, type) == LinkType(local, gsymbols, module.package, promoted, type)
        Struct(i) == [module.structs[i] EXCEPT
                         !.fields = [k \in DOMAIN @ |->
                            [@[k] EXCEPT !.type = Type(PromotedAt(module, i), @)]]]
        API(a) == [a EXCEPT
                     !.methods = [k \in DOMAIN @ |->
                        [@[k] EXCEPT !.input  = Type(PromotedAfter(module), @),
                                     !.output = Type(PromotedAfter(module), @)]]]
        Constant(c) == [c EXCEPT !.type = Type(PromotedAfter(module), @),
                                 !.value = LinkValue(local, @)]
    IN  [module EXCEPT
           !.structs   = [i \in DOMAIN @ |-> Struct(i)],
           !.apis      = [i \in DOMAIN @ |-> API(@[i])],
           !.constants = [i \in DOMAIN @ |-> Constant(@[i])]]

\* Nothing the walk has come to is without a reference.
RECURSIVE TypeLinked(_)
TypeLinked(type) == type.kind = "resolved" /\ \A t \in ToSet(type.parameters) : TypeLinked(t)

RECURSIVE ValueLinked(_)
ValueLinked(value) ==
    CASE value.kind = "identifier" -> value.reference # Unresolved
      [] value.kind = "operation"  -> \A v \in ToSet(value.operands) : ValueLinked(v)
      [] OTHER -> TRUE

ModuleLinked(module) ==
    /\ \A s \in ToSet(module.structs) : \A f \in ToSet(s.fields) : TypeLinked(f.type)
    /\ \A a \in ToSet(module.apis) : \A m \in ToSet(a.methods) :
          TypeLinked(m.input) /\ TypeLinked(m.output)
    /\ \A c \in ToSet(module.constants) : TypeLinked(c.type) /\ ValueLinked(c.value)

\* link() reports nothing.
Links(gsymbols, module) ==
    /\ ImportsKnown(gsymbols, module)
    /\ ModuleLinked(LinkModule(gsymbols, module))
=============================================================================
