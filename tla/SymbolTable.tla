----------------------------- MODULE SymbolTable -----------------------------
(***************************************************************************)
(* The global symbol table (internal/compiler/symbol_table.go): what       *)
(* globalSymbolTable.collect does to the table for one parsed module, what *)
(* it reports, and what packageSearch finds.  This module has no state:    *)
(* Collecting and Compile hold the table in a variable of their own and    *)
(* take one call of collect, which runs under s.lock, as one step.         *)
(*                                                                         *)
(* A parsed module is a record                                             *)
(*   [uri, uid, pkg, types]                                                *)
(* where types is the sequence of its declarations in the order collect    *)
(* visits them (structs, enums, APIs, SDKs, annotations, constants).  A    *)
(* declaration is [name, uid, attributes], an attribute (field, union,     *)
(* enumerant, method) is [name, uid, inputs], an input is [name, uid];     *)
(* kinds without attributes or inputs have empty sequences.  A protobuf    *)
(* package is the sequence of its segments.                                *)
(*                                                                         *)
(* The maps of the table are kept as sets of entries: uris is the common   *)
(* key set of types, attributes and inputs (collect creates the three      *)
(* entries together), the others are the sets of their entries.            *)
(***************************************************************************)
EXTENDS Naturals, Sequences

EmptyTable == [uris |-> {}, modules |-> {}, types |-> {},
               attributes |-> {}, inputs |-> {}]

\* An exception of the Reporter, without its text.
Report(code, uri) == [code |-> code, uri |-> uri]

\* Some element of s repeats an earlier one under the view v.
Repeats(s, v(_)) == \E i, j \in DOMAIN s : i < j /\ v(s[i]) = v(s[j])

NameOf(d) == d.name
UidOf(d)  == d.uid

-----------------------------------------------------------------------------
(* The checks of collect that compare a module with the table.             *)

AlreadyCollected(t, m) == m.uri \in t.uris

ModuleUIDTaken(t, m) == \E other \in t.modules : other.uid = m.uid

\* Mutant of PackageNameTaken: packages are not compared.
PackageNameTakenAnywhere(t, m) ==
    \E i \in DOMAIN m.types : \E other \in t.modules :
       [uri |-> other.uri, name |-> m.types[i].name] \in t.types

\* Mutant of PackageNameTaken: the names are looked up in the module's own file.
PackageNameTakenHere(t, m) ==
    \E i \in DOMAIN m.types : [uri |-> m.uri, name |-> m.types[i].name] \in t.types

\* Every name is compared with the modules of the same protobuf package that
\* s.modules holds, the module itself included.
PackageNameTaken(t, m) ==
    \E i \in DOMAIN m.types : \E other \in t.modules :
       /\ other.pkg = m.pkg
       /\ [uri |-> other.uri, name |-> m.types[i].name] \in t.types

(* The checks inside one module.                                           *)

\* addSDKMethodInput looks the method's attribute UID up among the input UIDs
\* seen so far: two inputs with one UID go unnoticed.
InputUIDClash(method) ==
    \E i, j \in DOMAIN method.inputs :
       i < j /\ method.inputs[i].uid = method.uid

UIDClash(m) ==
    \/ Repeats(m.types, UidOf)
    \/ \E i \in DOMAIN m.types :
          \/ Repeats(m.types[i].attributes, UidOf)
          \/ \E k \in DOMAIN m.types[i].attributes :
                InputUIDClash(m.types[i].attributes[k])

\* Mutant of NameClash: the inputs of a method are not compared.
NameClashNoInputs(m) ==
    \/ Repeats(m.types, NameOf)
    \/ \E i \in DOMAIN m.types : Repeats(m.types[i].attributes, NameOf)

\* Attributes are filed under the name of their type, so the attributes of two
\* types of one name share an entry.
NameClash(m) ==
    \/ Repeats(m.types, NameOf)
    \/ \E i \in DOMAIN m.types :
          \/ Repeats(m.types[i].attributes, NameOf)
          \/ \E k \in DOMAIN m.types[i].attributes :
                Repeats(m.types[i].attributes[k].inputs, NameOf)

-----------------------------------------------------------------------------
(* One call of collect.                                                    *)

TypesOf(m) == {[uri |-> m.uri, name |-> m.types[i].name] : i \in DOMAIN m.types}

AttributesOf(m) ==
    UNION {{[uri |-> m.uri, type |-> m.types[i].name,
             name |-> m.types[i].attributes[k].name]
               : k \in DOMAIN m.types[i].attributes} : i \in DOMAIN m.types}

InputsOf(m) ==
    UNION {UNION {{[uri |-> m.uri, type |-> m.types[i].name,
                    method |-> m.types[i].attributes[k].name,
                    name |-> m.types[i].attributes[k].inputs[n].name]
                      : n \in DOMAIN m.types[i].attributes[k].inputs}
                 : k \in DOMAIN m.types[i].attributes} : i \in DOMAIN m.types}

\* What collect reports for m, given the table.  The first two checks return at
\* once; the others run to the end of the module.
CollectReports(t, m) ==
    IF AlreadyCollected(t, m) THEN {Report("AlreadyCollected", m.uri)}
    ELSE IF ModuleUIDTaken(t, m) THEN {Report("UIDCollision", m.uri)}
    ELSE {r \in {Report("UIDCollision", m.uri)} : UIDClash(m)}
           \cup {r \in {Report("NameCollision", m.uri)} :
                     NameClash(m) \/ PackageNameTaken(t, m)}

\* Mutant of CollectTable: the maps of symbols are made anew for each module.
CollectTableAnew(t, m) ==
    IF AlreadyCollected(t, m) THEN t
    ELSE [uris       |-> t.uris \cup {m.uri},
          modules    |-> t.modules \cup
                           {[uri |-> m.uri, uid |-> m.uid, pkg |-> m.pkg]},
          types      |-> t.types \cup TypesOf(m),
          attributes |-> AttributesOf(m),
          inputs     |-> InputsOf(m)]

\* The table after the call.  A second collection leaves it alone; a taken
\* module UID leaves an entry without symbols and without a module.
CollectTable(t, m) ==
    IF AlreadyCollected(t, m) THEN t
    ELSE IF ModuleUIDTaken(t, m)
    THEN [uris       |-> t.uris \cup {m.uri},
          modules    |-> t.modules,
          types      |-> t.types,
          attributes |-> t.attributes,
          inputs     |-> t.inputs]
    ELSE [uris       |-> t.uris \cup {m.uri},
          modules    |-> t.modules \cup
                           {[uri |-> m.uri, uid |-> m.uid, pkg |-> m.pkg]},
          types      |-> t.types \cup TypesOf(m),
          attributes |-> t.attributes \cup AttributesOf(m),
          inputs     |-> t.inputs \cup InputsOf(m)]

\* collect fails when anything was ever reported to the Reporter, by this call
\* or by any other goroutine before it.
CollectFails(t, m, reported) ==
    \/ AlreadyCollected(t, m)
    \/ ModuleUIDTaken(t, m)
    \/ reported \cup CollectReports(t, m) # {}

-----------------------------------------------------------------------------
(* packageSearch(pkg, name): a name is [absolute, qualifier, base], where  *)
(* absolute stands for a leading dot and qualifier is a package path.      *)

\* The packages that enclose pkg, from the root inwards.
Enclosing(pkg) == [i \in 1..(Len(pkg) + 1) |-> SubSeq(pkg, 1, i - 1)]

\* The order of the search: outermost first for a leading dot, else innermost.
SearchOrder(pkg, absolute) ==
    LET outwards == [i \in 1..(Len(pkg) + 1) |-> Enclosing(pkg)[Len(pkg) + 2 - i]]
    IN  IF absolute THEN Enclosing(pkg) ELSE outwards

\* The entries of the table that declare base in package p.  The code takes
\* the first one its iteration over a Go map meets: any of them.
DeclaredIn(t, p, base) ==
    {e \in t.types : /\ e.name = base
                     /\ \E m \in t.modules : m.uri = e.uri /\ m.pkg = p}

\* The answers packageSearch can give; none when the name is unknown.
PackageSearch(t, pkg, name) ==
    LET order == SearchOrder(pkg, name.absolute)
        At(i) == DeclaredIn(t, order[i] \o name.qualifier, name.base)
    IN  UNION {At(i) : i \in {k \in DOMAIN order :
                                 At(k) # {} /\ \A j \in 1..(k - 1) : At(j) = {}}}
=============================================================================
