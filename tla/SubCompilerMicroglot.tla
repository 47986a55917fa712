------------------------ MODULE SubCompilerMicroglot --------------------------
(***************************************************************************)
(* SubCompilerMicroglot.CompileFile                                        *)
(* (internal/compiler/subcompiler_microglot.go): parse the tokens of a     *)
(* file, then make a descriptor of what the parser returned.               *)
(***************************************************************************)
EXTENDS Parser, Descriptor

VARIABLES
  outcome,  \* "none", "parse failure", "error", "module", "panic"
  module    \* the descriptor

vars == <<parserVars, outcome, module>>

NoModule == [uid |-> 0]

Init == ParserInit /\ outcome = "none" /\ module = NoModule

Parse == ParserNext /\ UNCHANGED <<outcome, module>>

\* The parser's nil.
ParseFailure ==
    /\ pc = "failed" /\ outcome = "none"
    /\ outcome' = "parse failure"
    /\ UNCHANGED <<parserVars, module>>

\* Whether anything was reported is not looked at.
ConvertPanic ==
    /\ pc = "parsed" /\ outcome = "none" /\ Panics(Tree)
    /\ outcome' = "panic"
    /\ UNCHANGED <<parserVars, module>>

\* A package that is derived from the URI fails with a URI that url.Parse refuses.
Outcomes(descriptor) ==
    CASE IsError(descriptor) -> {"error"}
      [] ~IsError(descriptor) /\ descriptor.package.kind = "derived" -> {"module", "error"}
      [] OTHER -> {"module"}

Convert ==
    /\ pc = "parsed" /\ outcome = "none" /\ ~Panics(Tree)
    /\ module' = FromModule(Tree)
    /\ outcome' \in Outcomes(module')
    /\ UNCHANGED parserVars

Next == Parse \/ ParseFailure \/ ConvertPanic \/ Convert

Spec == Init /\ [][Next]_vars /\ WF_vars(Next)

-----------------------------------------------------------------------------
Adjacent(s, t) == \E i \in 1..(Len(tokens) - 1) : tokens[i] \in s /\ tokens[i + 1] \in t

Done == outcome # "none" \/ pc = "loops"

\* The conversion of a nil element comes only after a report; but a union without a
\* name, and a field with the one number that is not a UID, panic without.
BrokenAfterReport ==
    outcome = "panic" => reported \/ Adjacent({"union"}, {"{"}) \/ Uses({"Incomplete"})

Ascending(members) == \A i, j \in DOMAIN members : i < j => members[i].name < members[j].name

Under(n, rule) == {k \in ToSet(n.kids) : k.rule = rule}
Members(n)     == {k.kids[1] : k \in Under(n, "StructElement")}

\* The fields of an element of a struct, each with the name of its union or with 0.
FieldsIn(e) ==
    IF e.rule = "Field" THEN {<<NameOf(e), 0>>}
    ELSE {<<NameOf(f), NameOf(e)>> : f \in Under(e, "UnionField")}
UnionsIn(e) == IF e.rule = "Union" THEN {NameOf(e)} ELSE {}

DescribedFields(s) ==
    {<<f.name, IF f.union = 0 THEN 0 ELSE s.unions[f.union].name>> : f \in ToSet(s.fields)}
DescribedUnions(s) == {u.name : u \in ToSet(s.unions)}

\* The struct s describes the node n.
Describes(s, n) ==
    /\ Ascending(s.fields) /\ Ascending(s.unions)
    /\ DescribedFields(s) = UNION {FieldsIn(e) : e \in Members(n)}
    /\ DescribedUnions(s) = UNION {UnionsIn(e) : e \in Members(n)}
    /\ \A f \in ToSet(s.fields) : f.union # 0 =>
          /\ s.unions[f.union].name < f.name
          /\ f.union < Len(s.unions) => f.name < s.unions[f.union + 1].name

\* Each field and each union of each struct comes once, in the order they are
\* written in and no other; a field has the union it is written in, between that
\* union's name and the next one's, and none if it is written in none.
FieldsInTheirUnions ==
    outcome = "module" =>
       LET structs == Kids(Tree, "StatementStruct") IN
       /\ DOMAIN module.structs = DOMAIN structs
       /\ \A i \in DOMAIN structs : Describes(module.structs[i], structs[i])

\* A module comes to an end, or the parser is in a loop without one.
Ends == <>Done

=============================================================================
