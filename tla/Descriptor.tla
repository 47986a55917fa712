----------------------------- MODULE Descriptor ------------------------------
(***************************************************************************)
(* FromModule and the functions it calls                                   *)
(* (internal/compiler/microglot/descriptor_microglot.go): the descriptor   *)
(* of a module, made of the nodes that the parser returns.  What becomes   *)
(* of types and values, which are in themselves, is in Expressions.        *)
(*                                                                         *)
(* A name, and a text, is where it is written: the number of its token.    *)
(***************************************************************************)
EXTENDS ParserRules, SequencesExt, Values

CONSTANTS
  TypeFrom(_),  \* fromTypeSpecifier
  ValueFrom(_)  \* fromValue

\* The nodes and tokens under a node.
KidsOf(n, rules) ==
    LET kids[i \in 0..Len(n.kids)] ==
          IF i = 0 THEN << >>
          ELSE IF n.kids[i].rule \in rules THEN Append(kids[i - 1], n.kids[i])
          ELSE kids[i - 1]
    IN  kids[Len(n.kids)]

\* The first of them.
KidOf(n, rules) ==
    n.kids[CHOOSE i \in DOMAIN n.kids :
             /\ n.kids[i].rule \in rules
             /\ \A j \in 1..(i - 1) : n.kids[j].rule \notin rules]

Kids(n, rule) == KidsOf(n, {rule})
Kid(n, rule)  == KidOf(n, {rule})
Has(n, rule)  == \E i \in DOMAIN n.kids : n.kids[i].rule = rule
NameOf(n)     == KidOf(n, Identifiers).at

\* A part that may be absent, and what it becomes.
None == [none |-> TRUE]
Optional(n, rule, From(_)) == IF Has(n, rule) THEN From(Kid(n, rule)) ELSE None

\* mapFrom; by a function, so that TLC evaluates a node once.
MapFrom(nodes, From(_)) ==
    LET from == [n \in ToSet(nodes) |-> From(n)]
    IN  [i \in DOMAIN nodes |-> from[nodes[i]]]

\* The largest UID stands for the ones that are to be completed.
Incomplete == Highest("UInt", 64)

NumberOf == [Zero |-> 0, One |-> 1, Two |-> 2, Incomplete |-> Incomplete]
Number(literal) == NumberOf[literal.kids[1].rule]
FromUID(uid)    == Number(Kid(uid, "ValueLiteralInt"))

\* The UID of a declaration is the one that is written, or to be completed.
FromTypeUID(n) == IF Has(n, "UID") THEN FromUID(Kid(n, "UID")) ELSE Incomplete

TypeOf(n)       == TypeFrom(Kid(n, "TypeSpecifier"))
ValueOf(n)      == ValueFrom(Kid(n, "Value"))
TypeNameOf(n)   == NameOf(Kid(n, "TypeName"))
ParametersOf(n) == MapFrom(Kids(Kid(n, "TypeName"), "TypeSpecifier"), TypeFrom)

-----------------------------------------------------------------------------

\* The comments of a block, one line for each.
FromCommentBlock(n) == [i \in DOMAIN n.kids |-> n.kids[i].at]

\* An annotation is referred to like a type without parameters.
FromAnnotationInstance(n) ==
    LET names == KidsOf(n, Identifiers)
    IN  [qualifier |-> IF Len(names) = 2 THEN names[1].at ELSE 0,
         name      |-> Last(names).at,
         package   |-> Len(names) = 2 /\ names[1].rule = "Protobuf" /\ names[2].rule = "Package",
         value     |-> ValueOf(n)]

FromAnnotationApplication(n) ==
    IF Has(n, "AnnotationApplication")
    THEN MapFrom(Kids(Kid(n, "AnnotationApplication"), "AnnotationInstance"), FromAnnotationInstance)
    ELSE << >>

\* The metadata of a declaration.
FromMetadata(n) ==
    LET meta == Kid(n, "Metadata")
    IN  [uid |-> FromTypeUID(meta), comments |-> Optional(meta, "CommentBlock", FromCommentBlock),
         annotations |-> FromAnnotationApplication(meta)]

-----------------------------------------------------------------------------

FromImport(n) ==
    [uri |-> Kid(n, "ValueLiteralText").at, isDot |-> Has(n, "."), alias |-> n.kids[4].at,
     comments |-> Optional(n, "CommentBlock", FromCommentBlock)]

FromAnnotation(n) ==
    [name |-> NameOf(n), uid |-> FromTypeUID(n), type |-> TypeOf(n),
     scopes |-> MapFrom(Kids(n, "AnnotationScope"), LAMBDA s : s.kids[1].rule),
     comments |-> Optional(n, "CommentBlock", FromCommentBlock)]

FromConst(n) == [name |-> NameOf(n), type |-> TypeOf(n), value |-> ValueOf(n), meta |-> FromMetadata(n)]

\* An enum has an enumerant with the UID zero, or it is given one; sorted.
FromEnum(n) ==
    LET FromEnumerant(e) == [name |-> NameOf(e), meta |-> FromMetadata(e)]
        enumerants == MapFrom(Kids(n, "Enumerant"), FromEnumerant)
        none == [name |-> 0, meta |-> [uid |-> 0, comments |-> None, annotations |-> << >>]]
    IN  [name |-> NameOf(n), meta |-> FromMetadata(n),
         enumerants |-> SortSeq(IF \E i \in DOMAIN enumerants : enumerants[i].meta.uid = 0
                                THEN enumerants ELSE Append(enumerants, none),
                                LAMBDA a, b : a.meta.uid < b.meta.uid)]

\* A field of a struct, and of its union number i.
FromField(n) ==
    [name |-> NameOf(n), type |-> TypeOf(n), default |-> Optional(n, "Value", ValueFrom),
     union |-> 0, meta |-> FromMetadata(n)]
FromUnionField(n, i) ==
    [name |-> NameOf(n), type |-> TypeOf(n), default |-> None, union |-> i, meta |-> FromMetadata(n)]

FromUnion(n) == [name |-> NameOf(n), meta |-> FromMetadata(n)]

\* The function dereferences what is nil: an element that was not parsed, or
\* the name that a union does not have to have.
ElementPanics(e) == e.rule = "nil" \/ (e.rule = "Union" /\ \A i \in DOMAIN e.kids : e.kids[i].rule \notin Identifiers)

ElementsOf(n) ==
    LET elements == Kids(n, "StructElement")
    IN  [i \in DOMAIN elements |-> elements[i].kids[1]]

\* Mutant of AddElement: the fields of a union refer to the one before it.
AddElementBefore(struct, e) ==
    IF e.rule = "Field" THEN [struct EXCEPT !.fields = Append(@, FromField(e))]
    ELSE LET FromThis(f) == FromUnionField(f, Len(struct.unions))
         IN  [struct EXCEPT !.unions = Append(@, FromUnion(e)),
                            !.fields = @ \o MapFrom(Kids(e, "UnionField"), FromThis)]

\* The fields of a union become fields of the struct.
AddElement(struct, e) ==
    IF e.rule = "Field" THEN [struct EXCEPT !.fields = Append(@, FromField(e))]
    ELSE LET FromThis(f) == FromUnionField(f, Len(struct.unions) + 1)
         IN  [struct EXCEPT !.unions = Append(@, FromUnion(e)),
                            !.fields = @ \o MapFrom(Kids(e, "UnionField"), FromThis)]

FromStruct(n) ==
    LET elements == ElementsOf(n)
        members[i \in 0..Len(elements)] ==
          IF i = 0 THEN [fields |-> << >>, unions |-> << >>]
          ELSE AddElement(members[i - 1], elements[i])
    IN  [name |-> TypeNameOf(n), parameters |-> ParametersOf(n),
         fields |-> members[Len(elements)].fields, unions |-> members[Len(elements)].unions,
         meta |-> FromMetadata(n)]

Extends(n) == IF Has(n, "Extension")
              THEN MapFrom(Kids(Kid(n, "Extension"), "TypeSpecifier"), TypeFrom)
              ELSE << >>

FromAPIMethod(n) ==
    [name |-> NameOf(n), input |-> TypeOf(Kid(n, "APIMethodInput")),
     output |-> TypeOf(Kid(n, "APIMethodReturns")), meta |-> FromMetadata(n)]

FromAPI(n) ==
    [name |-> TypeNameOf(n), parameters |-> ParametersOf(n), extends |-> Extends(n),
     methods |-> MapFrom(Kids(n, "APIMethod"), FromAPIMethod), meta |-> FromMetadata(n)]

FromSDKMethod(n) ==
    LET FromParameter(p) == [name |-> NameOf(p), uid |-> Incomplete, type |-> TypeOf(p)]
    IN  [name |-> NameOf(n),
         input |-> MapFrom(Kids(Kid(n, "SDKMethodInput"), "SDKMethodParameter"), FromParameter),
         output |-> Optional(n, "SDKMethodReturns", TypeOf), nothrows |-> Has(n, "nothrows"),
         meta |-> FromMetadata(n)]

FromSDK(n) ==
    [name |-> TypeNameOf(n), parameters |-> ParametersOf(n), extends |-> Extends(n),
     methods |-> MapFrom(Kids(n, "SDKMethod"), FromSDKMethod), meta |-> FromMetadata(n)]

-----------------------------------------------------------------------------

\* protobufPackage: the first annotation of that name counts; without one the
\* package is derived from the URI.
ProtobufPackage(annotations) ==
    LET named == SelectSeq(annotations, LAMBDA a : a.package) IN
    CASE named = << >> -> [kind |-> "derived"]
      [] named # << >> /\ named[1].value.kind = "text" -> named[1].value
      [] OTHER -> [kind |-> "error"]

Metas(tree) == Kids(tree, "StatementModuleMeta")

Panics(tree) ==
    \E n \in ToSet(Kids(tree, "StatementStruct")) : \E e \in ToSet(ElementsOf(n)) : ElementPanics(e)

\* The last module statement counts.  Implementations are not converted.
FromModule(tree) ==
    LET metas == Metas(tree)
        annotations == IF metas = << >> THEN << >> ELSE FromAnnotationApplication(Last(metas))
    IN  [uid |-> IF metas = << >> THEN 0 ELSE FromUID(Kid(Last(metas), "UID")),
         applications |-> annotations,
         package     |-> ProtobufPackage(annotations),
         imports     |-> MapFrom(Kids(tree, "StatementImport"), FromImport),
         annotations |-> MapFrom(Kids(tree, "StatementAnnotation"), FromAnnotation),
         constants   |-> MapFrom(Kids(tree, "StatementConst"), FromConst),
         enums       |-> MapFrom(Kids(tree, "StatementEnum"), FromEnum),
         structs     |-> MapFrom(Kids(tree, "StatementStruct"), FromStruct),
         apis        |-> MapFrom(Kids(tree, "StatementAPI"), FromAPI),
         sdks        |-> MapFrom(Kids(tree, "StatementSDK"), FromSDK)]

\* It is an error not to have a UID, or to have a package that is not a text.
IsError(module) == module.uid = 0 \/ module.package.kind = "error"
=============================================================================
