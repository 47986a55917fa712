------------------------------- MODULE ToProto -------------------------------
(***************************************************************************)
(* imageConverter (internal/idl/convert.go): the file descriptor of each   *)
(* module of an image.  Promoted types go back into the messages they come *)
(* from.                                                                   *)
(*                                                                         *)
(* The conversion is a record c: [image, p, location, error], the image    *)
(* a function from URIs to modules.  It is part of c since the conversion  *)
(* writes to it.  A step after an error has no effect that is ever seen.   *)
(* The iteration over a table of promoted names is in the order of the     *)
(* parameter order, a sequence of nested names.                            *)
(*                                                                         *)
(* A file is as in FromProto, but that a type refers to [absolute, names]  *)
(* and there is the sequence location of [path, comment].                  *)
(***************************************************************************)
EXTENDS Linker

Absolute(names) == [absolute |-> TRUE, names |-> names]
NoName == [absolute |-> FALSE, names |-> << >>]

Failed(c, error) == IF c.error = "" THEN [c EXCEPT !.error = error] ELSE c

MaybeEmitLocation(c, comment) ==
    IF comment = << >> THEN c
    ELSE [c EXCEPT !.location = Append(@, [path |-> c.p.path, comment |-> comment])]

\* As in FromProto, but that f gives the conversion after it along with its result.
MapTo(c, in, f(_, _)) ==
    FoldLeft(LAMBDA acc, e :
                LET r == f(acc.c, e)
                IN  [c |-> [r.c EXCEPT !.p = IncrementIndex(@)], out |-> Append(acc.out, r.out)],
             [c |-> c, out |-> << >>], in)

-----------------------------------------------------------------------------
(* Names.                                                                  *)

\* Where a type of the module has been promoted from: struct and nested name.
Origins(module, name) ==
    UNION {{<<s.name, nested>> : nested \in {n \in DOMAIN s.promoted : s.promoted[n] = name}}
              : s \in ToSet(module.structs)}

IsPromotedType(module, name) == Origins(module, name) # {}

\* Mutant of GetQualifiedName: the package is left out.
GetNameInFile(module, name) ==
    IF IsPromotedType(module, name)
    THEN Absolute(CHOOSE o \in Origins(module, name) : TRUE)
    ELSE Absolute(<<name>>)

\* The package is only for names that were not promoted.
GetQualifiedName(module, name) ==
    IF IsPromotedType(module, name)
    THEN Absolute(CHOOSE o \in Origins(module, name) : TRUE)
    ELSE Absolute(Append(module.package, name))

-----------------------------------------------------------------------------
(* Types of fields.                                                        *)

Converted(label, type, typeName) ==
    [label |-> label, type |-> type, typeName |-> typeName, error |-> ""]
Unconvertible(error) ==
    [label |-> "", type |-> "", typeName |-> NoName, error |-> error]

Scalars == [Bool |-> "TYPE_BOOL", Text |-> "TYPE_STRING", Int8 |-> "TYPE_INT32",
            Int32 |-> "TYPE_INT32", UInt64 |-> "TYPE_UINT64"]

Labels == [List |-> "repeated", Presence |-> "optional"]

\* The name of the field is needed for a map only; a nil pointer is "".  An index that
\* is out of range, like the nil pointer, ends the program.
RECURSIVE FromTypeSpecifier(_, _, _)
FromTypeSpecifier(image, type, fieldName) ==
    LET uri     == type.reference.module
        name    == type.reference.path[1]
        As(label, inner) == IF inner.error # "" THEN inner ELSE [inner EXCEPT !.label = label]
        structs == {s \in ToSet(image[uri].structs) : s.uid = name}
        enums   == {e \in ToSet(image[uri].enums) : e.uid = name}
    IN  CASE uri = Builtin /\ name \in DOMAIN Scalars -> Converted("optional", Scalars[name], NoName)
          [] uri = Builtin /\ name \in DOMAIN Labels /\ type.parameters = << >> ->
                Unconvertible("no parameter")
          [] uri = Builtin /\ name \in DOMAIN Labels /\ type.parameters # << >> ->
                As(Labels[name], FromTypeSpecifier(image, type.parameters[1], ""))
          [] uri = Builtin /\ name = "Map" ->
                IF fieldName = "" THEN Unconvertible("nil field name")
                ELSE Converted("repeated", "TYPE_MESSAGE",
                               [absolute |-> FALSE, names |-> <<fieldName \o "Entry">>])
          [] uri # Builtin /\ structs # {} ->
                LET s == CHOOSE s \in structs : TRUE
                IN  Converted("optional", "TYPE_MESSAGE", GetQualifiedName(image[uri], s.name))
          [] uri # Builtin /\ structs = {} /\ enums # {} ->
                LET e == CHOOSE e \in enums : TRUE
                IN  Converted("optional", "TYPE_ENUM", GetQualifiedName(image[uri], e.name))
          [] OTHER -> Unconvertible("no protobuf type")

-----------------------------------------------------------------------------
(* Declarations.                                                           *)

\* A field of type t, as converted: its default value is left out.
Described(name, t, label, union, optional3) ==
    [name |-> name, type |-> t.type, ref |-> t.typeName, label |-> label,
     oneof |-> union, optional3 |-> optional3, default |-> "none"]

FromField(c, field) ==
    LET OfType(t) ==
            [c   |-> MaybeEmitLocation(Failed(c, t.error), field.comment),
             out |-> Described(field.name, t, t.label, field.union, field.optional3)]
    IN  OfType(FromTypeSpecifier(c.image, field.type, field.name))

\* Microglot's enumerants get the name the enum has at the time.
FromEnum(c, enum) ==
    MapTo(c, enum.enumerants,
          LAMBDA d, v : [c |-> d, out |-> IF enum.fromProto THEN v ELSE enum.name \o "_" \o v])

EntryOf(image, field) ==
    LET Part(i, name) ==
            Described(name, FromTypeSpecifier(image, field.type.parameters[i], ""), "", 0, FALSE)
    IN  [name |-> field.name \o "Entry", fields |-> <<Part(1, "key"), Part(2, "value")>>,
         oneofs |-> << >>, nested |-> << >>, enums |-> << >>, entry |-> TRUE]

IsMap(type) == type.reference = [module |-> Builtin, path |-> <<"Map">>]

SynthesizeMapEntries(c, struct) ==
    LET maps   == SelectSeq(struct.fields, LAMBDA f : IsMap(f.type))
        Error(type, i) == IF i \in DOMAIN type.parameters
                          THEN FromTypeSpecifier(c.image, type.parameters[i], "").error
                          ELSE "no parameter"
        errors == {e \in {Error(f.type, i) : f \in ToSet(maps), i \in 1..2} : e # ""}
    IN  IF errors = {}
        THEN [c |-> c, out |-> [i \in DOMAIN maps |-> EntryOf(c.image, maps[i])]]
        ELSE [c |-> Failed(c, CHOOSE e \in errors : TRUE), out |-> << >>]

\* Mutant of AddMapEntryQualification: nothing is qualified.
AddNoQualification(module, struct, nested, fields) == fields

\* References to the messages of a struct get its package and its own name, which
\* for a promoted struct is the promoted one.
AddMapEntryQualification(module, struct, nested, fields) ==
    LET own    == {m.name : m \in ToSet(nested)}
        prefix == Append(module.package, struct.name)
        Own(n) == \E m \in own :
                     n \in {[absolute |-> FALSE, names |-> <<m>>],
                            [absolute |-> FALSE, names |-> <<struct.name, m>>],
                            Absolute(<<struct.name, m>>), Absolute(Append(prefix, m))}
    IN  [i \in DOMAIN fields |->
           [fields[i] EXCEPT !.ref = IF Own(@) THEN Absolute(Append(prefix, Last(@.names))) ELSE @]]

\* Presence in proto3 takes a oneof after the unions.
AddPresence(message) ==
    FoldLeft(LAMBDA m, f :
                IF f.optional3
                THEN [m EXCEPT !.fields = Append(@, [f EXCEPT !.oneof = Len(m.oneofs) + 1]),
                               !.oneofs = Append(@, "_" \o f.name)]
                ELSE [m EXCEPT !.fields = Append(@, f)],
             [message EXCEPT !.fields = << >>], message.fields)

\* The descriptor of an enum points to the name in the image: the enum in the image
\* gets the nested name too.
RenameEnum(image, uri, from, to) ==
    [image EXCEPT ![uri].enums =
       [i \in DOMAIN @ |-> IF @[i].name = from THEN [@[i] EXCEPT !.name = to] ELSE @[i]]]

\* Mutant of RenameStruct: the descriptor of a struct, too, points to its name.
RenameStructToo(image, uri, from, to) ==
    [image EXCEPT ![uri].structs =
       [i \in DOMAIN @ |-> IF @[i].name = from THEN [@[i] EXCEPT !.name = to] ELSE @[i]]]

\* The descriptor of a struct has a copy of the name: the image stays as it is.
RenameStruct(image, uri, from, to) == image

\* A struct is converted part by part: r is the conversion, and the message so far.
AddFields(r, struct) ==
    LET Filled(fields) == [c   |-> [fields.c EXCEPT !.p = PopFieldNumber(PopIndex(@))],
                           out |-> [r.out EXCEPT !.fields = fields.out]]
    IN  Filled(MapTo([r.c EXCEPT !.p = PushIndex(PushFieldNumber(@, FieldOfMessage))],
                     struct.fields, FromField))

\* Unions are counted as messages.
AddUnions(r, struct) ==
    [c   |-> MapTo(r.c, struct.unions, LAMBDA d, u : [c |-> d, out |-> u]).c,
     out |-> AddPresence([r.out EXCEPT !.oneofs = struct.unions])]

RECURSIVE FromStruct(_, _, _, _)

\* What is nested has its promoted name in the image, and is at the path of the
\* outermost struct around it.  The values of an enum are counted as messages.
AddNested(order, r, uri, struct) ==
    LET Add(acc, nested) ==
            LET promoted  == struct.promoted[nested]
                structs   == SelectSeq(acc.c.image[uri].structs, LAMBDA s : s.name = promoted)
                enums     == SelectSeq(acc.c.image[uri].enums, LAMBDA e : e.name = promoted)
                Struct(s) ==
                    [c   |-> [s.c EXCEPT !.image = RenameStruct(@, uri, promoted, nested)],
                     out |-> [acc.out EXCEPT
                                !.nested = Append(@, [s.out EXCEPT !.name = nested])]]
                Enum(e)   ==
                    [c   |-> [e.c EXCEPT !.image = RenameEnum(@, uri, promoted, nested)],
                     out |-> [acc.out EXCEPT
                                !.enums = Append(@, [name |-> nested, values |-> e.out])]]
            IN  CASE structs # << >> -> Struct(FromStruct(order, acc.c, uri, Head(structs)))
                  [] structs = << >> /\ enums # << >> -> Enum(FromEnum(acc.c, Head(enums)))
                  [] OTHER -> [acc EXCEPT !.c = Failed(@, "missing promoted type")]
    IN  FoldLeft(Add, r, SelectSeq(order, LAMBDA n : n \in DOMAIN struct.promoted))

FromStruct(order, c, uri, struct) ==
    LET Begun(entries) ==
            [c   |-> entries.c,
             out |-> [name |-> struct.name, fields |-> << >>, oneofs |-> << >>,
                      nested |-> entries.out, enums |-> << >>, entry |-> struct.synthetic]]
        Ended(r) ==
            [c   |-> MaybeEmitLocation(r.c, struct.comment),
             out |-> [r.out EXCEPT !.fields =
                        AddMapEntryQualification(c.image[uri], struct, r.out.nested, @)]]
        parts == AddUnions(AddFields(Begun(SynthesizeMapEntries(c, struct)), struct), struct)
    IN  Ended(AddNested(order, parts, uri, struct))

FromAPI(c, api) ==
    LET Type(t) == FromTypeSpecifier(c.image, t, "")
        errors  == {e \in UNION {{Type(m.input).error, Type(m.output).error}
                                    : m \in ToSet(api.methods)} : e # ""}
    IN  [c   |-> IF errors = {} THEN c ELSE Failed(c, CHOOSE e \in errors : TRUE),
         out |-> [name    |-> api.name,
                  methods |-> [i \in DOMAIN api.methods |->
                                 [name   |-> api.methods[i].name,
                                  input  |-> Type(api.methods[i].input).typeName,
                                  output |-> Type(api.methods[i].output).typeName]]]]

\* Mutant of ResetPathState: the locations are kept.
ResetPath(c) == [c EXCEPT !.p = EmptyPath]

ResetPathState(c) == [c EXCEPT !.p = EmptyPath, !.location = << >>]

\* The declarations of one kind, at path p.
Section(r, kind, p, declarations, From(_, _)) ==
    LET Filled(part) == [c   |-> [part.c EXCEPT !.p = EmptyPath],
                         out |-> [r.out EXCEPT ![kind] = part.out]]
    IN  Filled(MapTo([r.c EXCEPT !.p = p], declarations, From))

\* Structs before enums, of which those that are not promoted, as things are then.
FromModule(order, c, uri) ==
    LET module  == c.image[uri]
        Own(s)  == SelectSeq(s, LAMBDA d : ~IsPromotedType(module, d.name))
        begun   == [c   |-> ResetPathState(c),
                    out |-> [uri      |-> uri,
                             package  |-> module.package,
                             imports  |-> [i \in DOMAIN module.imports |-> module.imports[i].uri],
                             messages |-> << >>, enums |-> << >>, services |-> << >>]]
        Messages(r) == Section(r, "messages", PushIndex(PushFieldNumber(EmptyPath, MessageType)),
                               Own(module.structs), LAMBDA d, s : FromStruct(order, d, uri, s))
        EnumOf(e, r) == [c |-> r.c, out |-> [name |-> e.name, values |-> r.out]]
        Enums(r)    == Section(r, "enums", EmptyPath, Own(r.c.image[uri].enums),
                               LAMBDA d, e : EnumOf(e, FromEnum(d, e)))
        Services(r) == Section(r, "services", EmptyPath, module.apis, FromAPI)
        Ended(r)    == [c |-> r.c, file |-> [location |-> r.c.location] @@ r.out]
    IN  Ended(Services(Enums(Messages(begun))))
=============================================================================
