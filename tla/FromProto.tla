------------------------------ MODULE FromProto ------------------------------
(***************************************************************************)
(* FromFileDescriptorProto (internal/compiler/protobuf/descriptor.go): the *)
(* module of a .proto file.  Messages and enums in messages are promoted   *)
(* to the module under names of their own, and the message keeps a table   *)
(* from the nested to the promoted names.                                  *)
(*                                                                         *)
(* A file is [uri, package, imports, messages, enums, services], where     *)
(*   message  [name, fields, oneofs, nested, enums, entry]                 *)
(*   field    [name, type, ref, label, oneof, optional3, default]          *)
(*   enum     [name, values]                                               *)
(*   service  [name, methods], a method [name, input, output, streaming].  *)
(* A package is the sequence of its segments.  What a type refers to is    *)
(* [absolute, qualifier, base]; type is "NAMED" or a scalar, and oneof 0   *)
(* or the place in oneofs.  Numbers follow the order of declaration.  A    *)
(* message with entry stands for the entries of a map.  Each message and   *)
(* each field has a comment, which stands for where it was written.        *)
(***************************************************************************)
EXTENDS PathState, TLC

Unqualified(name) == [absolute |-> FALSE, qualifier |-> << >>, base |-> name]

\* A reference to be linked, by the rules of either language.
Forward(ref) == [kind |-> "protobuf", ref |-> ref]
Named(qualifier, name, parameters) ==
    [kind |-> "microglot", qualifier |-> qualifier, name |-> name, parameters |-> parameters]

\* Elements are converted in order, and the innermost index counts them.
MapFrom(p, in, f(_, _)) ==
    FoldLeft(LAMBDA acc, e : [p |-> IncrementIndex(acc.p), out |-> Append(acc.out, f(acc.p, e))],
             [p |-> p, out |-> << >>], in)

\* The comment that SourceCodeInfo has for a path; no other path is ever looked up.
FromSourceCodeInfo(file, p) ==
    LET m == p.path[2] + 1
        f == p.path[4] + 1
    IN  IF /\ Len(p.path) \in {2, 4} /\ m \in DOMAIN file.messages
           /\ Len(p.path) = 4 => f \in DOMAIN file.messages[m].fields
        THEN p.path ELSE << >>

\* Wire formats are lost.
TypeName(field) ==
    CASE field.type = "NAMED"         -> field.ref
      [] field.type = "TYPE_INT32"    -> Unqualified("Int32")
      [] field.type = "TYPE_SINT32"   -> Unqualified("Int32")
      [] field.type = "TYPE_FIXED64"  -> Unqualified("UInt64")
      [] field.type = "TYPE_STRING"   -> Unqualified("Text")

\* No other label, streaming in no direction, and only default values of the type.
Convertible(file) ==
    LET RECURSIVE Fine(_)
        Fine(m) == /\ \A f \in ToSet(m.fields) : f.label # "required" /\ f.default # "bad"
                   /\ \A n \in ToSet(m.nested) : Fine(n)
    IN  /\ \A m \in ToSet(file.messages) : Fine(m)
        /\ \A s \in ToSet(file.services) : \A m \in ToSet(s.methods) : ~m.streaming

FromFieldDescriptorProto(file, p, field) ==
    LET type == Forward(TypeName(field))
    IN  [name      |-> field.name,
         type      |-> CASE field.label = "optional" /\ field.optional3 ->
                              Named("", "Presence", <<type>>)
                         [] field.label = "repeated" -> Named("", "List", <<type>>)
                         [] OTHER -> type,
         union     |-> field.oneof,
         optional3 |-> field.optional3,
         comment   |-> FromSourceCodeInfo(file, p)]

\* The oneof that stands for the presence of a proto3 field.
SyntheticOneof(message, i) ==
    \E f \in ToSet(message.fields) : f.optional3 /\ f.oneof = i

\* Mutant of FromDescriptorProto: synthetic oneofs become unions.
FromDescriptorAllOneofs(file, p, message) ==
    LET fields == MapFrom(PushIndex(PushFieldNumber(p, FieldOfMessage)), message.fields,
                          LAMBDA q, f : FromFieldDescriptorProto(file, q, f))
    IN  [name      |-> message.name,
         uid       |-> "",
         fields    |-> fields.out,
         unions    |-> message.oneofs,
         synthetic |-> message.entry,
         comment   |-> FromSourceCodeInfo(file, p),
         promoted  |-> << >>]

\* The path is as it was, after the fields.
FromDescriptorProto(file, p, message) ==
    LET fields == MapFrom(PushIndex(PushFieldNumber(p, FieldOfMessage)), message.fields,
                          LAMBDA q, f : FromFieldDescriptorProto(file, q, f))
        real   == SelectSeq([i \in DOMAIN message.oneofs |-> i],
                            LAMBDA i : ~SyntheticOneof(message, i))
    IN  [name      |-> message.name,
         uid       |-> "",
         fields    |-> fields.out,
         unions    |-> [i \in DOMAIN real |-> message.oneofs[real[i]]],
         synthetic |-> message.entry,
         comment   |-> FromSourceCodeInfo(file, p),
         promoted  |-> << >>]

FromEnumDescriptorProto(enum) ==
    [name |-> enum.name, uid |-> "", enumerants |-> enum.values, fromProto |-> TRUE]

\* The values of an enum are counted by whichever index is innermost.
AfterEnum(p, enum) == MapFrom(p, enum.values, LAMBDA q, v : v).p

NameCollides(name, c) ==
    \/ \E s \in ToSet(c.structs) : s.name = name
    \/ \E e \in ToSet(c.enums) : e.name = name

RECURSIVE FreeName(_, _)
FreeName(name, c) == IF NameCollides(name, c) THEN FreeName(name \o "X", c) ELSE name

\* The types of a message, innermost first, become types of the module that
\* conversion c makes, at the path of the message in the module.
RECURSIVE PromoteNested(_, _, _, _)
PromoteNested(file, c, prefix, message) ==
    LET Struct(acc, m) ==
            LET inner == PromoteNested(file, acc.c, prefix \o m.name \o "_", m)
                name  == FreeName(prefix \o m.name, inner.c)
                s     == [FromDescriptorProto(file, inner.c.p, m) EXCEPT
                             !.name = name, !.promoted = inner.promoted]
            IN  [c        |-> [inner.c EXCEPT !.structs = Append(@, s)],
                 promoted |-> (m.name :> name) @@ acc.promoted]
        Enum(acc, e) ==
            LET name == FreeName(prefix \o e.name, acc.c)
            IN  [c        |-> [acc.c EXCEPT
                                 !.enums = Append(@, [FromEnumDescriptorProto(e) EXCEPT
                                                         !.name = name]),
                                 !.p = AfterEnum(@, e)],
                 promoted |-> (e.name :> name) @@ acc.promoted]
    IN  FoldLeft(Enum, FoldLeft(Struct, [c |-> c, promoted |-> << >>], message.nested),
                 message.enums)

\* A message after its types; its own name is taken as it is.
AddMessage(file, c, message) ==
    LET inner == PromoteNested(file, c, message.name \o "_", message)
        s     == [FromDescriptorProto(file, inner.c.p, message) EXCEPT
                     !.promoted = inner.promoted]
    IN  [inner.c EXCEPT !.structs = Append(@, s), !.p = IncrementIndex(@)]

FromServiceDescriptorProto(service) ==
    [name    |-> service.name,
     uid     |-> "",
     methods |-> [i \in DOMAIN service.methods |->
                    [name   |-> service.methods[i].name,
                     input  |-> Forward(service.methods[i].input),
                     output |-> Forward(service.methods[i].output)]]]

FromFileDescriptorProto(file) ==
    LET enums == MapFrom(EmptyPath, file.enums, LAMBDA p, e : FromEnumDescriptorProto(e)).out
        start == [p       |-> PushIndex(PushFieldNumber(EmptyPath, MessageType)),
                  structs |-> << >>, enums |-> enums]
        end   == FoldLeft(LAMBDA c, m : AddMessage(file, c, m), start, file.messages)
    IN  [uri       |-> file.uri,
         package   |-> file.package,
         imports   |-> [i \in DOMAIN file.imports |->
                          [uri |-> file.imports[i], alias |-> "", dot |-> FALSE]],
         structs   |-> end.structs,
         enums     |-> end.enums,
         apis      |-> [i \in DOMAIN file.services |->
                          FromServiceDescriptorProto(file.services[i])],
         constants |-> << >>]
=============================================================================
