----------------------------- MODULE MCProtobuf ------------------------------
(***************************************************************************)
(* A file of one or two messages, alone, beside a second .proto file, or   *)
(* imported by a microglot file.                                           *)
(***************************************************************************)
EXTENDS Protobuf

Ref(qualifier, base)   == [absolute |-> FALSE, qualifier |-> qualifier, base |-> base]
Dotted(qualifier, base) == [Ref(qualifier, base) EXCEPT !.absolute = TRUE]

Scalar(name, type) ==
    [name |-> name, type |-> type, ref |-> Ref(<< >>, ""), label |-> "optional",
     oneof |-> 0, optional3 |-> FALSE, default |-> "none"]
FieldOf(name, ref) == [Scalar(name, "NAMED") EXCEPT !.ref = ref]
Message(name, fields) ==
    [name |-> name, fields |-> fields, oneofs |-> << >>, nested |-> << >>, enums |-> << >>,
     entry |-> FALSE]
Enum(name) == [name |-> name, values |-> <<name \o "0", name \o "1">>]
File(uri, package, imports, messages) ==
    [uri |-> uri, package |-> package, imports |-> imports, messages |-> messages,
     enums |-> << >>, services |-> << >>]
Service(type, streaming) ==
    [name |-> "Serve", methods |-> <<[name |-> "Do", input |-> type, output |-> type,
                                      streaming |-> streaming]>>]

Text1 == Scalar("text", "TYPE_STRING")

\* Message A: what it may declare inside, and what one of its fields may be.
Insides ==
    LET A == Message("A", <<Text1>>)
        B(fields) == Message("B", fields)
    IN  {A,
         [A EXCEPT !.nested = <<B(<<Text1>>)>>],
         [A EXCEPT !.nested = <<B(<<FieldOf("b", Ref(<< >>, "B"))>>)>>],
         [A EXCEPT !.nested = <<B(<<Text1>>), Message("C", <<Text1, Scalar("more", "TYPE_INT32")>>)>>],
         [A EXCEPT !.nested = <<[B(<<FieldOf("c", Ref(<< >>, "C"))>>) EXCEPT
                                    !.nested = <<Message("C", << >>)>>]>>],
         [A EXCEPT !.nested = <<[Message("FEntry", <<[Text1 EXCEPT !.name = "key"],
                                   [Text1 EXCEPT !.name = "value"]>>) EXCEPT !.entry = TRUE]>>],
         [A EXCEPT !.nested = <<B(<<Text1>>)>>, !.enums = <<Enum("E")>>]}

Fields ==
    {[FieldOf("f", r) EXCEPT !.label = label] :
       r \in {Ref(<< >>, "B"), Ref(<< >>, "D"), Ref(<< >>, "E"), Ref(<< >>, "FEntry"),
              Dotted(<<"p">>, "A"), Ref(<<"A">>, "B"), Ref(<< >>, "A_B")},
       label \in {"optional", "repeated"}}
    \cup {[Scalar("f", type) EXCEPT !.optional3 = TRUE, !.oneof = 2] :
              type \in {"TYPE_STRING", "TYPE_INT32"}}
    \cup {[Scalar("f", "TYPE_STRING") EXCEPT !.oneof = 1],
          [Scalar("f", "TYPE_SINT32") EXCEPT !.label = "repeated"],
          [Scalar("f", "TYPE_INT32") EXCEPT !.label = "required"],
          [Scalar("f", "TYPE_INT32") EXCEPT !.default = "good"],
          [Scalar("f", "TYPE_INT32") EXCEPT !.default = "bad"]}

WithField(m, f) ==
    [m EXCEPT !.fields = Append(@, f),
              !.oneofs = CASE f.oneof = 0 -> << >> [] f.oneof = 1 -> <<"one">>
                           [] f.oneof = 2 -> <<"one", "_f">>]

As == {WithField(m, f) : m \in Insides, f \in Fields}

\* The oneof before a synthetic one has a member too.
Whole(m) ==
    IF Len(m.oneofs) = 2
    THEN [m EXCEPT !.fields = Append(@, [Scalar("o", "TYPE_STRING") EXCEPT !.oneof = 1])]
    ELSE m

\* Messages after A: one that may refer to what A has inside, or be named like it.
Others == {<< >>,
           <<Message("D", <<Text1, FieldOf("a", Ref(<< >>, "A"))>>)>>,
           <<Message("D", <<FieldOf("b", Ref(<< >>, "A_B"))>>)>>,
           <<Message("A_B", <<Text1>>)>>}

Alone == {[files |-> ("a" :> File("a", package, << >>, <<Whole(m)>> \o others)),
           modules |-> << >>] : package \in {<< >>, <<"p">>}, m \in As, others \in Others}

\* Enums of the file, and services, whose methods may refer to a message named like one
\* in the last.
Serving == {[files |-> ("a" :> [File("a", <<"p">>, << >>, first \o <<m>>) EXCEPT
                                   !.enums = <<Enum("E")>>, !.services = <<Service(r, s)>>]),
             modules |-> << >>] :
              m \in {WithField(n, FieldOf("f", Ref(<< >>, "E"))) : n \in Insides},
              first \in {<< >>, <<Message("B", <<Text1>>)>>},
              r \in {Ref(<< >>, "A"), Ref(<< >>, "B")}, s \in BOOLEAN}

\* A second file, which has what the first may refer to.
Beside == {[files |-> ("a" :> File("a", <<"p", "q">>, imports,
                                   <<Message("A", <<FieldOf("f", r)>>)>>))
                      @@ ("b" :> File("b", package, << >>, <<d>>))
                      @@ (IF third THEN "c" :> File("c", << >>, << >>, <<Message("D", <<Text1>>)>>)
                          ELSE << >>),
            modules |-> << >>] :
             package \in {<< >>, <<"p">>, <<"p", "q">>, <<"q">>},
             imports \in {<< >>, <<"b">>, <<"c">>},
             r \in {Ref(<< >>, "D"), Dotted(<<"p">>, "D"), Ref(<<"q">>, "D"), Ref(<< >>, "D_B")},
             d \in {Message("D", <<Text1>>),
                    [Message("D", <<Text1>>) EXCEPT !.nested = <<Message("B", << >>)>>]},
             third \in BOOLEAN}

\* A type named like a built-in one: in the message, after it, or in a second file.
Shadowing ==
    LET A(f) == Whole(WithField(Message("A", <<Text1>>), f))
        Types == {"TYPE_STRING", "TYPE_INT32"}
        fields == {[Scalar("f", type) EXCEPT !.label = label] :
                      type \in Types, label \in {"optional", "repeated"}}
                  \cup {[Scalar("f", type) EXCEPT !.optional3 = TRUE, !.oneof = 2] : type \in Types}
        This(messages) == File("a", <<"p", "q">>, << >>, messages)
        Alike == {Message(name, <<FieldOf("a", Ref(<< >>, name))>>) :
                     name \in {"Text", "Int32", "List", "Presence", "Map"}}
    IN  {[files |-> ("a" :> file), modules |-> << >>] :
            file \in UNION {{This(<<[A(f) EXCEPT !.nested = <<m>>]>>),
                             This(<<A(f), m>>),
                             [This(<<A(f)>>) EXCEPT !.enums = <<Enum(m.name)>>],
                             [This(<<A(f)>>) EXCEPT !.services =
                                 <<[Service(Ref(<< >>, "A"), FALSE) EXCEPT !.name = m.name]>>]}
                               : f \in fields, m \in Alike}}
        \cup {[files |-> ("a" :> [This(<<A(f)>>) EXCEPT !.imports = imports])
                         @@ ("b" :> File("b", package, << >>, <<m>>)), modules |-> << >>] :
                  f \in fields, m \in Alike, imports \in {<< >>, <<"b">>},
                  package \in {<< >>, <<"p">>, <<"p", "q">>, <<"q">>}}

\* A module of a microglot file, two structs and a constant.
Structs(types, unions) ==
    <<[name |-> "S", uid |-> "",
       fields |-> [i \in DOMAIN types |->
                     [name |-> "f" \o ToString(i), type |-> types[i], union |-> 0,
                      optional3 |-> FALSE, comment |-> <<4, 0, 2, i - 1>>]],
       unions |-> unions, synthetic |-> FALSE, comment |-> <<4, 0>>, promoted |-> << >>],
      [name |-> "A", uid |-> "", fields |-> << >>, unions |-> << >>, synthetic |-> FALSE,
       comment |-> <<4, 1>>, promoted |-> << >>]>>

Module(import, types, unions, value) ==
    [uri |-> "m", package |-> <<"m">>, imports |-> <<import>>, structs |-> Structs(types, unions),
     enums |-> <<[name |-> "M", uid |-> "", enumerants |-> <<"Zero">>, fromProto |-> FALSE]>>,
     apis |-> << >>,
     constants |-> <<[name |-> "K", uid |-> "", type |-> Named("", "Text", << >>),
                      value |-> value]>>]

Plainly(name) == Named("", name, << >>)
Identifier(names) == [kind |-> "identifier", names |-> names, reference |-> Unresolved]
Types == {<<Plainly("A"), Named("", "List", <<Named("a", "A", << >>)>>)>>,
          <<Named("", "Map", <<Plainly("Text"), Named("a", "A", << >>)>>), Plainly("M")>>,
          <<Named("", "List", <<Named("", "Map", <<Plainly("Text"), Plainly("Text")>>)>>)>>,
          <<Named("a", "A_B", << >>)>>,
          <<Named("", "Presence", <<Plainly("Int8")>>), Named("Protobuf", "NestedType", << >>)>>,
          <<Plainly("K")>>}
Values == {Identifier(<<"M", "Zero">>),
           [kind |-> "operation", operands |-> <<Identifier(<<"a", "A", "text">>), Identifier(<<"K">>)>>],
           [kind |-> "list", elements |-> <<Identifier(<<"Nothing">>)>>],
           Identifier(<<"Nothing">>)}

Importing ==
    {[files |-> ("a" :> File("a", package, << >>, <<m>>)),
      modules |-> ("m" :> Module(import, types, unions, value))] :
       package \in {<< >>, <<"p">>},
       m \in {n \in Insides : Len(n.nested) < 2 /\ n.enums = << >>},
       import \in {[uri |-> "a", alias |-> "a", dot |-> FALSE],
                   [uri |-> "a", alias |-> "a", dot |-> TRUE],
                   [uri |-> "z", alias |-> "a", dot |-> FALSE]},
       types \in Types, unions \in {<< >>, <<"u">>}, value \in Values}

MCInputs == Alone \cup Serving \cup Beside \cup Shadowing \cup Importing

MCBuiltins == DOMAIN Scalars \cup {"List", "Presence", "Map"}
=============================================================================
