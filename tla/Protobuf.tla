------------------------------ MODULE Protobuf -------------------------------
(***************************************************************************)
(* The way of a .proto file through the compiler to the protoc plugins:    *)
(* the files are read and their symbols collected, in any order; then they *)
(* are linked, in any order; then, once for each plugin (main.go), the     *)
(* linked image is converted to file descriptors.  Microglot files take    *)
(* the same way from the module on that SubCompilerMicroglot makes.        *)
(*                                                                         *)
(* How goroutines interleave within compileFile and link is in Compile,    *)
(* the order of the descriptors in TopoSort, and the batches of one plugin *)
(* in Plugins.                                                             *)
(***************************************************************************)
EXTENDS ToProto, Protoc

CONSTANTS
  Inputs,      \* what there is to compile: [files, modules], by URI
  MaxPlugins   \* a bound on the --pbplugin flags

VARIABLES
  input,
  pc,        \* "compile", "link", "convert", "done", "failed"
  modules,   \* the modules read so far, by URI
  gsymbols,  \* the global symbol table
  image,     \* the URIs of the linked modules, in the order of the image
  c,         \* the conversion
  set,       \* the file descriptors of the current conversion, by URI
  sets       \* the file descriptor sets that are finished

vars == <<input, pc, modules, gsymbols, image, c, set, sets>>

\* The module that every compilation has.
ProtobufModule ==
    [uri |-> ProtobufURI, package |-> <<"protobuf">>, imports |-> << >>,
     structs |-> <<[name |-> "NestedType", uid |-> "NestedType", fields |-> << >>,
                    unions |-> << >>, synthetic |-> FALSE, comment |-> << >>,
                    promoted |-> << >>]>>,
     enums |-> << >>, apis |-> << >>, constants |-> << >>]

NoConversion == [image |-> << >>, p |-> EmptyPath, location |-> << >>, error |-> ""]

Init ==
    /\ input \in Inputs
    /\ pc = "compile"
    /\ modules = (ProtobufURI :> ProtobufModule)
    /\ gsymbols = CollectTable(EmptyTable, Symbols(ProtobufModule))
    /\ image = <<ProtobufURI>>
    /\ c = NoConversion
    /\ set = << >>
    /\ sets = << >>

URIs == DOMAIN input.files \cup DOMAIN input.modules

\* What either sub-compiler makes of a file, completed.
Compiled(uri) ==
    CompleteUIDs(IF uri \in DOMAIN input.files THEN FromFileDescriptorProto(input.files[uri])
                 ELSE input.modules[uri])

Compiles(uri) ==
    /\ uri \in DOMAIN input.files => Convertible(input.files[uri])
    /\ ~CollectFails(gsymbols, Symbols(Compiled(uri)), {})

\* compileFile.
CompileFile(uri) ==
    /\ pc = "compile" /\ uri \notin DOMAIN modules
    /\ Compiles(uri)
    /\ modules' = (uri :> Compiled(uri)) @@ modules
    /\ gsymbols' = CollectTable(gsymbols, Symbols(Compiled(uri)))
    /\ UNCHANGED <<input, pc, image, c, set, sets>>

\* The sub-compiler's error, or collect's.
CompileFileFails(uri) ==
    /\ pc = "compile" /\ uri \notin DOMAIN modules
    /\ ~Compiles(uri)
    /\ pc' = "failed"
    /\ UNCHANGED <<input, modules, gsymbols, image, c, set, sets>>

StartLinking ==
    /\ pc = "compile" /\ URIs \subseteq DOMAIN modules
    /\ pc' = "link"
    /\ UNCHANGED <<input, modules, gsymbols, image, c, set, sets>>

Link(uri) ==
    /\ pc = "link" /\ uri \notin ToSet(image)
    /\ Links(gsymbols, modules[uri])
    /\ modules' = [modules EXCEPT ![uri] = LinkModule(gsymbols, @)]
    /\ image' = Append(image, uri)
    /\ UNCHANGED <<input, pc, gsymbols, c, set, sets>>

LinkFails(uri) ==
    /\ pc = "link" /\ uri \notin ToSet(image)
    /\ ~Links(gsymbols, modules[uri])
    /\ pc' = "failed"
    /\ UNCHANGED <<input, modules, gsymbols, image, c, set, sets>>

\* The image of the first conversion has the modules as they were linked, that of a
\* later one as the conversion before has left them.
StartConversion ==
    /\ \/ pc = "link" /\ URIs \subseteq ToSet(image)
       \/ pc = "done" /\ Len(sets) < MaxPlugins
    /\ c' = [NoConversion EXCEPT !.image = IF pc = "link" THEN modules ELSE c.image]
    /\ set' = << >>
    /\ pc' = "convert"
    /\ UNCHANGED <<input, modules, gsymbols, image, sets>>

\* The next module of the image, with the tables of promoted names in any order.
Convert ==
    /\ pc = "convert"
    /\ Cardinality(DOMAIN set) < Len(image)
    /\ LET uri   == image[Cardinality(DOMAIN set) + 1]
           names == UNION {DOMAIN s.promoted : s \in ToSet(c.image[uri].structs)}
       IN  \E r \in {FromModule(order, c, uri) : order \in SetToSeqs(names)} :
              /\ c' = r.c
              /\ set' = IF r.c.error = "" THEN (uri :> r.file) @@ set ELSE set
              /\ pc' = IF r.c.error = "" THEN pc ELSE "failed"
    /\ UNCHANGED <<input, modules, gsymbols, image, sets>>

EndConversion ==
    /\ pc = "convert"
    /\ Cardinality(DOMAIN set) = Len(image)
    /\ sets' = Append(sets, set)
    /\ pc' = "done"
    /\ UNCHANGED <<input, modules, gsymbols, image, c, set>>

Next ==
    \/ \E uri \in URIs : CompileFile(uri) \/ CompileFileFails(uri)
    \/ StartLinking
    \/ \E uri \in URIs : Link(uri) \/ LinkFails(uri)
    \/ StartConversion \/ Convert \/ EndConversion

Spec == Init /\ [][Next]_vars

-----------------------------------------------------------------------------
(* What the properties are about.                                          *)

Files == {input.files[u] : u \in DOMAIN input.files}

\* The files that a file sees, and all there are.
Visible(f) == {g \in Files : g = f \/ g.uri \in ToSet(f.imports)}

\* The nested messages of the order in a descriptor come in no order.
Unordered(file) ==
    LET RECURSIVE Message(_)
        Message(m) == [m EXCEPT !.nested = {Message(n) : n \in ToSet(@)}, !.enums = ToSet(@)]
    IN  [[u \in DOMAIN file \ {"location"} |-> file[u]] EXCEPT
           !.messages = [i \in DOMAIN @ |-> Message(@[i])]]

HasNestedEnums == \E f \in Files : \E m \in ToSet(f.messages) : NestedEnums(m)

\* Names of a file that promotion gives, or could give, to another type.
Underscored(f) ==
    {m.name \o "_" \o n.name : <<m, n>> \in
        UNION {{m} \X ToSet(m.nested) : m \in ToSet(f.messages)}}

\* A reference from scope to a top-level type, or from a message to a type in it by
\* its name alone, that no file changes which is not imported.
PlainReference(f, scope, ref) ==
    LET target == Resolve(Visible(f), f.package, scope, ref)
    IN  /\ target # << >>
        /\ target = Resolve(Files, f.package, scope, ref)
        /\ \/ target \in UNION {TopLevel(g) : g \in Visible(f)}
           \/ target = f.package \o scope \o <<ref.base>> /\ ref = Unqualified(ref.base)

\* What methods cannot say: the table of the last message in the file still holds for them.
LastNested(f) ==
    IF f.messages = << >> THEN {} ELSE {Unqualified(n.name) : n \in ToSet(Last(f.messages).nested)}

\* Types are looked for by the names of the built-in ones too.  A scalar type is taken
\* for a nested type of the message, for one in a package around, or in an imported
\* file; the types that stand for labels for one of the file or of an imported file.
Declared(g) ==
    {m.name : m \in ToSet(g.messages)} \cup {e.name : e \in ToSet(g.enums)}
    \cup {s.name : s \in ToSet(g.services)}
Shadowed(f, m, d) ==
    LET inside == {n.name : n \in ToSet(m.nested)}
        around == UNION {Declared(g) : g \in {h \in Files : IsPrefix(h.package, f.package)}}
        seen   == UNION {Declared(g) : g \in Visible(f)}
    IN  \/ d.type # "NAMED" /\ TypeName(d).base \in inside \cup around \cup seen
        \/ d.label = "repeated" /\ "List" \in seen
        \/ d.optional3 /\ "Presence" \in seen

\* A file without what the compiler changes, loses or does not take.
Plain(f) ==
    /\ Convertible(f)
    /\ \A m \in ToSet(f.messages) :
          /\ ~NestedEnums(m)
          /\ \A n \in ToSet(m.nested) : n.nested = << >>
          /\ \A n \in {m} \cup ToSet(m.nested) : \A d \in ToSet(n.fields) :
                /\ d.type \notin {"TYPE_SINT32", "TYPE_FIXED64"}
                /\ d.default = "none"
                /\ ~Shadowed(f, n, d)
                /\ d.type = "NAMED" =>
                      PlainReference(f, IF n = m THEN <<m.name>> ELSE <<m.name, n.name>>, d.ref)
    /\ \A s \in ToSet(f.services) : \A m \in ToSet(s.methods) :
          /\ PlainReference(f, << >>, m.input) /\ PlainReference(f, << >>, m.output)
          /\ {m.input, m.output} \cap LastNested(f) = {}
    /\ \A g \in Files \ {f} : FullNames(f) \cap FullNames(g) = {}
    /\ \A g \in Files : \A n \in Underscored(g) : g.package \o <<n>> \notin TopLevel(f)

-----------------------------------------------------------------------------
(* Properties.                                                             *)

\* Plain files are accepted, alone or together, and every plugin gets of each the
\* descriptor that protoc makes of it.
PlainAsProtoc ==
    /\ \A s \in ToSet(sets) : \A f \in Files :
          Plain(f) => Unordered(s[f.uri]) = Unordered(Linked(Visible(f), f))
    /\ pc = "failed" => input.modules # << >> \/ \E f \in Files : ~Plain(f)

\* A comment comes out where it was written, in modules without types in messages
\* and without unions.
CommentsStay ==
    \A s \in ToSet(sets) : \A u \in URIs :
       (\A t \in ToSet(modules[u].structs) : t.promoted = << >> /\ t.unions = << >>)
         => /\ \A l \in ToSet(s[u].location) : l.path = l.comment
            /\ {l.comment : l \in ToSet(s[u].location)} =
                  UNION {{t.comment} \cup {f.comment : f \in ToSet(t.fields)}
                            : t \in ToSet(modules[u].structs)}

\* A reference in module u, from struct s, that survives the conversion: to a module
\* that u imports, and to no promoted type but a message's own in a message that is
\* not promoted.
Survives(u, s, reference) ==
    LET t == reference.module
    IN  \/ t = Builtin
        \/ /\ t = u \/ \E i \in ToSet(modules[u].imports) : i.uri = t
           /\ \A o \in Origins(modules[t], reference.path[1]) :
                 /\ <<t, o[1]>> = <<u, s.name>> /\ ~IsPromotedType(modules[u], s.name)
                 /\ \E d \in ToSet(modules[u].structs) : d.uid = reference.path[1]

RECURSIVE References(_)
References(type) ==
    {type.reference} \cup UNION {References(t) : t \in ToSet(type.parameters)}

\* A name in a descriptor is that of a type of the same file or of one it depends on.
NamesResolve ==
    \A s \in ToSet(sets) : \A u \in URIs :
       (\A t \in ToSet(modules[u].structs) :
           \A f \in ToSet(t.fields) : \A r \in References(f.type) : Survives(u, t, r))
         => \A m \in ToSet(s[u].messages) : \A n \in AllRefs(m) :
               n.absolute /\ n.names \in
                  UNION {FullNames(s[v]) : v \in {u} \cup ToSet(s[u].imports)}

\* The plugins of a compilation get the same descriptors, and none is told that there
\* are none, unless there is an enum in a message.
PluginsAgree ==
    ~HasNestedEnums =>
       /\ \A s, t \in ToSet(sets) : \A u \in URIs : Unordered(s[u]) = Unordered(t[u])
       /\ pc = "failed" => sets = << >>

-----------------------------------------------------------------------------
(* What the code says and does not do.                                     *)

\* The error "unexpectedly missing promoted type" (convert.go:482) never happens: a
\* table of promoted names has names of types of its module.
PromotedIsFound == c.error # "missing promoted type"
=============================================================================
