------------------------------- MODULE Protoc --------------------------------
(***************************************************************************)
(* The names of .proto files by protoc's rules, and the descriptor protoc  *)
(* makes of a file, which is what the compiler's is compared with          *)
(* (descriptor_diff.bash).  Files and references are as in FromProto, full *)
(* names are sequences that begin with the segments of the package.        *)
(***************************************************************************)
EXTENDS Integers, SequencesExt

\* The paths to messages and enums.
RECURSIVE PathsOf(_, _)
PathsOf(messages, enums) ==
    {<<e.name>> : e \in ToSet(enums)} \cup
    UNION {{<<m.name>>} \cup {<<m.name>> \o p : p \in PathsOf(m.nested, m.enums)}
              : m \in ToSet(messages)}

FullNames(file) == {file.package \o p : p \in PathsOf(file.messages, file.enums)}
TopLevel(file)  == {file.package \o p : p \in {q \in PathsOf(file.messages, file.enums) : Len(q) = 1}}

\* The enums among the full names.
RECURSIVE EnumPaths(_, _)
EnumPaths(messages, enums) ==
    {<<e.name>> : e \in ToSet(enums)} \cup
    UNION {{<<m.name>> \o p : p \in EnumPaths(m.nested, m.enums)} : m \in ToSet(messages)}

\* The full name that ref has in scope of a package, or none: the innermost scope
\* in which its first name means anything has to have the whole.
Resolve(files, package, scope, ref) ==
    LET names == UNION {FullNames(f) : f \in files}
        all   == Append(ref.qualifier, ref.base)
        Outer(k) == SubSeq(package \o scope, 1, k)
        means == {k \in 0..Len(package \o scope) :
                     \E n \in names : IsPrefix(Append(Outer(k), Head(all)), n)}
        full  == IF ref.absolute THEN all
                 ELSE IF means = {} THEN << >>
                 ELSE Outer(CHOOSE k \in means : \A j \in means : j <= k) \o all
    IN  IF full \in names THEN full ELSE << >>

\* The file with full names.
Linked(files, file) ==
    LET enums == UNION {{f.package \o p : p \in EnumPaths(f.messages, f.enums)} : f \in files}
        Name(scope, ref) == Resolve(files, file.package, scope, ref)
        Field(scope, f) ==
            [f EXCEPT !.type = IF @ # "NAMED" THEN @
                               ELSE IF Name(scope, f.ref) \in enums THEN "TYPE_ENUM"
                               ELSE "TYPE_MESSAGE",
                      !.ref  = IF f.type # "NAMED" THEN [absolute |-> FALSE, names |-> << >>]
                               ELSE [absolute |-> TRUE, names |-> Name(scope, f.ref)]]
        RECURSIVE Message(_, _)
        Message(scope, m) ==
            LET inside == Append(scope, m.name)
            IN  [m EXCEPT !.fields = [i \in DOMAIN @ |-> Field(inside, @[i])],
                          !.nested = [i \in DOMAIN @ |-> Message(inside, @[i])]]
        Method(m) == [name   |-> m.name,
                      input  |-> [absolute |-> TRUE, names |-> Name(<< >>, m.input)],
                      output |-> [absolute |-> TRUE, names |-> Name(<< >>, m.output)]]
    IN  [file EXCEPT
           !.messages = [i \in DOMAIN @ |-> Message(<< >>, @[i])],
           !.services = [i \in DOMAIN @ |->
              [@[i] EXCEPT !.methods = [k \in DOMAIN @ |-> Method(@[k])]]]]

\* What the fields of a message refer to, in a descriptor.
RECURSIVE AllRefs(_)
AllRefs(m) ==
    {f.ref : f \in {g \in ToSet(m.fields) : g.type \in {"TYPE_MESSAGE", "TYPE_ENUM"}}}
    \cup UNION {AllRefs(n) : n \in ToSet(m.nested)}

RECURSIVE NestedEnums(_)
NestedEnums(m) == m.enums # << >> \/ \E n \in ToSet(m.nested) : NestedEnums(n)
=============================================================================
