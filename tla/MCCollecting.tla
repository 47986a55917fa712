----------------------------- MODULE MCCollecting -----------------------------
(***************************************************************************)
(* Modules that clash with each other, or with themselves, in every way    *)
(* collect looks at, and some in nested protobuf packages that do not.     *)
(***************************************************************************)
EXTENDS Collecting

CONSTANTS p, q,              \* segments of protobuf packages
          T, U, f, g         \* names of types and attributes

Input(name, uid) == [name |-> name, uid |-> uid]
Attribute(name, uid, inputs) == [name |-> name, uid |-> uid, inputs |-> inputs]
Type(name, uid, attributes) == [name |-> name, uid |-> uid, attributes |-> attributes]
Module(uri, uid, pkg, types) == [uri |-> uri, uid |-> uid, pkg |-> pkg, types |-> types]

Struct(name, uid) == Type(name, uid, <<Attribute(f, 1, << >>), Attribute(g, 2, << >>)>>)

MCCandidates ==
    {\* two modules that declare p.T
     Module("one", 1, <<p>>, <<Struct(T, 1), Struct(U, 2)>>),
     Module("two", 2, <<p>>, <<Struct(T, 3)>>),
     \* p.q.T, and the module UID of the first
     Module("three", 3, <<p, q>>, <<Struct(T, 1)>>),
     Module("four", 1, <<q>>, <<Struct(T, 1)>>),
     \* no package
     Module("five", 5, << >>, <<Struct(T, 1), Struct(U, 2)>>),
     \* two types of one name, of one UID; two fields of one name, of one UID;
     \* two inputs of one name
     Module("six", 6, <<q, p>>, <<Struct(T, 1), Type(T, 2, << >>)>>),
     Module("seven", 7, <<q, q>>, <<Struct(T, 1), Struct(U, 1)>>),
     Module("eight", 8, <<p, p>>,
        <<Type(T, 1, <<Attribute(f, 1, << >>), Attribute(f, 2, << >>)>>)>>),
     Module("nine", 9, <<p>>,
        <<Type(f, 1, <<Attribute(f, 1, << >>), Attribute(g, 1, << >>)>>)>>),
     Module("ten", 10, <<p>>,
        <<Type(g, 1, <<Attribute(f, 1, <<Input(f, 7), Input(f, 8)>>)>>)>>)}

MCPackages == {<< >>, <<p>>, <<p, q>>, <<q>>}

MCNames == [absolute : BOOLEAN, qualifier : {<< >>, <<p>>, <<q>>, <<p, q>>}, base : {T, U}]
=============================================================================
