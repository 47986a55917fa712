---------------------------- MODULE MCOptimizer -----------------------------
(***************************************************************************)
(* Two constants and one other value, each a literal, an identifier or one *)
(* operation on such; integer types of 2, 3, 4 and 5 bits; floats that     *)
(* divide by zero, and what then becomes of the infinities.                *)
(***************************************************************************)
EXTENDS OptimizerInvariant

CONSTANTS a, b, d

\* A value has up to two operands.
MCParts == {a, b, d} \X {1, 2}

MCHalf == [w \in Widths |-> CASE w = 8 -> 2 [] w = 16 -> 4 [] w = 32 -> 8 [] w = 64 -> 16]

\* 1 and 3 fit every unsigned type, 7 some; 9 wraps.
Leaves == {FromLiteral(n) : n \in {1, 3, 7, 9}} \cup {Identifier(c) : c \in Constants}
FewLeaves == {FromLiteral(n) : n \in {0, 7}} \cup {Identifier(c) : c \in Constants}

\* What value n may be: its Kind and those of its two operands.
ValuesOf(n, leaves) ==
    {<<k, NoKind, NoKind>> : k \in leaves}
    \cup {<<Unary("Negative", <<n, 1>>), l, NoKind>> : l \in leaves}
    \cup {<<Binary(op, <<n, 1>>, <<n, 2>>), l, r>> :
              op \in {"Multiply", "Divide"}, l \in leaves, r \in leaves}

Build(x, y, z) ==
    [n \in Nodes |->
       CASE n = a -> x[1] [] n = <<a, 1>> -> x[2] [] n = <<a, 2>> -> x[3]
         [] n = b -> y[1] [] n = <<b, 1>> -> y[2] [] n = <<b, 2>> -> y[3]
         [] n = d -> z[1] [] n = <<d, 1>> -> z[2] [] n = <<d, 2>> -> z[3]]

Double(x) == Float(<<"Float", 64>>, x)

\* a divides floats, b is made of it or not, and d is an operation of both.
FloatPrograms ==
    {Build(<<Binary("Divide", <<a, 1>>, <<a, 2>>), Double(x), Double(y)>>, v,
           <<Binary(op, <<d, 1>>, <<d, 2>>), Identifier(a), Identifier(b)>>) :
       x \in {-1, 0, 1}, y \in {0, 1},
       v \in {<<Unary("Negative", <<b, 1>>), Identifier(a), NoKind>>,
              <<Identifier(a), NoKind, NoKind>>,
              <<Double(0), NoKind, NoKind>>, <<Double(1), NoKind, NoKind>>},
       op \in FloatArithmetic \cup {"Less"}}
    \cup
    \* A default of a .proto file.
    {Build(<<Double(1), NoKind, NoKind>>, <<Text, NoKind, NoKind>>, <<v, NoKind, NoKind>>) :
       v \in {NaN, Double(2)}}

MCPrograms ==
    FloatPrograms
    \cup
    {Build(x, y, z) : x \in ValuesOf(a, FewLeaves), y \in ValuesOf(b, FewLeaves),
                      z \in {<<Identifier(c), NoKind, NoKind>> : c \in Constants}}
    \cup
    {Build(x, y, z) : x \in {<<l, NoKind, NoKind>> : l \in Leaves},
                      y \in {<<Unary("Negative", <<b, 1>>), l, NoKind>> : l \in Leaves},
                      z \in {<<Unary("Not", <<d, 1>>), Identifier(c), NoKind>> : c \in Constants}
                             \cup {<<Binary(op, <<d, 1>>, <<d, 2>>), Identifier(a), Identifier(b)>> :
                                      op \in {"Less", "Add", "Modulo", "And", "ShiftLeft"}}}
    \cup
    {Build(<<v, NoKind, NoKind>>, <<w, NoKind, NoKind>>,
           <<Binary(op, <<d, 1>>, <<d, 2>>), Identifier(a), Identifier(b)>>) :
       v \in {Boolean(TRUE), Boolean(FALSE), Double(1), Text},
       w \in {Boolean(TRUE), Double(1), FromLiteral(1)},
       op \in {"Or", "Equal", "Divide", "Add", "LessEqual"}}

=============================================================================
