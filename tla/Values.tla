------------------------------- MODULE Values --------------------------------
(***************************************************************************)
(* The life of a single value: how a literal enters the descriptor         *)
(* (microglot/descriptor_microglot.go), how constant folding computes with *)
(* it (optimizer.go), and which type the type checker lets it have         *)
(* (checker.go).                                                           *)
(*                                                                         *)
(* Integers are exact.  Of a float only its sign is known and whether it   *)
(* is zero, infinite or not a number, so that the outcomes of an operation *)
(* are a set.                                                              *)
(***************************************************************************)
EXTENDS Integers

CONSTANT Half  \* half the number of values of each width: 2^7, 2^15, ...

Widths == {8, 16, 32, 64}

ASSUME HalfAssumption ==
    /\ Half \in [Widths -> Nat \ {0}]
    /\ 2 * Half[8] <= Half[16] /\ 2 * Half[16] <= Half[32] /\ 2 * Half[32] <= Half[64]

Lowest(sign, w) == IF sign = "UInt" THEN 0 ELSE -Half[w]
Highest(sign, w) == IF sign = "UInt" THEN 2 * Half[w] - 1 ELSE Half[w] - 1
Span(sign, w) == Lowest(sign, w)..Highest(sign, w)

IntegerTypes == {"Int", "UInt"} \X Widths
FloatTypes == {"Float"} \X {32, 64}

Integer(type, n) == [kind |-> "integer", type |-> type, n |-> n]
Float(type, x)   == [kind |-> "float", type |-> type, x |-> x]
NaN              == [kind |-> "nan"]
Boolean(b)       == [kind |-> "boolean", b |-> b]
Text             == [kind |-> "text"]

IsInteger(v) == v.kind = "integer"
IsFloat(v)   == v.kind = "float"
IsNaN(v)     == v.kind = "nan"
IsBoolean(v) == v.kind = "boolean"
IsLiteral(v) == v.kind \in {"integer", "float", "nan", "boolean", "text"}

\* The x of a float: 0 for a zero of either sign, 1 and -1 for the other finite
\* numbers, 2 and -2 for the infinities.
FloatClasses == -2..2

IsInfinite(v) == IsFloat(v) /\ v.x \in {-2, 2}

InItsType(v) ==
    /\ IsInteger(v) => v.type \in IntegerTypes /\ v.n \in Span(v.type[1], v.type[2])
    /\ IsFloat(v) => v.type \in FloatTypes /\ v.x \in FloatClasses

-----------------------------------------------------------------------------
(* From the source text to the descriptor.                                 *)

\* (int32)(v.val) of the parser's uint64: only the low 32 bits are kept.
Wrap32(n) == ((n + Half[32]) % (2 * Half[32])) - Half[32]

\* Every integer literal enters as an Int32.
FromLiteral(n) == Integer(<<"Int", 32>>, Wrap32(n))

-----------------------------------------------------------------------------
(* Constant folding.  NilValue is the nil of the fold functions: the value *)
(* stays as it is.                                                         *)

NilValue == [kind |-> "nil"]
Nothing  == {NilValue}
Panic    == [kind |-> "panic"]

\* Mutant of FoldInteger: what no type holds is a panic.
FoldIntegerStrict(i) ==
    IF i \in Span("Int", 64) THEN {Integer(<<"Int", 64>>, i)} ELSE {Panic}

\* The type of an integer that fits: the code's ladder of boundaries.
FoldInteger(i) ==
    CASE i \in Span("UInt", 64) ->
           {Integer(<<"UInt", CASE i > Highest("UInt", 32) -> 64
                                [] i > Highest("UInt", 16) /\ i <= Highest("UInt", 32) -> 32
                                [] i > Highest("UInt", 8)  /\ i <= Highest("UInt", 16) -> 16
                                [] OTHER -> 8>>, i)}
      [] i \in Span("Int", 64) /\ i < 0 ->
           {Integer(<<"Int", CASE i < Lowest("Int", 32) -> 64
                               [] i < Lowest("Int", 16) /\ i >= Lowest("Int", 32) -> 32
                               [] i < Lowest("Int", 8)  /\ i >= Lowest("Int", 16) -> 16
                               [] OTHER -> 8>>, i)}
      [] OTHER -> Nothing

\* big.Int: Quo truncates, Mod is Euclidean, both panic for zero.
Abs(i) == IF i < 0 THEN -i ELSE i
Quo(i, j) == LET q == Abs(i) \div Abs(j) IN IF (i < 0) = (j < 0) THEN q ELSE -q
Mod(i, j) == i % Abs(j)

Arithmetic  == {"Add", "Subtract", "Multiply", "Divide", "Modulo"}
Comparisons == {"Equal", "NotEqual", "Less", "LessEqual", "Greater", "GreaterEqual"}
Unfolded    == {"BinOr", "BinAnd", "ShiftLeft", "ShiftRight"}

Calculate(op, i, j) ==
    CASE op = "Add"      -> i + j
      [] op = "Subtract" -> i - j
      [] op = "Multiply" -> i * j
      [] op = "Divide"   -> Quo(i, j)
      [] op = "Modulo"   -> Mod(i, j)

Compare(op, i, j) ==
    CASE op = "Equal"        -> i = j
      [] op = "NotEqual"     -> i # j
      [] op = "Less"         -> i < j
      [] op = "LessEqual"    -> i <= j
      [] op = "Greater"      -> i > j
      [] op = "GreaterEqual" -> i >= j

\* A float that is a Float32 but for its precision becomes one, the rest Float64.
FoldFloat(x) == {Float(t, x) : t \in IF Abs(x) = 1 THEN FloatTypes ELSE {<<"Float", 32>>}}

\* What an operation yields may be too large or too small for either.
FoldResult(x) == FoldFloat(x) \cup {v \in Nothing : Abs(x) = 1}

FoldUnary(op, v) ==
    CASE op = "Positive" /\ IsInteger(v) -> FoldInteger(v.n)
      [] op = "Negative" /\ IsInteger(v) -> FoldInteger(-v.n)
      [] op = "Positive" /\ IsFloat(v) -> FoldFloat(v.x)
      [] op = "Negative" /\ IsFloat(v) -> FoldFloat(-v.x)
      [] op \in {"Positive", "Negative"} /\ IsNaN(v) -> {Panic}
      [] op = "Not" /\ IsBoolean(v) -> {Boolean(~v.b)}
      [] OTHER -> Nothing

\* Operands of two kinds do not fold: check() is to complain about them.
FoldIntegers(op, i, j) ==
    CASE op \in {"Divide", "Modulo"} /\ j = 0 -> {Panic}
      [] op \in Comparisons -> {Boolean(Compare(op, i, j))}
      [] op \in Arithmetic /\ ~(op \in {"Divide", "Modulo"} /\ j = 0) ->
           FoldInteger(Calculate(op, i, j))
      [] OTHER -> Nothing

\* The operations that big.Float answers with a panic, ErrNaN.
NotANumber(op, x, y) ==
    \/ op = "Add"      /\ Abs(x) = 2 /\ y = -x
    \/ op = "Subtract" /\ Abs(x) = 2 /\ y = x
    \/ op = "Multiply" /\ {Abs(x), Abs(y)} = {0, 2}
    \/ op = "Divide"   /\ Abs(x) = Abs(y) /\ Abs(x) \in {0, 2}

\* The classes of the results of the others.  A zero divisor may be negative.
Sums(x, y)      == IF x * y = -1 THEN {-1, 0, 1} ELSE IF Abs(x) < Abs(y) THEN {y} ELSE {x}
Products(x, y)  == {IF Abs(x * y) > 2 THEN (x * y) \div 2 ELSE x * y}
Quotients(x, y) == IF y = 0 THEN {-2, 2} ELSE IF Abs(y) = 2 THEN {0} ELSE {x * y}

CalculateFloats(op, x, y) ==
    CASE op = "Add"      -> Sums(x, y)
      [] op = "Subtract" -> Sums(x, -y)
      [] op = "Multiply" -> Products(x, y)
      [] op = "Divide"   -> Quotients(x, y)

FloatArithmetic == Arithmetic \ {"Modulo"}

\* Two finite numbers of a sign compare either way.
FoldFloats(op, x, y) ==
    CASE op \in Comparisons ->
           {Boolean(b) : b \in IF x = y /\ Abs(x) = 1 THEN BOOLEAN ELSE {Compare(op, x, y)}}
      [] op \in FloatArithmetic /\ NotANumber(op, x, y) -> {Panic}
      [] op \in FloatArithmetic /\ ~NotANumber(op, x, y) ->
           UNION {FoldResult(z) : z \in CalculateFloats(op, x, y)}
      [] OTHER -> Nothing

\* unfoldFloat cannot hold a NaN.  It is asked of the right operand only if the
\* left one is a float.
FoldsNaN(op, l, r) ==
    op \in Comparisons \cup FloatArithmetic /\ (IsNaN(l) \/ (IsFloat(l) /\ IsNaN(r)))

FoldBooleans(op, a, b) ==
    CASE op = "Or"       -> {Boolean(a \/ b)}
      [] op = "And"      -> {Boolean(a /\ b)}
      [] op = "Equal"    -> {Boolean(a = b)}
      [] op = "NotEqual" -> {Boolean(a # b)}
      [] OTHER -> Nothing

FoldBinary(op, l, r) ==
    CASE IsInteger(l) /\ IsInteger(r) -> FoldIntegers(op, l.n, r.n)
      [] IsFloat(l) /\ IsFloat(r)     -> FoldFloats(op, l.x, r.x)
      [] FoldsNaN(op, l, r)           -> {Panic}
      [] IsBoolean(l) /\ IsBoolean(r) -> FoldBooleans(op, l.b, r.b)
      [] OTHER -> Nothing

\* A literal that is visited takes its smallest type.  A NaN is the default of a
\* .proto field: visiting it is enough for a panic.
FoldLiteral(v) ==
    CASE IsInteger(v) -> FoldInteger(v.n)
      [] IsFloat(v)   -> FoldFloat(v.x)
      [] IsNaN(v)     -> {Panic}
      [] OTHER        -> Nothing

-----------------------------------------------------------------------------
(* The type checker.                                                       *)

\* Mutant of Admits: unsigned values are let into signed types of their width.
AdmitsOwnWidth(v, type) ==
    \/ IsBoolean(v) /\ type = <<"Bool">>
    \/ v.kind = "text" /\ type = <<"Text">>
    \/ IsInteger(v) /\ type \in IntegerTypes /\ v.type[2] <= type[2]
    \/ IsFloat(v) /\ type \in FloatTypes /\ v.type[2] <= type[2]

\* checkValuePrimitive: the values a primitive type takes without a report.
Admits(v, type) ==
    \/ IsBoolean(v) /\ type = <<"Bool">>
    \/ v.kind = "text" /\ type = <<"Text">>
    \/ /\ IsInteger(v) /\ type \in IntegerTypes /\ v.type[1] = type[1]
       /\ v.type[2] <= type[2]
    \/ /\ IsInteger(v) /\ type \in IntegerTypes /\ v.type[1] = "UInt" /\ type[1] = "Int"
       /\ v.type[2] < type[2]
    \/ IsFloat(v) /\ type \in FloatTypes /\ v.type[2] <= type[2]
=============================================================================
