--------------------------- MODULE OptimizerProofs ----------------------------
(***************************************************************************)
(* Proofs about Optimizer and Values, for integer types of any widths, any *)
(* constants, any values in terms of them and any order of modules.        *)
(***************************************************************************)
EXTENDS OptimizerInvariant, TLAPS, FiniteSetTheorems

-----------------------------------------------------------------------------
(* The types of integers.                                                  *)

\* A type holds all numbers of a narrower one of its sign, and a signed type all
\* numbers of an unsigned one that is strictly narrower.
LEMMA SpansGrow ==
    ASSUME NEW v \in Widths, NEW w \in Widths, v <= w
    PROVE  /\ Span("UInt", v) \subseteq Span("UInt", w)
           /\ Span("Int", v) \subseteq Span("Int", w)
           /\ v < w => Span("UInt", v) \subseteq Span("Int", w)
<1>1. /\ Half[8] \in Nat \ {0} /\ Half[16] \in Nat \ {0}
      /\ Half[32] \in Nat \ {0} /\ Half[64] \in Nat \ {0}
  BY HalfAssumption DEF Widths
<1>2. Half[v] \in Nat \ {0} /\ Half[w] \in Nat \ {0}
  BY <1>1 DEF Widths
<1>3. Half[v] <= Half[w] /\ (v < w => 2 * Half[v] <= Half[w])
  BY <1>1, HalfAssumption DEF Widths
<1> QED
  BY <1>2, <1>3 DEF Span, Lowest, Highest

\* Whatever i is, what it folds to is i, in a type that holds it.
LEMMA FoldedFits ==
    ASSUME NEW i, NEW v \in FoldInteger(i), v # NilValue
    PROVE  InItsType(v) /\ IsInteger(v) /\ v.n = i
<1>1. /\ Half[8] \in Nat \ {0} /\ Half[16] \in Nat \ {0}
      /\ Half[32] \in Nat \ {0} /\ Half[64] \in Nat \ {0}
  BY HalfAssumption DEF Widths
<1>2. CASE i \in Span("UInt", 64)
  <2>1. PICK w \in Widths : v = Integer(<<"UInt", w>>, i) /\ i <= Highest("UInt", w)
    BY <1>1, <1>2 DEF FoldInteger, Widths, Span, Lowest, Highest
  <2>2. i \in Span("UInt", w)
    BY <1>1, <1>2, <2>1 DEF Span, Lowest, Highest, Widths
  <2> QED
    BY <2>1, <2>2 DEF InItsType, IsInteger, IsFloat, Integer, IntegerTypes
<1>3. CASE i \in Span("Int", 64) /\ i < 0
  <2>0. i \notin Span("UInt", 64)
    BY <1>1, <1>3 DEF Span, Lowest, Highest
  <2>1. PICK w \in Widths : v = Integer(<<"Int", w>>, i) /\ i >= Lowest("Int", w)
    BY <1>1, <1>3, <2>0 DEF FoldInteger, Widths, Span, Lowest, Highest
  <2>2. i \in Span("Int", w)
    BY <1>1, <1>3, <2>1 DEF Span, Lowest, Highest, Widths
  <2> QED
    BY <2>1, <2>2 DEF InItsType, IsInteger, IsFloat, Integer, IntegerTypes
<1>4. i \in Span("UInt", 64) \/ (i \in Span("Int", 64) /\ i < 0)
  BY DEF FoldInteger, Nothing
<1> QED
  BY <1>2, <1>3, <1>4

\* An integer in its type that the checker takes for another type is in that, too.
LEMMA AdmittedFits ==
    ASSUME NEW v, InItsType(v), IsLiteral(v), NEW type \in IntegerTypes, Admits(v, type)
    PROVE  v.n \in Span(type[1], type[2])
<1>1. type[1] \in {"Int", "UInt"} /\ type[2] \in Widths
  BY DEF IntegerTypes
<1>2. type # <<"Bool">> /\ type # <<"Text">> /\ type \notin FloatTypes
  BY <1>1 DEF FloatTypes
<1>3. IsInteger(v)
  BY <1>2 DEF Admits
<1>4. /\ v.type[1] \in {"Int", "UInt"} /\ v.type[2] \in Widths
      /\ v.n \in Span(v.type[1], v.type[2])
  BY <1>3 DEF InItsType, IntegerTypes
<1>5. /\ v.type[2] <= type[2]
      /\ v.type[1] = type[1] \/ (v.type[1] = "UInt" /\ type[1] = "Int" /\ v.type[2] < type[2])
  BY <1>1, <1>2, <1>3, <1>4 DEF Admits, Widths
<1> QED
  BY <1>1, <1>4, <1>5, SpansGrow

-----------------------------------------------------------------------------
(* The outcomes of folds.                                                  *)

\* A fold gives a literal in its type, leaves the value as it is, or panics.
Literals(outcomes) ==
    \A v \in outcomes : (IsLiteral(v) /\ InItsType(v)) \/ v = Panic \/ v = NilValue

\* A set of literals without an infinity.
Finite(outcomes) == \A v \in outcomes : ~IsNaN(v) /\ ~IsInfinite(v)

\* The literals are neither nil nor a panic.
LEMMA LiteralsAreNot == \A v : IsLiteral(v) => v # NilValue /\ v # Panic
BY DEF IsLiteral, NilValue, Panic

\* To stay as it is.
LEMMA NothingIsFine == Literals(Nothing) /\ Panic \notin Nothing /\ Finite(Nothing)
BY DEF Literals, Nothing, NilValue, Panic, Finite, IsNaN, IsInfinite, IsFloat

\* Folding an integer alone never panics.
LEMMA FoldedInteger ==
    ASSUME NEW i
    PROVE  Literals(FoldInteger(i)) /\ Panic \notin FoldInteger(i) /\ Finite(FoldInteger(i))
<1>1. ASSUME NEW v \in FoldInteger(i), v # NilValue
      PROVE  IsLiteral(v) /\ InItsType(v) /\ IsInteger(v)
  BY <1>1, FoldedFits DEF IsLiteral, IsInteger
<1> QED
  BY <1>1 DEF Literals, Finite, IsInteger, Panic, NilValue, IsNaN, IsInfinite, IsFloat

\* A float folds to a float of its class.
LEMMA FoldedFloat ==
    ASSUME NEW x \in FloatClasses
    PROVE  /\ \A v \in FoldFloat(x) : IsFloat(v) /\ v.x = x
           /\ Literals(FoldFloat(x)) /\ Panic \notin FoldFloat(x)
           /\ FoldFloat(x) # {} /\ NilValue \notin FoldFloat(x)
           /\ x \notin {-2, 2} => Finite(FoldFloat(x))
<1>0. \A t : /\ Float(t, x).kind = "float" /\ Float(t, x).type = t /\ Float(t, x).x = x
  BY DEF Float
<1>1. \A v \in FoldFloat(x) : \E t \in FloatTypes : v = Float(t, x)
  BY DEF FoldFloat, FloatTypes
<1>2. Float(<<"Float", 32>>, x) \in FoldFloat(x)
  <2>1. <<"Float", 32>> \in IF Abs(x) = 1 THEN FloatTypes ELSE {<<"Float", 32>>}
    BY DEF FloatTypes
  <2> QED
    BY <2>1 DEF FoldFloat
<1> QED
  BY <1>0, <1>1, <1>2
  DEF Literals, IsLiteral, InItsType, IsInteger, IsFloat, Panic, NilValue, Finite, IsNaN, IsInfinite

\* So does the result of an operation, if it is neither too large nor too small.
LEMMA FoldedResult ==
    ASSUME NEW x \in FloatClasses
    PROVE  /\ Literals(FoldResult(x)) /\ Panic \notin FoldResult(x)
           /\ \A v \in FoldResult(x) : v # NilValue => IsFloat(v)
           /\ x \notin {-2, 2} => Finite(FoldResult(x))
<1>1. FoldResult(x) \subseteq FoldFloat(x) \cup Nothing
  BY DEF FoldResult
<1> QED
  BY <1>1, FoldedFloat, NothingIsFine DEF Literals, Finite, Nothing

\* A boolean is a literal.
LEMMA FoldedBoolean ==
    ASSUME NEW b
    PROVE  /\ IsLiteral(Boolean(b)) /\ InItsType(Boolean(b))
           /\ Boolean(b) # Panic /\ ~IsNaN(Boolean(b)) /\ ~IsInfinite(Boolean(b))
BY DEF Boolean, IsLiteral, InItsType, IsInteger, IsFloat, Panic, IsNaN, IsInfinite

\* Operations of one operand panic for what is not a number, and infinities come
\* of infinities.
LEMMA FoldedUnary ==
    ASSUME NEW op, NEW v, InItsType(v)
    PROVE  /\ Literals(FoldUnary(op, v))
           /\ Panic \in FoldUnary(op, v) => IsNaN(v)
           /\ ~IsInfinite(v) => Finite(FoldUnary(op, v))
<1>1. CASE IsInteger(v)
  <2>1. FoldUnary(op, v) \in {FoldInteger(v.n), FoldInteger(-v.n), Nothing}
    BY <1>1 DEF FoldUnary, IsInteger, IsFloat, IsNaN, IsBoolean
  <2> QED
    BY <2>1, FoldedInteger, NothingIsFine
<1>2. CASE IsFloat(v)
  <2>1. v.x \in FloatClasses /\ -v.x \in FloatClasses
    BY <1>2 DEF InItsType, FloatClasses
  <2>2. ~IsInfinite(v) => v.x \notin {-2, 2} /\ -v.x \notin {-2, 2}
    BY <1>2, <2>1 DEF IsInfinite, FloatClasses
  <2>3. FoldUnary(op, v) \in {FoldFloat(v.x), FoldFloat(-v.x), Nothing}
    BY <1>2 DEF FoldUnary, IsInteger, IsFloat, IsNaN, IsBoolean
  <2> QED
    BY <2>1, <2>2, <2>3, FoldedFloat, NothingIsFine
<1>3. CASE IsNaN(v)
  <2>1. FoldUnary(op, v) \in {{Panic}, Nothing}
    BY <1>3 DEF FoldUnary, IsInteger, IsFloat, IsNaN, IsBoolean
  <2>2. Literals({Panic}) /\ Finite({Panic})
    BY DEF Literals, Finite, Panic, IsNaN, IsInfinite, IsFloat
  <2> QED
    BY <1>3, <2>1, <2>2, NothingIsFine
<1>4. CASE ~IsInteger(v) /\ ~IsFloat(v) /\ ~IsNaN(v)
  <2>1. FoldUnary(op, v) \in {{Boolean(~v.b)}, Nothing}
    BY <1>4 DEF FoldUnary
  <2> QED
    BY <2>1, FoldedBoolean, NothingIsFine DEF Literals, Finite
<1> QED
  BY <1>1, <1>2, <1>3, <1>4

\* So do literals alone.
LEMMA FoldedLiteral ==
    ASSUME NEW v, InItsType(v)
    PROVE  /\ Literals(FoldLiteral(v))
           /\ Panic \in FoldLiteral(v) => IsNaN(v)
           /\ ~IsInfinite(v) => Finite(FoldLiteral(v))
<1>1. CASE IsInteger(v)
  BY <1>1, FoldedInteger DEF FoldLiteral, IsInteger, IsFloat, IsNaN
<1>2. CASE IsFloat(v)
  <2>1. v.x \in FloatClasses /\ FoldLiteral(v) = FoldFloat(v.x)
    BY <1>2 DEF InItsType, FoldLiteral, IsInteger, IsFloat, IsNaN
  <2> QED
    BY <1>2, <2>1, FoldedFloat DEF IsInfinite
<1>3. CASE IsNaN(v)
  <2>1. FoldLiteral(v) = {Panic}
    BY <1>3 DEF FoldLiteral, IsInteger, IsFloat, IsNaN
  <2>2. Literals({Panic}) /\ Finite({Panic})
    BY DEF Literals, Finite, Panic, IsNaN, IsInfinite, IsFloat
  <2> QED
    BY <1>3, <2>1, <2>2
<1>4. CASE ~IsInteger(v) /\ ~IsFloat(v) /\ ~IsNaN(v)
  BY <1>4, NothingIsFine DEF FoldLiteral
<1> QED
  BY <1>1, <1>2, <1>3, <1>4

\* A value divides by zero.
ZeroDivisor(op, r) ==
    \/ op \in {"Divide", "Modulo"} /\ IsInteger(r) /\ r.n = 0
    \/ op = "Divide" /\ IsFloat(r) /\ r.x = 0

\* What operations of two operands may do, and what a panic or an infinity is due to.
Founds(S, op, l, r) ==
    /\ Literals(S)
    /\ Panic \in S \/ ~Finite(S) =>
          \/ IsNaN(l) \/ IsInfinite(l) \/ IsNaN(r) \/ IsInfinite(r)
          \/ ZeroDivisor(op, r)

\* The classes of the results of arithmetic with floats.
LEMMA CalculatedFloats ==
    ASSUME NEW op \in FloatArithmetic, NEW x \in FloatClasses, NEW y \in FloatClasses,
           ~NotANumber(op, x, y), NEW z \in CalculateFloats(op, x, y)
    PROVE  /\ z \in FloatClasses
           /\ z \in {-2, 2} => x \in {-2, 2} \/ y \in {-2, 2} \/ (op = "Divide" /\ y = 0)
<1>0. /\ x \in {-2, -1, 0, 1, 2} /\ y \in {-2, -1, 0, 1, 2}
      /\ op \in {"Add", "Subtract", "Multiply", "Divide"}
  BY DEF FloatClasses, FloatArithmetic, Arithmetic
<1>1. \A u, v \in {-2, -1, 0, 1, 2} : \A w \in Sums(u, v) :
         w \in {-2, -1, 0, 1, 2} /\ (w \in {-2, 2} => u \in {-2, 2} \/ v \in {-2, 2})
  BY DEF Sums, Abs
<1>2. CASE op = "Add"
  BY <1>0, <1>1, <1>2 DEF CalculateFloats, FloatClasses
<1>3. CASE op = "Subtract"
  <2>1. z \in Sums(x, -y) /\ -y \in {-2, -1, 0, 1, 2}
    BY <1>0, <1>3 DEF CalculateFloats
  <2> QED
    BY <1>0, <1>1, <2>1 DEF FloatClasses
<1>4. CASE op = "Multiply"
  <2>1. z \in Products(x, y)
    BY <1>4 DEF CalculateFloats
  <2> QED
    BY <1>0, <2>1 DEF Products, Abs, FloatClasses
<1>5. CASE op = "Divide"
  <2>1. z \in Quotients(x, y)
    BY <1>5 DEF CalculateFloats
  <2> QED
    BY <1>0, <1>5, <2>1 DEF Quotients, Abs, FloatClasses
<1> QED
  BY <1>0, <1>2, <1>3, <1>4, <1>5

\* Operations on integers panic for divisors that are zero.
LEMMA FoldedIntegers ==
    ASSUME NEW op, NEW l, NEW r, IsInteger(r)
    PROVE  Founds(FoldIntegers(op, l.n, r.n), op, l, r)
<1>1. CASE op \in {"Divide", "Modulo"} /\ r.n = 0
  <2>1. FoldIntegers(op, l.n, r.n) = {Panic}
    BY <1>1 DEF FoldIntegers, Comparisons, Arithmetic
  <2>2. ZeroDivisor(op, r)
    BY <1>1 DEF ZeroDivisor
  <2> QED
    BY <2>1, <2>2 DEF Literals, Founds
<1>2. CASE ~(op \in {"Divide", "Modulo"} /\ r.n = 0)
  <2>1. FoldIntegers(op, l.n, r.n) \in
           {{Boolean(Compare(op, l.n, r.n))}, FoldInteger(Calculate(op, l.n, r.n)), Nothing}
    BY <1>2 DEF FoldIntegers
  <2> QED
    BY <2>1, FoldedInteger, FoldedBoolean, NothingIsFine DEF Literals, Finite, Founds
<1> QED
  BY <1>1, <1>2

\* Operations on floats panic for infinities, and for a zero divisor.
LEMMA FoldedFloats ==
    ASSUME NEW op, NEW l, NEW r, IsFloat(l), IsFloat(r), InItsType(l), InItsType(r)
    PROVE  Founds(FoldFloats(op, l.x, r.x), op, l, r)
<1> DEFINE x == l.x
           y == r.x
<1>0. x \in FloatClasses /\ y \in FloatClasses
  BY DEF InItsType
<1>1. CASE op \in Comparisons
  <2>1. FoldFloats(op, x, y)
           = {Boolean(b) : b \in IF x = y /\ Abs(x) = 1 THEN BOOLEAN ELSE {Compare(op, x, y)}}
    BY <1>1 DEF FoldFloats, FloatArithmetic, Arithmetic, Comparisons
  <2>2. \A v \in FoldFloats(op, x, y) : \E b : v = Boolean(b)
    BY <2>1
  <2> QED
    BY <2>2, FoldedBoolean DEF Founds, Literals, Finite
<1>2. CASE op \in FloatArithmetic /\ NotANumber(op, x, y)
  <2>1. FoldFloats(op, x, y) = {Panic}
    BY <1>2 DEF FoldFloats, FloatArithmetic, Arithmetic, Comparisons
  <2>2. \/ x \in {-2, 2} \/ y \in {-2, 2}
        \/ op = "Divide" /\ y = 0
    BY <1>0, <1>2 DEF NotANumber, Abs, FloatClasses
  <2>3. IsInfinite(l) \/ IsInfinite(r) \/ ZeroDivisor(op, r)
    BY <2>2 DEF IsInfinite, ZeroDivisor
  <2> QED
    BY <2>1, <2>3 DEF Founds, Literals
<1>3. CASE op \in FloatArithmetic /\ ~NotANumber(op, x, y)
  <2> DEFINE Z == CalculateFloats(op, x, y)
  <2>1. FoldFloats(op, x, y) = UNION {FoldResult(z) : z \in Z}
    BY <1>3 DEF FoldFloats, FloatArithmetic, Arithmetic, Comparisons
  <2>2. \A z \in Z : /\ z \in FloatClasses
                     /\ z \in {-2, 2} => IsInfinite(l) \/ IsInfinite(r) \/ ZeroDivisor(op, r)
    BY <1>0, <1>3, CalculatedFloats DEF IsInfinite, ZeroDivisor
  <2> HIDE DEF Z
  <2>3. ASSUME NEW v \in FoldFloats(op, x, y)
        PROVE  /\ (IsLiteral(v) /\ InItsType(v)) \/ v = NilValue
               /\ v # Panic
               /\ IsNaN(v) \/ IsInfinite(v) => IsInfinite(l) \/ IsInfinite(r) \/ ZeroDivisor(op, r)
    <3>1. PICK z \in Z : v \in FoldResult(z)
      BY <2>1
    <3> QED
      BY <2>2, <3>1, FoldedResult DEF Literals, Finite
  <2> QED
    BY <2>3 DEF Founds, Literals, Finite
<1>4. CASE op \notin Comparisons /\ op \notin FloatArithmetic
  <2>1. FoldFloats(op, x, y) = Nothing
    BY <1>4 DEF FoldFloats
  <2> QED
    BY <2>1, NothingIsFine DEF Founds
<1> QED
  BY <1>1, <1>2, <1>3, <1>4

\* Operations of two operands panic for divisors that are zero, for infinities and
\* for what is not a number; infinities come of such, too.
LEMMA FoldedBinary ==
    ASSUME NEW op, NEW l, NEW r, InItsType(l), InItsType(r)
    PROVE  Founds(FoldBinary(op, l, r), op, l, r)
<1>1. Founds(Nothing, op, l, r)
  BY NothingIsFine DEF Founds
<1>2. IsNaN(l) \/ IsNaN(r) => Founds({Panic}, op, l, r)
  BY DEF Founds, Literals
<1>3. Founds(FoldBooleans(op, l.b, r.b), op, l, r)
  <2>1. FoldBooleans(op, l.b, r.b) \in {{Boolean(l.b \/ r.b)}, {Boolean(l.b /\ r.b)},
                                       {Boolean(l.b = r.b)}, {Boolean(l.b # r.b)}, Nothing}
    BY DEF FoldBooleans
  <2> QED
    BY <1>1, <2>1, FoldedBoolean DEF Literals, Finite, Founds
<1>4. \/ IsInteger(r) /\ FoldBinary(op, l, r) = FoldIntegers(op, l.n, r.n)
      \/ IsFloat(l) /\ IsFloat(r) /\ FoldBinary(op, l, r) = FoldFloats(op, l.x, r.x)
      \/ (IsNaN(l) \/ IsNaN(r)) /\ FoldBinary(op, l, r) = {Panic}
      \/ FoldBinary(op, l, r) = FoldBooleans(op, l.b, r.b)
      \/ FoldBinary(op, l, r) = Nothing
  BY DEF FoldBinary, IsInteger, IsFloat, IsBoolean, IsNaN, FoldsNaN
<1> QED
  BY <1>1, <1>2, <1>3, <1>4, FoldedIntegers, FoldedFloats

-----------------------------------------------------------------------------
(* The invariant.                                                          *)

\* What an identifier refers to and what an operation has as operands are nodes.
LEMMA WrittenIsWellFormed ==
    ASSUME program \in Programs, NEW k \in Written
    PROVE  /\ IsIdentifier(k) => k.of \in Nodes
           /\ IsUnary(k) \/ IsBinary(k) => k.left \in Nodes
           /\ IsBinary(k) => k.right \in Nodes
<1>1. PICK n \in Nodes : k = program[n]
  BY DEF Written
<1> QED
  BY <1>1, ProgramsAssumption DEF Nodes, Roots

\* The frames that a descent into an operation pushes.
LEMMA OperandFrames ==
    ASSUME program \in Programs, NEW k \in Written
    PROVE  /\ Operands(k, Walk) \in Seq(Frames)
           /\ Operands(k, Optimize) \in Seq(Frames)
<1>1. \A n \in Nodes : Walk(n) \in Frames /\ Optimize(n) \in Frames
  BY DEF Walk, Optimize, Frame, Frames
<1>2. CASE IsUnary(k)
  <2>1. k.left \in Nodes /\ ~IsBinary(k)
    BY <1>2, WrittenIsWellFormed DEF IsUnary, IsBinary
  <2>2. /\ Operands(k, Walk) = <<Walk(k.left)>>
        /\ Operands(k, Optimize) = <<Optimize(k.left)>>
    BY <1>2, <2>1 DEF Operands
  <2> QED
    BY <1>1, <2>1, <2>2
<1>3. CASE IsBinary(k)
  <2>1. k.left \in Nodes /\ k.right \in Nodes /\ ~IsUnary(k)
    BY <1>3, WrittenIsWellFormed DEF IsUnary, IsBinary
  <2>2. /\ Operands(k, Walk) = <<Walk(k.left), Walk(k.right)>>
        /\ Operands(k, Optimize) = <<Optimize(k.left), Optimize(k.right)>>
    BY <1>3, <2>1 DEF Operands
  <2> QED
    BY <1>1, <2>1, <2>2
<1>4. CASE ~IsUnary(k) /\ ~IsBinary(k)
  <2>1. Operands(k, Walk) = << >> /\ Operands(k, Optimize) = << >>
    BY <1>4 DEF Operands
  <2> QED
    BY <2>1
<1> QED
  BY <1>2, <1>3, <1>4

\* A step at the top of the stack works on a node, and leaves a stack.
LEMMA TopIsFrame ==
    ASSUME Inductive, stack # << >>
    PROVE  /\ Top \in Frames
           /\ Top.node \in Nodes
           /\ Top.do = "fold" => Top.kind \in Operations
           /\ Tail(stack) \in Seq(Frames)
           /\ \A frames \in Seq(Frames) : frames \o Tail(stack) \in Seq(Frames)
<1>1. Top \in Frames /\ Tail(stack) \in Seq(Frames)
  BY DEF Inductive, Top
<1> QED
  BY <1>1 DEF Frames

\* What the operands of an operation are, is in their types.
LEMMA OperandsAreSound ==
    ASSUME Inductive, NEW k \in Operations
    PROVE  /\ k.left \in Nodes /\ InItsType(kind[k.left])
           /\ IsBinary(k) => k.right \in Nodes /\ InItsType(kind[k.right])
<1>1. k \in Written /\ (IsUnary(k) \/ IsBinary(k)) /\ program \in Programs
  BY DEF Operations, Inductive
<1>2. k.left \in Nodes /\ (IsBinary(k) => k.right \in Nodes)
  BY <1>1, WrittenIsWellFormed
<1> QED
  BY <1>2 DEF Inductive, KindsAreSound

\* So is what they fold to.
LEMMA OutcomesAreLiterals ==
    ASSUME Inductive, NEW k \in Operations
    PROVE  Literals(Outcomes(k))
<1>1. IsUnary(k) \/ IsBinary(k)
  BY DEF Operations
<1>2. CASE IsUnary(k)
  BY <1>2, OperandsAreSound, FoldedUnary DEF Outcomes
<1>3. CASE ~IsUnary(k)
  BY <1>1, <1>3, OperandsAreSound, FoldedBinary DEF Outcomes, Founds
<1> QED
  BY <1>2, <1>3

\* A node that becomes an outcome is sound, and a panic leaves all as it is.
LEMMA BecomeIsSound ==
    ASSUME Inductive, NEW n \in Nodes, NEW outcomes, Literals(outcomes),
           Become(n, outcomes), program' = program
    PROVE  /\ KindsAreSound'
           /\ pc' # pc => Panic \in outcomes /\ kind' = kind
<1>1. CASE kind' = kind
  <2>1. KindsAreSound'
    BY <1>1 DEF Inductive, KindsAreSound, Written
  <2>2. pc' # pc => Panic \in outcomes
    BY DEF Become
  <2> QED
    BY <1>1, <2>1, <2>2
<1>2. CASE kind' # kind
  <2>1. PICK v \in outcomes : IsLiteral(v) /\ kind' = [kind EXCEPT ![n] = v] /\ pc' = pc
    BY <1>2 DEF Become
  <2>2. InItsType(v)
    BY <2>1, LiteralsAreNot DEF Literals
  <2>3. KindsAreSound'
    BY <2>1, <2>2 DEF Inductive, KindsAreSound, Written
  <2> QED
    BY <2>1, <2>3
<1> QED
  BY <1>1, <1>2

-----------------------------------------------------------------------------
(* The steps.                                                              *)

\* What the walk begins with.
LEMMA InitIsInductive == Init => Inductive
<1> SUFFICES ASSUME Init PROVE Inductive
  OBVIOUS
<1>1. KindsAreSound
  <2>1. \A n \in Nodes : kind[n] \in Written
    BY DEF Init, Written
  <2> QED
    BY <2>1, ProgramsAssumption DEF Init, KindsAreSound
<1>2. stack \in Seq(Frames)
  <2>1. Cardinality(Roots) \in Nat
    BY RootsAssumption, FS_Union, FS_CardinalityType DEF Roots
  <2>2. order \in [1..Cardinality(Roots) -> Roots]
    BY DEF Init, Orderings
  <2>3. \A i \in 1..Cardinality(Roots) : Walk(order[i]) \in Frames
    BY <2>2 DEF Walk, Frame, Frames, Nodes
  <2>4. stack = [i \in 1..Cardinality(Roots) |-> Walk(order[i])]
    BY <2>2 DEF Init
  <2> QED
    BY <2>1, <2>3, <2>4
<1> QED
  BY <1>1, <1>2 DEF Inductive, Init

\* Steps that only push frames.
LEMMA PushIsInductive ==
    ASSUME Inductive, stack # << >>, UNCHANGED <<program, order, kind, pc>>,
           NEW frames \in Seq(Frames), Replace(frames)
    PROVE  Inductive'
<1>1. Frames' = Frames
  BY DEF Frames, Operations, Written
<1>2. stack' \in Seq(Frames)
  BY TopIsFrame DEF Replace
<1>3. KindsAreSound'
  BY DEF Inductive, KindsAreSound, Written
<1> QED
  BY <1>1, <1>2, <1>3 DEF Inductive

\* Steps that end a frame with an outcome.
LEMMA PopIsInductive ==
    ASSUME Inductive, stack # << >>, UNCHANGED <<program, order>>,
           Replace(<< >>), KindsAreSound'
    PROVE  Inductive'
<1>1. Frames' = Frames
  BY DEF Frames, Operations, Written
<1>2. stack' \in Seq(Frames)
  <2>1. stack' = Tail(stack)
    BY TopIsFrame DEF Replace
  <2> QED
    BY <2>1, TopIsFrame
<1> QED
  BY <1>1, <1>2 DEF Inductive

\* Each step keeps the nodes, and the frames, as sound as they were.
LEMMA NextIsInductive == Inductive /\ [Next]_vars => Inductive'
<1> SUFFICES ASSUME Inductive, [Next]_vars PROVE Inductive'
  OBVIOUS
<1>1. CASE WalkValue
  <2>1. stack # << >>
    BY <1>1 DEF WalkValue, At
  <2>2. Operands(kind[Top.node], Walk) \in Seq(Frames)
    <3>1. CASE kind[Top.node] \in Written
      BY <3>1, OperandFrames DEF Inductive
    <3>2. CASE IsLiteral(kind[Top.node])
      <4>1. Operands(kind[Top.node], Walk) = << >>
        BY <3>2 DEF Operands, IsLiteral, IsUnary, IsBinary
      <4> QED
        BY <4>1
    <3> QED
      BY <2>1, <3>1, <3>2, TopIsFrame DEF Inductive, KindsAreSound
  <2>3. Optimize(Top.node) \in Frames
    BY <2>1, TopIsFrame DEF Optimize, Frame, Frames
  <2>4. Operands(kind[Top.node], Walk) \o <<Optimize(Top.node)>> \in Seq(Frames)
    BY <2>2, <2>3
  <2> QED
    BY <1>1, <2>1, <2>4, PushIsInductive DEF WalkValue
<1>2. CASE Descend
  <2> DEFINE k == kind[Top.node]
  <2>1. stack # << >> /\ (IsUnary(k) \/ IsBinary(k))
    BY <1>2 DEF Descend, At
  <2>2. k \in Operations
    BY <2>1, TopIsFrame DEF Inductive, KindsAreSound, Operations, IsLiteral, IsUnary, IsBinary
  <2>3. Operands(k, Optimize) \in Seq(Frames)
    BY <2>2, OperandFrames DEF Inductive, Operations
  <2>4. Fold(Top.node, k) \in Frames
    BY <2>1, <2>2, TopIsFrame DEF Fold, Frame, Frames
  <2>5. Operands(k, Optimize) \o <<Fold(Top.node, k)>> \in Seq(Frames)
    BY <2>3, <2>4
  <2> QED
    BY <1>2, <2>1, <2>5, PushIsInductive DEF Descend
<1>3. CASE FoldOperation
  <2> DEFINE k == Top.kind
  <2>1. stack # << >> /\ Top.do = "fold" /\ program' = program
    BY <1>3 DEF FoldOperation, At
  <2>2. k \in Operations /\ Top.node \in Nodes
    BY <2>1, TopIsFrame
  <2>3. KindsAreSound'
    BY <1>3, <2>1, <2>2, OutcomesAreLiterals, BecomeIsSound DEF FoldOperation
  <2> QED
    BY <1>3, <2>1, <2>3, PopIsInductive DEF FoldOperation
<1>4. CASE Propagate
  <2> DEFINE k == kind[Top.node]
  <2>1. /\ stack # << >> /\ IsIdentifier(k)
        /\ program' = program /\ kind' = [kind EXCEPT ![Top.node] = kind[k.of]]
    BY <1>4 DEF Propagate, At
  <2>2. Top.node \in Nodes
    BY <2>1, TopIsFrame
  <2>3. k \in Written
    BY <2>1, <2>2 DEF Inductive, KindsAreSound, IsLiteral, IsIdentifier
  <2>4. k.of \in Nodes
    BY <2>1, <2>3, WrittenIsWellFormed DEF Inductive
  <2>5. KindsAreSound'
    BY <2>1, <2>2, <2>4 DEF Inductive, KindsAreSound, Written
  <2> QED
    BY <1>4, <2>1, <2>5, PopIsInductive DEF Propagate
<1>5. CASE Retype
  <2>1. stack # << >> /\ program' = program
    BY <1>5 DEF Retype, At
  <2>2. Top.node \in Nodes /\ InItsType(kind[Top.node])
    BY <2>1, TopIsFrame DEF Inductive, KindsAreSound
  <2>3. KindsAreSound'
    BY <1>5, <2>1, <2>2, FoldedLiteral, BecomeIsSound DEF Retype
  <2> QED
    BY <1>5, <2>1, <2>3, PopIsInductive DEF Retype
<1>6. CASE Overflow
  <2>1. UNCHANGED <<program, kind, stack>>
    BY <1>6 DEF Overflow
  <2> QED
    BY <2>1 DEF Inductive, KindsAreSound, Written, Operations, Frames
<1>7. CASE UNCHANGED vars
  BY <1>7 DEF vars, Inductive, KindsAreSound, Written, Operations, Frames
<1> QED
  BY <1>1, <1>2, <1>3, <1>4, <1>5, <1>6, <1>7 DEF Next

-----------------------------------------------------------------------------
(* The theorems.                                                           *)

\* optimize() keeps integers in their types, and folds what the source has.
THEOREM FoldingIsSound == Spec => []Inductive
BY InitIsInductive, NextIsInductive, PTL DEF Spec

\* A constant that check() lets pass after optimize() fits its declared type,
\* whatever the widths of the types and whatever the constant was made of.
THEOREM AcceptedConstantsFit == Spec => []AcceptedFits
<1>1. Inductive => AcceptedFits
  <2> SUFFICES ASSUME Inductive, NEW c \in Constants, NEW type \in IntegerTypes,
                      IsLiteral(kind[c]), Admits(kind[c], type)
               PROVE  kind[c].n \in Span(type[1], type[2])
    BY DEF AcceptedFits
  <2>1. InItsType(kind[c])
    BY DEF Inductive, KindsAreSound, Nodes, Roots
  <2> QED
    BY <2>1, AdmittedFits
<1> QED
  BY <1>1, FoldingIsSound, PTL

-----------------------------------------------------------------------------
(* What nodes mean.                                                        *)

\* What a Kind means depends on the meaning of what it uses only.
LEMMA MeaningIsLocal ==
    ASSUME NEW k, NEW M, NEW N, \A m \in Uses(k) : M[m] = N[m]
    PROVE  Evaluate(k, M) = Evaluate(k, N)
<1>1. CASE IsIdentifier(k)
  BY <1>1 DEF Uses, Evaluate, IsIdentifier, IsInteger, IsBoolean
<1>2. CASE IsUnary(k)
  BY <1>2 DEF Uses, Evaluate, IsIdentifier, IsInteger, IsBoolean, IsUnary
<1>3. CASE IsBinary(k)
  BY <1>3 DEF Uses, Evaluate, IsIdentifier, IsInteger, IsBoolean, IsUnary, IsBinary
<1>4. CASE ~IsIdentifier(k) /\ ~IsUnary(k) /\ ~IsBinary(k)
  BY <1>4 DEF Evaluate
<1> QED
  BY <1>1, <1>2, <1>3, <1>4

\* M gives the nodes of S, and all that they are in terms of, their meaning.
Solves(h, S, M) ==
    /\ S \subseteq Nodes
    /\ \A n \in S : Uses(h[n]) \subseteq S /\ M[n] = Evaluate(h[n], M)

\* There is one way at most to give a founded heap a meaning ...
LEMMA SolutionsAgree ==
    ASSUME NEW h, Founded(h), NEW S, NEW M, NEW T, NEW N, Solves(h, S, M), Solves(h, T, N),
           NEW n \in S \cap T
    PROVE  M[n] = N[n]
<1> DEFINE D == {m \in S \cap T : M[m] # N[m]}
<1>1. D = {}
  <2> SUFFICES ASSUME D # {} PROVE FALSE
    OBVIOUS
  <2>1. D \in SUBSET Nodes
    BY DEF Solves
  <2>2. PICK m \in D : Uses(h[m]) \cap D = {}
    BY <2>1 DEF Founded
  <2>3. \A u \in Uses(h[m]) : M[u] = N[u]
    BY <2>2 DEF Solves
  <2>4. M[m] = N[m]
    BY <2>3, MeaningIsLocal DEF Solves
  <2> QED
    BY <2>4
<1> QED
  BY <1>1

\* ... and one way at least: the meaning of a heap is what its definition says.
LEMMA MeaningExists ==
    ASSUME NEW h, Founded(h), \A n \in Nodes : Uses(h[n]) \subseteq Nodes
    PROVE  MeaningOf(h) = [n \in Nodes |-> Evaluate(h[n], MeaningOf(h))]
<1> DEFINE Solved(n, v) == \E S, M : Solves(h, S, M) /\ n \in S /\ v = M[n]
           U == {n \in Nodes : \E v : Solved(n, v)}
           G == [n \in Nodes |-> CHOOSE v : Solved(n, v)]
<1>1. ASSUME NEW n \in U
      PROVE  Uses(h[n]) \subseteq U /\ G[n] = Evaluate(h[n], G)
  <2>1. PICK S, M : Solves(h, S, M) /\ n \in S
    OBVIOUS
  <2>2. ASSUME NEW m \in S PROVE m \in U /\ G[m] = M[m]
    <3>1. m \in Nodes /\ Solved(m, M[m])
      BY <2>1 DEF Solves
    <3>2. Solved(m, G[m])
      BY <3>1
    <3>3. PICK T, N : Solves(h, T, N) /\ m \in T /\ G[m] = N[m]
      BY <3>2
    <3>4. N[m] = M[m]
      BY <2>1, <3>3, SolutionsAgree
    <3> QED
      BY <3>1, <3>3, <3>4
  <2>3. Uses(h[n]) \subseteq S /\ M[n] = Evaluate(h[n], M)
    BY <2>1 DEF Solves
  <2>4. Evaluate(h[n], M) = Evaluate(h[n], G)
    BY <2>2, <2>3, MeaningIsLocal
  <2> QED
    BY <2>1, <2>2, <2>3, <2>4
<1>2. U = Nodes
  <2> SUFFICES ASSUME Nodes \ U # {} PROVE FALSE
    OBVIOUS
  <2>1. PICK n \in Nodes \ U : Uses(h[n]) \cap (Nodes \ U) = {}
    BY DEF Founded
  <2> DEFINE T == U \cup {n}
             N == [G EXCEPT ![n] = Evaluate(h[n], G)]
  <2>2. Uses(h[n]) \subseteq U
    BY <2>1
  <2>3. \A m \in U : N[m] = G[m]
    BY <2>1
  <2>4. ASSUME NEW m \in T PROVE Uses(h[m]) \subseteq T /\ N[m] = Evaluate(h[m], N)
    <3>1. Uses(h[m]) \subseteq U /\ N[m] = Evaluate(h[m], G)
      <4>1. CASE m = n
        BY <2>2, <4>1
      <4>2. CASE m # n
        BY <1>1, <2>3, <2>4, <4>2
      <4> QED
        BY <4>1, <4>2
    <3>2. Evaluate(h[m], G) = Evaluate(h[m], N)
      BY <2>3, <3>1, MeaningIsLocal
    <3> QED
      BY <3>1, <3>2
  <2>5. Solves(h, T, N)
    BY <2>1, <2>4 DEF Solves
  <2> QED
    BY <2>1, <2>5
<1>3. G = [n \in Nodes |-> Evaluate(h[n], G)]
  BY <1>1, <1>2
<1>4. \E M : M = [n \in Nodes |-> Evaluate(h[n], M)]
  BY <1>3
<1> QED
  BY <1>4 DEF MeaningOf

-----------------------------------------------------------------------------
(* Folds keep the meaning.                                                 *)

\* What an integer folds to means that integer, and is as small as it can be.
LEMMA FoldedIntegerMeans ==
    ASSUME NEW i, NEW w \in FoldInteger(i), w # NilValue, NEW M
    PROVE  Evaluate(w, M) = Integer("exact", i) /\ Final(w)
<1>1. IsInteger(w) /\ w.n = i
  BY FoldedFits
<1>2. FoldInteger(i) = {w}
  <2>1. CASE i \in Span("UInt", 64)
    <3>1. ~(i < 0)
      BY <2>1 DEF Span, Lowest
    <3>2. \E width : FoldInteger(i) = {Integer(<<"UInt", width>>, i)}
      BY <2>1, <3>1 DEF FoldInteger
    <3> QED
      BY <3>2
  <2>2. CASE i \notin Span("UInt", 64) /\ i \in Span("Int", 64) /\ i < 0
    <3>1. \E width : FoldInteger(i) = {Integer(<<"Int", width>>, i)}
      BY <2>2 DEF FoldInteger
    <3> QED
      BY <3>1
  <2>3. CASE i \notin Span("UInt", 64) /\ ~(i \in Span("Int", 64) /\ i < 0)
    BY <2>3 DEF FoldInteger, Nothing
  <2> QED
    BY <2>1, <2>2, <2>3
<1>3. Evaluate(w, M) = Integer("exact", i)
  BY <1>1 DEF Evaluate, IsInteger, IsBoolean, IsIdentifier, IsUnary, IsBinary
<1>4. Final(w)
  BY <1>1, <1>2 DEF Final, IsLiteral, IsInteger
<1> QED
  BY <1>3, <1>4

\* An integer folds to one literal, or to none.
LEMMA FoldedOrNothing ==
    ASSUME NEW i
    PROVE  FoldInteger(i) # Nothing => NilValue \notin FoldInteger(i)
BY DEF FoldInteger, Integer, NilValue, Nothing

\* A boolean means itself, and stays as it is.
LEMMA FoldedBooleanMeans ==
    ASSUME NEW b, NEW M
    PROVE  Evaluate(Boolean(b), M) = Boolean(b) /\ Final(Boolean(b))
<1>1. Boolean(b).kind = "boolean"
  BY DEF Boolean
<1>2. Evaluate(Boolean(b), M) = Boolean(b)
  BY <1>1 DEF Evaluate, IsInteger, IsBoolean, IsIdentifier, IsUnary, IsBinary
<1>3. Final(Boolean(b))
  BY <1>1 DEF Final, IsInteger, IsLiteral
<1> QED
  BY <1>2, <1>3

\* A float is as small as it can be known to be.
LEMMA FoldedFloatIsFinal == \A x : \A w \in FoldFloat(x) : Final(w)
BY DEF FoldFloat, Float, Final, IsLiteral, IsInteger

\* A Kind that means an integer or a boolean, if it is a literal, is one.
LEMMA LiteralMeans ==
    ASSUME NEW v, NEW M, IsLiteral(v)
    PROVE  /\ IsInteger(v) => Evaluate(v, M) = Integer("exact", v.n)
           /\ IsBoolean(v) => Evaluate(v, M) = v
           /\ IsFloat(v) => Evaluate(v, M) = Undefined
           /\ IsInteger(Evaluate(v, M)) => IsInteger(v)
           /\ IsBoolean(Evaluate(v, M)) => IsBoolean(v)
BY DEF Evaluate, IsLiteral, IsInteger, IsBoolean, IsFloat, Undefined, IsIdentifier,
       IsUnary, IsBinary, Integer

\* An operation of one operand folds to what it means.
LEMMA UnaryMeans ==
    ASSUME NEW op, NEW v, NEW M, NEW x, x # Undefined => Evaluate(v, M) = x,
           Negate(op, x) # Undefined
    PROVE  /\ \A w \in FoldUnary(op, v) : w # NilValue => Evaluate(w, M) = Negate(op, x)
           /\ IsLiteral(v) /\ (IsInteger(Negate(op, x)) => FoldInteger(Negate(op, x).n) # Nothing)
                 => NilValue \notin FoldUnary(op, v)
<1>1. /\ IsInteger(x) \/ IsBoolean(x)
      /\ Evaluate(v, M) = x
  BY DEF Negate, Undefined, IsInteger, IsBoolean
<1>2. CASE IsLiteral(v) /\ IsInteger(x)
  <2>1. IsInteger(v) /\ x = Integer("exact", v.n) /\ ~IsFloat(v) /\ ~IsBoolean(v)
    BY <1>1, <1>2, LiteralMeans DEF IsInteger, IsFloat, IsBoolean
  <2>2. op \in {"Positive", "Negative"}
    BY <1>2 DEF Negate, IsInteger, IsBoolean
  <2>3. PICK i : Negate(op, x) = Integer("exact", i) /\ FoldUnary(op, v) = FoldInteger(i)
    BY <2>1, <2>2 DEF Negate, FoldUnary, Integer, IsInteger, IsNaN
  <2>4. Integer("exact", i).n = i /\ IsInteger(Integer("exact", i))
    BY DEF Integer, IsInteger
  <2> QED
    BY <2>3, <2>4, FoldedIntegerMeans, FoldedOrNothing
<1>3. CASE IsLiteral(v) /\ IsBoolean(x)
  <2>1. v = x /\ ~IsInteger(v) /\ ~IsFloat(v)
    BY <1>1, <1>3, LiteralMeans DEF IsInteger, IsFloat, IsBoolean
  <2>2. op = "Not"
    BY <1>3 DEF Negate, IsInteger, IsBoolean
  <2>3. Negate(op, x) = Boolean(~v.b) /\ FoldUnary(op, v) = {Boolean(~v.b)}
    BY <1>3, <2>1, <2>2 DEF Negate, FoldUnary
  <2> QED
    BY <2>3, FoldedBooleanMeans, FoldedBoolean, LiteralsAreNot
<1>4. CASE ~IsLiteral(v)
  <2>1. FoldUnary(op, v) = Nothing
    BY <1>4 DEF FoldUnary, IsLiteral, IsInteger, IsFloat, IsBoolean, IsNaN
  <2> QED
    BY <1>4, <2>1 DEF Nothing
<1> QED
  BY <1>1, <1>2, <1>3, <1>4

\* So does one of two operands.
LEMMA BinaryMeans ==
    ASSUME NEW op, NEW v, NEW u, NEW M, NEW x, NEW y,
           x # Undefined => Evaluate(v, M) = x, y # Undefined => Evaluate(u, M) = y,
           Apply(op, x, y) # Undefined
    PROVE  /\ \A w \in FoldBinary(op, v, u) : w # NilValue => Evaluate(w, M) = Apply(op, x, y)
           /\ IsLiteral(v) /\ IsLiteral(u)
                 /\ (IsInteger(Apply(op, x, y)) => FoldInteger(Apply(op, x, y).n) # Nothing)
                 => NilValue \notin FoldBinary(op, v, u)
<1>1. /\ (IsInteger(x) /\ IsInteger(y)) \/ (IsBoolean(x) /\ IsBoolean(y))
      /\ Evaluate(v, M) = x /\ Evaluate(u, M) = y
  BY DEF Apply, Undefined, IsInteger, IsBoolean
<1>2. CASE IsLiteral(v) /\ IsLiteral(u) /\ IsInteger(x) /\ IsInteger(y)
  <2>1. /\ IsInteger(v) /\ x = Integer("exact", v.n)
        /\ IsInteger(u) /\ y = Integer("exact", u.n)
    BY <1>1, <1>2, LiteralMeans
  <2>2. x.n = v.n /\ y.n = u.n
    BY <2>1 DEF Integer
  <2>5. FoldBinary(op, v, u) = FoldIntegers(op, v.n, u.n)
    <3>1. /\ ~(IsFloat(v) /\ IsFloat(u)) /\ ~FoldsNaN(op, v, u)
          /\ ~(IsBoolean(v) /\ IsBoolean(u))
      BY <2>1 DEF FoldsNaN, IsNaN, IsInteger, IsFloat, IsBoolean
    <3> QED
      BY <2>1, <3>1 DEF FoldBinary
  <2>6. Apply(op, x, y) =
           IF op \in Comparisons THEN Boolean(Compare(op, v.n, u.n))
           ELSE IF op \in Arithmetic /\ ~(op \in {"Divide", "Modulo"} /\ u.n = 0)
                THEN Integer("exact", Calculate(op, v.n, u.n))
                ELSE Undefined
    BY <1>2, <2>2 DEF Apply, IsInteger, IsBoolean, Comparisons, Arithmetic
  <2>3. CASE op \in Comparisons
    <3>1. Apply(op, x, y) = Boolean(Compare(op, v.n, u.n))
      BY <2>3, <2>6
    <3>2. op \notin {"Divide", "Modulo"}
      BY <2>3 DEF Comparisons
    <3>3. FoldBinary(op, v, u) = {Boolean(Compare(op, v.n, u.n))}
      BY <2>3, <2>5, <3>2 DEF FoldIntegers, Comparisons, Arithmetic
    <3>4. IsInteger(Apply(op, x, y)) => FALSE
      BY <3>1 DEF IsInteger, Boolean
    <3> QED
      BY <3>1, <3>3, FoldedBooleanMeans, FoldedBoolean, LiteralsAreNot
  <2>4. CASE op \notin Comparisons
    <3>1. op \in Arithmetic /\ ~(op \in {"Divide", "Modulo"} /\ u.n = 0)
      BY <2>4, <2>6
    <3> DEFINE i == Calculate(op, v.n, u.n)
    <3>2. Apply(op, x, y) = Integer("exact", i) /\ FoldBinary(op, v, u) = FoldInteger(i)
      BY <2>4, <2>5, <2>6, <3>1 DEF FoldIntegers
    <3>3. Integer("exact", i).n = i /\ IsInteger(Integer("exact", i))
      BY DEF Integer, IsInteger
    <3> QED
      BY <3>2, <3>3, FoldedIntegerMeans, FoldedOrNothing
  <2> QED
    BY <2>3, <2>4
<1>3. CASE IsLiteral(v) /\ IsLiteral(u) /\ IsBoolean(x) /\ IsBoolean(y)
  <2>1. v = x /\ u = y /\ ~IsInteger(v) /\ ~IsFloat(v) /\ IsBoolean(v) /\ IsBoolean(u)
    BY <1>1, <1>3, LiteralMeans DEF IsInteger, IsFloat, IsBoolean
  <2>2. FoldBinary(op, v, u) = FoldBooleans(op, x.b, y.b)
    BY <2>1 DEF FoldBinary, FoldsNaN, IsNaN, IsFloat, IsBoolean
  <2>3. /\ FoldBooleans(op, x.b, y.b) # Nothing
        /\ Apply(op, x, y) = CHOOSE w \in FoldBooleans(op, x.b, y.b) : TRUE
    BY <1>3, <2>1 DEF Apply
  <2>4. PICK b : FoldBooleans(op, x.b, y.b) = {Boolean(b)}
    BY <2>3 DEF FoldBooleans, Nothing
  <2>5. Apply(op, x, y) = Boolean(b)
    BY <2>3, <2>4
  <2> QED
    BY <2>2, <2>4, <2>5, FoldedBooleanMeans, FoldedBoolean, LiteralsAreNot
<1>4. CASE ~IsLiteral(v) \/ ~IsLiteral(u)
  <2>1. IsNaN(v) => FALSE
    BY <1>1 DEF Evaluate, IsNaN, IsInteger, IsBoolean, IsIdentifier, IsUnary, IsBinary, Undefined
  <2>2. IsFloat(v) => FALSE
    BY <1>1 DEF Evaluate, IsFloat, IsInteger, IsBoolean, IsIdentifier, IsUnary, IsBinary, Undefined
  <2>3. FoldBinary(op, v, u) = Nothing
    BY <1>4, <2>1, <2>2 DEF FoldBinary, FoldsNaN, IsLiteral, IsInteger, IsFloat, IsBoolean
  <2> QED
    BY <1>4, <2>3 DEF Nothing
<1> QED
  BY <1>1, <1>2, <1>3, <1>4

\* A literal keeps its meaning in its smallest type.
LEMMA LiteralKeepsMeaning ==
    ASSUME NEW v, NEW M, Evaluate(v, M) # Undefined
    PROVE  \A w \in FoldLiteral(v) : w # NilValue => Evaluate(w, M) = Evaluate(v, M)
<1>1. CASE IsInteger(v)
  <2>1. FoldLiteral(v) = FoldInteger(v.n)
    BY <1>1 DEF FoldLiteral, IsInteger, IsFloat, IsNaN
  <2>2. Evaluate(v, M) = Integer("exact", v.n)
    BY <1>1, LiteralMeans DEF IsInteger, IsLiteral
  <2> QED
    BY <2>1, <2>2, FoldedIntegerMeans
<1>2. CASE IsFloat(v) \/ IsNaN(v)
  BY <1>2 DEF Evaluate, IsFloat, IsNaN, IsInteger, IsBoolean, IsIdentifier, IsUnary, IsBinary
<1>3. CASE ~IsInteger(v) /\ ~IsFloat(v) /\ ~IsNaN(v)
  BY <1>3 DEF FoldLiteral, Nothing
<1> QED
  BY <1>1, <1>2, <1>3

\* What any fold gives is as small as it can be, if it gives anything.
LEMMA FoldedIsFinal ==
    ASSUME NEW op, NEW v, NEW u, NEW w, w # Panic, w # NilValue,
           w \in FoldUnary(op, v) \cup FoldBinary(op, v, u) \cup FoldLiteral(v)
    PROVE  Final(w)
<1>1. \A i : \A z \in FoldInteger(i) : z # NilValue => Final(z)
  BY FoldedIntegerMeans
<1>2. \A b : Final(Boolean(b))
  BY FoldedBooleanMeans
<1>3. ASSUME w \in FoldUnary(op, v) PROVE Final(w)
  BY <1>1, <1>2, <1>3, FoldedFloatIsFinal DEF FoldUnary, Nothing
<1>4. ASSUME w \in FoldLiteral(v) PROVE Final(w)
  BY <1>1, <1>4, FoldedFloatIsFinal DEF FoldLiteral, Nothing
<1>5. ASSUME NEW i, NEW j, w \in FoldIntegers(op, i, j) PROVE Final(w)
  BY <1>1, <1>2, <1>5 DEF FoldIntegers, Nothing
<1>6. ASSUME NEW x, NEW y, w \in FoldFloats(op, x, y) PROVE Final(w)
  <2>1. CASE op \in Comparisons
    <3>1. \E b : w = Boolean(b)
      BY <1>6, <2>1 DEF FoldFloats, FloatArithmetic, Arithmetic, Comparisons
    <3> QED
      BY <1>2, <3>1
  <2>2. CASE op \notin Comparisons
    <3>1. \E z : w \in FoldResult(z)
      BY <1>6, <2>2 DEF FoldFloats, Nothing
    <3>2. \E z : w \in FoldFloat(z)
      BY <3>1 DEF FoldResult, Nothing
    <3> QED
      BY <3>2, FoldedFloatIsFinal
  <2> QED
    BY <2>1, <2>2
<1>7. ASSUME NEW i, NEW j, w \in FoldBooleans(op, i, j) PROVE Final(w)
  BY <1>2, <1>7 DEF FoldBooleans, Nothing
<1>8. ASSUME w \in FoldBinary(op, v, u) PROVE Final(w)
  BY <1>5, <1>6, <1>7, <1>8 DEF FoldBinary, Nothing
<1> QED
  BY <1>3, <1>4, <1>8

-----------------------------------------------------------------------------
(* The stack before and after a step.                                      *)

\* What a step leaves on the stack: the frames that it pushes, and the others below.
LEMMA ReplacedFrames ==
    ASSUME stack \in Seq(Frames), stack # << >>, NEW frames \in Seq(Frames), Replace(frames)
    PROVE  /\ Len(stack') = Len(frames) + Len(stack) - 1
           /\ DOMAIN stack' = 1..(Len(frames) + Len(stack) - 1)
           /\ \A i \in 1..Len(frames) : stack'[i] = frames[i]
           /\ \A j \in 2..Len(stack) : stack'[j + Len(frames) - 1] = stack[j]
           /\ \A i \in DOMAIN stack' : i > Len(frames) => i - Len(frames) + 1 \in 2..Len(stack)
<1> DEFINE t == Tail(stack)
<1>1. /\ t \in Seq(Frames) /\ Len(t) = Len(stack) - 1 /\ Len(stack) \in Nat /\ Len(stack) >= 1
      /\ \A j \in 1..Len(t) : t[j] = stack[j + 1]
  OBVIOUS
<1>2. stack' = frames \o t
  BY DEF Replace
<1> HIDE DEF t
<1>3. /\ Len(stack') = Len(frames) + Len(t) /\ stack' \in Seq(Frames)
      /\ \A i \in 1..Len(frames) : stack'[i] = frames[i]
      /\ \A j \in 1..Len(t) : stack'[j + Len(frames)] = t[j]
  BY <1>1, <1>2
<1>4. ASSUME NEW j \in 2..Len(stack) PROVE stack'[j + Len(frames) - 1] = stack[j]
  <2>1. j - 1 \in 1..Len(t) /\ (j - 1) + Len(frames) = j + Len(frames) - 1 /\ (j - 1) + 1 = j
    BY <1>1
  <2> QED
    BY <1>1, <1>3, <2>1
<1> QED
  BY <1>1, <1>3, <1>4

\* When it pushes none, the frames below move up.
LEMMA PoppedFrames ==
    ASSUME stack \in Seq(Frames), stack # << >>, Replace(<< >>)
    PROVE  /\ Len(stack') = Len(stack) - 1
           /\ DOMAIN stack' = 1..(Len(stack) - 1)
           /\ \A i \in DOMAIN stack' : stack'[i] = stack[i + 1] /\ i + 1 \in 2..Len(stack)
<1>1. stack' = Tail(stack)
  BY DEF Replace
<1> QED
  BY <1>1

\* What a program means.
LEMMA MeantExists ==
    ASSUME program \in Acyclic, NEW n \in Nodes
    PROVE  Meant[n] = Evaluate(program[n], Meant)
<1>1. program \in Programs /\ Founded(program)
  BY DEF Acyclic
<1>2. \A m \in Nodes : Uses(program[m]) \subseteq Nodes
  BY <1>1, WrittenIsWellFormed DEF Written, Uses
<1>3. Meant = [m \in Nodes |-> Evaluate(program[m], Meant)]
  BY <1>1, <1>2, MeaningExists DEF Meant
<1> QED
  BY <1>3

\* What the program means does not change with the nodes.
LEMMA MeantIsFixed ==
    ASSUME program' = program
    PROVE  /\ Meant' = Meant
           /\ \A n : Small(n)' = Small(n) /\ Worthy(n)' = Worthy(n)
           /\ \A S : IsClosed(S)' = IsClosed(S)
<1>1. Meant' = Meant
  BY DEF Meant
<1>2. \A n : Small(n)' = Small(n)
  BY <1>1 DEF Small
<1> QED
  BY <1>1, <1>2 DEF Worthy, IsClosed

\* A step that only pushes frames whose folds keep the meaning.
LEMMA PushKeepsMeaning ==
    ASSUME Inductive, Meaningful, stack # << >>, program' = program, kind' = kind,
           NEW frames \in Seq(Frames), Replace(frames),
           \A i \in 1..Len(frames) : frames[i].do = "fold" /\ Meant[frames[i].node] # Undefined
              => Evaluate(frames[i].kind, Meant) = Meant[frames[i].node]
    PROVE  Meaningful'
<1>1. Meant' = Meant
  BY MeantIsFixed
<1>2. stack \in Seq(Frames)
  BY DEF Inductive
<1>3. ASSUME NEW i \in DOMAIN stack', stack'[i].do = "fold", Meant[stack'[i].node] # Undefined
      PROVE  Evaluate(stack'[i].kind, Meant) = Meant[stack'[i].node]
  <2>1. CASE i \in 1..Len(frames)
    BY <1>2, <1>3, <2>1, ReplacedFrames
  <2>2. CASE i > Len(frames)
    <3> DEFINE j == i - Len(frames) + 1
    <3>1. j \in 2..Len(stack) /\ i = j + Len(frames) - 1
      BY <1>2, <2>2, ReplacedFrames
    <3>2. j \in DOMAIN stack /\ stack'[i] = stack[j]
      BY <1>2, <3>1, ReplacedFrames
    <3> QED
      BY <1>3, <3>2 DEF Meaningful
  <2> QED
    BY <1>2, <2>1, <2>2, ReplacedFrames
<1> QED
  BY <1>1, <1>3 DEF Meaningful

\* A step that pops a frame, and gives its node a Kind that keeps the meaning.
LEMMA PopKeepsMeaning ==
    ASSUME Inductive, Meaningful, stack # << >>, program' = program, Replace(<< >>),
           \/ kind' = kind
           \/ \E v : /\ kind' = [kind EXCEPT ![Top.node] = v]
                     /\ Meant[Top.node] # Undefined => Evaluate(v, Meant) = Meant[Top.node]
    PROVE  Meaningful'
<1>1. Meant' = Meant
  BY MeantIsFixed
<1>2. stack \in Seq(Frames)
  BY DEF Inductive
<1>3. ASSUME NEW i \in DOMAIN stack', stack'[i].do = "fold", Meant[stack'[i].node] # Undefined
      PROVE  Evaluate(stack'[i].kind, Meant) = Meant[stack'[i].node]
  <2>1. stack'[i] = stack[i + 1] /\ i + 1 \in DOMAIN stack
    BY <1>2, PoppedFrames
  <2> QED
    BY <1>3, <2>1 DEF Meaningful
<1>4. \A n \in Nodes : Meant[n] # Undefined => Evaluate(kind'[n], Meant) = Meant[n]
  BY DEF Inductive, KindsAreSound, Meaningful
<1> QED
  BY <1>1, <1>3, <1>4 DEF Meaningful

\* An operation folds to what it means, and does fold if its operands are literals.
LEMMA FoldMeans ==
    ASSUME Inductive, Meaningful, NEW k \in Operations, Evaluate(k, Meant) # Undefined
    PROVE  /\ \A v \in Outcomes(k) : v # NilValue => Evaluate(v, Meant) = Evaluate(k, Meant)
           /\ (\A m \in Uses(k) : IsLiteral(kind[m]))
                 /\ (IsInteger(Evaluate(k, Meant)) => FoldInteger(Evaluate(k, Meant).n) # Nothing)
                 => NilValue \notin Outcomes(k)
<1>1. /\ k \in Written
      /\ k.left \in Nodes
      /\ IsBinary(k) => k.right \in Nodes
  BY WrittenIsWellFormed DEF Inductive, Operations
<1>2. \A m \in Nodes : Meant[m] # Undefined => Evaluate(kind[m], Meant) = Meant[m]
  BY DEF Meaningful
<1>3. CASE IsUnary(k)
  <2> DEFINE x == Meant[k.left]
             l == kind[k.left]
             M == Meant
  <2>1. /\ Outcomes(k) = FoldUnary(k.op, l)
        /\ Uses(k) = {k.left}
        /\ Evaluate(k, M) = Negate(k.op, x)
    BY <1>3 DEF Outcomes, Uses, Evaluate, IsUnary, IsBinary, IsInteger, IsBoolean, IsIdentifier
  <2>2. /\ x # Undefined => Evaluate(l, M) = x
        /\ Negate(k.op, x) # Undefined
    BY <1>1, <1>2, <2>1
  <2> HIDE DEF x, l, M
  <2>3. /\ \A w \in FoldUnary(k.op, l) : w # NilValue => Evaluate(w, M) = Negate(k.op, x)
        /\ IsLiteral(l)
              /\ (IsInteger(Negate(k.op, x)) => FoldInteger(Negate(k.op, x).n) # Nothing)
              => NilValue \notin FoldUnary(k.op, l)
    BY <2>2, UnaryMeans
  <2> QED
    BY <2>1, <2>3 DEF l, M
<1>4. CASE IsBinary(k)
  <2> DEFINE x == Meant[k.left]
             y == Meant[k.right]
             l == kind[k.left]
             r == kind[k.right]
             M == Meant
  <2>1. /\ Outcomes(k) = FoldBinary(k.op, l, r)
        /\ Uses(k) = {k.left, k.right}
        /\ Evaluate(k, M) = Apply(k.op, x, y)
    BY <1>4 DEF Outcomes, Uses, Evaluate, IsUnary, IsBinary, IsInteger, IsBoolean, IsIdentifier
  <2>2. /\ x # Undefined => Evaluate(l, M) = x
        /\ y # Undefined => Evaluate(r, M) = y
        /\ Apply(k.op, x, y) # Undefined
    BY <1>1, <1>4, <1>2, <2>1
  <2> HIDE DEF x, y, l, r, M
  <2>3. /\ \A w \in FoldBinary(k.op, l, r) : w # NilValue => Evaluate(w, M) = Apply(k.op, x, y)
        /\ IsLiteral(l) /\ IsLiteral(r)
              /\ (IsInteger(Apply(k.op, x, y)) => FoldInteger(Apply(k.op, x, y).n) # Nothing)
              => NilValue \notin FoldBinary(k.op, l, r)
    BY <2>2, BinaryMeans
  <2> QED
    BY <2>1, <2>3 DEF l, r, M
<1> QED
  BY <1>3, <1>4 DEF Operations

\* A node stays as it is, or becomes an outcome.
LEMMA BecomeForm ==
    ASSUME NEW n, NEW outcomes, Become(n, outcomes)
    PROVE  \/ kind' = kind /\ (NilValue \in outcomes \/ pc' = "panic")
           \/ \E v \in outcomes :
                 IsLiteral(v) /\ v # Panic /\ v # NilValue /\ kind' = [kind EXCEPT ![n] = v]
BY LiteralsAreNot DEF Become

\* The identifiers and operations on which a step works.
LEMMA WorkedOn ==
    ASSUME Inductive, stack # << >>, NEW k, k = kind[Top.node], ~IsLiteral(k)
    PROVE  /\ k \in Written
           /\ IsIdentifier(k) => k.of \in Nodes
           /\ IsUnary(k) \/ IsBinary(k) => k \in Operations /\ k.left \in Nodes
           /\ IsBinary(k) => k.right \in Nodes
<1>1. k \in Written
  BY TopIsFrame DEF Inductive, KindsAreSound
<1> QED
  BY <1>1, WrittenIsWellFormed DEF Inductive, Operations

\* What is left to do with a value when its operands are done.
DoAfter == IF Top.do = "walk" THEN "optimize" ELSE "fold"

\* What a step pushes: frames of the operands of a value, and one of its own last.
Pushed(frames) ==
    LET n == Top.node
        k == kind[n]
    IN  /\ Len(frames) \in 1..3
        /\ \A i \in 1..Len(frames) :
              /\ frames[i].do = IF i < Len(frames) THEN Top.do ELSE DoAfter
              /\ frames[i].node \in IF i = Len(frames) THEN {n} ELSE Uses(k)
              /\ frames[i].do = "fold" =>
                    /\ frames[i].node = n /\ frames[i].kind = k /\ k \in Operations
                    /\ \A m \in Uses(k) : \E j \in 1..(i - 1) : frames[j].node = m

\* What a walk, or a descent, pushes on the stack.
LEMMA PushedFrames ==
    ASSUME Inductive, WalkValue \/ Descend
    PROVE  /\ stack # << >> /\ Top.node \in Nodes /\ UNCHANGED <<program, order, kind, pc>>
           /\ \E frames \in Seq(Frames) : Replace(frames) /\ Pushed(frames)
<1> DEFINE n == Top.node
           k == kind[n]
<1>0. /\ WalkValue => Top.do = "walk" /\ DoAfter = "optimize"
      /\ Descend => Top.do = "optimize" /\ DoAfter = "fold"
  BY DEF WalkValue, Descend, At, DoAfter
<1>1. stack # << >> /\ n \in Nodes /\ UNCHANGED <<program, order, kind, pc>>
  BY TopIsFrame DEF WalkValue, Descend, At
<1>2. \A m \in Nodes : Walk(m) \in Frames /\ Optimize(m) \in Frames
  BY DEF Walk, Optimize, Frame, Frames
<1>3. /\ \A m : Walk(m).node = m /\ Optimize(m).node = m
      /\ \A m : Walk(m).do = "walk" /\ Optimize(m).do = "optimize"
  BY DEF Walk, Optimize, Frame
<1>4. Fold(n, k).node = n /\ Fold(n, k).kind = k /\ Fold(n, k).do = "fold"
  BY DEF Fold, Frame
<1>5. CASE IsUnary(k)
  <2>1. /\ k \in Operations /\ k.left \in Nodes /\ Uses(k) = {k.left} /\ ~IsBinary(k)
    BY <1>1, <1>5, WorkedOn DEF IsLiteral, IsUnary, IsBinary, Uses, IsIdentifier
  <2>2. /\ Operands(k, Walk) = <<Walk(k.left)>> /\ Operands(k, Optimize) = <<Optimize(k.left)>>
        /\ Fold(n, k) \in Frames
    BY <1>1, <1>5, <2>1 DEF Operands, Fold, Frame, Frames
  <2>3. PICK e, f \in Frames : /\ Replace(<<e>> \o <<f>>) /\ e.node = k.left /\ e.do # "fold"
                              /\ f.node = n /\ (f.do = "fold" => f.kind = k)
                              /\ e.do = Top.do /\ f.do = DoAfter
    <3>1. CASE WalkValue
      <4>1. Replace(<<Walk(k.left)>> \o <<Optimize(n)>>)
        BY <2>2, <3>1 DEF WalkValue
      <4>2. Walk(k.left) \in Frames /\ Optimize(n) \in Frames
        BY <1>1, <1>2, <2>1
      <4>3. Walk(k.left).do # "fold" /\ Optimize(n).do # "fold"
        BY <1>3
      <4> USE <4>2
      <4> WITNESS Walk(k.left) \in Frames, Optimize(n) \in Frames
      <4> QED
        BY ONLY <1>0, <1>3, <3>1, <4>1, <4>3
    <3>2. CASE Descend
      <4>1. Replace(<<Optimize(k.left)>> \o <<Fold(n, k)>>)
        BY <2>2, <3>2 DEF Descend
      <4>2. Optimize(k.left) \in Frames
        BY <1>2, <2>1
      <4> QED
        BY ONLY <1>0, <1>3, <1>4, <2>2, <3>2, <4>1, <4>2
    <3> QED
      BY <3>1, <3>2
  <2> DEFINE frames == <<e>> \o <<f>>
  <2>4. frames \in Seq(Frames) /\ Len(frames) = 2 /\ frames[1] = e /\ frames[2] = f
    BY <2>3
  <2> HIDE DEF frames
  <2>5. 1..Len(frames) = {1, 2} /\ 1 \in 1..(2 - 1)
    BY <2>4
  <2>6. Pushed(frames)
    BY <2>1, <2>3, <2>4, <2>5 DEF Pushed
  <2> QED
    BY <1>1, <2>3, <2>4, <2>6 DEF frames
<1>6. CASE IsBinary(k)
  <2>1. /\ k \in Operations /\ k.left \in Nodes /\ k.right \in Nodes
        /\ Uses(k) = {k.left, k.right} /\ ~IsUnary(k)
    BY <1>1, <1>6, WorkedOn DEF IsLiteral, IsUnary, IsBinary, Uses, IsIdentifier
  <2>2. /\ Operands(k, Walk) = <<Walk(k.left), Walk(k.right)>>
        /\ Operands(k, Optimize) = <<Optimize(k.left), Optimize(k.right)>>
        /\ Fold(n, k) \in Frames
    BY <1>1, <1>6, <2>1 DEF Operands, Fold, Frame, Frames
  <2>3. PICK e, f, g \in Frames :
           /\ Replace(<<e, f>> \o <<g>>) /\ e.node = k.left /\ e.do # "fold"
           /\ f.node = k.right /\ f.do # "fold" /\ g.node = n /\ (g.do = "fold" => g.kind = k)
           /\ e.do = Top.do /\ f.do = Top.do /\ g.do = DoAfter
    <3>1. CASE WalkValue
      <4>1. Replace(<<Walk(k.left), Walk(k.right)>> \o <<Optimize(n)>>)
        BY <2>2, <3>1 DEF WalkValue
      <4>2. Walk(k.left) \in Frames /\ Walk(k.right) \in Frames /\ Optimize(n) \in Frames
        BY <1>1, <1>2, <2>1
      <4>3. Walk(k.left).do # "fold" /\ Walk(k.right).do # "fold" /\ Optimize(n).do # "fold"
        BY <1>3
      <4> USE <4>2
      <4> WITNESS Walk(k.left) \in Frames, Walk(k.right) \in Frames, Optimize(n) \in Frames
      <4> QED
        BY ONLY <1>0, <1>3, <3>1, <4>1, <4>3
    <3>2. CASE Descend
      <4>1. Replace(<<Optimize(k.left), Optimize(k.right)>> \o <<Fold(n, k)>>)
        BY <2>2, <3>2 DEF Descend
      <4>2. Optimize(k.left) \in Frames /\ Optimize(k.right) \in Frames /\ Fold(n, k) \in Frames
        BY <1>2, <2>1, <2>2
      <4>3. Optimize(k.left).do # "fold" /\ Optimize(k.right).do # "fold"
        BY <1>3
      <4> USE <4>2
      <4> WITNESS Optimize(k.left) \in Frames, Optimize(k.right) \in Frames, Fold(n, k) \in Frames
      <4> QED
        BY ONLY <1>0, <1>3, <1>4, <3>2, <4>1, <4>3
    <3> QED
      BY <3>1, <3>2
  <2> DEFINE frames == <<e, f>> \o <<g>>
  <2>4. frames \in Seq(Frames) /\ Len(frames) = 3 /\ frames[1] = e /\ frames[2] = f /\ frames[3] = g
    BY <2>3
  <2> HIDE DEF frames
  <2>5. 1..Len(frames) = {1, 2, 3} /\ 1..(3 - 1) = {1, 2}
    BY <2>4
  <2>6. Pushed(frames)
    BY <2>1, <2>3, <2>4, <2>5 DEF Pushed
  <2> QED
    BY <1>1, <2>3, <2>4, <2>6 DEF frames
<1>7. CASE ~IsUnary(k) /\ ~IsBinary(k)
  <2>1. Operands(k, Walk) = << >>
    BY <1>7 DEF Operands
  <2> DEFINE frames == << >> \o <<Optimize(n)>>
  <2>2. Replace(frames)
    BY <1>7, <2>1 DEF WalkValue, Descend
  <2>3. frames \in Seq(Frames) /\ Len(frames) = 1 /\ frames[1] = Optimize(n)
    BY <1>1, <1>2
  <2> HIDE DEF frames
  <2>4. 1..Len(frames) = {1}
    BY <2>3
  <2>5. WalkValue
    BY <1>7 DEF Descend
  <2>6. Pushed(frames)
    BY <1>0, <1>3, <2>3, <2>4, <2>5 DEF Pushed
  <2> QED
    BY <1>1, <2>2, <2>3, <2>6
<1> QED
  BY <1>5, <1>6, <1>7

\* In the beginning every node means what it means in the source.
LEMMA InitIsMeaningful == Init /\ program \in Acyclic => Meaningful
<1> SUFFICES ASSUME Init, program \in Acyclic PROVE Meaningful
  OBVIOUS
<1>1. \A n \in Nodes : Evaluate(kind[n], Meant) = Meant[n]
  BY MeantExists DEF Init
<1>2. \A i \in DOMAIN stack : stack[i].do = "walk"
  BY DEF Init, Walk, Frame
<1> QED
  BY <1>1, <1>2 DEF Meaningful

\* No step changes what a node means, given the meaning of the others.
LEMMA NextKeepsMeaning ==
    Inductive /\ program \in Acyclic /\ Meaningful /\ [Next]_vars => Meaningful'
<1> SUFFICES ASSUME Inductive, program \in Acyclic, Meaningful, [Next]_vars PROVE Meaningful'
  OBVIOUS
<1>0. \A n \in Nodes : Meant[n] # Undefined => Evaluate(kind[n], Meant) = Meant[n]
  BY DEF Meaningful
<1>1. CASE WalkValue \/ Descend
  <2>1. PICK frames \in Seq(Frames) : Replace(frames) /\ Pushed(frames)
    BY <1>1, PushedFrames
  <2>2. stack # << >> /\ Top.node \in Nodes /\ program' = program /\ kind' = kind
    BY <1>1, PushedFrames
  <2>3. \A i \in 1..Len(frames) : frames[i].do = "fold" /\ Meant[frames[i].node] # Undefined
           => Evaluate(frames[i].kind, Meant) = Meant[frames[i].node]
    BY <1>0, <2>1, <2>2 DEF Pushed
  <2> QED
    BY <2>1, <2>2, <2>3, PushKeepsMeaning
<1>2. CASE FoldOperation
  <2> DEFINE k == Top.kind
             n == Top.node
  <2>1. /\ stack # << >> /\ Top.do = "fold" /\ program' = program /\ Replace(<< >>)
        /\ Become(n, Outcomes(k))
    BY <1>2 DEF FoldOperation, At
  <2>2. k \in Operations /\ n \in Nodes
    BY <2>1, TopIsFrame
  <2>3. Meant[n] # Undefined => Evaluate(k, Meant) = Meant[n]
    <3>1. 1 \in DOMAIN stack /\ Top = stack[1]
      BY <2>1 DEF Inductive, Top
    <3> QED
      BY <2>1, <3>1 DEF Meaningful
  <2>4. Meant[n] # Undefined => \A v \in Outcomes(k) : v # NilValue => Evaluate(v, Meant) = Meant[n]
    BY <2>2, <2>3, FoldMeans
  <2>5. \/ kind' = kind
        \/ \E v \in Outcomes(k) : v # NilValue /\ kind' = [kind EXCEPT ![n] = v]
    BY <2>1, BecomeForm
  <2> QED
    BY <2>1, <2>4, <2>5, PopKeepsMeaning
<1>3. CASE Propagate
  <2> DEFINE k == kind[Top.node]
             n == Top.node
  <2>1. /\ stack # << >> /\ program' = program /\ Replace(<< >>) /\ IsIdentifier(k)
        /\ kind' = [kind EXCEPT ![n] = kind[k.of]]
    BY <1>3 DEF Propagate, At
  <2>2. n \in Nodes /\ k.of \in Nodes
    BY <2>1, TopIsFrame, WorkedOn DEF IsLiteral, IsIdentifier
  <2>3. Evaluate(k, Meant) = Meant[k.of]
    BY <2>1 DEF Evaluate, IsUnary, IsBinary, IsInteger, IsBoolean, IsIdentifier
  <2>4. Meant[n] # Undefined => Evaluate(kind[k.of], Meant) = Meant[n]
    BY <1>0, <2>2, <2>3
  <2> QED
    BY <2>1, <2>4, PopKeepsMeaning
<1>4. CASE Retype
  <2> DEFINE k == kind[Top.node]
             n == Top.node
  <2>1. /\ stack # << >> /\ program' = program /\ Replace(<< >>)
        /\ Become(n, FoldLiteral(k))
    BY <1>4 DEF Retype, At
  <2>2. n \in Nodes
    BY <2>1, TopIsFrame
  <2>3. Meant[n] # Undefined => \A v \in FoldLiteral(k) : v # NilValue => Evaluate(v, Meant) = Meant[n]
    BY <1>0, <2>2, LiteralKeepsMeaning
  <2>4. \/ kind' = kind
        \/ \E v \in FoldLiteral(k) : v # NilValue /\ kind' = [kind EXCEPT ![n] = v]
    BY <2>1, BecomeForm
  <2> QED
    BY <2>1, <2>3, <2>4, PopKeepsMeaning
<1>5. CASE Overflow \/ UNCHANGED vars
  <2>1. UNCHANGED <<program, kind, stack>>
    BY <1>5 DEF Overflow, vars
  <2> QED
    BY <2>1, MeantIsFixed DEF Meaningful
<1> QED
  BY <1>1, <1>2, <1>3, <1>4, <1>5 DEF Next

-----------------------------------------------------------------------------
(* The meaning of nodes is kept.                                           *)

\* A Kind with a meaning is in terms of nodes with a meaning only.
LEMMA MeaningIsStrict ==
    ASSUME NEW k, NEW M, Evaluate(k, M) # Undefined, NEW m \in Uses(k)
    PROVE  M[m] # Undefined
<1>1. \A op, x : Negate(op, Undefined) = Undefined
  BY DEF Negate, Undefined, IsInteger, IsBoolean
<1>2. \A op, x : Apply(op, Undefined, x) = Undefined /\ Apply(op, x, Undefined) = Undefined
  BY DEF Apply, Undefined, IsInteger, IsBoolean
<1>3. CASE IsIdentifier(k)
  BY <1>3 DEF Uses, Evaluate, IsIdentifier, IsInteger, IsBoolean, IsUnary, IsBinary
<1>4. CASE IsUnary(k)
  BY <1>1, <1>4 DEF Uses, Evaluate, IsIdentifier, IsInteger, IsBoolean, IsUnary, IsBinary
<1>5. CASE IsBinary(k)
  BY <1>2, <1>5 DEF Uses, Evaluate, IsIdentifier, IsInteger, IsBoolean, IsUnary, IsBinary
<1>6. CASE ~IsIdentifier(k) /\ ~IsUnary(k) /\ ~IsBinary(k)
  BY <1>6 DEF Uses
<1> QED
  BY <1>3, <1>4, <1>5, <1>6

\* A literal is in terms of nothing.
LEMMA UsesOfLiteral ==
    ASSUME NEW v, IsLiteral(v)
    PROVE  Uses(v) = {}
BY DEF IsLiteral, Uses, IsIdentifier, IsUnary, IsBinary

\* What nodes are in terms of, in the source and at any time, are nodes.
LEMMA UsesAreNodes ==
    ASSUME Inductive, NEW n \in Nodes
    PROVE  Uses(program[n]) \subseteq Nodes /\ Uses(kind[n]) \subseteq Nodes
<1>1. \A k \in Written : Uses(k) \subseteq Nodes
  BY WrittenIsWellFormed DEF Inductive, Uses
<1>2. program[n] \in Written
  BY DEF Written
<1>3. IsLiteral(kind[n]) \/ kind[n] \in Written
  BY DEF Inductive, KindsAreSound
<1> QED
  BY <1>1, <1>2, <1>3, UsesOfLiteral

\* A node becomes a literal, or takes the Kind of a constant that it refers to.
LEMMA KindOfNext ==
    ASSUME Inductive, Next
    PROVE  \/ kind' = kind
           \/ \E v : IsLiteral(v) /\ kind' = [kind EXCEPT ![Top.node] = v]
           \/ /\ Propagate /\ IsIdentifier(kind[Top.node]) /\ kind[Top.node].of \in Nodes
              /\ Top.node \in Nodes
              /\ kind' = [kind EXCEPT ![Top.node] = kind[kind[Top.node].of]]
<1>1. CASE WalkValue \/ Descend \/ Overflow
  BY <1>1 DEF WalkValue, Descend, Overflow
<1>2. CASE FoldOperation
  BY <1>2, BecomeForm DEF FoldOperation
<1>3. CASE Retype
  BY <1>3, BecomeForm DEF Retype
<1>4. CASE Propagate
  <2>1. stack # << >> /\ IsIdentifier(kind[Top.node])
    BY <1>4 DEF Propagate, At
  <2>2. Top.node \in Nodes /\ kind[Top.node].of \in Nodes
    BY <2>1, TopIsFrame, WorkedOn DEF IsLiteral, IsIdentifier
  <2> QED
    BY <1>4, <2>1, <2>2 DEF Propagate
<1> QED
  BY <1>1, <1>2, <1>3, <1>4 DEF Next

\* Neither the source nor the order of modules changes.
LEMMA ProgramIsFixed == [Next]_vars => program' = program /\ order' = order
BY DEF Next, vars, WalkValue, Descend, FoldOperation, Propagate, Retype, Overflow

\* A shared Kind is in terms of what its constant was in terms of.
LEMMA NextKeepsNarrowed == Inductive /\ Narrowed /\ [Next]_vars => Narrowed'
<1> SUFFICES ASSUME Inductive, Narrowed, [Next]_vars,
                    NEW S \in SUBSET Nodes, IsClosed(S),
                    NEW n \in Nodes, Uses(program[n]) \subseteq S
             PROVE  Uses(kind'[n]) \subseteq S
  BY ProgramIsFixed, MeantIsFixed DEF Narrowed
<1>1. \A m \in Nodes : Uses(program[m]) \subseteq S => Uses(kind[m]) \subseteq S
  BY DEF Narrowed
<1>2. CASE kind' = kind
  BY <1>1, <1>2
<1>3. ASSUME NEW v, IsLiteral(v), kind' = [kind EXCEPT ![Top.node] = v]
      PROVE  Uses(kind'[n]) \subseteq S
  <2>1. kind'[n] = kind[n] \/ kind'[n] = v
    BY <1>3 DEF Inductive, KindsAreSound
  <2> QED
    BY <1>1, <1>3, <2>1, UsesOfLiteral
<1>4. ASSUME IsIdentifier(kind[Top.node]), kind[Top.node].of \in Nodes,
             kind' = [kind EXCEPT ![Top.node] = kind[kind[Top.node].of]]
      PROVE  Uses(kind'[n]) \subseteq S
  <2>1. CASE n # Top.node
    BY <1>1, <1>4, <2>1 DEF Inductive, KindsAreSound
  <2>2. CASE n = Top.node
    <3> DEFINE c == kind[n].of
    <3>1. kind'[n] = kind[c]
      BY <1>4, <2>2 DEF Inductive, KindsAreSound
    <3>2. Uses(kind[n]) = {c}
      BY <1>4, <2>2 DEF Uses, IsIdentifier, IsUnary, IsBinary
    <3>3. c \in S
      BY <1>1, <3>2
    <3>4. Uses(program[c]) \subseteq S
      BY <3>3 DEF IsClosed
    <3> QED
      BY <1>1, <3>1, <3>3, <3>4
  <2> QED
    BY <2>1, <2>2
<1> QED
  BY <1>2, <1>3, <1>4, KindOfNext DEF vars

\* Sharing never makes a node depend on itself.
LEMMA KindIsFounded ==
    ASSUME Inductive, program \in Acyclic, Narrowed
    PROVE  Founded(kind)
<1>1. \A n \in Nodes : Uses(program[n]) \subseteq Nodes
  BY UsesAreNodes
<1> SUFFICES ASSUME NEW S \in SUBSET Nodes, S # {}
             PROVE  \E n \in S : Uses(kind[n]) \cap S = {}
  BY DEF Founded
<1> DEFINE T == UNION {R \in SUBSET Nodes : IsClosed(R) /\ R \cap S = {}}
<1>2. T \in SUBSET Nodes /\ IsClosed(T) /\ T \cap S = {}
  BY DEF IsClosed
<1>3. PICK n \in Nodes \ T : Uses(program[n]) \cap (Nodes \ T) = {}
  <2>1. Nodes \ T # {} /\ Nodes \ T \in SUBSET Nodes
    BY <1>2
  <2> QED
    BY <2>1 DEF Acyclic, Founded
<1>4. Uses(program[n]) \subseteq T
  BY <1>1, <1>3
<1>5. n \in S
  <2> SUFFICES ASSUME n \notin S PROVE FALSE
    OBVIOUS
  <2> DEFINE R == T \cup {n}
  <2>1. R \in SUBSET Nodes /\ IsClosed(R) /\ R \cap S = {}
    BY <1>2, <1>4 DEF IsClosed
  <2>2. n \in T
    BY <2>1
  <2> QED
    BY <1>3, <2>2
<1>6. Uses(kind[n]) \subseteq T
  BY <1>2, <1>4, <1>5 DEF Narrowed
<1> QED
  BY <1>2, <1>5, <1>6

\* What is meaningful, and not in terms of itself, has the meaning that it had.
LEMMA MeaningfulMeans == Inductive /\ program \in Acyclic /\ Meaningful /\ Narrowed => MeaningKept
<1> SUFFICES ASSUME Inductive, program \in Acyclic, Meaningful, Narrowed
             PROVE  \A n \in Nodes : Meant[n] # Undefined => Now[n] = Meant[n]
  BY DEF MeaningKept
<1>1. Founded(kind)
  BY KindIsFounded
<1>2. \A n \in Nodes : Uses(kind[n]) \subseteq Nodes
  BY UsesAreNodes
<1>3. Now = [n \in Nodes |-> Evaluate(kind[n], Now)]
  BY <1>1, <1>2, MeaningExists DEF Now
<1> DEFINE D == {n \in Nodes : Meant[n] # Undefined /\ Now[n] # Meant[n]}
<1> SUFFICES ASSUME D # {} PROVE FALSE
  OBVIOUS
<1>4. PICK n \in D : Uses(kind[n]) \cap D = {}
  BY <1>1 DEF Founded
<1>5. Evaluate(kind[n], Meant) = Meant[n] /\ Meant[n] # Undefined
  BY <1>4 DEF Meaningful
<1>6. \A m \in Uses(kind[n]) : Now[m] = Meant[m]
  BY <1>2, <1>4, <1>5, MeaningIsStrict
<1>7. Evaluate(kind[n], Now) = Evaluate(kind[n], Meant)
  BY <1>6, MeaningIsLocal
<1> QED
  BY <1>3, <1>4, <1>5, <1>7


-----------------------------------------------------------------------------
(* In the order of the constants, everything is folded.                    *)

\* The operands of what is to be folded are to be folded.
LEMMA WorthyUses ==
    ASSUME program \in Acyclic, NEW n \in Nodes, Worthy(n), NEW m \in Uses(program[n])
    PROVE  m \in Nodes /\ Worthy(m)
<1>1. m \in Nodes
  BY WrittenIsWellFormed DEF Acyclic, Written, Uses
<1>2. Meant[m] # Undefined
  BY MeantExists, MeaningIsStrict DEF Worthy
<1>3. Small(m)
  BY DEF Worthy, Small
<1> QED
  BY <1>1, <1>2, <1>3 DEF Worthy

\* And so they fold, if they are integers.
LEMMA WorthyFits ==
    ASSUME NEW n, Worthy(n), IsInteger(Meant[n])
    PROVE  FoldInteger(Meant[n].n) # Nothing
BY DEF Worthy, Small

\* What comes before a frame that stays still does so, unless it is folded now.
LEMMA SettledStays ==
    ASSUME stack \in Seq(Frames), stack # << >>, program' = program,
           NEW frames \in Seq(Frames), Replace(frames),
           \A m \in Nodes : Final(kind[m]) => Final(kind'[m]),
           \/ \E p \in 1..Len(frames) : frames[p].node = Top.node
           \/ Worthy(Top.node) => Final(kind'[Top.node]),
           NEW m \in Nodes, NEW j \in 2..(Len(stack) + 1), Settled(m, j)
    PROVE  Settled(m, j + Len(frames) - 1)'
<1> SUFFICES ASSUME Worthy(m), ~Final(kind'[m])
             PROVE  \E l \in 1..(j + Len(frames) - 2) : stack'[l].node = m
  BY MeantIsFixed DEF Settled
<1>1. PICK l \in 1..(j - 1) : stack[l].node = m
  BY DEF Settled
<1>2. Len(frames) \in Nat /\ Len(stack) \in Nat
  OBVIOUS
<1>3. CASE l = 1
  <2>1. Top.node = m
    BY <1>1, <1>3 DEF Top
  <2>2. PICK p \in 1..Len(frames) : frames[p].node = m
    BY <2>1
  <2>3. stack'[p].node = m
    BY <2>2, ReplacedFrames
  <2>4. p \in 1..(j + Len(frames) - 2)
    BY <1>2
  <2> QED
    BY <2>3, <2>4
<1>4. CASE l # 1
  <2>1. l \in 2..Len(stack) /\ l + Len(frames) - 1 \in 1..(j + Len(frames) - 2)
    BY <1>2, <1>4
  <2>2. stack'[l + Len(frames) - 1] = stack[l]
    BY <2>1, ReplacedFrames
  <2> QED
    BY <1>1, <2>1, <2>2
<1> QED
  BY <1>3, <1>4

\* A step that descends into a value, or that returns from it with its literal.
LEMMA FoldingStep ==
    ASSUME Inductive, Narrowed, Folding, stack # << >>, program' = program,
           NEW frames \in Seq(Frames), Replace(frames),
           \A m \in Nodes : Final(kind[m]) => Final(kind'[m]),
           \A m \in Nodes : m # Top.node => kind'[m] = kind[m],
           \/ Pushed(frames) /\ kind' = kind
           \/ Len(frames) = 0 /\ (Worthy(Top.node) => Final(kind'[Top.node]))
    PROVE  Folding'
<1> DEFINE n == Top.node
           d == Len(frames) - 1
<1>1. /\ stack \in Seq(Frames) /\ n \in Nodes /\ Len(frames) \in Nat /\ Len(stack) \in Nat
      /\ Len(stack) >= 1 /\ n = stack[1].node
      /\ \A m \in Nodes : Uses(kind[m]) \subseteq Nodes
  <2>1. \A m \in Nodes : Uses(kind[m]) \subseteq Nodes
    BY UsesAreNodes
  <2>2. stack \in Seq(Frames) /\ n \in Nodes
    BY TopIsFrame DEF Inductive
  <2>3. Len(frames) \in Nat /\ Len(stack) \in Nat /\ Len(stack) >= 1 /\ Head(stack) = stack[1]
    BY <2>2
  <2> QED
    BY <2>1, <2>2, <2>3 DEF Top
<1>2. /\ Len(stack') = Len(frames) + Len(stack) - 1
      /\ DOMAIN stack' = 1..(Len(frames) + Len(stack) - 1)
      /\ \A i \in 1..Len(frames) : stack'[i] = frames[i]
      /\ \A i \in DOMAIN stack' : i > Len(frames) =>
            /\ i - d \in 2..Len(stack) /\ stack'[i] = stack[i - d]
  <2>1. \A i \in DOMAIN stack' : i > Len(frames) => i - Len(frames) + 1 \in 2..Len(stack)
    BY <1>1, ReplacedFrames
  <2>2. \A j \in 2..Len(stack) : stack'[j + Len(frames) - 1] = stack[j]
    BY <1>1, ReplacedFrames
  <2>3. DOMAIN stack' = 1..(Len(frames) + Len(stack) - 1)
    BY <1>1, ReplacedFrames
  <2>4. ASSUME NEW i \in DOMAIN stack', i > Len(frames)
        PROVE  i - d \in 2..Len(stack) /\ stack'[i] = stack[i - d]
    <3>1. i - d = i - Len(frames) + 1 /\ (i - d) + Len(frames) - 1 = i
      BY <1>1, <2>3
    <3> QED
      BY <2>1, <2>2, <2>4, <3>1
  <2> QED
    BY <1>1, <2>3, <2>4, ReplacedFrames
<1>3. \/ \E p \in 1..Len(frames) : frames[p].node = n
      \/ Worthy(n) => Final(kind'[n])
  <2>1. CASE Pushed(frames)
    <3>1. Len(frames) \in 1..3
      BY <2>1 DEF Pushed
    <3>2. Len(frames) \in 1..Len(frames)
      BY <3>1
    <3>3. frames[Len(frames)].node = n
      BY <2>1, <3>2 DEF Pushed
    <3> QED
      BY <3>2, <3>3
  <2> QED
    BY <2>1
<1>4. ASSUME NEW m \in Nodes, NEW i \in Nat, i - d \in 2..(Len(stack) + 1), Settled(m, i - d)
      PROVE  Settled(m, i)'
  <2>1. (i - d) + Len(frames) - 1 = i
    BY <1>1
  <2>2. Settled(m, (i - d) + Len(frames) - 1)'
    BY <1>1, <1>3, <1>4, SettledStays
  <2> QED
    BY <2>1, <2>2
<1>5. \A m : Worthy(m)' = Worthy(m)
  BY MeantIsFixed
<1>6. ASSUME NEW m \in Nodes, Worthy(m) PROVE kind'[m] = program[m] \/ Final(kind'[m])
  <2>1. kind[m] = program[m] \/ Final(kind[m])
    BY <1>6 DEF Folding
  <2> QED
    BY <1>6, <2>1
<1>7. ASSUME NEW m \in Roots, NEW i, i = Len(stack) + 1 + d
      PROVE  Settled(m, i)'
  <2>1. m \in Nodes /\ Settled(m, Len(stack) + 1)
    BY DEF Folding, Nodes
  <2>2. i - d = Len(stack) + 1 /\ i \in Nat
    BY <1>1, <1>7
  <2>3. Len(stack) + 1 \in 2..(Len(stack) + 1)
    BY <1>1
  <2> QED
    BY <1>4, <2>1, <2>2, <2>3
<1>8. ASSUME NEW i \in DOMAIN stack', stack'[i].do = "fold", Worthy(stack'[i].node)
      PROVE  /\ stack'[i].kind = program[stack'[i].node]
             /\ \A m \in Uses(stack'[i].kind) : Settled(m, i)'
  <2>1. CASE i <= Len(frames)
    <3>1. i \in 1..Len(frames) /\ stack'[i] = frames[i]
      BY <1>1, <1>2, <2>1
    <3>2. Pushed(frames)
      BY <3>1
    <3>3. /\ frames[i].node = n /\ frames[i].kind = kind[n] /\ kind[n] \in Operations
          /\ \A m \in Uses(kind[n]) : \E j \in 1..(i - 1) : frames[j].node = m
      BY <1>8, <3>1, <3>2 DEF Pushed
    <3>4. kind[n] = program[n]
      <4>1. ~Final(kind[n])
        BY <3>3 DEF Final, IsLiteral, Operations, IsUnary, IsBinary
      <4> QED
        BY <1>1, <1>8, <3>1, <3>3, <4>1 DEF Folding
    <3>5. ASSUME NEW m \in Uses(kind[n]) PROVE Settled(m, i)'
      <4>1. PICK j \in 1..(i - 1) : frames[j].node = m
        BY <3>3
      <4>2. j \in 1..Len(frames)
        BY <1>1, <3>1
      <4>3. stack'[j].node = m
        BY <1>2, <4>1, <4>2
      <4> QED
        BY <4>3 DEF Settled
    <3> QED
      BY <3>1, <3>3, <3>4, <3>5
  <2>2. CASE i > Len(frames)
    <3>1. i - d \in 2..Len(stack) /\ stack'[i] = stack[i - d]
      BY <1>2, <2>2
    <3>2. i - d \in DOMAIN stack /\ i \in Nat /\ i - d \in 2..(Len(stack) + 1)
      BY <1>1, <1>2, <3>1
    <3>3. /\ stack[i - d].kind = program[stack[i - d].node]
          /\ \A m \in Uses(stack[i - d].kind) : Settled(m, i - d)
      BY <1>8, <3>1, <3>2 DEF Folding
    <3>4. stack[i - d].node \in Nodes
      BY <1>1, <3>2 DEF Frames
    <3>5. Uses(stack[i - d].kind) \subseteq Nodes
      BY <3>3, <3>4, UsesAreNodes
    <3> QED
      BY <1>4, <3>1, <3>2, <3>3, <3>5
  <2>3. i <= Len(frames) \/ i > Len(frames)
    BY ONLY <1>1, <1>2, i \in DOMAIN stack'
  <2> QED
    BY <2>1, <2>2, <2>3
<1>9. ASSUME NEW i \in DOMAIN stack'
      PROVE  \E S \in SUBSET Nodes :
                /\ stack'[i].node \in S /\ IsClosed(S)
                /\ \A m \in S : IsIdentifier(program[m]) => Settled(program[m].of, i)'
  <2>0. \A m \in Nodes : IsIdentifier(program[m]) => program[m].of \in Nodes
    BY WrittenIsWellFormed DEF Inductive, Written
  <2>1. CASE i <= Len(frames)
    <3>1. i \in 1..Len(frames) /\ stack'[i] = frames[i]
      BY <1>1, <1>2, <2>1
    <3>2. Pushed(frames)
      BY <3>1
    <3>3. frames[i].node \in {n} \cup Uses(kind[n])
      BY <3>1, <3>2 DEF Pushed
    <3>4. PICK S \in SUBSET Nodes : /\ n \in S /\ IsClosed(S)
                                    /\ \A m \in S : IsIdentifier(program[m]) => Settled(program[m].of, 1)
      <4>1. 1 \in DOMAIN stack
        BY <1>1
      <4> QED
        BY <1>1, <4>1 DEF Folding
    <3>5. Uses(kind[n]) \subseteq S
      BY <3>4 DEF Narrowed, IsClosed
    <3>6. ASSUME NEW m \in S, IsIdentifier(program[m]) PROVE Settled(program[m].of, i)'
      <4> DEFINE c == program[m].of
      <4>1. Worthy(c) => Final(kind[c])
        BY <3>4, <3>6 DEF Settled
      <4>2. Worthy(c) => Final(kind'[c])
        BY <2>0, <3>6, <4>1
      <4>3. c' = c
        OBVIOUS
      <4> QED
        BY <1>5, <4>2, <4>3 DEF Settled
    <3> QED
      BY <3>1, <3>3, <3>4, <3>5, <3>6
  <2>2. CASE i > Len(frames)
    <3>1. i - d \in 2..Len(stack) /\ stack'[i] = stack[i - d]
      BY <1>2, <2>2
    <3>2. i - d \in DOMAIN stack /\ i \in Nat /\ i - d \in 2..(Len(stack) + 1)
      BY <1>1, <1>2, <3>1
    <3>3. PICK S \in SUBSET Nodes :
             /\ stack[i - d].node \in S /\ IsClosed(S)
             /\ \A m \in S : IsIdentifier(program[m]) => Settled(program[m].of, i - d)
      BY <3>2 DEF Folding
    <3>4. \A m \in S : IsIdentifier(program[m]) => Settled(program[m].of, i)'
      BY <1>4, <2>0, <3>2, <3>3
    <3> QED
      BY <3>1, <3>3, <3>4
  <2>3. i <= Len(frames) \/ i > Len(frames)
    BY ONLY <1>1, <1>2, i \in DOMAIN stack'
  <2> QED
    BY <2>1, <2>2, <2>3
<1> HIDE DEF n
<1>10. Len(stack') + 1 = Len(stack) + 1 + d
  BY <1>1, <1>2
<1>11. ASSUME NEW m \in Roots PROVE Settled(m, Len(stack) + 1)'
  <2>1. PICK i : i = Len(stack') + 1
    OBVIOUS
  <2>2. Settled(m, i)'
    BY <1>7, <1>10, <2>1
  <2> QED
    BY <2>1, <2>2 DEF Settled
<1>12. \A S : IsClosed(S)' = IsClosed(S)
  BY MeantIsFixed
<1> QED
  BY <1>5, <1>6, <1>8, <1>9, <1>11, <1>12 DEF Folding

\* Returning from an operation of which the operands are folded folds it.
LEMMA FoldOperationFolds ==
    ASSUME Inductive, program \in Acyclic, Meaningful, Narrowed, Folding,
           FoldOperation, pc' = "run"
    PROVE  Folding'
<1> DEFINE n == Top.node
           k == Top.kind
<1>1. /\ stack # << >> /\ Top.do = "fold" /\ program' = program /\ Replace(<< >>)
      /\ Become(n, Outcomes(k))
  BY DEF FoldOperation, At
<1>2. k \in Operations /\ n \in Nodes /\ DOMAIN kind = Nodes
  BY <1>1, TopIsFrame DEF Inductive, KindsAreSound
<1>3. \A v \in Outcomes(k) : v # Panic /\ v # NilValue => Final(v)
  BY FoldedIsFinal DEF Outcomes
<1>4. \/ kind' = kind /\ NilValue \in Outcomes(k)
      \/ \E v : Final(v) /\ kind' = [kind EXCEPT ![n] = v]
  BY <1>1, <1>3, BecomeForm
<1>5. ASSUME Worthy(n) PROVE NilValue \notin Outcomes(k)
  <2>1. k = program[n] /\ \A m \in Uses(k) : Settled(m, 1)
    <3>1. 1 \in DOMAIN stack /\ Top = stack[1]
      BY <1>1 DEF Inductive, Top
    <3> QED
      BY <1>1, <1>5, <3>1 DEF Folding
  <2>2. \A m \in Uses(k) : IsLiteral(kind[m])
    BY <1>2, <1>5, <2>1, WorthyUses DEF Settled, Final
  <2>3. Evaluate(k, Meant) = Meant[n] /\ Meant[n] # Undefined
    BY <1>2, <1>5, <2>1, MeantExists DEF Worthy
  <2> QED
    BY <1>2, <1>5, <2>2, <2>3, FoldMeans, WorthyFits
<1>6. Worthy(n) => Final(kind'[n])
  BY <1>2, <1>4, <1>5
<1>7. /\ \A m \in Nodes : Final(kind[m]) => Final(kind'[m])
      /\ \A m \in Nodes : m # n => kind'[m] = kind[m]
  BY <1>2, <1>4
<1> DEFINE frames == << >>
<1>8. frames \in Seq(Frames) /\ Len(frames) = 0 /\ Replace(frames)
  BY <1>1
<1> HIDE DEF frames
<1> QED
  BY <1>1, <1>6, <1>7, <1>8, FoldingStep

\* An identifier that is to be folded finds its constant folded.
LEMMA PropagateFolds ==
    ASSUME Inductive, program \in Acyclic, Meaningful, Narrowed, Folding, Propagate
    PROVE  Folding'
<1> DEFINE n == Top.node
           c == kind[n].of
<1>1. /\ stack # << >> /\ program' = program /\ Replace(<< >>) /\ IsIdentifier(kind[n])
      /\ kind' = [kind EXCEPT ![n] = kind[c]]
  BY DEF Propagate, At
<1>2. n \in Nodes /\ c \in Nodes /\ DOMAIN kind = Nodes /\ ~Final(kind[n])
  BY <1>1, TopIsFrame, WorkedOn DEF Inductive, KindsAreSound, Final, IsLiteral, IsIdentifier
<1>3. ASSUME Worthy(n) PROVE Final(kind[c])
  <2>1. kind[n] = program[n]
    BY <1>2, <1>3 DEF Folding
  <2>2. 1 \in DOMAIN stack /\ Top = stack[1]
    BY <1>1 DEF Inductive, Top
  <2>3. Settled(c, 1)
    BY <1>1, <2>1, <2>2 DEF Folding
  <2>4. c \in Uses(program[n])
    BY <1>1, <2>1 DEF Uses, IsIdentifier, IsUnary, IsBinary
  <2>5. Worthy(c)
    BY <1>2, <1>3, <2>4, WorthyUses
  <2> QED
    BY <2>3, <2>5 DEF Settled
<1>4. /\ Worthy(n) => Final(kind'[n])
      /\ \A m \in Nodes : Final(kind[m]) => Final(kind'[m])
      /\ \A m \in Nodes : m # n => kind'[m] = kind[m]
  BY <1>1, <1>2, <1>3
<1> DEFINE frames == << >>
<1>5. frames \in Seq(Frames) /\ Len(frames) = 0 /\ Replace(frames)
  BY <1>1
<1> HIDE DEF frames
<1> QED
  BY <1>1, <1>4, <1>5, FoldingStep

\* A literal takes its smallest type, if it is an integer that has one.
LEMMA RetypeFolds ==
    ASSUME Inductive, program \in Acyclic, Meaningful, Narrowed, Folding, Retype, pc' = "run"
    PROVE  Folding'
<1> DEFINE n == Top.node
           v == kind[n]
<1>1. /\ stack # << >> /\ program' = program /\ Replace(<< >>) /\ IsLiteral(v)
      /\ Become(n, FoldLiteral(v))
  BY DEF Retype, At
<1>2. n \in Nodes /\ DOMAIN kind = Nodes
  BY <1>1, TopIsFrame DEF Inductive, KindsAreSound
<1>3. \A w \in FoldLiteral(v) : w # Panic /\ w # NilValue => Final(w)
  BY FoldedIsFinal
<1>4. \/ kind' = kind /\ NilValue \in FoldLiteral(v)
      \/ \E w : Final(w) /\ kind' = [kind EXCEPT ![n] = w]
  BY <1>1, <1>3, BecomeForm
<1>5. ASSUME Worthy(n), NilValue \in FoldLiteral(v) PROVE Final(v)
  <2> SUFFICES ASSUME IsInteger(v) PROVE FALSE
    BY <1>1 DEF Final
  <2>1. Meant[n] = Integer("exact", v.n)
    BY <1>1, <1>2, <1>5, LiteralMeans DEF Meaningful, Worthy
  <2>2. IsInteger(Meant[n]) /\ Meant[n].n = v.n
    BY <2>1 DEF Integer, IsInteger
  <2>3. FoldLiteral(v) = FoldInteger(v.n)
    BY DEF FoldLiteral, IsInteger, IsFloat, IsNaN
  <2> QED
    BY <1>5, <2>2, <2>3, WorthyFits, FoldedOrNothing
<1>6. /\ Worthy(n) => Final(kind'[n])
      /\ \A m \in Nodes : Final(kind[m]) => Final(kind'[m])
      /\ \A m \in Nodes : m # n => kind'[m] = kind[m]
  BY <1>2, <1>4, <1>5
<1> DEFINE frames == << >>
<1>7. frames \in Seq(Frames) /\ Len(frames) = 0 /\ Replace(frames)
  BY <1>1
<1> HIDE DEF frames
<1> QED
  BY <1>1, <1>6, <1>7, FoldingStep

\* Every step that does not end the run brings the folding forward.
LEMMA NextFolds ==
    ASSUME Inductive, program \in Acyclic, Meaningful, Narrowed, Folding, [Next]_vars, pc' = "run"
    PROVE  Folding'
<1>1. CASE WalkValue \/ Descend
  <2>1. PICK frames \in Seq(Frames) : Replace(frames) /\ Pushed(frames)
    BY <1>1, PushedFrames
  <2>2. stack # << >> /\ program' = program /\ kind' = kind
    BY <1>1, PushedFrames
  <2> QED
    BY <2>1, <2>2, FoldingStep
<1>2. CASE FoldOperation
  BY <1>2, FoldOperationFolds
<1>3. CASE Propagate
  BY <1>3, PropagateFolds
<1>4. CASE Retype
  BY <1>4, RetypeFolds
<1>5. CASE Overflow
  BY <1>5 DEF Overflow
<1>6. CASE UNCHANGED vars
  BY <1>6, MeantIsFixed DEF vars, Folding, Settled
<1> QED
  BY <1>1, <1>2, <1>3, <1>4, <1>5, <1>6 DEF Next

\* The roots are walked one after another, each once.
LEMMA OrderIsOneToOne ==
    ASSUME Init
    PROVE  /\ Cardinality(Roots) \in Nat
           /\ order \in [1..Cardinality(Roots) -> Roots]
           /\ \A n \in Roots : \E i \in 1..Cardinality(Roots) : order[i] = n
           /\ \A i \in 1..Cardinality(Roots) : Position(order[i]) = i
<1> DEFINE C == Cardinality(Roots)
<1>1. IsFiniteSet(Roots) /\ C \in Nat
  BY RootsAssumption, FS_Union, FS_CardinalityType DEF Roots
<1>2. order \in [1..C -> Roots] /\ \A n \in Roots : \E i \in 1..C : order[i] = n
  BY DEF Init, Orderings, ToSet
<1>3. IsFiniteSet(1..C) /\ Cardinality(1..C) = C
  BY <1>1, FS_Interval
<1>4. order \in Surjection(1..C, Roots)
  BY <1>2 DEF Surjection
<1>5. order \in Injection(1..C, Roots)
  BY <1>3, <1>4, FS_SurjSameCardinalityImpliesInj
<1>6. \A i, j \in 1..C : order[i] = order[j] => i = j
  BY <1>2, <1>5 DEF Injection, IsInjective
<1>7. ASSUME NEW i \in 1..C PROVE Position(order[i]) = i
  BY <1>2, <1>6 DEF Position
<1> QED
  BY <1>1, <1>2, <1>7

\* In the beginning, all frames of constants are before those that need them.
LEMMA InitFolds == Init /\ program \in Acyclic /\ InOrder => Folding
<1> SUFFICES ASSUME Init, program \in Acyclic, InOrder PROVE Folding
  OBVIOUS
<1> DEFINE C == Cardinality(Roots)
<1>1. /\ C \in Nat /\ order \in [1..C -> Roots]
      /\ \A n \in Roots : \E i \in 1..C : order[i] = n
      /\ \A i \in 1..C : Position(order[i]) = i
  BY OrderIsOneToOne
<1>2. Inductive
  BY InitIsInductive
<1>3. /\ DOMAIN stack = 1..C
      /\ \A i \in 1..C : stack[i].node = order[i] /\ stack[i].do = "walk"
  BY <1>1 DEF Init, Walk, Frame
<1>4. Len(stack) = C
  <2>1. stack \in Seq(Frames)
    BY <1>2 DEF Inductive
  <2>2. Len(stack) \in Nat /\ DOMAIN stack = 1..Len(stack)
    BY <2>1
  <2> QED
    BY <1>1, <1>3, <2>2
<1>5. \A n \in Roots : Settled(n, Len(stack) + 1)
  BY <1>1, <1>3, <1>4 DEF Settled
<1>6. ASSUME NEW i \in 1..C
      PROVE  \E S \in SUBSET Nodes :
                /\ stack[i].node \in S /\ IsClosed(S)
                /\ \A m \in S : IsIdentifier(program[m]) => Settled(program[m].of, i)
  <2> DEFINE Rooted(S, j) ==
                /\ order[j] \in S
                /\ \A m \in S : IF IsIdentifier(program[m]) THEN Position(program[m].of) < j
                                ELSE Uses(program[m]) \subseteq S
             S == UNION {R \in SUBSET Nodes : \E j \in 1..i : Rooted(R, j)}
  <2>1. ASSUME NEW j \in 1..i PROVE \E R \in SUBSET Nodes : Rooted(R, j)
    <3>1. j \in 1..C /\ order[j] \in Roots
      BY <1>1, <1>6
    <3> QED
      BY <1>1, <3>1 DEF InOrder
  <2>2. ASSUME NEW m \in S, IsIdentifier(program[m])
        PROVE  \E l \in 1..(i - 1) : order[l] = program[m].of
    <3>1. PICK R \in SUBSET Nodes, j \in 1..i : m \in R /\ Rooted(R, j)
      OBVIOUS
    <3>2. program[m].of \in Roots
      BY <2>2, ProgramsAssumption DEF Init, Roots
    <3>3. PICK l \in 1..C : order[l] = program[m].of
      BY <1>1, <3>2
    <3>4. l < j
      BY <1>1, <2>2, <3>1, <3>3
    <3> QED
      BY <1>1, <1>6, <3>3, <3>4
  <2>3. ASSUME NEW m \in S PROVE Uses(program[m]) \subseteq S
    <3>1. CASE IsIdentifier(program[m])
      <4>1. PICK l \in 1..(i - 1) : order[l] = program[m].of
        BY <2>2, <3>1
      <4>2. l \in 1..i
        BY <1>6
      <4>3. PICK R \in SUBSET Nodes : Rooted(R, l)
        BY <2>1, <4>2
      <4>4. program[m].of \in S
        BY <4>1, <4>2, <4>3
      <4>5. Uses(program[m]) = {program[m].of}
        BY <3>1 DEF Uses, IsIdentifier, IsUnary, IsBinary
      <4> QED
        BY <4>4, <4>5
    <3>2. CASE ~IsIdentifier(program[m])
      <4>1. PICK R \in SUBSET Nodes, j \in 1..i : m \in R /\ Rooted(R, j)
        OBVIOUS
      <4>2. Uses(program[m]) \subseteq R /\ R \subseteq S
        BY <3>2, <4>1
      <4> QED
        BY <4>2
    <3> QED
      BY <3>1, <3>2
  <2>4. S \in SUBSET Nodes /\ IsClosed(S)
    BY <2>3 DEF IsClosed
  <2>5. stack[i].node \in S
    <3>1. i \in 1..i
      BY <1>6
    <3>2. PICK R \in SUBSET Nodes : Rooted(R, i)
      BY <2>1, <3>1
    <3> QED
      BY <1>3, <3>1, <3>2
  <2>6. \A m \in S : IsIdentifier(program[m]) => Settled(program[m].of, i)
    <3> HIDE DEF S
    <3>1. \A l \in 1..(i - 1) : stack[l].node = order[l]
      BY <1>1, <1>3, <1>6
    <3> QED
      BY <2>2, <3>1 DEF Settled
  <2> QED
    BY <2>4, <2>5, <2>6
<1>7. \A i \in DOMAIN stack : stack[i].do # "fold"
  BY <1>3
<1> QED
  BY <1>3, <1>5, <1>6, <1>7 DEF Folding, Init

\* At the end nothing is left that is settled by a frame.
LEMMA DoneIsFolded ==
    Inductive /\ (program \in Acyclic /\ InOrder /\ pc = "run" => Folding) => FoldedInOrder
<1> SUFFICES ASSUME Inductive, program \in Acyclic, InOrder, Folding, Done,
                    NEW n \in Roots, Worthy(n)
             PROVE  Final(kind[n])
  BY DEF FoldedInOrder, Worthy, Final, Done
<1>1. Len(stack) = 0
  BY DEF Done
<1>2. Settled(n, Len(stack) + 1)
  BY DEF Folding
<1> QED
  BY <1>1, <1>2 DEF Settled


-----------------------------------------------------------------------------
(* The depth of the recursion.                                             *)

\* No node of an acyclic program is in terms of itself.
LEMMA NotAboveItself ==
    ASSUME Inductive, program \in Acyclic, NEW n \in Nodes
    PROVE  n \notin Above(n)
<1> DEFINE T == UNION {S \in SUBSET Nodes : IsClosed(S) /\ n \notin S}
           R == Nodes \ T
<1>1. T \in SUBSET Nodes /\ IsClosed(T) /\ n \notin T
  BY DEF IsClosed
<1>2. PICK m \in R : Uses(program[m]) \cap R = {}
  <2>1. R \in SUBSET Nodes /\ R # {}
    BY <1>1
  <2> QED
    BY <2>1 DEF Acyclic, Founded
<1>3. Uses(program[m]) \subseteq T
  BY <1>2, UsesAreNodes
<1>4. m = n
  <2> SUFFICES ASSUME m # n PROVE FALSE
    OBVIOUS
  <2> DEFINE S == T \cup {m}
  <2>1. S \in SUBSET Nodes /\ IsClosed(S) /\ n \notin S
    BY <1>1, <1>2, <1>3 DEF IsClosed
  <2>2. m \in T
    BY <2>1
  <2> QED
    BY <1>2, <2>2
<1> QED
  BY <1>1, <1>3, <1>4 DEF Above

\* What a node is in terms of now has at least that node more above it.
LEMMA AboveGrows ==
    ASSUME Inductive, program \in Acyclic, Narrowed, NEW n \in Nodes, NEW m \in Uses(kind[n])
    PROVE  Cardinality(Above(n)) + 1 <= Cardinality(Above(m))
<1>1. \A x \in Nodes : IsFiniteSet(Above(x))
  <2>1. IsFiniteSet(Nodes)
    BY RootsAssumption, StackAssumption, FS_Union DEF Nodes, Roots
  <2> QED
    BY <2>1, FS_Subset DEF Above
<1>2. m \in Nodes
  BY UsesAreNodes
<1>3. n \in Above(m)
  BY DEF Above, Narrowed
<1>4. Above(n) \subseteq Above(m)
  <2> SUFFICES ASSUME NEW x \in Above(n), NEW S \in SUBSET Nodes, IsClosed(S),
                      Uses(program[x]) \subseteq S
               PROVE  m \in S
    BY DEF Above
  <2>1. n \in S
    BY DEF Above
  <2> QED
    BY <2>1 DEF IsClosed, Narrowed
<1>5. Above(n) \cup {n} \in SUBSET Above(m)
  BY <1>3, <1>4
<1>6. Cardinality(Above(n) \cup {n}) = Cardinality(Above(n)) + 1
  BY <1>1, NotAboveItself, FS_AddElement
<1>7. Cardinality(Above(n) \cup {n}) <= Cardinality(Above(m))
  BY <1>1, <1>2, <1>5, FS_Subset
<1> QED
  BY <1>6, <1>7

\* Above a node are at most all the others.
LEMMA AboveIsBounded ==
    ASSUME Inductive, program \in Acyclic, NEW n \in Nodes
    PROVE  Cardinality(Above(n)) \in Nat /\ Cardinality(Above(n)) <= Cardinality(Nodes) - 1
<1>1. IsFiniteSet(Nodes)
  BY RootsAssumption, StackAssumption, FS_Union DEF Nodes, Roots
<1>2. Above(n) \in SUBSET Nodes /\ Above(n) \cup {n} \in SUBSET Nodes
  BY DEF Above
<1>3. IsFiniteSet(Above(n)) /\ Cardinality(Above(n)) \in Nat /\ Cardinality(Nodes) \in Nat
  BY <1>1, <1>2, FS_Subset, FS_CardinalityType
<1>4. Cardinality(Above(n) \cup {n}) = Cardinality(Above(n)) + 1
  BY <1>3, NotAboveItself, FS_AddElement
<1>5. Cardinality(Above(n) \cup {n}) <= Cardinality(Nodes)
  BY <1>1, <1>2, FS_Subset
<1> QED
  BY <1>3, <1>4, <1>5

\* There is a number of roots.
LEMMA RootsAreFinite == Cardinality(Roots) \in Nat
BY RootsAssumption, FS_Union, FS_CardinalityType DEF Roots

\* The stack begins with one frame for each root.
LEMMA InitIsShallow == Init /\ program \in Acyclic => Shallow
<1> SUFFICES ASSUME Init, program \in Acyclic, NEW i \in DOMAIN stack
             PROVE  Len(stack) - i < Cardinality(Roots) + 2 * Cardinality(Above(stack[i].node))
  BY DEF Shallow
<1>1. Inductive
  BY InitIsInductive
<1>2. stack \in Seq(Frames) /\ Cardinality(Roots) \in Nat
  BY <1>1, RootsAreFinite DEF Inductive
<1>3. Len(stack) = Cardinality(Roots)
  <2>1. DOMAIN stack = 1..Cardinality(Roots)
    BY DEF Init, Orderings
  <2>2. Len(stack) \in Nat /\ DOMAIN stack = 1..Len(stack)
    BY <1>2
  <2> QED
    BY <1>2, <2>1, <2>2
<1>4. stack[i].node \in Nodes /\ i \in Nat /\ i > 0
  BY <1>2 DEF Frames
<1>5. Cardinality(Above(stack[i].node)) \in Nat
  BY <1>1, <1>4, AboveIsBounded
<1> QED
  BY <1>2, <1>3, <1>4, <1>5

\* A descent pushes two frames more than it pops, and one node is left behind.
LEMMA NextKeepsShallow ==
    ASSUME Inductive, program \in Acyclic, Narrowed, Shallow, [Next]_vars
    PROVE  Shallow'
<1> DEFINE R == Cardinality(Roots)
           C(n) == Cardinality(Above(n))
<1>0. \A n : Above(n)' = Above(n)
  BY ProgramIsFixed DEF Above, IsClosed
<1>1. stack \in Seq(Frames) /\ R \in Nat /\ \A n \in Nodes : C(n) \in Nat
  BY RootsAreFinite, AboveIsBounded DEF Inductive
<1>2. \A i \in DOMAIN stack : Len(stack) - i < R + 2 * C(stack[i].node)
  BY DEF Shallow
<1>3. CASE WalkValue \/ Descend
  <2>1. PICK frames \in Seq(Frames) : Replace(frames) /\ Pushed(frames)
    BY <1>3, PushedFrames
  <2>2. stack # << >> /\ Top.node \in Nodes
    BY <1>3, PushedFrames
  <2> DEFINE n == Top.node
             l == Len(frames)
  <2>3. /\ Len(stack') = l + Len(stack) - 1 /\ DOMAIN stack' = 1..(l + Len(stack) - 1)
        /\ \A i \in 1..l : stack'[i] = frames[i]
        /\ \A j \in 2..Len(stack) : stack'[j + l - 1] = stack[j]
        /\ \A i \in DOMAIN stack' : i > l => i - l + 1 \in 2..Len(stack)
    BY <1>1, <2>1, <2>2, ReplacedFrames
  <2>4. l \in 1..3 /\ Len(stack) \in Nat /\ Len(stack) >= 1
    BY <1>1, <2>1, <2>2 DEF Pushed
  <2>5. Len(stack) - 1 < R + 2 * C(n)
    <3>1. 1 \in DOMAIN stack /\ Top = stack[1]
      BY <1>1, <2>2 DEF Top
    <3> QED
      BY <1>2, <3>1
  <2>6. ASSUME NEW i \in DOMAIN stack'
        PROVE  Len(stack') - i < R + 2 * C(stack'[i].node)
    <3>1. CASE i < l
      <4>0. i \in 1..l /\ i # l
        BY <2>3, <2>4, <3>1
      <4>1. stack'[i].node \in Uses(kind[n])
        BY <2>1, <2>3, <4>0 DEF Pushed
      <4>2. C(n) + 1 <= C(stack'[i].node) /\ C(stack'[i].node) \in Nat /\ C(n) \in Nat
        BY <1>1, <2>2, <4>1, AboveGrows, UsesAreNodes
      <4>3. l \in Int /\ i \in Int /\ l <= 3 /\ i >= 1
        <5> HIDE DEF l
        <5> QED
          BY ONLY <2>4, <4>0
      <4>4. \A s, r, c, e, x, y \in Int :
               s - 1 < r + 2 * c /\ c + 1 <= e /\ x <= 3 /\ y >= 1 => x + s - 1 - y < r + 2 * e
        OBVIOUS
      <4>5. l + Len(stack) - 1 - i < R + 2 * C(stack'[i].node)
        <5> HIDE DEF C, R, n, l
        <5> QED
          BY <1>1, <2>4, <2>5, <4>2, <4>3, <4>4
      <4> QED
        BY <2>3, <4>5
    <3>2. CASE i = l
      <4>1. stack'[i].node = n
        BY <2>1, <2>3, <2>4, <3>2 DEF Pushed
      <4> QED
        BY <2>3, <2>4, <2>5, <3>2, <4>1
    <3>3. CASE i > l
      <4> DEFINE j == i - l + 1
      <4>0. i \in Nat
        BY <2>3
      <4>1. j \in 2..Len(stack) /\ i = j + l - 1
        BY <2>3, <2>4, <3>3, <4>0
      <4>2. stack'[i] = stack[j] /\ j \in DOMAIN stack
        <5>1. stack'[j + l - 1] = stack[j]
          BY <2>3, <4>1
        <5>2. j \in DOMAIN stack
          BY <1>1, <4>1
        <5> QED
          BY <4>1, <5>1, <5>2
      <4>3. Len(stack) - j < R + 2 * C(stack[j].node)
        BY <1>2, <4>2
      <4>4. Len(stack') - i = Len(stack) - j
        BY <2>3, <2>4, <4>1
      <4> QED
        BY <4>2, <4>3, <4>4
    <3> QED
      BY <2>3, <2>4, <3>1, <3>2, <3>3
  <2> QED
    BY <1>0, <2>6 DEF Shallow
<1>4. CASE FoldOperation \/ Propagate \/ Retype
  <2>1. stack # << >> /\ Replace(<< >>)
    BY <1>4 DEF FoldOperation, Propagate, Retype, At
  <2>2. ASSUME NEW i \in DOMAIN stack'
        PROVE  Len(stack') - i < R + 2 * C(stack'[i].node)
    <3>1. /\ Len(stack') = Len(stack) - 1 /\ stack'[i] = stack[i + 1] /\ i + 1 \in DOMAIN stack
          /\ Len(stack) \in Nat /\ i \in Nat
      BY <1>1, <2>1, PoppedFrames
    <3>2. Len(stack) - (i + 1) < R + 2 * C(stack[i + 1].node)
      BY <1>2, <3>1
    <3> QED
      BY <3>1, <3>2
  <2> QED
    BY <1>0, <2>2 DEF Shallow
<1>5. CASE Overflow \/ UNCHANGED vars
  BY <1>0, <1>5 DEF Overflow, vars, Shallow
<1> QED
  BY <1>3, <1>4, <1>5 DEF Next

\* So the stack of an acyclic program is not exhausted.
LEMMA ShallowIsBounded ==
    ASSUME Inductive, program \in Acyclic, Shallow
    PROVE  ~Overflow
<1>1. /\ stack \in Seq(Frames) /\ Len(stack) \in Nat /\ MaxStack \in Nat \ {0}
      /\ Cardinality(Roots) \in Nat
      /\ MaxStack > Cardinality(Roots) + 2 * (Cardinality(Nodes) - 1)
  BY RootsAreFinite, StackAssumption DEF Inductive
<1>2. Cardinality(Nodes) \in Nat
  BY RootsAssumption, StackAssumption, FS_Union, FS_CardinalityType DEF Nodes, Roots
<1>3. CASE stack = << >>
  <2>1. ~(Len(stack) >= MaxStack)
    BY <1>1, <1>3
  <2> QED
    BY <2>1 DEF Overflow
<1>4. CASE stack # << >>
  <2>1. 1 \in DOMAIN stack /\ stack[1].node \in Nodes
    BY <1>1, <1>4 DEF Frames
  <2>2. Len(stack) - 1 < Cardinality(Roots) + 2 * Cardinality(Above(stack[1].node))
    BY <2>1 DEF Shallow
  <2>3. /\ Cardinality(Above(stack[1].node)) \in Nat
        /\ Cardinality(Above(stack[1].node)) <= Cardinality(Nodes) - 1
    BY <2>1, AboveIsBounded
  <2>4. ~(Len(stack) >= MaxStack)
    BY <1>1, <1>2, <2>2, <2>3
  <2> QED
    BY <2>4 DEF Overflow
<1> QED
  BY <1>3, <1>4

-----------------------------------------------------------------------------
(* The theorems about meaning.                                             *)

\* Every step keeps what holds of a program that has a meaning.
LEMMA NextKeepsIntended == Inductive /\ Intended /\ [Next]_vars => Intended'
<1> SUFFICES ASSUME Inductive, Intended, [Next]_vars, program' \in Acyclic
             PROVE  Intended'
  BY DEF Intended
<1>1. program' = program /\ order' = order /\ program \in Acyclic
  BY ProgramIsFixed
<1>2. Meaningful /\ Narrowed /\ Shallow
  BY <1>1 DEF Intended
<1>3. Meaningful' /\ Narrowed' /\ Shallow'
  BY <1>1, <1>2, NextKeepsMeaning, NextKeepsNarrowed, NextKeepsShallow
<1>4. ASSUME InOrder', pc' = "run" PROVE Folding'
  <2>1. \A n : Position(n)' = Position(n)
    BY <1>1 DEF Position
  <2>2. InOrder
    BY <1>1, <1>4, <2>1 DEF InOrder
  <2>3. pc = "run"
    BY <1>4 DEF Next, vars, WalkValue, Descend, FoldOperation, Propagate, Retype, Overflow, At
  <2> QED
    BY <1>1, <1>2, <1>4, <2>2, <2>3, NextFolds DEF Intended
<1> QED
  BY <1>3, <1>4 DEF Intended

\* In an acyclic program every node keeps its meaning and depends on no more than it
\* did, and the recursion is bounded; in one in order, what can be folded is.
THEOREM FoldingIsIntended == Spec => []Intended
<1>1. Init => Intended
  BY InitIsMeaningful, InitIsShallow, InitFolds DEF Init, Narrowed, Intended
<1> QED
  BY <1>1, NextKeepsIntended, FoldingIsSound, PTL DEF Spec

\* However constants are shared by then, no node changes its meaning.
THEOREM FoldingKeepsMeaning == Spec => []MeaningKept
<1>1. Inductive /\ Intended => MeaningKept
  BY MeaningfulMeans DEF MeaningKept, Intended
<1> QED
  BY <1>1, FoldingIsSound, FoldingIsIntended, PTL

\* Where every constant is walked before the values in terms of it, nothing that has
\* a meaning, and fits, is left unfolded.
THEOREM EverythingIsFolded == Spec => []FoldedInOrder
<1>1. Inductive /\ Intended => FoldedInOrder
  BY DoneIsFolded DEF Intended
<1> QED
  BY <1>1, FoldingIsSound, FoldingIsIntended, PTL

\* Unless a constant is in terms of itself, the recursion is no deeper than the
\* bound, which grows with the number of nodes: the process does not die of it.
THEOREM OverflowNeedsCycle == Spec => []OverflowIfCyclic
<1>1. Init => OverflowIfCyclic
  BY DEF Init, OverflowIfCyclic
<1>2. Inductive /\ Intended /\ OverflowIfCyclic /\ [Next]_vars => OverflowIfCyclic'
  <2> SUFFICES ASSUME Inductive, Intended, OverflowIfCyclic, [Next]_vars
               PROVE  OverflowIfCyclic'
    OBVIOUS
  <2>1. ASSUME program \in Acyclic PROVE ~Overflow
    BY <2>1, ShallowIsBounded DEF Intended
  <2> QED
    BY <2>1, ProgramIsFixed
       DEF OverflowIfCyclic, Next, vars, WalkValue, Descend, FoldOperation, Propagate, Retype, Become
<1> QED
  BY <1>1, <1>2, FoldingIsSound, FoldingIsIntended, PTL DEF Spec

-----------------------------------------------------------------------------
(* The causes of panics.                                                   *)

\* In the beginning nothing waits, and infinities are those of the source.
LEMMA InitIsBlamed == Init => Blamed
<1> SUFFICES ASSUME Init PROVE Blamed
  OBVIOUS
<1>1. \A i \in DOMAIN stack : stack[i].do = "walk"
  BY DEF Init, Walk, Frame
<1>2. Waiting /\ Chained /\ Endless
  <2>1. \A i \in DOMAIN stack : ~IsFold(i)
    BY <1>1 DEF IsFold
  <2> QED
    BY <2>1 DEF Waiting, Chained, Endless
<1>3. \A n \in Nodes : IsNaN(kind[n]) \/ IsInfinite(kind[n]) => HasCause
  BY DEF Init, HasCause
<1>4. PanicHasCause
  BY DEF Init, PanicHasCause
<1> QED
  BY <1>2, <1>3, <1>4 DEF Blamed

\* The fold on top is of a node that still is its operation, and no fold below is
\* of that node.
LEMMA FoldsOnce ==
    ASSUME Inductive, Waiting, Endless, stack # << >>, Top.do = "fold"
    PROVE  /\ kind[Top.node] = Top.kind /\ ~IsLiteral(Top.kind)
           /\ \A j \in 2..Len(stack) : IsFold(j) => stack[j].node # Top.node
<1>1. 1 \in DOMAIN stack /\ Top = stack[1] /\ DOMAIN stack = 1..Len(stack) /\ Len(stack) \in Nat
  BY DEF Inductive, Top
<1>2. kind[Top.node] = Top.kind
  BY <1>1 DEF Waiting, IsFold
<1>3. ~IsLiteral(Top.kind)
  BY TopIsFrame DEF Operations, IsLiteral, IsUnary, IsBinary
<1>4. ASSUME NEW j \in 2..Len(stack), IsFold(j), stack[j].node = Top.node PROVE FALSE
  <2>1. j \in DOMAIN stack /\ 1 \in 1..(j - 1) /\ IsFold(1) /\ stack[1].node = stack[j].node
    BY <1>1, <1>4 DEF IsFold
  <2>2. \E l \in 1..(1 - 1) : TRUE
    BY <1>4, <2>1 DEF Endless
  <2> QED
    BY <2>2
<1> QED
  BY <1>2, <1>3, <1>4

\* Neither does another frame on top change a node that waits.
LEMMA OnlyTheFoldedChange ==
    ASSUME Inductive, Waiting, Endless, stack # << >>,
           Top.do = "fold" \/ IsLiteral(kind[Top.node]) \/ IsIdentifier(kind[Top.node])
    PROVE  \A j \in 2..Len(stack) : IsFold(j) => stack[j].node # Top.node
<1>1. CASE Top.do = "fold"
  BY <1>1, FoldsOnce
<1>2. CASE IsLiteral(kind[Top.node]) \/ IsIdentifier(kind[Top.node])
  <2> SUFFICES ASSUME NEW j \in 2..Len(stack), IsFold(j), stack[j].node = Top.node PROVE FALSE
    OBVIOUS
  <2>1. j \in DOMAIN stack /\ stack[j] \in Frames
    BY DEF Inductive
  <2>2. stack[j].kind \in Operations
    BY <2>1 DEF Frames, IsFold
  <2>3. kind[Top.node] \in Operations
    BY <2>1, <2>2 DEF Waiting
  <2> QED
    BY <1>2, <2>3 DEF Operations, IsLiteral, IsIdentifier, IsUnary, IsBinary
<1> QED
  BY <1>1, <1>2

\* A step that pops a frame, and changes at most its node.
LEMMA PopKeepsChain ==
    ASSUME Inductive, Waiting, Chained, Endless, stack # << >>, Replace(<< >>),
           \A j \in 2..Len(stack) : IsFold(j) => stack[j].node # Top.node,
           \A n \in Nodes : n # Top.node => kind'[n] = kind[n]
    PROVE  Waiting' /\ Chained' /\ Endless'
<1>0. Len(stack) \in Nat /\ DOMAIN stack = 1..Len(stack) /\ Top = stack[1] /\ Len(stack) >= 1
  BY DEF Inductive, Top
<1>1. /\ DOMAIN stack' = 1..(Len(stack) - 1)
      /\ \A i \in DOMAIN stack' : stack'[i] = stack[i + 1] /\ i + 1 \in 2..Len(stack)
  BY PoppedFrames DEF Inductive
<1>2. \A i \in DOMAIN stack' : /\ IsFold(i)' = IsFold(i + 1)
                               /\ i + 1 \in DOMAIN stack /\ stack'[i] = stack[i + 1]
  BY <1>0, <1>1 DEF IsFold
<1>3. Waiting'
  <2> SUFFICES ASSUME NEW i \in DOMAIN stack', IsFold(i)'
               PROVE  kind'[stack'[i].node] = stack'[i].kind
    BY DEF Waiting
  <2>1. /\ i + 1 \in DOMAIN stack /\ stack'[i] = stack[i + 1] /\ IsFold(i + 1)
        /\ stack[i + 1].node # Top.node /\ stack[i + 1] \in Frames
    BY <1>1, <1>2 DEF Inductive
  <2>2. stack[i + 1].node \in Nodes
    BY <2>1 DEF Frames
  <2> QED
    BY <2>1, <2>2 DEF Waiting
<1>4. Chained'
  <2> SUFFICES ASSUME NEW j \in DOMAIN stack', NEW i \in 1..(j - 1), IsFold(j)'
               PROVE  /\ stack'[i].do # "walk"
                      /\ \E m \in i..(j - 1) : /\ i = m \/ IsFold(m)'
                                              /\ stack'[m].node \in Uses(stack'[j].kind)
    BY DEF Chained
  <2>1. j \in Nat /\ i \in Nat /\ i < j /\ i >= 1 /\ \A m \in i..(j - 1) : m \in DOMAIN stack'
    BY <1>0, <1>1
  <2>2. i \in DOMAIN stack' /\ i + 1 \in 1..((j + 1) - 1)
    BY <2>1
  <2>3. /\ stack[i + 1].do # "walk"
        /\ \E m \in (i + 1)..((j + 1) - 1) : /\ i + 1 = m \/ IsFold(m)
                                            /\ stack[m].node \in Uses(stack[j + 1].kind)
    BY <1>2, <2>2 DEF Chained
  <2>4. PICK m \in (i + 1)..((j + 1) - 1) : /\ i + 1 = m \/ IsFold(m)
                                           /\ stack[m].node \in Uses(stack[j + 1].kind)
    BY <2>3
  <2>5. m - 1 \in i..(j - 1) /\ (m - 1) + 1 = m /\ m - 1 \in DOMAIN stack' /\ (i + 1 = m => i = m - 1)
    BY <2>1, <2>4
  <2>6. /\ IsFold(m - 1)' = IsFold(m) /\ stack'[m - 1] = stack[m]
        /\ stack'[j] = stack[j + 1] /\ stack'[i] = stack[i + 1]
    BY <1>2, <2>2, <2>5
  <2> QED
    BY <2>3, <2>4, <2>5, <2>6
<1>5. Endless'
  <2> SUFFICES ASSUME NEW j \in DOMAIN stack', NEW i \in 1..(j - 1),
                      IsFold(i)', IsFold(j)', stack'[i].node = stack'[j].node
               PROVE  \E m \in i..(j - 1), l \in 1..(i - 1) :
                         IsFold(m)' /\ stack'[l].node = stack'[m].node
    BY DEF Endless
  <2>1. j \in Nat /\ i \in Nat /\ i < j /\ i >= 1 /\ \A m \in 1..(j - 1) : m \in DOMAIN stack'
    BY <1>0, <1>1
  <2>2. i \in DOMAIN stack' /\ i + 1 \in 1..((j + 1) - 1)
    BY <2>1
  <2>3. PICK m \in (i + 1)..((j + 1) - 1), l \in 1..((i + 1) - 1) :
           IsFold(m) /\ stack[l].node = stack[m].node
    <3>1. /\ IsFold(i + 1) /\ IsFold(j + 1) /\ j + 1 \in DOMAIN stack
          /\ stack[i + 1].node = stack[j + 1].node
      BY <1>2, <2>2
    <3> QED
      BY <2>2, <3>1 DEF Endless
  <2>4. m \in 2..Len(stack) /\ m - 1 \in i..(j - 1) /\ (m - 1) + 1 = m
    BY <1>0, <1>1, <2>1
  <2>5. l # 1
    BY <1>0, <2>3, <2>4
  <2>6. l - 1 \in 1..(i - 1) /\ (l - 1) + 1 = l
    BY <2>1, <2>5
  <2>7. m - 1 \in DOMAIN stack' /\ l - 1 \in DOMAIN stack'
    BY <2>1, <2>4, <2>6
  <2>8. IsFold(m - 1)' = IsFold(m) /\ stack'[m - 1] = stack[m] /\ stack'[l - 1] = stack[l]
    BY <1>2, <2>4, <2>6, <2>7
  <2> QED
    BY <2>3, <2>4, <2>6, <2>8
<1> QED
  BY <1>3, <1>4, <1>5

\* Nothing waits below a walk.
LEMMA WalkKeepsChain ==
    ASSUME Inductive, Chained, WalkValue
    PROVE  Waiting' /\ Chained' /\ Endless'
<1>0. stack # << >> /\ Top.do = "walk" /\ stack \in Seq(Frames)
  BY DEF WalkValue, At, Inductive
<1>1. Len(stack) \in Nat /\ DOMAIN stack = 1..Len(stack) /\ Top = stack[1]
  BY <1>0 DEF Top
<1>2. \A j \in 2..Len(stack) : ~IsFold(j)
  <2> SUFFICES ASSUME NEW j \in 2..Len(stack), IsFold(j) PROVE FALSE
    OBVIOUS
  <2>1. j \in DOMAIN stack /\ 1 \in 1..(j - 1)
    BY <1>1
  <2> QED
    BY <1>0, <1>1, <2>1 DEF Chained
<1>3. PICK frames \in Seq(Frames) : Replace(frames) /\ Pushed(frames)
  BY PushedFrames
<1>4. \A i \in 1..Len(frames) : frames[i].do # "fold"
  BY <1>0, <1>3 DEF Pushed, DoAfter
<1>5. ASSUME NEW i \in DOMAIN stack' PROVE ~IsFold(i)'
  <2>1. CASE i <= Len(frames)
    <3>1. i \in 1..Len(frames) /\ stack'[i] = frames[i]
      BY <1>0, <1>3, <2>1, ReplacedFrames
    <3> QED
      BY <1>4, <3>1 DEF IsFold
  <2>2. CASE i > Len(frames)
    <3> DEFINE j == i - Len(frames) + 1
    <3>1. j \in 2..Len(stack) /\ i = j + Len(frames) - 1
      BY <1>0, <1>3, <2>2, ReplacedFrames
    <3>2. stack'[i] = stack[j]
      BY <1>0, <1>3, <3>1, ReplacedFrames
    <3> QED
      BY <1>2, <3>1, <3>2 DEF IsFold
  <2> QED
    BY <1>0, <1>3, <2>1, <2>2, ReplacedFrames
<1> QED
  BY <1>5 DEF Waiting, Chained, Endless

\* The stack after a descent into the operation k of node n: d frames, the last of
\* them the fold, and what was below the top.
Descended(n, k, d) ==
    /\ d \in Nat /\ d >= 1 /\ DOMAIN stack' = 1..(d + Len(stack) - 1)
    /\ stack'[d] = Fold(n, k)
    /\ \A i \in 1..(d - 1) : stack'[i].do = "optimize" /\ stack'[i].node \in Uses(k)
    /\ \A m \in Uses(k) : \E i \in 1..(d - 1) : stack'[i].node = m
    /\ \A j \in 2..Len(stack) : stack'[j + d - 1] = stack[j]

\* That is what a descent does.
LEMMA DescendDescends ==
    ASSUME Inductive, Descend
    PROVE  \E d : Descended(Top.node, kind[Top.node], d)
<1> DEFINE n == Top.node
           k == kind[n]
<1>0. stack # << >> /\ Top.do = "optimize" /\ DoAfter = "fold" /\ stack \in Seq(Frames)
  BY DEF Descend, At, DoAfter, Inductive
<1>1. PICK frames \in Seq(Frames) : Replace(frames) /\ Pushed(frames)
  BY PushedFrames
<1> DEFINE d == Len(frames)
<1>2. d \in Nat /\ d >= 1 /\ d \in 1..d /\ \A i \in 1..(d - 1) : i \in 1..d /\ i < d /\ i # d
  <2>1. d \in 1..3
    BY <1>1 DEF Pushed
  <2> HIDE DEF d
  <2> QED
    BY <2>1
<1>3. /\ DOMAIN stack' = 1..(d + Len(stack) - 1)
      /\ \A i \in 1..d : stack'[i] = frames[i]
      /\ \A j \in 2..Len(stack) : stack'[j + d - 1] = stack[j]
  BY <1>0, <1>1, ReplacedFrames
<1>4. /\ frames[d].do = "fold" /\ frames[d].node = n /\ frames[d].kind = k
      /\ \A m \in Uses(k) : \E j \in 1..(d - 1) : frames[j].node = m
  <2>1. d \in 1..Len(frames) /\ ~(d < Len(frames)) /\ d = Len(frames)
    BY <1>2
  <2>2. frames[d].do = "fold" /\ frames[d].node = n
    BY <1>0, <1>1, <2>1 DEF Pushed
  <2> QED
    BY <1>1, <2>1, <2>2 DEF Pushed
<1>5. \A i \in 1..(d - 1) : frames[i].do = "optimize" /\ frames[i].node \in Uses(k)
  BY <1>0, <1>1, <1>2 DEF Pushed
<1>6. frames[d] = Fold(n, k)
  <2>1. frames[d] \in Frames
    BY <1>1, <1>2
  <2> QED
    BY <1>4, <2>1 DEF Frames, Fold, Frame
<1> HIDE DEF d
<1>7. Descended(n, k, d)
  <2>1. stack'[d] = Fold(n, k)
    BY <1>2, <1>3, <1>6
  <2>2. \A i \in 1..(d - 1) : stack'[i].do = "optimize" /\ stack'[i].node \in Uses(k)
    BY <1>2, <1>3, <1>5
  <2>3. \A m \in Uses(k) : \E i \in 1..(d - 1) : stack'[i].node = m
    BY <1>2, <1>3, <1>4
  <2> QED
    BY <1>2, <1>3, <2>1, <2>2, <2>3 DEF Descended
<1> QED
  BY <1>7

\* Where the folds are after a descent.
LEMMA FoldsDescended ==
    ASSUME Inductive, NEW n, NEW k, NEW d, Descended(n, k, d), NEW i \in DOMAIN stack'
    PROVE  /\ i < d => ~IsFold(i)'
           /\ i = d => IsFold(i)' /\ stack'[i].node = n /\ stack'[i].kind = k
           /\ i > d => /\ i - d + 1 \in 2..Len(stack) /\ i - d + 1 \in DOMAIN stack
                       /\ stack'[i] = stack[i - d + 1] /\ IsFold(i)' = IsFold(i - d + 1)
<1>0. Len(stack) \in Nat /\ DOMAIN stack = 1..Len(stack) /\ d \in Nat /\ i \in Nat /\ i >= 1
      /\ i <= d + Len(stack) - 1
  BY DEF Inductive, Descended
<1>1. CASE i < d
  <2>1. i \in 1..(d - 1)
    BY <1>0, <1>1
  <2> QED
    BY <1>0, <1>1, <2>1 DEF Descended, IsFold
<1>2. CASE i = d
  BY <1>2 DEF Descended, Fold, Frame, IsFold
<1>3. CASE i > d
  <2> DEFINE j == i - d + 1
  <2>1. j \in 2..Len(stack) /\ j \in DOMAIN stack /\ i = j + d - 1
    BY <1>0, <1>3
  <2>2. stack'[i] = stack[j]
    BY <2>1 DEF Descended
  <2> QED
    BY <1>0, <1>3, <2>1, <2>2 DEF IsFold
<1> QED
  BY <1>0, <1>1, <1>2, <1>3

\* What is above the fold at j before a descent: the top, which becomes the fold at
\* d, or another fold.
LEMMA ChainDescended ==
    ASSUME Inductive, Chained, stack # << >>, NEW n, n = Top.node, NEW k, NEW d, Descended(n, k, d),
           NEW j \in DOMAIN stack', j > d, IsFold(j)'
    PROVE  \E m \in d..(j - 1) : IsFold(m)' /\ stack'[m].node \in Uses(stack'[j].kind)
<1> DEFINE J == j - d + 1
<1>0. Len(stack) \in Nat /\ DOMAIN stack = 1..Len(stack) /\ Top = stack[1] /\ d \in Nat /\ d >= 1
      /\ DOMAIN stack' = 1..(d + Len(stack) - 1) /\ j \in Nat
  BY DEF Inductive, Descended, Top
<1>1. J \in DOMAIN stack /\ stack'[j] = stack[J] /\ IsFold(J) /\ 1 \in 1..(J - 1) /\ J \in Nat
  BY <1>0, FoldsDescended
<1>2. PICK M \in 1..(J - 1) : (1 = M \/ IsFold(M)) /\ stack[M].node \in Uses(stack[J].kind)
  BY <1>1 DEF Chained
<1>3. CASE M = 1
  <2>1. d \in d..(j - 1) /\ d \in DOMAIN stack'
    BY <1>0
  <2>2. IsFold(d)' /\ stack'[d].node = n
    BY <2>1, FoldsDescended
  <2>3. stack[1].node = n
    BY <1>0
  <2> QED
    BY <1>1, <1>2, <1>3, <2>1, <2>2, <2>3
<1>4. CASE M # 1
  <2> DEFINE m == M + d - 1
  <2>1. m \in d..(j - 1) /\ m \in DOMAIN stack' /\ m > d /\ m - d + 1 = M
    BY <1>0, <1>1, <1>2, <1>4
  <2>2. IsFold(m)' = IsFold(M) /\ stack'[m] = stack[M]
    BY <2>1, FoldsDescended
  <2> QED
    BY <1>1, <1>2, <1>4, <2>1, <2>2
<1> QED
  BY <1>3, <1>4

\* A descent adds one link to the chain.
LEMMA DescendKeepsChain ==
    ASSUME Inductive, Waiting, Chained, Endless, Descend
    PROVE  Waiting' /\ Chained' /\ Endless'
<1> DEFINE n == Top.node
           k == kind[n]
<1>1. stack # << >> /\ kind' = kind
  BY DEF Descend, At
<1>2. PICK d : Descended(n, k, d)
  BY DescendDescends
<1> HIDE DEF n, k
<1>3. Len(stack) \in Nat /\ d \in Nat /\ d >= 1 /\ DOMAIN stack' = 1..(d + Len(stack) - 1)
  BY <1>2 DEF Inductive, Descended
<1>4. n = Top.node /\ k = kind[n]
  BY DEF n, k
<1>5. Waiting'
  <2> SUFFICES ASSUME NEW i \in DOMAIN stack', IsFold(i)'
               PROVE  kind'[stack'[i].node] = stack'[i].kind
    BY DEF Waiting
  <2>1. CASE i = d
    BY <1>1, <1>2, <1>4, <2>1, FoldsDescended
  <2>2. CASE i > d
    <3>1. /\ i - d + 1 \in DOMAIN stack
          /\ stack'[i] = stack[i - d + 1] /\ IsFold(i - d + 1)
      BY <1>2, <2>2, FoldsDescended
    <3> QED
      BY <1>1, <3>1 DEF Waiting
  <2> QED
    BY <1>2, <1>3, <2>1, <2>2, FoldsDescended
<1>6. Chained'
  <2> SUFFICES ASSUME NEW j \in DOMAIN stack', NEW i \in 1..(j - 1), IsFold(j)'
               PROVE  /\ stack'[i].do # "walk"
                      /\ \E m \in i..(j - 1) : /\ i = m \/ IsFold(m)'
                                              /\ stack'[m].node \in Uses(stack'[j].kind)
    BY DEF Chained
  <2>1. i \in DOMAIN stack' /\ i < j /\ j \in Nat /\ i \in Nat /\ i >= 1 /\ j >= d
    BY <1>2, <1>3, FoldsDescended
  <2>2. CASE j = d
    <3>1. i \in 1..(d - 1) /\ stack'[j].kind = k
      BY <1>2, <2>2, FoldsDescended
    <3>2. stack'[i].do # "walk" /\ stack'[i].node \in Uses(k) /\ i \in i..(j - 1)
      BY <1>2, <2>1, <3>1 DEF Descended
    <3> QED
      BY <3>1, <3>2
  <2>3. CASE j > d /\ i <= d
    <3>1. PICK m \in d..(j - 1) : IsFold(m)' /\ stack'[m].node \in Uses(stack'[j].kind)
      BY <1>1, <1>2, <1>4, <2>3, ChainDescended
    <3>2. m \in i..(j - 1)
      BY <1>3, <2>1, <2>3
    <3>3. stack'[i].do # "walk"
      <4>1. CASE i = d
        BY <1>2, <2>1, <4>1, FoldsDescended DEF IsFold
      <4>2. CASE i # d
        <5>1. i \in 1..(d - 1)
          BY <1>3, <2>1, <2>3, <4>2
        <5> QED
          BY <1>2, <5>1 DEF Descended
      <4> QED
        BY <4>1, <4>2
    <3> QED
      BY <3>1, <3>2, <3>3
  <2>4. CASE j > d /\ i > d
    <3> DEFINE I == i - d + 1
               J == j - d + 1
    <3>1. /\ J \in DOMAIN stack /\ stack'[j] = stack[J] /\ IsFold(J)
          /\ I \in 2..Len(stack) /\ stack'[i] = stack[I]
      BY <1>2, <2>1, <2>4, FoldsDescended
    <3>2. I \in 1..(J - 1) /\ J \in Nat /\ I \in Nat
      BY <1>3, <2>1, <2>4, <3>1
    <3>3. PICK M \in I..(J - 1) : (I = M \/ IsFold(M)) /\ stack[M].node \in Uses(stack[J].kind)
      BY <3>1, <3>2 DEF Chained
    <3> DEFINE m == M + d - 1
    <3>4. m \in i..(j - 1) /\ m > d /\ m - d + 1 = M /\ m \in DOMAIN stack' /\ (I = M => i = m)
      <4>1. M \in Nat /\ M >= I /\ M <= J - 1 /\ j <= d + Len(stack) - 1
        BY <1>3, <3>2, <3>3
      <4>2. m \in Nat /\ m >= i /\ m <= j - 1 /\ m > d /\ m - d + 1 = M /\ (I = M => i = m)
        BY ONLY <1>3, <2>1, <2>4, <4>1
      <4> QED
        BY ONLY <1>3, <2>1, <4>1, <4>2
    <3>5. stack'[m] = stack[M] /\ IsFold(m)' = IsFold(M)
      BY <1>2, <3>4, FoldsDescended
    <3>6. stack'[i].do # "walk"
      BY <3>1, <3>2 DEF Chained
    <3> QED
      BY <3>1, <3>3, <3>4, <3>5, <3>6
  <2> QED
    BY <1>3, <2>1, <2>2, <2>3, <2>4
<1>7. Endless'
  <2> SUFFICES ASSUME NEW j \in DOMAIN stack', NEW i \in 1..(j - 1),
                      IsFold(i)', IsFold(j)', stack'[i].node = stack'[j].node
               PROVE  \E m \in i..(j - 1), l \in 1..(i - 1) :
                         IsFold(m)' /\ stack'[l].node = stack'[m].node
    BY DEF Endless
  <2>0. j \in Nat /\ i \in Nat /\ i < j
    BY <1>3
  <2>1. i \in DOMAIN stack' /\ i < j /\ j \in Nat /\ i \in Nat /\ i >= d /\ j > d
    BY <1>2, <1>3, <2>0, FoldsDescended
  <2> DEFINE J == j - d + 1
  <2>2. /\ J \in DOMAIN stack /\ stack'[j] = stack[J] /\ IsFold(J) /\ J \in Nat
    BY <1>2, <1>3, <2>1, FoldsDescended
  <2>3. CASE i = d
    <3>1. PICK m \in d..(j - 1) : IsFold(m)' /\ stack'[m].node \in Uses(stack'[j].kind)
      BY <1>1, <1>2, <1>4, <2>1, ChainDescended
    <3>2. stack'[i].node = n
      BY <1>2, <2>1, <2>3, FoldsDescended
    <3>3. stack'[j].kind = k
      BY <1>4, <2>2, <3>2 DEF Waiting
    <3>4. PICK l \in 1..(d - 1) : stack'[l].node = stack'[m].node
      BY <1>2, <3>1, <3>3 DEF Descended
    <3> QED
      BY <2>3, <3>1, <3>4
  <2>4. CASE i > d
    <3> DEFINE I == i - d + 1
    <3>1. I \in 2..Len(stack) /\ stack'[i] = stack[I] /\ IsFold(I)
      BY <1>2, <2>1, <2>4, FoldsDescended
    <3>2. I \in 1..(J - 1) /\ I \in Nat
      BY <1>3, <2>1, <2>2, <2>4, <3>1
    <3>3. PICK M \in I..(J - 1), L \in 1..(I - 1) : IsFold(M) /\ stack[L].node = stack[M].node
      BY <2>2, <3>1, <3>2 DEF Endless
    <3> DEFINE m == M + d - 1
               l == L + d - 1
    <3>4. m \in i..(j - 1) /\ m > d /\ m - d + 1 = M /\ m \in DOMAIN stack'
      <4>1. M \in Nat /\ M >= I /\ M <= J - 1 /\ j <= d + Len(stack) - 1
        BY <1>3, <2>2, <3>2, <3>3
      <4>2. m \in Nat /\ m >= i /\ m <= j - 1 /\ m > d /\ m - d + 1 = M
        BY ONLY <1>3, <2>1, <2>4, <4>1
      <4> QED
        BY ONLY <1>3, <2>1, <4>1, <4>2
    <3>5. stack'[m] = stack[M] /\ IsFold(m)' = IsFold(M)
      BY <1>2, <3>4, FoldsDescended
    <3>6. l \in 1..(i - 1) /\ l >= d /\ l - d + 1 = L /\ l \in DOMAIN stack' /\ (l = d => L = 1)
      BY <1>3, <2>1, <2>4, <3>2, <3>3
    <3>7. stack'[l].node = stack[L].node
      <4>1. CASE l = d
        <5>1. stack'[l].node = n
          BY <1>2, <3>6, <4>1, FoldsDescended
        <5>2. Top = stack[1]
          BY <1>1 DEF Inductive, Top
        <5> QED
          BY <1>4, <3>6, <4>1, <5>1, <5>2
      <4>2. CASE l > d
        BY <1>2, <3>6, <4>2, FoldsDescended
      <4> QED
        BY <1>3, <3>6, <4>1, <4>2
    <3> QED
      BY <3>3, <3>4, <3>5, <3>6, <3>7
  <2> QED
    BY <1>3, <2>1, <2>3, <2>4
<1> QED
  BY <1>5, <1>6, <1>7

\* A step keeps the chain.
LEMMA NextKeepsChain ==
    ASSUME Inductive, Waiting, Chained, Endless, Next
    PROVE  Waiting' /\ Chained' /\ Endless'
<1>1. CASE WalkValue
  BY <1>1, WalkKeepsChain
<1>2. CASE Descend
  BY <1>2, DescendKeepsChain
<1>3. CASE FoldOperation \/ Propagate \/ Retype
  <2>1. /\ stack # << >> /\ Replace(<< >>)
        /\ Top.do = "fold" \/ IsLiteral(kind[Top.node]) \/ IsIdentifier(kind[Top.node])
    BY <1>3 DEF FoldOperation, Propagate, Retype, At
  <2>2. \A n \in Nodes : n # Top.node => kind'[n] = kind[n]
    BY <1>3, KindOfNext DEF Next, Inductive, KindsAreSound
  <2> QED
    BY <2>1, <2>2, OnlyTheFoldedChange, PopKeepsChain
<1>4. CASE Overflow
  <2>1. kind' = kind /\ stack' = stack
    BY <1>4 DEF Overflow
  <2> QED
    BY <2>1 DEF Waiting, Chained, Endless, IsFold
<1> QED
  BY <1>1, <1>2, <1>3, <1>4 DEF Next

\* Two values are the same number.
SameNumber(v, w) ==
    /\ IsInteger(v) => IsInteger(w) /\ w.n = v.n
    /\ IsFloat(v) => IsFloat(w) /\ w.x = v.x

\* A literal that is visited keeps its number.
LEMMA LiteralKeepsNumber ==
    ASSUME NEW v, InItsType(v), NEW w \in FoldLiteral(v), w # NilValue, w # Panic
    PROVE  SameNumber(v, w)
<1>1. CASE IsInteger(v)
  <2>1. w \in FoldInteger(v.n)
    BY <1>1 DEF FoldLiteral, IsInteger, IsFloat, IsNaN
  <2> QED
    BY <1>1, <2>1, FoldedFits DEF SameNumber, IsInteger, IsFloat
<1>2. CASE IsFloat(v)
  <2>1. v.x \in FloatClasses /\ w \in FoldFloat(v.x)
    BY <1>2 DEF InItsType, FoldLiteral, IsInteger, IsFloat, IsNaN
  <2> QED
    BY <1>2, <2>1, FoldedFloat DEF SameNumber, IsInteger, IsFloat
<1>3. CASE ~IsInteger(v) /\ ~IsFloat(v)
  BY <1>3 DEF SameNumber
<1> QED
  BY <1>1, <1>2, <1>3

\* A literal of an image keeps its number.
LEMMA NumbersStay ==
    ASSUME Inductive, Waiting, Endless, Next, NEW n \in Nodes, IsLiteral(kind[n])
    PROVE  SameNumber(kind[n], kind'[n])
<1>1. CASE kind'[n] = kind[n]
  BY <1>1 DEF SameNumber
<1>2. CASE kind'[n] # kind[n]
  <2>1. kind' # kind /\ n = Top.node
    BY <1>2, KindOfNext DEF Inductive, KindsAreSound
  <2>2. CASE FoldOperation
    <3>1. stack # << >> /\ Top.do = "fold"
      BY <2>2 DEF FoldOperation, At
    <3> QED
      BY <2>1, <3>1, FoldsOnce
  <2>3. CASE Retype
    <3>1. Become(n, FoldLiteral(kind[n]))
      BY <2>1, <2>3 DEF Retype
    <3>2. PICK v \in FoldLiteral(kind[n]) :
             v # Panic /\ v # NilValue /\ kind' = [kind EXCEPT ![n] = v]
      BY <2>1, <3>1, BecomeForm
    <3>3. kind'[n] = v /\ InItsType(kind[n])
      BY <3>2 DEF Inductive, KindsAreSound
    <3> QED
      BY <3>2, <3>3, LiteralKeepsNumber
  <2>4. CASE Propagate
    <3>1. IsIdentifier(kind[n])
      BY <2>1, <2>4 DEF Propagate
    <3> QED
      BY <3>1 DEF IsIdentifier, IsLiteral
  <2>5. ~(WalkValue \/ Descend \/ Overflow)
    BY <2>1 DEF WalkValue, Descend, Overflow
  <2> QED
    BY <2>2, <2>3, <2>4, <2>5 DEF Next
<1> QED
  BY <1>1, <1>2

\* So a reason for a panic stays one.
LEMMA CauseStays ==
    ASSUME Inductive, Waiting, Endless, Next, HasCause
    PROVE  HasCause'
<1>0. program' = program
  BY ProgramIsFixed
<1>1. PICK n \in Nodes : IsNaN(program[n]) \/ IsInfinite(program[n]) \/ DividesByZero(n)
  BY DEF HasCause
<1>2. CASE DividesByZero(n)
  <2> DEFINE r == program[n].right
  <2>1. /\ IsBinary(program[n])
        /\ \/ program[n].op \in {"Divide", "Modulo"} /\ IsInteger(kind[r]) /\ kind[r].n = 0
           \/ program[n].op = "Divide" /\ IsFloat(kind[r]) /\ kind[r].x = 0
    BY <1>2 DEF DividesByZero
  <2>2. r \in Nodes
    BY <2>1, ProgramsAssumption DEF Inductive
  <2>3. IsLiteral(kind[r])
    BY <2>1 DEF IsLiteral, IsInteger, IsFloat
  <2>4. SameNumber(kind[r], kind'[r])
    BY <2>2, <2>3, NumbersStay
  <2>5. DividesByZero(n)'
    BY <1>0, <2>1, <2>4 DEF SameNumber, DividesByZero
  <2> QED
    BY <2>5 DEF HasCause
<1>3. CASE IsNaN(program[n]) \/ IsInfinite(program[n])
  BY <1>0, <1>3 DEF HasCause
<1> QED
  BY <1>1, <1>2, <1>3

\* A fold that panics, or makes an infinity, has its reason.
LEMMA OutcomeHasCause ==
    ASSUME Inductive, \A n \in Nodes : IsNaN(kind[n]) \/ IsInfinite(kind[n]) => HasCause,
           NEW k \in Operations, Panic \in Outcomes(k) \/ ~Finite(Outcomes(k))
    PROVE  HasCause
<1>0. PICK m \in Nodes : k = program[m]
  BY DEF Operations, Written
<1>1. CASE IsUnary(k)
  <2>1. k.left \in Nodes /\ InItsType(kind[k.left]) /\ Outcomes(k) = FoldUnary(k.op, kind[k.left])
    BY <1>1, OperandsAreSound DEF Outcomes
  <2>2. IsNaN(kind[k.left]) \/ IsInfinite(kind[k.left])
    BY <2>1, FoldedUnary
  <2> QED
    BY <2>1, <2>2
<1>2. CASE ~IsUnary(k)
  <2>1. /\ IsBinary(k) /\ k.left \in Nodes /\ k.right \in Nodes
        /\ InItsType(kind[k.left]) /\ InItsType(kind[k.right])
        /\ Outcomes(k) = FoldBinary(k.op, kind[k.left], kind[k.right])
    BY <1>2, OperandsAreSound DEF Outcomes, Operations
  <2>2. \/ IsNaN(kind[k.left]) \/ IsInfinite(kind[k.left])
        \/ IsNaN(kind[k.right]) \/ IsInfinite(kind[k.right])
        \/ ZeroDivisor(k.op, kind[k.right])
    BY <2>1, FoldedBinary DEF Founds
  <2>3. ZeroDivisor(k.op, kind[k.right]) => DividesByZero(m)
    BY <1>0, <2>1 DEF ZeroDivisor, DividesByZero
  <2> QED
    BY <2>1, <2>2, <2>3 DEF HasCause
<1> QED
  BY <1>1, <1>2

\* Whatever a step makes infinite, or panics about, has its reason.
LEMMA StepHasCause ==
    ASSUME Inductive, Blamed, Next,
           \/ pc' = "panic"
           \/ \E n \in Nodes : IsNaN(kind'[n]) \/ IsInfinite(kind'[n])
    PROVE  HasCause
<1>0. \A n \in Nodes : IsNaN(kind[n]) \/ IsInfinite(kind[n]) => HasCause
  BY DEF Blamed
<1>1. CASE kind' = kind /\ pc' # "panic"
  BY <1>0, <1>1
<1>2. CASE FoldOperation
  <2> DEFINE n == Top.node
             k == Top.kind
  <2>1. /\ stack # << >> /\ Top.do = "fold" /\ pc = "run" /\ Become(n, Outcomes(k))
    BY <1>2 DEF FoldOperation, At
  <2>2. k \in Operations /\ n \in Nodes
    BY <2>1, TopIsFrame
  <2>3. CASE pc' = "panic"
    <3>1. Panic \in Outcomes(k)
      BY <2>1, <2>3 DEF Become
    <3> QED
      BY <1>0, <2>2, <3>1, OutcomeHasCause
  <2>4. CASE pc' # "panic"
    <3>1. PICK m \in Nodes : IsNaN(kind'[m]) \/ IsInfinite(kind'[m])
      BY <2>4
    <3>2. CASE kind'[m] = kind[m]
      BY <1>0, <3>1, <3>2
    <3>3. CASE kind'[m] # kind[m]
      <4>1. PICK v \in Outcomes(k) : kind' = [kind EXCEPT ![n] = v]
        BY <2>1, <3>3, BecomeForm
      <4>2. kind'[m] = v
        BY <3>3, <4>1 DEF Inductive, KindsAreSound
      <4>3. ~Finite(Outcomes(k))
        BY <3>1, <4>1, <4>2 DEF Finite
      <4> QED
        BY <1>0, <2>2, <4>3, OutcomeHasCause
    <3> QED
      BY <3>2, <3>3
  <2> QED
    BY <2>3, <2>4
<1>3. CASE Retype
  <2> DEFINE n == Top.node
             u == kind[n]
  <2>1. /\ stack # << >> /\ pc = "run" /\ Become(n, FoldLiteral(u))
    BY <1>3 DEF Retype, At
  <2>2. n \in Nodes /\ InItsType(u)
    BY <2>1, TopIsFrame DEF Inductive, KindsAreSound
  <2>3. CASE pc' = "panic"
    <3>1. Panic \in FoldLiteral(u)
      BY <2>1, <2>3 DEF Become
    <3> QED
      BY <1>0, <2>2, <3>1, FoldedLiteral
  <2>4. CASE pc' # "panic"
    <3>1. PICK m \in Nodes : IsNaN(kind'[m]) \/ IsInfinite(kind'[m])
      BY <2>4
    <3>2. CASE kind'[m] = kind[m]
      BY <1>0, <3>1, <3>2
    <3>3. CASE kind'[m] # kind[m]
      <4>1. PICK v \in FoldLiteral(u) : kind' = [kind EXCEPT ![n] = v]
        BY <2>1, <3>3, BecomeForm
      <4>2. kind'[m] = v
        BY <3>3, <4>1 DEF Inductive, KindsAreSound
      <4>3. ~Finite(FoldLiteral(u))
        BY <3>1, <4>1, <4>2 DEF Finite
      <4> QED
        BY <1>0, <2>2, <4>3, FoldedLiteral
    <3> QED
      BY <3>2, <3>3
  <2> QED
    BY <2>3, <2>4
<1>4. CASE Propagate
  <2>1. /\ Top.node \in Nodes /\ kind[Top.node].of \in Nodes /\ pc' # "panic"
        /\ kind' = [kind EXCEPT ![Top.node] = kind[kind[Top.node].of]]
    <3>1. stack # << >> /\ IsIdentifier(kind[Top.node]) /\ pc' = "run"
      BY <1>4 DEF Propagate, At
    <3> QED
      BY <1>4, <3>1, TopIsFrame, WorkedOn DEF Propagate, IsLiteral, IsIdentifier
  <2>2. PICK m \in Nodes : IsNaN(kind'[m]) \/ IsInfinite(kind'[m])
    BY <2>1
  <2>3. \E c \in Nodes : kind'[m] = kind[c]
    BY <2>1 DEF Inductive, KindsAreSound
  <2> QED
    BY <1>0, <2>2, <2>3
<1>5. CASE WalkValue \/ Descend \/ Overflow
  <2>1. kind' = kind /\ pc' # "panic"
    BY <1>5 DEF WalkValue, Descend, Overflow, At
  <2> QED
    BY <1>1, <2>1
<1> QED
  BY <1>2, <1>3, <1>4, <1>5 DEF Next

\* No step panics without a reason.
LEMMA NextKeepsBlame == Inductive /\ Blamed /\ [Next]_vars => Blamed'
<1> SUFFICES ASSUME Inductive, Blamed, [Next]_vars PROVE Blamed'
  OBVIOUS
<1>1. CASE Next
  <2>1. Waiting' /\ Chained' /\ Endless'
    BY <1>1, NextKeepsChain DEF Blamed
  <2>2. ASSUME NEW n \in Nodes, IsNaN(kind'[n]) \/ IsInfinite(kind'[n])
        PROVE  HasCause'
    BY <1>1, <2>2, StepHasCause, CauseStays DEF Blamed
  <2>3. PanicHasCause'
    BY <1>1, StepHasCause, CauseStays DEF Blamed, PanicHasCause
  <2> QED
    BY <2>1, <2>2, <2>3 DEF Blamed
<1>2. CASE UNCHANGED vars
  <2>1. UNCHANGED <<program, kind, stack, pc>>
    BY <1>2 DEF vars
  <2> QED
    BY <2>1 DEF Blamed, Waiting, Chained, Endless, IsFold, HasCause, DividesByZero, PanicHasCause
<1> QED
  BY <1>1, <1>2

\* optimize() panics only if the source has what no number is, an infinity, or a
\* division by what is a zero by then: whatever is folded, and in whatever order.
THEOREM PanicNeedsCause == Spec => []PanicHasCause
<1>1. Init => Blamed
  BY InitIsBlamed
<1>2. Inductive /\ Blamed /\ [Next]_vars => Blamed'
  BY NextKeepsBlame
<1>3. Blamed => PanicHasCause
  BY DEF Blamed
<1> QED
  BY <1>1, <1>2, <1>3, FoldingIsSound, PTL DEF Spec
=============================================================================
