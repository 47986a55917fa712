----------------------------- MODULE Optimizer -------------------------------
(***************************************************************************)
(* imageOptimizer.optimize (internal/compiler/optimizer.go) over the walk  *)
(* of walk.go: constant propagation and folding in an image.               *)
(*                                                                         *)
(* A value is a node whose Kind is a literal, the reference of an          *)
(* identifier, or an operation on other nodes.  Propagation copies the     *)
(* Kind, which is a pointer: operands are then shared between values.      *)
(* The recursion of walkValue and optimizeValue is a stack of frames, and  *)
(* one step is one return, or one descent, of that recursion.              *)
(***************************************************************************)
EXTENDS Values, Sequences, SequencesExt, FiniteSets

CONSTANTS
  Constants,  \* the constants of the image
  Others,     \* values that are not of a constant: defaults, annotations
  Parts,      \* the nodes of operands, at any depth
  Programs,   \* functions from nodes to the Kind that they start with
  MaxStack    \* a bound on the recursion; deeper is without end

ASSUME RootsAssumption == IsFiniteSet(Constants) /\ IsFiniteSet(Others)

\* A constant's value is the node of its name; operands are nodes of their own.
Roots == Constants \cup Others
Nodes == Roots \cup Parts

\* No recursion that visits no node within itself is without end.
ASSUME StackAssumption ==
    /\ IsFiniteSet(Parts)
    /\ MaxStack \in Nat \ {0} /\ MaxStack > Cardinality(Roots) + 2 * (Cardinality(Nodes) - 1)

IsUnary(k)      == k.kind = "unary"
IsBinary(k)     == k.kind = "binary"
IsIdentifier(k) == k.kind = "identifier"
Unary(op, n)     == [kind |-> "unary", op |-> op, left |-> n]
Binary(op, m, n) == [kind |-> "binary", op |-> op, left |-> m, right |-> n]
Identifier(c)    == [kind |-> "identifier", of |-> c]

\* What link() leaves: identifiers refer to constants, operands are nodes.
ASSUME ProgramsAssumption ==
    \A p \in Programs :
       /\ DOMAIN p = Nodes
       /\ \A n \in Nodes :
            /\ InItsType(p[n])
            /\ IsIdentifier(p[n]) => p[n].of \in Constants
            /\ IsUnary(p[n]) \/ IsBinary(p[n]) => p[n].left \in Nodes
            /\ IsBinary(p[n]) => p[n].right \in Nodes

VARIABLES
  program,  \* the Kind of every node when optimize() begins; fixed
  order,    \* the roots, in the order of modules and of walkModule; fixed
  kind,     \* the Kind of every node
  stack,    \* the frames, the innermost first
  pc        \* "run", "panic", "overflow"

vars == <<program, order, kind, stack, pc>>

Frame(do, n, k) == [do |-> do, node |-> n, kind |-> k]
NoKind == [kind |-> "none"]
Walk(n)     == Frame("walk", n, NoKind)
Optimize(n) == Frame("optimize", n, NoKind)
Fold(n, k)  == Frame("fold", n, k)

Top  == Head(stack)
Done == pc = "run" /\ stack = << >>

-----------------------------------------------------------------------------

Orderings == {s \in [1..Cardinality(Roots) -> Roots] : ToSet(s) = Roots}

Init ==
    /\ program \in Programs
    /\ order \in Orderings
    /\ kind = program
    /\ stack = [i \in DOMAIN order |-> Walk(order[i])]
    /\ pc = "run"

\* The frames of the operands of a Kind.
Operands(k, FrameOf(_)) ==
    CASE IsUnary(k)  -> <<FrameOf(k.left)>>
      [] IsBinary(k) -> <<FrameOf(k.left), FrameOf(k.right)>>
      [] OTHER       -> << >>

Replace(frames) == stack' = frames \o Tail(stack)

At(do) == pc = "run" /\ stack # << >> /\ Top.do = do /\ Len(stack) < MaxStack

\* walkValue: the operands are walked, then the value is visited.
WalkValue ==
    /\ At("walk")
    /\ Replace(Operands(kind[Top.node], Walk) \o <<Optimize(Top.node)>>)
    /\ UNCHANGED <<program, order, kind, pc>>

\* Mutant of Descend: the recursive call is made with the value itself.
DescendSelf ==
    /\ At("optimize")
    /\ LET k == kind[Top.node] IN
         /\ IsUnary(k) \/ IsBinary(k)
         /\ Replace(<<Optimize(Top.node), Fold(Top.node, k)>>)
    /\ UNCHANGED <<program, order, kind, pc>>

\* optimizeValue of an operation: its operands first, and its own fold last.
Descend ==
    /\ At("optimize")
    /\ LET k == kind[Top.node] IN
         /\ IsUnary(k) \/ IsBinary(k)
         /\ Replace(Operands(k, Optimize) \o <<Fold(Top.node, k)>>)
    /\ UNCHANGED <<program, order, kind, pc>>

\* What the operands are now decides whether the operation folds.
Outcomes(k) ==
    IF IsUnary(k) THEN FoldUnary(k.op, kind[k.left])
    ELSE FoldBinary(k.op, kind[k.left], kind[k.right])

\* The Kind of node n becomes one of the outcomes.
Become(n, outcomes) ==
    \E v \in outcomes :
       \/ v = NilValue /\ UNCHANGED <<kind, pc>>
       \/ v = Panic /\ pc' = "panic" /\ UNCHANGED kind
       \/ IsLiteral(v) /\ kind' = [kind EXCEPT ![n] = v] /\ UNCHANGED pc

\* Mutant of FoldOperation: the operands' node is overwritten as well.
FoldOperationInPlace ==
    /\ At("fold")
    /\ LET n == IF IsUnary(Top.kind) THEN Top.kind.left ELSE Top.node IN
         Become(n, Outcomes(Top.kind))
    /\ Replace(<< >>)
    /\ UNCHANGED <<program, order>>

FoldOperation ==
    /\ At("fold")
    /\ Become(Top.node, Outcomes(Top.kind))
    /\ Replace(<< >>)
    /\ UNCHANGED <<program, order>>

\* Mutant of Propagate: the value is optimized again with its new Kind.
PropagateDeep ==
    /\ At("optimize")
    /\ IsIdentifier(kind[Top.node])
    /\ kind' = [kind EXCEPT ![Top.node] = kind[kind[Top.node].of]]
    /\ Replace(<<Optimize(Top.node)>>)
    /\ UNCHANGED <<program, order, pc>>

\* Constant propagation: the Kind of the constant's value, as it is now.
Propagate ==
    /\ At("optimize")
    /\ IsIdentifier(kind[Top.node])
    /\ kind' = [kind EXCEPT ![Top.node] = kind[kind[Top.node].of]]
    /\ Replace(<< >>)
    /\ UNCHANGED <<program, order, pc>>

\* Mutant of Retype: literals are left as the parser made them.
RetypeNothing ==
    /\ At("optimize")
    /\ IsLiteral(kind[Top.node])
    /\ Replace(<< >>)
    /\ UNCHANGED <<program, order, kind, pc>>

\* A literal takes the smallest type.
Retype ==
    /\ At("optimize")
    /\ IsLiteral(kind[Top.node])
    /\ Become(Top.node, FoldLiteral(kind[Top.node]))
    /\ Replace(<< >>)
    /\ UNCHANGED <<program, order>>

\* The goroutine's stack is exhausted: the process dies.
Overflow ==
    /\ pc = "run" /\ Len(stack) >= MaxStack
    /\ pc' = "overflow"
    /\ UNCHANGED <<program, order, kind, stack>>

Next == WalkValue \/ Descend \/ FoldOperation \/ Propagate \/ Retype \/ Overflow

Spec == Init /\ [][Next]_vars /\ WF_vars(Next)

-----------------------------------------------------------------------------
(* Properties.                                                             *)

\* An operation of the source divides by what has become a zero.
DividesByZero(n) ==
    IsBinary(program[n]) /\
       LET divisor == kind[program[n].right]
       IN  \/ program[n].op \in {"Divide", "Modulo"} /\ IsInteger(divisor) /\ divisor.n = 0
           \/ program[n].op = "Divide" /\ IsFloat(divisor) /\ divisor.x = 0

\* There is a reason in the source for a panic.
HasCause == \E n \in Nodes : IsNaN(program[n]) \/ IsInfinite(program[n]) \/ DividesByZero(n)

\* Whatever folds into what, and in whatever order: optimize() panics only if the
\* source has a literal that is infinite or not a number, or divides by what is a
\* zero when it panics.  Infinities are made by such a division and by nothing
\* else, and a zero that made one stays a zero.
PanicHasCause == pc = "panic" => HasCause

\* A constant that check() accepts has a number that its declared type holds,
\* although the types of literals are chosen without regard to it.
AcceptedFits ==
    Done => \A c \in Constants, type \in IntegerTypes :
       IsLiteral(kind[c]) /\ Admits(kind[c], type) => kind[c].n \in Span(type[1], type[2])

\* optimize() comes to an end.
Ends == <>(stack = << >> \/ pc # "run")
=============================================================================
