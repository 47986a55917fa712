-------------------------- MODULE OptimizerMeaning ----------------------------
(***************************************************************************)
(* What a program of Optimizer means, by exact arithmetic, and what        *)
(* folding therefore has to keep.                                          *)
(***************************************************************************)
EXTENDS Optimizer

-----------------------------------------------------------------------------
(* Meaning.                                                                *)

\* The nodes that a Kind is in terms of.
Uses(k) ==
    CASE IsIdentifier(k) -> {k.of}
      [] IsUnary(k)      -> {k.left}
      [] IsBinary(k)     -> {k.left, k.right}
      [] OTHER           -> {}

\* No nodes of heap h are in terms of each other.
Founded(h) ==
    \A S \in SUBSET Nodes : S # {} => \E n \in S : Uses(h[n]) \cap S = {}

Acyclic == {p \in Programs : Founded(p)}

\* Undefined: floats, kinds that do not match, zero divisors.
Undefined == [kind |-> "undefined"]

\* Exact arithmetic on what a value means; only integers have a number.
Apply(op, l, r) ==
    CASE IsInteger(l) /\ IsInteger(r) /\ op \in Comparisons -> Boolean(Compare(op, l.n, r.n))
      [] IsInteger(l) /\ IsInteger(r) /\ op \in Arithmetic
           /\ ~(op \in {"Divide", "Modulo"} /\ r.n = 0) -> Integer("exact", Calculate(op, l.n, r.n))
      [] IsBoolean(l) /\ IsBoolean(r) /\ FoldBooleans(op, l.b, r.b) # Nothing ->
           CHOOSE v \in FoldBooleans(op, l.b, r.b) : TRUE
      [] OTHER -> Undefined

Negate(op, v) ==
    CASE op = "Positive" /\ IsInteger(v) -> v
      [] op = "Negative" /\ IsInteger(v) -> Integer("exact", -v.n)
      [] op = "Not" /\ IsBoolean(v)      -> Boolean(~v.b)
      [] OTHER -> Undefined

\* What a Kind means, if every node m means M[m].
Evaluate(k, M) ==
    CASE IsInteger(k)    -> Integer("exact", k.n)
      [] IsBoolean(k)    -> k
      [] k.kind = "text" -> k
      [] IsIdentifier(k) -> M[k.of]
      [] IsUnary(k)      -> Negate(k.op, M[k.left])
      [] IsBinary(k)     -> Apply(k.op, M[k.left], M[k.right])
      [] OTHER           -> Undefined

\* What the nodes of a founded heap mean.
MeaningOf(h) == LET M[n \in Nodes] == Evaluate(h[n], M) IN M

Meant == MeaningOf(program)
Now   == MeaningOf(kind)

\* Nothing that value n is in terms of, as it is written, goes beyond the widest
\* types.
Small(n) ==
    \E S \in SUBSET Nodes :
       /\ n \in S
       /\ \A m \in S : /\ Uses(program[m]) \subseteq S
                       /\ IsInteger(Meant[m]) => FoldInteger(Meant[m].n) # Nothing

Position(n) == CHOOSE i \in DOMAIN order : order[i] = n

\* Every constant is walked before the values in terms of it.
InOrder ==
    \A n \in Roots : \E S \in SUBSET Nodes :
       /\ n \in S
       /\ \A m \in S : IF IsIdentifier(program[m])
                       THEN Position(program[m].of) < Position(n)
                       ELSE Uses(program[m]) \subseteq S

-----------------------------------------------------------------------------
(* Properties.                                                             *)

\* Whatever the order of modules, and whatever is shared by then, no node ever
\* changes its meaning: sharing the Kind of a constant is not visible.
MeaningKept ==
    program \in Acyclic => \A n \in Nodes : Meant[n] # Undefined => Now[n] = Meant[n]

\* Where every constant is walked before the values in terms of it, everything
\* with a meaning that fits is a literal in the end, of the smallest type.
FoldedInOrder ==
    Done /\ program \in Acyclic /\ InOrder =>
       \A n \in Roots : Meant[n] # Undefined /\ Small(n) =>
          /\ IsLiteral(kind[n])
          /\ IsInteger(kind[n]) => FoldInteger(kind[n].n) = {kind[n]}

\* The process dies of a value only if the value is a constant in terms of itself.
OverflowIfCyclic == pc = "overflow" => program \notin Acyclic
=============================================================================
