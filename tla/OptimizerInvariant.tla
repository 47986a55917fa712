-------------------------- MODULE OptimizerInvariant --------------------------
(***************************************************************************)
(* The inductive invariants behind the properties of Optimizer and of      *)
(* OptimizerMeaning.  The proofs are in OptimizerProofs.                   *)
(***************************************************************************)
EXTENDS OptimizerMeaning

\* The Kinds of the source, and the operations among them.
Written    == {program[n] : n \in Nodes}
Operations == {k \in Written : IsUnary(k) \/ IsBinary(k)}

\* A fold is of an operation of the source, whatever its node has become since.
Frames == [do : {"walk", "optimize"}, node : Nodes, kind : {NoKind}]
            \cup [do : {"fold"}, node : Nodes, kind : Operations]

\* Every node has a literal in its type, or what some node has in the source.
KindsAreSound ==
    /\ DOMAIN kind = Nodes
    /\ \A n \in Nodes : InItsType(kind[n]) /\ (IsLiteral(kind[n]) \/ kind[n] \in Written)

\* What optimize() may hold at any time.
Inductive ==
    /\ program \in Programs
    /\ KindsAreSound
    /\ stack \in Seq(Frames)

-----------------------------------------------------------------------------
(* The causes of panics.                                                   *)

IsFold(i) == stack[i].do = "fold"

\* A node waits for its operands as the operation that it was when it was reached.
Waiting == \A i \in DOMAIN stack : IsFold(i) => kind[stack[i].node] = stack[i].kind

\* What is above a fold is there for one of its operands.
Chained ==
    \A j \in DOMAIN stack : \A i \in 1..(j - 1) : IsFold(j) =>
       /\ stack[i].do # "walk"
       /\ \E m \in i..(j - 1) : /\ i = m \/ IsFold(m)
                               /\ stack[m].node \in Uses(stack[j].kind)

\* A node that waits for itself does so for ever: above the second fold something
\* waits that waits below it, too.
Endless ==
    \A j \in DOMAIN stack : \A i \in 1..(j - 1) :
       IsFold(i) /\ IsFold(j) /\ stack[i].node = stack[j].node =>
          \E m \in i..(j - 1), l \in 1..(i - 1) : IsFold(m) /\ stack[l].node = stack[m].node

\* So an operation is folded into a node that is that operation, never into a
\* literal; a zero stays a zero, and an infinity has its cause.
Blamed ==
    /\ Waiting
    /\ Chained
    /\ Endless
    /\ \A n \in Nodes : IsNaN(kind[n]) \/ IsInfinite(kind[n]) => HasCause
    /\ PanicHasCause

-----------------------------------------------------------------------------
(* Meaning.                                                                *)

\* What a node, or an operation that will be folded into it, is now agrees with
\* what the node meant in the source.
Meaningful ==
    /\ \A n \in Nodes : Meant[n] # Undefined => Evaluate(kind[n], Meant) = Meant[n]
    /\ \A i \in DOMAIN stack :
          stack[i].do = "fold" /\ Meant[stack[i].node] # Undefined
             => Evaluate(stack[i].kind, Meant) = Meant[stack[i].node]

\* The nodes that those of S are in terms of, in the source, are in S.
IsClosed(S) == \A n \in S : Uses(program[n]) \subseteq S

\* Sharing does not make a node depend on what it did not depend on.
Narrowed ==
    \A S \in SUBSET Nodes : IsClosed(S) =>
       \A n \in Nodes : Uses(program[n]) \subseteq S => Uses(kind[n]) \subseteq S

-----------------------------------------------------------------------------
(* The depth of the recursion.                                             *)

\* The nodes that are in terms of node n, at any distance.
Above(n) ==
    {m \in Nodes : \A S \in SUBSET Nodes :
                      IsClosed(S) /\ Uses(program[m]) \subseteq S => n \in S}

\* Below a frame are the roots to come, and two frames for each node on the way.
Shallow ==
    \A i \in DOMAIN stack :
       Len(stack) - i < Cardinality(Roots) + 2 * Cardinality(Above(stack[i].node))

-----------------------------------------------------------------------------
(* Folding in the order of the constants.                                  *)

\* What is to be folded, and what it is to become.
Worthy(n) == Meant[n] # Undefined /\ Small(n)

Final(k) == IsLiteral(k) /\ (IsInteger(k) => FoldInteger(k.n) = {k})

\* By the time frame i is on top, n is folded if it can be.
Settled(n, i) ==
    Worthy(n) => Final(kind[n]) \/ \E j \in 1..(i - 1) : stack[j].node = n

\* Nothing is half folded; roots are folded or have a frame; the operands of a
\* fold, and the constants that a value is in terms of, come before it.
Folding ==
    /\ \A n \in Nodes : Worthy(n) => kind[n] = program[n] \/ Final(kind[n])
    /\ \A n \in Roots : Settled(n, Len(stack) + 1)
    /\ \A i \in DOMAIN stack : stack[i].do = "fold" /\ Worthy(stack[i].node) =>
          /\ stack[i].kind = program[stack[i].node]
          /\ \A m \in Uses(stack[i].kind) : Settled(m, i)
    /\ \A i \in DOMAIN stack : \E S \in SUBSET Nodes :
          /\ stack[i].node \in S /\ IsClosed(S)
          /\ \A m \in S : IsIdentifier(program[m]) => Settled(program[m].of, i)

\* What holds of a program that has a meaning, and of one in order.
Intended ==
    program \in Acyclic =>
       /\ Meaningful
       /\ Narrowed
       /\ Shallow
       /\ InOrder /\ pc = "run" => Folding
=============================================================================
