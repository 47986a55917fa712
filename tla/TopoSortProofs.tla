---------------------------- MODULE TopoSortProofs ----------------------------
(***************************************************************************)
(* Proofs about TopoSort, for any set of names and any imports.            *)
(***************************************************************************)
EXTENDS TopoSort, StackLemmas

\* dependsOn holds what a file still waits for.
Waits == \A n \in Image : dependsOn[n] = dependency[n] \ Range(sorted)

\* The files that wait for nothing are sorted or on the stack.
ReadyAreKnown ==
    \A n \in Image : dependsOn[n] = {} <=> n \in Range(sorted) \cup Range(roots)

\* Only files that can be put in order are.
OnlyOrderable == Range(sorted) \subseteq Orderable

\* The invariant that Pop preserves.
Inductive ==
    /\ TypeOK
    /\ Waits
    /\ ReadyAreKnown
    /\ DependenciesFirst
    /\ SortedOnce
    /\ OnlyOrderable

-----------------------------------------------------------------------------
(* The invariant.                                                          *)

\* The stack starts with every file on it and the result empty.
LEMMA InitiallyInductive == Init => Inductive
<1> SUFFICES ASSUME Init PROVE Inductive
  OBVIOUS
<1>1. dependency \in [Image -> SUBSET Names] /\ Image \subseteq Names
  BY DEF Init, Image
<1>2. /\ roots \in Seq({n \in Image : dependency[n] = {}})
      /\ Range(roots) = {n \in Image : dependency[n] = {}}
  BY <1>1, SortAssumption DEF Init
<1>3. roots \in Seq(Image)
  <2>1. Seq({n \in Image : dependency[n] = {}}) \subseteq Seq(Image)
    BY SequencesOfSubset
  <2>2. QED BY <1>2, <2>1
<1>4. Range(sorted) = {} /\ sorted \in Seq(Image)
  BY DEF Init, Range
<1>5. TypeOK
  BY <1>1, <1>3, <1>4 DEF Init, TypeOK
<1>6. Waits /\ ReadyAreKnown
  BY <1>2, <1>4 DEF Init, Waits, ReadyAreKnown
<1>7. DependenciesFirst /\ SortedOnce /\ OnlyOrderable
  BY <1>4 DEF Init, DependenciesFirst, SortedOnce, OnlyOrderable
<1>8. QED BY <1>5, <1>6, <1>7 DEF Inductive

\* One turn of the loop keeps the invariant, whatever is on top of the stack.
LEMMA PopKeepsInductive == Inductive /\ Pop => Inductive'
<1> SUFFICES ASSUME Inductive, Pop PROVE Inductive'
  OBVIOUS
<1> USE DEF Inductive
<1> DEFINE current == roots[Len(roots)]
           rest    == SubSeq(roots, 1, Len(roots) - 1)
           waiting == [n \in Image |-> dependsOn[n] \ {current}]
           ready   == {n \in DependedOn(current) : waiting[n] = {}}
<1>1. dependency' = dependency /\ Image' = Image
  BY DEF Pop, Image
<1>2. /\ current \in Image
      /\ rest \in Seq(Image)
      /\ Range(roots) = Range(rest) \cup {current}
  BY RangeOfStack DEF Pop, TypeOK
<1>3. CASE Completed(current)
  <2>1. roots' = rest /\ sorted' = sorted /\ dependsOn' = dependsOn
    BY <1>3 DEF Pop
  <2>2. Range(sorted') \cup Range(roots') = Range(sorted) \cup Range(roots)
    BY <1>2, <1>3, <2>1 DEF Completed
  <2>3. Range(sorted') = Range(sorted)
    BY <2>1
  <2>4. TypeOK'
    BY <1>1, <1>2, <2>1 DEF TypeOK
  <2>5. Waits' /\ ReadyAreKnown'
    BY <1>1, <2>1, <2>2, <2>3 DEF Waits, ReadyAreKnown
  <2>6. DependenciesFirst' /\ SortedOnce' /\ OnlyOrderable'
    BY <1>1, <2>1, <2>3 DEF DependenciesFirst, SortedOnce, OnlyOrderable, Orderable, IsClosed
  <2>7. QED BY <2>4, <2>5, <2>6
<1>4. CASE ~Completed(current)
  <2>1. /\ roots' = rest \o Sort(ready)
        /\ sorted' = Append(sorted, current)
        /\ dependsOn' = waiting
    BY <1>4 DEF Pop
  <2>2. ready \in SUBSET Image /\ Sort(ready) \in Seq(Image) /\ Range(Sort(ready)) = ready
    <3>1. ready \in SUBSET Image /\ ready \in SUBSET Names
      BY DEF DependedOn, TypeOK
    <3>2. Sort(ready) \in Seq(ready) /\ Range(Sort(ready)) = ready
      BY <3>1, SortAssumption
    <3>3. Seq(ready) \subseteq Seq(Image)
      BY <3>1, SequencesOfSubset
    <3>4. QED BY <3>1, <3>2, <3>3
  <2>3. Range(sorted') = Range(sorted) \cup {current}
    <3>1. sorted \in Seq(Image)
      BY DEF TypeOK
    <3>2. Range(Append(sorted, current)) = Range(sorted) \cup {current}
      BY <3>1, RangeOfAppend
    <3>3. QED BY <2>1, <3>2
  <2>4. Range(roots') = Range(rest) \cup ready
    <3>1. rest \in Seq(Image) /\ Sort(ready) \in Seq(Image) /\ Range(Sort(ready)) = ready
      BY <1>2, <2>2
    <3>2. roots' = rest \o Sort(ready)
      BY <2>1
    <3> HIDE DEF rest, ready
    <3>3. Range(rest \o Sort(ready)) = Range(rest) \cup Range(Sort(ready))
      BY ONLY <3>1, RangeOfConcatenation
    <3>4. QED BY ONLY <3>1, <3>2, <3>3 DEF Range
  <2>5. TypeOK'
    BY <1>1, <1>2, <2>1, <2>2 DEF TypeOK
  <2>6. Waits'
    BY <1>1, <2>1, <2>3 DEF Waits
  <2>7. dependsOn[current] = {} /\ dependency[current] \subseteq Range(sorted)
    BY <1>2 DEF ReadyAreKnown, Waits
  <2>8. ReadyAreKnown'
    <3>1. ASSUME NEW n \in Image
          PROVE  waiting[n] = {} <=> n \in Range(sorted') \cup Range(roots')
      <4>1. CASE dependsOn[n] = {}
        BY <1>2, <2>3, <2>4, <4>1 DEF ReadyAreKnown
      <4>2. CASE dependsOn[n] # {} /\ current \in dependency[n]
        <5>1. n \in ready <=> waiting[n] = {}
          BY <4>2 DEF DependedOn
        <5>2. n \notin Range(sorted) \cup Range(rest) \cup {current}
          BY <1>2, <2>7, <4>2 DEF ReadyAreKnown
        <5>3. QED BY <2>3, <2>4, <5>1, <5>2
      <4>3. CASE dependsOn[n] # {} /\ current \notin dependency[n]
        <5>1. waiting[n] = dependsOn[n] /\ n \notin ready
          BY <4>3 DEF DependedOn, Waits
        <5>2. n \notin Range(sorted) \cup Range(rest) \cup {current}
          BY <1>2, <2>7, <4>3 DEF ReadyAreKnown
        <5>3. QED BY <2>3, <2>4, <4>3, <5>1, <5>2
      <4>4. QED BY <4>1, <4>2, <4>3
    <3>2. QED BY <1>1, <2>1, <3>1 DEF ReadyAreKnown
  <2>9. /\ DOMAIN sorted' = DOMAIN sorted \cup {Len(sorted) + 1}
        /\ \A i \in DOMAIN sorted : i \in Nat /\ i < Len(sorted) + 1 /\ sorted'[i] = sorted[i]
        /\ sorted'[Len(sorted) + 1] = current
        /\ Len(sorted) + 1 \notin DOMAIN sorted
    BY <2>1 DEF TypeOK
  <2>10. DependenciesFirst'
    <3>1. ASSUME NEW n \in dependency[current]
          PROVE  \E j \in DOMAIN sorted' : j < Len(sorted) + 1 /\ sorted'[j] = n
      BY <2>7, <2>9 DEF Range
    <3>2. ASSUME NEW i \in DOMAIN sorted, NEW n \in dependency[sorted[i]]
          PROVE  \E j \in DOMAIN sorted' : j < i /\ sorted'[j] = n
      BY <2>9 DEF DependenciesFirst
    <3>3. QED BY <1>1, <2>9, <3>1, <3>2 DEF DependenciesFirst
  <2>11. SortedOnce'
    <3>1. \A i \in DOMAIN sorted : sorted[i] # current
      BY <1>4 DEF Completed, Range
    <3>2. QED BY <2>9, <3>1 DEF SortedOnce
  <2>12. OnlyOrderable'
    <3>1. current \in Orderable
      BY <1>2, <2>7 DEF OnlyOrderable, Orderable, IsClosed
    <3>2. Orderable' = Orderable
      BY <1>1 DEF Orderable, IsClosed
    <3>3. QED BY <2>3, <3>1, <3>2 DEF OnlyOrderable
  <2>13. QED BY <2>5, <2>6, <2>8, <2>10, <2>11, <2>12
<1>5. QED BY <1>3, <1>4

\* Whatever the files import, cycles and missing files included.
THEOREM Invariance == Spec => []Inductive
<1>1. Inductive /\ UNCHANGED vars => Inductive'
  BY DEF vars, Inductive, TypeOK, Waits, ReadyAreKnown, DependenciesFirst,
         SortedOnce, OnlyOrderable, Orderable, IsClosed, Image, Range
<1>2. QED BY <1>1, InitiallyInductive, PopKeepsInductive, PTL DEF Spec, Next

\* The files given to a plugin come after the files they import (topoSort).
THEOREM OrderIsTopological == Spec => []DependenciesFirst
BY Invariance, PTL DEF Inductive

\* A plugin is given no file twice.
THEOREM FilesAreUnique == Spec => []SortedOnce
BY Invariance, PTL DEF Inductive

\* Every file that is on no cycle of imports, and depends on none that is, is
\* in the result, and no other.
THEOREM ResultIsComplete == Spec => []NoOrderableFileIsLost
<1>1. Inductive => NoOrderableFileIsLost
  <2>1. SUFFICES ASSUME Inductive, roots = << >>
                 PROVE  Orderable \subseteq Range(sorted)
    BY DEF Inductive, OnlyOrderable, NoOrderableFileIsLost
  <2>2. Range(roots) = {}
    BY <2>1 DEF Range
  <2>3. IsClosed(Range(sorted))
    BY <2>1, <2>2 DEF Inductive, Waits, ReadyAreKnown, IsClosed
  <2>4. Range(sorted) \in SUBSET Image
    BY <2>1 DEF Inductive, TypeOK, Range
  <2>5. QED BY <2>3, <2>4 DEF Orderable
<1>2. QED BY <1>1, Invariance, PTL
=============================================================================
