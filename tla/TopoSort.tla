------------------------------- MODULE TopoSort -------------------------------
(***************************************************************************)
(* imageConverter.topoSort (internal/idl/convert.go): the files of a       *)
(* FileDescriptorSet are put in an order in which every file comes after   *)
(* the files it depends on.  One step is one iteration of its loop.        *)
(*                                                                         *)
(* Files are their names.  A file may depend on a file that is not in the  *)
(* image, on itself, or on a file that depends on it.                      *)
(***************************************************************************)
EXTENDS Integers, Sequences, FiniteSets, Functions

CONSTANTS
  Names,   \* the names of files, those of an image and those imported
  Sort(_)  \* sort.Strings and sort.SliceStable: a set of names in their order

ASSUME NamesAssumption == IsFiniteSet(Names)
ASSUME SortAssumption ==
    \A S \in SUBSET Names : Sort(S) \in Seq(S) /\ Range(Sort(S)) = S

VARIABLES
  dependency,  \* for each file of the image, the files it imports; fixed
  roots,       \* the stack of files whose dependencies are all in sorted
  sorted,      \* the files in the order found so far; also completed
  dependsOn    \* for each file, the dependencies that are not yet in sorted

vars == <<dependency, roots, sorted, dependsOn>>

Image == DOMAIN dependency

-----------------------------------------------------------------------------

Init ==
    /\ \E image \in SUBSET Names : dependency \in [image -> SUBSET Names]
    /\ roots = Sort({n \in Image : dependency[n] = {}})
    /\ sorted = << >>
    /\ dependsOn = dependency

Completed(n) == n \in Range(sorted)

\* The files of the map dependedOn[n].
DependedOn(n) == {m \in Image : n \in dependency[m]}

\* Mutant of Pop: a file is pushed as soon as one of its dependencies is sorted.
PopEager ==
    LET current == roots[Len(roots)]
        rest    == SubSeq(roots, 1, Len(roots) - 1)
    IN  /\ roots # << >>
        /\ IF Completed(current)
           THEN /\ roots' = rest
                /\ UNCHANGED <<sorted, dependsOn>>
           ELSE /\ roots' = rest \o Sort(DependedOn(current))
                /\ sorted' = Append(sorted, current)
                /\ dependsOn' = [n \in Image |-> dependsOn[n] \ {current}]
        /\ UNCHANGED dependency

\* Mutant of Pop: only the first file that becomes ready is pushed.
PopForgetful ==
    LET current == roots[Len(roots)]
        rest    == SubSeq(roots, 1, Len(roots) - 1)
        waiting == [n \in Image |-> dependsOn[n] \ {current}]
        ready   == {n \in DependedOn(current) : waiting[n] = {}}
    IN  /\ roots # << >>
        /\ roots' = rest \o (IF ready = {} THEN << >> ELSE <<Sort(ready)[1]>>)
        /\ sorted' = Append(sorted, current)
        /\ dependsOn' = waiting
        /\ UNCHANGED dependency

\* Mutant of Pop: neither dependencies nor completed files are looked at.
PopTwice ==
    LET current == roots[Len(roots)]
    IN  /\ roots # << >>
        /\ Len(sorted) < 5
        /\ roots' = SubSeq(roots, 1, Len(roots) - 1) \o Sort(DependedOn(current))
        /\ sorted' = Append(sorted, current)
        /\ dependsOn' = [n \in Image |-> dependsOn[n] \ {current}]
        /\ UNCHANGED dependency

\* Mutant of Pop: the top of the stack is read and not removed.
PopPeek ==
    LET current == roots[Len(roots)]
        waiting == [n \in Image |-> dependsOn[n] \ {current}]
        ready   == {n \in DependedOn(current) : waiting[n] = {}}
    IN  /\ roots # << >>
        /\ ~Completed(current)
        /\ roots' = roots \o Sort(ready)
        /\ sorted' = Append(sorted, current)
        /\ dependsOn' = waiting
        /\ UNCHANGED dependency

\* The file on top of the stack is popped.  Unless it was sorted before, it is
\* now, and the files that waited for nothing else are pushed.
Pop ==
    LET current == roots[Len(roots)]
        rest    == SubSeq(roots, 1, Len(roots) - 1)
        waiting == [n \in Image |-> dependsOn[n] \ {current}]
        ready   == {n \in DependedOn(current) : waiting[n] = {}}
    IN  /\ roots # << >>
        /\ IF Completed(current)
           THEN /\ roots' = rest
                /\ UNCHANGED <<sorted, dependsOn>>
           ELSE /\ roots' = rest \o Sort(ready)
                /\ sorted' = Append(sorted, current)
                /\ dependsOn' = waiting
        /\ UNCHANGED dependency

Next == Pop

Spec == Init /\ [][Next]_vars /\ WF_vars(Next)

-----------------------------------------------------------------------------
(* Properties.                                                             *)

\* Only files of the image get onto the stack and into the result.
TypeOK ==
    /\ Image \subseteq Names
    /\ dependency \in [Image -> SUBSET Names]
    /\ roots \in Seq(Image)
    /\ sorted \in Seq(Image)
    /\ dependsOn \in [Image -> SUBSET Names]

\* protoc plugins are given files in an order in which a file comes after all
\* it imports; topoSort keeps that order at every step.
DependenciesFirst ==
    \A i \in DOMAIN sorted : \A n \in dependency[sorted[i]] :
       \E j \in DOMAIN sorted : j < i /\ sorted[j] = n

\* No file is in the result twice.
SortedOnce == \A i, j \in DOMAIN sorted : sorted[i] = sorted[j] => i = j

\* Files are closed under their dependencies when ...
IsClosed(S) == \A n \in Image : dependency[n] \subseteq S => n \in S

\* The files that can be put in order at all: those that neither are on a cycle
\* of imports, nor import a file that is, nor one outside the image, however
\* indirectly.
Orderable == {n \in Image : \A S \in SUBSET Image : IsClosed(S) => n \in S}

\* topoSort loses exactly the files that cannot be put in order.  (It does not
\* report them.)
NoOrderableFileIsLost == roots = << >> => Range(sorted) = Orderable

\* The loop ends, also for cyclic imports.
Terminates == <>(roots = << >>)
=============================================================================
