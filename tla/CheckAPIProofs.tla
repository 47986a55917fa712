--------------------------- MODULE CheckAPIProofs ----------------------------
(***************************************************************************)
(* Proofs about CheckAPI, for any types and any specifiers.                *)
(***************************************************************************)
EXTENDS CheckAPI, StackLemmas

\* What the loop has looked at or will.
Known == Range(stack) \cup {s \in Specifiers : s.type \in seen}

\* Only what is included gets onto the stack.
StackIsIncluded == Range(stack) \subseteq Included

\* Each type seen was seen in a specifier, whose fields and parameters are known.
SeenWasFollowed ==
    \A t \in seen : \E s \in Included :
       /\ s.type = t
       /\ Range(FieldsOf(s)) \cup Range(s.parameters) \subseteq Known

\* The report is about a type seen.
ReportedWasSeen == reported <=> \E t \in seen : Forbidden(t)

\* The invariant that both actions preserve.
Inductive ==
    /\ TypeOK
    /\ checked \in Known
    /\ StackIsIncluded
    /\ SeenWasFollowed
    /\ ReportedWasSeen

-----------------------------------------------------------------------------
(* What is included.                                                       *)

\* Fields and parameters are specifiers.
LEMMA Successors ==
    ASSUME TypeOK, NEW s \in Specifiers
    PROVE  /\ FieldsOf(s) \in Seq(Specifiers)
           /\ s.parameters \in Seq(Specifiers)
           /\ Range(FieldsOf(s)) \cup Range(s.parameters) \subseteq Specifiers
<1>1. s.parameters \in Seq(Specifiers)
  BY SpecifiersAssumption
<1>2. FieldsOf(s) \in Seq(Specifiers)
  <2>1. CASE s.type \in Structs
    BY <2>1, FieldListsAssumption DEF FieldsOf, TypeOK
  <2>2. CASE s.type \notin Structs
    BY <2>2 DEF FieldsOf
  <2> QED BY <2>1, <2>2
<1>3. \A q \in Seq(Specifiers) : Range(q) \subseteq Specifiers
  BY DEF Range
<1> QED BY <1>1, <1>2, <1>3

\* The specifier that is checked is included, and with a specifier what it leads to.
LEMMA IncludedIsClosed ==
    ASSUME TypeOK
    PROVE  checked \in Included /\ Included \subseteq Specifiers /\ IsClosed(Included)
<1>1. checked \in Included
  BY DEF Included, TypeOK
<1>2. ASSUME NEW s \in Included,
             NEW u \in Range(FieldsOf(s)) \cup Range(s.parameters)
      PROVE  u \in Included
  <2>1. u \in Specifiers
    BY Successors DEF Included
  <2>2. ASSUME NEW S \in SUBSET Specifiers, checked \in S, IsClosed(S)
        PROVE  u \in S
    <3>1. s \in S
      BY <2>2 DEF Included
    <3> QED BY <2>2, <3>1 DEF IsClosed
  <2> QED BY <2>1, <2>2 DEF Included
<1> QED BY <1>1, <1>2 DEF Included, IsClosed

\* It depends on the image and the method alone.
LEMMA IncludedIsFixed ==
    ASSUME UNCHANGED <<fields, checked>>
    PROVE  /\ Included' = Included
           /\ \A s : FieldsOf(s)' = FieldsOf(s)
BY DEF Included, IsClosed, FieldsOf

-----------------------------------------------------------------------------
(* The invariant.                                                          *)

\* The loop starts with the checked specifier on the stack.
LEMMA InitiallyInductive == Init => Inductive
<1> SUFFICES ASSUME Init PROVE Inductive
  OBVIOUS
<1>1. TypeOK
  <2>1. stack \in Seq(Specifiers)
    BY DEF Init
  <2>2. reported \in BOOLEAN
    BY Zenon DEF Init
  <2> QED BY <2>1, <2>2 DEF Init, TypeOK
<1>2. Range(stack) = {checked}
  BY DEF Init, Range
<1>3. checked \in Known /\ StackIsIncluded
  BY <1>1, <1>2, IncludedIsClosed DEF Known, StackIsIncluded
<1>4. SeenWasFollowed /\ ReportedWasSeen
  BY DEF Init, SeenWasFollowed, ReportedWasSeen
<1> QED BY <1>1, <1>3, <1>4 DEF Inductive

\* The top of the stack is included, and the rest of the stack is a stack.
LEMMA TopOfStack ==
    ASSUME Inductive, stack # << >>
    PROVE  /\ Top \in Included /\ Top \in Specifiers
           /\ Rest \in Seq(Specifiers)
           /\ Range(stack) = Range(Rest) \cup {Top}
BY RangeOfStack, IncludedIsClosed DEF Inductive, TypeOK, Top, Rest, StackIsIncluded

\* A type that was seen stays known when its specifier is popped.
LEMMA SkipKeepsInductive == Inductive /\ Skip => Inductive'
<1> SUFFICES ASSUME Inductive, Skip PROVE Inductive'
  OBVIOUS
<1>1. /\ Top \in Included /\ Top \in Specifiers /\ Rest \in Seq(Specifiers)
      /\ Range(stack) = Range(Rest) \cup {Top} /\ TypeOK
  BY TopOfStack DEF Skip, Inductive
<1>2. /\ stack' = Rest /\ Top.type \in seen
      /\ UNCHANGED <<fields, checked, seen, reported>>
  BY DEF Skip
<1>3. TypeOK'
  BY <1>1, <1>2 DEF TypeOK
<1>4. Range(stack)' = Range(Rest)
  BY <1>2
<1>5. Known' = Known
  BY <1>1, <1>2, <1>4 DEF Known
<1>6. Included' = Included /\ \A s : FieldsOf(s)' = FieldsOf(s)
  BY <1>2, IncludedIsFixed
<1>7. checked' \in Known' /\ StackIsIncluded'
  BY <1>1, <1>2, <1>4, <1>5, <1>6 DEF Inductive, StackIsIncluded
<1>8. SeenWasFollowed'
  BY <1>2, <1>5, <1>6 DEF Inductive, SeenWasFollowed
<1>9. ReportedWasSeen'
  BY <1>2 DEF Inductive, ReportedWasSeen, Forbidden
<1> QED BY <1>3, <1>7, <1>8, <1>9 DEF Inductive

\* What the visited specifier leads to becomes known.
LEMMA VisitKeepsInductive == Inductive /\ Visit => Inductive'
<1> SUFFICES ASSUME Inductive, Visit PROVE Inductive'
  OBVIOUS
<1>1. /\ Top \in Included /\ Top \in Specifiers /\ Rest \in Seq(Specifiers)
      /\ Range(stack) = Range(Rest) \cup {Top} /\ TypeOK
  BY TopOfStack DEF Visit, Inductive
<1> DEFINE new == Range(FieldsOf(Top)) \cup Range(Top.parameters)
<1>2. /\ stack' = Rest \o FieldsOf(Top) \o Top.parameters
      /\ seen' = seen \cup {Top.type}
      /\ reported' = (reported \/ Forbidden(Top.type))
      /\ UNCHANGED <<fields, checked>>
  BY DEF Visit
<1>3. /\ FieldsOf(Top) \in Seq(Specifiers) /\ Top.parameters \in Seq(Specifiers)
      /\ new \subseteq Specifiers
  BY <1>1, Successors
<1>4. stack' \in Seq(Specifiers) /\ Range(stack)' = Range(Rest) \cup new
  BY <1>1, <1>2, <1>3, RangeOfThree
<1>5. TypeOK'
  BY <1>1, <1>2, <1>4, SpecifiersAssumption DEF TypeOK
<1>6. Included' = Included /\ \A s : FieldsOf(s)' = FieldsOf(s)
  BY <1>2, IncludedIsFixed
<1>7. Known \cup new \subseteq Known'
  BY <1>1, <1>2, <1>4 DEF Known
<1>8. checked' \in Known'
  BY <1>2, <1>7 DEF Inductive
<1>9. StackIsIncluded'
  <2>1. new \subseteq Included
    BY <1>1, IncludedIsClosed DEF IsClosed
  <2> QED BY <1>1, <1>4, <1>6, <2>1 DEF Inductive, StackIsIncluded
<1>10. SeenWasFollowed'
  <2> SUFFICES ASSUME NEW t \in seen'
               PROVE  \E s \in Included : s.type = t
                         /\ Range(FieldsOf(s)) \cup Range(s.parameters) \subseteq Known'
    BY <1>6 DEF SeenWasFollowed
  <2>1. CASE t \in seen
    BY <1>7, <2>1 DEF Inductive, SeenWasFollowed
  <2>2. CASE t = Top.type
    BY <1>1, <1>7, <2>2
  <2> QED BY <1>2, <2>1, <2>2
<1>11. ReportedWasSeen'
  BY <1>2 DEF Inductive, ReportedWasSeen, Forbidden
<1> QED BY <1>5, <1>8, <1>9, <1>10, <1>11 DEF Inductive

\* Whatever the types and their fields are.
THEOREM Invariance == Spec => []Inductive
<1>1. ASSUME Inductive, UNCHANGED vars PROVE Inductive'
  <2>1. UNCHANGED <<fields, checked, stack, seen, reported>>
    BY <1>1 DEF vars
  <2>2. Included' = Included /\ \A s : FieldsOf(s)' = FieldsOf(s)
    BY <2>1, IncludedIsFixed
  <2>3. Known' = Known
    BY <2>1 DEF Known
  <2>4. TypeOK' /\ checked' \in Known'
    BY <1>1, <2>1, <2>3 DEF Inductive, TypeOK
  <2>5. StackIsIncluded'
    BY <1>1, <2>1, <2>2 DEF Inductive, StackIsIncluded
  <2>6. SeenWasFollowed'
    BY <1>1, <2>1, <2>2, <2>3 DEF Inductive, SeenWasFollowed
  <2>7. ReportedWasSeen'
    BY <1>1, <2>1 DEF Inductive, ReportedWasSeen, Forbidden
  <2> QED BY <2>4, <2>5, <2>6, <2>7 DEF Inductive
<1>2. QED BY <1>1, InitiallyInductive, SkipKeepsInductive, VisitKeepsInductive, PTL
            DEF Spec, Next

\* An API method is refused only for what its input or output does include
\* (checkTypeSpecifierForAPI).
THEOREM OnlyTheForbiddenIsReported == Spec => []OnlyTheForbidden
<1>1. Inductive => OnlyTheForbidden
  BY DEF Inductive, SeenWasFollowed, ReportedWasSeen, OnlyTheForbidden, Includes
<1>2. QED BY <1>1, Invariance, PTL

\* When no type is included with different parameters, nothing is missed,
\* although the loop looks at a type once.
THEOREM UniformIsDecided == Spec => []FoundIfUniform
<1>1. ASSUME Inductive, stack = << >>, Uniform, Includes PROVE reported
  <2> DEFINE W == {s \in Included : s.type \in seen}
  <2>1. TypeOK /\ Range(stack) = {}
    BY <1>1 DEF Inductive, Range
  <2>2. \A s \in Known : s.type \in seen
    BY <2>1 DEF Known
  <2>3. checked \in W
    BY <1>1, <2>1, <2>2, IncludedIsClosed DEF Inductive
  <2>4. IsClosed(W)
    <3> SUFFICES ASSUME NEW s \in W,
                        NEW u \in Range(FieldsOf(s)) \cup Range(s.parameters)
                 PROVE  u \in W
      BY DEF IsClosed
    <3>1. PICK v \in Included : v.type = s.type
             /\ Range(FieldsOf(v)) \cup Range(v.parameters) \subseteq Known
      BY <1>1 DEF Inductive, SeenWasFollowed
    <3>2. v = s
      BY <1>1, <3>1 DEF Uniform
    <3>3. u \in Included
      BY <2>1, IncludedIsClosed DEF IsClosed
    <3> QED BY <2>2, <3>1, <3>2, <3>3
  <2>5. W \in SUBSET Specifiers
    BY DEF Included
  <2>6. Included \subseteq W
    BY <2>3, <2>4, <2>5 DEF Included
  <2> QED BY <1>1, <2>6 DEF Includes, Inductive, ReportedWasSeen
<1>2. Inductive /\ OnlyTheForbidden => FoundIfUniform
  BY <1>1 DEF FoundIfUniform, OnlyTheForbidden
<1>3. QED BY <1>2, Invariance, OnlyTheForbiddenIsReported, PTL
=============================================================================
