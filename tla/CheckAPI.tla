------------------------------ MODULE CheckAPI -------------------------------
(***************************************************************************)
(* imageChecker.checkTypeSpecifierForAPI (internal/compiler/checker.go):   *)
(* what an API method takes or returns may not include an API or an SDK,   *)
(* however deep.  One step is one turn of its loop.                        *)
(*                                                                         *)
(* check() runs on a linked image: every type specifier is resolved, and   *)
(* the type it refers to is in the image.                                  *)
(***************************************************************************)
EXTENDS Integers, Sequences, Functions

CONSTANTS
  Specifiers,  \* type specifiers: records [type, parameters]
  Kind,        \* the kind of each type of the image
  FieldLists   \* the fields that a struct may have

Types == DOMAIN Kind

ASSUME SpecifiersAssumption ==
    \A s \in Specifiers : s.type \in Types /\ s.parameters \in Seq(Specifiers)

ASSUME FieldListsAssumption == FieldLists \subseteq Seq(Specifiers)

Structs == {t \in Types : Kind[t] = "struct"}

VARIABLES
  fields,    \* the type specifiers of the fields of each struct; fixed
  checked,   \* the input or output of the method; fixed
  stack,     \* the specifiers still to look at
  seen,      \* the types looked at
  reported   \* CodeWrongTypeForAPI was reported

vars == <<fields, checked, stack, seen, reported>>

\* The specifiers a type specifier leads to: the fields of its struct, and the
\* parameters it gives.
FieldsOf(s) == IF s.type \in Structs THEN fields[s.type] ELSE << >>

Forbidden(t) == Kind[t] \in {"api", "sdk"}

-----------------------------------------------------------------------------

\* A method of an API, in any image.
Init ==
    /\ fields \in [Structs -> FieldLists]
    /\ checked \in Specifiers
    /\ stack = <<checked>>
    /\ seen = {}
    /\ reported = FALSE

Top  == stack[Len(stack)]
Rest == SubSeq(stack, 1, Len(stack) - 1)

\* Mutant of Skip: the loop continues before it pops.
SkipPeek ==
    /\ stack # << >>
    /\ Top.type \in seen
    /\ UNCHANGED vars

\* A type that was seen before is popped and not looked at again.
Skip ==
    /\ stack # << >>
    /\ Top.type \in seen
    /\ stack' = Rest
    /\ UNCHANGED <<fields, checked, seen, reported>>

\* Mutant of Visit: the parameters of the specifier are not followed.
VisitNoParameters ==
    /\ stack # << >>
    /\ Top.type \notin seen
    /\ stack' = Rest \o FieldsOf(Top)
    /\ seen' = seen \cup {Top.type}
    /\ reported' = (reported \/ Forbidden(Top.type))
    /\ UNCHANGED <<fields, checked>>

\* Mutant of Visit: whatever is not a struct is reported.
VisitReportsAll ==
    /\ stack # << >>
    /\ Top.type \notin seen
    /\ stack' = Rest \o FieldsOf(Top) \o Top.parameters
    /\ seen' = seen \cup {Top.type}
    /\ reported' = (reported \/ Top.type \notin Structs)
    /\ UNCHANGED <<fields, checked>>

\* Any other is reported when it is forbidden, and what it leads to is pushed:
\* the fields of a struct, and then the parameters.
Visit ==
    /\ stack # << >>
    /\ Top.type \notin seen
    /\ stack' = Rest \o FieldsOf(Top) \o Top.parameters
    /\ seen' = seen \cup {Top.type}
    /\ reported' = (reported \/ Forbidden(Top.type))
    /\ UNCHANGED <<fields, checked>>

Next == Skip \/ Visit

Spec == Init /\ [][Next]_vars /\ WF_vars(Next)

-----------------------------------------------------------------------------
(* Properties.                                                             *)

\* The work list holds specifiers, and the set of seen keys types.
TypeOK ==
    /\ fields \in [Structs -> FieldLists]
    /\ checked \in Specifiers
    /\ stack \in Seq(Specifiers)
    /\ seen \subseteq Types
    /\ reported \in BOOLEAN

\* A set of specifiers is closed when it holds what its members lead to.
IsClosed(S) ==
    \A s \in S : Range(FieldsOf(s)) \cup Range(s.parameters) \subseteq S

\* What the checked specifier transitively includes.
Included ==
    {s \in Specifiers :
       \A S \in SUBSET Specifiers : checked \in S /\ IsClosed(S) => s \in S}

Includes == \E s \in Included : Forbidden(s.type)

\* The check rejects only what does include an API or an SDK.
OnlyTheForbidden == reported => Includes

\* No two specifiers that are included differ in nothing but their parameters,
\* as when List is used for one type of element only.
Uniform == \A s, t \in Included : s.type = t.type => s = t

\* Then the check also finds every API and SDK, although it looks at a type
\* once: recursive structs included.
FoundIfUniform == stack = << >> /\ Uniform => (reported <=> Includes)

\* "structs which transitively include API, SDK or Impl fields can't be passed
\* as API method input or output" (checker.go:116).
NoneIsMissed ==
    stack = << >> /\ checked.type \in Structs /\ Includes => reported

\* The check ends, also for structs that include themselves.
Terminates == <>(stack = << >>)
=============================================================================
