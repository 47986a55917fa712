----------------------------- MODULE Documented -------------------------------
(***************************************************************************)
(* What the mglot parser takes, compared with the grammar that the         *)
(* comments of parser_microglot.go state.                                  *)
(***************************************************************************)
EXTENDS SubCompilerMicroglot, Grammar

-----------------------------------------------------------------------------
(* What the code takes although no comment says so, and the reverse.       *)

\* A variable needs a type, and exec an invocation; "-" is not an operator of two
\* operands; lists of types and scopes are not empty; a block of an implementation
\* and a switch have no comments.
Lenient(n) ==
    \/ n.rule = "StepVar"
    \/ n.rule = "Invocation" /\ n.kids = << >>
    \/ n.rule = "ValueBinary" /\ n.kids[3].rule = "-"
    \/ n.rule \in {"Extension", "ImplAs", "TypeName"} /\ ~Has(n, "TypeSpecifier")
         /\ (Has(n, "(") \/ Has(n, "<"))
    \/ n.rule = "StatementAnnotation" /\ ~Has(n, "AnnotationScope")
    \/ n.rule \in {"ImplBlock", "StepSwitch"} /\ Has(n, "CommentBlock")

\* Some node at or under n is such.
RECURSIVE SomeLenient(_)
SomeLenient(n) == Lenient(n) \/ \E i \in DOMAIN n.kids : SomeLenient(n.kids[i])

\* Variables have a type, and are set to what they are set to; an else has a
\* block, and a case more values than one.  Literals must also have a value.
Strict ==
    \/ Uses({"var", "set", "else"})
    \/ Uses({"case"}) /\ Uses({","})
    \/ Uses({"Incomplete", "Overlong", "Malformed"})
    \/ Adjacent({",", "("}, {","})

\* The parser is done, and nobody was told of anything.
Accepted == Done /\ pc = "parsed" /\ ~reported

-----------------------------------------------------------------------------
(* Properties.                                                             *)

\* What is parsed without a report is derived from the grammar that the comments
\* state, but for the exceptions of Lenient.
AcceptedIsDocumented ==
    Accepted /\ ~SomeLenient(Tree) => IsDocumented(tokens)

\* What is derived from that grammar is parsed without a report, but for the
\* exceptions of Strict.
DocumentedIsAccepted ==
    Done /\ ~Strict /\ ~Accepted => ~IsDocumented(tokens)

=============================================================================
