----------------------------- MODULE CompileSpec -----------------------------
(***************************************************************************)
(* What a caller of Compile may rely on: one answer, which is either an    *)
(* image of exactly the reachable modules, each once, given only when      *)
(* nothing is wrong with any of them, or an error.  A file that makes the  *)
(* parser loop takes the promise to answer away.                           *)
(***************************************************************************)
EXTENDS Sources

CONSTANTS
  Inputs,         \* the inputs considered
  Cancellable,    \* the context of the call may be cancelled
  SpuriousErrors  \* an error may also be given for a faultless input

VARIABLES
  input,   \* what Compile is given; fixed
  answer   \* what it has answered

vars == <<input, answer>>

-----------------------------------------------------------------------------

Init == input \in Inputs /\ answer = NoAnswer

\* A target that does not exist is a panic, not an error, and there is no
\* recover for a panic of a sub-compiler or of optimize() either.
Panic == /\ ~TargetsExist(input) \/ MayPanic(input)
         /\ answer' = Failed("panic")

Succeed == /\ TargetsExist(input)
           /\ ~Faulty(input)
           /\ answer' = Image(Reachable(input))

Fail == /\ TargetsExist(input)
        /\ \/ Faulty(input) /\ answer' \in {Failed("reported"), Failed("result"),
                                              Rejected(Reachable(input))}
           \/ SpuriousErrors /\ answer' = Failed("reported")
           \/ Cancellable /\ answer' = Failed("context")

Next == /\ answer = NoAnswer
        /\ Panic \/ Succeed \/ Fail
        /\ UNCHANGED input

\* What it never does, and that it answers at last, unless a parser may loop.
Safety == Init /\ [][Next]_vars

Spec == Safety /\ WF_vars(Next /\ ~MayLoop(input))
=============================================================================
