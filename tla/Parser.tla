------------------------------- MODULE Parser --------------------------------
(***************************************************************************)
(* The mglot parser at work (parser_microglot.go): a recursive descent     *)
(* over tokens, of which it sees a few ahead.  One step is one instruction *)
(* of ParserRules, and what is left of a function that was called is its   *)
(* list of instructions.  What it returns is a node: its name, the tokens  *)
(* and nodes that it consists of, and the number of the token where it     *)
(* begins.                                                                 *)
(***************************************************************************)
EXTENDS ParserRules, SequencesExt, FiniteSets

CONSTANT Inputs   \* the sequences of tokens to be parsed

VARIABLES
  tokens,    \* what the lexer gave, without newlines and semicolons; fixed
  at,        \* the number of the next token
  calls,     \* the calls that have not returned, the innermost last
  reported,  \* whether the Reporter was told of anything
  pc         \* "parse", "parsed", "failed", "loops"

parserVars == <<tokens, at, calls, reported, pc>>

\* PrepareParse: newlines and semicolons are filtered out.
Filtered(ts) == SelectSeq(ts, LAMBDA t : t \notin {"Newline", ";"})

ASSUME InputsAssumption == \A ts \in Inputs : Filtered(ts) \in Seq(TokenType)

Leaf(token, i) == [rule |-> token, at |-> i, kids |-> << >>]
Node(call)     == [rule |-> call.rule, at |-> call.at, kids |-> call.kids]
Nil            == [rule |-> "nil", at |-> 0, kids |-> << >>]

\* A call from here: the function, what it has so far and what is left of it, and
\* whether its nil is kept.
Called(rule, kept) ==
    [rule |-> rule, at |-> at, kids |-> << >>, todo |-> Rules[rule], kept |-> kept]

\* The window has eight tokens after the next one.
Peek(n) == IF n <= 8 /\ at + n <= Len(tokens) THEN tokens[at + n] ELSE "EOF"
Sees(pattern) == \A n \in DOMAIN pattern : Peek(n - 1) \in pattern[n]

Innermost == calls[Len(calls)]
Todo == Head(Innermost.todo)
At(do) == pc = "parse" /\ Innermost.todo # << >> /\ Todo.do = do

ParserInit ==
    /\ \E ts \in Inputs : tokens = Filtered(ts)
    /\ at = 1
    /\ calls = <<Called("Module", FALSE)>>
    /\ reported = FALSE
    /\ pc = "parse"

-----------------------------------------------------------------------------

\* The last of these callers is given what its call returned.
Given(callers, node) == [callers EXCEPT ![Len(callers)].kids = Append(@, node)]

\* nil goes up from caller to caller, to the one that makes it an interface
\* which is not nil; the calls below that one are lost.  If the call whose nil it
\* keeps had not stepped over a token, the loop will make it here again, and again.
Keeper == CHOOSE d \in DOMAIN calls :
            calls[d].kept /\ \A e \in (d + 1)..Len(calls) : ~calls[e].kept

Fail ==
    IF \E d \in DOMAIN calls : calls[d].kept
    THEN /\ calls' = Given(SubSeq(calls, 1, Keeper - 1), Nil)
         /\ pc' = IF calls[Keeper].at = at THEN "loops" ELSE pc
    ELSE pc' = "failed" /\ UNCHANGED calls

\* To go on with other instructions in place of this one.
Become(is) ==
    /\ calls' = [calls EXCEPT ![Len(calls)].todo = is \o Tail(@)]
    /\ UNCHANGED <<tokens, at, reported, pc>>

\* expectOneOf, when the token is one of those expected.
Advance ==
    /\ At("expect") /\ Peek(0) \in Todo.tokens
    /\ calls' = [calls EXCEPT ![Len(calls)] =
                    [@ EXCEPT !.todo = Tail(Innermost.todo),
                              !.kids = Append(Innermost.kids, Leaf(Peek(0), at))]]
    /\ at' = at + 1
    /\ UNCHANGED <<tokens, reported, pc>>

\* Mutant of Unexpected: nil without a report.
UnexpectedSilent ==
    /\ At("expect") /\ Peek(0) \notin Todo.tokens
    /\ Fail
    /\ UNCHANGED <<tokens, at, reported>>

\* expectOneOf, when it is not, or there is none.
Unexpected ==
    /\ At("expect") /\ Peek(0) \notin Todo.tokens
    /\ reported' = TRUE
    /\ Fail
    /\ UNCHANGED <<tokens, at>>

\* Mutant of Refusal: a list does not look for the end of the file.
RefusalNoEnd ==
    \/ At("report")
    \/ At("refuse") /\ tokens[at - 1] \in Todo.tokens
    \/ At("more") /\ Peek(0) = "EOF"
    \/ At("statements") /\ Peek(0) \notin DOMAIN StatementOf \cup {"EOF"}

\* The other places where nil is returned after a report.
Refusal ==
    \/ At("report")
    \/ At("refuse") /\ tokens[at - 1] \in Todo.tokens
    \/ At("items") /\ Peek(0) = "EOF"
    \/ At("more") /\ Peek(0) = "EOF"
    \/ At("statements") /\ Peek(0) \notin DOMAIN StatementOf \cup {"EOF"}

Refused ==
    /\ Refusal
    /\ reported' = TRUE
    /\ Fail
    /\ UNCHANGED <<tokens, at>>

\* parseUID returns nil without one.
Dropped ==
    /\ At("drop") /\ tokens[at - 1] \in Todo.tokens
    /\ Fail
    /\ UNCHANGED <<tokens, at, reported>>

\* A literal that is right.
Passed ==
    /\ At("refuse") \/ At("drop")
    /\ tokens[at - 1] \notin Todo.tokens
    /\ Become(<< >>)

\* A parse function is called, and returns what it has.
Enter ==
    /\ At("call") \/ At("kept")
    /\ calls' = Append([calls EXCEPT ![Len(calls)].todo = Tail(@)],
                       Called(Todo.rule, Todo.do = "kept"))
    /\ UNCHANGED <<tokens, at, reported, pc>>

Return ==
    /\ pc = "parse" /\ Innermost.todo = << >> /\ Len(calls) > 1
    /\ calls' = Given(Front(calls), Node(Innermost))
    /\ UNCHANGED <<tokens, at, reported, pc>>

\* What to do depends on the next tokens.
Choose ==
    \/ At("if") /\ Become(IF Sees(Todo.pattern) THEN Todo.then ELSE Todo.else)
    \/ At("ahead") /\ Become(IF Peek(Todo.at) = Todo.token THEN Todo.then ELSE Todo.else)
    \/ At("while") /\ Become(IF Sees(Todo.pattern) THEN Append(Todo.body, Todo) ELSE << >>)
    \/ At("switch") /\ \E case \in Todo.cases : Peek(0) \in case.tokens /\ Become(case.then)
    \/ /\ At("switch") /\ \A case \in Todo.cases : Peek(0) \notin case.tokens
       /\ Become(Todo.default)

\* Mutant of ListStep: no comma is asked for.
ListStepLoose ==
    \/ /\ At("items") /\ Peek(0) # "EOF"
       /\ Become(IF Peek(0) = Todo.close THEN <<One(Todo.close)>>
                 ELSE <<Call(Todo.rule), More(Todo.rule, Todo.close)>>)
    \/ /\ At("more") /\ Peek(0) # "EOF"
       /\ Become(IF Peek(0) = Todo.close THEN <<One(Todo.close)>>
                 ELSE <<When(<<{","}>>, <<One(",")>>), Items(Todo.rule, Todo.close)>>)

\* Mutant of ListStep: a value must follow a comma.
ListStepStrict ==
    \/ /\ At("items") /\ Peek(0) # "EOF"
       /\ Become(IF Peek(0) = Todo.close THEN <<One(Todo.close)>>
                 ELSE <<Call(Todo.rule), More(Todo.rule, Todo.close)>>)
    \/ /\ At("more") /\ Peek(0) # "EOF"
       /\ Become(IF Peek(0) = Todo.close THEN <<One(Todo.close)>>
                 ELSE <<One(","), Call(Todo.rule), More(Todo.rule, Todo.close)>>)

\* A comma-separated list: at a value or the end, and at a comma or the end.
ListStep ==
    \/ /\ At("items") /\ Peek(0) # "EOF"
       /\ Become(IF Peek(0) = Todo.close THEN <<One(Todo.close)>>
                 ELSE <<Call(Todo.rule), More(Todo.rule, Todo.close)>>)
    \/ /\ At("more") /\ Peek(0) # "EOF"
       /\ Become(IF Peek(0) = Todo.close THEN <<One(Todo.close)>>
                 ELSE <<One(","), Items(Todo.rule, Todo.close)>>)

\* The loop over the elements of a block, which does not look for an end of file.
ElementStep ==
    /\ At("elements")
    /\ Become(IF Peek(0) = "}" THEN <<One("}")>> ELSE <<Call(Todo.rule), Todo>>)

\* The loop of ParseModule.
StatementStep ==
    /\ At("statements")
    /\ \/ Peek(0) = "EOF" /\ Become(<< >>)
       \/ Peek(0) \in DOMAIN StatementOf /\ Become(<<Call(StatementOf[Peek(0)]), Todo>>)

\* ParseModule returns the module.
Parsed ==
    /\ pc = "parse" /\ Innermost.todo = << >> /\ Len(calls) = 1
    /\ pc' = "parsed"
    /\ UNCHANGED <<tokens, at, calls, reported>>

ParserNext ==
    \/ Advance \/ Unexpected \/ Refused \/ Dropped \/ Passed \/ Enter \/ Return
    \/ Choose \/ ListStep \/ ElementStep \/ StatementStep \/ Parsed

ParserSpec == ParserInit /\ [][ParserNext]_parserVars

Tree == Node(calls[1])

Uses(words) == \E i \in DOMAIN tokens : tokens[i] \in words

-----------------------------------------------------------------------------

\* A module that is not returned was complained about: either to the Reporter, or
\* the parser has met the one number that a UID must not be.  A loop without end is
\* one over the elements of a struct, and comes only after a report.
FailedIsReported ==
    /\ pc = "failed" => reported \/ Uses({"Incomplete"})
    /\ pc = "loops" => reported /\ Uses({"struct"})
=============================================================================
