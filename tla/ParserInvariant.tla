--------------------------- MODULE ParserInvariant ---------------------------
(***************************************************************************)
(* The inductive invariant that the safety properties of Parser and        *)
(* SubCompilerMicroglot follow from: which instructions can be left to do  *)
(* in a call, how far the parser has come since, and what the nodes of a   *)
(* struct consist of.  The proofs are in ParserProofs.                     *)
(***************************************************************************)
EXTENDS SubCompilerMicroglot

-----------------------------------------------------------------------------
(* Instructions that use the functions R.                                  *)

\* An instruction without others in it.
Plain(R) ==
         [do : {"expect"}, tokens : SUBSET TokenType]
    \cup [do : {"call", "elements"}, rule : R]
    \cup [do : {"items", "more"}, rule : R, close : TokenType]
    \cup [do : {"report", "statements"}]
    \cup [do : {"refuse"}, tokens : SUBSET TokenType]
    \cup [do : {"drop"}, tokens : {{"Incomplete"}}]

\* The steps of an implementation.  Each begins with the token it is chosen by.
Steps == {"StepProse", "StepVar", "StepSet", "StepIf", "StepSwitch", "StepWhile", "StepFor",
          "StepReturn", "StepThrow", "StepExec"}
First(rule) == Rules[rule][1].tokens

\* One case of a switch.
Case(R) ==
    [tokens : SUBSET (TokenType \cup {"EOF"}), then : Seq(Plain(R))]
        \cup {For(First(step), <<Kept(step)>>) : step \in Steps}

\* What the parse functions consist of.
Body(R) ==
    Plain(R)
    \cup [do : {"if"}, pattern : Seq(SUBSET TokenType), then : Seq(Plain(R)), else : Seq(Plain(R))]
    \cup [do : {"ahead"}, at : Nat, token : TokenType, then : Seq(Plain(R)), else : Seq(Plain(R))]
    \cup [do : {"while"}, pattern : Seq(SUBSET TokenType), body : Seq(Plain(R))]
    \cup [do : {"switch"}, cases : SUBSET Case(R), default : Seq(Plain(R))]
    \cup {element \in {StructElement[1]} : {"Union", "Field"} \subseteq R}

-----------------------------------------------------------------------------

\* The functions for structs are called only if there is one.
StructRules == {"StatementStruct", "StructElement", "Union", "Field"}
Callable    == IF Uses({"struct"}) THEN DOMAIN Rules ELSE DOMAIN Rules \ StructRules

\* The calls that keep a nil: of a field, or of what begins with the next token.
Ready ==
    {Kept(rule) : rule \in {r \in (Steps \cup {"Union", "Field"}) \cap Callable :
                              r = "Field" \/ Peek(0) \in First(r)}}

-----------------------------------------------------------------------------
(* Nodes.                                                                  *)

IsSeq(s) == s \in Seq(ToSet(s))

\* A nil that was kept was complained about.
Excused == reported \/ Uses({"Incomplete"})

\* The nodes that names are taken from, and their names.
Named == Identifiers \cup {"Field", "UnionField"}

\* What has a name in this node, two levels down, begins before token b.
NameBefore(n, b) == n.rule \in Named => n.at \in 1..(b - 1)
Before(n, b) ==
    /\ NameBefore(n, b)
    /\ \A i \in DOMAIN n.kids :
          /\ NameBefore(n.kids[i], b)
          /\ \A j \in DOMAIN n.kids[i].kids : NameBefore(n.kids[i].kids[j], b)

\* The names in a node come before the next node begins.
Ordered(kids) ==
    /\ \A i \in DOMAIN kids : kids[i].at \in Nat
    /\ \A i, j \in DOMAIN kids : i < j /\ kids[j].rule # "nil" => Before(kids[i], kids[j].at)

\* A field is called what it begins with.
SoundField(n) ==
    /\ IsSeq(n.kids) /\ n.kids # << >>
    /\ n.kids[1].rule \in Identifiers /\ n.kids[1].at = n.at

\* A union has a name after its first token, or a brace; and no other name.
NamedUnion(n) ==
    /\ n.kids[1].rule = "union"
    /\ \/ n.kids[2].rule \in Identifiers /\ n.kids[2].at = n.at + 1
       \/ n.kids[2].rule = "{" /\ Adjacent({"union"}, {"{"})
    /\ \A i \in 3..Len(n.kids) :
          /\ n.kids[i].rule \notin Identifiers
          /\ n.kids[i].rule = "UnionField" => SoundField(n.kids[i])

SoundUnion(n) == IsSeq(n.kids) /\ Len(n.kids) >= 2 /\ NamedUnion(n) /\ Ordered(n.kids)

\* An element of a struct is a field, a union, or a nil.
SoundMember(e, from) ==
    \/ e.rule = "nil" /\ Excused
    \/ e.rule = "Field" /\ SoundField(e) /\ e.at = from
    \/ e.rule = "Union" /\ SoundUnion(e) /\ e.at = from

SoundElement(n) == IsSeq(n.kids) /\ Len(n.kids) = 1 /\ SoundMember(n.kids[1], n.at)

SoundStruct(n) ==
    /\ IsSeq(n.kids) /\ Ordered(n.kids)
    /\ \A i \in DOMAIN n.kids : n.kids[i].rule = "StructElement" => SoundElement(n.kids[i])

Sound(n) ==
    /\ n.rule \in {"Field", "UnionField"} => SoundField(n)
    /\ n.rule = "Union" => SoundUnion(n)
    /\ n.rule = "StructElement" => SoundElement(n)
    /\ n.rule = "StatementStruct" => SoundStruct(n)

-----------------------------------------------------------------------------
(* Calls.                                                                  *)

IsCall(c) ==
    /\ c = [rule |-> c.rule, at |-> c.at, kids |-> c.kids, todo |-> c.todo, kept |-> c.kept]
    /\ c.rule \in Callable /\ c.at \in 1..at
    /\ c.kept \in BOOLEAN
    /\ c.kept => c.rule \in Steps \cup {"Union", "Field"}

\* What a call has so far.
SoundCall(c) ==
    /\ IsSeq(c.kids) /\ Ordered(c.kids)
    /\ \A i \in DOMAIN c.kids : Sound(c.kids[i])

\* The functions that begin with a token.  It is stepped over before anything else.
Starting == Steps \cup {"Union", "Field", "UnionField"}
Started(c) ==
    c.kids # << >> /\ c.kids[1].rule \in First(c.rule) /\ c.kids[1].at = c.at /\ c.at < at

\* What can be left of a union after its name.
UnionLeft ==
    LET left == Tail(Tail(Union)) IN
    {left, Tail(left), <<Call("CommentBlock")>> \o Tail(Tail(left)), Tail(Tail(left)),
     <<Call("UnionField"), Elements("UnionField"), Call("Metadata")>>,
     <<One("}"), Call("Metadata")>>, <<Call("Metadata")>>, << >>}

\* A call that waits for another, d.
Waiting(c, d) ==
    /\ c.at <= d.at
    /\ \A i \in DOMAIN c.kids : Before(c.kids[i], d.at)
    /\ c.todo \in Seq(Body(Callable))
    /\ c.rule \in Starting => Started(c)
    /\ c.rule = "Union" => Len(c.kids) >= 2 /\ NamedUnion(c) /\ c.todo \in UnionLeft
    /\ c.rule = "StructElement" =>
          c.todo = << >> /\ c.kids = << >> /\ d.rule \in {"Union", "Field"} /\ d.at = c.at

\* A union, and an element of a struct, in the innermost call.
UnionAtWork(c) ==
    \/ /\ Len(c.kids) = 1 /\ at = c.at + 1 /\ tokens[c.at] = "union" /\ c.kids[1].rule = "union"
       /\ c.todo \in {Tail(Union), <<Name>> \o Tail(Tail(Union)), Tail(Tail(Union))}
    \/ Len(c.kids) >= 2 /\ NamedUnion(c) /\ c.todo \in UnionLeft

ElementAtWork(c) ==
    \/ /\ c.kids = << >> /\ c.at = at
       /\ c.todo \in {StructElement, <<Kept("Union")>>, <<Kept("Field")>>}
    \/ c.todo = << >> /\ Len(c.kids) = 1 /\ SoundMember(c.kids[1], c.at)

\* A function that has not begun, at the token that it is for.
NotStarted(c) ==
    /\ c.kids = << >> /\ c.todo = Rules[c.rule] /\ c.at = at
    /\ c.kept /\ c.rule # "Field" => Peek(0) \in First(c.rule)

\* The innermost call.  One that keeps a nil is the next instruction, or not there yet.
Working(c) ==
    /\ \A i \in DOMAIN c.kids : Before(c.kids[i], at)
    /\ c.todo \in Seq(Body(Callable) \cup Ready)
    /\ c.todo # << >> => Tail(c.todo) \in Seq(Body(Callable))
    /\ c.rule \in Starting => Started(c) \/ NotStarted(c)
    /\ c.rule = "Union" /\ c.kids # << >> => UnionAtWork(c)
    /\ c.rule = "StructElement" => ElementAtWork(c)

Calls ==
    /\ IsSeq(calls) /\ calls # << >>
    /\ \A d \in DOMAIN calls : IsCall(calls[d]) /\ SoundCall(calls[d])
    /\ calls[1].rule = "Module" /\ ~calls[1].kept
    /\ \A d \in 1..(Len(calls) - 1) : Waiting(calls[d], calls[d + 1])
    /\ Working(Innermost)

\* Before the first token is stepped over, there was little to do.
Begun ==
    at = 1 =>
      \/ /\ Len(calls) = 1
         /\ Innermost.todo \in {Module, <<Call("CommentBlock")>> \o Tail(Module), Tail(Module)}
      \/ Len(calls) = 2 /\ Innermost.todo \in {CommentBlock, StatementSyntax}

ParserInvariant ==
    /\ tokens \in Seq(TokenType)
    /\ at \in 1..(Len(tokens) + 1)
    /\ pc \in {"parse", "parsed", "failed", "loops"}
    /\ pc = "parse" => Begun
    /\ pc \in {"parse", "parsed"} => Calls
    /\ FailedIsReported

\* What was converted was parsed.
Inductive ==
    /\ ParserInvariant
    /\ outcome \in {"none", "parse failure", "error", "module", "panic"}
    /\ outcome # "none" => pc \in {"parsed", "failed"}
    /\ BrokenAfterReport
    /\ FieldsInTheirUnions
=============================================================================
