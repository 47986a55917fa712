---------------------------- MODULE MCMicroglot -------------------------------
(***************************************************************************)
(* SubCompilerMicroglot on modules that use each rule of the grammar, and  *)
(* on what is left of them when a token is dropped, added or changed, or   *)
(* the file ends early.                                                    *)
(***************************************************************************)
EXTENDS Documented, Expressions

MCHalf == [w \in Widths |-> CASE w = 8 -> 2 [] w = 16 -> 4 [] w = 32 -> 8 [] w = 64 -> 16]

Syntax == <<"syntax", "=", "Text">>
UIDOne == <<"@", "One">>
TypeT  == <<":", "Identifier">>

\* module = @1 $(Protobuf.Package("..."))
Meta == <<"module", "=", "@", "One">>
Annotated == <<"module", "=", "@", "Two", "$", "(", "Protobuf", ".", "Package", "(", "Text", ")",
               ")", "Comment">>

FirstSamples == {
  <<"Comment">> \o Syntax \o Annotated \o <<";">> \o Meta,
  Syntax \o Meta \o Annotated}

Samples == {
  Syntax \o Meta \o <<"import", "Text", "as", ".", "import", "Text", "as", "Identifier", "Comment">>,
  Syntax \o Meta \o <<"annotation", "Identifier", "(", "struct", ",", "*", ")">> \o TypeT \o UIDOne
    \o <<"Comment", "Comment">>,
  \* const x :T = ((1 + -x.y) == [1.0, 0x"",]) $(a({x: true}), a.b("",))
  Syntax \o Meta \o <<"const", "Identifier">> \o TypeT \o
    <<"=", "(", "(", "One", "+", "-", "Identifier", ".", "Identifier", ")", "==",
      "[", "Float", ",", "Data", ",", "]", ")",
      "$", "(", "Identifier", "(", "{", "Identifier", ":", "true", "}", ")", ",",
      "Identifier", ".", "Identifier", "(", "Text", ")", ")">>,
  Syntax \o Meta \o <<"enum", "Identifier", "{", "Comment", "Identifier", "@", "Two", "Identifier",
    "Identifier", "@", "One", "}">>,
  Syntax \o Meta \o <<"enum", "Identifier", "{", "Identifier", "@", "One", "Identifier", "@", "Zero",
    "}", "@", "Two">>,
  \* struct A<:T> { x :M.T = 1 @1 union u { y :T @2 } z :T union v { w :T } }
  Syntax \o Meta \o <<"struct", "Identifier", "<", ":", "Identifier", ">", "{",
    "Identifier", ":", "Identifier", ".", "Identifier", "=", "One", "@", "One",
    "union", "Identifier", "{", "Identifier">> \o TypeT \o <<"@", "Two", "}",
    "Identifier">> \o TypeT \o <<"union", "Identifier", "{", "Identifier">> \o TypeT \o <<"}", "}">>,
  Syntax \o Meta \o <<"api", "Identifier", "extends", "(">> \o TypeT \o <<",", ")", "{", "Identifier",
    "(">> \o TypeT \o <<")", "returns", "(">> \o TypeT \o <<")", "Comment", "}">>,
  Syntax \o Meta \o <<"sdk", "Identifier", "{", "Identifier", "(", "Identifier">> \o TypeT \o
    <<")", "nothrows", "Identifier", "(", ")", "returns", "(">> \o TypeT \o <<")", "}">>}

Implementation(methods) ==
  Syntax \o Meta \o <<"impl", "Identifier", "as", "(">> \o TypeT \o <<")", "{">> \o methods \o <<"}">>

Method(steps) == Implementation(<<"Identifier", "(", ")", "{">> \o steps \o <<"}">>)

Implementations == {
  Implementation(<<"requires", "{", "Identifier">> \o TypeT \o <<"}", "Identifier", "(">> \o TypeT \o
    <<")", "returns", "(">> \o TypeT \o <<")", "{", "Prose", "}">>),
  Implementation(<<"Identifier", "(", "Identifier">> \o TypeT \o <<")", "returns", "(">> \o TypeT \o
    <<")", "nothrows", "{", "return", "One", "}">>),
  \* exec $.f(1,) catch e {} exec async f() throw x
  Method(<<"exec", "$", ".", "Identifier", "(", "One", ",", ")", "catch", "Identifier", "{", "}",
    "exec", "async", "Identifier", "(", ")", "throw", "Identifier">>),
  \* if (x == 1) { return } else if (x == 2) {} while (x != 1) {}
  Method(<<"if", "(", "Identifier", "==", "One", ")", "{", "return", "}",
    "else", "if", "(", "Identifier", "==", "Two", ")", "{", "}",
    "while", "(", "Identifier", "!=", "One", ")", "{", "}">>),
  Method(<<"switch", "Identifier", "{", "case", "One", "{", "}", "default", "{", "}", "}",
    "for", "Identifier", ",", "Identifier", "in", "Identifier", "{", "}">>),
  Method(<<"set", "Identifier", ".", "Identifier", "=", "await", "Identifier", "catch", "Identifier",
    "{", "}", "var", "Identifier", "=", "One">>)}

\* What comes of a sequence when something is wrong at one place from the given
\* one on.
Edits(ts, from, probes) ==
    LET places == from..Len(ts) IN
    {ts} \cup {SubSeq(ts, 1, i - 1) : i \in places}
         \cup {RemoveAt(ts, i) : i \in places}
         \cup {InsertAt(ts, i, t) : i \in places, t \in probes}
         \cup {[ts EXCEPT ![i] = t] : i \in places, t \in probes}

AllEdits(samples, from, probes) == UNION {Edits(ts, from, probes) : ts \in samples}

\* All but the first samples begin with the same seven tokens.
MCInputs ==
    AllEdits(FirstSamples, 1, {"Identifier", "}", ",", "Comment", "Overlong", "Incomplete", ":"})
    \cup AllEdits(Samples, 8, {"Identifier", "}", ",", "Comment", "Overlong", "Incomplete"})
    \cup AllEdits(Implementations, 8, {"Identifier", "}", ",", "Comment"})

=============================================================================
