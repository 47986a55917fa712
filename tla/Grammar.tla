------------------------------ MODULE Grammar --------------------------------
(***************************************************************************)
(* The grammar that the comments of parser_microglot.go state, one comment *)
(* for each parse function, and what it means for tokens to be derived     *)
(* from it.  It is what Parser is compared with; it models no code.        *)
(***************************************************************************)
EXTENDS Naturals, Sequences, FiniteSets, FiniteSetsExt

T(tokens)  == [is |-> "token", tokens |-> tokens]
K(token)   == T({token})
N(rule)    == [is |-> "rule", rule |-> rule]
Seq_(es)   == [is |-> "seq", parts |-> es]
Alt(es)    == [is |-> "alt", parts |-> es]
Opt(e)     == [is |-> "opt", body |-> e]
Rep(e)     == [is |-> "rep", body |-> e]

Id      == T({"Identifier", "Protobuf", "Package"})
IntLit  == T({"Zero", "One", "Two", "Incomplete", "Overlong"})

\* x {comma x} [comma]
Commas(e) == Seq_(<<e, Rep(Seq_(<<K(","), e>>)), Opt(K(","))>>)
Braces(e) == Seq_(<<K("{"), Opt(N("CommentBlock")), Rep(e), K("}")>>)

Comments_ == Opt(N("CommentBlock"))

Grammar == [
  Module |-> Seq_(<<Comments_, N("StatementSyntax"), Rep(N("Statement"))>>),
  Statement |-> Alt({N("StatementModuleMeta"), N("StatementImport"), N("StatementAnnotation"),
      N("StatementConst"), N("StatementEnum"), N("StatementStruct"), N("StatementAPI"),
      N("StatementSDK"), N("StatementImpl")}),
  StatementSyntax |-> Seq_(<<K("syntax"), K("="), K("Text")>>),
  StatementModuleMeta |-> Seq_(<<K("module"), K("="), N("UID"),
      Opt(N("AnnotationApplication")), Comments_>>),
  StatementImport |-> Seq_(<<K("import"), K("Text"), K("as"), Alt({Id, K(".")}), Comments_>>),
  StatementAnnotation |-> Seq_(<<K("annotation"), Id, K("("), Commas(N("AnnotationScope")),
      K(")"), N("TypeSpecifier"), Opt(N("UID")), Comments_>>),
  StatementConst |-> Seq_(<<K("const"), Id, N("TypeSpecifier"), K("="), N("Value"), N("Metadata")>>),
  StatementEnum |-> Seq_(<<K("enum"), Id, Braces(N("Enumerant")), N("Metadata")>>),
  StatementStruct |-> Seq_(<<K("struct"), N("TypeName"), Braces(N("StructElement")), N("Metadata")>>),
  StatementAPI |-> Seq_(<<K("api"), N("TypeName"), Opt(N("Extension")), Braces(N("APIMethod")),
      N("Metadata")>>),
  StatementSDK |-> Seq_(<<K("sdk"), N("TypeName"), Opt(N("Extension")), Braces(N("SDKMethod")),
      N("Metadata")>>),
  StatementImpl |-> Seq_(<<K("impl"), N("TypeName"), N("ImplAs"), K("{"), Comments_,
      Opt(N("ImplRequires")), Rep(N("ImplMethod")), K("}"), N("Metadata")>>),

  ValueOrInvocation |-> Alt({N("Invocation"), N("Value")}),
  ConditionBlock |-> Seq_(<<N("ValueBinary"), N("ImplBlock")>>),
  SwitchElement |-> Alt({
      Seq_(<<K("case"), N("Value"), Rep(Seq_(<<K(","), N("Value")>>)), N("ImplBlock")>>),
      Seq_(<<K("default"), N("ImplBlock")>>)}),
  InvocationCatch |-> Seq_(<<K("catch"), Id, N("ImplBlock")>>),
  ImplIdentifier |-> Seq_(<<Opt(Seq_(<<K("$"), K(".")>>)), N("QualifiedIdentifier")>>),
  Invocation |-> Alt({
      Seq_(<<K("await"), Id, Opt(N("InvocationCatch"))>>),
      Seq_(<<K("async"), N("ImplIdentifier"), K("("), Opt(Commas(N("Value"))), K(")")>>),
      Seq_(<<N("ImplIdentifier"), K("("), Opt(Commas(N("Value"))), K(")"),
             Opt(N("InvocationCatch"))>>)}),
  ImplBlockStep |-> Alt({
      K("Prose"),
      Seq_(<<K("var"), Id, N("TypeSpecifier"), Opt(Seq_(<<K("="), N("ValueOrInvocation")>>))>>),
      Seq_(<<K("set"), N("QualifiedIdentifier"), K("="), N("ValueOrInvocation")>>),
      Seq_(<<K("if"), N("ConditionBlock"), Rep(Seq_(<<K("else"), K("if"), N("ConditionBlock")>>)),
             Opt(Seq_(<<K("else"), N("ImplBlock")>>))>>),
      Seq_(<<K("switch"), N("Value"), K("{"), Rep(N("SwitchElement")), K("}")>>),
      Seq_(<<K("while"), N("ConditionBlock")>>),
      Seq_(<<K("for"), Id, K(","), Id, K("in"), N("Value"), N("ImplBlock")>>),
      Seq_(<<K("return"), Opt(N("Value"))>>),
      Seq_(<<K("throw"), N("Value")>>),
      Seq_(<<K("exec"), N("Invocation")>>)}),
  ImplBlock |-> Seq_(<<K("{"), Rep(N("ImplBlockStep")), K("}")>>),
  ImplMethod |-> Alt({
      Seq_(<<Id, N("APIMethodInput"), N("APIMethodReturns"), N("ImplBlock"), N("Metadata")>>),
      Seq_(<<Id, N("SDKMethodInput"), Opt(N("SDKMethodReturns")), Opt(K("nothrows")),
             N("ImplBlock"), N("Metadata")>>)}),
  ImplRequires |-> Seq_(<<K("requires"), Braces(N("ImplRequirement"))>>),
  ImplRequirement |-> Seq_(<<Id, N("TypeSpecifier"), Comments_>>),
  ImplAs |-> Seq_(<<K("as"), K("("), Commas(N("TypeSpecifier")), K(")")>>),

  SDKMethodInput |-> Seq_(<<K("("), Opt(Commas(Seq_(<<Id, N("TypeSpecifier")>>))), K(")")>>),
  SDKMethodReturns |-> Seq_(<<K("returns"), K("("), N("TypeSpecifier"), K(")")>>),
  SDKMethod |-> Seq_(<<Id, N("SDKMethodInput"), Opt(N("SDKMethodReturns")), Opt(K("nothrows")),
      N("Metadata")>>),
  Extension |-> Seq_(<<K("extends"), K("("), Commas(N("TypeSpecifier")), K(")")>>),
  APIMethodInput |-> Seq_(<<K("("), N("TypeSpecifier"), K(")")>>),
  APIMethodReturns |-> Seq_(<<K("returns"), K("("), N("TypeSpecifier"), K(")")>>),
  APIMethod |-> Seq_(<<Id, N("APIMethodInput"), N("APIMethodReturns"), N("Metadata")>>),
  StructElement |-> Alt({N("Field"), N("Union")}),
  Union |-> Seq_(<<K("union"), Opt(Id), Braces(N("UnionField")), N("Metadata")>>),
  UnionField |-> Seq_(<<Id, N("TypeSpecifier"), N("Metadata")>>),
  Field |-> Seq_(<<Id, N("TypeSpecifier"), Opt(Seq_(<<K("="), N("Value")>>)), N("Metadata")>>),
  Metadata |-> Seq_(<<Opt(N("UID")), Opt(N("AnnotationApplication")), Comments_>>),
  AnnotationScope |-> T({"module", "union", "struct", "field", "enumerant", "enum", "api", "sdk",
      "const", "*"}),
  TypeSpecifier |-> Seq_(<<K(":"), Opt(Seq_(<<Id, K(".")>>)), N("TypeName")>>),
  TypeName |-> Seq_(<<Id, Opt(Seq_(<<K("<"), Commas(N("TypeSpecifier")), K(">")>>))>>),
  CommentBlock |-> Seq_(<<K("Comment"), Rep(K("Comment"))>>),
  AnnotationApplication |-> Seq_(<<K("$"), K("("), Opt(N("AnnotationInstance")),
      Rep(Seq_(<<K(","), N("AnnotationInstance")>>)), Opt(K(",")), K(")")>>),
  AnnotationInstance |-> Seq_(<<Id, Opt(Seq_(<<K("."), Id>>)), K("("), N("Value"), K(")")>>),
  UID |-> Seq_(<<K("@"), IntLit>>),
  Enumerant |-> Seq_(<<Id, N("Metadata")>>),
  Value |-> Alt({
      Seq_(<<T({"+", "-", "!"}), N("Value")>>),
      N("ValueBinary"),
      T({"true", "false", "Float", "Malformed", "Text", "Data"}), IntLit,
      Seq_(<<K("["), Opt(Seq_(<<N("Value"), Rep(Seq_(<<K(","), N("Value")>>)), Rep(K(","))>>)),
             K("]")>>),
      Seq_(<<K("{"), Opt(Seq_(<<N("LiteralStructPair"), Rep(Seq_(<<K(","), N("LiteralStructPair")>>)),
             Rep(K(","))>>)), K("}")>>),
      N("QualifiedIdentifier")}),
  ValueBinary |-> Seq_(<<K("("), N("Value"),
      T({"==", "!=", "<=", ">=", "&", "|", "&&", "||", "^", "+", "/", "*", "%"}), N("Value"), K(")")>>),
  LiteralStructPair |-> Seq_(<<Id, K(":"), N("Value")>>),
  QualifiedIdentifier |-> Seq_(<<Id, Rep(Seq_(<<K("."), Id>>))>>)]

\* Where what is derived from e can end if it begins at token i.
RECURSIVE EndsOf(_, _, _), EndsOfAll(_, _, _), EndsOfMany(_, _, _, _)
EndsOf(e, ts, i) ==
    CASE e.is = "token" -> IF i <= Len(ts) /\ ts[i] \in e.tokens THEN {i + 1} ELSE {}
      [] e.is = "rule"  -> EndsOf(Grammar[e.rule], ts, i)
      [] e.is = "seq"   -> EndsOfAll(e.parts, ts, {i})
      [] e.is = "alt"   -> UNION {EndsOf(p, ts, i) : p \in e.parts}
      [] e.is = "opt"   -> {i} \cup EndsOf(e.body, ts, i)
      [] e.is = "rep"   -> EndsOfMany(e.body, ts, {i}, {i})
EndsOfAll(es, ts, starts) ==
    IF es = << >> \/ starts = {} THEN starts
    ELSE EndsOfAll(Tail(es), ts, UNION {EndsOf(Head(es), ts, i) : i \in starts})
EndsOfMany(e, ts, last, all) ==
    LET new == UNION {EndsOf(e, ts, i) : i \in last} \ all
    IN  IF new = {} THEN all ELSE EndsOfMany(e, ts, new, all \cup new)

\* The tokens are a Module.
IsDocumented(ts) == Len(ts) + 1 \in EndsOf(N("Module"), ts, 1)
=============================================================================
