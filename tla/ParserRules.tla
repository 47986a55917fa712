---------------------------- MODULE ParserRules ------------------------------
(***************************************************************************)
(* What the functions of the mglot parser do                               *)
(* (internal/compiler/microglot/parser_microglot.go), as data: one         *)
(* definition per parse function, which lists the tokens it expects and    *)
(* the functions it calls.  Module Parser runs these lists.                *)
(*                                                                         *)
(* A token is its type; punctuation and keywords are written as they are.  *)
(* "EOF" stands for no token.  Identifiers are the two names that the      *)
(* conversion looks for, and others.  Integers are three numbers, the one  *)
(* that means "to be completed", and one that does not fit in 64 bits.     *)
(***************************************************************************)
EXTENDS Naturals, Sequences

Identifiers   == {"Identifier", "Protobuf", "Package"}
IntegerTokens == {"Zero", "One", "Two", "Incomplete", "Overlong"}
FloatTokens   == {"Float", "Malformed"}

\* What the lexer gives, but for the newlines and semicolons that the parser drops.
TokenType ==
    Identifiers \cup IntegerTokens \cup FloatTokens
    \cup {"Unknown", "Text", "Data", "Comment", "Prose"}
    \cup {"{", "}", "[", "]", "(", ")", "<", ">", ".", ",", ":", "$", "@", "=", "?", "'", "~",
           "+", "-", "*", "/", "%", "^", "!", "&", "|", "&&", "||", "==", "!=", "<=", ">=",
           "+=", "-=", "*=", "/="}
    \cup {"import", "as", "const", "annotation", "struct", "field", "union", "enum", "enumerant",
           "interface", "api", "method", "sdk", "impl", "module", "syntax", "extends", "throws",
           "nothrows", "returns", "throw", "catch", "return", "switch", "default", "var", "for",
           "in", "while", "set", "requires", "case", "if", "else", "true", "false", "async",
           "await", "exec"}

(* Instructions.  A pattern is a sequence of sets, for the next tokens.    *)

Expect(tokens)      == [do |-> "expect", tokens |-> tokens]
One(token)          == Expect({token})
Name                == Expect(Identifiers)
Call(rule)          == [do |-> "call", rule |-> rule]
If(pattern, is, js) == [do |-> "if", pattern |-> pattern, then |-> is, else |-> js]
While(pattern, is)  == [do |-> "while", pattern |-> pattern, body |-> is]
For(tokens, is)     == [tokens |-> tokens, then |-> is]
Switch(cases, is)   == [do |-> "switch", cases |-> cases, default |-> is]

\* Depending on the token that is so many tokens ahead.
Ahead(n, token, is, js) == [do |-> "ahead", at |-> n, token |-> token, then |-> is, else |-> js]

When(pattern, is)  == If(pattern, is, << >>)
Maybe(token, rule) == When(<<{token}>>, <<Call(rule)>>)

\* A call whose nil becomes an interface that is not nil.
Kept(rule) == [do |-> "kept", rule |-> rule]

\* To report and return nil; the same, or only the latter, for some last token.
Report         == [do |-> "report"]
Refuse(tokens) == [do |-> "refuse", tokens |-> tokens]
Drop(tokens)   == [do |-> "drop", tokens |-> tokens]

\* applyOverCommaSeparatedList, from where a value or the end may come, and
\* from where a comma or the end may.
Items(rule, close)       == [do |-> "items", rule |-> rule, close |-> close]
More(rule, close)        == [do |-> "more", rule |-> rule, close |-> close]
ListOf(open, rule, close) == <<One(open), Items(rule, close)>>

\* applyOverCommentedBlock, and its loop over the elements.
Elements(rule) == [do |-> "elements", rule |-> rule]
Block(rule)    == <<One("{"), Maybe("Comment", "CommentBlock"), Elements(rule)>>
BlockWithPrefix(token, prefix, rule) ==
    <<One("{"), Maybe("Comment", "CommentBlock"), Maybe(token, prefix), Elements(rule)>>

Statements == [do |-> "statements"]

-----------------------------------------------------------------------------
(* Statements.                                                             *)

Module == <<Maybe("Comment", "CommentBlock"), Call("StatementSyntax"), Statements>>

StatementOf == [
    module |-> "StatementModuleMeta", import |-> "StatementImport",
    annotation |-> "StatementAnnotation", const |-> "StatementConst",
    enum |-> "StatementEnum", struct |-> "StatementStruct",
    api |-> "StatementAPI", sdk |-> "StatementSDK", impl |-> "StatementImpl"]

StatementSyntax == <<One("syntax"), One("="), Call("ValueLiteralText")>>

StatementModuleMeta ==
    <<One("module"), One("="), Call("UID"),
      Maybe("$", "AnnotationApplication"), Maybe("Comment", "CommentBlock")>>

StatementImport ==
    <<One("import"), Call("ValueLiteralText"), One("as"), Expect(Identifiers \cup {"."}),
      Maybe("Comment", "CommentBlock")>>

StatementAnnotation ==
    <<One("annotation"), Name>> \o ListOf("(", "AnnotationScope", ")") \o
    <<Call("TypeSpecifier"), Maybe("@", "UID"), Maybe("Comment", "CommentBlock")>>

StatementConst ==
    <<One("const"), Name, Call("TypeSpecifier"), One("="), Call("Value"),
      Call("Metadata")>>

StatementEnum ==
    <<One("enum"), Name>> \o Block("Enumerant") \o <<Call("Metadata")>>

StatementStruct ==
    <<One("struct"), Call("TypeName")>> \o Block("StructElement") \o <<Call("Metadata")>>

StatementAPI ==
    <<One("api"), Call("TypeName"), Maybe("extends", "Extension")>> \o
    Block("APIMethod") \o <<Call("Metadata")>>

StatementSDK ==
    <<One("sdk"), Call("TypeName"), Maybe("extends", "Extension")>> \o
    Block("SDKMethod") \o <<Call("Metadata")>>

StatementImpl ==
    <<One("impl"), Call("TypeName"), Call("ImplAs")>> \o
    BlockWithPrefix("requires", "ImplRequires", "ImplMethod") \o <<Call("Metadata")>>

-----------------------------------------------------------------------------
(* Steps of implementations.                                               *)

StepProse == <<One("Prose")>>

ValueOrInvocation ==
    <<Switch({For({"await", "async", "$"} \cup Identifiers, <<Call("Invocation")>>)},
             <<Call("Value")>>)>>

StepVar ==
    <<One("var"), Name, When(<<{"="}>>, <<One("="), Call("ValueOrInvocation")>>)>>

StepSet ==
    <<One("set"), Call("QualifiedIdentifier"), One("="), Call("ValueOrInvocation")>>

ConditionBlock == <<Call("ValueBinary"), Call("ImplBlock")>>

\* An else is not stepped over before its block.
StepIf ==
    <<One("if"), Call("ConditionBlock"),
      While(<<{"else"}, {"if"}>>, <<One("else"), One("if"), Call("ConditionBlock")>>),
      Maybe("else", "ImplBlock")>>

\* Nor is a comma before the next value.
SwitchCase ==
    <<One("case"), Call("Value"), While(<<{","}>>, <<Call("Value")>>), Call("ImplBlock")>>

SwitchDefault == <<One("default"), Call("ImplBlock")>>

SwitchElement ==
    <<If(<<{"case"}>>, <<Call("SwitchCase")>>, <<Call("SwitchDefault")>>)>>

StepSwitch == <<One("switch"), Call("Value")>> \o Block("SwitchElement")

StepWhile == <<One("while"), Call("ConditionBlock")>>

StepFor ==
    <<One("for"), Name, One(","), Name, One("in"), Call("Value"),
      Call("ImplBlock")>>

ValueStart ==
    {"+", "-", "!", "(", "true", "false", "Text", "Data", "[", "{"}
        \cup Identifiers \cup IntegerTokens \cup FloatTokens

StepReturn == <<One("return"), When(<<ValueStart>>, <<Call("Value")>>)>>

StepThrow == <<One("throw"), Call("Value")>>

InvocationCatch == <<One("catch"), Name, Call("ImplBlock")>>

InvocationAwait == <<One("await"), Name, Maybe("catch", "InvocationCatch")>>

ImplIdentifier == <<When(<<{"$"}>>, <<One("$"), One(".")>>), Call("QualifiedIdentifier")>>

InvocationAsync ==
    <<One("async"), Call("ImplIdentifier")>> \o ListOf("(", "Value", ")")

InvocationDirect ==
    <<Call("ImplIdentifier")>> \o ListOf("(", "Value", ")") \o
    <<Maybe("catch", "InvocationCatch")>>

\* Any other token leaves it empty.
Invocation ==
    <<Switch({For({"EOF"}, <<Report>>),
              For({"await"}, <<Call("InvocationAwait")>>),
              For({"async"}, <<Call("InvocationAsync")>>),
              For({"$"} \cup Identifiers, <<Call("InvocationDirect")>>)}, << >>)>>

StepExec == <<One("exec"), Call("Invocation")>>

ImplBlockStep ==
    <<Switch({For({"Prose"}, <<Kept("StepProse")>>), For({"var"}, <<Kept("StepVar")>>),
              For({"set"}, <<Kept("StepSet")>>), For({"if"}, <<Kept("StepIf")>>),
              For({"switch"}, <<Kept("StepSwitch")>>), For({"while"}, <<Kept("StepWhile")>>),
              For({"for"}, <<Kept("StepFor")>>), For({"return"}, <<Kept("StepReturn")>>),
              For({"throw"}, <<Kept("StepThrow")>>), For({"exec"}, <<Kept("StepExec")>>)},
             <<Report>>)>>

ImplBlock == Block("ImplBlockStep")

-----------------------------------------------------------------------------
(* Parts of implementations, SDKs and APIs.                                *)

ImplAPIMethod ==
    <<Name, Call("APIMethodInput"), Call("APIMethodReturns"), Call("ImplBlock"),
      Call("Metadata")>>

ImplSDKMethod ==
    <<Name, Call("SDKMethodInput"), Maybe("returns", "SDKMethodReturns"),
      When(<<{"nothrows"}>>, <<One("nothrows")>>), Call("ImplBlock"), Call("Metadata")>>

\* Two tokens ahead, a colon tells a type from the name of a parameter.
ImplMethod ==
    <<Ahead(2, ":", <<Call("ImplAPIMethod")>>, <<Call("ImplSDKMethod")>>)>>

ImplRequirement ==
    <<Name, Call("TypeSpecifier"), Maybe("Comment", "CommentBlock")>>

ImplRequires == <<One("requires")>> \o Block("ImplRequirement")

ImplAs == <<One("as")>> \o ListOf("(", "TypeSpecifier", ")")

SDKMethodInput == ListOf("(", "SDKMethodParameter", ")")

SDKMethodReturns == <<One("returns"), One("("), Call("TypeSpecifier"), One(")")>>

SDKMethod ==
    <<Name, Call("SDKMethodInput"), Maybe("returns", "SDKMethodReturns"),
      When(<<{"nothrows"}>>, <<One("nothrows")>>), Call("Metadata")>>

SDKMethodParameter == <<Name, Call("TypeSpecifier")>>

Extension == <<One("extends")>> \o ListOf("(", "TypeSpecifier", ")")

APIMethodInput == <<One("("), Call("TypeSpecifier"), One(")")>>

APIMethodReturns == <<One("returns"), One("("), Call("TypeSpecifier"), One(")")>>

APIMethod ==
    <<Name, Call("APIMethodInput"), Call("APIMethodReturns"), Call("Metadata")>>

-----------------------------------------------------------------------------
(* Fields, metadata, types.                                                *)

StructElement == <<If(<<{"union"}>>, <<Kept("Union")>>, <<Kept("Field")>>)>>

Union ==
    <<One("union"), When(<<Identifiers>>, <<Name>>)>> \o
    Block("UnionField") \o <<Call("Metadata")>>

UnionField == <<Name, Call("TypeSpecifier"), Call("Metadata")>>

Field ==
    <<Name, Call("TypeSpecifier"),
      When(<<{"="}>>, <<One("="), Call("Value")>>), Call("Metadata")>>

Metadata ==
    <<Maybe("@", "UID"), Maybe("$", "AnnotationApplication"), Maybe("Comment", "CommentBlock")>>

AnnotationScope ==
    <<Expect({"module", "union", "struct", "field", "enumerant", "enum", "api", "sdk", "const",
              "*"})>>

TypeSpecifier ==
    <<One(":"), Ahead(1, ".", <<Name, One(".")>>, << >>), Call("TypeName")>>

TypeName ==
    <<Name, When(<<{"<"}>>, ListOf("<", "TypeSpecifier", ">"))>>

CommentBlock == <<One("Comment"), While(<<{"Comment"}>>, <<One("Comment")>>)>>

AnnotationApplication == <<One("$")>> \o ListOf("(", "AnnotationInstance", ")")

AnnotationInstance ==
    <<Name,
      If(<<{"."}>>, <<One("."), Name, One("(")>>, <<Expect({".", "("})>>),
      Call("Value"), One(")")>>

\* MaxUint64 is not allowed, but not reported either.
UID == <<One("@"), Call("ValueLiteralInt"), Drop({"Incomplete"})>>

Enumerant == <<Name, Call("Metadata")>>

-----------------------------------------------------------------------------
(* Values.                                                                 *)

Value ==
    <<Switch({For({"+", "-", "!"}, <<Call("ValueUnary")>>),
              For({"("}, <<Call("ValueBinary")>>),
              For({"true", "false"}, <<Call("ValueLiteralBool")>>),
              For(IntegerTokens, <<Call("ValueLiteralInt")>>),
              For(FloatTokens, <<Call("ValueLiteralFloat")>>),
              For({"Text"}, <<Call("ValueLiteralText")>>),
              For({"Data"}, <<Call("ValueLiteralData")>>),
              For({"["}, <<Call("ValueLiteralList")>>),
              For({"{"}, <<Call("ValueLiteralStruct")>>),
              For(Identifiers, <<Call("ValueIdentifier")>>)}, <<Report>>)>>

ValueUnary == <<Expect({"+", "-", "!"}), Call("Value")>>

BinaryOperators ==
    {"==", "!=", "<=", ">=", "&", "|", "&&", "||", "^", "+", "-", "/", "*", "%"}

ValueBinary ==
    <<One("("), Call("Value"), Expect(BinaryOperators), Call("Value"), One(")")>>

ValueLiteralBool  == <<Expect({"true", "false"})>>
ValueLiteralInt   == <<Expect(IntegerTokens), Refuse({"Overlong"})>>
ValueLiteralFloat == <<Expect(FloatTokens), Refuse({"Malformed"})>>
ValueLiteralText  == <<One("Text")>>
ValueLiteralData  == <<One("Data")>>
ValueLiteralList  == ListOf("[", "Value", "]")

ValueLiteralStruct == ListOf("{", "LiteralStructPair", "}")

LiteralStructPair == <<Name, One(":"), Call("Value")>>

ValueIdentifier == <<Call("QualifiedIdentifier")>>

QualifiedIdentifier ==
    <<Name, While(<<{"."}>>, <<One("."), Name>>)>>

-----------------------------------------------------------------------------

\* The functions by name.
Rules == [
  Module |-> Module, StatementSyntax |-> StatementSyntax,
  StatementModuleMeta |-> StatementModuleMeta, StatementImport |-> StatementImport,
  StatementAnnotation |-> StatementAnnotation, StatementConst |-> StatementConst,
  StatementEnum |-> StatementEnum, StatementStruct |-> StatementStruct,
  StatementAPI |-> StatementAPI, StatementSDK |-> StatementSDK,
  StatementImpl |-> StatementImpl, StepProse |-> StepProse,
  ValueOrInvocation |-> ValueOrInvocation, StepVar |-> StepVar, StepSet |-> StepSet,
  ConditionBlock |-> ConditionBlock, StepIf |-> StepIf, SwitchCase |-> SwitchCase,
  SwitchDefault |-> SwitchDefault, SwitchElement |-> SwitchElement,
  StepSwitch |-> StepSwitch, StepWhile |-> StepWhile, StepFor |-> StepFor,
  StepReturn |-> StepReturn, StepThrow |-> StepThrow, InvocationCatch |-> InvocationCatch,
  InvocationAwait |-> InvocationAwait, ImplIdentifier |-> ImplIdentifier,
  InvocationAsync |-> InvocationAsync, InvocationDirect |-> InvocationDirect,
  Invocation |-> Invocation, StepExec |-> StepExec, ImplBlockStep |-> ImplBlockStep,
  ImplBlock |-> ImplBlock, ImplAPIMethod |-> ImplAPIMethod, ImplSDKMethod |-> ImplSDKMethod,
  ImplMethod |-> ImplMethod, ImplRequirement |-> ImplRequirement,
  ImplRequires |-> ImplRequires, ImplAs |-> ImplAs, SDKMethodInput |-> SDKMethodInput,
  SDKMethodReturns |-> SDKMethodReturns, SDKMethod |-> SDKMethod,
  SDKMethodParameter |-> SDKMethodParameter, Extension |-> Extension,
  APIMethodInput |-> APIMethodInput, APIMethodReturns |-> APIMethodReturns,
  APIMethod |-> APIMethod, StructElement |-> StructElement, Union |-> Union,
  UnionField |-> UnionField, Field |-> Field, Metadata |-> Metadata,
  AnnotationScope |-> AnnotationScope, TypeSpecifier |-> TypeSpecifier,
  TypeName |-> TypeName, CommentBlock |-> CommentBlock,
  AnnotationApplication |-> AnnotationApplication,
  AnnotationInstance |-> AnnotationInstance, UID |-> UID, Enumerant |-> Enumerant,
  Value |-> Value, ValueUnary |-> ValueUnary, ValueBinary |-> ValueBinary,
  ValueLiteralBool |-> ValueLiteralBool, ValueLiteralInt |-> ValueLiteralInt,
  ValueLiteralFloat |-> ValueLiteralFloat, ValueLiteralText |-> ValueLiteralText,
  ValueLiteralData |-> ValueLiteralData, ValueLiteralList |-> ValueLiteralList,
  ValueLiteralStruct |-> ValueLiteralStruct, LiteralStructPair |-> LiteralStructPair,
  ValueIdentifier |-> ValueIdentifier, QualifiedIdentifier |-> QualifiedIdentifier]
=============================================================================
