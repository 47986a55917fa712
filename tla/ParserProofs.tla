---------------------------- MODULE ParserProofs -----------------------------
(***************************************************************************)
(* Inductive, of ParserInvariant, is an invariant of SubCompilerMicroglot: *)
(* whatever the tokens of a module, and whatever its types and values      *)
(* become.  The safety properties that are theorems at the end follow.     *)
(***************************************************************************)
EXTENDS ParserInvariant, SequenceTheorems, WellFoundedInduction, TLAPS

\* Short sequences.
LEMMA ShortSequences ==
  ASSUME NEW S
  PROVE  /\ << >> \in Seq(S)
         /\ \A x \in S : <<x>> \in Seq(S)
         /\ \A x, y \in S : <<x, y>> \in Seq(S)
         /\ \A x, y, z \in S : <<x, y, z>> \in Seq(S)
         /\ \A x, y, z, w \in S : <<x, y, z, w>> \in Seq(S)
OBVIOUS

\* A longer one.
LEMMA SevenOfThem ==
  ASSUME NEW S, NEW a \in S, NEW b \in S, NEW c \in S, NEW d \in S, NEW e \in S,
         NEW f \in S, NEW g \in S
  PROVE  <<a, b, c, d, e, f, g>> \in Seq(S)
OBVIOUS

-----------------------------------------------------------------------------
(* The parse functions consist of what Body says.                          *)

\* What each way to write an instruction gives.
LEMMA Instructions ==
  ASSUME NEW R
  PROVE  /\ \A T \in SUBSET TokenType : Expect(T) \in Plain(R)
         /\ \A rule \in R : Call(rule) \in Plain(R) /\ Elements(rule) \in Plain(R)
         /\ \A rule \in R, close \in TokenType :
               Items(rule, close) \in Plain(R) /\ More(rule, close) \in Plain(R)
         /\ Report \in Plain(R) /\ Statements \in Plain(R)
         /\ \A T \in SUBSET TokenType : Refuse(T) \in Plain(R)
         /\ Drop({"Incomplete"}) \in Plain(R)
BY DEF Plain, Expect, Call, Items, More, Elements, Report, Statements, Refuse, Drop

\* The same for those that have others in them.
LEMMA Compounds ==
  ASSUME NEW R
  PROVE  /\ Plain(R) \subseteq Body(R)
         /\ \A T \in SUBSET TokenType : \A is, js \in Seq(Plain(R)) : If(<<T>>, is, js) \in Body(R)
         /\ \A T \in SUBSET TokenType : \A is \in Seq(Plain(R)) : While(<<T>>, is) \in Body(R)
         /\ \A T, U \in SUBSET TokenType : \A is \in Seq(Plain(R)) : While(<<T, U>>, is) \in Body(R)
         /\ \A n \in Nat, token \in TokenType : \A is, js \in Seq(Plain(R)) :
               Ahead(n, token, is, js) \in Body(R)
         /\ \A cases \in SUBSET Case(R), is \in Seq(Plain(R)) : Switch(cases, is) \in Body(R)
         /\ \A T \in SUBSET (TokenType \cup {"EOF"}) : \A is \in Seq(Plain(R)) :
               For(T, is) \in Case(R)
<1>1. Plain(R) \subseteq Body(R)
  BY DEF Body
<1>2. ASSUME NEW T \in SUBSET TokenType, NEW is \in Seq(Plain(R)), NEW js \in Seq(Plain(R))
      PROVE  If(<<T>>, is, js) \in Body(R) /\ While(<<T>>, is) \in Body(R)
  <2>1. <<T>> \in Seq(SUBSET TokenType)
    BY ShortSequences
  <2> QED BY <2>1 DEF Body, If, While
<1>3. ASSUME NEW T \in SUBSET TokenType, NEW U \in SUBSET TokenType, NEW is \in Seq(Plain(R))
      PROVE  While(<<T, U>>, is) \in Body(R)
  <2>1. <<T, U>> \in Seq(SUBSET TokenType)
    BY ShortSequences
  <2> QED BY <2>1 DEF Body, While
<1>4. ASSUME NEW n \in Nat, NEW token \in TokenType, NEW is \in Seq(Plain(R)),
             NEW js \in Seq(Plain(R))
      PROVE  Ahead(n, token, is, js) \in Body(R)
  BY DEF Body, Ahead
<1>5. ASSUME NEW cases \in SUBSET Case(R), NEW is \in Seq(Plain(R))
      PROVE  Switch(cases, is) \in Body(R)
  BY DEF Body, Switch
<1>6. ASSUME NEW T \in SUBSET (TokenType \cup {"EOF"}), NEW is \in Seq(Plain(R))
      PROVE  For(T, is) \in Case(R)
  BY DEF Case, For
<1> QED BY <1>1, <1>2, <1>3, <1>4, <1>5, <1>6

\* And for what is made of these.
LEMMA Phrases ==
  ASSUME NEW R
  PROVE  /\ Name \in Plain(R)
         /\ \A token \in TokenType : One(token) \in Plain(R)
         /\ \A token \in TokenType, rule \in R : Maybe(token, rule) \in Body(R)
         /\ \A T \in SUBSET TokenType, is \in Seq(Plain(R)) : When(<<T>>, is) \in Body(R)
         /\ \A token, close \in TokenType, rule \in R :
               ListOf(token, rule, close) \in Seq(Plain(R))
<1>1. Name \in Plain(R)
  <2>1. Identifiers \in SUBSET TokenType
    BY DEF TokenType
  <2> QED BY <2>1, Instructions DEF Name
<1>2. ASSUME NEW token \in TokenType
      PROVE  One(token) \in Plain(R)
  BY Instructions DEF One
<1>3. ASSUME NEW T \in SUBSET TokenType, NEW is \in Seq(Plain(R))
      PROVE  When(<<T>>, is) \in Body(R)
  BY Compounds, ShortSequences DEF When
<1>4. ASSUME NEW token \in TokenType, NEW rule \in R
      PROVE  Maybe(token, rule) \in Body(R)
  <2>1. <<Call(rule)>> \in Seq(Plain(R))
    BY Instructions, ShortSequences
  <2> QED BY <1>3, <2>1 DEF Maybe
<1>5. ASSUME NEW token \in TokenType, NEW close \in TokenType, NEW rule \in R
      PROVE  ListOf(token, rule, close) \in Seq(Plain(R))
  BY <1>2, Instructions, ShortSequences DEF ListOf
<1> QED BY <1>1, <1>2, <1>3, <1>4, <1>5

\* The blocks, of functions that use no others than R.
LEMMA Blocks ==
  ASSUME NEW R, "CommentBlock" \in R
  PROVE  /\ \A rule \in R : Block(rule) \in Seq(Body(R))
         /\ \A token \in TokenType : \A prefix, rule \in R :
               BlockWithPrefix(token, prefix, rule) \in Seq(Body(R))
<1>1. One("{") \in Body(R) /\ Maybe("Comment", "CommentBlock") \in Body(R)
  <2>1. One("{") \in Plain(R)
    BY Phrases DEF TokenType
  <2> QED BY <2>1, Phrases, Compounds DEF TokenType
<1>2. \A rule \in R : Elements(rule) \in Body(R)
  BY Instructions, Compounds
<1>3. \A token \in TokenType, prefix \in R : Maybe(token, prefix) \in Body(R)
  BY Phrases
<1> QED BY <1>1, <1>2, <1>3, ShortSequences DEF Block, BlockWithPrefix

-----------------------------------------------------------------------------

\* All of these are instructions of a function.
LEMMA BodyInstructions ==
  ASSUME NEW R
  PROVE  /\ Name \in Body(R)
         /\ \A T \in SUBSET TokenType : Expect(T) \in Body(R)
         /\ \A token \in TokenType : One(token) \in Body(R)
         /\ \A rule \in R : Call(rule) \in Body(R)
         /\ \A T \in SUBSET TokenType : Refuse(T) \in Body(R)
         /\ Statements \in Body(R)
         /\ Drop({"Incomplete"}) \in Body(R)
         /\ \A token, close \in TokenType, rule \in R :
               ListOf(token, rule, close) \in Seq(Body(R))
<1>1. Plain(R) \subseteq Body(R) /\ Seq(Plain(R)) \subseteq Seq(Body(R))
  BY Compounds
<1>2. \A token, close \in TokenType, rule \in R :
               ListOf(token, rule, close) \in Seq(Body(R))
  BY <1>1, Phrases
<1> QED BY <1>1, <1>2, Instructions, Phrases

-----------------------------------------------------------------------------
(* The functions whose nil is kept.                                        *)

\* A step of an implementation begins with the token that it is chosen by.
LEMMA FirstOfSteps ==
  /\ First("StepProse") = {"Prose"}
  /\ First("StepVar") = {"var"}
  /\ First("StepSet") = {"set"}
  /\ First("StepIf") = {"if"}
  /\ First("StepSwitch") = {"switch"}
  /\ First("StepWhile") = {"while"}
  /\ First("StepFor") = {"for"}
  /\ First("StepReturn") = {"return"}
  /\ First("StepThrow") = {"throw"}
  /\ First("StepExec") = {"exec"}
<1>1. First("StepProse") = {"Prose"}
  BY DEF First, Rules, StepProse, One, Expect
<1>2. First("StepSwitch") = {"switch"}
  <2> DEFINE R == {"CommentBlock", "SwitchElement"}
             S == Body(R) \cup {One("switch"), Call("Value")}
  <2>1. Rules["StepSwitch"] = <<One("switch"), Call("Value")>> \o Block("SwitchElement")
    BY DEF Rules, StepSwitch
  <2>2. Block("SwitchElement") \in Seq(S)
    BY Blocks
  <2>3. <<One("switch"), Call("Value")>> \in Seq(S) /\ Len(<<One("switch"), Call("Value")>>) = 2
    OBVIOUS
  <2>4. Rules["StepSwitch"][1] = One("switch")
    BY <2>1, <2>2, <2>3
  <2> QED BY <2>4 DEF First, One, Expect
<1> QED BY <1>1, <1>2
    DEF First, Rules, StepVar, StepSet, StepIf, StepWhile, StepFor, StepReturn, StepThrow,
   StepExec, One, Expect

-----------------------------------------------------------------------------
(* The parse functions, one by one.                                        *)

\* Their names, but for those of structs.
LEMMA RuleNames ==
  ASSUME NEW R, DOMAIN Rules \ StructRules \subseteq R
  PROVE  /\ "Module" \in R /\ "StatementSyntax" \in R /\ "StatementModuleMeta" \in R
         /\ "StatementImport" \in R /\ "StatementAnnotation" \in R
         /\ "StatementConst" \in R /\ "StatementEnum" \in R /\ "StatementAPI" \in R
         /\ "StatementSDK" \in R /\ "StatementImpl" \in R /\ "StepProse" \in R
         /\ "ValueOrInvocation" \in R /\ "StepVar" \in R /\ "StepSet" \in R
         /\ "ConditionBlock" \in R /\ "StepIf" \in R /\ "SwitchCase" \in R
         /\ "SwitchDefault" \in R /\ "SwitchElement" \in R /\ "StepSwitch" \in R
         /\ "StepWhile" \in R /\ "StepFor" \in R /\ "StepReturn" \in R
         /\ "StepThrow" \in R /\ "InvocationCatch" \in R /\ "InvocationAwait" \in R
         /\ "ImplIdentifier" \in R /\ "InvocationAsync" \in R
         /\ "InvocationDirect" \in R /\ "Invocation" \in R /\ "StepExec" \in R
         /\ "ImplBlockStep" \in R /\ "ImplBlock" \in R /\ "ImplAPIMethod" \in R
         /\ "ImplSDKMethod" \in R /\ "ImplMethod" \in R /\ "ImplRequirement" \in R
         /\ "ImplRequires" \in R /\ "ImplAs" \in R /\ "SDKMethodInput" \in R
         /\ "SDKMethodReturns" \in R /\ "SDKMethod" \in R /\ "SDKMethodParameter" \in R
         /\ "Extension" \in R /\ "APIMethodInput" \in R /\ "APIMethodReturns" \in R
         /\ "APIMethod" \in R /\ "UnionField" \in R /\ "Metadata" \in R
         /\ "AnnotationScope" \in R /\ "TypeSpecifier" \in R /\ "TypeName" \in R
         /\ "CommentBlock" \in R /\ "AnnotationApplication" \in R
         /\ "AnnotationInstance" \in R /\ "UID" \in R /\ "Enumerant" \in R
         /\ "Value" \in R /\ "ValueUnary" \in R /\ "ValueBinary" \in R
         /\ "ValueLiteralBool" \in R /\ "ValueLiteralInt" \in R
         /\ "ValueLiteralFloat" \in R /\ "ValueLiteralText" \in R
         /\ "ValueLiteralData" \in R /\ "ValueLiteralList" \in R
         /\ "ValueLiteralStruct" \in R /\ "LiteralStructPair" \in R
         /\ "ValueIdentifier" \in R /\ "QualifiedIdentifier" \in R
BY DEF Rules, StructRules

\* Statements.
LEMMA StatementFunctions ==
  ASSUME NEW R, DOMAIN Rules \ StructRules \subseteq R
  PROVE  /\ Module \in Seq(Body(R))
         /\ StatementSyntax \in Seq(Body(R))
         /\ StatementModuleMeta \in Seq(Body(R))
         /\ StatementImport \in Seq(Body(R))
         /\ StatementAnnotation \in Seq(Body(R))
         /\ StatementConst \in Seq(Body(R))
         /\ StatementEnum \in Seq(Body(R))
         /\ StatementAPI \in Seq(Body(R))
         /\ StatementSDK \in Seq(Body(R))
         /\ StatementImpl \in Seq(Body(R))
<1>1. Module \in Seq(Body(R))
  <2>1. {"Comment"} \subseteq TokenType
    BY DEF TokenType
  <2> QED BY <2>1, RuleNames, BodyInstructions, Phrases DEF Module
<1>2. StatementSyntax \in Seq(Body(R))
  <2>1. {"syntax", "="} \subseteq TokenType
    BY DEF TokenType
  <2> QED BY <2>1, RuleNames, BodyInstructions DEF StatementSyntax
<1>3. StatementModuleMeta \in Seq(Body(R))
  <2>1. {"module", "=", "$", "Comment"} \subseteq TokenType
    BY DEF TokenType
  <2> QED BY <2>1, RuleNames, BodyInstructions, Phrases DEF StatementModuleMeta
<1>4. StatementImport \in Seq(Body(R))
  <2>1. {"import", "as", ".", "Comment"} \cup Identifiers \subseteq TokenType
    BY DEF TokenType
  <2>2. Expect(Identifiers \cup {"."}) \in Body(R)
    BY <2>1, BodyInstructions
  <2>3. /\ One("import") \in Body(R) /\ One("as") \in Body(R)
        /\ Call("ValueLiteralText") \in Body(R)
        /\ Maybe("Comment", "CommentBlock") \in Body(R)
    BY <2>1, RuleNames, BodyInstructions, Phrases
  <2> QED BY <2>2, <2>3 DEF StatementImport
<1>5. StatementAnnotation \in Seq(Body(R))
  <2>1. {"annotation", "(", ")", "@", "Comment"} \subseteq TokenType
    BY DEF TokenType
  <2> QED BY <2>1, RuleNames, BodyInstructions, Phrases DEF StatementAnnotation
<1>6. StatementConst \in Seq(Body(R))
  <2>1. {"const", "="} \subseteq TokenType
    BY DEF TokenType
  <2> QED BY <2>1, RuleNames, BodyInstructions DEF StatementConst
<1>7. StatementEnum \in Seq(Body(R))
  <2>1. {"enum"} \subseteq TokenType
    BY DEF TokenType
  <2> QED BY <2>1, RuleNames, BodyInstructions, Blocks DEF StatementEnum
<1>8. StatementAPI \in Seq(Body(R))
  <2>1. {"api", "extends"} \subseteq TokenType
    BY DEF TokenType
  <2> QED BY <2>1, RuleNames, BodyInstructions, Phrases, Blocks DEF StatementAPI
<1>9. StatementSDK \in Seq(Body(R))
  <2>1. {"sdk", "extends"} \subseteq TokenType
    BY DEF TokenType
  <2> QED BY <2>1, RuleNames, BodyInstructions, Phrases, Blocks DEF StatementSDK
<1>10. StatementImpl \in Seq(Body(R))
  <2>1. {"impl", "requires"} \subseteq TokenType
    BY DEF TokenType
  <2>2. BlockWithPrefix("requires", "ImplRequires", "ImplMethod") \in Seq(Body(R))
    BY <2>1, RuleNames, Blocks
  <2> QED BY <2>1, <2>2, RuleNames, BodyInstructions DEF StatementImpl
<1> QED BY <1>1, <1>2, <1>3, <1>4, <1>5, <1>6, <1>7, <1>8, <1>9, <1>10

\* Steps of implementations.
LEMMA StepFunctions ==
  ASSUME NEW R, DOMAIN Rules \ StructRules \subseteq R
  PROVE  /\ StepProse \in Seq(Body(R))
         /\ ValueOrInvocation \in Seq(Body(R))
         /\ StepVar \in Seq(Body(R))
         /\ StepSet \in Seq(Body(R))
         /\ ConditionBlock \in Seq(Body(R))
         /\ StepIf \in Seq(Body(R))
         /\ SwitchCase \in Seq(Body(R))
         /\ SwitchDefault \in Seq(Body(R))
         /\ SwitchElement \in Seq(Body(R))
         /\ StepSwitch \in Seq(Body(R))
         /\ StepWhile \in Seq(Body(R))
         /\ StepFor \in Seq(Body(R))
         /\ StepReturn \in Seq(Body(R))
         /\ StepThrow \in Seq(Body(R))
         /\ InvocationCatch \in Seq(Body(R))
         /\ InvocationAwait \in Seq(Body(R))
         /\ ImplIdentifier \in Seq(Body(R))
         /\ InvocationAsync \in Seq(Body(R))
         /\ InvocationDirect \in Seq(Body(R))
         /\ Invocation \in Seq(Body(R))
         /\ StepExec \in Seq(Body(R))
         /\ ImplBlockStep \in Seq(Body(R))
         /\ ImplBlock \in Seq(Body(R))
<1>1. StepProse \in Seq(Body(R))
  <2>1. {"Prose"} \subseteq TokenType
    BY DEF TokenType
  <2> QED BY <2>1, RuleNames, BodyInstructions DEF StepProse
<1>2. ValueOrInvocation \in Seq(Body(R))
  <2>1. {"await", "async", "$"} \cup Identifiers \subseteq TokenType
    BY DEF TokenType
  <2>2. <<Call("Invocation")>> \in Seq(Plain(R)) /\ <<Call("Value")>> \in Seq(Plain(R))
    BY RuleNames, Instructions, ShortSequences
  <2>3. For({"await", "async", "$"} \cup Identifiers, <<Call("Invocation")>>) \in Case(R)
    BY <2>1, <2>2, Compounds
  <2> QED BY <2>2, <2>3, Compounds, ShortSequences DEF ValueOrInvocation
<1>3. StepVar \in Seq(Body(R))
  <2>1. {"var", "="} \subseteq TokenType
    BY DEF TokenType
  <2> QED BY <2>1, RuleNames, BodyInstructions, Phrases, Compounds, ShortSequences,
        Instructions DEF StepVar
<1>4. StepSet \in Seq(Body(R))
  <2>1. {"set", "="} \subseteq TokenType
    BY DEF TokenType
  <2> QED BY <2>1, RuleNames, BodyInstructions DEF StepSet
<1>5. ConditionBlock \in Seq(Body(R))
  BY RuleNames, BodyInstructions DEF ConditionBlock
<1>6. StepIf \in Seq(Body(R))
  <2>1. {"if", "else"} \subseteq TokenType
    BY DEF TokenType
  <2> QED BY <2>1, RuleNames, BodyInstructions, Phrases, Compounds, ShortSequences,
        Instructions DEF StepIf
<1>7. SwitchCase \in Seq(Body(R))
  <2>1. {"case", ","} \subseteq TokenType
    BY DEF TokenType
  <2> QED BY <2>1, RuleNames, BodyInstructions, Compounds, ShortSequences, Instructions
      DEF SwitchCase
<1>8. SwitchDefault \in Seq(Body(R))
  <2>1. {"default"} \subseteq TokenType
    BY DEF TokenType
  <2> QED BY <2>1, RuleNames, BodyInstructions DEF SwitchDefault
<1>9. SwitchElement \in Seq(Body(R))
  <2>1. {"case"} \subseteq TokenType
    BY DEF TokenType
  <2> QED BY <2>1, RuleNames, BodyInstructions, Compounds, ShortSequences, Instructions
      DEF SwitchElement
<1>10. StepSwitch \in Seq(Body(R))
  <2>1. {"switch"} \subseteq TokenType
    BY DEF TokenType
  <2> QED BY <2>1, RuleNames, BodyInstructions, Blocks DEF StepSwitch
<1>11. StepWhile \in Seq(Body(R))
  <2>1. {"while"} \subseteq TokenType
    BY DEF TokenType
  <2> QED BY <2>1, RuleNames, BodyInstructions DEF StepWhile
<1>12. StepFor \in Seq(Body(R))
  <2>1. {"for", ",", "in"} \subseteq TokenType
    BY DEF TokenType
  <2>2. One("for") \in Body(R) /\ One(",") \in Body(R) /\ One("in") \in Body(R)
    BY <2>1, BodyInstructions
  <2>3. Name \in Body(R) /\ Call("Value") \in Body(R) /\ Call("ImplBlock") \in Body(R)
    BY RuleNames, BodyInstructions
  <2> QED BY <2>2, <2>3, SevenOfThem DEF StepFor
<1>13. StepReturn \in Seq(Body(R))
  <2>1. {"return"} \cup ValueStart \subseteq TokenType
    BY DEF TokenType, ValueStart
  <2>2. <<Call("Value")>> \in Seq(Plain(R))
    BY RuleNames, Instructions, ShortSequences
  <2>3. One("return") \in Body(R) /\ When(<<ValueStart>>, <<Call("Value")>>) \in Body(R)
    BY <2>1, <2>2, BodyInstructions, Phrases
  <2> QED BY <2>3, ShortSequences DEF StepReturn
<1>14. StepThrow \in Seq(Body(R))
  <2>1. {"throw"} \subseteq TokenType
    BY DEF TokenType
  <2> QED BY <2>1, RuleNames, BodyInstructions DEF StepThrow
<1>15. InvocationCatch \in Seq(Body(R))
  <2>1. {"catch"} \subseteq TokenType
    BY DEF TokenType
  <2> QED BY <2>1, RuleNames, BodyInstructions DEF InvocationCatch
<1>16. InvocationAwait \in Seq(Body(R))
  <2>1. {"await", "catch"} \subseteq TokenType
    BY DEF TokenType
  <2> QED BY <2>1, RuleNames, BodyInstructions, Phrases DEF InvocationAwait
<1>17. ImplIdentifier \in Seq(Body(R))
  <2>1. {"$", "."} \subseteq TokenType
    BY DEF TokenType
  <2> QED BY <2>1, RuleNames, BodyInstructions, Phrases, Compounds, ShortSequences,
        Instructions DEF ImplIdentifier
<1>18. InvocationAsync \in Seq(Body(R))
  <2>1. {"async", "(", ")"} \subseteq TokenType
    BY DEF TokenType
  <2> QED BY <2>1, RuleNames, BodyInstructions DEF InvocationAsync
<1>19. InvocationDirect \in Seq(Body(R))
  <2>1. {"(", ")", "catch"} \subseteq TokenType
    BY DEF TokenType
  <2> QED BY <2>1, RuleNames, BodyInstructions, Phrases DEF InvocationDirect
<1>20. Invocation \in Seq(Body(R))
  <2>1. {"await", "async", "$"} \cup Identifiers \subseteq TokenType
    BY DEF TokenType
  <2>2. /\ <<Report>> \in Seq(Plain(R)) /\ << >> \in Seq(Plain(R))
        /\ <<Call("InvocationAwait")>> \in Seq(Plain(R))
        /\ <<Call("InvocationAsync")>> \in Seq(Plain(R))
        /\ <<Call("InvocationDirect")>> \in Seq(Plain(R))
    BY RuleNames, Instructions, ShortSequences
  <2>3. /\ For({"EOF"}, <<Report>>) \in Case(R)
        /\ For({"await"}, <<Call("InvocationAwait")>>) \in Case(R)
        /\ For({"async"}, <<Call("InvocationAsync")>>) \in Case(R)
        /\ For({"$"} \cup Identifiers, <<Call("InvocationDirect")>>) \in Case(R)
    BY <2>1, <2>2, Compounds
  <2> QED BY <2>2, <2>3, Compounds, ShortSequences DEF Invocation
<1>21. StepExec \in Seq(Body(R))
  <2>1. {"exec"} \subseteq TokenType
    BY DEF TokenType
  <2> QED BY <2>1, RuleNames, BodyInstructions DEF StepExec
<1>22. ImplBlockStep \in Seq(Body(R))
  <2>1. \A step \in Steps : For(First(step), <<Kept(step)>>) \in Case(R)
    BY DEF Case
  <2>2. \A token : \A step \in Steps :
           First(step) = {token} => For({token}, <<Kept(step)>>) \in Case(R)
    BY <2>1
  <2>3. /\ For({"Prose"}, <<Kept("StepProse")>>) \in Case(R)
        /\ For({"var"}, <<Kept("StepVar")>>) \in Case(R)
        /\ For({"set"}, <<Kept("StepSet")>>) \in Case(R)
        /\ For({"if"}, <<Kept("StepIf")>>) \in Case(R)
        /\ For({"switch"}, <<Kept("StepSwitch")>>) \in Case(R)
        /\ For({"while"}, <<Kept("StepWhile")>>) \in Case(R)
        /\ For({"for"}, <<Kept("StepFor")>>) \in Case(R)
        /\ For({"return"}, <<Kept("StepReturn")>>) \in Case(R)
        /\ For({"throw"}, <<Kept("StepThrow")>>) \in Case(R)
        /\ For({"exec"}, <<Kept("StepExec")>>) \in Case(R)
    BY <2>2, FirstOfSteps DEF Steps
  <2>4. <<Report>> \in Seq(Plain(R))
    BY Instructions, ShortSequences
  <2> QED BY <2>3, <2>4, Compounds, ShortSequences DEF ImplBlockStep
<1>23. ImplBlock \in Seq(Body(R))
  BY RuleNames, BodyInstructions, Blocks DEF ImplBlock
<1> QED BY <1>1, <1>2, <1>3, <1>4, <1>5, <1>6, <1>7, <1>8, <1>9, <1>10, <1>11, <1>12,
      <1>13, <1>14, <1>15, <1>16, <1>17, <1>18, <1>19, <1>20, <1>21, <1>22, <1>23

\* Parts of implementations, SDKs and APIs.
LEMMA MethodFunctions ==
  ASSUME NEW R, DOMAIN Rules \ StructRules \subseteq R
  PROVE  /\ ImplAPIMethod \in Seq(Body(R))
         /\ ImplSDKMethod \in Seq(Body(R))
         /\ ImplMethod \in Seq(Body(R))
         /\ ImplRequirement \in Seq(Body(R))
         /\ ImplRequires \in Seq(Body(R))
         /\ ImplAs \in Seq(Body(R))
         /\ SDKMethodInput \in Seq(Body(R))
         /\ SDKMethodReturns \in Seq(Body(R))
         /\ SDKMethod \in Seq(Body(R))
         /\ SDKMethodParameter \in Seq(Body(R))
         /\ Extension \in Seq(Body(R))
         /\ APIMethodInput \in Seq(Body(R))
         /\ APIMethodReturns \in Seq(Body(R))
         /\ APIMethod \in Seq(Body(R))
<1>1. ImplAPIMethod \in Seq(Body(R))
  BY RuleNames, BodyInstructions DEF ImplAPIMethod
<1>2. ImplSDKMethod \in Seq(Body(R))
  <2>1. {"returns", "nothrows"} \subseteq TokenType
    BY DEF TokenType
  <2>2. <<One("nothrows")>> \in Seq(Plain(R))
    BY <2>1, Phrases, ShortSequences
  <2>3. /\ Maybe("returns", "SDKMethodReturns") \in Body(R)
        /\ When(<<{"nothrows"}>>, <<One("nothrows")>>) \in Body(R)
    BY <2>1, <2>2, RuleNames, Phrases
  <2> QED BY <2>3, RuleNames, BodyInstructions DEF ImplSDKMethod
<1>3. ImplMethod \in Seq(Body(R))
  <2>1. ":" \in TokenType
    BY DEF TokenType
  <2>2. <<Call("ImplAPIMethod")>> \in Seq(Plain(R)) /\ <<Call("ImplSDKMethod")>> \in Seq(Plain(R))
    BY RuleNames, Instructions, ShortSequences
  <2> QED BY <2>1, <2>2, Compounds, ShortSequences DEF ImplMethod
<1>4. ImplRequirement \in Seq(Body(R))
  <2>1. {"Comment"} \subseteq TokenType
    BY DEF TokenType
  <2> QED BY <2>1, RuleNames, BodyInstructions, Phrases DEF ImplRequirement
<1>5. ImplRequires \in Seq(Body(R))
  <2>1. {"requires"} \subseteq TokenType
    BY DEF TokenType
  <2> QED BY <2>1, RuleNames, BodyInstructions, Blocks DEF ImplRequires
<1>6. ImplAs \in Seq(Body(R))
  <2>1. {"as", "(", ")"} \subseteq TokenType
    BY DEF TokenType
  <2> QED BY <2>1, RuleNames, BodyInstructions DEF ImplAs
<1>7. SDKMethodInput \in Seq(Body(R))
  <2>1. {"(", ")"} \subseteq TokenType
    BY DEF TokenType
  <2> QED BY <2>1, RuleNames, BodyInstructions DEF SDKMethodInput
<1>8. SDKMethodReturns \in Seq(Body(R))
  <2>1. {"returns", "(", ")"} \subseteq TokenType
    BY DEF TokenType
  <2> QED BY <2>1, RuleNames, BodyInstructions DEF SDKMethodReturns
<1>9. SDKMethod \in Seq(Body(R))
  <2>1. {"returns", "nothrows"} \subseteq TokenType
    BY DEF TokenType
  <2>2. <<One("nothrows")>> \in Seq(Plain(R))
    BY <2>1, Phrases, ShortSequences
  <2>3. /\ Maybe("returns", "SDKMethodReturns") \in Body(R)
        /\ When(<<{"nothrows"}>>, <<One("nothrows")>>) \in Body(R)
    BY <2>1, <2>2, RuleNames, Phrases
  <2> QED BY <2>3, RuleNames, BodyInstructions DEF SDKMethod
<1>10. SDKMethodParameter \in Seq(Body(R))
  BY RuleNames, BodyInstructions DEF SDKMethodParameter
<1>11. Extension \in Seq(Body(R))
  <2>1. {"extends", "(", ")"} \subseteq TokenType
    BY DEF TokenType
  <2> QED BY <2>1, RuleNames, BodyInstructions DEF Extension
<1>12. APIMethodInput \in Seq(Body(R))
  <2>1. {"(", ")"} \subseteq TokenType
    BY DEF TokenType
  <2> QED BY <2>1, RuleNames, BodyInstructions DEF APIMethodInput
<1>13. APIMethodReturns \in Seq(Body(R))
  <2>1. {"returns", "(", ")"} \subseteq TokenType
    BY DEF TokenType
  <2> QED BY <2>1, RuleNames, BodyInstructions DEF APIMethodReturns
<1>14. APIMethod \in Seq(Body(R))
  BY RuleNames, BodyInstructions DEF APIMethod
<1> QED BY <1>1, <1>2, <1>3, <1>4, <1>5, <1>6, <1>7, <1>8, <1>9, <1>10, <1>11, <1>12,
      <1>13, <1>14

\* Fields, metadata, types.
LEMMA TypeFunctions ==
  ASSUME NEW R, DOMAIN Rules \ StructRules \subseteq R
  PROVE  /\ UnionField \in Seq(Body(R))
         /\ Metadata \in Seq(Body(R))
         /\ AnnotationScope \in Seq(Body(R))
         /\ TypeSpecifier \in Seq(Body(R))
         /\ TypeName \in Seq(Body(R))
         /\ CommentBlock \in Seq(Body(R))
         /\ AnnotationApplication \in Seq(Body(R))
         /\ AnnotationInstance \in Seq(Body(R))
         /\ UID \in Seq(Body(R))
         /\ Enumerant \in Seq(Body(R))
<1>1. UnionField \in Seq(Body(R))
  BY RuleNames, BodyInstructions DEF UnionField
<1>2. Metadata \in Seq(Body(R))
  <2>1. {"@", "$", "Comment"} \subseteq TokenType
    BY DEF TokenType
  <2> QED BY <2>1, RuleNames, BodyInstructions, Phrases DEF Metadata
<1>3. AnnotationScope \in Seq(Body(R))
  <2>1. {"module", "union", "struct", "field", "enumerant", "enum", "api", "sdk", "const",
         "*"} \subseteq TokenType
    BY DEF TokenType
  <2> QED BY <2>1, RuleNames, BodyInstructions DEF AnnotationScope
<1>4. TypeSpecifier \in Seq(Body(R))
  <2>1. {":", "."} \subseteq TokenType
    BY DEF TokenType
  <2>2. <<Name, One(".")>> \in Seq(Plain(R)) /\ << >> \in Seq(Plain(R))
    BY <2>1, Phrases, ShortSequences
  <2>3. Ahead(1, ".", <<Name, One(".")>>, << >>) \in Body(R)
    BY <2>1, <2>2, Compounds
  <2> QED BY <2>1, <2>3, RuleNames, BodyInstructions, ShortSequences DEF TypeSpecifier
<1>5. TypeName \in Seq(Body(R))
  <2>1. {"<", ">"} \subseteq TokenType
    BY DEF TokenType
  <2> QED BY <2>1, RuleNames, BodyInstructions, Phrases, Compounds, ShortSequences,
        Instructions DEF TypeName
<1>6. CommentBlock \in Seq(Body(R))
  <2>1. {"Comment"} \subseteq TokenType
    BY DEF TokenType
  <2>2. <<One("Comment")>> \in Seq(Plain(R))
    BY <2>1, Phrases, ShortSequences
  <2>3. While(<<{"Comment"}>>, <<One("Comment")>>) \in Body(R)
    BY <2>1, <2>2, Compounds
  <2> QED BY <2>1, <2>3, BodyInstructions, ShortSequences DEF CommentBlock
<1>7. AnnotationApplication \in Seq(Body(R))
  <2>1. {"$", "(", ")"} \subseteq TokenType
    BY DEF TokenType
  <2> QED BY <2>1, RuleNames, BodyInstructions DEF AnnotationApplication
<1>8. AnnotationInstance \in Seq(Body(R))
  <2>1. {".", "(", ")"} \subseteq TokenType
    BY DEF TokenType
  <2>2. /\ <<One("."), Name, One("(")>> \in Seq(Plain(R))
        /\ <<Expect({".", "("})>> \in Seq(Plain(R))
    BY <2>1, Instructions, Phrases, ShortSequences
  <2>3. If(<<{"."}>>, <<One("."), Name, One("(")>>, <<Expect({".", "("})>>) \in Body(R)
    BY <2>1, <2>2, Compounds
  <2> QED BY <2>1, <2>3, RuleNames, BodyInstructions, ShortSequences DEF AnnotationInstance
<1>9. UID \in Seq(Body(R))
  <2>1. {"@"} \subseteq TokenType
    BY DEF TokenType
  <2> QED BY <2>1, RuleNames, BodyInstructions DEF UID
<1>10. Enumerant \in Seq(Body(R))
  BY RuleNames, BodyInstructions DEF Enumerant
<1> QED BY <1>1, <1>2, <1>3, <1>4, <1>5, <1>6, <1>7, <1>8, <1>9, <1>10

\* Values.
LEMMA ValueFunctions ==
  ASSUME NEW R, DOMAIN Rules \ StructRules \subseteq R
  PROVE  /\ Value \in Seq(Body(R))
         /\ ValueUnary \in Seq(Body(R))
         /\ ValueBinary \in Seq(Body(R))
         /\ ValueLiteralBool \in Seq(Body(R))
         /\ ValueLiteralInt \in Seq(Body(R))
         /\ ValueLiteralFloat \in Seq(Body(R))
         /\ ValueLiteralText \in Seq(Body(R))
         /\ ValueLiteralData \in Seq(Body(R))
         /\ ValueLiteralList \in Seq(Body(R))
         /\ ValueLiteralStruct \in Seq(Body(R))
         /\ LiteralStructPair \in Seq(Body(R))
         /\ ValueIdentifier \in Seq(Body(R))
         /\ QualifiedIdentifier \in Seq(Body(R))
<1>1. Value \in Seq(Body(R))
  <2>1. /\ {"+", "-", "!", "(", "true", "false", "Text", "Data", "[", "{"} \subseteq TokenType
        /\ IntegerTokens \cup FloatTokens \cup Identifiers \subseteq TokenType
    BY DEF TokenType
  <2>2. \A T \in SUBSET TokenType, rule \in R : For(T, <<Call(rule)>>) \in Case(R)
    BY Instructions, ShortSequences, Compounds
  <2>3. /\ For({"+", "-", "!"}, <<Call("ValueUnary")>>) \in Case(R)
        /\ For({"("}, <<Call("ValueBinary")>>) \in Case(R)
        /\ For({"true", "false"}, <<Call("ValueLiteralBool")>>) \in Case(R)
        /\ For(IntegerTokens, <<Call("ValueLiteralInt")>>) \in Case(R)
        /\ For(FloatTokens, <<Call("ValueLiteralFloat")>>) \in Case(R)
        /\ For({"Text"}, <<Call("ValueLiteralText")>>) \in Case(R)
        /\ For({"Data"}, <<Call("ValueLiteralData")>>) \in Case(R)
        /\ For({"["}, <<Call("ValueLiteralList")>>) \in Case(R)
        /\ For({"{"}, <<Call("ValueLiteralStruct")>>) \in Case(R)
        /\ For(Identifiers, <<Call("ValueIdentifier")>>) \in Case(R)
    BY <2>1, <2>2, RuleNames
  <2>4. <<Report>> \in Seq(Plain(R))
    BY Instructions, ShortSequences
  <2> QED BY <2>3, <2>4, Compounds, ShortSequences DEF Value
<1>2. ValueUnary \in Seq(Body(R))
  <2>1. {"+", "-", "!"} \subseteq TokenType
    BY DEF TokenType
  <2> QED BY <2>1, RuleNames, BodyInstructions DEF ValueUnary
<1>3. ValueBinary \in Seq(Body(R))
  <2>1. {"(", ")"} \cup BinaryOperators \subseteq TokenType
    BY DEF TokenType, BinaryOperators
  <2>2. One("(") \in Body(R) /\ One(")") \in Body(R) /\ Expect(BinaryOperators) \in Body(R)
    BY <2>1, BodyInstructions
  <2> QED BY <2>2, RuleNames, BodyInstructions DEF ValueBinary
<1>4. ValueLiteralFloat \in Seq(Body(R))
  <2>1. FloatTokens \subseteq TokenType /\ {"Malformed"} \subseteq TokenType
    BY DEF TokenType, FloatTokens
  <2> QED BY <2>1, BodyInstructions, ShortSequences DEF ValueLiteralFloat
<1>5. ValueLiteralStruct \in Seq(Body(R))
  <2>1. {"{", "}"} \subseteq TokenType
    BY DEF TokenType
  <2> QED BY <2>1, RuleNames, BodyInstructions DEF ValueLiteralStruct
<1>6. LiteralStructPair \in Seq(Body(R))
  <2>1. {":"} \subseteq TokenType
    BY DEF TokenType
  <2> QED BY <2>1, RuleNames, BodyInstructions DEF LiteralStructPair
<1>7. ValueIdentifier \in Seq(Body(R))
  BY RuleNames, BodyInstructions DEF ValueIdentifier
<1>8. QualifiedIdentifier \in Seq(Body(R))
  <2>1. {"."} \subseteq TokenType
    BY DEF TokenType
  <2>2. <<One("."), Name>> \in Seq(Plain(R))
    BY <2>1, Phrases, ShortSequences
  <2>3. While(<<{"."}>>, <<One("."), Name>>) \in Body(R)
    BY <2>1, <2>2, Compounds
  <2> QED BY <2>3, BodyInstructions, ShortSequences DEF QualifiedIdentifier
<1>9. /\ ValueLiteralBool \in Seq(Body(R))
      /\ ValueLiteralText \in Seq(Body(R))
      /\ ValueLiteralData \in Seq(Body(R))
  <2>1. {"true", "false", "Text", "Data"} \subseteq TokenType
    BY DEF TokenType
  <2> QED BY <2>1, BodyInstructions, ShortSequences
        DEF ValueLiteralBool, ValueLiteralText, ValueLiteralData
<1>10. ValueLiteralInt \in Seq(Body(R))
  <2>1. IntegerTokens \subseteq TokenType /\ {"Overlong"} \subseteq TokenType
    BY DEF TokenType, IntegerTokens
  <2> QED BY <2>1, BodyInstructions, ShortSequences DEF ValueLiteralInt
<1>11. ValueLiteralList \in Seq(Body(R))
  <2>1. {"[", "]"} \subseteq TokenType
    BY DEF TokenType
  <2> QED BY <2>1, RuleNames, BodyInstructions DEF ValueLiteralList
<1> QED
  BY <1>1, <1>2, <1>3, <1>4, <1>5, <1>6, <1>7, <1>8, <1>9, <1>10, <1>11

\* Those of structs.
LEMMA StructFunctions ==
  ASSUME NEW R, DOMAIN Rules \ StructRules \subseteq R, StructRules \subseteq R
  PROVE  /\ StatementStruct \in Seq(Body(R))
         /\ StructElement \in Seq(Body(R))
         /\ Union \in Seq(Body(R))
         /\ Field \in Seq(Body(R))
<1>1. StatementStruct \in Seq(Body(R))
  <2>1. "struct" \in TokenType /\ "StructElement" \in R
    BY DEF TokenType, StructRules
  <2>2. Block("StructElement") \in Seq(Body(R))
    BY <2>1, RuleNames, Blocks
  <2> QED BY <2>1, <2>2, RuleNames, BodyInstructions DEF StatementStruct
<1>2. StructElement \in Seq(Body(R))
  <2>1. StructElement[1] \in Body(R)
    BY DEF Body, StructRules
  <2>2. StructElement = <<StructElement[1]>>
    BY DEF StructElement
  <2> QED BY <2>1, <2>2, ShortSequences
<1>3. Union \in Seq(Body(R))
  <2>1. "union" \in TokenType /\ Identifiers \subseteq TokenType
    BY DEF TokenType
  <2>2. When(<<Identifiers>>, <<Name>>) \in Body(R)
    BY <2>1, Phrases, ShortSequences
  <2>3. Block("UnionField") \in Seq(Body(R))
    BY RuleNames, Blocks
  <2> QED BY <2>1, <2>2, <2>3, RuleNames, BodyInstructions DEF Union
<1>4. Field \in Seq(Body(R))
  <2>1. "=" \in TokenType
    BY DEF TokenType
  <2>2. <<One("="), Call("Value")>> \in Seq(Plain(R))
    BY <2>1, RuleNames, Instructions, Phrases, ShortSequences
  <2>3. When(<<{"="}>>, <<One("="), Call("Value")>>) \in Body(R)
    BY <2>1, <2>2, Phrases
  <2> QED BY <2>3, RuleNames, BodyInstructions DEF Field
<1> QED BY <1>1, <1>2, <1>3, <1>4

\* Each function consists of instructions that use functions that may be called.
LEMMA FunctionsAreBodies ==
  \A rule \in Callable : Rules[rule] \in Seq(Body(Callable))
<1> DEFINE R == Callable
<1>1. DOMAIN Rules \ StructRules \subseteq R
  BY DEF Callable
<1> HIDE DEF R
<1>2. \A rule \in DOMAIN Rules \ StructRules : Rules[rule] \in Seq(Body(R))
  <2> DEFINE
        statements == {"Module", "StatementSyntax", "StatementModuleMeta",
                       "StatementImport", "StatementAnnotation", "StatementConst",
                       "StatementEnum", "StatementAPI", "StatementSDK",
                       "StatementImpl"}
        steps == {"StepProse", "ValueOrInvocation", "StepVar", "StepSet",
                  "ConditionBlock", "StepIf", "SwitchCase", "SwitchDefault",
                  "SwitchElement", "StepSwitch", "StepWhile"}
        blocks == {"StepFor", "StepReturn", "StepThrow", "InvocationCatch",
                   "InvocationAwait", "ImplIdentifier", "InvocationAsync",
                   "InvocationDirect", "Invocation", "StepExec", "ImplBlockStep",
                   "ImplBlock"}
        parts == {"ImplAPIMethod", "ImplSDKMethod", "ImplMethod", "ImplRequirement",
                  "ImplRequires", "ImplAs", "SDKMethodInput", "SDKMethodReturns",
                  "SDKMethod", "SDKMethodParameter", "Extension", "APIMethodInput",
                  "APIMethodReturns", "APIMethod"}
        types == {"UnionField", "Metadata", "AnnotationScope", "TypeSpecifier",
                  "TypeName", "CommentBlock", "AnnotationApplication",
                  "AnnotationInstance", "UID", "Enumerant"}
        values == {"Value", "ValueUnary", "ValueBinary", "ValueLiteralBool",
                   "ValueLiteralInt", "ValueLiteralFloat", "ValueLiteralText",
                   "ValueLiteralData", "ValueLiteralList", "ValueLiteralStruct",
                   "LiteralStructPair", "ValueIdentifier", "QualifiedIdentifier"}
  <2>1. \A rule \in statements : Rules[rule] \in Seq(Body(R))
    BY <1>1, StatementFunctions DEF Rules
  <2>2. \A rule \in steps : Rules[rule] \in Seq(Body(R))
    BY <1>1, StepFunctions, SMTT(90) DEF Rules
  <2>3. \A rule \in blocks : Rules[rule] \in Seq(Body(R))
    BY <1>1, StepFunctions, SMTT(90) DEF Rules
  <2>4. \A rule \in parts : Rules[rule] \in Seq(Body(R))
    BY <1>1, MethodFunctions DEF Rules
  <2>5. \A rule \in types : Rules[rule] \in Seq(Body(R))
    BY <1>1, TypeFunctions DEF Rules
  <2>6. \A rule \in values : Rules[rule] \in Seq(Body(R))
    BY <1>1, ValueFunctions DEF Rules
  <2>7. DOMAIN Rules \ StructRules \subseteq
           statements \cup steps \cup blocks \cup parts \cup types \cup values
    BY SMTT(90) DEF Rules, StructRules
  <2> HIDE DEF statements, steps, blocks, parts, types, values
  <2> QED BY <2>1, <2>2, <2>3, <2>4, <2>5, <2>6, <2>7
<1>3. CASE Uses({"struct"})
  <2>1. StructRules \subseteq R
    BY <1>3 DEF R, Callable, StructRules, Rules
  <2>2. \A rule \in StructRules : Rules[rule] \in Seq(Body(R))
    BY <1>1, <2>1, StructFunctions DEF StructRules, Rules
  <2> QED BY <1>2, <1>3, <2>2 DEF R, Callable
<1>4. CASE ~Uses({"struct"})
  BY <1>2, <1>4 DEF R, Callable
<1> QED BY <1>3, <1>4
-----------------------------------------------------------------------------
(* What the kind of an instruction tells of it.                            *)

\* The ones without others in them.
LEMMA PlainKinds ==
  ASSUME NEW R, NEW x \in Plain(R)
  PROVE  /\ x.do \in {"expect", "call", "elements", "items", "more", "report", "statements",
                      "refuse", "drop"}
         /\ x.do = "expect" => x.tokens \in SUBSET TokenType
         /\ x.do \in {"call", "elements"} => x.rule \in R
         /\ x.do \in {"items", "more"} => x.rule \in R /\ x.close \in TokenType
         /\ x.do = "drop" => x.tokens = {"Incomplete"}
BY DEF Plain

\* All of those that parse functions consist of.  Only the one of
\* StructElement, and the cases of a switch, have a call in them whose nil is kept.
LEMMA Kinds ==
  ASSUME NEW R, NEW x \in Body(R)
  PROVE  /\ x.do \notin {"kept"}
         /\ x.do = "expect" => x.tokens \in SUBSET TokenType
         /\ x.do \in {"call", "elements"} => x.rule \in R
         /\ x.do \in {"items", "more"} => x.rule \in R /\ x.close \in TokenType
         /\ x.do = "drop" => x.tokens = {"Incomplete"}
         /\ x.do = "if" => \/ x.then \in Seq(Plain(R)) /\ x.else \in Seq(Plain(R))
                           \/ x = StructElement[1] /\ {"Union", "Field"} \subseteq R
         /\ x.do = "ahead" => x.then \in Seq(Plain(R)) /\ x.else \in Seq(Plain(R))
         /\ x.do = "while" => x.body \in Seq(Plain(R))
         /\ x.do = "switch" => x.cases \in SUBSET Case(R) /\ x.default \in Seq(Plain(R))
<1>1. CASE x \in Plain(R)
  BY <1>1, PlainKinds
<1>2. CASE x \in [do : {"if"}, pattern : Seq(SUBSET TokenType), then : Seq(Plain(R)),
                  else : Seq(Plain(R))]
  BY <1>2
<1>3. CASE x \in [do : {"ahead"}, at : Nat, token : TokenType, then : Seq(Plain(R)),
                  else : Seq(Plain(R))]
  BY <1>3
<1>4. CASE x \in [do : {"while"}, pattern : Seq(SUBSET TokenType), body : Seq(Plain(R))]
  BY <1>4
<1>5. CASE x \in [do : {"switch"}, cases : SUBSET Case(R), default : Seq(Plain(R))]
  BY <1>5
<1>6. CASE x = StructElement[1] /\ {"Union", "Field"} \subseteq R
  <2>1. x.do = "if"
    BY <1>6 DEF StructElement, If
  <2> QED BY <1>6, <2>1
<1> QED BY <1>1, <1>2, <1>3, <1>4, <1>5, <1>6 DEF Body

\* A union, one instruction after the other.
LEMMA UnionInstructions ==
  /\ Union = <<One("union"), When(<<Identifiers>>, <<Name>>), One("{"),
              Maybe("Comment", "CommentBlock"), Elements("UnionField"), Call("Metadata")>>
  /\ Tail(Union) = <<When(<<Identifiers>>, <<Name>>), One("{"),
                    Maybe("Comment", "CommentBlock"), Elements("UnionField"), Call("Metadata")>>
  /\ Tail(Tail(Union)) = <<One("{"), Maybe("Comment", "CommentBlock"), Elements("UnionField"),
                          Call("Metadata")>>
<1> DEFINE a == One("union")
           b == When(<<Identifiers>>, <<Name>>)
           c == One("{")
           d == Maybe("Comment", "CommentBlock")
           e == Elements("UnionField")
           f == Call("Metadata")
<1>1. Union = <<a, b>> \o <<c, d, e>> \o <<f>>
  BY DEF Union, Block
<1> HIDE DEF a, b, c, d, e, f
<1>2. <<a, b>> \o <<c, d, e>> \o <<f>> = <<a, b, c, d, e, f>>
  <2> DEFINE S == {a, b, c, d, e, f}
             s == <<a, b>>
             t == <<c, d, e>>
             u == <<a, b, c, d, e>>
             v == <<a, b, c, d, e, f>>
  <2>1. s \in Seq(S) /\ t \in Seq(S) /\ u \in Seq(S) /\ <<f>> \in Seq(S) /\ v \in Seq(S)
    OBVIOUS
  <2>2. s \o t = u
    <3>1. s \o t \in Seq(S) /\ Len(s \o t) = 5
      BY <2>1, ConcatProperties
    <3>2. \A i \in 1..5 : (s \o t)[i] = u[i]
      BY <2>1, ConcatProperties
    <3> HIDE DEF S, s, t
    <3> QED BY <2>1, <3>1, <3>2, SeqEqual
  <2>3. u \o <<f>> = v
    <3>1. u \o <<f>> \in Seq(S) /\ Len(u \o <<f>>) = 6
      BY <2>1, ConcatProperties
    <3>2. \A i \in 1..6 : (u \o <<f>>)[i] = v[i]
      BY <2>1, ConcatProperties
    <3> HIDE DEF S
    <3> QED BY <2>1, <3>1, <3>2, SeqEqual
  <2> QED BY <2>2, <2>3
<1>3. Tail(<<a, b, c, d, e, f>>) = <<b, c, d, e, f>> /\ Tail(<<b, c, d, e, f>>) = <<c, d, e, f>>
  OBVIOUS
<1> QED BY <1>1, <1>2, <1>3 DEF a, b, c, d, e, f

\* A function that begins with a token: it is expected.
LEMMA FirstInstructions ==
  \A rule \in Starting :
     Len(Rules[rule]) > 0 /\ Rules[rule][1].do = "expect" /\ Rules[rule][1].tokens = First(rule)
<1> DEFINE R == DOMAIN Rules
<1>1. DOMAIN Rules \ StructRules \subseteq R
  OBVIOUS
<1> HIDE DEF R
<1>2. /\ Len(StepProse) > 0 /\ StepProse[1].do = "expect"
      /\ Len(StepVar) > 0 /\ StepVar[1].do = "expect"
      /\ Len(StepSet) > 0 /\ StepSet[1].do = "expect"
      /\ Len(StepIf) > 0 /\ StepIf[1].do = "expect"
      /\ Len(StepWhile) > 0 /\ StepWhile[1].do = "expect"
  BY DEF StepProse, StepVar, StepSet, StepIf, StepWhile, One, Expect
<1>6. /\ Len(StepFor) > 0 /\ StepFor[1].do = "expect"
      /\ Len(StepReturn) > 0 /\ StepReturn[1].do = "expect"
      /\ Len(StepThrow) > 0 /\ StepThrow[1].do = "expect"
      /\ Len(StepExec) > 0 /\ StepExec[1].do = "expect"
  BY DEF StepFor, StepReturn, StepThrow, StepExec, Name, One, Expect
<1>7. /\ Len(Field) > 0 /\ Field[1].do = "expect"
      /\ Len(UnionField) > 0 /\ UnionField[1].do = "expect"
  BY DEF Field, UnionField, Name, Expect
<1>3. Len(StepSwitch) > 0 /\ StepSwitch[1].do = "expect"
  <2>1. Block("SwitchElement") \in Seq(Body(R))
    BY <1>1, RuleNames, Blocks
  <2> QED BY <2>1 DEF StepSwitch, One, Expect
<1>4. Len(Union) > 0 /\ Union[1].do = "expect"
  <2>1. Len(Union) = 6 /\ Union[1] = One("union")
    BY UnionInstructions
  <2> QED BY <2>1 DEF One, Expect
<1>5. /\ Rules["StepProse"] = StepProse /\ Rules["StepVar"] = StepVar
      /\ Rules["StepSet"] = StepSet /\ Rules["StepIf"] = StepIf
      /\ Rules["StepSwitch"] = StepSwitch /\ Rules["StepWhile"] = StepWhile
      /\ Rules["StepFor"] = StepFor /\ Rules["StepReturn"] = StepReturn
      /\ Rules["StepThrow"] = StepThrow /\ Rules["StepExec"] = StepExec
      /\ Rules["Union"] = Union /\ Rules["Field"] = Field
      /\ Rules["UnionField"] = UnionField
  BY DEF Rules
<1> QED BY <1>2, <1>3, <1>4, <1>5, <1>6, <1>7 DEF Starting, Steps, First

\* Which tokens those of structs begin with.
LEMMA FirstOfMembers ==
  /\ First("Union") = {"union"}
  /\ First("Field") = Identifiers
  /\ First("UnionField") = Identifiers
<1>1. First("Union") = {"union"}
  BY UnionInstructions DEF First, Rules, One, Expect
<1>2. First("Field") = Identifiers /\ First("UnionField") = Identifiers
  BY DEF First, Rules, Field, UnionField, Name, Expect
<1> QED BY <1>1, <1>2

-----------------------------------------------------------------------------
(* Sequences of anything.                                                  *)

LEMMA SequenceFacts ==
  ASSUME NEW s, IsSeq(s)
  PROVE  /\ Len(s) \in Nat /\ DOMAIN s = 1..Len(s)
         /\ s = << >> <=> Len(s) = 0
BY DEF IsSeq

LEMMA SequenceOfAny ==
  ASSUME NEW S, NEW s \in Seq(S)
  PROVE  IsSeq(s)
<1>1. s \in [1..Len(s) -> ToSet(s)] /\ Len(s) \in Nat
  BY LenProperties DEF ToSet
<1>2. s \in UNION {[1..n -> ToSet(s)] : n \in Nat}
  BY <1>1
<1> QED BY <1>2, SeqDef DEF IsSeq

\* One more.
LEMMA Appended ==
  ASSUME NEW s, IsSeq(s), NEW x
  PROVE  /\ IsSeq(Append(s, x)) /\ Len(Append(s, x)) = Len(s) + 1
         /\ Append(s, x)[Len(s) + 1] = x
         /\ \A i \in 1..Len(s) : Append(s, x)[i] = s[i]
<1> DEFINE S == ToSet(s) \cup {x}
<1>1. s \in Seq(S) /\ x \in S
  BY SeqMonotonic DEF IsSeq
<1> HIDE DEF S
<1>2. /\ Append(s, x) \in Seq(S) /\ Len(Append(s, x)) = Len(s) + 1
      /\ \A i \in 1..Len(s) : Append(s, x)[i] = s[i]
      /\ Append(s, x)[Len(s) + 1] = x
  BY <1>1, AppendProperties
<1>3. IsSeq(Append(s, x))
  BY <1>2, SequenceOfAny
<1> QED BY <1>2, <1>3

\* Another in place of the last.
LEMMA Replaced ==
  ASSUME NEW s, IsSeq(s), s # << >>, NEW x, NEW t, t = [s EXCEPT ![Len(s)] = x]
  PROVE  /\ IsSeq(t) /\ Len(t) = Len(s) /\ t[Len(s)] = x
         /\ \A i \in 1..(Len(s) - 1) : t[i] = s[i]
<1> DEFINE S == ToSet(s) \cup {x}
<1>1. s \in Seq(S) /\ x \in S /\ Len(s) \in 1..Len(s)
  BY SeqMonotonic, SequenceFacts DEF IsSeq
<1> HIDE DEF S
<1>2. /\ t \in Seq(S) /\ Len(t) = Len(s)
      /\ \A j \in 1..Len(s) : t[j] = IF j = Len(s) THEN x ELSE s[j]
  BY <1>1, ExceptSeq
<1>3. Len(s) \in Nat
  BY SequenceFacts
<1>4. IsSeq(t)
  BY <1>2, SequenceOfAny
<1> QED BY <1>1, <1>2, <1>3, <1>4

\* The first ones only.
LEMMA Shortened ==
  ASSUME NEW s, IsSeq(s), NEW k \in 1..Len(s)
  PROVE  /\ IsSeq(SubSeq(s, 1, k)) /\ Len(SubSeq(s, 1, k)) = k
         /\ \A i \in 1..k : SubSeq(s, 1, k)[i] = s[i]
<1> DEFINE t == SubSeq(s, 1, k)
<1>1. Len(s) \in Nat /\ k \in Int /\ 1 \in Int /\ \A i \in 1..k : s[i] \in ToSet(s)
  BY SequenceFacts DEF ToSet
<1>2. /\ t \in Seq(ToSet(s)) /\ Len(t) = k
      /\ \A i \in 1..(k - 1 + 1) : t[i] = s[1 + i - 1]
  BY <1>1, SubSeqProperties
<1>3. IsSeq(t)
  BY <1>2, SequenceOfAny
<1> QED BY <1>1, <1>2, <1>3

\* One before a few.
LEMMA Together ==
  /\ \A a : <<a>> \o << >> = <<a>>
  /\ \A a, b : <<a>> \o <<b>> = <<a, b>>
  /\ \A a, b, c : <<a>> \o <<b, c>> = <<a, b, c>>
  /\ \A a, b, c, d : <<a>> \o <<b, c, d>> = <<a, b, c, d>>
  /\ \A a, b, c, d, e : <<a>> \o <<b, c, d, e>> = <<a, b, c, d, e>>
<1>1. ASSUME NEW a
      PROVE  <<a>> \o << >> = <<a>>
  <2>1. <<a>> \in Seq({a})
    OBVIOUS
  <2> QED BY <2>1, ConcatEmptySeq
<1>2. ASSUME NEW a, NEW b
      PROVE  <<a>> \o <<b>> = <<a, b>>
  <2> DEFINE S == {a, b}
             s == <<a>> \o <<b>>
  <2>1. <<a>> \in Seq(S) /\ <<b>> \in Seq(S) /\ <<a, b>> \in Seq(S)
    OBVIOUS
  <2> HIDE DEF S
  <2>2. s \in Seq(S) /\ Len(s) = 2 /\ s[1] = a /\ s[2] = b
    BY <2>1, ConcatProperties
  <2> HIDE DEF s
  <2>3. s = <<a, b>>
    BY <2>1, <2>2, SeqEqual
  <2> QED BY <2>3 DEF s
<1>3. ASSUME NEW a, NEW b, NEW c
      PROVE  <<a>> \o <<b, c>> = <<a, b, c>>
  <2> DEFINE S == {a, b, c}
             s == <<a>> \o <<b, c>>
  <2>1. <<a>> \in Seq(S) /\ <<b, c>> \in Seq(S) /\ <<a, b, c>> \in Seq(S)
    OBVIOUS
  <2> HIDE DEF S
  <2>2. s \in Seq(S) /\ Len(s) = 3 /\ s[1] = a /\ s[2] = b /\ s[3] = c
    BY <2>1, ConcatProperties
  <2> HIDE DEF s
  <2>3. s = <<a, b, c>>
    BY <2>1, <2>2, SeqEqual
  <2> QED BY <2>3 DEF s
<1>4. ASSUME NEW a, NEW b, NEW c, NEW d
      PROVE  <<a>> \o <<b, c, d>> = <<a, b, c, d>>
  <2> DEFINE S == {a, b, c, d}
             s == <<a>> \o <<b, c, d>>
  <2>1. <<a>> \in Seq(S) /\ <<b, c, d>> \in Seq(S) /\ <<a, b, c, d>> \in Seq(S)
    OBVIOUS
  <2> HIDE DEF S
  <2>2. s \in Seq(S) /\ Len(s) = 4 /\ s[1] = a /\ s[2] = b /\ s[3] = c /\ s[4] = d
    BY <2>1, ConcatProperties
  <2> HIDE DEF s
  <2>3. s = <<a, b, c, d>>
    BY <2>1, <2>2, SeqEqual
  <2> QED BY <2>3 DEF s
<1>5. ASSUME NEW a, NEW b, NEW c, NEW d, NEW e
      PROVE  <<a>> \o <<b, c, d, e>> = <<a, b, c, d, e>>
  <2> DEFINE S == {a, b, c, d, e}
             s == <<a>> \o <<b, c, d, e>>
  <2>1. <<a>> \in Seq(S) /\ <<b, c, d, e>> \in Seq(S) /\ <<a, b, c, d, e>> \in Seq(S)
    OBVIOUS
  <2> HIDE DEF S
  <2>2. s \in Seq(S) /\ Len(s) = 5 /\ s[1] = a /\ s[2] = b /\ s[3] = c /\ s[4] = d /\ s[5] = e
    BY <2>1, ConcatProperties
  <2> HIDE DEF s
  <2>3. s = <<a, b, c, d, e>>
    BY <2>1, <2>2, SeqEqual
  <2> QED BY <2>3 DEF s
<1> QED BY ONLY <1>1, <1>2, <1>3, <1>4, <1>5

\* The first of a few, and the others.
LEMMA Fewer ==
  /\ \A a : Head(<<a>>) = a /\ Tail(<<a>>) = << >> /\ Len(<<a>>) = 1
  /\ \A a, b : Head(<<a, b>>) = a /\ Tail(<<a, b>>) = <<b>> /\ Len(<<a, b>>) = 2
  /\ \A a, b, c : Head(<<a, b, c>>) = a /\ Tail(<<a, b, c>>) = <<b, c>> /\ Len(<<a, b, c>>) = 3
  /\ \A a, b, c, d : Head(<<a, b, c, d>>) = a /\ Tail(<<a, b, c, d>>) = <<b, c, d>> /\ Len(<<a, b, c, d>>) = 4
  /\ \A a, b, c, d, e : Head(<<a, b, c, d, e>>) = a /\ Tail(<<a, b, c, d, e>>) = <<b, c, d, e>> /\ Len(<<a, b, c, d, e>>) = 5
<1>1. ASSUME NEW a
      PROVE  Head(<<a>>) = a /\ Tail(<<a>>) = << >> /\ Len(<<a>>) = 1
  OBVIOUS
<1>2. ASSUME NEW a, NEW b
      PROVE  Head(<<a, b>>) = a /\ Tail(<<a, b>>) = <<b>> /\ Len(<<a, b>>) = 2
  OBVIOUS
<1>3. ASSUME NEW a, NEW b, NEW c
      PROVE  Head(<<a, b, c>>) = a /\ Tail(<<a, b, c>>) = <<b, c>> /\ Len(<<a, b, c>>) = 3
  OBVIOUS
<1>4. ASSUME NEW a, NEW b, NEW c, NEW d
      PROVE  Head(<<a, b, c, d>>) = a /\ Tail(<<a, b, c, d>>) = <<b, c, d>> /\ Len(<<a, b, c, d>>) = 4
  OBVIOUS
<1>5. ASSUME NEW a, NEW b, NEW c, NEW d, NEW e
      PROVE  Head(<<a, b, c, d, e>>) = a /\ Tail(<<a, b, c, d, e>>) = <<b, c, d, e>> /\ Len(<<a, b, c, d, e>>) = 5
  OBVIOUS
<1> QED BY ONLY <1>1, <1>2, <1>3, <1>4, <1>5

LEMMA TwoAndOne == \A a, b, c : <<a, b>> \o <<c>> = <<a, b, c>>
<1> TAKE a, b, c
<1> DEFINE S == {a, b, c}
           s == <<a, b>> \o <<c>>
<1>1. <<a, b>> \in Seq(S) /\ <<c>> \in Seq(S) /\ <<a, b, c>> \in Seq(S)
  OBVIOUS
<1> HIDE DEF S
<1>2. s \in Seq(S) /\ Len(s) = 3 /\ s[1] = a /\ s[2] = b /\ s[3] = c
  BY <1>1, ConcatProperties
<1> HIDE DEF s
<1>3. s = <<a, b, c>>
  BY <1>1, <1>2, SeqEqual
<1> QED BY <1>3 DEF s

LEMMA NoneBefore ==
  /\ \A a, b : << >> \o <<a, b>> = <<a, b>>
  /\ \A a, b, c, d : << >> \o <<a, b, c, d>> = <<a, b, c, d>>
<1>1. ASSUME NEW a, NEW b
      PROVE  << >> \o <<a, b>> = <<a, b>>
  <2>1. <<a, b>> \in Seq({a, b})
    OBVIOUS
  <2> QED BY <2>1, ConcatEmptySeq
<1>2. ASSUME NEW a, NEW b, NEW c, NEW d
      PROVE  << >> \o <<a, b, c, d>> = <<a, b, c, d>>
  <2>1. <<a, b, c, d>> \in Seq({a, b, c, d})
    OBVIOUS
  <2> QED BY <2>1, ConcatEmptySeq
<1> QED BY ONLY <1>1, <1>2

-----------------------------------------------------------------------------
(* What stays true as the parser goes on.                                  *)

\* The tokens stay, the position and the report do not go back.
Onward == tokens' = tokens /\ at' \in {at, at + 1} /\ (reported => reported')

LEMMA SameTokens ==
  ASSUME tokens' = tokens
  PROVE  /\ Callable' = Callable
         /\ \A words : Uses(words)' = Uses(words)
         /\ \A s, t : Adjacent(s, t)' = Adjacent(s, t)
BY DEF Callable, Uses, Adjacent

LEMMA SoundForGood ==
  ASSUME Onward
  PROVE  /\ Excused => Excused'
         /\ \A n : NamedUnion(n) => NamedUnion(n)'
         /\ \A n : SoundUnion(n) => SoundUnion(n)'
         /\ \A n, from : SoundMember(n, from) => SoundMember(n, from)'
         /\ \A n : Sound(n) => Sound(n)'
         /\ \A c : SoundCall(c) => SoundCall(c)'
<1>1. Excused => Excused'
  BY SameTokens DEF Onward, Excused
<1>2. \A n : NamedUnion(n) => NamedUnion(n)'
  BY SameTokens DEF Onward, NamedUnion
<1>3. \A n : SoundUnion(n) => SoundUnion(n)'
  BY <1>2 DEF SoundUnion
<1>4. \A n, from : SoundMember(n, from) => SoundMember(n, from)'
  BY <1>1, <1>3 DEF SoundMember
<1>5. \A n : SoundElement(n) => SoundElement(n)'
  BY <1>4 DEF SoundElement
<1>6. \A n : SoundStruct(n) => SoundStruct(n)'
  BY <1>5 DEF SoundStruct
<1>7. \A n : Sound(n) => Sound(n)'
  BY <1>3, <1>5, <1>6 DEF Sound
<1>8. \A c : SoundCall(c) => SoundCall(c)'
  BY <1>7 DEF SoundCall
<1> QED BY <1>1, <1>2, <1>3, <1>4, <1>7, <1>8

LEMMA CallsForGood ==
  ASSUME Onward, at \in Nat
  PROVE  /\ \A c : IsCall(c) => IsCall(c)'
         /\ \A c : c.at \in Nat /\ Started(c) => Started(c)'
         /\ \A c, d, e : c.at \in Nat /\ Waiting(c, d) /\ e.rule = d.rule /\ e.at = d.at
                            => Waiting(c, e)'
<1>0. at' \in Nat /\ at <= at'
  BY DEF Onward
<1>1. \A c : IsCall(c) => IsCall(c)'
  BY <1>0, SameTokens DEF Onward, IsCall
<1>2. ASSUME NEW c, c.at \in Nat, Started(c)
      PROVE  Started(c)'
  <2>1. c.at < at'
    BY <1>0, <1>2 DEF Started
  <2> QED BY <1>2, <2>1 DEF Started
<1>3. ASSUME NEW c, NEW d, NEW e, c.at \in Nat, Waiting(c, d), e.rule = d.rule, e.at = d.at
      PROVE  Waiting(c, e)'
  <2>1. c.rule \in Starting => Started(c)'
    BY <1>2, <1>3 DEF Waiting
  <2>2. c.rule = "Union" => NamedUnion(c)'
    BY <1>3, SoundForGood DEF Waiting
  <2>3. c.todo \in Seq(Body(Callable))'
    <3>1. c.todo \in Seq(Body(Callable))
      BY <1>3 DEF Waiting
    <3> QED BY <3>1, SameTokens DEF Onward
  <2>4. \A i \in DOMAIN c.kids : Before(c.kids[i], e.at)
    BY <1>3 DEF Waiting
  <2>5. /\ c.at <= e.at
        /\ c.rule = "Union" => Len(c.kids) >= 2 /\ c.todo \in UnionLeft
        /\ c.rule = "StructElement" =>
              c.todo = << >> /\ c.kids = << >> /\ e.rule \in {"Union", "Field"} /\ e.at = c.at
    BY <1>3 DEF Waiting
  <2> QED BY <2>1, <2>2, <2>3, <2>4, <2>5 DEF Waiting
<1> QED BY <1>1, <1>2, <1>3

-----------------------------------------------------------------------------
(* A step begins.                                                          *)

AtWork == ParserInvariant /\ pc = "parse"

LEMMA FactsOfCalls ==
  ASSUME Calls, tokens \in Seq(TokenType), at \in 1..(Len(tokens) + 1)
  PROVE  /\ at \in Nat /\ at # 0 /\ tokens \in Seq(TokenType) /\ at <= Len(tokens) + 1
         /\ IsSeq(calls) /\ Len(calls) \in Nat /\ Len(calls) # 0 /\ DOMAIN calls = 1..Len(calls)
         /\ \A d \in 1..Len(calls) : IsCall(calls[d]) /\ SoundCall(calls[d]) /\ calls[d].at \in Nat
         /\ calls[1].rule = "Module" /\ ~calls[1].kept
         /\ \A d \in 1..(Len(calls) - 1) : Waiting(calls[d], calls[d + 1])
         /\ IsCall(Innermost) /\ SoundCall(Innermost) /\ Working(Innermost)
         /\ Innermost.at \in Nat /\ Innermost.at # 0 /\ Innermost.at <= at
<1>1. Calls /\ tokens \in Seq(TokenType) /\ at \in 1..(Len(tokens) + 1)
  OBVIOUS
<1>2. Len(tokens) \in Nat
  BY <1>1
<1>3. at \in Nat /\ at # 0 /\ at <= Len(tokens) + 1
  BY <1>1, <1>2
<1>4. /\ IsSeq(calls) /\ calls # << >>
      /\ \A d \in DOMAIN calls : IsCall(calls[d]) /\ SoundCall(calls[d])
      /\ calls[1].rule = "Module" /\ ~calls[1].kept
      /\ \A d \in 1..(Len(calls) - 1) : Waiting(calls[d], calls[d + 1])
      /\ Working(Innermost)
  BY <1>1 DEF Calls
<1>5. Len(calls) \in Nat /\ Len(calls) # 0 /\ DOMAIN calls = 1..Len(calls)
  BY <1>4, SequenceFacts
<1>6. Len(calls) \in DOMAIN calls
  BY <1>5
<1>7. IsCall(Innermost) /\ SoundCall(Innermost)
  BY <1>4, <1>6 DEF Innermost
<1>8. \A d \in DOMAIN calls : calls[d].at \in 1..at
  BY <1>4 DEF IsCall
<1>9. \A d \in 1..Len(calls) : calls[d].at \in Nat
  BY <1>3, <1>5, <1>8
<1>10. Innermost.at \in Nat /\ Innermost.at # 0 /\ Innermost.at <= at
  <2>1. Innermost.at \in 1..at
    BY <1>6, <1>8 DEF Innermost
  <2> QED BY <1>3, <2>1
<1>11. \A d \in 1..Len(calls) : IsCall(calls[d]) /\ SoundCall(calls[d]) /\ calls[d].at \in Nat
  BY <1>4, <1>5, <1>9
<1> QED BY ONLY <1>1, <1>3, <1>4, <1>5, <1>7, <1>10, <1>11

LEMMA CallFacts ==
  ASSUME AtWork
  PROVE  /\ at \in Nat /\ at # 0 /\ tokens \in Seq(TokenType) /\ at <= Len(tokens) + 1
         /\ IsSeq(calls) /\ Len(calls) \in Nat /\ Len(calls) # 0 /\ DOMAIN calls = 1..Len(calls)
         /\ \A d \in 1..Len(calls) : IsCall(calls[d]) /\ SoundCall(calls[d]) /\ calls[d].at \in Nat
         /\ calls[1].rule = "Module" /\ ~calls[1].kept
         /\ \A d \in 1..(Len(calls) - 1) : Waiting(calls[d], calls[d + 1])
         /\ IsCall(Innermost) /\ SoundCall(Innermost) /\ Working(Innermost)
         /\ Innermost.at \in Nat /\ Innermost.at # 0 /\ Innermost.at <= at
BY FactsOfCalls DEF AtWork, ParserInvariant

\* The next instruction.
LEMMA TodoFacts ==
  ASSUME AtWork, Innermost.todo # << >>
  PROVE  /\ Innermost.todo \in Seq(Body(Callable) \cup Ready)
         /\ Todo \in Body(Callable) \cup Ready
         /\ Tail(Innermost.todo) \in Seq(Body(Callable))
         /\ Len(Innermost.todo) \in Nat \ {0} /\ Todo = Innermost.todo[1]
<1>1. /\ Innermost.todo \in Seq(Body(Callable) \cup Ready)
      /\ Tail(Innermost.todo) \in Seq(Body(Callable))
  BY CallFacts DEF Working
<1>2. Todo \in Body(Callable) \cup Ready
  BY <1>1, HeadTailProperties DEF Todo
<1>3. Len(Innermost.todo) \in Nat \ {0} /\ Todo = Innermost.todo[1]
  BY <1>1, EmptySeq DEF Todo
<1> QED BY <1>1, <1>2, <1>3

-----------------------------------------------------------------------------
(* The calls after a step.                                                 *)

\* The calls that waited for another still wait for it, whatever it has become.
LEMMA StillWaiting ==
  ASSUME AtWork, Onward, NEW k \in 1..Len(calls), NEW c,
         c.rule = calls[k].rule, c.at = calls[k].at, c.kept = calls[k].kept,
         NEW s, s[k] = c, \A i \in 1..(k - 1) : s[i] = calls[i]
  PROVE  /\ s[1].rule = "Module" /\ ~s[1].kept
         /\ \A i \in 1..(k - 1) : /\ IsCall(s[i])' /\ SoundCall(s[i])'
                                  /\ Waiting(s[i], s[i + 1])'
<1>1. Len(calls) \in Nat /\ k \in Nat /\ k # 0 /\ k <= Len(calls) /\ at \in Nat
  BY CallFacts
<1>2. calls[1].rule = "Module" /\ ~calls[1].kept
  BY CallFacts
<1>3. s[1].rule = "Module" /\ ~s[1].kept
  <2>1. CASE k = 1
    BY <1>1, <1>2, <2>1
  <2>2. CASE k # 1
    <3>1. 1 \in 1..(k - 1)
      BY <1>1, <2>2
    <3> QED BY <1>2, <3>1
  <2> QED BY <2>1, <2>2
<1>4. ASSUME NEW i \in 1..(k - 1)
      PROVE  IsCall(s[i])' /\ SoundCall(s[i])' /\ Waiting(s[i], s[i + 1])'
  <2>1. PICK x, y, z : x = calls[i] /\ y = calls[i + 1] /\ z = s[i + 1]
    OBVIOUS
  <2>2. s[i] = x
    BY <2>1
  <2>3. z.rule = y.rule /\ z.at = y.at
    <3>1. CASE i + 1 = k
      BY <1>1, <2>1, <3>1
    <3>2. CASE i + 1 # k
      <4>1. i + 1 \in 1..(k - 1)
        BY <1>1, <3>2
      <4> QED BY <2>1, <4>1
    <3> QED BY <3>1, <3>2
  <2>4. i \in 1..Len(calls) /\ i \in 1..(Len(calls) - 1)
    BY <1>1
  <2>5. IsCall(x) /\ SoundCall(x) /\ x.at \in Nat /\ Waiting(x, y)
    BY <2>1, <2>4, CallFacts
  <2>6. IsCall(x)' /\ SoundCall(x)' /\ Waiting(x, z)'
    BY <1>1, <2>3, <2>5, SoundForGood, CallsForGood
  <2> QED BY <2>1, <2>2, <2>6
<1> QED BY <1>3, <1>4

\* A call goes on, and those that it has made are gone.
LEMMA GoesOn ==
  ASSUME AtWork, Onward, NEW k \in 1..Len(calls), NEW c,
         c.rule = calls[k].rule, c.at = calls[k].at, c.kept = calls[k].kept,
         NEW s, IsSeq(s), Len(s) = k, s[k] = c, \A i \in 1..(k - 1) : s[i] = calls[i],
         calls' = s, IsCall(c)', SoundCall(c)', Working(c)'
  PROVE  Calls'
<1>1. k \in Nat /\ k # 0
  BY CallFacts
<1>2. DOMAIN s = 1..k /\ s # << >>
  BY ONLY IsSeq(s), Len(s) = k, <1>1, SequenceFacts
<1>3. /\ s[1].rule = "Module" /\ ~s[1].kept
      /\ \A i \in 1..(k - 1) : IsCall(s[i])' /\ SoundCall(s[i])' /\ Waiting(s[i], s[i + 1])'
  BY StillWaiting
<1>4. \A i \in 1..k : IsCall(s[i])' /\ SoundCall(s[i])'
  <2> TAKE i \in 1..k
  <2>1. CASE i = k
    BY <2>1
  <2>2. CASE i # k
    <3>1. i \in 1..(k - 1)
      BY <1>1, <2>2
    <3> QED BY ONLY <1>3, <3>1
  <2> QED BY <2>1, <2>2
<1>5. Working(s[k])'
  OBVIOUS
<1> QED BY ONLY calls' = s, IsSeq(s), Len(s) = k, <1>2, <1>3, <1>4, <1>5 DEF Calls, Innermost

\* The innermost call goes on.
LEMMA Proceeds ==
  ASSUME AtWork, Onward, NEW c,
         c.rule = Innermost.rule, c.at = Innermost.at, c.kept = Innermost.kept,
         calls' = [calls EXCEPT ![Len(calls)] = c],
         IsCall(c)', SoundCall(c)', Working(c)'
  PROVE  Calls'
<1> PICK k, s : k = Len(calls) /\ s = calls'
  OBVIOUS
<1>1. /\ IsSeq(calls) /\ k \in 1..Len(calls) /\ calls # << >> /\ Innermost = calls[k]
      /\ k = Len(calls) /\ s = [calls EXCEPT ![Len(calls)] = c] /\ calls' = s
  BY CallFacts, SequenceFacts DEF Innermost
<1>2. IsSeq(s) /\ Len(s) = k /\ s[k] = c
  <2>1. IsSeq(s) /\ Len(s) = Len(calls) /\ s[Len(calls)] = c
    BY ONLY <1>1, Replaced
  <2> QED BY ONLY <1>1, <2>1
<1>3. ASSUME NEW i \in 1..(k - 1)
      PROVE  s[i] = calls[i]
  BY ONLY <1>1, <1>3, Replaced
<1> QED BY <1>1, <1>2, <1>3, GoesOn

\* Another call is made.
LEMMA Enters ==
  ASSUME AtWork, Onward, NEW c, NEW d,
         c.rule = Innermost.rule, c.at = Innermost.at, c.kept = Innermost.kept,
         calls' = Append([calls EXCEPT ![Len(calls)] = c], d),
         IsCall(c)', SoundCall(c)', Waiting(c, d)', IsCall(d)', SoundCall(d)', Working(d)'
  PROVE  Calls'
<1> PICK n, s, t : n = Len(calls) /\ s = [calls EXCEPT ![n] = c] /\ t = calls'
  OBVIOUS
<1>1. /\ IsSeq(calls) /\ n \in Nat /\ n # 0 /\ calls # << >> /\ Innermost = calls[n]
      /\ ~calls[1].kept
  BY CallFacts, SequenceFacts DEF Innermost
<1>2. /\ IsSeq(s) /\ Len(s) = n /\ s[n] = c
      /\ \A i \in 1..(n - 1) : s[i] = calls[i]
  <2>1. n = Len(calls) /\ s = [calls EXCEPT ![Len(calls)] = c]
    OBVIOUS
  <2>2. IsSeq(s) /\ Len(s) = n /\ s[n] = c
    <3>1. IsSeq(s) /\ Len(s) = Len(calls) /\ s[Len(calls)] = c
      BY ONLY <1>1, <2>1, Replaced
    <3> QED BY ONLY <2>1, <3>1
  <2>3. ASSUME NEW i \in 1..(n - 1)
        PROVE  s[i] = calls[i]
    BY ONLY <1>1, <2>1, <2>3, Replaced
  <2> QED BY ONLY <2>1, <2>2, <2>3
<1>3. /\ s[1].rule = "Module" /\ ~s[1].kept
      /\ \A i \in 1..(n - 1) : IsCall(s[i])' /\ SoundCall(s[i])' /\ Waiting(s[i], s[i + 1])'
  <2>1. n \in 1..Len(calls) /\ c.rule = calls[n].rule /\ c.at = calls[n].at /\ c.kept = calls[n].kept
    BY <1>1
  <2> QED BY ONLY AtWork, Onward, <1>2, <2>1, StillWaiting
<1>4. /\ IsSeq(t) /\ Len(t) = n + 1 /\ t[n + 1] = d
      /\ \A i \in 1..n : t[i] = s[i]
  <2>1. t = Append(s, d)
    OBVIOUS
  <2> QED BY ONLY <1>2, <2>1, Appended
<1>5. DOMAIN t = 1..(n + 1) /\ t # << >> /\ Len(t) - 1 = n
  BY ONLY <1>1, <1>4, SequenceFacts
<1>6. ASSUME NEW i \in 1..(n + 1)
      PROVE  IsCall(t[i])' /\ SoundCall(t[i])'
  <2>1. CASE i = n
    BY ONLY <1>1, <1>2, <1>4, <2>1, IsCall(c)', SoundCall(c)'
  <2>2. CASE i = n + 1
    BY ONLY <1>4, <2>2, IsCall(d)', SoundCall(d)'
  <2>3. CASE i # n /\ i # n + 1
    <3>1. i \in 1..n /\ i \in 1..(n - 1)
      BY <1>1, <2>3
    <3> QED BY ONLY <1>3, <1>4, <3>1
  <2> QED BY <2>1, <2>2, <2>3
<1>7. ASSUME NEW i \in 1..n
      PROVE  Waiting(t[i], t[i + 1])'
  <2>1. CASE i = n
    BY ONLY <1>1, <1>2, <1>4, <2>1, Waiting(c, d)'
  <2>2. CASE i # n
    <3>1. i \in 1..n /\ i \in 1..(n - 1) /\ i + 1 \in 1..n
      BY <1>1, <2>2
    <3> QED BY ONLY <1>3, <1>4, <3>1
  <2> QED BY <2>1, <2>2
<1>8. t[1].rule = "Module" /\ ~t[1].kept
  <2>1. 1 \in 1..n
    BY <1>1
  <2> QED BY ONLY <1>3, <1>4, <2>1
<1>9. Working(t[n + 1])'
  BY ONLY <1>4, Working(d)'
<1> QED BY ONLY t = calls', <1>4, <1>5, <1>6, <1>7, <1>8, <1>9 DEF Calls, Innermost

\* What was written before a place was written before a later one.
LEMMA BeforeLater ==
  ASSUME NEW n, NEW b \in Nat, NEW d \in Nat, b <= d, Before(n, b)
  PROVE  Before(n, d)
BY DEF Before, NameBefore

\* A call is given what one that it made has returned, or nil for one further in.
LEMMA Gave ==
  ASSUME AtWork, Onward, at' = at, NEW k \in 1..(Len(calls) - 1), NEW n,
         NEW from, from = calls[k].at,
         calls' = Given(SubSeq(calls, 1, k), n),
         Sound(n)', Before(n, at), n.rule \notin Identifiers,
         n.at \in Nat, n.rule # "nil" => n.at = calls[k + 1].at,
         calls[k].rule = "StructElement" => SoundMember(n, from)'
  PROVE  Calls'
<1> PICK w, d, c, s, kids :
      /\ w = calls[k] /\ d = calls[k + 1] /\ kids = Append(w.kids, n)
      /\ c = [w EXCEPT !.kids = kids] /\ s = calls'
  OBVIOUS
<1>1. /\ IsSeq(calls) /\ k \in 1..Len(calls) /\ k + 1 \in 1..Len(calls)
      /\ at \in Nat /\ Len(calls) \in Nat /\ k \in Nat
  BY CallFacts
<1>2. /\ IsCall(w) /\ SoundCall(w) /\ Waiting(w, d) /\ w.at \in Nat
      /\ IsCall(d) /\ d.at \in Nat /\ d.at <= at
  <2>1. d.at \in 1..at
    BY <1>1, CallFacts DEF IsCall
  <2> QED BY <1>1, <2>1, CallFacts
<1>3. c = [rule |-> w.rule, at |-> w.at, kids |-> kids, todo |-> w.todo, kept |-> w.kept]
  BY <1>2 DEF IsCall
<1>4. /\ c.rule = w.rule /\ c.at = w.at /\ c.kids = kids /\ c.todo = w.todo /\ c.kept = w.kept
  BY <1>3
<1>5. IsCall(c)'
  <2>1. IsCall(w)'
    BY <1>1, <1>2, CallsForGood
  <2> QED BY ONLY <1>3, <1>4, <2>1 DEF IsCall
<1>6. /\ IsSeq(w.kids) /\ Len(w.kids) \in Nat /\ DOMAIN w.kids = 1..Len(w.kids)
      /\ IsSeq(kids) /\ Len(kids) = Len(w.kids) + 1 /\ DOMAIN kids = 1..(Len(w.kids) + 1)
      /\ kids[Len(w.kids) + 1] = n /\ kids # << >>
      /\ \A i \in 1..Len(w.kids) : kids[i] = w.kids[i]
  <2>1. IsSeq(w.kids)
    BY <1>2 DEF SoundCall
  <2>2. Len(w.kids) \in Nat /\ DOMAIN w.kids = 1..Len(w.kids)
    BY ONLY <2>1, SequenceFacts
  <2>3. kids = Append(w.kids, n)
    OBVIOUS
  <2>4. IsSeq(kids) /\ Len(kids) = Len(w.kids) + 1 /\ kids[Len(w.kids) + 1] = n
    BY ONLY <2>1, <2>3, Appended
  <2>5. \A i \in 1..Len(w.kids) : kids[i] = w.kids[i]
    BY ONLY <2>1, <2>3, Appended
  <2>6. DOMAIN kids = 1..(Len(w.kids) + 1) /\ kids # << >>
    BY ONLY <2>2, <2>4, SequenceFacts
  <2> QED BY <2>1, <2>2, <2>4, <2>5, <2>6
<1>7. \A i \in 1..Len(w.kids) : Before(kids[i], d.at) /\ Before(kids[i], at)
  <2> TAKE i \in 1..Len(w.kids)
  <2>1. Before(kids[i], d.at)
    BY <1>2, <1>6 DEF Waiting
  <2> QED BY ONLY <1>1, <1>2, <2>1, BeforeLater
<1>8. SoundCall(c)'
  <2>0. \A i \in DOMAIN kids : kids[i].at \in Nat
    <3>1. n.at \in Nat
      OBVIOUS
    <3>2. \A i \in 1..Len(w.kids) : w.kids[i].at \in Nat
      BY <1>2, <1>6 DEF SoundCall, Ordered
    <3> TAKE i \in DOMAIN kids
    <3>3. CASE i \in 1..Len(w.kids)
      BY <1>6, <3>2, <3>3
    <3>4. CASE i \notin 1..Len(w.kids)
      BY <1>6, <3>1, <3>4
    <3> QED BY <3>3, <3>4
  <2>1. Ordered(kids)
    <3> SUFFICES ASSUME NEW i \in DOMAIN kids, NEW j \in DOMAIN kids, i < j, kids[j].rule # "nil"
                 PROVE  Before(kids[i], kids[j].at)
      BY <2>0 DEF Ordered
    <3>1. i \in 1..Len(w.kids)
      BY <1>6
    <3>2. CASE j \in 1..Len(w.kids)
      <4>1. Ordered(w.kids)
        BY <1>2 DEF SoundCall
      <4> QED BY <1>6, <3>1, <3>2, <4>1 DEF Ordered
    <3>3. CASE j \notin 1..Len(w.kids)
      <4>1. kids[j] = n
        BY <1>6, <3>3
      <4> QED BY <1>7, <3>1, <4>1
    <3> QED BY <3>2, <3>3
  <2>2. ASSUME NEW i \in DOMAIN kids
        PROVE  Sound(kids[i])'
    <3>1. CASE i \in 1..Len(w.kids)
      <4>1. PICK x : x = kids[i]
        OBVIOUS
      <4>2. Sound(x)
        BY <1>2, <1>6, <3>1, <4>1 DEF SoundCall
      <4>3. Sound(x)'
        BY <4>2, SoundForGood
      <4> QED BY <4>1, <4>3
    <3>2. CASE i \notin 1..Len(w.kids)
      <4>1. kids[i] = n
        BY <1>6, <3>2
      <4> QED BY <4>1
    <3> QED BY <3>1, <3>2
  <2> QED BY <1>4, <1>6, <2>1, <2>2 DEF SoundCall
<1>9. Working(c)'
  <2>1. ASSUME NEW i \in DOMAIN kids
        PROVE  Before(kids[i], at)'
    <3>1. CASE i \in 1..Len(w.kids)
      BY <1>7, <3>1
    <3>2. CASE i \notin 1..Len(w.kids)
      BY <1>6, <3>2
    <3> QED BY <3>1, <3>2
  <2>2. /\ w.todo \in Seq(Body(Callable) \cup Ready)'
        /\ w.todo # << >> => Tail(w.todo) \in Seq(Body(Callable))'
    <3>1. w.todo \in Seq(Body(Callable))
      BY <1>2 DEF Waiting
    <3>2. w.todo \in Seq(Body(Callable))'
      BY <3>1, SameTokens DEF Onward
    <3> HIDE <3>1
    <3>3. PICK B, C : B = Body(Callable)' /\ C = (Body(Callable) \cup Ready)'
      OBVIOUS
    <3>4. B \subseteq C /\ w.todo \in Seq(B)
      BY <3>2, <3>3
    <3>5. w.todo \in Seq(C)
      BY ONLY <3>4, SeqMonotonic
    <3>6. w.todo # << >> => Tail(w.todo) \in Seq(B)
      BY ONLY <3>4, HeadTailProperties
    <3> QED BY ONLY <3>3, <3>5, <3>6
  <2>3. w.rule \in Starting => Started(c)'
    <3>1. ASSUME w.rule \in Starting
          PROVE  Started(w)'
      <4>1. Started(w)
        BY <1>2, <3>1 DEF Waiting
      <4> QED BY <1>1, <1>2, <4>1, CallsForGood
    <3>2. w.kids # << >> => c.kids[1] = w.kids[1]
      <4>1. w.kids # << >> => 1 \in 1..Len(w.kids)
        BY <1>6, SequenceFacts
      <4> QED BY <1>4, <1>6, <4>1
    <3> QED BY <1>4, <1>6, <3>1, <3>2 DEF Started
  <2>4. w.rule = "Union" => UnionAtWork(c)'
    <3> SUFFICES ASSUME w.rule = "Union"
                 PROVE  UnionAtWork(c)'
      OBVIOUS
    <3>1. Len(w.kids) >= 2 /\ NamedUnion(w) /\ w.todo \in UnionLeft
      BY <1>2 DEF Waiting
    <3>2. NamedUnion(w)'
      BY <3>1, SoundForGood
    <3>3. c.kids[1] = w.kids[1] /\ c.kids[2] = w.kids[2] /\ Len(c.kids) >= 2
      BY <1>4, <1>6, <3>1
    <3>4. ASSUME NEW i \in 3..Len(c.kids)
          PROVE  /\ c.kids[i].rule \notin Identifiers
                 /\ c.kids[i].rule = "UnionField" => SoundField(c.kids[i])
      <4>1. CASE i \in 1..Len(w.kids)
        <5>1. i \in 3..Len(w.kids) /\ c.kids[i] = w.kids[i]
          BY <1>4, <1>6, <4>1
        <5> QED BY <3>1, <5>1 DEF NamedUnion
      <4>2. CASE i \notin 1..Len(w.kids)
        <5>1. c.kids[i] = n
          BY <1>4, <1>6, <4>2
        <5>2. n.rule = "UnionField" => SoundField(n)
          BY DEF Sound
        <5> QED BY <5>1, <5>2
      <4> QED BY <4>1, <4>2
    <3>5. NamedUnion(c)'
      BY <1>4, <3>2, <3>3, <3>4 DEF NamedUnion
    <3> QED BY <1>4, <3>1, <3>3, <3>5 DEF UnionAtWork
  <2>5. w.rule = "StructElement" => ElementAtWork(c)'
    <3> SUFFICES ASSUME w.rule = "StructElement"
                 PROVE  ElementAtWork(c)'
      OBVIOUS
    <3>1. w.todo = << >> /\ w.kids = << >>
      BY <1>2 DEF Waiting
    <3>2. Len(w.kids) = 0
      BY <3>1
    <3>3. Len(c.kids) = 1 /\ c.kids[1] = n
      BY <1>4, <1>6, <3>2
    <3>4. SoundMember(c.kids[1], c.at)'
      <4>1. SoundMember(n, from)'
        OBVIOUS
      <4>2. c.kids[1] = n /\ c.at = from
        BY <1>4, <3>3
      <4> QED BY ONLY <4>1, <4>2
    <3> QED BY <1>4, <3>1, <3>3, <3>4 DEF ElementAtWork
  <2> QED BY <1>4, <2>1, <2>2, <2>3, <2>4, <2>5 DEF Working
<1>10. IsSeq(s) /\ Len(s) = k /\ s[k] = c /\ \A i \in 1..(k - 1) : s[i] = calls[i]
  <2>1. PICK u : u = SubSeq(calls, 1, k)
    OBVIOUS
  <2>2. IsSeq(u) /\ Len(u) = k
    BY ONLY <1>1, <2>1, Shortened
  <2>3. \A i \in 1..k : u[i] = calls[i]
    BY ONLY <1>1, <2>1, Shortened
  <2>4. u # << >> /\ DOMAIN u = 1..k /\ u[k] = w
    BY <1>1, <2>2, <2>3, SequenceFacts
  <2>5. s = [u EXCEPT ![Len(u)] = c]
    <3>1. s = [u EXCEPT ![Len(u)].kids = Append(@, n)]
      BY <2>1 DEF Given
    <3>2. [u[Len(u)] EXCEPT !.kids = Append(@, n)] = c
      BY <2>2, <2>4
    <3> QED BY <3>1, <3>2
  <2>6. IsSeq(s) /\ Len(s) = k /\ s[k] = c
    <3>1. IsSeq(s) /\ Len(s) = Len(u) /\ s[Len(u)] = c
      BY ONLY <2>2, <2>4, <2>5, Replaced
    <3> QED BY ONLY <2>2, <3>1
  <2>7. \A i \in 1..(k - 1) : s[i] = u[i]
    BY ONLY <2>2, <2>4, <2>5, Replaced
  <2> QED BY <1>1, <2>3, <2>6, <2>7
<1>11. c.rule = calls[k].rule /\ c.at = calls[k].at /\ c.kept = calls[k].kept /\ calls' = s
  BY <1>4
<1> QED BY ONLY AtWork, Onward, <1>1, <1>5, <1>8, <1>9, <1>10, <1>11, GoesOn

-----------------------------------------------------------------------------
(* Names and words.                                                        *)

\* A function is not called what a token is.
LEMMA RuleWords ==
  /\ DOMAIN Rules \cap Identifiers = {}
  /\ {"Field", "UnionField", "Union", "StructElement", "StatementStruct", "nil", "EOF"} \cap TokenType = {}
  /\ StructRules \subseteq DOMAIN Rules
  /\ \A rule \in Callable : rule \notin Identifiers
<1>1. DOMAIN Rules \cap Identifiers = {}
  BY DEF Rules, Identifiers
<1>2. {"Field", "UnionField", "Union", "StructElement", "StatementStruct", "nil", "EOF"} \cap TokenType = {}
  BY DEF TokenType, Identifiers, IntegerTokens, FloatTokens
<1>3. StructRules \subseteq DOMAIN Rules
  BY DEF StructRules, Rules
<1>4. Callable \subseteq DOMAIN Rules
  BY DEF Callable
<1> QED BY <1>1, <1>2, <1>3, <1>4

\* What the functions for structs are called for.
LEMMA StructCalls ==
  ASSUME NEW rule \in Callable, rule \in StructRules
  PROVE  Uses({"struct"}) /\ Callable = DOMAIN Rules
BY DEF Callable

\* A union, and an element, with something left to do.
LEMMA UnionLeftWords ==
  /\ Tail(Tail(Union)) # << >> /\ Tail(Union) # << >>
  /\ <<Name>> \o Tail(Tail(Union)) # << >>
  /\ StructElement # << >> /\ <<Kept("Union")>> # << >> /\ <<Kept("Field")>> # << >>
<1>1. Len(Tail(Union)) = 5 /\ Len(Tail(Tail(Union))) = 4
  BY UnionInstructions
<1>2. PICK a, b, c, d, e : /\ Tail(Tail(Union)) = <<b, c, d, e>> /\ <<Name>> = <<a>>
  BY UnionInstructions
<1>3. <<Name>> \o Tail(Tail(Union)) = <<a, b, c, d, e>>
  <2>1. <<a>> \o <<b, c, d, e>> = <<a, b, c, d, e>>
    BY ONLY Together
  <2> QED BY ONLY <1>2, <2>1
<1>4. <<Name>> \o Tail(Tail(Union)) # << >>
  <2>1. <<a, b, c, d, e>> # << >>
    OBVIOUS
  <2> QED BY ONLY <1>3, <2>1
<1>5. Len(StructElement) = 1
  BY DEF StructElement
<1>6. StructElement # << >> /\ Tail(Union) # << >> /\ Tail(Tail(Union)) # << >>
  <2>1. Len(<< >>) = 0
    OBVIOUS
  <2>2. StructElement # << >>
    BY ONLY <1>5, <2>1
  <2>3. Tail(Union) # << >>
    BY ONLY <1>1, <2>1
  <2>4. Tail(Tail(Union)) # << >>
    <3>1. <<b, c, d, e>> # << >>
      OBVIOUS
    <3> QED BY ONLY <1>2, <3>1
  <2> QED BY ONLY <2>2, <2>3, <2>4
<1>7. <<Kept("Union")>> # << >> /\ <<Kept("Field")>> # << >>
  OBVIOUS
<1> QED BY ONLY <1>4, <1>6, <1>7

\* The innermost call of a function that begins with a token has stepped over it,
\* unless that is what it does next.
LEMMA HasStarted ==
  ASSUME AtWork, Innermost.rule \in Starting, Innermost.todo = << >> \/ Todo.do # "expect"
  PROVE  /\ Started(Innermost) /\ Innermost.kids # << >> /\ Innermost.at < at
         /\ Innermost.kids[1].rule \in First(Innermost.rule)
         /\ Innermost.kids[1].at = Innermost.at
<1>1. ASSUME NotStarted(Innermost)
      PROVE  FALSE
  <2>1. Innermost.todo = Rules[Innermost.rule]
    BY <1>1 DEF NotStarted
  <2>2. Len(Innermost.todo) > 0 /\ Innermost.todo[1].do = "expect"
    BY <2>1, FirstInstructions
  <2>3. Innermost.todo # << >>
    BY <2>2
  <2>4. Todo = Innermost.todo[1]
    BY <2>3, TodoFacts
  <2> QED BY <2>2, <2>3, <2>4
<1>2. Started(Innermost)
  BY <1>1, CallFacts DEF Working
<1> QED BY <1>2 DEF Started

-----------------------------------------------------------------------------
(* A call returns.                                                         *)

LEMMA Returned ==
  ASSUME AtWork, Innermost.todo = << >>
  PROVE  /\ Sound(Node(Innermost)) /\ Before(Node(Innermost), at)
         /\ Innermost.rule \notin Identifiers
         /\ Innermost.rule \in {"Union", "Field"} => SoundMember(Node(Innermost), Innermost.at)
<1> PICK c, n : c = Innermost /\ n = Node(Innermost)
  OBVIOUS
<1>1. n.rule = c.rule /\ n.at = c.at /\ n.kids = c.kids
  BY DEF Node
<1>2. /\ IsCall(c) /\ SoundCall(c) /\ Working(c) /\ c.todo = << >>
      /\ c.at \in Nat /\ c.at # 0 /\ at \in Nat
  BY CallFacts
<1>3. IsSeq(c.kids) /\ Ordered(c.kids) /\ \A i \in DOMAIN c.kids : Sound(c.kids[i])
  BY <1>2 DEF SoundCall
<1>4. c.rule \in Starting => /\ Started(c) /\ c.kids # << >> /\ c.at < at
                             /\ c.kids[1].rule \in First(c.rule) /\ c.kids[1].at = c.at
  BY <1>2, HasStarted
<1>5. c.rule \in Callable /\ c.rule \notin Identifiers
  BY <1>2, RuleWords DEF IsCall
<1>6. c.rule \in {"Field", "UnionField"} => SoundField(n)
  BY <1>1, <1>3, <1>4, FirstOfMembers DEF SoundField, Starting
<1>7. c.rule = "Union" => SoundUnion(n)
  <2> SUFFICES ASSUME c.rule = "Union"
               PROVE  SoundUnion(n)
    OBVIOUS
  <2>1. UnionAtWork(c)
    BY <1>2, <1>4 DEF Working, Starting
  <2>2. Len(c.kids) >= 2 /\ NamedUnion(c)
    BY <1>2, <2>1, UnionLeftWords DEF UnionAtWork
  <2>3. NamedUnion(n)
    BY <1>1, <2>2 DEF NamedUnion
  <2> QED BY <1>1, <1>3, <2>2, <2>3 DEF SoundUnion
<1>8. c.rule = "StructElement" => SoundElement(n)
  <2> SUFFICES ASSUME c.rule = "StructElement"
               PROVE  SoundElement(n)
    OBVIOUS
  <2>1. ElementAtWork(c)
    BY <1>2 DEF Working
  <2>2. Len(c.kids) = 1 /\ SoundMember(c.kids[1], c.at)
    BY <1>2, <2>1, UnionLeftWords DEF ElementAtWork
  <2> QED BY <1>1, <1>3, <2>2 DEF SoundElement
<1>9. c.rule = "StatementStruct" => SoundStruct(n)
  <2>1. ASSUME NEW i \in DOMAIN c.kids, c.kids[i].rule = "StructElement"
        PROVE  SoundElement(c.kids[i])
    BY <1>3, <2>1 DEF Sound
  <2> QED BY <1>1, <1>3, <2>1 DEF SoundStruct
<1>10. Sound(n)
  BY <1>1, <1>6, <1>7, <1>8, <1>9 DEF Sound
<1>11. Before(n, at)
  <2>1. NameBefore(n, at)
    <3> SUFFICES ASSUME n.rule \in Named
                 PROVE  n.at \in 1..(at - 1)
      BY DEF NameBefore
    <3>1. c.rule \in {"Field", "UnionField"}
      BY <1>1, <1>5 DEF Named
    <3>2. c.at < at
      BY <1>4, <3>1 DEF Starting
    <3> QED BY <1>1, <1>2, <3>2
  <2>2. \A i \in DOMAIN c.kids : Before(c.kids[i], at)
    BY <1>2 DEF Working
  <2>3. ASSUME NEW i \in DOMAIN n.kids
        PROVE  /\ NameBefore(n.kids[i], at)
               /\ \A j \in DOMAIN n.kids[i].kids : NameBefore(n.kids[i].kids[j], at)
    BY <1>1, <2>2, <2>3 DEF Before
  <2> QED BY <2>1, <2>3 DEF Before
<1>12. c.rule \in {"Union", "Field"} => SoundMember(n, c.at)
  BY <1>1, <1>6, <1>7 DEF SoundMember
<1> QED BY <1>5, <1>10, <1>11, <1>12

\* What is left to do when nothing was stepped over.
LEMMA Beginning ==
  ASSUME AtWork, at = 1
  PROVE  /\ Innermost.todo # << >> /\ Todo.do \in {"if", "call", "expect"}
         /\ Todo.do = "if" => Len(calls) = 1 /\ Innermost.todo = Module
         /\ Todo.do = "call" => /\ Len(calls) = 1
                                /\ Innermost.todo \in {<<Call("CommentBlock")>> \o Tail(Module), Tail(Module)}
         /\ Todo.do = "expect" => Len(calls) = 2
<1>1. Begun
  BY DEF AtWork, ParserInvariant
<1>2. Tail(Module) = <<Call("StatementSyntax"), Statements>>
  BY DEF Module
<1>3. CASE Len(calls) = 1 /\ Innermost.todo = Module
  <2>1. Innermost.todo # << >> /\ Todo.do = "if"
    BY <1>3 DEF Todo, Module, Maybe, When, If
  <2> QED BY <1>3, <2>1
<1>4. CASE Len(calls) = 1 /\ Innermost.todo = <<Call("CommentBlock")>> \o Tail(Module)
  <2>1. <<Call("CommentBlock")>> \o Tail(Module) = <<Call("CommentBlock"), Call("StatementSyntax"), Statements>>
    <3>1. \A a, b, c : <<a>> \o <<b, c>> = <<a, b, c>>
      BY ONLY Together
    <3>2. PICK a, b, c : a = Call("CommentBlock") /\ b = Call("StatementSyntax") /\ c = Statements
      OBVIOUS
    <3>3. <<a>> \o <<b, c>> = <<a, b, c>>
      BY ONLY <3>1
    <3> QED BY ONLY <1>2, <3>2, <3>3
  <2>2. Innermost.todo # << >> /\ Todo.do = "call"
    BY <1>4, <2>1 DEF Todo, Call
  <2> QED BY <1>4, <2>2
<1>5. CASE Len(calls) = 1 /\ Innermost.todo = Tail(Module)
  <2>1. Innermost.todo = <<Call("StatementSyntax"), Statements>>
    BY <1>2, <1>5
  <2>2. Innermost.todo # << >> /\ Todo = Call("StatementSyntax")
    BY ONLY <2>1 DEF Todo
  <2>3. Todo.do = "call"
    BY <2>2 DEF Call
  <2> QED BY <1>5, <2>2, <2>3
<1>6. CASE Len(calls) = 2 /\ Innermost.todo \in {CommentBlock, StatementSyntax}
  <2>1. Innermost.todo # << >> /\ Todo.do = "expect"
    BY <1>6 DEF Todo, CommentBlock, StatementSyntax, One, Expect
  <2> QED BY <1>6, <2>1
<1> QED BY <1>1, <1>3, <1>4, <1>5, <1>6 DEF Begun

LEMMA ReturnStep ==
  ASSUME AtWork, Return
  PROVE  ParserInvariant'
<1> PICK k, n, c : k = Len(calls) - 1 /\ c = Innermost /\ n = Node(Innermost)
  OBVIOUS
<1>1. /\ Innermost.todo = << >> /\ Len(calls) > 1 /\ tokens' = tokens /\ at' = at
      /\ reported' = reported /\ pc' = pc /\ calls' = Given(SubSeq(calls, 1, k), n)
  BY DEF Return, Front
<1>2. Onward
  BY <1>1 DEF Onward
<1>3. k \in 1..(Len(calls) - 1) /\ k + 1 = Len(calls) /\ k \in 1..Len(calls)
  BY <1>1, CallFacts
<1>4. Calls'
  <2>1. Sound(n) /\ Before(n, at) /\ c.rule \notin Identifiers
        /\ (c.rule \in {"Union", "Field"} => SoundMember(n, c.at))
    BY <1>1, Returned
  <2>2. Sound(n)'
    BY <1>2, <2>1, SoundForGood
  <2>3. n.rule = c.rule /\ n.at = c.at /\ n.at \in Nat /\ c = calls[k + 1]
    BY <1>3, CallFacts DEF Node, Innermost
  <2>4. PICK from : from = calls[k].at
    OBVIOUS
  <2>5. calls[k].rule = "StructElement" => SoundMember(n, from)'
    <3> SUFFICES ASSUME calls[k].rule = "StructElement"
                 PROVE  SoundMember(n, from)'
      OBVIOUS
    <3>1. c.rule \in {"Union", "Field"} /\ c.at = from
      BY <1>3, <2>3, <2>4, CallFacts DEF Waiting
    <3>2. SoundMember(n, from)
      BY <2>1, <3>1
    <3> QED BY <1>2, <3>2, SoundForGood
  <2> QED BY <1>1, <1>2, <1>3, <2>1, <2>2, <2>3, <2>4, <2>5, Gave
<1>5. Begun'
  BY <1>1, Beginning DEF Begun
<1> QED BY <1>1, <1>4, <1>5 DEF AtWork, ParserInvariant, FailedIsReported

-----------------------------------------------------------------------------
(* A call returns nil.                                                     *)

\* The one that keeps it is the innermost that can.
LEMMA KeeperIsLast ==
  ASSUME NEW S, calls \in Seq(S), NEW i \in DOMAIN calls, calls[i].kept
  PROVE  /\ Keeper \in DOMAIN calls /\ calls[Keeper].kept
         /\ \A e \in (Keeper + 1)..Len(calls) : ~calls[e].kept
<1> DEFINE Is(k) == k \in DOMAIN calls /\ calls[k].kept
           after == {k \in Nat : k <= Len(calls) /\ Is(Len(calls) - k)}
<1>1. Len(calls) - i \in after
  OBVIOUS
<1>2. PICK k \in after : \A j \in after : <<j, k>> \notin OpToRel(<, Nat)
  <2>1. IsWellFoundedOn(OpToRel(<, Nat), Nat)
    BY NatLessThanWellFounded
  <2> QED BY <1>1, <2>1, WFMin
<1> PICK d : d = Len(calls) - k
  OBVIOUS
<1>3. \A e \in (d + 1)..Len(calls) : ~calls[e].kept
  <2> SUFFICES ASSUME NEW e \in (d + 1)..Len(calls), calls[e].kept PROVE FALSE
    OBVIOUS
  <2>1. Len(calls) - e \in after /\ Len(calls) - e < k
    OBVIOUS
  <2>2. <<Len(calls) - e, k>> \in OpToRel(<, Nat)
    BY <2>1 DEF OpToRel
  <2> QED BY <1>2, <2>1, <2>2
<1>4. d \in DOMAIN calls /\ calls[d].kept
  OBVIOUS
<1> HIDE DEF Is, after
<1> QED BY <1>3, <1>4 DEF Keeper

LEMMA FailStep ==
  ASSUME AtWork, Fail, Onward, at' = at, Excused', Innermost.todo # << >>,
         Todo.do = "expect" => reported' /\ Peek(0) \notin Todo.tokens
  PROVE  ParserInvariant'
<1>1. /\ IsSeq(calls) /\ DOMAIN calls = 1..Len(calls) /\ Len(calls) \in Nat
      /\ at \in Nat /\ at # 0 /\ ~calls[1].kept /\ Len(calls) # 0
  BY CallFacts
<1>2. tokens' = tokens /\ pc = "parse" /\ ParserInvariant /\ Callable' = Callable
  BY SameTokens DEF Onward, AtWork
<1>3. Uses({"struct"})' = Uses({"struct"})
  BY SameTokens DEF Onward
<1>4. CASE ~ \E d \in DOMAIN calls : calls[d].kept
  <2>1. pc' = "failed"
    BY <1>4 DEF Fail
  <2> QED BY <1>2, <2>1 DEF ParserInvariant, FailedIsReported, Excused
<1>5. CASE \E d \in DOMAIN calls : calls[d].kept
  <2> PICK k : k = Keeper
    OBVIOUS
  <2>1. /\ k \in DOMAIN calls /\ calls[k].kept
        /\ calls' = Given(SubSeq(calls, 1, k - 1), Nil)
        /\ pc' = IF calls[k].at = at THEN "loops" ELSE pc
    <3>1. PICK S : calls \in Seq(S)
      BY <1>1 DEF IsSeq
    <3>2. k \in DOMAIN calls /\ calls[k].kept
      BY <1>5, <3>1, KeeperIsLast
    <3> QED BY <1>5, <3>2 DEF Fail
  <2>2. k \in 2..Len(calls)
    BY <1>1, <2>1
  <2>3. k - 1 \in 1..(Len(calls) - 1)
    BY <1>1, <2>2
  <2>4. Calls'
    <3> PICK n, from : n = Nil /\ from = calls[k - 1].at
      OBVIOUS
    <3>1. n.rule = "nil" /\ n.at \in Nat /\ n.kids = << >>
      BY DEF Nil
    <3>2. Sound(n)'
      BY <3>1 DEF Sound
    <3>3. n.rule \notin Named /\ n.rule \notin Identifiers
      BY <3>1 DEF Named, Identifiers
    <3>4. Before(n, at)
      <4>1. DOMAIN n.kids = {}
        BY <3>1
      <4> QED BY <3>3, <4>1 DEF Before, NameBefore
    <3>5. SoundMember(n, from)'
      BY <3>1 DEF SoundMember
    <3> QED BY <2>1, <2>3, <3>1, <3>2, <3>3, <3>4, <3>5, Gave
  <2>5. IsCall(calls[k]) /\ calls[k].rule \in Steps \cup {"Union", "Field"} /\ calls[k].rule \in Callable
    BY <1>1, <2>1, CallFacts DEF IsCall
  <2>6. ASSUME calls[k].at = at
        PROVE  reported' /\ Uses({"struct"})
    <3>1. ~Started(calls[k])
      BY <1>1, <2>6 DEF Started
    <3>2. calls[k].rule \in Starting
      BY <2>5 DEF Starting
    <3>3. k = Len(calls)
      <4>1. ASSUME k # Len(calls)
            PROVE  FALSE
        <5>1. k \in 1..(Len(calls) - 1)
          BY <1>1, <2>2, <4>1
        <5>2. Waiting(calls[k], calls[k + 1])
          BY <5>1, CallFacts
        <5> QED BY <3>1, <3>2, <5>2 DEF Waiting
      <4> QED BY <4>1
    <3>4. calls[k] = Innermost
      BY <3>3 DEF Innermost
    <3>5. NotStarted(Innermost)
      BY <3>1, <3>2, <3>4, CallFacts DEF Working
    <3>6. Innermost.todo = Rules[Innermost.rule] /\ (Innermost.rule # "Field" => Peek(0) \in First(Innermost.rule))
      BY <2>1, <3>4, <3>5 DEF NotStarted
    <3>7. Todo = Rules[Innermost.rule][1]
      BY <3>6, TodoFacts
    <3>8. Todo.do = "expect" /\ Todo.tokens = First(Innermost.rule)
      BY <3>2, <3>4, <3>7, FirstInstructions
    <3>9. calls[k].rule = "Field"
      BY <3>4, <3>6, <3>8
    <3>10. Uses({"struct"})
      BY <2>5, <3>9, StructCalls DEF StructRules
    <3> QED BY <3>8, <3>10
  <2>7. at = 1 => calls[k].at = at
    <3>1. calls[k].at \in 1..at
      BY <2>5 DEF IsCall
    <3> QED BY <1>1, <3>1
  <2>8. Begun' \/ pc' # "parse"
    BY <2>1, <2>7 DEF Begun
  <2>9. FailedIsReported'
    BY <1>2, <1>3, <2>1, <2>6 DEF FailedIsReported
  <2>10. pc' \in {"parse", "loops"}
    BY <1>2, <2>1
  <2> QED BY <1>2, <2>4, <2>8, <2>9, <2>10 DEF ParserInvariant
<1> QED BY <1>4, <1>5

LEMMA UnexpectedStep ==
  ASSUME AtWork, Unexpected
  PROVE  ParserInvariant'
<1>1. /\ Innermost.todo # << >> /\ Fail /\ reported' = TRUE /\ at' = at /\ tokens' = tokens
      /\ Peek(0) \notin Todo.tokens
  BY DEF Unexpected, At
<1>2. Onward /\ Excused'
  BY <1>1 DEF Onward, Excused
<1> QED BY <1>1, <1>2, FailStep

LEMMA RefusedStep ==
  ASSUME AtWork, Refused
  PROVE  ParserInvariant'
<1>1. /\ Innermost.todo # << >> /\ Fail /\ reported' = TRUE /\ at' = at /\ tokens' = tokens
      /\ Todo.do # "expect"
  BY DEF Refused, Refusal, At
<1>2. Onward /\ Excused'
  BY <1>1 DEF Onward, Excused
<1> QED BY <1>1, <1>2, FailStep

LEMMA DroppedStep ==
  ASSUME AtWork, Dropped
  PROVE  ParserInvariant'
<1>1. /\ Innermost.todo # << >> /\ Fail /\ at' = at /\ tokens' = tokens /\ reported' = reported
      /\ Todo.do = "drop" /\ tokens[at - 1] \in Todo.tokens
  BY DEF Dropped, At
<1>2. at # 1
  BY <1>1, Beginning
<1>3. Todo \in Body(Callable)
  BY <1>1, TodoFacts DEF Ready, Kept
<1>4. Todo.tokens = {"Incomplete"}
  BY <1>1, <1>3, Kinds
<1>5. Uses({"Incomplete"})
  <2>1. at - 1 \in DOMAIN tokens
    BY <1>2, CallFacts
  <2> QED BY <1>1, <1>4, <2>1 DEF Uses
<1>6. Onward
  BY <1>1 DEF Onward
<1>7. Excused'
  BY <1>5, <1>6, SoundForGood DEF Excused
<1> QED BY <1>1, <1>6, <1>7, FailStep

\* Nothing has happened to the calls.
LEMMA SameCalls ==
  ASSUME Calls, tokens \in Seq(TokenType), at \in 1..(Len(tokens) + 1),
         UNCHANGED <<tokens, at, calls, reported>>
  PROVE  Calls'
<1>1. Onward /\ at \in Nat /\ calls' = calls /\ at' = at /\ tokens' = tokens
  BY FactsOfCalls DEF Onward
<1>2. Calls
  OBVIOUS
<1>3. Ready' = Ready /\ Callable' = Callable
  BY <1>1, SameTokens DEF Ready, Peek
<1>4. PICK c : c = Innermost
  OBVIOUS
<1>5. Working(c) /\ c.at \in Nat
  BY <1>4, FactsOfCalls
<1>6. Peek(0)' = Peek(0)
  BY <1>1 DEF Peek
<1>7. NotStarted(c) => NotStarted(c)'
  BY <1>1, <1>6 DEF NotStarted
<1>8. Started(c) => Started(c)'
  BY <1>1, <1>5, CallsForGood
<1>9. UnionAtWork(c) => UnionAtWork(c)'
  BY <1>1, SoundForGood DEF UnionAtWork
<1>10. ElementAtWork(c) => ElementAtWork(c)'
  BY <1>1, SoundForGood DEF ElementAtWork
<1>11. Working(c)'
  BY <1>1, <1>3, <1>5, <1>7, <1>8, <1>9, <1>10 DEF Working
<1>12. Working(Innermost)'
  BY <1>1, <1>4, <1>11 DEF Innermost
<1>13. \A d \in DOMAIN calls : IsCall(calls[d])' /\ SoundCall(calls[d])'
  <2> TAKE d \in DOMAIN calls
  <2> PICK x : x = calls[d]
    OBVIOUS
  <2>1. IsCall(x)' /\ SoundCall(x)'
    BY <1>1, <1>2, CallsForGood, SoundForGood DEF Calls
  <2> QED BY <1>1, <2>1
<1>14. \A d \in 1..(Len(calls) - 1) : Waiting(calls[d], calls[d + 1])'
  <2> TAKE d \in 1..(Len(calls) - 1)
  <2> PICK x, y : x = calls[d] /\ y = calls[d + 1]
    OBVIOUS
  <2>1. Waiting(x, y) /\ x.at \in Nat
    <3>1. /\ Len(calls) \in Nat
          /\ \A i \in 1..Len(calls) : calls[i].at \in Nat
          /\ \A i \in 1..(Len(calls) - 1) : Waiting(calls[i], calls[i + 1])
      BY FactsOfCalls
    <3>2. d \in 1..Len(calls)
      BY <3>1
    <3>3. Waiting(calls[d], calls[d + 1]) /\ calls[d].at \in Nat
      BY ONLY <3>1, <3>2
    <3> QED BY <3>3
  <2>2. Waiting(x, y)'
    BY <1>1, <2>1, CallsForGood
  <2> QED BY <1>1, <2>2
<1> QED BY <1>1, <1>2, <1>12, <1>13, <1>14 DEF Calls

LEMMA ParsedStep ==
  ASSUME AtWork, Parsed
  PROVE  ParserInvariant'
<1>1. UNCHANGED <<tokens, at, calls, reported>>
  BY DEF Parsed
<1>2. Calls'
  BY <1>1, SameCalls DEF AtWork, ParserInvariant
<1> QED BY <1>1, <1>2 DEF AtWork, ParserInvariant, Parsed, FailedIsReported

-----------------------------------------------------------------------------
(* Unions and elements, one instruction after the other.                   *)

\* What can be left before and at the name of a union.
UnionName == {Tail(Union), <<Name>> \o Tail(Tail(Union)), Tail(Tail(Union))}

LEMMA UnionLists ==
  /\ Tail(Union) = <<When(<<Identifiers>>, <<Name>>), One("{"), Maybe("Comment", "CommentBlock"),
                    Elements("UnionField"), Call("Metadata")>>
  /\ <<Name>> \o Tail(Tail(Union)) = <<Name, One("{"), Maybe("Comment", "CommentBlock"),
                                      Elements("UnionField"), Call("Metadata")>>
  /\ Tail(Tail(Union)) = <<One("{"), Maybe("Comment", "CommentBlock"), Elements("UnionField"),
                          Call("Metadata")>>
  /\ Tail(Tail(Tail(Union))) = <<Maybe("Comment", "CommentBlock"), Elements("UnionField"),
                                Call("Metadata")>>
  /\ Tail(Tail(Tail(Tail(Union)))) = <<Elements("UnionField"), Call("Metadata")>>
  /\ <<Call("CommentBlock")>> \o Tail(Tail(Tail(Tail(Union)))) =
        <<Call("CommentBlock"), Elements("UnionField"), Call("Metadata")>>
<1> PICK i, n, o, m, e, d, b :
      /\ i = When(<<Identifiers>>, <<Name>>) /\ n = Name /\ o = One("{")
      /\ m = Maybe("Comment", "CommentBlock") /\ e = Elements("UnionField")
      /\ d = Call("Metadata") /\ b = Call("CommentBlock")
  OBVIOUS
<1>1. Tail(Union) = <<i, o, m, e, d>> /\ Tail(Tail(Union)) = <<o, m, e, d>>
  BY UnionInstructions
<1>2. Tail(<<o, m, e, d>>) = <<m, e, d>> /\ Tail(<<m, e, d>>) = <<e, d>>
  BY ONLY Fewer
<1>3. Tail(Tail(Tail(Union))) = <<m, e, d>> /\ Tail(Tail(Tail(Tail(Union)))) = <<e, d>>
  BY ONLY <1>1, <1>2
<1>4. <<n>> \o <<o, m, e, d>> = <<n, o, m, e, d>> /\ <<b>> \o <<e, d>> = <<b, e, d>>
  <2>1. <<n>> \o <<o, m, e, d>> = <<n, o, m, e, d>>
    BY ONLY Together
  <2>2. <<b>> \o <<e, d>> = <<b, e, d>>
    BY ONLY Together
  <2> QED BY ONLY <2>1, <2>2
<1>5. /\ <<n>> \o Tail(Tail(Union)) = <<n, o, m, e, d>>
      /\ <<b>> \o Tail(Tail(Tail(Tail(Union)))) = <<b, e, d>>
  BY ONLY <1>1, <1>3, <1>4
<1> QED BY <1>1, <1>3, <1>5

LEMMA UnionTodo ==
  ASSUME NEW t \in UnionName \cup UnionLeft, t # << >>
  PROVE  /\ Head(t).do \in {"if", "elements", "call", "expect"}
         /\ Head(t).do = "if" =>
              \/ /\ t = Tail(Union) /\ Head(t) = When(<<Identifiers>>, <<Name>>)
                 /\ Tail(t) = Tail(Tail(Union)) /\ t \notin UnionLeft
              \/ /\ t = Tail(Tail(Tail(Union))) /\ Head(t) = Maybe("Comment", "CommentBlock")
                 /\ Tail(t) = Tail(Tail(Tail(Tail(Union)))) /\ t \notin UnionName
         /\ Head(t).do = "elements" =>
              /\ Head(t) = Elements("UnionField") /\ Tail(t) = <<Call("Metadata")>>
              /\ t \notin UnionName
         /\ Head(t).do = "call" => Tail(t) \in UnionLeft /\ t \notin UnionName
         /\ Head(t).do = "expect" =>
              \/ /\ t = <<Name>> \o Tail(Tail(Union)) /\ Head(t) = Name
                 /\ Tail(t) = Tail(Tail(Union)) /\ t \notin UnionLeft
              \/ /\ t = Tail(Tail(Union)) /\ Head(t) = One("{")
                 /\ Tail(t) = Tail(Tail(Tail(Union)))
              \/ Head(t) = One("}") /\ Tail(t) = <<Call("Metadata")>> /\ t \notin UnionName
<1> PICK i, n, o, m, e, d, b, f, c :
      /\ i = When(<<Identifiers>>, <<Name>>) /\ n = Name /\ o = One("{")
      /\ m = Maybe("Comment", "CommentBlock") /\ e = Elements("UnionField")
      /\ d = Call("Metadata") /\ b = Call("CommentBlock") /\ f = Call("UnionField")
      /\ c = One("}")
  OBVIOUS
<1>1. /\ i.do = "if" /\ n.do = "expect" /\ o.do = "expect" /\ m.do = "if" /\ e.do = "elements"
      /\ d.do = "call" /\ b.do = "call" /\ f.do = "call" /\ c.do = "expect"
  BY DEF When, If, Name, Expect, One, Maybe, Elements, Call
<1>2. /\ Tail(Union) = <<i, o, m, e, d>> /\ <<Name>> \o Tail(Tail(Union)) = <<n, o, m, e, d>>
      /\ Tail(Tail(Union)) = <<o, m, e, d>> /\ Tail(Tail(Tail(Union))) = <<m, e, d>>
      /\ Tail(Tail(Tail(Tail(Union)))) = <<e, d>>
      /\ <<Call("CommentBlock")>> \o Tail(Tail(Tail(Tail(Union)))) = <<b, e, d>>
  BY UnionLists
<1>3. UnionName = {<<i, o, m, e, d>>, <<n, o, m, e, d>>, <<o, m, e, d>>}
  BY <1>2 DEF UnionName
<1>4. UnionLeft = {<<o, m, e, d>>, <<m, e, d>>, <<b, e, d>>, <<e, d>>, <<f, e, d>>, <<c, d>>,
                   <<d>>, << >>}
  BY <1>2 DEF UnionLeft
<1>5. \A s \in UnionName : Len(s) >= 4
  BY ONLY <1>3, Fewer
<1>6. \A s \in UnionLeft : Len(s) <= 4
  <2>1. Len(<< >>) = 0
    BY ONLY Zenon
  <2>2. /\ Len(<<o, m, e, d>>) = 4 /\ Len(<<m, e, d>>) = 3 /\ Len(<<b, e, d>>) = 3
        /\ Len(<<f, e, d>>) = 3 /\ Len(<<e, d>>) = 2 /\ Len(<<c, d>>) = 2 /\ Len(<<d>>) = 1
    BY ONLY Fewer
  <2>3. ASSUME NEW s \in UnionLeft
        PROVE  Len(s) <= 4
    <3>1. s \in {<<o, m, e, d>>, <<m, e, d>>, <<b, e, d>>, <<e, d>>, <<f, e, d>>, <<c, d>>,
                 <<d>>, << >>}
      BY ONLY <1>4, <2>3
    <3>2. Len(s) \in {4, 3, 2, 1, 0}
      BY ONLY <2>1, <2>2, <3>1, Zenon
    <3> QED BY ONLY <3>2
  <2> QED BY ONLY <2>3
<1>7. CASE t = <<i, o, m, e, d>>
  <2>1. Head(t) = i /\ Tail(t) = <<o, m, e, d>> /\ Len(t) = 5
    BY ONLY <1>7, Fewer
  <2>2. t \notin UnionLeft
    BY ONLY <1>6, <2>1
  <2> QED BY <1>1, <1>2, <1>7, <2>1, <2>2
<1>8. CASE t = <<n, o, m, e, d>>
  <2>1. Head(t) = n /\ Tail(t) = <<o, m, e, d>> /\ Len(t) = 5
    BY ONLY <1>8, Fewer
  <2>2. t \notin UnionLeft
    BY ONLY <1>6, <2>1
  <2> QED BY <1>1, <1>2, <1>8, <2>1, <2>2
<1>9. CASE t = <<o, m, e, d>>
  <2>1. Head(t) = o /\ Tail(t) = <<m, e, d>>
    BY ONLY <1>9, Fewer
  <2> QED BY <1>1, <1>2, <1>9, <2>1
<1>10. CASE t = <<m, e, d>>
  <2>1. Head(t) = m /\ Tail(t) = <<e, d>> /\ Len(t) = 3
    BY ONLY <1>10, Fewer
  <2>2. t \notin UnionName
    BY ONLY <1>5, <2>1
  <2> QED BY <1>1, <1>2, <1>10, <2>1, <2>2
<1>11. CASE t = <<b, e, d>>
  <2>1. Head(t) = b /\ Tail(t) = <<e, d>> /\ Len(t) = 3
    BY ONLY <1>11, Fewer
  <2>2. t \notin UnionName
    BY ONLY <1>5, <2>1
  <2> QED BY <1>1, <1>4, <2>1, <2>2
<1>12. CASE t = <<e, d>>
  <2>1. Head(t) = e /\ Tail(t) = <<d>> /\ Len(t) = 2
    BY ONLY <1>12, Fewer
  <2>2. t \notin UnionName
    BY ONLY <1>5, <2>1
  <2> QED BY <1>1, <2>1, <2>2
<1>13. CASE t = <<f, e, d>>
  <2>1. Head(t) = f /\ Tail(t) = <<e, d>> /\ Len(t) = 3
    BY ONLY <1>13, Fewer
  <2>2. t \notin UnionName
    BY ONLY <1>5, <2>1
  <2> QED BY <1>1, <1>4, <2>1, <2>2
<1>14. CASE t = <<c, d>>
  <2>1. Head(t) = c /\ Tail(t) = <<d>> /\ Len(t) = 2
    BY ONLY <1>14, Fewer
  <2>2. t \notin UnionName
    BY ONLY <1>5, <2>1
  <2> QED BY <1>1, <2>1, <2>2
<1>15. CASE t = <<d>>
  <2>1. Head(t) = d /\ Tail(t) = << >> /\ Len(t) = 1
    BY ONLY <1>15, Fewer
  <2>2. t \notin UnionName
    <3>1. Len(t) = 1
      BY ONLY <2>1
    <3>2. t \in UnionName => Len(t) >= 4
      BY ONLY <1>5
    <3>3. ~(Len(t) >= 4)
      BY ONLY <3>1
    <3> QED BY ONLY <3>2, <3>3
  <2> QED BY <1>1, <1>4, <2>1, <2>2
<1> QED BY <1>3, <1>4, <1>7, <1>8, <1>9, <1>10, <1>11, <1>12, <1>13, <1>14, <1>15

\* A union at work, with something left to do.
LEMMA UnionStarted ==
  ASSUME AtWork, Innermost.rule = "Union", Innermost.todo # << >>, Todo.do # "expect"
  PROVE  /\ UnionAtWork(Innermost)
         /\ Innermost.todo \in UnionName \cup UnionLeft
         /\ Todo.do \in {"if", "elements", "call"}
<1>1. Innermost.kids # << >>
  BY HasStarted DEF Starting
<1>2. UnionAtWork(Innermost)
  BY <1>1, CallFacts DEF Working
<1>3. Innermost.todo \in UnionName \cup UnionLeft
  BY <1>2 DEF UnionAtWork, UnionName
<1> QED BY <1>2, <1>3, UnionTodo DEF Todo

LEMMA UnionGoesOn ==
  ASSUME AtWork, Innermost.rule = "Union", Innermost.todo # << >>, Todo.do \notin {"expect", "call"},
         NEW is, Todo.do = "if" => is \in {Todo.then, Todo.else},
         Todo.do = "elements" => is \in {<<One("}")>>, <<Call(Todo.rule), Todo>>},
         NEW c, c.kids = Innermost.kids, c.at = Innermost.at, c.todo = is \o Tail(Innermost.todo)
  PROVE  UnionAtWork(c)
<1> PICK t : t = Innermost.todo
  OBVIOUS
<1>1. /\ UnionAtWork(Innermost) /\ t \in UnionName \cup UnionLeft /\ t # << >>
      /\ Todo.do \in {"if", "elements"} /\ Todo = Head(t)
  BY UnionStarted DEF Todo
<1>2. << >> \o Tail(Tail(Union)) = Tail(Tail(Union)) /\
      << >> \o Tail(Tail(Tail(Tail(Union)))) = Tail(Tail(Tail(Tail(Union))))
  <2>1. PICK o, m, e, d : /\ Tail(Tail(Union)) = <<o, m, e, d>>
                          /\ Tail(Tail(Tail(Tail(Union)))) = <<e, d>>
    BY UnionLists
  <2> QED BY ONLY <2>1, NoneBefore
<1>3. CASE t = Tail(Union) /\ Todo = When(<<Identifiers>>, <<Name>>)
           /\ Tail(t) = Tail(Tail(Union)) /\ t \notin UnionLeft
  <2>1. is \in {<<Name>>, << >>}
    BY <1>3 DEF When, If
  <2>2. c.todo \in UnionName
    BY <1>2, <1>3, <2>1 DEF UnionName
  <2>3. ~(Innermost.todo \in UnionLeft)
    BY <1>3
  <2> QED BY <1>1, <2>2, <2>3 DEF UnionAtWork, UnionName
<1>4. CASE t = Tail(Tail(Tail(Union))) /\ Todo = Maybe("Comment", "CommentBlock")
           /\ Tail(t) = Tail(Tail(Tail(Tail(Union)))) /\ t \notin UnionName
  <2>1. is \in {<<Call("CommentBlock")>>, << >>}
    BY <1>4 DEF Maybe, When, If
  <2>2. c.todo \in UnionLeft
    BY <1>2, <1>4, <2>1 DEF UnionLeft
  <2>3. Len(Innermost.kids) >= 2 /\ NamedUnion(Innermost)
    BY <1>1, <1>4 DEF UnionAtWork, UnionName
  <2>4. NamedUnion(c)
    BY <2>3 DEF NamedUnion
  <2> QED BY <2>2, <2>3, <2>4 DEF UnionAtWork
<1>5. CASE Todo = Elements("UnionField") /\ Tail(t) = <<Call("Metadata")>> /\ t \notin UnionName
  <2>1. is \in {<<One("}")>>, <<Call("UnionField"), Elements("UnionField")>>}
    BY <1>5 DEF Elements
  <2>2. c.todo \in {<<One("}"), Call("Metadata")>>,
                    <<Call("UnionField"), Elements("UnionField"), Call("Metadata")>>}
    <3> PICK u, v, w, x : /\ u = One("}") /\ v = Call("UnionField") /\ w = Elements("UnionField")
                          /\ x = Call("Metadata")
      OBVIOUS
    <3>1. <<u>> \o <<x>> = <<u, x>>
      BY ONLY Together
    <3>2. <<v, w>> \o <<x>> = <<v, w, x>>
      BY ONLY TwoAndOne
    <3>3. c.todo = is \o <<x>>
      BY <1>5
    <3>4. is \in {<<u>>, <<v, w>>}
      BY <2>1
    <3>5. c.todo \in {<<u, x>>, <<v, w, x>>}
      BY ONLY <3>1, <3>2, <3>3, <3>4
    <3> QED BY <3>5
  <2>3. c.todo \in UnionLeft
    BY <2>2 DEF UnionLeft
  <2>4. Len(Innermost.kids) >= 2 /\ NamedUnion(Innermost)
    BY <1>1, <1>5 DEF UnionAtWork, UnionName
  <2>5. NamedUnion(c)
    BY <2>4 DEF NamedUnion
  <2> QED BY <2>3, <2>4, <2>5 DEF UnionAtWork
<1> QED BY <1>1, <1>3, <1>4, <1>5, UnionTodo

\* An element at work, with something left to do.
LEMMA ElementTodo ==
  ASSUME AtWork, Innermost.rule = "StructElement", Innermost.todo # << >>
  PROVE  /\ Innermost.kids = << >> /\ Innermost.at = at /\ Tail(Innermost.todo) = << >>
         /\ \/ Todo = StructElement[1] /\ Todo.do = "if"
               /\ Todo.then = <<Kept("Union")>> /\ Todo.else = <<Kept("Field")>>
            \/ Todo \in {Kept("Union"), Kept("Field")} /\ Todo.do = "kept"
<1>1. /\ Innermost.kids = << >> /\ Innermost.at = at
      /\ Innermost.todo \in {StructElement, <<Kept("Union")>>, <<Kept("Field")>>}
  <2>1. ElementAtWork(Innermost)
    BY CallFacts DEF Working
  <2> QED BY <2>1 DEF ElementAtWork
<1>2. CASE Innermost.todo = StructElement
  <2> PICK x : x = If(<<{"union"}>>, <<Kept("Union")>>, <<Kept("Field")>>)
    OBVIOUS
  <2>1. x.do = "if" /\ x.then = <<Kept("Union")>> /\ x.else = <<Kept("Field")>>
    BY DEF If
  <2>2. StructElement = <<x>>
    BY DEF StructElement
  <2>3. Todo = x /\ Tail(Innermost.todo) = << >> /\ StructElement[1] = x
    BY ONLY <1>2, <2>2, Fewer DEF Todo
  <2> QED BY <1>1, <2>1, <2>3
<1>3. CASE Innermost.todo \in {<<Kept("Union")>>, <<Kept("Field")>>}
  <2>1. Todo \in {Kept("Union"), Kept("Field")} /\ Tail(Innermost.todo) = << >>
    BY ONLY <1>3, Fewer DEF Todo
  <2>2. Todo.do = "kept"
    BY <2>1 DEF Kept
  <2> QED BY <1>1, <2>1, <2>2
<1> QED BY <1>1, <1>2, <1>3

-----------------------------------------------------------------------------
(* Other instructions in place of one.                                     *)

LEMMA Became ==
  ASSUME AtWork, Innermost.todo # << >>, Todo.do # "expect",
         NEW is, Become(is), is \in Seq(Body(Callable) \cup Ready),
         is # << >> => Tail(is) \in Seq(Body(Callable)),
         Innermost.rule = "Union" =>
            /\ Todo.do # "call"
            /\ Todo.do = "if" => is \in {Todo.then, Todo.else}
            /\ Todo.do = "elements" => is \in {<<One("}")>>, <<Call(Todo.rule), Todo>>},
         Innermost.rule = "StructElement" => is \in {<<Kept("Union")>>, <<Kept("Field")>>},
         at = 1 => /\ Len(calls) = 1
                   /\ is \o Tail(Innermost.todo) \in
                         {Module, <<Call("CommentBlock")>> \o Tail(Module), Tail(Module)}
  PROVE  ParserInvariant'
<1> PICK w, t, c, todo : /\ w = Innermost /\ t = Tail(Innermost.todo) /\ todo = is \o t
                         /\ c = [w EXCEPT !.todo = todo]
  OBVIOUS
<1>1. /\ tokens' = tokens /\ at' = at /\ reported' = reported /\ pc' = pc
      /\ calls' = [calls EXCEPT ![Len(calls)].todo = is \o Tail(@)]
  BY DEF Become
<1>2. Onward
  BY <1>1 DEF Onward
<1>3. /\ IsCall(w) /\ SoundCall(w) /\ Working(w) /\ w = calls[Len(calls)] /\ at \in Nat
      /\ w.at \in Nat
  BY CallFacts DEF Innermost
<1>4. /\ c = [rule |-> w.rule, at |-> w.at, kids |-> w.kids, todo |-> todo, kept |-> w.kept]
  BY <1>3 DEF IsCall
<1>5. c.rule = w.rule /\ c.at = w.at /\ c.kids = w.kids /\ c.todo = todo /\ c.kept = w.kept
  BY ONLY <1>4
<1>6. calls' = [calls EXCEPT ![Len(calls)] = c]
  <2>1. c = [calls[Len(calls)] EXCEPT !.todo = is \o Tail(@)]
    BY <1>3
  <2> QED BY ONLY <1>1, <2>1
<1>7. IsCall(c)'
  <2>1. IsCall(w)'
    BY <1>2, <1>3, CallsForGood
  <2> QED BY ONLY <1>4, <1>5, <2>1 DEF IsCall
<1>8. SoundCall(c)'
  <2>1. SoundCall(w)'
    BY <1>2, <1>3, SoundForGood
  <2> QED BY ONLY <1>5, <2>1 DEF SoundCall
<1>9. Callable' = Callable /\ Ready' = Ready
  BY <1>1, SameTokens DEF Ready, Peek
<1>10. t \in Seq(Body(Callable)) /\ t \in Seq(Body(Callable) \cup Ready)
  <2>1. t \in Seq(Body(Callable))
    BY TodoFacts
  <2> QED BY <2>1, SeqMonotonic
<1>11. todo \in Seq(Body(Callable) \cup Ready)
  <2>1. is \in Seq(Body(Callable) \cup Ready) /\ todo = is \o t
    OBVIOUS
  <2> QED BY ONLY <1>10, <2>1, ConcatProperties
<1>12. todo # << >> => Tail(todo) \in Seq(Body(Callable))
  <2>1. CASE is = << >>
    <3>1. todo = t
      BY <1>10, <2>1, ConcatEmptySeq
    <3> QED BY ONLY <1>10, <3>1, HeadTailProperties
  <2>2. CASE is # << >>
    <3> PICK S : S = Body(Callable) \cup Ready
      OBVIOUS
    <3>1. is \in Seq(S) /\ t \in Seq(S) /\ is # << >> /\ todo = is \o t
      BY <1>10, <2>2
    <3>2. Tail(is \o t) = Tail(is) \o t
      BY ONLY <3>1
    <3>3. Tail(is) \in Seq(Body(Callable))
      BY <2>2
    <3>4. Tail(is) \o t \in Seq(Body(Callable))
      BY ONLY <1>10, <3>3, ConcatProperties
    <3> QED BY <3>1, <3>2, <3>4
  <2> QED BY <2>1, <2>2
<1>13. w.rule \in Starting => Started(c)'
  <2> SUFFICES ASSUME w.rule \in Starting
               PROVE  Started(c)'
    OBVIOUS
  <2>1. Started(w)
    BY HasStarted
  <2>2. Started(w)'
    BY <1>2, <1>3, <2>1, CallsForGood
  <2> QED BY ONLY <1>5, <2>2 DEF Started
<1>14. w.rule = "Union" => UnionAtWork(c)'
  <2> SUFFICES ASSUME w.rule = "Union"
               PROVE  UnionAtWork(c)'
    OBVIOUS
  <2>1. UnionAtWork(c)
    BY <1>5, UnionGoesOn
  <2>2. NamedUnion(c) => NamedUnion(c)'
    BY <1>2, SoundForGood
  <2> QED BY <1>1, <2>1, <2>2 DEF UnionAtWork
<1>15. w.rule = "StructElement" => ElementAtWork(c)'
  <2> SUFFICES ASSUME w.rule = "StructElement"
               PROVE  ElementAtWork(c)'
    OBVIOUS
  <2>1. c.kids = << >> /\ c.at = at /\ t = << >>
    BY <1>5, ElementTodo
  <2>2. is \in {<<Kept("Union")>>, <<Kept("Field")>>}
    OBVIOUS
  <2>3. todo = is
    <3>1. PICK x : is = <<x>>
      BY <2>2
    <3>2. <<x>> \o << >> = <<x>>
      BY ONLY Together
    <3> QED BY <2>1, <3>1, <3>2
  <2> QED BY <1>1, <1>5, <2>1, <2>2, <2>3 DEF ElementAtWork
<1>16. Working(c)'
  <2>1. \A i \in DOMAIN w.kids : Before(w.kids[i], at)
    BY <1>3 DEF Working
  <2> QED BY <1>1, <1>5, <1>9, <1>11, <1>12, <1>13, <1>14, <1>15, <2>1 DEF Working
<1>17. Calls'
  <2>1. c.rule = Innermost.rule /\ c.at = Innermost.at /\ c.kept = Innermost.kept
    BY <1>5
  <2> QED BY ONLY AtWork, <1>2, <1>6, <1>7, <1>8, <1>16, <2>1, Proceeds
<1>18. Begun'
  <2>1. Len(calls') = Len(calls) /\ (Innermost.todo)' = todo
    <3>1. IsSeq(calls) /\ calls # << >>
      BY CallFacts, SequenceFacts
    <3>2. PICK s : s = calls'
      OBVIOUS
    <3>3. s = [calls EXCEPT ![Len(calls)] = c]
      BY <1>6, <3>2
    <3>4. Len(s) = Len(calls) /\ s[Len(calls)] = c
      BY ONLY <3>1, <3>3, Replaced
    <3> QED BY <1>5, <3>2, <3>4 DEF Innermost
  <2> QED BY <1>1, <2>1 DEF Begun
<1> QED BY <1>1, <1>17, <1>18 DEF AtWork, ParserInvariant, FailedIsReported

\* Other instructions, without a call whose nil is kept, after the first token.
LEMMA BecameBodies ==
  ASSUME AtWork, Innermost.todo # << >>, Todo.do # "expect", at # 1,
         Innermost.rule # "StructElement",
         NEW is, Become(is), is \in Seq(Body(Callable)),
         Innermost.rule = "Union" =>
            /\ Todo.do # "call"
            /\ Todo.do = "if" => is \in {Todo.then, Todo.else}
            /\ Todo.do = "elements" => is \in {<<One("}")>>, <<Call(Todo.rule), Todo>>}
  PROVE  ParserInvariant'
<1>1. is \in Seq(Body(Callable) \cup Ready)
  BY SeqMonotonic
<1>2. is # << >> => Tail(is) \in Seq(Body(Callable))
  BY HeadTailProperties
<1> QED BY <1>1, <1>2, Became

\* What a union has not to do, nor an element.
LEMMA UnlikeUnions ==
  ASSUME AtWork, Innermost.todo # << >>, Todo.do \notin {"expect", "if"}
  PROVE  /\ Todo.do \notin {"elements", "call"} => Innermost.rule # "Union"
         /\ Todo.do # "kept" => Innermost.rule # "StructElement"
         /\ Todo.do # "kept" => Todo \in Body(Callable)
         /\ Todo.do # "call" => at # 1
<1>1. Todo.do \notin {"elements", "call"} => Innermost.rule # "Union"
  BY UnionStarted
<1>2. Todo.do # "kept" => Innermost.rule # "StructElement"
  BY ElementTodo
<1>3. Todo.do # "kept" => Todo \in Body(Callable)
  BY TodoFacts DEF Ready, Kept
<1>4. Todo.do # "call" => at # 1
  BY Beginning
<1> QED BY <1>1, <1>2, <1>3, <1>4

LEMMA PassedStep ==
  ASSUME AtWork, Passed
  PROVE  ParserInvariant'
<1>1. Innermost.todo # << >> /\ Todo.do \in {"refuse", "drop"} /\ Become(<< >>)
  BY DEF Passed, At
<1>2. << >> \in Seq(Body(Callable))
  OBVIOUS
<1>3. Innermost.rule # "Union" /\ Innermost.rule # "StructElement" /\ at # 1
  BY <1>1, UnlikeUnions
<1> QED BY <1>1, <1>2, <1>3, BecameBodies

LEMMA ListsStep ==
  ASSUME AtWork, ListStep
  PROVE  ParserInvariant'
<1>1. Innermost.todo # << >> /\ Todo.do \in {"items", "more"}
  BY DEF ListStep, At
<1>2. /\ Innermost.rule # "Union" /\ Innermost.rule # "StructElement" /\ at # 1
      /\ Todo \in Body(Callable)
  BY <1>1, UnlikeUnions
<1>3. Todo.rule \in Callable /\ Todo.close \in TokenType
  BY <1>1, <1>2, Kinds
<1>4. "," \in TokenType
  BY DEF TokenType
<1>5. /\ <<One(Todo.close)>> \in Seq(Body(Callable))
      /\ <<Call(Todo.rule), More(Todo.rule, Todo.close)>> \in Seq(Body(Callable))
      /\ <<One(","), Items(Todo.rule, Todo.close)>> \in Seq(Body(Callable))
  BY <1>3, <1>4, BodyInstructions, Instructions, Compounds, ShortSequences
<1>6. PICK is \in Seq(Body(Callable)) : Become(is)
  BY <1>5 DEF ListStep
<1> QED BY <1>1, <1>2, <1>6, BecameBodies

LEMMA ElementsStep ==
  ASSUME AtWork, ElementStep
  PROVE  ParserInvariant'
<1>1. Innermost.todo # << >> /\ Todo.do = "elements"
  BY DEF ElementStep, At
<1>2. Innermost.rule # "StructElement" /\ at # 1 /\ Todo \in Body(Callable)
  BY <1>1, UnlikeUnions
<1>3. Todo.rule \in Callable
  BY <1>1, <1>2, Kinds
<1>4. "}" \in TokenType
  BY DEF TokenType
<1>5. <<One("}")>> \in Seq(Body(Callable)) /\ <<Call(Todo.rule), Todo>> \in Seq(Body(Callable))
  BY <1>2, <1>3, <1>4, BodyInstructions, ShortSequences
<1>6. PICK is \in {<<One("}")>>, <<Call(Todo.rule), Todo>>} : Become(is)
  BY DEF ElementStep
<1>7. is \in Seq(Body(Callable))
  BY <1>5
<1> QED BY <1>1, <1>2, <1>6, <1>7, BecameBodies

LEMMA StatementsStep ==
  ASSUME AtWork, StatementStep
  PROVE  ParserInvariant'
<1>1. Innermost.todo # << >> /\ Todo.do = "statements"
  BY DEF StatementStep, At
<1>2. /\ Innermost.rule # "Union" /\ Innermost.rule # "StructElement" /\ at # 1
      /\ Todo \in Body(Callable)
  BY <1>1, UnlikeUnions
<1>3. ASSUME Peek(0) \in DOMAIN StatementOf
      PROVE  StatementOf[Peek(0)] \in Callable
  <2>1. CASE Peek(0) = "struct"
    <3>1. at \in DOMAIN tokens /\ tokens[at] = "struct"
      BY <2>1, CallFacts DEF Peek
    <3>2. Callable = DOMAIN Rules
      BY <3>1 DEF Callable, Uses
    <3> QED BY <2>1, <3>2 DEF StatementOf, Rules
  <2>2. CASE Peek(0) # "struct"
    <3>1. DOMAIN Rules \ StructRules \subseteq Callable
      BY DEF Callable
    <3>2. Peek(0) \in {"module", "import", "annotation", "const", "enum", "api", "sdk", "impl"}
      BY <1>3, <2>2 DEF StatementOf
    <3> QED BY <3>1, <3>2, RuleNames DEF StatementOf
  <2> QED BY <2>1, <2>2
<1>4. PICK is \in Seq(Body(Callable)) : Become(is)
  <2>1. CASE Become(<< >>)
    BY <2>1, ShortSequences
  <2>2. CASE /\ Peek(0) \in DOMAIN StatementOf
             /\ Become(<<Call(StatementOf[Peek(0)]), Todo>>)
    <3>1. <<Call(StatementOf[Peek(0)]), Todo>> \in Seq(Body(Callable))
      BY <1>2, <1>3, <2>2, BodyInstructions, ShortSequences
    <3> QED BY <2>2, <3>1
  <2> QED BY <2>1, <2>2 DEF StatementStep
<1> QED BY <1>1, <1>2, <1>4, BecameBodies

\* The first choice of all.
LEMMA FirstChoice ==
  ASSUME AtWork, Choose, at = 1
  PROVE  ParserInvariant'
<1>1. Innermost.todo # << >> /\ Todo.do = "if" /\ Len(calls) = 1 /\ Innermost.todo = Module
  BY Beginning DEF Choose, At
<1>2. Todo = If(<<{"Comment"}>>, <<Call("CommentBlock")>>, << >>)
  BY <1>1 DEF Todo, Module, Maybe, When
<1>3. PICK is \in {<<Call("CommentBlock")>>, << >>} : Become(is)
  BY <1>1, <1>2 DEF Choose, At, If
<1>4. DOMAIN Rules \ StructRules \subseteq Callable
  BY DEF Callable
<1>5. is \in Seq(Body(Callable))
  <2>1. <<Call("CommentBlock")>> \in Seq(Body(Callable)) /\ << >> \in Seq(Body(Callable))
    BY <1>4, RuleNames, BodyInstructions, ShortSequences
  <2> QED BY ONLY <2>1, is \in {<<Call("CommentBlock")>>, << >>}
<1>6. is \o Tail(Innermost.todo) \in {<<Call("CommentBlock")>> \o Tail(Module), Tail(Module)}
  <2>1. << >> \o Tail(Module) = Tail(Module)
    BY DEF Module
  <2> QED BY <1>1, <2>1
<1>7. Innermost.rule = "Module"
  BY <1>1, CallFacts DEF Innermost
<1>8. is \in Seq(Body(Callable) \cup Ready) /\ (is # << >> => Tail(is) \in Seq(Body(Callable)))
  BY <1>5, SeqMonotonic, HeadTailProperties
<1> QED BY <1>1, <1>3, <1>6, <1>7, <1>8, Became

LEMMA ChooseStep ==
  ASSUME AtWork, Choose, at # 1
  PROVE  ParserInvariant'
<1>1. /\ Innermost.todo # << >> /\ Todo.do \in {"if", "ahead", "while", "switch"}
      /\ Todo \in Body(Callable)
  BY TodoFacts DEF Choose, At, Ready, Kept
<1>2. Seq(Plain(Callable)) \subseteq Seq(Body(Callable))
  BY Compounds
<1>3. Todo.do # "if" => Innermost.rule # "Union" /\ Innermost.rule # "StructElement"
  BY <1>1, UnlikeUnions
<1>4. ASSUME NEW is \in Seq(Body(Callable)), Become(is), Innermost.rule # "StructElement",
             Innermost.rule = "Union" => is \in {Todo.then, Todo.else}
      PROVE  ParserInvariant'
  BY <1>1, <1>3, <1>4, BecameBodies
<1>5. ASSUME NEW x \in Ready, Become(<<x>>), Innermost.rule # "Union",
             Innermost.rule = "StructElement" => x \in {Kept("Union"), Kept("Field")}
      PROVE  ParserInvariant'
  <2>1. <<x>> \in Seq(Body(Callable) \cup Ready)
    OBVIOUS
  <2>2. Tail(<<x>>) = << >> /\ << >> \in Seq(Body(Callable))
    BY Fewer
  <2> QED BY <1>1, <1>5, <2>1, <2>2, Became
<1>6. CASE Todo.do = "if" /\ Become(IF Sees(Todo.pattern) THEN Todo.then ELSE Todo.else)
  <2>1. CASE Todo.then \in Seq(Plain(Callable)) /\ Todo.else \in Seq(Plain(Callable))
    <3>1. Innermost.rule # "StructElement"
      <4>1. SUFFICES ASSUME Innermost.rule = "StructElement"
                     PROVE  FALSE
        OBVIOUS
      <4>2. <<Kept("Union")>> \in Seq(Plain(Callable))
        BY <1>1, <2>1, <4>1, ElementTodo
      <4>3. Kept("Union") \in Plain(Callable)
        <5>1. <<Kept("Union")>>[1] = Kept("Union") /\ 1 \in 1..Len(<<Kept("Union")>>)
          OBVIOUS
        <5> QED BY ONLY <4>2, <5>1, ElementOfSeq
      <4>4. Kept("Union").do # "kept"
        BY <4>3, PlainKinds
      <4> QED BY <4>4 DEF Kept
    <3>2. PICK is \in {Todo.then, Todo.else} : Become(is)
      BY <1>6
    <3>3. is \in Seq(Body(Callable))
      BY <1>2, <2>1
    <3> QED BY <1>4, <3>1, <3>2, <3>3
  <2>2. CASE Todo = StructElement[1] /\ {"Union", "Field"} \subseteq Callable
    <3>1. /\ Todo.pattern = <<{"union"}>>
          /\ Todo.then = <<Kept("Union")>>
          /\ Todo.else = <<Kept("Field")>>
      BY <2>2 DEF StructElement, If
    <3>2. Sees(Todo.pattern) => Peek(0) \in First("Union")
      <4>1. SUFFICES ASSUME Sees(Todo.pattern) PROVE Peek(0) = "union"
        BY FirstOfMembers
      <4>2. 1 \in DOMAIN <<{"union"}>> /\ <<{"union"}>>[1] = {"union"} /\ 1 - 1 = 0
        OBVIOUS
      <4> QED BY <3>1, <4>1, <4>2 DEF Sees
    <3>3. PICK x \in {Kept("Union"), Kept("Field")} : Become(<<x>>) /\ x \in Ready
      <4>1. CASE Sees(Todo.pattern)
        <5>1. Kept("Union") \in Ready
          BY <2>2, <3>2, <4>1 DEF Ready
        <5> QED BY <1>6, <3>1, <4>1, <5>1
      <4>2. CASE ~Sees(Todo.pattern)
        <5>1. Kept("Field") \in Ready
          BY <2>2 DEF Ready
        <5> QED BY <1>6, <3>1, <4>2, <5>1
      <4> QED BY <4>1, <4>2
    <3>4. Innermost.rule # "Union"
      <4>1. SUFFICES ASSUME Innermost.rule = "Union"
                     PROVE  FALSE
        OBVIOUS
      <4>2. Todo \in {When(<<Identifiers>>, <<Name>>), Maybe("Comment", "CommentBlock")}
        BY <1>1, <1>6, <4>1, UnionStarted, UnionTodo DEF Todo
      <4>3. Todo.else = << >>
        BY <4>2 DEF When, If, Maybe
      <4>4. <<Kept("Field")>> # << >>
        OBVIOUS
      <4> QED BY <3>1, <4>3, <4>4
    <3> QED BY <1>5, <3>3, <3>4
  <2> QED BY <1>1, <1>6, <2>1, <2>2, Kinds
<1>7. CASE /\ Todo.do = "ahead"
           /\ Become(IF Peek(Todo.at) = Todo.token THEN Todo.then ELSE Todo.else)
  <2>1. Todo.then \in Seq(Plain(Callable)) /\ Todo.else \in Seq(Plain(Callable))
    BY <1>1, <1>7, Kinds
  <2>2. PICK is \in Seq(Body(Callable)) : Become(is)
    BY <1>2, <1>7, <2>1
  <2> QED BY <1>3, <1>4, <1>7, <2>2
<1>8. CASE /\ Todo.do = "while"
           /\ Become(IF Sees(Todo.pattern) THEN Append(Todo.body, Todo) ELSE << >>)
  <2>1. Todo.body \in Seq(Plain(Callable))
    BY <1>1, <1>8, Kinds
  <2>2. Append(Todo.body, Todo) \in Seq(Body(Callable)) /\ << >> \in Seq(Body(Callable))
    BY <1>1, <1>2, <2>1
  <2>3. PICK is \in Seq(Body(Callable)) : Become(is)
    BY <1>8, <2>2
  <2> QED BY <1>3, <1>4, <1>8, <2>3
<1>9. CASE /\ Todo.do = "switch"
           /\ \E case \in Todo.cases : Peek(0) \in case.tokens /\ Become(case.then)
  <2>1. PICK case \in Todo.cases : Peek(0) \in case.tokens /\ Become(case.then)
    BY <1>9
  <2>2. case \in Case(Callable)
    BY <1>1, <1>9, Kinds
  <2>3. CASE case.then \in Seq(Plain(Callable))
    BY <1>2, <1>3, <1>4, <1>9, <2>1, <2>3
  <2>4. CASE \E step \in Steps : case = For(First(step), <<Kept(step)>>)
    <3>1. PICK step \in Steps : case.tokens = First(step) /\ case.then = <<Kept(step)>>
      BY <2>4 DEF For
    <3>2. step \in Callable
      <4>1. DOMAIN Rules \ StructRules \subseteq Callable
        BY DEF Callable
      <4> QED BY <4>1, RuleNames DEF Steps
    <3>3. Kept(step) \in Ready
      BY <2>1, <3>1, <3>2 DEF Ready
    <3> QED BY <1>3, <1>5, <1>9, <2>1, <3>1, <3>3
  <2> QED BY <2>2, <2>3, <2>4 DEF Case
<1>10. CASE Todo.do = "switch" /\ Become(Todo.default)
  <2>1. Todo.default \in Seq(Body(Callable))
    BY <1>1, <1>2, <1>10, Kinds
  <2> QED BY <1>3, <1>4, <1>10, <2>1
<1> QED BY <1>6, <1>7, <1>8, <1>9, <1>10 DEF Choose, At

-----------------------------------------------------------------------------
(* A call is made, and a token is stepped over.                            *)

LEMMA EnterStep ==
  ASSUME AtWork, Enter
  PROVE  ParserInvariant'
<1> PICK w, t, c, d, rule :
      /\ w = Innermost /\ t = Tail(Innermost.todo) /\ c = [w EXCEPT !.todo = t]
      /\ rule = Todo.rule /\ d = Called(rule, Todo.do = "kept")
  OBVIOUS
<1>1. /\ tokens' = tokens /\ at' = at /\ reported' = reported /\ pc' = pc
      /\ Innermost.todo # << >> /\ Todo.do \in {"call", "kept"}
      /\ calls' = Append([calls EXCEPT ![Len(calls)].todo = Tail(@)], d)
  BY DEF Enter, At
<1>2. Onward
  BY <1>1 DEF Onward
<1>3. /\ IsCall(w) /\ SoundCall(w) /\ Working(w) /\ w = calls[Len(calls)] /\ at \in Nat /\ at # 0
      /\ w.at \in Nat /\ w.at <= at
  BY CallFacts DEF Innermost
<1>4. /\ c = [rule |-> w.rule, at |-> w.at, kids |-> w.kids, todo |-> t, kept |-> w.kept]
  BY <1>3 DEF IsCall
<1>5. c.rule = w.rule /\ c.at = w.at /\ c.kids = w.kids /\ c.todo = t /\ c.kept = w.kept
  BY ONLY <1>4
<1>6. calls' = Append([calls EXCEPT ![Len(calls)] = c], d)
  <2>1. c = [calls[Len(calls)] EXCEPT !.todo = Tail(@)]
    BY <1>3
  <2> QED BY ONLY <1>1, <2>1
<1>7. Callable' = Callable /\ Ready' = Ready /\ Peek(0)' = Peek(0)
  BY <1>1, SameTokens DEF Ready, Peek
<1>8. IsCall(c)'
  <2>1. IsCall(w)'
    BY <1>2, <1>3, CallsForGood
  <2> QED BY ONLY <1>4, <1>5, <2>1 DEF IsCall
<1>9. SoundCall(c)'
  <2>1. SoundCall(w)'
    BY <1>2, <1>3, SoundForGood
  <2> QED BY ONLY <1>5, <2>1 DEF SoundCall
<1>10. /\ rule \in Callable
       /\ Todo.do = "kept" => /\ rule \in Steps \cup {"Union", "Field"}
                              /\ rule # "Field" => Peek(0) \in First(rule)
  <2>1. CASE Todo.do = "call"
    <3>1. Todo \in Body(Callable)
      BY <1>1, <2>1, TodoFacts DEF Ready, Kept
    <3> QED BY <2>1, <3>1, Kinds
  <2>2. CASE Todo.do = "kept"
    <3>1. Todo \in Ready
      BY <1>1, <2>2, TodoFacts, Kinds
    <3>2. PICK r \in (Steps \cup {"Union", "Field"}) \cap Callable :
             Todo = Kept(r) /\ (r = "Field" \/ Peek(0) \in First(r))
      BY <3>1 DEF Ready
    <3>3. rule = r
      BY <3>2 DEF Kept
    <3> QED BY <3>2, <3>3
  <2> QED BY <1>1, <2>1, <2>2
<1>11. d = [rule |-> rule, at |-> at, kids |-> << >>, todo |-> Rules[rule], kept |-> Todo.do = "kept"]
  BY DEF Called
<1>12. /\ d.rule = rule /\ d.at = at /\ d.kids = << >> /\ d.todo = Rules[rule]
       /\ d.kept = (Todo.do = "kept")
  BY ONLY <1>11
<1>13. IsCall(d)'
  <2>1. at \in 1..at'
    BY <1>1, <1>3
  <2>2. d = [rule |-> d.rule, at |-> d.at, kids |-> d.kids, todo |-> d.todo, kept |-> d.kept]
    BY ONLY <1>11, <1>12
  <2>3. d.kept \in BOOLEAN /\ (d.kept => Todo.do = "kept")
    BY ONLY <1>12
  <2> QED BY <1>7, <1>10, <1>12, <2>1, <2>2, <2>3 DEF IsCall
<1>14. SoundCall(d)'
  <2>1. IsSeq(<< >>) /\ DOMAIN << >> = {}
    BY DEF IsSeq
  <2> QED BY <1>12, <2>1 DEF SoundCall, Ordered
<1>15. Working(d)'
  <2>1. Rules[rule] \in Seq(Body(Callable))
    BY <1>10, FunctionsAreBodies
  <2>2. Rules[rule] \in Seq(Body(Callable) \cup Ready)
    BY <2>1, SeqMonotonic
  <2>3. Rules[rule] # << >> => Tail(Rules[rule]) \in Seq(Body(Callable))
    BY <2>1, HeadTailProperties
  <2>4. NotStarted(d)'
    <3>1. d.kept => Todo.do = "kept"
      BY ONLY <1>12
    <3> QED BY <1>1, <1>7, <1>10, <1>12, <3>1 DEF NotStarted
  <2>5. d.rule = "StructElement" => ElementAtWork(d)'
    <3>1. Rules["StructElement"] = StructElement
      BY DEF Rules
    <3> QED BY <1>1, <1>12, <3>1 DEF ElementAtWork
  <2>6. DOMAIN d.kids = {}
    BY <1>12
  <2> QED BY <1>7, <1>12, <2>2, <2>3, <2>4, <2>5, <2>6 DEF Working
<1>16. Waiting(c, d)
  <2>1. \A i \in DOMAIN c.kids : Before(c.kids[i], d.at)
    BY <1>3, <1>5, <1>12 DEF Working
  <2>2. c.todo \in Seq(Body(Callable))
    BY <1>1, <1>5, TodoFacts
  <2>3. c.rule \in Starting => Started(c)
    <3>1. w.rule \in Starting => Started(w)
      BY <1>1, HasStarted
    <3> QED BY <1>5, <3>1 DEF Started
  <2>4. c.rule = "Union" => Len(c.kids) >= 2 /\ NamedUnion(c) /\ c.todo \in UnionLeft
    <3> SUFFICES ASSUME w.rule = "Union"
                 PROVE  Len(c.kids) >= 2 /\ NamedUnion(c) /\ c.todo \in UnionLeft
      BY <1>5
    <3>1. /\ UnionAtWork(w) /\ w.todo \in UnionName \cup UnionLeft /\ Todo.do = "call"
      BY <1>1, UnionStarted
    <3>2. t \in UnionLeft /\ w.todo \notin UnionName
      BY <1>1, <3>1, UnionTodo DEF Todo
    <3>3. Len(w.kids) >= 2 /\ NamedUnion(w)
      BY <3>1, <3>2 DEF UnionAtWork, UnionName
    <3>4. NamedUnion(c)
      BY <1>5, <3>3 DEF NamedUnion
    <3> QED BY <1>5, <3>2, <3>3, <3>4
  <2>5. c.rule = "StructElement" =>
          c.todo = << >> /\ c.kids = << >> /\ d.rule \in {"Union", "Field"} /\ d.at = c.at
    <3> SUFFICES ASSUME w.rule = "StructElement"
                 PROVE  c.todo = << >> /\ c.kids = << >> /\ d.rule \in {"Union", "Field"} /\ d.at = c.at
      BY <1>5
    <3>1. /\ w.kids = << >> /\ w.at = at /\ t = << >> /\ Todo \in {Kept("Union"), Kept("Field")}
      BY <1>1, ElementTodo
    <3>2. rule \in {"Union", "Field"}
      BY <3>1 DEF Kept
    <3> QED BY <1>5, <1>12, <3>1, <3>2
  <2> QED BY <1>3, <1>5, <1>12, <2>1, <2>2, <2>3, <2>4, <2>5 DEF Waiting
<1>17. Calls'
  <2>1. Waiting(c, d)'
    BY <1>2, <1>3, <1>5, <1>16, CallsForGood
  <2>2. c.rule = Innermost.rule /\ c.at = Innermost.at /\ c.kept = Innermost.kept
    BY <1>5
  <2> QED BY ONLY AtWork, <1>2, <1>6, <1>8, <1>9, <1>13, <1>14, <1>15, <2>1, <2>2, Enters
<1>18. Begun'
  <2> SUFFICES ASSUME at = 1
               PROVE  Len(calls') = 2 /\ (Innermost.todo)' \in {CommentBlock, StatementSyntax}
    BY <1>1 DEF Begun
  <2>1. /\ Todo.do = "call" /\ Len(calls) = 1
        /\ Innermost.todo \in {<<Call("CommentBlock")>> \o Tail(Module), Tail(Module)}
    BY <1>1, Beginning
  <2>2. Todo \in {Call("CommentBlock"), Call("StatementSyntax")}
    <3>1. CASE Innermost.todo = Tail(Module)
      BY <3>1 DEF Todo, Module
    <3>2. CASE Innermost.todo = <<Call("CommentBlock")>> \o Tail(Module)
      <4> PICK a, x, y : a = Call("CommentBlock") /\ Tail(Module) = <<x, y>>
        BY DEF Module
      <4>1. <<a>> \o <<x, y>> = <<a, x, y>>
        BY ONLY Together
      <4>2. Innermost.todo = <<a, x, y>>
        BY <3>2, <4>1
      <4>3. Todo = a
        BY ONLY <4>2, Fewer DEF Todo
      <4> QED BY <4>3
    <3> QED BY <2>1, <3>1, <3>2
  <2>3. rule \in {"CommentBlock", "StatementSyntax"}
    BY <2>2 DEF Call
  <2>4. d.todo \in {CommentBlock, StatementSyntax}
    BY <1>12, <2>3 DEF Rules
  <2>5. Len(calls') = Len(calls) + 1 /\ (Innermost)' = d
    <3> PICK s, u : s = calls' /\ u = [calls EXCEPT ![Len(calls)] = c]
      OBVIOUS
    <3>1. IsSeq(calls) /\ calls # << >>
      BY CallFacts, SequenceFacts
    <3>2. u = [calls EXCEPT ![Len(calls)] = c] /\ s = Append(u, d)
      BY <1>6
    <3>3. IsSeq(u) /\ Len(u) = Len(calls)
      BY ONLY <3>1, <3>2, Replaced
    <3>4. Len(s) = Len(u) + 1 /\ s[Len(u) + 1] = d
      BY ONLY <3>2, <3>3, Appended
    <3> QED BY <3>3, <3>4 DEF Innermost
  <2> QED BY <2>1, <2>4, <2>5
<1> QED BY <1>1, <1>17, <1>18 DEF AtWork, ParserInvariant, FailedIsReported

LEMMA AdvanceStep ==
  ASSUME AtWork, Advance
  PROVE  ParserInvariant'
<1> PICK w, t, x, kids, c :
      /\ w = Innermost /\ t = Tail(Innermost.todo) /\ x = Leaf(Peek(0), at)
      /\ kids = Append(w.kids, x)
      /\ c = [w EXCEPT !.todo = t, !.kids = kids]
  OBVIOUS
<1>1. /\ tokens' = tokens /\ at' = at + 1 /\ reported' = reported /\ pc' = pc
      /\ Innermost.todo # << >> /\ Todo.do = "expect" /\ Peek(0) \in Todo.tokens
      /\ calls' = [calls EXCEPT ![Len(calls)] =
                     [@ EXCEPT !.todo = Tail(Innermost.todo), !.kids = Append(Innermost.kids, x)]]
  BY DEF Advance, At
<1>2. Onward
  BY <1>1 DEF Onward
<1>3. /\ IsCall(w) /\ SoundCall(w) /\ Working(w) /\ w = calls[Len(calls)] /\ at \in Nat /\ at # 0
      /\ w.at \in Nat /\ w.at <= at /\ tokens \in Seq(TokenType)
  BY CallFacts DEF Innermost
<1>4. c = [rule |-> w.rule, at |-> w.at, kids |-> kids, todo |-> t, kept |-> w.kept]
  BY <1>3 DEF IsCall
<1>5. c.rule = w.rule /\ c.at = w.at /\ c.kids = kids /\ c.todo = t /\ c.kept = w.kept
  BY ONLY <1>4
<1>6. calls' = [calls EXCEPT ![Len(calls)] = c]
  <2>1. c = [calls[Len(calls)] EXCEPT !.todo = t, !.kids = kids]
    BY <1>3
  <2>2. calls' = [calls EXCEPT ![Len(calls)] = [calls[Len(calls)] EXCEPT !.todo = t, !.kids = kids]]
    BY <1>1, <1>3
  <2> QED BY ONLY <2>1, <2>2
<1>7. /\ Peek(0) \in TokenType /\ at \in 1..Len(tokens) /\ Peek(0) = tokens[at]
      /\ Todo \in Body(Callable)
  <2>1. Todo \in Body(Callable)
    BY <1>1, TodoFacts DEF Ready, Kept
  <2>2. Todo.tokens \in SUBSET TokenType
    BY <1>1, <2>1, Kinds
  <2>3. "EOF" \notin TokenType
    BY RuleWords
  <2> QED BY <1>1, <1>3, <2>1, <2>2, <2>3 DEF Peek
<1>8. x.rule = Peek(0) /\ x.at = at /\ x.kids = << >>
  BY DEF Leaf
<1>9. /\ IsSeq(w.kids) /\ Len(w.kids) \in Nat /\ DOMAIN w.kids = 1..Len(w.kids)
      /\ IsSeq(kids) /\ Len(kids) = Len(w.kids) + 1 /\ DOMAIN kids = 1..(Len(w.kids) + 1)
      /\ kids[Len(w.kids) + 1] = x /\ kids # << >>
      /\ \A i \in 1..Len(w.kids) : kids[i] = w.kids[i]
  <2>1. IsSeq(w.kids)
    BY <1>3 DEF SoundCall
  <2>2. Len(w.kids) \in Nat /\ DOMAIN w.kids = 1..Len(w.kids)
    BY ONLY <2>1, SequenceFacts
  <2>3. kids = Append(w.kids, x)
    OBVIOUS
  <2>4. IsSeq(kids) /\ Len(kids) = Len(w.kids) + 1 /\ kids[Len(w.kids) + 1] = x
    BY ONLY <2>1, <2>3, Appended
  <2>5. \A i \in 1..Len(w.kids) : kids[i] = w.kids[i]
    BY ONLY <2>1, <2>3, Appended
  <2>6. DOMAIN kids = 1..(Len(w.kids) + 1) /\ kids # << >>
    BY ONLY <2>2, <2>4, SequenceFacts
  <2> QED BY <2>1, <2>2, <2>4, <2>5, <2>6
<1>10. \A i \in 1..Len(w.kids) : Before(kids[i], at) /\ Before(kids[i], at + 1)
  <2> TAKE i \in 1..Len(w.kids)
  <2>1. Before(kids[i], at)
    BY <1>3, <1>9 DEF Working
  <2>2. at + 1 \in Nat /\ at <= at + 1
    BY <1>3
  <2> QED BY ONLY <1>3, <2>1, <2>2, BeforeLater
<1>11. Before(x, at + 1)
  <2>1. DOMAIN x.kids = {}
    BY <1>8
  <2>2. x.at = at /\ at \in Nat /\ at # 0
    BY <1>3, <1>8
  <2>3. at \in 1..((at + 1) - 1)
    BY ONLY <2>2
  <2>4. NameBefore(x, at + 1)
    BY ONLY <2>2, <2>3 DEF NameBefore
  <2> QED BY ONLY <2>1, <2>4 DEF Before
<1>12. Sound(x)
  <2>1. x.rule \notin {"Field", "UnionField", "Union", "StructElement", "StatementStruct"}
    BY <1>7, <1>8, RuleWords
  <2> QED BY <2>1 DEF Sound
<1>13. IsCall(c)'
  <2>1. IsCall(w)'
    BY <1>2, <1>3, CallsForGood
  <2> QED BY ONLY <1>4, <1>5, <2>1 DEF IsCall
<1>14. SoundCall(c)'
  <2>0. \A i \in DOMAIN kids : kids[i].at \in Nat
    <3>1. \A i \in 1..Len(w.kids) : w.kids[i].at \in Nat
      BY <1>3, <1>9 DEF SoundCall, Ordered
    <3> QED BY <1>3, <1>8, <1>9, <3>1
  <2>1. Ordered(kids)
    <3> SUFFICES ASSUME NEW i \in DOMAIN kids, NEW j \in DOMAIN kids, i < j, kids[j].rule # "nil"
                 PROVE  Before(kids[i], kids[j].at)
      BY <2>0 DEF Ordered
    <3>1. i \in 1..Len(w.kids)
      BY <1>9
    <3>2. CASE j \in 1..Len(w.kids)
      <4>1. Ordered(w.kids)
        BY <1>3 DEF SoundCall
      <4> QED BY <1>9, <3>1, <3>2, <4>1 DEF Ordered
    <3>3. CASE j \notin 1..Len(w.kids)
      <4>1. kids[j] = x
        BY <1>9, <3>3
      <4> QED BY <1>8, <1>10, <3>1, <4>1
    <3> QED BY <3>2, <3>3
  <2>2. ASSUME NEW i \in DOMAIN kids
        PROVE  Sound(kids[i])'
    <3> PICK y : y = kids[i]
      OBVIOUS
    <3>1. Sound(y)
      <4>1. CASE i \in 1..Len(w.kids)
        BY <1>3, <1>9, <4>1 DEF SoundCall
      <4>2. CASE i \notin 1..Len(w.kids)
        BY <1>9, <1>12, <4>2
      <4> QED BY <4>1, <4>2
    <3>2. Sound(y)'
      BY <1>2, <3>1, SoundForGood
    <3> QED BY <3>2
  <2> QED BY <1>5, <1>9, <2>1, <2>2 DEF SoundCall
\* It has started with this token, or before.
<1>15. w.kids # << >> => kids[1] = w.kids[1]
  <2>1. w.kids # << >> => 1 \in 1..Len(w.kids)
    BY <1>9, SequenceFacts
  <2> QED BY <1>9, <2>1
<1>16. w.kids = << >> => kids[1] = x /\ Len(kids) = 1
  <2>1. w.kids = << >> => Len(w.kids) = 0
    OBVIOUS
  <2> QED BY <1>9, <2>1
<1>17. NotStarted(w) /\ w.rule \in Starting =>
         /\ w.kids = << >> /\ w.todo = Rules[w.rule] /\ w.at = at /\ Peek(0) \in First(w.rule)
  <2> SUFFICES ASSUME NotStarted(w), w.rule \in Starting
               PROVE  /\ w.kids = << >> /\ w.todo = Rules[w.rule] /\ w.at = at
                      /\ Peek(0) \in First(w.rule)
    OBVIOUS
  <2>1. w.kids = << >> /\ w.todo = Rules[w.rule] /\ w.at = at
    BY DEF NotStarted
  <2>2. Todo = Rules[w.rule][1]
    BY <1>1, <2>1, TodoFacts
  <2>3. Todo.tokens = First(w.rule)
    BY <2>2, FirstInstructions
  <2> QED BY <1>1, <2>1, <2>3
<1>18. w.rule \in Starting => Started(c)'
  <2> SUFFICES ASSUME w.rule \in Starting
               PROVE  Started(c)'
    OBVIOUS
  <2>1. CASE Started(w)
    <3>1. Started(w)'
      BY <1>2, <1>3, <2>1, CallsForGood
    <3> QED BY <1>5, <1>9, <1>15, <3>1 DEF Started
  <2>2. CASE NotStarted(w)
    <3>1. kids[1] = x /\ w.at = at /\ Peek(0) \in First(w.rule)
      BY <1>16, <1>17, <2>2
    <3>2. c.kids[1].rule \in First(c.rule) /\ c.kids[1].at = c.at /\ c.at < at'
      BY <1>1, <1>3, <1>5, <1>8, <3>1
    <3> QED BY <1>5, <1>9, <3>2 DEF Started
  <2> QED BY <1>3, <2>1, <2>2 DEF Working
<1>19. w.rule = "Union" => UnionAtWork(c)'
  <2> SUFFICES ASSUME w.rule = "Union"
               PROVE  UnionAtWork(c)'
    OBVIOUS
  <2>1. CASE w.kids = << >>
    <3>1. NotStarted(w)
      BY <1>3, <2>1 DEF Working, Started, Starting
    <3>2. w.todo = Union /\ w.at = at /\ Peek(0) = "union"
      <4>1. Rules["Union"] = Union
        BY DEF Rules
      <4> QED BY <1>17, <3>1, <4>1, FirstOfMembers DEF Starting
    <3>3. Len(c.kids) = 1 /\ c.kids[1] = x
      BY <1>5, <1>16, <2>1
    <3>4. at' = c.at + 1 /\ tokens'[c.at] = "union" /\ c.kids[1].rule = "union"
      BY <1>1, <1>5, <1>7, <1>8, <3>2, <3>3
    <3>5. c.todo = Tail(Union)
      BY <1>5, <3>2
    <3> QED BY <3>3, <3>4, <3>5 DEF UnionAtWork
  <2>2. CASE w.kids # << >>
    <3>1. UnionAtWork(w)
      BY <1>3, <2>2 DEF Working
    <3>2. w.todo \in UnionName \cup UnionLeft /\ w.todo # << >> /\ Todo = Head(w.todo)
      BY <1>1, <3>1 DEF UnionAtWork, UnionName, Todo
    <3>3. CASE w.todo \in UnionName /\ Len(w.kids) = 1
      <4>1. /\ Len(w.kids) = 1 /\ at = w.at + 1 /\ tokens[w.at] = "union" /\ w.kids[1].rule = "union"
        <5>1. ~(Len(w.kids) >= 2)
          BY <3>3
        <5> QED BY <3>1, <5>1 DEF UnionAtWork
      <4>2. \/ Todo = Name /\ t = Tail(Tail(Union))
            \/ Todo = One("{") /\ t = Tail(Tail(Tail(Union)))
        BY <1>1, <3>2, <3>3, UnionTodo
      <4>3. t \in UnionLeft
        BY <4>2 DEF UnionLeft
      <4>4. Len(kids) = 2 /\ kids[1] = w.kids[1] /\ kids[2] = x
        BY <1>9, <4>1
      <4>5. \/ Peek(0) \in Identifiers
            \/ Peek(0) = "{"
        <5>1. CASE Todo = Name
          <6>1. Todo.tokens = Identifiers
            BY <5>1 DEF Name, Expect
          <6> QED BY <1>1, <6>1
        <5>2. CASE Todo = One("{")
          <6>1. Todo.tokens = {"{"}
            BY <5>2 DEF One, Expect
          <6> QED BY <1>1, <6>1
        <5> QED BY <4>2, <5>1, <5>2
      <4>6. Peek(0) = "{" => Adjacent({"union"}, {"{"})
        <5>1. w.at \in 1..(Len(tokens) - 1) /\ w.at + 1 = at
          <6>1. w.at # 0
            BY CallFacts
          <6> QED BY <1>3, <1>7, <4>1, <6>1
        <5> QED BY <1>7, <4>1, <5>1 DEF Adjacent
      <4>7. NamedUnion(c)
        <5>1. \A i \in 3..Len(c.kids) : FALSE
          BY <1>5, <4>4
        <5>2. c.kids[1].rule = "union"
          BY <1>5, <4>1, <4>4
        <5>3. \/ c.kids[2].rule \in Identifiers /\ c.kids[2].at = c.at + 1
              \/ c.kids[2].rule = "{" /\ Adjacent({"union"}, {"{"})
          <6>1. c.kids[2].rule = Peek(0) /\ c.kids[2].at = c.at + 1
            BY <1>5, <1>8, <4>1, <4>4
          <6> QED BY <4>5, <4>6, <6>1
        <5> QED BY <5>1, <5>2, <5>3 DEF NamedUnion
      <4>8. NamedUnion(c)'
        BY <1>2, <4>7, SoundForGood
      <4> QED BY <1>5, <4>3, <4>4, <4>8 DEF UnionAtWork
    <3>4. CASE Len(w.kids) >= 2 /\ NamedUnion(w) /\ w.todo \in UnionLeft
      <4>1. \/ Todo = One("{") /\ t = Tail(Tail(Tail(Union)))
            \/ Todo = One("}") /\ t = <<Call("Metadata")>>
        BY <1>1, <3>2, <3>4, UnionTodo
      <4>2. t \in UnionLeft
        BY <4>1 DEF UnionLeft
      <4>3. x.rule \notin Identifiers /\ x.rule # "UnionField"
        <5>1. CASE Todo = One("{")
          <6>1. Todo.tokens = {"{"}
            BY <5>1 DEF One, Expect
          <6>2. x.rule = "{"
            BY <1>1, <1>8, <6>1
          <6> QED BY <6>2 DEF Identifiers
        <5>2. CASE Todo = One("}")
          <6>1. Todo.tokens = {"}"}
            BY <5>2 DEF One, Expect
          <6>2. x.rule = "}"
            BY <1>1, <1>8, <6>1
          <6> QED BY <6>2 DEF Identifiers
        <5> QED BY <4>1, <5>1, <5>2
      <4>4. NamedUnion(c)
        <5>1. c.kids[1] = w.kids[1] /\ c.kids[2] = w.kids[2]
          BY <1>5, <1>9, <3>4
        <5>2. ASSUME NEW i \in 3..Len(c.kids)
              PROVE  /\ c.kids[i].rule \notin Identifiers
                     /\ c.kids[i].rule = "UnionField" => SoundField(c.kids[i])
          <6>1. CASE i \in 1..Len(w.kids)
            <7>1. i \in 3..Len(w.kids) /\ c.kids[i] = w.kids[i]
              BY <1>5, <1>9, <6>1
            <7> QED BY <3>4, <7>1 DEF NamedUnion
          <6>2. CASE i \notin 1..Len(w.kids)
            <7>1. c.kids[i] = x
              BY <1>5, <1>9, <6>2
            <7> QED BY <4>3, <7>1
          <6> QED BY <6>1, <6>2
        <5> QED BY <1>5, <3>4, <5>1, <5>2 DEF NamedUnion
      <4>5. NamedUnion(c)'
        BY <1>2, <4>4, SoundForGood
      <4> QED BY <1>5, <1>9, <3>4, <4>2, <4>5 DEF UnionAtWork
    <3> QED BY <3>1, <3>3, <3>4 DEF UnionAtWork, UnionName
  <2> QED BY <2>1, <2>2
<1>20. w.rule # "StructElement"
  <2>1. ASSUME w.rule = "StructElement"
        PROVE  FALSE
    <3>1. Todo.do \in {"if", "kept"}
      BY <1>1, <2>1, ElementTodo
    <3> QED BY <1>1, <3>1
  <2> QED BY <2>1
<1>21. Working(c)'
  <2>1. ASSUME NEW i \in DOMAIN kids
        PROVE  Before(kids[i], at')
    <3>1. CASE i \in 1..Len(w.kids)
      BY <1>1, <1>10, <3>1
    <3>2. CASE i \notin 1..Len(w.kids)
      BY <1>1, <1>9, <1>11, <3>2
    <3> QED BY <3>1, <3>2
  <2>2. /\ t \in Seq(Body(Callable) \cup Ready)'
        /\ t # << >> => Tail(t) \in Seq(Body(Callable))'
    <3>1. t \in Seq(Body(Callable))
      BY <1>1, TodoFacts
    <3>2. t \in Seq(Body(Callable))'
      BY <1>1, <3>1, SameTokens
    <3>3. PICK B, C : B = Body(Callable)' /\ C = (Body(Callable) \cup Ready)'
      OBVIOUS
    <3>4. B \subseteq C /\ t \in Seq(B)
      BY <3>2, <3>3
    <3>5. t \in Seq(C)
      BY ONLY <3>4, SeqMonotonic
    <3>6. t # << >> => Tail(t) \in Seq(B)
      BY ONLY <3>4, HeadTailProperties
    <3> QED BY ONLY <3>3, <3>5, <3>6
  <2> QED BY <1>5, <1>18, <1>19, <1>20, <2>1, <2>2 DEF Working
<1>22. Calls'
  <2>1. c.rule = Innermost.rule /\ c.at = Innermost.at /\ c.kept = Innermost.kept
    BY <1>5
  <2> QED BY ONLY AtWork, <1>2, <1>6, <1>13, <1>14, <1>21, <2>1, Proceeds
<1>23. Begun'
  BY <1>1, <1>3 DEF Begun
<1>24. at' \in 1..(Len(tokens') + 1)
  BY <1>1, <1>3, <1>7
<1> QED BY <1>1, <1>22, <1>23, <1>24 DEF AtWork, ParserInvariant, FailedIsReported

-----------------------------------------------------------------------------

LEMMA Starts ==
  ASSUME ParserInit
  PROVE  ParserInvariant
<1> PICK c : c = Innermost
  OBVIOUS
<1>1. tokens \in Seq(TokenType) /\ Len(tokens) \in Nat
  BY InputsAssumption DEF ParserInit
<1>2. /\ at = 1 /\ calls = <<Called("Module", FALSE)>> /\ reported = FALSE /\ pc = "parse"
  BY DEF ParserInit
<1>3. Len(calls) = 1 /\ calls[1] = c /\ DOMAIN calls = 1..1 /\ IsSeq(calls) /\ calls # << >>
  <2> PICK x : x = Called("Module", FALSE)
    OBVIOUS
  <2>1. calls = <<x>> /\ c = calls[Len(calls)]
    BY <1>2 DEF Innermost
  <2>2. <<x>> \in Seq({x}) /\ Len(<<x>>) = 1 /\ <<x>>[1] = x
    OBVIOUS
  <2>3. IsSeq(calls)
    BY ONLY <2>1, <2>2, SequenceOfAny
  <2>4. Len(calls) = 1 /\ calls[1] = c /\ calls # << >>
    BY ONLY <2>1, <2>2
  <2>5. DOMAIN calls = 1..1
    BY ONLY <2>3, <2>4, SequenceFacts
  <2> QED BY <2>3, <2>4, <2>5
<1>4. Rules["Module"] = Module /\ "Module" \in Callable
  <2>1. DOMAIN Rules \ StructRules \subseteq Callable
    BY DEF Callable
  <2> QED BY <2>1, RuleNames DEF Rules
<1>5. c = [rule |-> "Module", at |-> 1, kids |-> << >>, todo |-> Module, kept |-> FALSE]
  BY <1>2, <1>3, <1>4 DEF Called
<1>6. c.rule = "Module" /\ c.at = 1 /\ c.kids = << >> /\ c.todo = Module /\ c.kept = FALSE
  BY ONLY <1>5
<1>7. IsCall(c)
  BY <1>2, <1>4, <1>5, <1>6 DEF IsCall
<1>8. SoundCall(c)
  <2>1. IsSeq(<< >>) /\ DOMAIN << >> = {}
    BY DEF IsSeq
  <2> QED BY <1>6, <2>1 DEF SoundCall, Ordered
<1>9. Working(c)
  <2>1. Module \in Seq(Body(Callable))
    BY <1>4, FunctionsAreBodies
  <2>2. Module \in Seq(Body(Callable) \cup Ready)
    BY <2>1, SeqMonotonic
  <2>3. Module # << >> => Tail(Module) \in Seq(Body(Callable))
    BY <2>1, HeadTailProperties
  <2>4. DOMAIN c.kids = {} /\ c.rule \notin Starting /\ c.rule # "Union" /\ c.rule # "StructElement"
    BY <1>6 DEF Starting, Steps
  <2> QED BY <1>6, <2>2, <2>3, <2>4 DEF Working
<1>10. Calls
  BY <1>3, <1>6, <1>7, <1>8, <1>9 DEF Calls
<1>11. Begun
  BY <1>2, <1>3, <1>6 DEF Begun
<1> QED BY <1>1, <1>2, <1>10, <1>11 DEF ParserInvariant, FailedIsReported

\* One step of the parser.
LEMMA ParserInvariantKept ==
  ASSUME ParserInvariant, [ParserNext]_parserVars
  PROVE  ParserInvariant'
<1>1. CASE UNCHANGED parserVars
  <2>1. /\ tokens' = tokens /\ at' = at /\ calls' = calls /\ reported' = reported /\ pc' = pc
    BY <1>1 DEF parserVars
  <2>2. pc \in {"parse", "parsed"} => Calls'
    <3> SUFFICES ASSUME Calls
                 PROVE  Calls'
      BY DEF ParserInvariant
    <3> QED BY <2>1, SameCalls DEF ParserInvariant
  <2>3. Begun => Begun'
    BY <2>1 DEF Begun, Innermost
  <2>4. FailedIsReported'
    BY <2>1 DEF ParserInvariant, FailedIsReported, Uses
  <2> QED BY <2>1, <2>2, <2>3, <2>4 DEF ParserInvariant
<1>2. CASE ParserNext
  <2>1. AtWork
    BY <1>2 DEF AtWork, ParserNext, Advance, Unexpected, Refused, Refusal, Dropped, Passed, Enter,
            Return, Choose, ListStep, ElementStep, StatementStep, Parsed, At
  <2> QED BY <1>2, <2>1, AdvanceStep, UnexpectedStep, RefusedStep, DroppedStep, PassedStep,
             EnterStep, ReturnStep, FirstChoice, ChooseStep, ListsStep, ElementsStep,
             StatementsStep, ParsedStep DEF ParserNext
<1> QED BY <1>1, <1>2

-----------------------------------------------------------------------------
(* What is selected from the kids of a node.                               *)

LEMMA LeastOf ==
  ASSUME NEW S \in SUBSET Nat, S # {}
  PROVE  \E m \in S : \A j \in S : m <= j
<1>1. PICK m \in S : \A j \in S : <<j, m>> \notin OpToRel(<, Nat)
  BY NatLessThanWellFounded, WFMin
<1>2. ASSUME NEW j \in S, j < m
      PROVE  FALSE
  BY <1>1, <1>2 DEF OpToRel
<1> QED BY <1>2

\* The function that KidsOf is made with is there.
LEMMA KidsFound ==
  ASSUME NEW n, NEW rules, Len(n.kids) \in Nat
  PROVE  \E k : /\ KidsOf(n, rules) = k[Len(n.kids)]
                /\ k[0] = << >>
                /\ \A i \in 1..Len(n.kids) :
                     k[i] = IF n.kids[i].rule \in rules THEN Append(k[i - 1], n.kids[i])
                            ELSE k[i - 1]
<1> DEFINE Step(k, i) == IF i = 0 THEN << >>
                         ELSE IF n.kids[i].rule \in rules THEN Append(k[i - 1], n.kids[i])
                         ELSE k[i - 1]
           Found(m) == \E k : k = [i \in 0..m |-> Step(k, i)]
           Not == {m \in Nat : ~Found(m)}
<1>1. Found(0)
  <2> DEFINE k == [i \in 0..0 |-> << >>]
  <2>1. k = [i \in 0..0 |-> Step(k, i)]
    OBVIOUS
  <2> HIDE DEF k, Step
  <2> QED BY <2>1
<1>2. ASSUME NEW m \in Nat \ {0}, Found(m - 1)
      PROVE  Found(m)
  <2>1. m - 1 \in Nat
    BY <1>2
  <2>2. PICK k : k = [i \in 0..(m - 1) |-> Step(k, i)]
    BY <1>2
  <2> DEFINE l == [i \in 0..m |-> IF i = m THEN Step(k, m) ELSE k[i]]
  <2> HIDE DEF Found, Not
  <2>3. \A i \in 0..(m - 1) : l[i] = k[i]
    OBVIOUS
  <2>4. ASSUME NEW i \in 0..m
        PROVE  l[i] = Step(l, i)
    <3>1. CASE i = m
      <4>1. m - 1 \in 0..(m - 1)
        BY <2>1
      <4>2. l[m - 1] = k[m - 1]
        BY <2>3, <4>1
      <4>3. l[m] = Step(k, m)
        BY <1>2
      <4>4. Step(l, m) = Step(k, m)
        <5> HIDE DEF l
        <5> QED BY <4>2
      <4> QED BY <3>1, <4>3, <4>4
    <3>2. CASE i # m
      <4>1. i \in 0..(m - 1) /\ (i # 0 => i - 1 \in 0..(m - 1))
        BY <3>2
      <4>2. l[i] = Step(k, i)
        <5>1. \A j \in 0..(m - 1) : k[j] = Step(k, j)
          <6> HIDE DEF Step
          <6> QED BY <2>2
        <5>2. l[i] = k[i]
          BY <2>3, <4>1
        <5> HIDE DEF l, Step
        <5> QED BY <4>1, <5>1, <5>2
      <4>3. i # 0 => l[i - 1] = k[i - 1]
        BY <2>3, <4>1
      <4> HIDE DEF l
      <4>4. Step(k, i) = Step(l, i)
        BY <4>3
      <4> QED BY <4>2, <4>4
    <3> QED BY <3>1, <3>2
  <2>5. l = [i \in 0..m |-> l[i]]
    OBVIOUS
  <2> HIDE DEF l, Step
  <2>6. l = [i \in 0..m |-> Step(l, i)]
    BY <2>4, <2>5
  <2> QED BY <2>6 DEF Found
<1>3. Found(Len(n.kids))
  <2> SUFFICES ASSUME Not # {} PROVE FALSE
    OBVIOUS
  <2> HIDE DEF Found
  <2>1. PICK m \in Not : \A j \in Not : m <= j
    BY LeastOf
  <2>2. m \in Nat /\ ~Found(m)
    OBVIOUS
  <2>3. m - 1 \in Nat /\ m - 1 \notin Not
    <3> HIDE DEF Not
    <3>1. m # 0
      BY <1>1, <2>2
    <3> QED BY <2>1, <2>2, <3>1
  <2> QED BY <1>2, <2>2, <2>3
<1> DEFINE l == CHOOSE k : k = [i \in 0..Len(n.kids) |-> Step(k, i)]
<1>4. l = [i \in 0..Len(n.kids) |-> Step(l, i)]
  <2> HIDE DEF Step, Not
  <2> QED BY <1>3
<1>5. KidsOf(n, rules) = l[Len(n.kids)]
  BY DEF KidsOf
<1> HIDE DEF l, Found, Not
<1>6. \A i \in 0..Len(n.kids) : l[i] = Step(l, i)
  <2> HIDE DEF Step
  <2> QED BY <1>4
<1>7. l[0] = << >>
  BY <1>6
<1>8. \A i \in 1..Len(n.kids) :
        l[i] = IF n.kids[i].rule \in rules THEN Append(l[i - 1], n.kids[i]) ELSE l[i - 1]
  <2> TAKE i \in 1..Len(n.kids)
  <2>1. i \in 0..Len(n.kids) /\ i # 0
    OBVIOUS
  <2> QED BY <1>6, <2>1
<1> QED BY <1>5, <1>7, <1>8

\* All of the kids with one of the rules.
AllKept(s, n, rules) == \A a \in DOMAIN n.kids : n.kids[a].rule \in rules => \E i \in 1..Len(s) : s[i] = n.kids[a]

\* They are the kids with one of the rules, in the order of the node.
LEMMA KidsFacts ==
  ASSUME NEW n, NEW rules, IsSeq(n.kids), NEW s, s = KidsOf(n, rules)
  PROVE  /\ IsSeq(s)
         /\ \A i \in 1..Len(s) : \E a \in DOMAIN n.kids : s[i] = n.kids[a] /\ s[i].rule \in rules
         /\ \A i, j \in 1..Len(s) : i < j =>
              \E a, b \in DOMAIN n.kids : a < b /\ s[i] = n.kids[a] /\ s[j] = n.kids[b]
         /\ AllKept(s, n, rules)
<1> PICK kids, z : kids = n.kids /\ z = Len(n.kids)
  OBVIOUS
<1>1. IsSeq(kids) /\ z \in Nat /\ Len(n.kids) \in Nat /\ DOMAIN kids = 1..z
  BY SequenceFacts
<1>2. PICK k : /\ s = k[z] /\ k[0] = << >>
               /\ \A i \in 1..z :
                     k[i] = IF kids[i].rule \in rules THEN Append(k[i - 1], kids[i]) ELSE k[i - 1]
  <2>1. PICK k : /\ s = k[Len(n.kids)] /\ k[0] = << >>
                 /\ \A i \in 1..Len(n.kids) :
                      k[i] = IF n.kids[i].rule \in rules THEN Append(k[i - 1], n.kids[i])
                             ELSE k[i - 1]
    BY <1>1, KidsFound
  <2> QED BY <2>1
<1> DEFINE Selected(t, m) == \A i \in 1..Len(t) : \E a \in 1..m : t[i] = kids[a] /\ t[i].rule \in rules
           InOrder(t, m) == \A i, j \in 1..Len(t) : i < j =>
                              \E a, b \in 1..m : a < b /\ t[i] = kids[a] /\ t[j] = kids[b]
           Complete(t, m) == \A a \in 1..m : kids[a].rule \in rules => \E i \in 1..Len(t) : t[i] = kids[a]
           Right(m) == /\ IsSeq(k[m]) /\ Selected(k[m], m) /\ InOrder(k[m], m)
                       /\ Complete(k[m], m)
           Wrong == {m \in Nat : m <= z /\ ~Right(m)}
<1>5. Right(0)
  <2>1. IsSeq(<< >>) /\ Len(<< >>) = 0
    BY DEF IsSeq
  <2> QED BY <1>2, <2>1
<1>6. ASSUME NEW m \in 1..z, Right(m - 1)
      PROVE  Right(m)
  <2> PICK p, q : p = k[m - 1] /\ q = k[m]
    OBVIOUS
  <2>0. IsSeq(p) /\ Selected(p, m - 1) /\ InOrder(p, m - 1) /\ Complete(p, m - 1)
    <3> HIDE DEF Selected, InOrder, Complete
    <3> QED BY <1>6
  <2>1. Len(p) \in Nat
    BY <2>0, SequenceFacts
  <2>2. q = IF kids[m].rule \in rules THEN Append(p, kids[m]) ELSE p
    BY <1>2
  <2> SUFFICES IsSeq(q) /\ Selected(q, m) /\ InOrder(q, m) /\ Complete(q, m)
    <3> HIDE DEF Selected, InOrder, Complete
    <3> QED OBVIOUS
  <2> HIDE DEF Right, Wrong
  <2>3. \A a \in 1..(m - 1) : a \in 1..m /\ a < m
    BY <1>1
  <2>4. m \in 1..m /\ \A a \in 1..m : a \in 1..(m - 1) \/ a = m
    BY <1>1
  <2>5. CASE kids[m].rule \notin rules
    <3>1. q = p
      BY <2>2, <2>5
    <3>2. Selected(p, m)
      BY <2>0, <2>3
    <3>3. InOrder(p, m)
      BY <2>0, <2>3
    <3>4. Complete(p, m)
      BY <2>0, <2>4, <2>5
    <3> HIDE DEF Selected, InOrder, Complete
    <3> QED BY <2>0, <3>1, <3>2, <3>3, <3>4
  <2>6. CASE kids[m].rule \in rules
    <3>1. q = Append(p, kids[m])
      BY <2>2, <2>6
    <3>2. /\ IsSeq(q) /\ Len(q) = Len(p) + 1 /\ q[Len(p) + 1] = kids[m]
          /\ \A i \in 1..Len(p) : q[i] = p[i]
      BY ONLY <2>0, <3>1, Appended
    <3>3. \A i \in 1..Len(q) : i \in 1..Len(p) \/ i = Len(p) + 1
      BY ONLY <2>1, <3>2
    <3>4. ASSUME NEW i \in 1..Len(q)
          PROVE  \E a \in 1..m : q[i] = kids[a] /\ q[i].rule \in rules
      <4>1. CASE i \in 1..Len(p)
        <5>1. PICK a \in 1..(m - 1) : p[i] = kids[a] /\ p[i].rule \in rules
          BY <2>0, <4>1
        <5> QED BY <2>3, <3>2, <4>1, <5>1
      <4>2. CASE i = Len(p) + 1
        BY <2>4, <2>6, <3>2, <4>2
      <4> QED BY <3>3, <4>1, <4>2
    <3>5. ASSUME NEW i \in 1..Len(q), NEW j \in 1..Len(q), i < j
          PROVE  \E a, b \in 1..m : a < b /\ q[i] = kids[a] /\ q[j] = kids[b]
      <4>1. i \in 1..Len(p)
        BY ONLY <2>1, <3>2, <3>5
      <4>2. CASE j \in 1..Len(p)
        <5>1. PICK a, b \in 1..(m - 1) : a < b /\ p[i] = kids[a] /\ p[j] = kids[b]
          BY <2>0, <3>5, <4>1, <4>2
        <5> QED BY <2>3, <3>2, <4>1, <4>2, <5>1
      <4>3. CASE j = Len(p) + 1
        <5>1. PICK a \in 1..(m - 1) : p[i] = kids[a]
          BY <2>0, <4>1
        <5>2. a < m /\ a \in 1..m /\ q[i] = kids[a] /\ q[j] = kids[m]
          BY <2>3, <3>2, <4>1, <4>3, <5>1
        <5> QED BY <2>4, <5>2
      <4> QED BY <3>3, <4>2, <4>3
    <3>6. Selected(q, m)
      BY <3>4
    <3>7. InOrder(q, m)
      BY <3>5
    <3>8. ASSUME NEW a \in 1..m, kids[a].rule \in rules
          PROVE  \E i \in 1..Len(q) : q[i] = kids[a]
      <4>1. CASE a \in 1..(m - 1)
        <5>1. PICK i \in 1..Len(p) : p[i] = kids[a]
          BY <2>0, <3>8, <4>1
        <5>2. i \in 1..Len(q)
          BY <2>1, <3>2
        <5> QED BY <3>2, <5>1, <5>2
      <4>2. CASE a = m
        <5>1. Len(p) + 1 \in 1..Len(q)
          BY ONLY <2>1, <3>2
        <5> QED BY <3>2, <4>2, <5>1
      <4> QED BY <2>4, <4>1, <4>2
    <3>9. Complete(q, m)
      BY <3>8
    <3> HIDE DEF Selected, InOrder, Complete
    <3> QED BY <3>2, <3>6, <3>7, <3>9
  <2> QED BY <2>5, <2>6
<1>7. Right(z)
  <2> HIDE DEF Right
  <2> SUFFICES ASSUME Wrong # {} PROVE FALSE
    BY <1>1
  <2>1. PICK m \in Wrong : \A j \in Wrong : m <= j
    BY LeastOf
  <2>2. m \in Nat /\ m <= z /\ ~Right(m)
    OBVIOUS
  <2>3. m # 0
    BY <1>5, <2>2
  <2>4. m - 1 \in Nat /\ m - 1 <= z /\ m - 1 \notin Wrong /\ m \in 1..z
    <3> HIDE DEF Wrong
    <3> QED BY <1>1, <2>1, <2>2, <2>3
  <2>5. Right(m - 1)
    BY <2>4
  <2> QED BY <1>6, <2>2, <2>4, <2>5
<1>8. IsSeq(s) /\ Selected(s, z) /\ InOrder(s, z) /\ Complete(s, z)
  <2> HIDE DEF Selected, InOrder, Complete
  <2> QED BY <1>2, <1>7
<1> HIDE DEF Right, Wrong
<1>9. \A i \in 1..Len(s) : \E a \in DOMAIN n.kids : s[i] = n.kids[a] /\ s[i].rule \in rules
  BY <1>1, <1>8
<1>10. \A i, j \in 1..Len(s) : i < j =>
              \E a, b \in DOMAIN n.kids : a < b /\ s[i] = n.kids[a] /\ s[j] = n.kids[b]
  <2> TAKE i, j \in 1..Len(s)
  <2> HAVE i < j
  <2>1. PICK a, b \in 1..z : a < b /\ s[i] = kids[a] /\ s[j] = kids[b]
    BY <1>8
  <2> QED BY <1>1, <2>1
<1>11. AllKept(s, n, rules)
  BY <1>1, <1>8 DEF AllKept
<1> QED BY <1>8, <1>9, <1>10, <1>11

\* The same, for a node that one of them is.
LEMMA KidOfNode ==
  ASSUME NEW n, NEW rule, IsSeq(n.kids), NEW x \in ToSet(Kids(n, rule))
  PROVE  x.rule = rule /\ \E a \in DOMAIN n.kids : x = n.kids[a]
<1> PICK rules, s : rules = {rule} /\ s = KidsOf(n, rules)
  OBVIOUS
<1>1. /\ IsSeq(s)
      /\ \A i \in 1..Len(s) : \E a \in DOMAIN n.kids : s[i] = n.kids[a] /\ s[i].rule \in rules
  <2>1. s = KidsOf(n, rules)
    OBVIOUS
  <2> QED BY ONLY IsSeq(n.kids), <2>1, KidsFacts
<1>2. DOMAIN s = 1..Len(s)
  BY <1>1, SequenceFacts
<1>3. x \in ToSet(s)
  BY DEF Kids
<1>4. PICK i \in 1..Len(s) : x = s[i]
  BY <1>2, <1>3 DEF ToSet
<1> QED BY <1>1, <1>4

-----------------------------------------------------------------------------
(* The elements of a struct.                                               *)

\* The name of a field is the token it begins with, that of a union its second.
LEMMA NameOfField ==
  ASSUME NEW n, SoundField(n)
  PROVE  NameOf(n) = n.at
<1> DEFINE Is(i) == i \in DOMAIN n.kids /\ n.kids[i].rule \in Identifiers
                    /\ \A j \in 1..(i - 1) : n.kids[j].rule \notin Identifiers
<1>1. IsSeq(n.kids) /\ n.kids # << >> /\ n.kids[1].rule \in Identifiers /\ n.kids[1].at = n.at
  BY DEF SoundField
<1>2. DOMAIN n.kids = 1..Len(n.kids) /\ Len(n.kids) \in Nat /\ Len(n.kids) # 0
  BY <1>1, SequenceFacts
<1>3. Is(1)
  BY <1>1, <1>2
<1>4. \A i : Is(i) => i = 1
  <2> SUFFICES ASSUME NEW i, Is(i), i # 1
               PROVE  FALSE
    OBVIOUS
  <2>1. 1 \in 1..(i - 1)
    BY <1>2
  <2> QED BY <1>1, <2>1
<1>5. KidOf(n, Identifiers) = n.kids[CHOOSE i : Is(i)]
  BY DEF KidOf
<1> HIDE DEF Is
<1>6. (CHOOSE i : Is(i)) = 1
  BY <1>3, <1>4
<1> QED BY <1>1, <1>5, <1>6 DEF NameOf

LEMMA NameOfUnion ==
  ASSUME NEW n, IsSeq(n.kids), Len(n.kids) >= 2, n.kids[1].rule = "union",
         n.kids[2].rule \in Identifiers
  PROVE  NameOf(n) = n.kids[2].at
<1> DEFINE Is(i) == i \in DOMAIN n.kids /\ n.kids[i].rule \in Identifiers
                    /\ \A j \in 1..(i - 1) : n.kids[j].rule \notin Identifiers
<1>1. DOMAIN n.kids = 1..Len(n.kids) /\ Len(n.kids) \in Nat
  BY SequenceFacts
<1>2. n.kids[1].rule \notin Identifiers
  BY DEF Identifiers
<1>3. Is(2)
  <2>1. 2 \in DOMAIN n.kids
    BY <1>1
  <2>2. \A j \in 1..(2 - 1) : j = 1
    OBVIOUS
  <2> QED BY <1>2, <2>1, <2>2
<1>4. \A i : Is(i) => i = 2
  <2> SUFFICES ASSUME NEW i, Is(i), i # 2
               PROVE  FALSE
    OBVIOUS
  <2>1. i # 1
    BY <1>2
  <2>2. 2 \in 1..(i - 1)
    BY <1>1, <2>1
  <2> QED BY <2>2
<1>5. KidOf(n, Identifiers) = n.kids[CHOOSE i : Is(i)]
  BY DEF KidOf
<1> HIDE DEF Is
<1>6. (CHOOSE i : Is(i)) = 2
  BY <1>3, <1>4
<1> QED BY <1>5, <1>6 DEF NameOf

\* An element that is converted: a field, or a union with a name.
Convertible(e) ==
    \/ e.rule = "Field" /\ SoundField(e)
    \/ e.rule = "Union" /\ SoundUnion(e) /\ e.kids[2].rule \in Identifiers /\ e.kids[2].at = e.at + 1

\* The names in an element are written before token b.
NamesBefore(e, b) == NameBefore(e, b) /\ \A k \in DOMAIN e.kids : NameBefore(e.kids[k], b)

\* The elements are the members of the node.
MembersAre(E, n) == \A x : x \in Members(n) <=> \E i \in 1..Len(E) : x = E[i]

LEMMA ElementFacts ==
  ASSUME NEW n, SoundStruct(n), NEW E, E = ElementsOf(n)
  PROVE  /\ IsSeq(E)
         /\ \A i \in 1..Len(E) : E[i].rule # "nil" => E[i].at \in Nat
         /\ \A i \in 1..Len(E) : ElementPanics(E[i]) => Excused \/ Adjacent({"union"}, {"{"})
         /\ \A i \in 1..Len(E) : ~ElementPanics(E[i]) => Convertible(E[i])
         /\ \A i, j \in 1..Len(E) : i < j /\ ~ElementPanics(E[j]) => NamesBefore(E[i], E[j].at)
         /\ MembersAre(E, n)
<1> PICK s, rules : rules = {"StructElement"} /\ s = KidsOf(n, rules)
  OBVIOUS
<1>1. IsSeq(n.kids) /\ Ordered(n.kids)
      /\ \A i \in DOMAIN n.kids : n.kids[i].rule = "StructElement" => SoundElement(n.kids[i])
  BY DEF SoundStruct
<1>2. /\ IsSeq(s)
      /\ \A i \in 1..Len(s) : \E a \in DOMAIN n.kids : s[i] = n.kids[a] /\ s[i].rule \in rules
      /\ \A i, j \in 1..Len(s) : i < j =>
           \E a, b \in DOMAIN n.kids : a < b /\ s[i] = n.kids[a] /\ s[j] = n.kids[b]
      /\ AllKept(s, n, rules)
  <2>1. s = KidsOf(n, rules)
    OBVIOUS
  <2> QED BY ONLY <1>1, <2>1, KidsFacts
<1>3. DOMAIN s = 1..Len(s) /\ Len(s) \in Nat
  BY <1>2, SequenceFacts
<1>4. E = [i \in 1..Len(s) |-> s[i].kids[1]]
  BY <1>3 DEF ElementsOf, Kids
<1>5. IsSeq(E) /\ Len(E) = Len(s) /\ \A i \in 1..Len(E) : E[i] = s[i].kids[1]
  <2> DEFINE S == {s[i].kids[1] : i \in 1..Len(s)}
  <2>1. E \in [1..Len(s) -> S]
    BY <1>4
  <2> HIDE DEF S
  <2>2. E \in Seq(S) /\ Len(E) = Len(s)
    BY <1>3, <2>1
  <2> QED BY <1>4, <2>2, SequenceOfAny
<1>6. ASSUME NEW i \in 1..Len(E)
      PROVE  /\ SoundMember(E[i], s[i].at) /\ s[i].at \in Nat /\ s[i].rule = "StructElement"
             /\ IsSeq(s[i].kids) /\ Len(s[i].kids) = 1
  <2>1. PICK a \in DOMAIN n.kids : s[i] = n.kids[a] /\ s[i].rule \in rules
    BY <1>2, <1>5
  <2>2. SoundElement(s[i])
    BY <1>1, <2>1
  <2>3. s[i].at \in Nat
    BY <1>1, <2>1 DEF Ordered
  <2> QED BY <1>5, <2>1, <2>2, <2>3 DEF SoundElement
<1>7. ASSUME NEW i \in 1..Len(E), E[i].rule # "nil"
      PROVE  E[i].at = s[i].at /\ E[i].at \in Nat
  BY <1>6, <1>7 DEF SoundMember
<1>8. ASSUME NEW i \in 1..Len(E), E[i].rule = "Union", SoundUnion(E[i])
      PROVE  /\ E[i].kids[2].rule \notin Identifiers => Adjacent({"union"}, {"{"})
             /\ E[i].kids[2].rule \in Identifiers => E[i].kids[2].at = E[i].at + 1
             /\ 2 \in DOMAIN E[i].kids
  <2>1. NamedUnion(E[i]) /\ IsSeq(E[i].kids) /\ Len(E[i].kids) >= 2
    BY <1>8 DEF SoundUnion
  <2>2. 2 \in DOMAIN E[i].kids
    BY <2>1, SequenceFacts
  <2>3. "{" \notin Identifiers
    BY DEF Identifiers
  <2> QED BY <2>1, <2>2, <2>3 DEF NamedUnion
<1>9. ASSUME NEW i \in 1..Len(E), ElementPanics(E[i])
      PROVE  Excused \/ Adjacent({"union"}, {"{"})
  <2>1. CASE E[i].rule = "nil"
    BY <1>6, <2>1 DEF SoundMember
  <2>2. CASE E[i].rule = "Union"
    <3>1. SoundUnion(E[i])
      BY <1>6, <2>2 DEF SoundMember
    <3>2. E[i].kids[2].rule \notin Identifiers
      BY <1>8, <1>9, <2>2, <3>1 DEF ElementPanics
    <3> QED BY <1>8, <2>2, <3>1, <3>2
  <2> QED BY <1>9, <2>1, <2>2 DEF ElementPanics
<1>10. ASSUME NEW i \in 1..Len(E), ~ElementPanics(E[i])
       PROVE  Convertible(E[i])
  <2>1. E[i].rule # "nil"
    BY <1>10 DEF ElementPanics
  <2>2. CASE E[i].rule = "Field"
    BY <1>6, <2>2 DEF SoundMember, Convertible
  <2>3. CASE E[i].rule = "Union"
    <3>1. SoundUnion(E[i])
      BY <1>6, <2>3 DEF SoundMember
    <3>2. NamedUnion(E[i]) /\ IsSeq(E[i].kids) /\ Len(E[i].kids) >= 2
      BY <3>1 DEF SoundUnion
    <3>3. PICK k \in DOMAIN E[i].kids : E[i].kids[k].rule \in Identifiers
      BY <1>10, <2>3 DEF ElementPanics
    <3>4. k = 2
      <4>1. k \in 1..Len(E[i].kids) /\ Len(E[i].kids) \in Nat
        BY <3>2, SequenceFacts
      <4>2. k # 1
        BY <3>2, <3>3 DEF NamedUnion, Identifiers
      <4>3. k \notin 3..Len(E[i].kids)
        BY <3>2, <3>3 DEF NamedUnion
      <4> QED BY <4>1, <4>2, <4>3
    <3> QED BY <1>8, <2>3, <3>1, <3>3, <3>4 DEF Convertible
  <2> QED BY <1>6, <2>1, <2>2, <2>3 DEF SoundMember
<1>11. ASSUME NEW i \in 1..Len(E), NEW j \in 1..Len(E), i < j, ~ElementPanics(E[j])
       PROVE  NamesBefore(E[i], E[j].at)
  <2>1. PICK a, b \in DOMAIN n.kids : a < b /\ s[i] = n.kids[a] /\ s[j] = n.kids[b]
    BY <1>2, <1>5, <1>11
  <2>2. E[j].rule # "nil" /\ s[j].rule # "nil"
    BY <1>6, <1>11 DEF ElementPanics
  <2>3. Before(s[i], s[j].at)
    BY <1>1, <2>1, <2>2 DEF Ordered
  <2>4. E[j].at = s[j].at
    BY <1>7, <2>2
  <2>5. 1 \in DOMAIN s[i].kids /\ E[i] = s[i].kids[1]
    BY <1>5, <1>6, SequenceFacts
  <2> QED BY <2>3, <2>4, <2>5 DEF Before, NamesBefore
<1>12. \A i \in 1..Len(E) : E[i].rule # "nil" => E[i].at \in Nat
  BY <1>7
<1>13. \A k : k \in Under(n, "StructElement") <=> \E i \in 1..Len(E) : k = s[i]
  <2>1. \A k : k \in Under(n, "StructElement") <=>
                 \E a \in DOMAIN n.kids : k = n.kids[a] /\ k.rule = "StructElement"
    BY DEF Under, ToSet
  <2>2. ASSUME NEW a \in DOMAIN n.kids, n.kids[a].rule = "StructElement"
        PROVE  \E i \in 1..Len(E) : n.kids[a] = s[i]
    <3>1. PICK i \in 1..Len(s) : s[i] = n.kids[a]
      BY <1>2, <2>2 DEF AllKept
    <3> QED BY <1>5, <3>1
  <2>3. ASSUME NEW i \in 1..Len(E)
        PROVE  \E a \in DOMAIN n.kids : s[i] = n.kids[a] /\ s[i].rule = "StructElement"
    BY <1>2, <1>5
  <2> QED BY ONLY <2>1, <2>2, <2>3
<1>14. MembersAre(E, n)
  <2>1. \A x : x \in Members(n) <=> \E k \in Under(n, "StructElement") : x = k.kids[1]
    BY DEF Members
  <2> QED BY ONLY <1>5, <1>13, <2>1 DEF MembersAre
<1> QED BY <1>5, <1>9, <1>10, <1>11, <1>12, <1>14

\* The structs of what was parsed are sound.
LEMMA SoundTree ==
  ASSUME Calls, tokens \in Seq(TokenType), at \in 1..(Len(tokens) + 1)
  PROVE  /\ IsSeq(Tree.kids)
         /\ \A n \in ToSet(Kids(Tree, "StatementStruct")) : SoundStruct(n)
<1>1. SoundCall(calls[1])
  <2>1. 1 \in 1..Len(calls)
    BY FactsOfCalls
  <2> QED BY <2>1, FactsOfCalls
<1>2. PICK tree : tree = Tree
  OBVIOUS
<1>3. IsSeq(tree.kids) /\ \A i \in DOMAIN tree.kids : Sound(tree.kids[i])
  BY <1>1, <1>2 DEF SoundCall, Tree, Node
<1>4. ASSUME NEW n \in ToSet(Kids(tree, "StatementStruct"))
      PROVE  SoundStruct(n)
  <2>1. n.rule = "StatementStruct" /\ \E a \in DOMAIN tree.kids : n = tree.kids[a]
    BY ONLY <1>3, <1>4, KidOfNode
  <2> QED BY <1>3, <2>1 DEF Sound
<1> QED BY <1>2, <1>3, <1>4

\* A module that the conversion breaks at was complained about.
LEMMA PanicsAfterReport ==
  ASSUME Calls, tokens \in Seq(TokenType), at \in 1..(Len(tokens) + 1), Panics(Tree)
  PROVE  Excused \/ Adjacent({"union"}, {"{"})
<1>1. PICK n \in ToSet(Kids(Tree, "StatementStruct")) : \E e \in ToSet(ElementsOf(n)) : ElementPanics(e)
  BY DEF Panics
<1>2. PICK E : E = ElementsOf(n)
  OBVIOUS
<1>3. PICK e \in ToSet(E) : ElementPanics(e)
  BY <1>1, <1>2
<1>4. SoundStruct(n)
  BY SoundTree
<1>5. IsSeq(E) /\ \A i \in 1..Len(E) : ElementPanics(E[i]) => Excused \/ Adjacent({"union"}, {"{"})
  BY <1>2, <1>4, ElementFacts
<1>6. PICK i \in 1..Len(E) : e = E[i]
  BY <1>3, <1>5, SequenceFacts DEF ToSet
<1> QED BY <1>3, <1>5, <1>6

LEMMA Concatenated ==
  ASSUME NEW s, IsSeq(s), NEW t, IsSeq(t)
  PROVE  /\ IsSeq(s \o t) /\ Len(s \o t) = Len(s) + Len(t)
         /\ \A i \in 1..Len(s) : (s \o t)[i] = s[i]
         /\ \A i \in 1..Len(t) : (s \o t)[Len(s) + i] = t[i]
         /\ \A i \in 1..(Len(s) + Len(t)) : i \in 1..Len(s) \/ (i - Len(s) \in 1..Len(t) /\ Len(s) + (i - Len(s)) = i)
<1> PICK r : r = s \o t
  OBVIOUS
<1> DEFINE S == ToSet(s) \cup ToSet(t)
<1>1. s \in Seq(S) /\ t \in Seq(S)
  BY SeqMonotonic DEF IsSeq
<1> HIDE DEF S
<1>2. Len(s) \in Nat /\ Len(t) \in Nat
  BY SequenceFacts
<1>3. /\ r \in Seq(S) /\ Len(r) = Len(s) + Len(t)
      /\ \A i \in 1..(Len(s) + Len(t)) : r[i] = IF i <= Len(s) THEN s[i] ELSE t[i - Len(s)]
  BY <1>1, ConcatProperties
<1>4. IsSeq(r)
  BY <1>3, SequenceOfAny
<1>5. \A i \in 1..Len(s) : r[i] = s[i]
  BY <1>2, <1>3
<1>6. ASSUME NEW i \in 1..Len(t)
      PROVE  r[Len(s) + i] = t[i]
  <2>1. Len(s) + i \in 1..(Len(s) + Len(t)) /\ ~(Len(s) + i <= Len(s)) /\ (Len(s) + i) - Len(s) = i
    BY <1>2
  <2> QED BY <1>3, <2>1
<1>7. \A i \in 1..(Len(s) + Len(t)) : i \in 1..Len(s) \/ (i - Len(s) \in 1..Len(t) /\ Len(s) + (i - Len(s)) = i)
  BY <1>2
<1> QED BY <1>3, <1>4, <1>5, <1>6, <1>7

\* The members that a struct has so far: the fields in order, each in its union.
MembersSound(m) ==
    /\ m = [fields |-> m.fields, unions |-> m.unions]
    /\ IsSeq(m.fields) /\ IsSeq(m.unions)
    /\ \A i \in 1..Len(m.fields) : m.fields[i].name \in Nat
    /\ \A i \in 1..Len(m.unions) : m.unions[i].name \in Nat
    /\ \A i, j \in 1..Len(m.fields) : i < j => m.fields[i].name < m.fields[j].name
    /\ \A i, j \in 1..Len(m.unions) : i < j => m.unions[i].name < m.unions[j].name
    /\ \A i \in 1..Len(m.fields) : m.fields[i].union # 0 =>
          /\ m.fields[i].union \in 1..Len(m.unions)
          /\ m.unions[m.fields[i].union].name < m.fields[i].name
          /\ m.fields[i].union < Len(m.unions) =>
                m.fields[i].name < m.unions[m.fields[i].union + 1].name

\* A field that is described, and a struct that describes one element more.
Described(s, f) == <<f.name, IF f.union = 0 THEN 0 ELSE s.unions[f.union].name>>
OneMore(r, m, e) ==
    /\ \A x : x \in DescribedFields(r) <=> x \in DescribedFields(m) \/ x \in FieldsIn(e)
    /\ \A x : x \in DescribedUnions(r) <=> x \in DescribedUnions(m) \/ x \in UnionsIn(e)

LEMMA AllDescribed ==
  ASSUME NEW s, IsSeq(s.fields), IsSeq(s.unions)
  PROVE  /\ \A x : x \in DescribedFields(s) <=> \E i \in 1..Len(s.fields) : x = Described(s, s.fields[i])
         /\ \A x : x \in DescribedUnions(s) <=> \E i \in 1..Len(s.unions) : x = s.unions[i].name
<1> DEFINE P(f) == <<f.name, IF f.union = 0 THEN 0 ELSE s.unions[f.union].name>>
<1>1. DOMAIN s.fields = 1..Len(s.fields) /\ DOMAIN s.unions = 1..Len(s.unions)
  BY SequenceFacts
<1>2. DescribedFields(s) = {P(f) : f \in ToSet(s.fields)}
  BY DEF DescribedFields
<1>3. \A f : Described(s, f) = P(f)
  BY DEF Described
<1> HIDE DEF P
<1>4. \A x : x \in DescribedFields(s) <=> \E i \in 1..Len(s.fields) : x = Described(s, s.fields[i])
  BY ONLY <1>1, <1>2, <1>3 DEF ToSet
<1>5. \A x : x \in DescribedUnions(s) <=> \E i \in 1..Len(s.unions) : x = s.unions[i].name
  BY ONLY <1>1 DEF DescribedUnions, ToSet
<1> QED BY <1>4, <1>5

MembersBefore(m, b) ==
    /\ \A i \in 1..Len(m.fields) : m.fields[i].name < b
    /\ \A i \in 1..Len(m.unions) : m.unions[i].name < b

LEMMA FieldAdded ==
  ASSUME NEW m, MembersSound(m), NEW e, e.rule = "Field", SoundField(e), e.at \in Nat,
         MembersBefore(m, e.at), NEW r, r = AddElement(m, e)
  PROVE  /\ MembersSound(r) /\ OneMore(r, m, e)
         /\ \A b \in Nat : MembersBefore(m, b) /\ NamesBefore(e, b) => MembersBefore(r, b)
<1> PICK f, k : f = FromField(e) /\ k = Len(m.fields)
  OBVIOUS
<1>1. f.name = e.at /\ f.union = 0
  BY NameOfField DEF FromField
<1>2. r.fields = Append(m.fields, f) /\ r.unions = m.unions /\ r = [fields |-> r.fields, unions |-> r.unions]
  BY DEF AddElement, MembersSound
<1>3. IsSeq(m.fields) /\ IsSeq(m.unions) /\ k \in Nat
  BY SequenceFacts DEF MembersSound
<1>4. /\ IsSeq(r.fields) /\ Len(r.fields) = k + 1 /\ r.fields[k + 1] = f
      /\ \A i \in 1..k : r.fields[i] = m.fields[i]
  BY <1>2, <1>3, Appended
<1>5. \A i \in 1..Len(r.fields) : i \in 1..k \/ i = k + 1
  BY <1>3, <1>4
<1>6. \A i \in 1..k : m.fields[i].name \in Nat /\ m.fields[i].name < e.at
  BY DEF MembersSound, MembersBefore
<1>7. ASSUME NEW i \in 1..Len(r.fields)
      PROVE  /\ r.fields[i].name \in Nat
             /\ r.fields[i].union # 0 =>
                  /\ r.fields[i].union \in 1..Len(r.unions)
                  /\ r.unions[r.fields[i].union].name < r.fields[i].name
                  /\ r.fields[i].union < Len(r.unions) =>
                        r.fields[i].name < r.unions[r.fields[i].union + 1].name
  <2>1. CASE i \in 1..k
    <3>1. r.fields[i] = m.fields[i]
      BY <1>4, <2>1
    <3> QED BY <1>2, <2>1, <3>1 DEF MembersSound
  <2>2. CASE i = k + 1
    BY <1>1, <1>4, <2>2
  <2> QED BY <1>5, <2>1, <2>2
<1>8. ASSUME NEW i \in 1..Len(r.fields), NEW j \in 1..Len(r.fields), i < j
      PROVE  r.fields[i].name < r.fields[j].name
  <2>1. i \in 1..k
    BY <1>3, <1>4, <1>8
  <2>2. CASE j \in 1..k
    <3>1. m.fields[i].name < m.fields[j].name
      BY <1>8, <2>1, <2>2 DEF MembersSound
    <3> QED BY <1>4, <2>1, <2>2, <3>1
  <2>3. CASE j = k + 1
    BY <1>1, <1>4, <1>6, <2>1, <2>3
  <2> QED BY <1>5, <2>2, <2>3
<1>9. MembersSound(r)
  <2>1. \A i, j \in 1..Len(r.unions) : i < j => r.unions[i].name < r.unions[j].name
    BY <1>2 DEF MembersSound
  <2> QED BY <1>2, <1>3, <1>4, <1>7, <1>8, <2>1 DEF MembersSound
<1>10. ASSUME NEW b \in Nat, MembersBefore(m, b), NamesBefore(e, b)
       PROVE  MembersBefore(r, b)
  <2>1. e.at \in 1..(b - 1)
    BY <1>10 DEF NamesBefore, NameBefore, Named
  <2>2. e.at < b
    BY <2>1
  <2>3. ASSUME NEW i \in 1..Len(r.fields)
        PROVE  r.fields[i].name < b
    <3>1. CASE i \in 1..k
      BY <1>4, <1>10, <3>1 DEF MembersBefore
    <3>2. CASE i = k + 1
      BY <1>1, <1>4, <2>2, <3>2
    <3> QED BY <1>5, <3>1, <3>2
  <2> QED BY <1>2, <1>10, <2>3 DEF MembersBefore
<1>11. /\ \A x : x \in DescribedFields(m) <=> \E i \in 1..k : x = Described(m, m.fields[i])
       /\ \A x : x \in DescribedUnions(m) <=> \E i \in 1..Len(m.unions) : x = m.unions[i].name
  BY <1>3, AllDescribed
<1>12. /\ \A x : x \in DescribedFields(r) <=> \E i \in 1..(k + 1) : x = Described(r, r.fields[i])
       /\ \A x : x \in DescribedUnions(r) <=> \E i \in 1..Len(r.unions) : x = r.unions[i].name
  <2>1. IsSeq(r.fields) /\ IsSeq(r.unions) /\ Len(r.fields) = k + 1
    BY <1>2, <1>3, <1>4
  <2> QED BY ONLY <2>1, AllDescribed
<1>13. Described(r, f) = <<NameOf(e), 0>> /\ FieldsIn(e) = {<<NameOf(e), 0>>} /\ UnionsIn(e) = {}
  BY <1>1, NameOfField DEF Described, FieldsIn, UnionsIn
<1>14. \A i \in 1..k : Described(r, r.fields[i]) = Described(m, m.fields[i])
  BY <1>2, <1>4 DEF Described
<1>15. /\ k + 1 \in 1..(k + 1) /\ \A i \in 1..k : i \in 1..(k + 1)
       /\ \A i \in 1..(k + 1) : i \in 1..k \/ i = k + 1
  BY <1>3
<1>16. \A x : x \in DescribedFields(r) <=> x \in DescribedFields(m) \/ x \in FieldsIn(e)
  BY ONLY <1>4, <1>11, <1>12, <1>13, <1>14, <1>15
<1>17. \A x : x \in DescribedUnions(r) <=> x \in DescribedUnions(m) \/ x \in UnionsIn(e)
  BY ONLY <1>2, <1>11, <1>12, <1>13
<1> QED BY <1>9, <1>10, <1>16, <1>17 DEF OneMore

\* What the fields of a union become.
FieldsFrom(e, m, t) ==
    /\ AddElement(m, e) = [fields |-> m.fields \o t, unions |-> Append(m.unions, FromUnion(e))]
    /\ IsSeq(t)
    /\ \A i \in 1..Len(t) :
          /\ t[i].union = Len(m.unions) + 1 /\ t[i].name \in Nat /\ e.at + 1 < t[i].name
          /\ \E a \in DOMAIN e.kids : e.kids[a].rule = "UnionField" /\ t[i].name = e.kids[a].at
    /\ \A i, j \in 1..Len(t) : i < j => t[i].name < t[j].name
    /\ \A x : (\E i \in 1..Len(t) : x = t[i].name) <=> \E f \in Under(e, "UnionField") : x = NameOf(f)

LEMMA FieldsOfUnion ==
  ASSUME NEW e, Convertible(e), e.rule = "Union", e.at \in Nat,
         NEW m, m = [fields |-> m.fields, unions |-> m.unions]
  PROVE  \E t : FieldsFrom(e, m, t)
<1> PICK rules, s : rules = {"UnionField"} /\ s = KidsOf(e, rules)
  OBVIOUS
<1> PICK u : u = Len(m.unions) + 1
  OBVIOUS
<1>1. /\ SoundUnion(e) /\ e.kids[2].rule \in Identifiers /\ e.kids[2].at = e.at + 1
  BY DEF Convertible
<1>2. IsSeq(e.kids) /\ Len(e.kids) >= 2 /\ NamedUnion(e) /\ Ordered(e.kids)
      /\ DOMAIN e.kids = 1..Len(e.kids) /\ Len(e.kids) \in Nat
  BY <1>1, SequenceFacts DEF SoundUnion
<1>3. /\ IsSeq(s)
      /\ \A i \in 1..Len(s) : \E a \in DOMAIN e.kids : s[i] = e.kids[a] /\ s[i].rule \in rules
      /\ \A i, j \in 1..Len(s) : i < j =>
           \E a, b \in DOMAIN e.kids : a < b /\ s[i] = e.kids[a] /\ s[j] = e.kids[b]
      /\ AllKept(s, e, rules)
  <2>1. s = KidsOf(e, rules)
    OBVIOUS
  <2>2. IsSeq(e.kids)
    BY <1>2
  <2> QED BY ONLY <2>1, <2>2, KidsFacts
<1>4. DOMAIN s = 1..Len(s) /\ Len(s) \in Nat
  BY <1>3, SequenceFacts
<1> DEFINE k == Kids(e, "UnionField")
           t == [i \in DOMAIN k |->
                   [n \in ToSet(k) |-> FromUnionField(n, Len(m.unions) + 1)][k[i]]]
<1>5. AddElement(m, e) = [fields |-> m.fields \o t, unions |-> Append(m.unions, FromUnion(e))]
  <2>1. AddElement(m, e) = [m EXCEPT !.unions = Append(@, FromUnion(e)), !.fields = @ \o t]
    BY DEF AddElement, MapFrom
  <2> HIDE DEF t, k
  <2> QED BY <2>1
<1>6. /\ IsSeq(t) /\ Len(t) = Len(s)
      /\ \A i \in 1..Len(s) : t[i] = FromUnionField(s[i], u)
  <2>1. k = s
    BY DEF Kids
  <2>2. \A i \in 1..Len(s) : s[i] \in ToSet(s)
    BY <1>4 DEF ToSet
  <2>3. \A i \in 1..Len(s) : k[i] \in ToSet(k) /\ k[i] = s[i]
    BY <2>1, <2>2
  <2>4. DOMAIN k = 1..Len(s)
    BY <1>4, <2>1
  <2>5. \A i \in 1..Len(s) : t[i] = FromUnionField(s[i], u)
    <3> TAKE i \in 1..Len(s)
    <3>1. t[i] = FromUnionField(k[i], Len(m.unions) + 1)
      <4> HIDE DEF k
      <4> QED BY <2>3, <2>4
    <3> HIDE DEF k, t
    <3> QED BY <2>3, <3>1
  <2> DEFINE S == {FromUnionField(s[i], u) : i \in 1..Len(s)}
  <2>6. t \in [1..Len(s) -> S]
    <3>1. t = [i \in 1..Len(s) |-> t[i]]
      <4> HIDE DEF k
      <4> QED BY <2>4
    <3> HIDE DEF k, t
    <3> QED BY <2>5, <3>1
  <2> HIDE DEF S, t, k
  <2>7. t \in Seq(S) /\ Len(t) = Len(s)
    BY <1>4, <2>6
  <2> QED BY <2>5, <2>7, SequenceOfAny
<1> HIDE DEF t, k
<1>7. ASSUME NEW a \in DOMAIN e.kids, e.kids[a].rule = "UnionField"
      PROVE  /\ e.kids[a].at \in Nat /\ e.at + 1 < e.kids[a].at
             /\ NameOf(e.kids[a]) = e.kids[a].at
  <2>1. a \in 3..Len(e.kids)
    <3>1. a # 1
      BY <1>2, <1>7 DEF NamedUnion
    <3>2. a # 2
      BY <1>1, <1>7 DEF Identifiers
    <3> QED BY <1>2, <3>1, <3>2
  <2>2. SoundField(e.kids[a])
    BY <1>2, <1>7, <2>1 DEF NamedUnion
  <2>3. e.kids[a].at \in Nat /\ Before(e.kids[2], e.kids[a].at)
    <3>1. 2 \in DOMAIN e.kids /\ 2 < a
      BY ONLY <1>2, <2>1
    <3> QED BY <1>2, <1>7, <3>1 DEF Ordered
  <2>4. e.kids[2].at \in 1..(e.kids[a].at - 1)
    BY <1>1, <2>3 DEF Before, NameBefore, Named
  <2>5. e.at + 1 < e.kids[a].at
    BY <1>1, <2>3, <2>4
  <2> QED BY <2>2, <2>3, <2>5, NameOfField
<1>8. ASSUME NEW i \in 1..Len(s)
      PROVE  t[i].union = u /\ t[i].name = s[i].at
  <2>1. PICK a \in DOMAIN e.kids : s[i] = e.kids[a] /\ s[i].rule = "UnionField"
    BY <1>3
  <2>2. NameOf(s[i]) = s[i].at
    BY <1>7, <2>1
  <2>3. t[i] = FromUnionField(s[i], u)
    BY <1>6
  <2>4. FromUnionField(s[i], u).union = u /\ FromUnionField(s[i], u).name = NameOf(s[i])
    BY DEF FromUnionField
  <2> QED BY ONLY <2>2, <2>3, <2>4
<1>9. ASSUME NEW i \in 1..Len(t)
      PROVE  /\ t[i].union = u /\ t[i].name \in Nat /\ e.at + 1 < t[i].name
             /\ \E a \in DOMAIN e.kids : e.kids[a].rule = "UnionField" /\ t[i].name = e.kids[a].at
  <2>1. i \in 1..Len(s)
    BY <1>6
  <2>2. PICK a \in DOMAIN e.kids : s[i] = e.kids[a] /\ s[i].rule = "UnionField"
    BY <1>3, <2>1
  <2>3. e.kids[a].at \in Nat /\ e.at + 1 < e.kids[a].at
    BY <1>7, <2>2
  <2> QED BY <1>8, <2>1, <2>2, <2>3
<1>10. ASSUME NEW i \in 1..Len(t), NEW j \in 1..Len(t), i < j
       PROVE  t[i].name < t[j].name
  <2>1. i \in 1..Len(s) /\ j \in 1..Len(s)
    BY <1>6
  <2>2. PICK a, b \in DOMAIN e.kids : a < b /\ s[i] = e.kids[a] /\ s[j] = e.kids[b]
    BY <1>3, <1>10, <2>1
  <2>3. s[i].rule = "UnionField" /\ s[j].rule = "UnionField"
    BY <1>3, <2>1
  <2>4. Before(e.kids[a], e.kids[b].at)
    BY <1>2, <2>2, <2>3 DEF Ordered
  <2>5. e.kids[a].at \in 1..(e.kids[b].at - 1) /\ e.kids[b].at \in Nat
    BY <1>7, <2>2, <2>3, <2>4 DEF Before, NameBefore, Named
  <2>6. e.kids[a].at < e.kids[b].at
    BY <2>5
  <2> QED BY <1>8, <2>1, <2>2, <2>6
<1>11. \A x : (\E i \in 1..Len(t) : x = t[i].name) <=> \E f \in Under(e, "UnionField") : x = NameOf(f)
  <2>1. \A f : f \in Under(e, "UnionField") <=> \E a \in DOMAIN e.kids : f = e.kids[a] /\ f.rule = "UnionField"
    BY DEF Under, ToSet
  <2>2. \A f : f \in Under(e, "UnionField") <=> \E i \in 1..Len(s) : f = s[i]
    BY <1>3, <2>1 DEF AllKept
  <2>3. ASSUME NEW i \in 1..Len(s)
        PROVE  t[i].name = NameOf(s[i])
    <3>1. PICK a \in DOMAIN e.kids : s[i] = e.kids[a] /\ s[i].rule = "UnionField"
      BY <1>3
    <3> QED BY <1>7, <1>8, <3>1
  <2> QED BY ONLY <1>6, <2>2, <2>3
<1>12. FieldsFrom(e, m, t)
  BY <1>5, <1>6, <1>9, <1>10, <1>11 DEF FieldsFrom
<1> QED BY <1>12

LEMMA UnionAdded ==
  ASSUME NEW m, MembersSound(m), NEW e, e.rule = "Union", Convertible(e), e.at \in Nat,
         MembersBefore(m, e.at), NEW r, r = AddElement(m, e)
  PROVE  /\ MembersSound(r) /\ OneMore(r, m, e)
         /\ \A b \in Nat : MembersBefore(m, b) /\ NamesBefore(e, b) => MembersBefore(r, b)
<1>a. PICK t : FieldsFrom(e, m, t)
  <2>1. Convertible(e) /\ e.rule = "Union" /\ e.at \in Nat /\ m = [fields |-> m.fields, unions |-> m.unions]
    BY DEF MembersSound
  <2> QED BY ONLY <2>1, FieldsOfUnion
<1> PICK x, k, l, fields, unions : /\ x = FromUnion(e) /\ k = Len(m.fields) /\ l = Len(m.unions)
                                   /\ fields = m.fields \o t /\ unions = Append(m.unions, x)
  OBVIOUS
<1>b. r = [fields |-> fields, unions |-> unions]
  BY <1>a DEF FieldsFrom
<1>c. /\ IsSeq(t) /\ e.at \in Nat
      /\ \A i \in 1..Len(t) :
           /\ t[i].union = l + 1 /\ t[i].name \in Nat /\ e.at + 1 < t[i].name
           /\ \E d \in DOMAIN e.kids : e.kids[d].rule = "UnionField" /\ t[i].name = e.kids[d].at
      /\ \A i, j \in 1..Len(t) : i < j => t[i].name < t[j].name
      /\ \A y : (\E i \in 1..Len(t) : y = t[i].name) <=> \E f \in Under(e, "UnionField") : y = NameOf(f)
  BY <1>a DEF FieldsFrom
<1>d. SoundUnion(e) /\ e.kids[2].rule \in Identifiers /\ e.kids[2].at = e.at + 1
  BY DEF Convertible
<1>e. IsSeq(e.kids) /\ Len(e.kids) >= 2 /\ e.kids[1].rule = "union"
  BY <1>d DEF SoundUnion, NamedUnion
<1>f. 2 \in DOMAIN e.kids
  <2>1. DOMAIN e.kids = 1..Len(e.kids) /\ Len(e.kids) \in Nat
    BY ONLY <1>e, SequenceFacts
  <2> QED BY <1>e, <2>1
<1>1. /\ IsSeq(e.kids) /\ Len(e.kids) >= 2 /\ e.kids[1].rule = "union"
      /\ e.kids[2].rule \in Identifiers /\ e.kids[2].at = e.at + 1 /\ 2 \in DOMAIN e.kids
  BY ONLY <1>d, <1>e, <1>f
<1>2. x.name = e.at + 1
  BY <1>1, NameOfUnion DEF FromUnion
<1>3. r.fields = fields /\ r.unions = unions /\ r = [fields |-> r.fields, unions |-> r.unions]
  BY ONLY <1>b
<1>4. IsSeq(m.fields) /\ IsSeq(m.unions) /\ k \in Nat /\ l \in Nat
  BY SequenceFacts DEF MembersSound
<1>5. /\ IsSeq(fields) /\ Len(fields) = k + Len(t)
      /\ \A i \in 1..k : fields[i] = m.fields[i]
      /\ \A i \in 1..Len(t) : fields[k + i] = t[i]
      /\ \A i \in 1..Len(fields) : i \in 1..k \/ (i - k \in 1..Len(t) /\ k + (i - k) = i)
  <2> PICK s : s = m.fields
    OBVIOUS
  <2>1. fields = s \o t /\ k = Len(s) /\ IsSeq(s) /\ IsSeq(t) /\ s = m.fields
    BY <1>4, <1>c
  <2>2. /\ IsSeq(s \o t) /\ Len(s \o t) = Len(s) + Len(t)
        /\ \A i \in 1..Len(s) : (s \o t)[i] = s[i]
        /\ \A i \in 1..Len(t) : (s \o t)[Len(s) + i] = t[i]
        /\ \A i \in 1..(Len(s) + Len(t)) :
             i \in 1..Len(s) \/ (i - Len(s) \in 1..Len(t) /\ Len(s) + (i - Len(s)) = i)
    BY ONLY <2>1, Concatenated
  <2> QED BY ONLY <2>1, <2>2
<1>6. /\ IsSeq(unions) /\ Len(unions) = l + 1 /\ unions[l + 1] = x
      /\ \A i \in 1..l : unions[i] = m.unions[i]
  BY <1>4, Appended
<1>7. \A i \in 1..Len(unions) : i \in 1..l \/ i = l + 1
  BY ONLY <1>4, <1>6
<1>8. Len(t) \in Nat
  BY ONLY <1>c, SequenceFacts
\* Where a field comes from.
<1>9. ASSUME NEW i \in 1..Len(fields), i \notin 1..k
      PROVE  /\ i - k \in 1..Len(t) /\ fields[i] = t[i - k]
             /\ fields[i].union = l + 1 /\ fields[i].name \in Nat /\ e.at + 1 < fields[i].name
             /\ \E d \in DOMAIN e.kids :
                  e.kids[d].rule = "UnionField" /\ fields[i].name = e.kids[d].at
  <2>1. i - k \in 1..Len(t) /\ k + (i - k) = i
    BY <1>5, <1>9
  <2>2. fields[i] = t[i - k]
    BY <1>5, <2>1
  <2> QED BY ONLY <1>c, <2>1, <2>2
<1>10. ASSUME NEW i \in 1..k
       PROVE  /\ fields[i] = m.fields[i] /\ fields[i].name \in Nat /\ fields[i].name < e.at
              /\ fields[i].union # 0 =>
                  /\ fields[i].union \in 1..l
                  /\ unions[fields[i].union] = m.unions[fields[i].union]
                  /\ unions[fields[i].union].name < fields[i].name
                  /\ fields[i].union < l => fields[i].name < unions[fields[i].union + 1].name
  <2>1. fields[i] = m.fields[i]
    BY <1>5
  <2>2. fields[i].name \in Nat /\ fields[i].name < e.at
    BY <2>1 DEF MembersSound, MembersBefore
  <2>3. ASSUME fields[i].union # 0
        PROVE  /\ fields[i].union \in 1..l
               /\ unions[fields[i].union] = m.unions[fields[i].union]
               /\ unions[fields[i].union].name < fields[i].name
               /\ fields[i].union < l => fields[i].name < unions[fields[i].union + 1].name
    <3> PICK u : u = fields[i].union
      OBVIOUS
    <3>1. /\ u \in 1..l /\ m.unions[u].name < fields[i].name
          /\ u < l => fields[i].name < m.unions[u + 1].name
      BY <2>1, <2>3 DEF MembersSound
    <3>2. unions[u] = m.unions[u]
      BY <1>6, <3>1
    <3>3. u < l => unions[u + 1] = m.unions[u + 1]
      <4>1. u < l => u + 1 \in 1..l
        BY ONLY <1>4, <3>1
      <4> QED BY <1>6, <4>1
    <3> QED BY <3>1, <3>2, <3>3
  <2> QED BY <2>1, <2>2, <2>3
<1>11. ASSUME NEW i \in 1..Len(fields)
       PROVE  /\ fields[i].name \in Nat
              /\ fields[i].union # 0 =>
                  /\ fields[i].union \in 1..Len(unions)
                  /\ unions[fields[i].union].name < fields[i].name
                  /\ fields[i].union < Len(unions) =>
                        fields[i].name < unions[fields[i].union + 1].name
  <2>1. CASE i \in 1..k
    <3>1. fields[i].name \in Nat /\ fields[i].name < e.at
      BY ONLY <1>10, <2>1
    <3>2. ASSUME fields[i].union # 0
          PROVE  /\ fields[i].union \in 1..Len(unions)
                 /\ unions[fields[i].union].name < fields[i].name
                 /\ fields[i].union < Len(unions) =>
                       fields[i].name < unions[fields[i].union + 1].name
      <4> PICK u : u = fields[i].union
        OBVIOUS
      <4>1. /\ u \in 1..l /\ unions[u].name < fields[i].name
            /\ u < l => fields[i].name < unions[u + 1].name
        BY <1>10, <2>1, <3>2
      <4>2. u \in 1..Len(unions)
        BY ONLY <1>4, <1>6, <4>1
      <4>3. u = l => fields[i].name < unions[u + 1].name
        <5>1. unions[l + 1].name = e.at + 1
          BY ONLY <1>2, <1>6
        <5>2. fields[i].name < e.at + 1
          BY ONLY <1>c, <3>1
        <5> QED BY ONLY <5>1, <5>2
      <4>4. u < l \/ u = l
        BY ONLY <1>4, <4>1
      <4> QED BY <4>1, <4>2, <4>3, <4>4
    <3> QED BY <3>1, <3>2
  <2>2. CASE i \notin 1..k
    <3>1. fields[i].union = l + 1 /\ fields[i].name \in Nat /\ e.at + 1 < fields[i].name
      BY ONLY <1>9, <2>2
    <3>2. l + 1 \in 1..Len(unions) /\ ~(l + 1 < Len(unions))
      BY <1>4, <1>6
    <3> QED BY <1>2, <1>6, <3>1, <3>2
  <2> QED BY <2>1, <2>2
<1>12. ASSUME NEW i \in 1..Len(fields), NEW j \in 1..Len(fields), i < j
       PROVE  fields[i].name < fields[j].name
  <2>1. CASE i \in 1..k /\ j \in 1..k
    <3>1. m.fields[i].name < m.fields[j].name
      BY <1>12, <2>1 DEF MembersSound
    <3> QED BY <1>10, <2>1, <3>1
  <2>2. CASE i \in 1..k /\ j \notin 1..k
    <3>1. fields[i].name \in Nat /\ fields[i].name < e.at
      BY ONLY <1>10, <2>2
    <3>2. fields[j].name \in Nat /\ e.at + 1 < fields[j].name
      BY ONLY <1>9, <2>2
    <3> QED BY ONLY <1>c, <3>1, <3>2
  <2>3. CASE i \notin 1..k
    <3>1. j \notin 1..k
      BY <1>4, <1>12, <2>3
    <3>2. i - k \in 1..Len(t) /\ j - k \in 1..Len(t) /\ fields[i] = t[i - k] /\ fields[j] = t[j - k]
      BY <1>9, <2>3, <3>1
    <3>3. i - k < j - k
      BY <1>4, <1>12
    <3> QED BY ONLY <1>c, <3>2, <3>3
  <2> QED BY <2>1, <2>2, <2>3
<1>13. ASSUME NEW i \in 1..Len(unions)
       PROVE  unions[i].name \in Nat
  <2>1. CASE i \in 1..l
    BY <1>6, <2>1 DEF MembersSound
  <2>2. CASE i = l + 1
    BY <1>2, <1>6, <2>2
  <2> QED BY <1>7, <2>1, <2>2
<1>14. MembersSound(r)
  <2>1. \A i \in 1..Len(fields) : fields[i].name \in Nat
    BY ONLY <1>11
  <2>2. \A i \in 1..Len(fields) : fields[i].union # 0 =>
          /\ fields[i].union \in 1..Len(unions)
          /\ unions[fields[i].union].name < fields[i].name
          /\ fields[i].union < Len(unions) => fields[i].name < unions[fields[i].union + 1].name
    BY ONLY <1>11
  <2>3. \A i, j \in 1..Len(fields) : i < j => fields[i].name < fields[j].name
    BY ONLY <1>12
  <2>4. \A i \in 1..Len(unions) : unions[i].name \in Nat
    BY ONLY <1>13
  <2>5. ASSUME NEW i \in 1..Len(unions), NEW j \in 1..Len(unions), i < j
        PROVE  unions[i].name < unions[j].name
    <3>1. i \in 1..l
      BY <1>4, <1>6, <2>5
    <3>2. m.unions[i].name \in Nat /\ m.unions[i].name < e.at
      BY <3>1 DEF MembersSound, MembersBefore
    <3>3. CASE j \in 1..l
      <4>1. m.unions[i].name < m.unions[j].name
        BY <2>5, <3>1, <3>3 DEF MembersSound
      <4> QED BY <1>6, <3>1, <3>3, <4>1
    <3>4. CASE j = l + 1
      BY ONLY <1>2, <1>6, <1>c, <3>1, <3>2, <3>4
    <3> QED BY <1>7, <3>3, <3>4
  <2> QED BY ONLY <1>3, <1>5, <1>6, <2>1, <2>2, <2>3, <2>4, <2>5 DEF MembersSound
<1>15. ASSUME NEW b \in Nat, MembersBefore(m, b), NamesBefore(e, b)
       PROVE  MembersBefore(r, b)
  <2>1. ASSUME NEW d \in DOMAIN e.kids, e.kids[d].rule \in Named, e.kids[d].at \in Nat
        PROVE  e.kids[d].at < b
    <3>1. e.kids[d].at \in 1..(b - 1)
      BY <1>15, <2>1 DEF NamesBefore, NameBefore
    <3> QED BY <3>1
  <2>2. ASSUME NEW i \in 1..Len(fields)
        PROVE  fields[i].name < b
    <3>1. CASE i \in 1..k
      BY <1>10, <1>15, <3>1 DEF MembersBefore
    <3>2. CASE i \notin 1..k
      <4>1. PICK d \in DOMAIN e.kids : e.kids[d].rule = "UnionField" /\ fields[i].name = e.kids[d].at
        BY ONLY <1>9, <3>2
      <4>2. fields[i].name \in Nat
        BY ONLY <1>9, <3>2
      <4>3. "UnionField" \in Named
        BY DEF Named
      <4> QED BY ONLY <2>1, <4>1, <4>2, <4>3
    <3> QED BY <3>1, <3>2
  <2>3. ASSUME NEW i \in 1..Len(unions)
        PROVE  unions[i].name < b
    <3>1. CASE i \in 1..l
      BY <1>6, <1>15, <3>1 DEF MembersBefore
    <3>2. CASE i = l + 1
      <4>1. e.kids[2].rule \in Named
        BY <1>1 DEF Named
      <4>2. e.kids[2].at \in Nat /\ e.kids[2].at = e.at + 1
        BY ONLY <1>1, <1>c
      <4>3. e.kids[2].at < b
        BY ONLY <1>1, <2>1, <4>1, <4>2
      <4> QED BY ONLY <1>2, <1>6, <3>2, <4>2, <4>3
    <3> QED BY <1>7, <3>1, <3>2
  <2> QED BY <1>3, <2>2, <2>3 DEF MembersBefore
\* What it describes.
<1>16. /\ \A y : y \in DescribedFields(m) <=> \E i \in 1..k : y = Described(m, m.fields[i])
       /\ \A y : y \in DescribedUnions(m) <=> \E i \in 1..l : y = m.unions[i].name
  BY <1>4, AllDescribed
<1>17. /\ \A y : y \in DescribedFields(r) <=> \E i \in 1..Len(fields) : y = Described(r, fields[i])
       /\ \A y : y \in DescribedUnions(r) <=> \E i \in 1..(l + 1) : y = unions[i].name
  <2>1. IsSeq(r.fields) /\ IsSeq(r.unions) /\ r.fields = fields /\ r.unions = unions
    BY <1>3, <1>5, <1>6
  <2> HIDE DEF Described
  <2>2. /\ \A y : y \in DescribedFields(r) <=> \E i \in 1..Len(r.fields) : y = Described(r, r.fields[i])
        /\ \A y : y \in DescribedUnions(r) <=> \E i \in 1..Len(r.unions) : y = r.unions[i].name
    BY ONLY <2>1, AllDescribed
  <2> QED BY ONLY <1>6, <2>1, <2>2
<1>18. ASSUME NEW i \in 1..k
       PROVE  Described(r, fields[i]) = Described(m, m.fields[i])
  BY <1>3, <1>10 DEF Described
<1>19. unions[l + 1].name = NameOf(e)
  BY <1>6 DEF FromUnion
<1>20. ASSUME NEW i \in 1..Len(t)
       PROVE  k + i \in 1..Len(fields) /\ Described(r, fields[k + i]) = <<t[i].name, NameOf(e)>>
  <2>1. k + i \in 1..Len(fields)
    BY <1>4, <1>5, <1>8
  <2>2. fields[k + i] = t[i] /\ t[i].union = l + 1 /\ l + 1 # 0
    BY <1>4, <1>5, <1>c
  <2> QED BY <1>3, <1>19, <2>1, <2>2 DEF Described
<1>21. FieldsIn(e) = {<<NameOf(f), NameOf(e)>> : f \in Under(e, "UnionField")} /\ UnionsIn(e) = {NameOf(e)}
  BY DEF FieldsIn, UnionsIn
<1>22. \A y : y \in FieldsIn(e) <=> \E i \in 1..Len(t) : y = <<t[i].name, NameOf(e)>>
  <2>1. \A y : y \in FieldsIn(e) <=> \E f \in Under(e, "UnionField") : y = <<NameOf(f), NameOf(e)>>
    BY ONLY <1>21
  <2>2. \A y : (\E i \in 1..Len(t) : y = t[i].name) <=> \E f \in Under(e, "UnionField") : y = NameOf(f)
    BY ONLY <1>c
  <2>3. ASSUME NEW i \in 1..Len(t)
        PROVE  <<t[i].name, NameOf(e)>> \in FieldsIn(e)
    <3>1. PICK f \in Under(e, "UnionField") : t[i].name = NameOf(f)
      BY ONLY <2>2
    <3> QED BY ONLY <2>1, <3>1
  <2>4. ASSUME NEW f \in Under(e, "UnionField")
        PROVE  \E i \in 1..Len(t) : NameOf(f) = t[i].name
    BY ONLY <2>2
  <2>5. ASSUME NEW y, y \in FieldsIn(e)
        PROVE  \E i \in 1..Len(t) : y = <<t[i].name, NameOf(e)>>
    <3>1. PICK f \in Under(e, "UnionField") : y = <<NameOf(f), NameOf(e)>>
      BY ONLY <2>1, <2>5
    <3>2. PICK i \in 1..Len(t) : NameOf(f) = t[i].name
      BY ONLY <2>4
    <3> QED BY ONLY <3>1, <3>2
  <2> QED BY ONLY <2>3, <2>5
<1>23. ASSUME NEW y
       PROVE  y \in DescribedFields(r) <=> y \in DescribedFields(m) \/ y \in FieldsIn(e)
  <2>1. ASSUME y \in DescribedFields(r)
        PROVE  y \in DescribedFields(m) \/ y \in FieldsIn(e)
    <3>1. PICK i \in 1..Len(fields) : y = Described(r, fields[i])
      BY ONLY <1>17, <2>1
    <3>2. CASE i \in 1..k
      BY ONLY <1>16, <1>18, <3>1, <3>2
    <3>3. CASE i - k \in 1..Len(t) /\ k + (i - k) = i
      <4>1. Described(r, fields[k + (i - k)]) = <<t[i - k].name, NameOf(e)>>
        BY ONLY <1>20, <3>3
      <4> QED BY ONLY <1>22, <3>1, <3>3, <4>1
    <3> QED BY <1>5, <3>2, <3>3
  <2>2. ASSUME y \in DescribedFields(m)
        PROVE  y \in DescribedFields(r)
    <3>1. PICK i \in 1..k : y = Described(m, m.fields[i])
      BY ONLY <1>16, <2>2
    <3>2. i \in 1..Len(fields)
      BY <1>4, <1>5, <1>8
    <3> QED BY ONLY <1>17, <1>18, <3>1, <3>2
  <2>3. ASSUME y \in FieldsIn(e)
        PROVE  y \in DescribedFields(r)
    <3>1. PICK i \in 1..Len(t) : y = <<t[i].name, NameOf(e)>>
      BY ONLY <1>22, <2>3
    <3> QED BY ONLY <1>17, <1>20, <3>1
  <2> QED BY <2>1, <2>2, <2>3
<1>24. \A y : y \in DescribedUnions(r) <=> y \in DescribedUnions(m) \/ y \in UnionsIn(e)
  <2>1. /\ l + 1 \in 1..(l + 1) /\ \A i \in 1..l : i \in 1..(l + 1)
        /\ \A i \in 1..(l + 1) : i \in 1..l \/ i = l + 1
    BY <1>4
  <2> QED BY ONLY <1>6, <1>16, <1>17, <1>19, <1>21, <2>1
<1> QED BY <1>14, <1>15, <1>23, <1>24 DEF OneMore

LEMMA ElementAdded ==
  ASSUME NEW m, MembersSound(m), NEW e, Convertible(e), e.at \in Nat,
         MembersBefore(m, e.at), NEW r, r = AddElement(m, e)
  PROVE  /\ MembersSound(r) /\ OneMore(r, m, e)
         /\ \A b \in Nat : MembersBefore(m, b) /\ NamesBefore(e, b) => MembersBefore(r, b)
<1>1. CASE e.rule = "Field"
  BY <1>1, FieldAdded DEF Convertible
<1>2. CASE e.rule = "Union"
  BY <1>2, UnionAdded
<1> QED BY <1>1, <1>2 DEF Convertible

\* The function that FromStruct is made with is there.
LEMMA MembersFound ==
  ASSUME NEW n, Len(ElementsOf(n)) \in Nat
  PROVE  \E k : /\ FromStruct(n).fields = k[Len(ElementsOf(n))].fields
                /\ FromStruct(n).unions = k[Len(ElementsOf(n))].unions
                /\ k[0] = [fields |-> << >>, unions |-> << >>]
                /\ \A i \in 1..Len(ElementsOf(n)) : k[i] = AddElement(k[i - 1], ElementsOf(n)[i])
<1> DEFINE Step(k, i) == IF i = 0 THEN [fields |-> << >>, unions |-> << >>]
                         ELSE AddElement(k[i - 1], ElementsOf(n)[i])
           Found(m) == \E k : k = [i \in 0..m |-> Step(k, i)]
           Not == {m \in Nat : ~Found(m)}
<1>1. Found(0)
  <2> DEFINE k == [i \in 0..0 |-> [fields |-> << >>, unions |-> << >>]]
  <2>1. k = [i \in 0..0 |-> Step(k, i)]
    OBVIOUS
  <2> HIDE DEF k, Step
  <2> QED BY <2>1
<1>2. ASSUME NEW m \in Nat \ {0}, Found(m - 1)
      PROVE  Found(m)
  <2>1. m - 1 \in Nat
    BY <1>2
  <2>2. PICK k : k = [i \in 0..(m - 1) |-> Step(k, i)]
    BY <1>2
  <2> DEFINE l == [i \in 0..m |-> IF i = m THEN Step(k, m) ELSE k[i]]
  <2> HIDE DEF Found, Not
  <2>3. \A i \in 0..(m - 1) : l[i] = k[i]
    OBVIOUS
  <2>4. ASSUME NEW i \in 0..m
        PROVE  l[i] = Step(l, i)
    <3>1. CASE i = m
      <4>1. m - 1 \in 0..(m - 1)
        BY <2>1
      <4>2. l[m - 1] = k[m - 1]
        BY <2>3, <4>1
      <4>3. l[m] = Step(k, m)
        BY <1>2
      <4>4. Step(l, m) = Step(k, m)
        <5> HIDE DEF l
        <5> QED BY <4>2
      <4> QED BY <3>1, <4>3, <4>4
    <3>2. CASE i # m
      <4>1. i \in 0..(m - 1) /\ (i # 0 => i - 1 \in 0..(m - 1))
        BY <3>2
      <4>2. l[i] = Step(k, i)
        <5>1. \A j \in 0..(m - 1) : k[j] = Step(k, j)
          <6> HIDE DEF Step
          <6> QED BY <2>2
        <5>2. l[i] = k[i]
          BY <2>3, <4>1
        <5> HIDE DEF l, Step
        <5> QED BY <4>1, <5>1, <5>2
      <4>3. i # 0 => l[i - 1] = k[i - 1]
        BY <2>3, <4>1
      <4> HIDE DEF l
      <4>4. Step(k, i) = Step(l, i)
        BY <4>3
      <4> QED BY <4>2, <4>4
    <3> QED BY <3>1, <3>2
  <2>5. l = [i \in 0..m |-> l[i]]
    OBVIOUS
  <2> HIDE DEF l, Step
  <2>6. l = [i \in 0..m |-> Step(l, i)]
    BY <2>4, <2>5
  <2> QED BY <2>6 DEF Found
<1>3. Found(Len(ElementsOf(n)))
  <2> SUFFICES ASSUME Not # {} PROVE FALSE
    OBVIOUS
  <2> HIDE DEF Found
  <2>1. PICK m \in Not : \A j \in Not : m <= j
    BY LeastOf
  <2>2. m \in Nat /\ ~Found(m)
    OBVIOUS
  <2>3. m - 1 \in Nat /\ m - 1 \notin Not
    <3> HIDE DEF Not
    <3>1. m # 0
      BY <1>1, <2>2
    <3> QED BY <2>1, <2>2, <3>1
  <2> QED BY <1>2, <2>2, <2>3
<1> DEFINE l == CHOOSE k : k = [i \in 0..Len(ElementsOf(n)) |-> Step(k, i)]
<1>4. l = [i \in 0..Len(ElementsOf(n)) |-> Step(l, i)]
  <2> HIDE DEF Step, Not
  <2> QED BY <1>3
<1>5. /\ FromStruct(n).fields = l[Len(ElementsOf(n))].fields
      /\ FromStruct(n).unions = l[Len(ElementsOf(n))].unions
  BY DEF FromStruct
<1> HIDE DEF l, Found, Not
<1>6. \A i \in 0..Len(ElementsOf(n)) : l[i] = Step(l, i)
  <2> HIDE DEF Step
  <2> QED BY <1>4
<1>7. l[0] = [fields |-> << >>, unions |-> << >>]
  BY <1>6
<1>8. \A i \in 1..Len(ElementsOf(n)) : l[i] = AddElement(l[i - 1], ElementsOf(n)[i])
  <2> TAKE i \in 1..Len(ElementsOf(n))
  <2>1. i \in 0..Len(ElementsOf(n)) /\ i # 0
    OBVIOUS
  <2> QED BY <1>6, <2>1
<1> QED BY <1>5, <1>7, <1>8

\* The fields of a struct come in order, each in its union.
LEMMA StructMembers ==
  ASSUME NEW n, SoundStruct(n), \A e \in ToSet(ElementsOf(n)) : ~ElementPanics(e)
  PROVE  \E m : /\ MembersSound(m) /\ m.fields = FromStruct(n).fields
                /\ m.unions = FromStruct(n).unions
                /\ \A x : x \in DescribedFields(m) <=> \E e \in Members(n) : x \in FieldsIn(e)
                /\ \A x : x \in DescribedUnions(m) <=> \E e \in Members(n) : x \in UnionsIn(e)
<1> PICK E, z : E = ElementsOf(n) /\ z = Len(ElementsOf(n))
  OBVIOUS
<1>1. /\ IsSeq(E)
      /\ \A i \in 1..Len(E) : E[i].rule # "nil" => E[i].at \in Nat
      /\ \A i \in 1..Len(E) : ~ElementPanics(E[i]) => Convertible(E[i])
      /\ \A i, j \in 1..Len(E) : i < j /\ ~ElementPanics(E[j]) => NamesBefore(E[i], E[j].at)
  BY ElementFacts
<1>m. MembersAre(E, n)
  BY ElementFacts
<1>2. DOMAIN E = 1..z /\ z \in Nat /\ z = Len(E)
  BY <1>1, SequenceFacts
<1>3. \A i \in 1..z : ~ElementPanics(E[i])
  BY <1>2 DEF ToSet
<1>4. \A i \in 1..z : Convertible(E[i]) /\ E[i].at \in Nat
  BY <1>1, <1>2, <1>3 DEF ElementPanics
<1>5. \A i, j \in 1..z : i < j => NamesBefore(E[i], E[j].at)
  BY <1>1, <1>2, <1>3
<1>6. PICK k : /\ FromStruct(n).fields = k[z].fields /\ FromStruct(n).unions = k[z].unions
               /\ k[0] = [fields |-> << >>, unions |-> << >>]
               /\ \A i \in 1..z : k[i] = AddElement(k[i - 1], E[i])
  <2>1. Len(ElementsOf(n)) \in Nat
    BY <1>2
  <2>2. PICK k : /\ FromStruct(n).fields = k[Len(ElementsOf(n))].fields
                 /\ FromStruct(n).unions = k[Len(ElementsOf(n))].unions
                 /\ k[0] = [fields |-> << >>, unions |-> << >>]
                 /\ \A i \in 1..Len(ElementsOf(n)) : k[i] = AddElement(k[i - 1], ElementsOf(n)[i])
    BY ONLY <2>1, MembersFound
  <2> QED BY <2>2
<1> DEFINE Right(i) == /\ MembersSound(k[i])
                       /\ \A b \in Nat : (\A a \in 1..i : NamesBefore(E[a], b)) => MembersBefore(k[i], b)
                       /\ \A x : x \in DescribedFields(k[i]) <=> \E a \in 1..i : x \in FieldsIn(E[a])
                       /\ \A x : x \in DescribedUnions(k[i]) <=> \E a \in 1..i : x \in UnionsIn(E[a])
           Wrong == {i \in Nat : i <= z /\ ~Right(i)}
<1>7. Right(0)
  <2> PICK m : m = k[0]
    OBVIOUS
  <2>1. m = [fields |-> << >>, unions |-> << >>]
    BY <1>6
  <2>2. IsSeq(<< >>) /\ Len(<< >>) = 0
    BY DEF IsSeq
  <2>3. m.fields = << >> /\ m.unions = << >>
    BY ONLY <2>1
  <2>4. 1..0 = {}
    OBVIOUS
  <2>5. MembersSound(m)
    BY ONLY <2>1, <2>2, <2>3, <2>4 DEF MembersSound
  <2>6. \A b \in Nat : MembersBefore(m, b)
    BY ONLY <2>2, <2>3, <2>4 DEF MembersBefore
  <2>7. DescribedFields(m) = {} /\ DescribedUnions(m) = {}
    <3>1. IsSeq(m.fields) /\ IsSeq(m.unions) /\ Len(m.fields) = 0 /\ Len(m.unions) = 0
      BY ONLY <2>2, <2>3
    <3> QED BY ONLY <2>4, <3>1, AllDescribed
  <2>8. /\ \A x : x \in DescribedFields(m) <=> \E a \in 1..0 : x \in FieldsIn(E[a])
        /\ \A x : x \in DescribedUnions(m) <=> \E a \in 1..0 : x \in UnionsIn(E[a])
    BY ONLY <2>4, <2>7
  <2> QED BY <2>5, <2>6, <2>8
<1>8. ASSUME NEW i \in 1..z, Right(i - 1)
      PROVE  Right(i)
  <2> PICK m, r, e : m = k[i - 1] /\ r = k[i] /\ e = E[i]
    OBVIOUS
  <2>1. /\ MembersSound(m)
        /\ \A b \in Nat : (\A a \in 1..(i - 1) : NamesBefore(E[a], b)) => MembersBefore(m, b)
        /\ \A x : x \in DescribedFields(m) <=> \E a \in 1..(i - 1) : x \in FieldsIn(E[a])
        /\ \A x : x \in DescribedUnions(m) <=> \E a \in 1..(i - 1) : x \in UnionsIn(E[a])
    BY <1>8
  <2>2. r = AddElement(m, e)
    BY <1>6
  <2>3. Convertible(e) /\ e.at \in Nat
    BY <1>4
  <2>4. MembersBefore(m, e.at)
    <3>1. \A a \in 1..(i - 1) : NamesBefore(E[a], e.at)
      BY <1>2, <1>5
    <3> QED BY <2>1, <2>3, <3>1
  <2>5. /\ MembersSound(r) /\ OneMore(r, m, e)
        /\ \A b \in Nat : MembersBefore(m, b) /\ NamesBefore(e, b) => MembersBefore(r, b)
    BY ONLY <2>1, <2>2, <2>3, <2>4, ElementAdded
  <2>6. ASSUME NEW b \in Nat, \A a \in 1..i : NamesBefore(E[a], b)
        PROVE  MembersBefore(r, b)
    <3>1. i \in 1..i /\ \A a \in 1..(i - 1) : a \in 1..i
      BY <1>2
    <3> QED BY <2>1, <2>5, <2>6, <3>1
  <2>7. i \in 1..i /\ (\A a \in 1..(i - 1) : a \in 1..i) /\ \A a \in 1..i : a \in 1..(i - 1) \/ a = i
    BY <1>2
  <2>8. \A x : x \in DescribedFields(r) <=> \E a \in 1..i : x \in FieldsIn(E[a])
    <3>1. \A x : x \in DescribedFields(r) <=> x \in DescribedFields(m) \/ x \in FieldsIn(E[i])
      BY <2>5 DEF OneMore
    <3> QED BY ONLY <2>1, <2>7, <3>1
  <2>9. \A x : x \in DescribedUnions(r) <=> \E a \in 1..i : x \in UnionsIn(E[a])
    <3>1. \A x : x \in DescribedUnions(r) <=> x \in DescribedUnions(m) \/ x \in UnionsIn(E[i])
      BY <2>5 DEF OneMore
    <3> QED BY ONLY <2>1, <2>7, <3>1
  <2> QED BY <2>5, <2>6, <2>8, <2>9
<1>9. Right(z)
  <2> HIDE DEF Right
  <2> SUFFICES ASSUME Wrong # {} PROVE FALSE
    BY <1>2
  <2>1. PICK i \in Wrong : \A j \in Wrong : i <= j
    BY LeastOf
  <2>2. i \in Nat /\ i <= z /\ ~Right(i)
    OBVIOUS
  <2>3. i # 0
    BY <1>7, <2>2
  <2>4. i - 1 \in Nat /\ i - 1 <= z /\ i - 1 \notin Wrong /\ i \in 1..z
    <3> HIDE DEF Wrong
    <3> QED BY <1>2, <2>1, <2>2, <2>3
  <2>5. Right(i - 1)
    BY <2>4
  <2> QED BY <1>8, <2>2, <2>4, <2>5
<1>10. PICK m : m = k[z]
  OBVIOUS
<1>11. /\ MembersSound(m)
       /\ \A x : x \in DescribedFields(m) <=> \E a \in 1..z : x \in FieldsIn(E[a])
       /\ \A x : x \in DescribedUnions(m) <=> \E a \in 1..z : x \in UnionsIn(E[a])
  BY <1>9, <1>10
<1>12. \A x : x \in Members(n) <=> \E i \in 1..z : x = E[i]
  BY <1>m, <1>2 DEF MembersAre
<1>13. /\ \A x : x \in DescribedFields(m) <=> \E e \in Members(n) : x \in FieldsIn(e)
       /\ \A x : x \in DescribedUnions(m) <=> \E e \in Members(n) : x \in UnionsIn(e)
  BY ONLY <1>11, <1>12
<1> QED BY <1>6, <1>10, <1>11, <1>13

\* The descriptor of a struct.
LEMMA StructDescribed ==
  ASSUME NEW n, SoundStruct(n), \A e \in ToSet(ElementsOf(n)) : ~ElementPanics(e),
         NEW s, s = FromStruct(n)
  PROVE  Describes(s, n)
<1>1. PICK m : /\ MembersSound(m) /\ m.fields = s.fields /\ m.unions = s.unions
               /\ \A x : x \in DescribedFields(m) <=> \E e \in Members(n) : x \in FieldsIn(e)
               /\ \A x : x \in DescribedUnions(m) <=> \E e \in Members(n) : x \in UnionsIn(e)
  BY StructMembers
<1>2. IsSeq(m.fields) /\ IsSeq(m.unions)
  BY <1>1 DEF MembersSound
<1>3. DOMAIN m.fields = 1..Len(m.fields) /\ DOMAIN m.unions = 1..Len(m.unions)
  BY ONLY <1>2, SequenceFacts
<1>4. Ascending(m.fields) /\ Ascending(m.unions)
  BY ONLY <1>1, <1>3 DEF MembersSound, Ascending
<1>5. ASSUME NEW f \in ToSet(m.fields), f.union # 0
      PROVE  /\ m.unions[f.union].name < f.name
             /\ f.union < Len(m.unions) => f.name < m.unions[f.union + 1].name
  <2>1. PICK i \in 1..Len(m.fields) : f = m.fields[i]
    BY <1>3 DEF ToSet
  <2> QED BY <1>1, <1>5, <2>1 DEF MembersSound
<1>6. DescribedFields(s) = DescribedFields(m) /\ DescribedUnions(s) = DescribedUnions(m)
  BY ONLY <1>1 DEF DescribedFields, DescribedUnions
<1>7. DescribedFields(s) = UNION {FieldsIn(e) : e \in Members(n)}
  BY ONLY <1>1, <1>6
<1>8. DescribedUnions(s) = UNION {UnionsIn(e) : e \in Members(n)}
  BY ONLY <1>1, <1>6
<1>9. /\ Ascending(s.fields) /\ Ascending(s.unions)
      /\ \A f \in ToSet(s.fields) : f.union # 0 =>
            /\ s.unions[f.union].name < f.name
            /\ f.union < Len(s.unions) => f.name < s.unions[f.union + 1].name
  BY ONLY <1>1, <1>4, <1>5
<1> QED BY ONLY <1>7, <1>8, <1>9 DEF Describes

\* The structs of a descriptor.
LEMMA StructsOfModule ==
  ASSUME NEW tree, NEW structs, structs = FromModule(tree).structs,
         NEW nodes, nodes = Kids(tree, "StatementStruct")
  PROVE  /\ DOMAIN structs = DOMAIN nodes
         /\ \A i \in DOMAIN nodes : structs[i] = FromStruct(nodes[i]) /\ nodes[i] \in ToSet(nodes)
<1> DEFINE t == [i \in DOMAIN nodes |-> [n \in ToSet(nodes) |-> FromStruct(n)][nodes[i]]]
<1>1. structs = t
  <2>1. FromModule(tree).structs = MapFrom(nodes, FromStruct)
    BY DEF FromModule
  <2> QED BY <2>1 DEF MapFrom
<1>2. \A i \in DOMAIN nodes : nodes[i] \in ToSet(nodes)
  BY DEF ToSet
<1> QED BY <1>1, <1>2

-----------------------------------------------------------------------------
(* The conversion.                                                         *)

LEMMA ConvertStep ==
  ASSUME Inductive, Convert
  PROVE  Inductive'
<1>1. /\ pc = "parsed" /\ outcome = "none" /\ ~Panics(Tree) /\ module' = FromModule(Tree)
      /\ outcome' \in {"error", "module"}
      /\ tokens' = tokens /\ at' = at /\ calls' = calls /\ reported' = reported /\ pc' = pc
  BY DEF Convert, parserVars, Outcomes
<1>2. Calls /\ tokens \in Seq(TokenType) /\ at \in 1..(Len(tokens) + 1) /\ ParserInvariant
  BY <1>1 DEF Inductive, ParserInvariant
<1>3. ParserInvariant'
  BY <1>1, <1>2, ParserInvariantKept DEF parserVars
<1> PICK tree, nodes : tree = Tree /\ nodes = Kids(Tree, "StatementStruct")
  OBVIOUS
<1>4. /\ DOMAIN module'.structs = DOMAIN nodes
      /\ \A i \in DOMAIN nodes : /\ module'.structs[i] = FromStruct(nodes[i])
                                /\ nodes[i] \in ToSet(nodes)
  <2> PICK structs : structs = FromModule(tree).structs
    OBVIOUS
  <2>1. /\ DOMAIN structs = DOMAIN nodes
        /\ \A i \in DOMAIN nodes : structs[i] = FromStruct(nodes[i]) /\ nodes[i] \in ToSet(nodes)
    BY StructsOfModule
  <2>2. module'.structs = structs
    BY <1>1
  <2> QED BY ONLY <2>1, <2>2
<1>5. ASSUME NEW i \in DOMAIN nodes
      PROVE  Describes(module'.structs[i], nodes[i])
  <2> PICK n, s : n = nodes[i] /\ s = module'.structs[i]
    OBVIOUS
  <2>1. n \in ToSet(Kids(Tree, "StatementStruct"))
    BY <1>4
  <2>2. SoundStruct(n)
    BY <1>2, <2>1, SoundTree
  <2>3. \A e \in ToSet(ElementsOf(n)) : ~ElementPanics(e)
    BY <1>1, <2>1 DEF Panics
  <2>4. s = FromStruct(n)
    BY <1>4
  <2>5. Describes(s, n)
    BY ONLY <2>2, <2>3, <2>4, StructDescribed
  <2> QED BY <2>5
<1>6. FieldsInTheirUnions'
  <2>1. Kids(Tree', "StatementStruct") = nodes
    <3>1. Tree' = Tree
      BY <1>1 DEF Tree, Node
    <3> QED BY <3>1
  <2> QED BY <1>4, <1>5, <2>1 DEF FieldsInTheirUnions
<1> QED BY <1>1, <1>3, <1>6 DEF Inductive, BrokenAfterReport

LEMMA InductiveKept ==
  ASSUME Inductive, [Next]_vars
  PROVE  Inductive'
<1>1. CASE Parse
  <2>1. pc = "parse" /\ outcome = "none" /\ outcome' = "none"
    BY <1>1 DEF Parse, Inductive, ParserNext, Advance, Unexpected, Refused, Refusal, Dropped, Passed,
            Enter, Return, Choose, ListStep, ElementStep, StatementStep, Parsed, At
  <2>2. ParserInvariant'
    BY <1>1, ParserInvariantKept DEF Inductive, Parse
  <2> QED BY <2>1, <2>2 DEF Inductive, BrokenAfterReport, FieldsInTheirUnions
<1>2. CASE ParseFailure
  <2>1. ParserInvariant'
    BY <1>2, ParserInvariantKept DEF Inductive, ParseFailure
  <2> QED BY <1>2, <2>1 DEF Inductive, BrokenAfterReport, FieldsInTheirUnions, ParseFailure, parserVars
<1>3. CASE ConvertPanic
  <2>1. ParserInvariant'
    BY <1>3, ParserInvariantKept DEF Inductive, ConvertPanic
  <2>2. Calls /\ tokens \in Seq(TokenType) /\ at \in 1..(Len(tokens) + 1)
    BY <1>3 DEF Inductive, ParserInvariant, ConvertPanic
  <2>3. Excused \/ Adjacent({"union"}, {"{"})
    BY <1>3, <2>2, PanicsAfterReport DEF ConvertPanic
  <2>4. /\ tokens' = tokens /\ reported' = reported /\ pc' = pc /\ pc = "parsed" /\ outcome' = "panic"
    BY <1>3 DEF ConvertPanic, parserVars
  <2>5. BrokenAfterReport'
    BY <2>3, <2>4, SameTokens DEF BrokenAfterReport, Excused
  <2> QED BY <2>1, <2>4, <2>5 DEF Inductive, FieldsInTheirUnions
<1>4. CASE Convert
  BY <1>4, ConvertStep
<1>5. CASE UNCHANGED vars
  <2>1. ParserInvariant'
    BY <1>5, ParserInvariantKept DEF Inductive, vars
  <2>2. /\ tokens' = tokens /\ reported' = reported /\ pc' = pc /\ outcome' = outcome /\ module' = module
        /\ calls' = calls
    BY <1>5 DEF vars, parserVars
  <2>3. BrokenAfterReport'
    BY <2>2, SameTokens DEF Inductive, BrokenAfterReport
  <2>4. FieldsInTheirUnions'
    <3>1. Tree' = Tree
      BY <2>2 DEF Tree, Node
    <3>2. FieldsInTheirUnions
      BY DEF Inductive
    <3> QED BY <2>2, <3>1, <3>2 DEF FieldsInTheirUnions
  <2> QED BY <2>1, <2>2, <2>3, <2>4 DEF Inductive
<1> QED BY <1>1, <1>2, <1>3, <1>4, <1>5 DEF Next

-----------------------------------------------------------------------------

LEMMA InductiveHolds == Spec => []Inductive
<1>1. Init => Inductive
  BY Starts DEF Init, Inductive, BrokenAfterReport, FieldsInTheirUnions
<1>2. Inductive /\ [Next]_vars => Inductive'
  BY InductiveKept
<1> QED BY <1>1, <1>2, PTL DEF Spec

\* A module of any length is either parsed, or complained about, or has the UID that
\* stands for none; and the parser loops only in a struct, after a complaint.
THEOREM FailuresAreReported == Spec => []FailedIsReported
<1>1. Inductive => FailedIsReported
  BY DEF Inductive, ParserInvariant
<1> QED BY <1>1, InductiveHolds, PTL

\* The conversion dereferences a nil only in a module that was complained about, or
\* that has a union without a name, or the UID that stands for none: whatever the
\* module, and whatever its types and values become.
THEOREM PanicsAreReported == Spec => []BrokenAfterReport
<1>1. Inductive => BrokenAfterReport
  BY DEF Inductive
<1> QED BY <1>1, InductiveHolds, PTL

\* The fields and unions of each struct of any module are the ones that are written,
\* once and in their order, and each field has the union it is written in, if any.
THEOREM FieldsAreInTheirUnions == Spec => []FieldsInTheirUnions
<1>1. Inductive => FieldsInTheirUnions
  BY DEF Inductive
<1> QED BY <1>1, InductiveHolds, PTL

=============================================================================
