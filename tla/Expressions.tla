----------------------------- MODULE Expressions -----------------------------
(***************************************************************************)
(* The parts of a module that are in themselves                            *)
(* (internal/compiler/microglot/descriptor_microglot.go): what becomes of  *)
(* types, and of values.                                                   *)
(***************************************************************************)
EXTENDS Descriptor

\* A type specifier: the qualifier, if any, and the name with its parameters.
RECURSIVE FromTypeSpecifier(_)
FromTypeSpecifier(n) ==
    [qualifier  |-> IF Has(n, ".") THEN NameOf(n) ELSE 0,
     name       |-> NameOf(Kid(n, "TypeName")),
     parameters |-> MapFrom(Kids(Kid(n, "TypeName"), "TypeSpecifier"), FromTypeSpecifier)]

FromOperationUnary == "+" :> "Positive" @@ "-" :> "Negative" @@ "!" :> "Not"

FromOperationBinary ==
    "==" :> "Equal" @@ "!=" :> "NotEqual" @@ "<=" :> "LessEqual" @@ ">=" :> "GreaterEqual" @@
    "&" :> "And" @@ "|" :> "Or" @@ "&&" :> "BinAnd" @@ "||" :> "BinOr" @@ "^" :> "BitXor" @@
    "+" :> "Add" @@ "-" :> "Subtract" @@ "/" :> "Divide" @@ "*" :> "Multiply" @@ "%" :> "Modulo"

FromValueIdentifier(n) ==
    LET names == KidsOf(n, Identifiers)
    IN  [kind |-> "identifier", names |-> [i \in DOMAIN names |-> names[i].at]]

\* The Kind of a value, by the function that parsed it.
RECURSIVE FromValue(_)
FromValue(value) ==
    LET n == value.kids[1] IN
    CASE n.rule = "ValueUnary"  -> [kind |-> "unary", op |-> FromOperationUnary[n.kids[1].rule],
                                    value |-> FromValue(n.kids[2])]
      [] n.rule = "ValueBinary" -> [kind |-> "binary", op |-> FromOperationBinary[n.kids[3].rule],
                                    left |-> FromValue(n.kids[2]), right |-> FromValue(n.kids[4])]
      [] n.rule = "ValueLiteralBool"   -> Boolean(Has(n, "true"))
      [] n.rule = "ValueLiteralInt"    -> FromLiteral(Number(n))
      [] n.rule = "ValueLiteralFloat"  -> Float(<<"Float", 64>>, 1)
      [] n.rule = "ValueLiteralText"   -> [kind |-> "text", value |-> n.at]
      [] n.rule = "ValueLiteralData"   -> [kind |-> "data", value |-> n.at]
      [] n.rule = "ValueLiteralList"   -> [kind |-> "list", elements |-> MapFrom(Kids(n, "Value"), FromValue)]
      [] n.rule = "ValueLiteralStruct" ->
            LET FromPair(p) == [name |-> NameOf(p), value |-> FromValue(Kid(p, "Value"))]
            IN  [kind |-> "struct", fields |-> MapFrom(Kids(n, "LiteralStructPair"), FromPair)]
      [] n.rule = "ValueIdentifier"    -> FromValueIdentifier(Kid(n, "QualifiedIdentifier"))
=============================================================================
