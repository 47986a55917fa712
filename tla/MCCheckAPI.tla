----------------------------- MODULE MCCheckAPI ------------------------------
(***************************************************************************)
(* Two structs with up to two fields each, of every type: a primitive, an  *)
(* API, the structs themselves and lists of these.                         *)
(***************************************************************************)
EXTENDS CheckAPI, TLC

CONSTANTS S, T, List, Text, Api

Plain(t)    == [type |-> t, parameters |-> << >>]
Of(t, s)    == [type |-> t, parameters |-> <<s>>]

MCKind == (S :> "struct") @@ (T :> "struct") @@ (List :> "virtual")
             @@ (Text :> "primitive") @@ (Api :> "api")

MCSpecifiers ==
    {Plain(S), Plain(T), Plain(Text), Plain(Api)}
      \cup {Of(List, Plain(t)) : t \in {S, Text, Api}}

MCFieldLists == UNION {[1..n -> MCSpecifiers] : n \in 0..2}
=============================================================================
