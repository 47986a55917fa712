SPECIFICATION Spec
CONSTANTS
  S = S
  T = T
  List = List
  Text = Text
  Api = Api
  Kind <- MCKind
  Specifiers <- MCSpecifiers
  FieldLists <- MCFieldLists
INVARIANTS OnlyTheForbidden FoundIfUniform
PROPERTY Terminates
CHECK_DEADLOCK FALSE
