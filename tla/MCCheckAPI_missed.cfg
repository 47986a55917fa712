SPECIFICATION Spec
CONSTANTS
  S = S
  T = T
  List = List
  Text = Text
  Api = Api
  Kind <- MCKind
  Specifiers <- MCSpecifiers
  FieldLists <- MCFieldLists
INVARIANT NoneIsMissed
CHECK_DEADLOCK FALSE
