CONSTANT
  Inputs <- MCInputs
  Half <- MCHalf
  TypeFrom <- FromTypeSpecifier
  ValueFrom <- FromValue
SPECIFICATION Spec
INVARIANTS
  AcceptedIsDocumented
  DocumentedIsAccepted
  FailedIsReported
  BrokenAfterReport
  FieldsInTheirUnions
PROPERTY Ends
CHECK_DEADLOCK FALSE
