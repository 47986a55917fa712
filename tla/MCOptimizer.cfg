SPECIFICATION Spec
CONSTANTS
  a = a
  b = b
  d = d
  Constants = {a, b}
  Others = {d}
  Parts <- MCParts
  Half <- MCHalf
  Programs <- MCPrograms
  MaxStack = 20
INVARIANTS MeaningKept FoldedInOrder OverflowIfCyclic PanicHasCause AcceptedFits
PROPERTY Ends
CHECK_DEADLOCK FALSE
