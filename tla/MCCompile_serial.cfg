SPECIFICATION Spec
CONSTANTS
  pb = pb
  a = a
  b = b
  c = c
  relC = relC
  dir = dir
  gone = gone
  Files <- MCFiles
  Builtin = pb
  URIs <- MCURIs
  Normalize <- MCNormalize
  MaxTargets <- MCMaxTargets
  Inputs <- SerialInputs
  Cancellable = FALSE
  MaxConcurrency = 1
INVARIANTS CollectedOnce LinkSeesImports
PROPERTY Implements
CHECK_DEADLOCK FALSE
