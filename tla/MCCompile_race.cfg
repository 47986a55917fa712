SPECIFICATION Spec
CONSTANTS
  pb = pb
  a = a
  b = b
  c = c
  relC = relC
  dir = dir
  gone = gone
  Files <- MCFiles
  Builtin = pb
  URIs <- MCURIs
  Normalize <- MCNormalize
  MaxTargets <- MCMaxTargets
  Inputs <- RaceInputs
  Cancellable = FALSE
  MaxConcurrency = 2
INVARIANT CollectedOnce
CHECK_DEADLOCK FALSE
