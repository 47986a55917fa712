SPECIFICATION Spec
CONSTANTS
  pb = pb
  a = a
  b = b
  c = c
  relC = relC
  dir = dir
  gone = gone
  Files <- MCFiles
  Builtin = pb
  URIs <- MCURIs
  Normalize <- MCNormalize
  MaxTargets <- MCMaxTargets
  Inputs <- ParallelInputs
  Cancellable = TRUE
  MaxConcurrency = 2
INVARIANTS NeverStuck Inductive LinkAfterCollect OneModulePerFile ImageIsReachable
PROPERTIES QuietAfterSuccess Answered SlotsReturned
CHECK_DEADLOCK FALSE
