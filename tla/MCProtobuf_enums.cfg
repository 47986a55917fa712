CONSTANTS
  Inputs <- MCInputs
  Builtins <- MCBuiltins
  MaxPlugins = 2
SPECIFICATION Spec
INVARIANT PromotedIsFound
CHECK_DEADLOCK FALSE
