CONSTANTS
  Inputs <- MCInputs
  Builtins <- MCBuiltins
  MaxPlugins = 2
SPECIFICATION Spec
INVARIANTS PlainAsProtoc CommentsStay NamesResolve PluginsAgree
CHECK_DEADLOCK FALSE
