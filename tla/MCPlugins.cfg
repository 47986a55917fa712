SPECIFICATION Spec
CONSTANTS
  Files = {a, b, c}
  Others = {dir}
  MaxPackage = 2
  MaxTargets = 3
  MaxPlugins = 2
INVARIANTS EachTargetOnce OnePackagePerCall
CHECK_DEADLOCK FALSE
