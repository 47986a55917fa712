SPECIFICATION Spec
CONSTANTS
  Names <- MCNames
  Sort <- MCSort
INVARIANTS DependenciesFirst SortedOnce NoOrderableFileIsLost
PROPERTY Terminates
CHECK_DEADLOCK FALSE
