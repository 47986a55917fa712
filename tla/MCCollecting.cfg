SPECIFICATION Spec
CONSTANTS
  p = p
  q = q
  T = T
  U = U
  f = f
  g = g
  Candidates <- MCCandidates
  Packages <- MCPackages
  Names <- MCNames
INVARIANTS AcceptedInAnyOrder TableOfCollected SearchIsDetermined BlameIsDeserved
CHECK_DEADLOCK FALSE
