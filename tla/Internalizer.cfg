SPECIFICATION Spec
CONSTANTS
  W = 4
  Problems <- MCProblems
  RealVars <- MCRealVars
  Grid <- MCGrid
CHECK_DEADLOCK FALSE
INVARIANTS
  InternalizerInv
  ModelsAreModels
  NoModelIsLost
