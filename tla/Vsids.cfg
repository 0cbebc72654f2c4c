CONSTANTS
  q0 = q0
  q1 = q1
  q2 = q2
  BoolVars = {1, 2, 3, 4, 5, 6, 7, 8}
  Vars <- VsidsVariables
  Values <- VsidsValues
  Reasons = {1, 2, 3, 4, 5, 6, 7, 8, 9, 10, 11, 12, 13, 14, 15, 16, 17, 18, 19, 20}
  NoReason = 0
  Undef = Undef
  VarPhase = "cache"
  RealVars <- Reals
  RealValues = {q0, q1, q2}
  AtomVars = {2, 3, 4, 5, 6}
  AtomScope <- Scopes
  AtomModels <- Models
  Formulas <- VsidsFormulas
  MaxRestarts = 2
  score_threshold = 1000
SPECIFICATION VsidsSpec
INVARIANTS NothingIsLost
PROPERTIES ImplementsSolver PicksBest
