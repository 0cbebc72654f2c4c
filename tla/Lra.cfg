CONSTANTS
  r1 = r1
  r2 = r2
  r3 = r3
  q0 = q0
  q1 = q1
  q2 = q2
  BoolVars = {1, 2, 3, 4, 5, 6, 7, 8, 9, 10}
  Vars <- LraVars
  Values <- LraValues
  Reasons = {1, 2, 3, 4, 5, 6, 7, 8, 9, 10}
  NoReason = 0
  Undef = Undef
  VarPhase = "negative"
  RealVars = {r1, r2, r3}
  RealValues = {q0, q1, q2}
  AtomVars = {1, 2, 3, 4, 5, 6, 7, 8, 9}
  AtomScope <- Scopes
  AtomModels <- Models
  Formulas <- LraFormulas
  MaxRestarts = 0
SPECIFICATION Spec
INVARIANTS LoopInv TrailInv LearnedIsEntailed SatModelCorrect BcpComplete FalseWatchIsSafe ReasonsImply JumpIsJustified
PROPERTIES AnswersCorrectly UsesTrailCorrectly BacktrackIsExact
