CONSTANTS
  BoolVars = {1, 2}
  Vars = {1, 2}
  Values = {TRUE, FALSE}
  Reasons = {1, 2, 3, 4, 5, 6}
  NoReason = 0
  Undef = Undef
  VarPhase = "positive"
  RealVars <- NoReals
  RealValues <- NoReals
  AtomVars <- NoReals
  AtomScope <- NoScope
  AtomModels <- NoScope
  Formulas <- SessionFormulas
  MaxRestarts = 0
SPECIFICATION SessionSpec
INVARIANT SatMeansSatisfiable
