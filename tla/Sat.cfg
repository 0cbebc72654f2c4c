CONSTANTS
  BoolVars = {1, 2, 3, 4}
  Vars = {1, 2, 3, 4}
  Values = {TRUE, FALSE}
  Reasons = {1, 2, 3, 4, 5, 6, 7, 8, 9, 10, 11, 12}
  NoReason = 0
  Undef = Undef
  VarPhase = "cache"
  RealVars <- NoReals
  RealValues <- NoReals
  AtomVars <- NoReals
  AtomScope <- NoScope
  AtomModels <- NoScope
  Formulas <- SatFormulas
  MaxRestarts = 1
SPECIFICATION Spec
INVARIANTS ConflictStaysFalse LearnsSomethingNew
PROPERTIES AnswersCorrectly ImplementsAssignment
