SPECIFICATION Spec
CONSTANTS
  W = 4
  Problems <- MCProblems
  Points <- MCPoints
CHECK_DEADLOCK FALSE
INVARIANTS
  EquationHasAPolynomial
