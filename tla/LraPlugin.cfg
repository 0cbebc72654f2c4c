SPECIFICATION Spec
CONSTANTS
  RealVars <- MCRealVars
  RealValues <- MCRealValues
  Vars <- MCVars
  Values <- MCValues
  Inputs <- MCInputs
  MaxAtoms <- MCMaxAtoms
  MaxTime <- MCMaxTime
  Reasons = {clause}
  NoReason = NoReason
  Undef = Undef
CHECK_DEADLOCK FALSE
INVARIANTS
  LraInv
  BoundsAreBest
  DecideFindsValue
  StacksAreNested
  ConflictsAreLemmas
  SemanticPropagation
PROPERTIES
  ObsoleteForGood
