CONSTANTS
  BoolVars = {1, 2, 3}
  ClauseSet <- Chains
  MaxLearned = 4
SPECIFICATION SubsumptionSpec
INVARIANTS SubsumptionInv RemovedAreImplied
PROPERTIES PassesComputeSurvivors
