CONSTANTS
  QVars = {1, 2, 3, 4, 5, 6}
  Scores = {0, 1}
  Factor = 2
SPECIFICATION Spec
INVARIANTS QueueInv
PROPERTIES ImplementsScoreMap
