\* Words of three bits.  Two numbers suffice for every way the operands and the
\* result of an operation can coincide; sums of two products of words overflow
\* the double word, and results move both ways between words and GMP.
CONSTANTS
  W = 4
  Regs = {x, y}
  MaxNum = 7
  MaxDen = 7

SPECIFICATION LongFractionSpec

INVARIANTS
  PartsAgree
  ComputesExactly
  ComparesExactly
  InverseNeedsSmallDenominator
