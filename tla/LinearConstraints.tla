------------------------- MODULE LinearConstraints -------------------------
(***************************************************************************)
(* Linear constraints and their repository (src/lra/Linear_constraint.h,   *)
(* src/lra/Linear_constraints.h), and Fourier-Motzkin elimination          *)
(* (src/lra/Lra_conflict_analysis.cpp).                                    *)
(*                                                                         *)
(* A constraint sum of coef[r] * r  {<, <=, =}  rhs is represented by a    *)
(* boolean variable, its position in the repository.  The negative literal *)
(* stands for the negated constraint.  Coefficients are 1 and -1, which    *)
(* keeps values and bounds integers (the type invariant says so).          *)
(***************************************************************************)
EXTENDS Integers, FiniteSets, Sequences, Functions

CONSTANT RealVars  \* rational variables, by their ordinals

ASSUME RealVarsAssumption == RealVars \subseteq Nat /\ IsFiniteSet(RealVars)

VARIABLE constraints  \* boolean variable -> [coef, pred, rhs]

AtomOf(lit) == IF lit < 0 THEN -lit ELSE lit

Constraint(lit) == constraints[AtomOf(lit)]

\* The variables of a constraint are those with a coefficient.
VarsOf(lit) == DOMAIN Constraint(lit).coef

-----------------------------------------------------------------------------
(* Evaluation.                                                             *)

Holds(pred, x, y) ==
  CASE pred = "eq" -> x = y [] pred = "lt" -> x < y [] pred = "leq" -> x <= y

\* The sum of some of the variables under a valuation.
WeightedSum(coef, vars, rho) ==
  FoldFunctionOnSet(LAMBDA x, y : x + y, 0, [r \in vars |-> coef[r] * rho[r]], vars)

\* The value of a constraint under a valuation of its variables.
Satisfied(c, rho) == Holds(c.pred, WeightedSum(c.coef, DOMAIN c.coef, rho), c.rhs)

HoldsIn(lit, rho) == Satisfied(Constraint(lit), rho) = (lit > 0)

\* The value the other variables leave to r, where the constraint is tight.
ImpliedValue(lit, r, rho) ==
  LET c == Constraint(lit) IN c.coef[r] * (c.rhs - WeightedSum(c.coef, DOMAIN c.coef \ {r}, rho))

\* <, > or !=
IsStrict(lit) ==
  IF lit > 0 THEN Constraint(lit).pred = "lt" ELSE Constraint(lit).pred \in {"leq", "eq"}

IsEquality(lit) == lit > 0 /\ Constraint(lit).pred = "eq"

IsInequality(lit) == lit < 0 /\ Constraint(lit).pred = "eq"

\* Bounds::implies_lower_bound, implies_upper_bound
BoundsFromBelow(lit, r) ==
  \/ IsEquality(lit)
  \/ Constraint(lit).pred # "eq" /\ (Constraint(lit).coef[r] > 0) = (lit < 0)

BoundsFromAbove(lit, r) ==
  \/ IsEquality(lit)
  \/ Constraint(lit).pred # "eq" /\ (Constraint(lit).coef[r] > 0) = (lit > 0)

-----------------------------------------------------------------------------
(* Fm_elimination.  A polynomial is [coef, const, pred] and stands for     *)
(* sum + const {<, <=, =} 0.                                               *)

Flipped(pred) == CASE pred = "eq" -> "eq" [] pred = "lt" -> "leq" [] pred = "leq" -> "lt"

Poly(lit, pred, mult) ==
  [coef |-> [r \in VarsOf(lit) |-> mult * Constraint(lit).coef[r]],
   const |-> -mult * Constraint(lit).rhs,
   pred |-> pred]

\* A negated constraint is multiplied by -1 and changes its predicate.
PolyOf(lit) ==
  IF lit > 0 THEN Poly(lit, Constraint(lit).pred, 1) ELSE Poly(lit, Flipped(Constraint(lit).pred), -1)

\* Variation: a strict constraint does not make the combination strict.
CombineWeakly(p, q) == IF p = "eq" /\ q = "eq" THEN "eq" ELSE "leq"

Combine(p, q) ==
  CASE p = "eq" /\ q = "eq" -> "eq"
    [] "lt" \in {p, q} -> "lt"
    [] OTHER -> "leq"

Coefficient(p, r) == IF r \in DOMAIN p.coef THEN p.coef[r] ELSE 0

\* p * sign + q * mult, without the variables whose coefficient is zero.
Combination(p, sign, q, mult) ==
  LET c == [r \in DOMAIN p.coef \cup DOMAIN q.coef |->
              sign * Coefficient(p, r) + mult * Coefficient(q, r)]
  IN [coef |-> [r \in {r \in DOMAIN c : c[r] # 0} |-> c[r]],
      const |-> sign * p.const + mult * q.const,
      pred |-> Combine(p.pred, q.pred)]

\* Eliminate r.  An inequality q may only be multiplied by a positive number;
\* where that is not enough, p changes its sign.
Resolve(p, q, r) ==
  LET mult == -p.coef[r] * q.coef[r] IN
  IF mult < 0 /\ q.pred # "eq" THEN Combination(p, -1, q, -mult)
                               ELSE Combination(p, 1, q, mult)

-----------------------------------------------------------------------------
(* Linear_constraints::make.                                               *)

\* The coefficient of the first variable, by which a constraint is divided.
Leading(coef) == coef[CHOOSE r \in DOMAIN coef : \A s \in DOMAIN coef : r <= s]

Normalized(p) ==
  LET mult == Leading(p.coef) IN
  [coef |-> [r \in DOMAIN p.coef |-> mult * p.coef[r]],
   pred |-> IF mult < 0 THEN Flipped(p.pred) ELSE p.pred,
   rhs |-> -mult * p.const]

\* Bound: other coefficients than 1 and -1 are not modelled.
Representable(p) == \A r \in DOMAIN p.coef : p.coef[r] \in {1, -1}

\* The atom that stands for the normal form, a new one if there is none.
AtomFor(p) ==
  IF \E a \in DOMAIN constraints : constraints[a] = Normalized(p)
    THEN CHOOSE a \in DOMAIN constraints : constraints[a] = Normalized(p)
    ELSE Len(constraints) + 1

\* Dividing an inequality by a negative number gives a negated atom.
LiteralFor(p) ==
  IF Leading(p.coef) < 0 /\ p.pred # "eq" THEN -AtomFor(p) ELSE AtomFor(p)

IsNew(p) == AtomFor(p) > Len(constraints)

Make(p) ==
  constraints' = IF IsNew(p) THEN Append(constraints, Normalized(p)) ELSE constraints
=============================================================================
