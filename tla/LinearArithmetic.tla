------------------------- MODULE LinearArithmetic -------------------------
(***************************************************************************)
(* What the solving loop sees of the linear arithmetic plugin              *)
(* (src/lra/Linear_arithmetic.cpp, src/lra/Lra_conflict_analysis.cpp).     *)
(* The arithmetic itself is abstracted: an atom is a boolean variable with *)
(* a scope of rational variables and the set of valuations it holds in,    *)
(* over a finite set of values.  Kept are the events on the trail: atoms   *)
(* whose variables are all assigned are propagated at the level of those   *)
(* variables, a variable without an allowed value is explained by a valid  *)
(* clause, and the explanation may bring in a new atom that is propagated  *)
(* below the current level.                                                *)
(***************************************************************************)
EXTENDS BoolTheory

CONSTANTS
  RealVars,      \* rational variables; none in a purely propositional solver
  RealValues,    \* values the rational variables may take
  AtomVars,      \* boolean variables that stand for linear constraints
  AtomScope,     \* atom -> rational variables of its constraint
  AtomModels     \* atom -> valuations of RealVars in which it holds

ASSUME AtomAssumption ==
  /\ RealVars \subseteq Vars \ BoolVars
  /\ RealValues \subseteq Values \ BOOLEAN
  /\ AtomVars \subseteq BoolVars
  /\ AtomScope \in [AtomVars -> (SUBSET RealVars) \ {{}}]
  /\ AtomModels \in [AtomVars -> SUBSET [RealVars -> RealValues]]

\* A rational variable can have a value, and only the variables of a constraint
\* matter to it.
ASSUME ScopeAssumption ==
  /\ RealVars # {} => RealValues # {}
  /\ \A a \in AtomVars : \A rho \in AtomModels[a], other \in [RealVars -> RealValues] :
       (\A r \in AtomScope[a] : other[r] = rho[r]) => other \in AtomModels[a]

VARIABLES
  created,  \* atoms that exist
  checked,  \* rational variables whose bounds were checked in this round
  blame     \* the explanation being built, a set of literals

lraVars == <<created, checked, blame>>

Valuations == [RealVars -> RealValues]

\* The boolean variables of the problem, constraints included.
Mentioned == {VarOf(lit) : lit \in UNION {ToSet(c) : c \in ToSet(asserted)}}

\* The variables that exist.
InUse == Mentioned \cup created \cup UNION {AtomScope[a] : a \in created}

-----------------------------------------------------------------------------
(* Constraints under the current, partial valuation.                       *)

Unassigned(a) == {r \in AtomScope[a] : ~is_defined(r)}

is_fully_assigned(a) == Unassigned(a) = {}

Agrees(rho, a) == \A r \in AtomScope[a] : is_defined(r) => rho[r] = model[r]

\* The value of a fully assigned constraint.
AtomValue(a) == \E rho \in AtomModels[a] : Agrees(rho, a)

\* The value of a constraint that only lacks r, when r is x.
AtomValueAt(a, r, x) == \E rho \in AtomModels[a] : Agrees(rho, a) /\ rho[r] = x

HighestScopeLevel(a) ==
  CHOOSE l \in {var_level[r] : r \in AtomScope[a]} :
    \A r \in AtomScope[a] : var_level[r] <= l

\* The assigned constraints that bound r.
UnitIn(r) == {a \in created : is_defined(a) /\ Unassigned(a) = {r}}

AllowedBy(atoms, r, x) == \A a \in atoms : AtomValueAt(a, r, x) = model[a]

\* Bounds::is_allowed
Allowed(r) == {x \in RealValues : AllowedBy(UnitIn(r), r, x)}

Blocked(r) == ~is_defined(r) /\ Allowed(r) = {}

-----------------------------------------------------------------------------
(* Explanations.                                                           *)

Valid(lits) ==
  \A rho \in Valuations :
    \E lit \in lits : (rho \in AtomModels[VarOf(lit)]) = (lit > 0)

Conflicting(atoms, r) == \A x \in RealValues : ~AllowedBy(atoms, r, x)

\* Fewest constraints without a common value of r: a lower and an upper
\* bound, or both and an inequality.
Cores(r) ==
  {c \in SUBSET UnitIn(r) :
     Conflicting(c, r) /\ \A a \in c : ~Conflicting(c \ {a}, r)}

\* The literals of the constraints obtained by eliminating r: fully assigned
\* and false.
Eliminated(core, r) ==
  {IF AtomValue(a) THEN -a ELSE a :
     a \in {a \in AtomVars : /\ AtomScope[a] \subseteq UNION {AtomScope[b] : b \in core} \ {r}
                             /\ is_fully_assigned(a)}}

Refuted(core) == {-TrueLiteralOf(a) : a \in core}

\* Valid clauses that say why r has no value.
Explanations(r) ==
  UNION {{Refuted(core) \cup d :
            d \in {d \in SUBSET Eliminated(core, r) :
                     /\ Valid(Refuted(core) \cup d)
                     /\ \A lit \in d : ~Valid(Refuted(core) \cup (d \ {lit}))}}
         : core \in Cores(r)}

-----------------------------------------------------------------------------
(* Linear_arithmetic::propagate.                                           *)

Propagatable == {a \in created : ~is_defined(a) /\ is_fully_assigned(a)}

\* Variation: every constraint is propagated at the current level.
PropagateAtomAtTop(a) == Propagate(a, AtomValue(a), NoReason, decision_level)

\* A fully assigned constraint takes its value at the level of its variables.
PropagateAtom(a) == Propagate(a, AtomValue(a), NoReason, HighestScopeLevel(a))

LraPropagate ==
  /\ pc = "theory"
  /\ \E a \in Propagatable : PropagateAtom(a)
  /\ UNCHANGED <<pc, conflicts, lraVars>>

\* check_bounds finds a variable without an allowed value; every such
\* variable is explained (return_all_conflicts).
LraBlame ==
  /\ pc = "theory"
  /\ Propagatable = {}
  /\ \E r \in RealVars \ checked :
       /\ Blocked(r)
       /\ \E lemma \in Explanations(r) : blame' = lemma
       /\ checked' = checked \cup {r}
  /\ pc' = "explain"
  /\ UNCHANGED <<conflicts, created, trailVars>>

\* Fm_elimination::finish: create the derived constraint if need be and
\* propagate it where its variables are assigned.
LraDerive ==
  /\ pc = "explain"
  /\ \E a \in {VarOf(lit) : lit \in blame} :
       /\ ~is_defined(a)
       /\ PropagateAtom(a)
       /\ created' = created \cup {a}
  /\ UNCHANGED <<pc, conflicts, checked, blame>>

IndexBefore(l, k) == LitIndex(l) < LitIndex(k)

LraReport ==
  /\ pc = "explain"
  /\ \A lit \in blame : is_defined(VarOf(lit))
  /\ conflicts' = Append(conflicts, SortedList(blame, IndexBefore))
  /\ blame' = {}
  /\ pc' = "theory"
  /\ UNCHANGED <<created, checked, trailVars>>

AllChecked == \A r \in RealVars \ checked : ~Blocked(r)

LraConflict ==
  /\ pc = "theory"
  /\ Propagatable = {} /\ AllChecked
  /\ conflicts # << >>
  /\ checked' = {}
  /\ pc' = "conflict"
  /\ UNCHANGED <<conflicts, created, blame, trailVars>>

LraPropagateStep ==
  /\ LraPropagate \/ LraBlame \/ LraDerive \/ LraReport \/ LraConflict
  /\ UNCHANGED <<dbVars, bcpVars, phase, cursor>>

\* All constraints are propagated and every variable has a value left.
LraDone == pc = "theory" /\ Propagatable = {} /\ AllChecked /\ conflicts = << >>

\* Linear_arithmetic::decide: the cached value, a small integer or a midpoint,
\* in any case a value allowed by the bounds.
DecideReal(r) == r \in RealVars /\ \E x \in Allowed(r) : Decide(r, x)

\* The constraints of the problem exist from the start, the others once a
\* conflict has derived them.
LraInit ==
  /\ created = AtomVars \cap Mentioned
  /\ checked = {}
  /\ blame = {}
=============================================================================
