------------------------------- MODULE Bounds -------------------------------
(***************************************************************************)
(* The bounds that unit constraints imply for rational variables           *)
(* (src/lra/Variable_bounds.h, src/lra/Bounds.cpp), kept as stacks from    *)
(* which nothing is removed on a backtrack: an entry remembers the         *)
(* timestamps (src/Model.h) of the assignments it was computed from and is *)
(* dropped when it is met at the top and is obsolete by then.              *)
(*                                                                         *)
(* Deduction of bounds from other bounds (option deduce_bounds) is off.    *)
(***************************************************************************)
EXTENDS Theory, LinearConstraints, Lists, FiniteSetsExt, SequencesExt

VARIABLES
  stamp,    \* variable -> time of its last assignment
  clock,    \* [bool, real]: the time of each of the two models
  bounds,   \* rational variable -> [ub, lb, disallowed], lists of implied values
  changed   \* variables whose bounds have changed since the last check

boundVars == <<stamp, clock, bounds, changed>>

ModelOf(var) == IF var \in RealVars THEN "real" ELSE "bool"

\* Variation: a variable that is assigned again keeps its old timestamp.
StampOnce(var) ==
  /\ stamp' = IF stamp[var] = -1 THEN [stamp EXCEPT ![var] = clock[ModelOf(var)]] ELSE stamp
  /\ clock' = [clock EXCEPT ![ModelOf(var)] = @ + 1]

\* Model::set_value, as far as time is concerned.
Stamp(var) ==
  /\ stamp' = [stamp EXCEPT ![var] = clock[ModelOf(var)]]
  /\ clock' = [clock EXCEPT ![ModelOf(var)] = @ + 1]

\* Truth values share the model with numbers.
Truth(b) == IF b THEN 1 ELSE 0

True(lit) == model[AtomOf(lit)] = Truth(lit > 0)

Others(lit, r) == VarsOf(lit) \ {r}

\* The value the true unit constraint lit implies for r.
Implied(lit, r) ==
  [value |-> ImpliedValue(lit, r, model),
   lit |-> lit,
   cons_time |-> stamp[AtomOf(lit)],
   var_time |-> Max({0} \cup {stamp[s] : s \in Others(lit, r)})]

\* The constraint or one of its other variables was unassigned, or assigned
\* again, since the entry was made.
IsObsolete(e, r) ==
  \/ ~True(e.lit)
  \/ stamp[AtomOf(e.lit)] > e.cons_time
  \/ \E s \in Others(e.lit, r) : ~is_defined(s) \/ stamp[s] > e.var_time

\* remove_obsolete: from the top of a stack, down to an entry still in force.
Pruned(stack, r) ==
  SubSeq(stack, 1, Max({0} \cup {k \in DOMAIN stack : ~IsObsolete(stack[k], r)}))

\* remove_all_obsolete
InForce(list, r) == Chosen(list, {k \in DOMAIN list : ~IsObsolete(list[k], r)})

upper_bound(r) == Pruned(bounds[r].ub, r)

lower_bound(r) == Pruned(bounds[r].lb, r)

\* Variation: of two bounds with one value the older one is kept.
ByValueOnly(less, e, f) == IF less THEN e.value < f.value ELSE e.value > f.value

\* Bound_comparer
Better(less, e, f) ==
  \/ less /\ e.value < f.value
  \/ ~less /\ e.value > f.value
  \/ e.value = f.value /\ IsStrict(e.lit) /\ ~IsStrict(f.lit)

\* add_upper_bound, add_lower_bound: only an entry better than the top one
\* is pushed.
Beats(e, stack, less) == stack = << >> \/ Better(less, e, Last(stack))

Push(stack, less, e) == IF Beats(e, stack, less) THEN Append(stack, e) ELSE stack

\* The first entry that disallows a value, as a sequence of at most one.
inequality(r, x) ==
  LET kept == InForce(bounds[r].disallowed, r)
      same == Chosen(kept, {k \in DOMAIN kept : kept[k].value = x})
  IN IF same = << >> THEN << >> ELSE <<Head(same)>>

-----------------------------------------------------------------------------
(* Bounds::update for a literal that is true and only lacks r.  Asking for *)
(* a bound prunes its stack.                                               *)

AddInequality(e, r) ==
  LET kept == InForce(bounds[r].disallowed, r)
      known == \E k \in DOMAIN inequality(r, e.value) : inequality(r, e.value)[k].lit = e.lit
  IN /\ bounds' = [bounds EXCEPT ![r].disallowed = IF known THEN kept ELSE Append(kept, e)]
     /\ changed' = changed \cup {r}

AddBounds(e, r) ==
  LET above == BoundsFromAbove(e.lit, r)
      below == BoundsFromBelow(e.lit, r)
  IN /\ bounds' = [bounds EXCEPT ![r] =
          [ub |-> IF above THEN Push(upper_bound(r), TRUE, e) ELSE @.ub,
           lb |-> IF below THEN Push(lower_bound(r), FALSE, e) ELSE @.lb,
           disallowed |-> @.disallowed]]
     /\ changed' = IF \/ above /\ Beats(e, upper_bound(r), TRUE)
                      \/ below /\ Beats(e, lower_bound(r), FALSE)
                     THEN changed \cup {r} ELSE changed

update(lit, r) ==
  IF IsInequality(lit) THEN AddInequality(Implied(lit, r), r)
                       ELSE AddBounds(Implied(lit, r), r)

-----------------------------------------------------------------------------
(* is_allowed.                                                             *)

AboveLower(r, x) ==
  lower_bound(r) # << >> => LET lb == Last(lower_bound(r)) IN
    lb.value < x \/ (lb.value = x /\ ~IsStrict(lb.lit))

BelowUpper(r, x) ==
  upper_bound(r) # << >> => LET ub == Last(upper_bound(r)) IN
    x < ub.value \/ (x = ub.value /\ ~IsStrict(ub.lit))

is_allowed(r, x) ==
  /\ \A e \in ToSet(bounds[r].disallowed) : e.value = x => IsObsolete(e, r)
  /\ AboveLower(r, x)
  /\ BelowUpper(r, x)

\* The stacks of r once its bounds and disallowed values have been asked for.
AskAll(r) ==
  bounds' = [bounds EXCEPT ![r] =
    [ub |-> upper_bound(r), lb |-> lower_bound(r),
     disallowed |-> InForce(bounds[r].disallowed, r)]]

BoundsInit ==
  /\ stamp = [v \in Vars |-> -1]
  /\ clock = [bool |-> 0, real |-> 0]
  /\ bounds = [r \in RealVars |-> [ub |-> << >>, lb |-> << >>, disallowed |-> << >>]]
  /\ changed = {}
=============================================================================
