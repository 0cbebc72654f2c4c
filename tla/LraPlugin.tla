----------------------------- MODULE LraPlugin -----------------------------
(***************************************************************************)
(* The linear arithmetic plugin itself (src/lra/Linear_arithmetic.cpp,     *)
(* src/lra/Lra_conflict_analysis.cpp) with concrete constraints: watched   *)
(* variables, bounds, conflicts, derived constraints and semantic          *)
(* propagation.  What surrounds it, boolean propagation, conflict analysis *)
(* and the variable order, is any behaviour the solving loop allows.       *)
(*                                                                         *)
(* Default options: no deduced bounds, no propagation of unassigned        *)
(* constraints, all conflicts of a round are returned.                     *)
(***************************************************************************)
EXTENDS Bounds

CONSTANTS
  RealValues,  \* values a rational variable may be decided to
  Inputs,      \* sequences of constraints the plugin may start with
  MaxAtoms,    \* bound on the number of constraints
  MaxTime      \* [bool, real]: bound on the number of assignments, by the
               \* number of rational variables of the input

\* Constraints as the repository has them, in normal form.
Given ==
  {c \in [coef : UNION {[D -> {1, -1}] : D \in (SUBSET RealVars) \ {{}}},
          pred : {"eq", "lt", "leq"}, rhs : Int] : Leading(c.coef) = 1}

\* No constraint is in the repository twice.
Different(cs) == \A a, b \in DOMAIN cs : cs[a] = cs[b] => a = b

ASSUME PluginAssumption ==
  /\ \A cs \in Inputs : cs \in Seq(Given) /\ Len(cs) <= MaxAtoms /\ Different(cs)
  /\ MaxAtoms \in Nat \ {0}
  /\ RealVars \cap 1..MaxAtoms = {}
  /\ Vars = RealVars \cup 1..MaxAtoms
  /\ RealValues \subseteq Int
  /\ MaxTime \in [1..Cardinality(RealVars) -> [bool : Nat, real : Nat]]
  /\ Values = RealValues \cup {Truth(FALSE), Truth(TRUE)}

VARIABLES
  pc,        \* where the solving loop is
  order,     \* constraint -> its variables, the two watched ones first
  watched,   \* rational variable -> list of [atom, index]
  seen,      \* variables assigned since the last visit, still to be looked at
  walk,      \* position in the watch list of the first of them, or 0
  conflicts, \* clauses found in this round, as sets of literals
  blame      \* [lits, polys]: the conflict clause that is being built

watchVars == <<order, watched>>
walkVars == <<seen, walk>>
conflictVars == <<conflicts, blame>>

vars == <<trailVars, cursor, constraints, boundVars, pc, watchVars, walkVars,
          conflictVars>>

NoBlame == [lits |-> {}, polys |-> << >>]

\* The rational variables of the input.
InUse == UNION {VarsOf(a) : a \in DOMAIN constraints}

Limit == MaxTime[Cardinality(InUse)]

\* The literal of a defined atom that is true.
TrueLit(a) == IF True(a) THEN a ELSE -a

-----------------------------------------------------------------------------
(* Watched variables.                                                      *)

\* The variables of the constraints of the input, by their ordinals.
Orders(cs) ==
  LET Sorted(a) == SortedBy(DOMAIN cs[a].coef, <)
  IN {vss \in [DOMAIN cs -> UNION {Sorted(a) : a \in DOMAIN cs}] :
        \A a \in DOMAIN cs : vss[a] \in Sorted(a)}

FirstIndex(vs) == IF Len(vs) > 2 THEN 3 ELSE Len(vs)

\* The watches of r for constraints whose variables are listed in vss: a
\* constraint is in the lists of its first two variables.
WatchesOf(r, vss) ==
  LET mine == Chosen([a \in DOMAIN vss |-> a],
                     {a \in DOMAIN vss : \E k \in DOMAIN vss[a] : k <= 2 /\ vss[a][k] = r})
  IN [k \in DOMAIN mine |-> [atom |-> mine[k], index |-> FirstIndex(vss[mine[k]])]]

\* watch, for a constraint appended to the repository.
Watch(a, vs) ==
  /\ order' = Append(order, vs)
  /\ watched' = [r \in RealVars |->
       IF r \in {vs[1], vs[Min({2, Len(vs)})]}
         THEN Append(watched[r], [atom |-> a, index |-> FirstIndex(vs)])
         ELSE watched[r]]

\* Only the watched positions are read; that has to be enough.
is_unit(a) ==
  /\ ~is_defined(order[a][1])
  /\ Len(order[a]) = 1 \/ is_defined(order[a][2])

walking == pc = "read" /\ walk > 0

Walked == Head(seen)

EndOfWalk == walking /\ walk > Len(watched[Walked])

AtWatch == walking /\ walk <= Len(watched[Walked])

TheWatch == watched[Walked][walk]

\* The assigned variable of the visited constraint is moved to position 2
\* unless both watched variables are assigned.
Reordered(a) ==
  LET vs == order[a] IN
  IF Len(vs) > 1 /\ vs[1] = Walked /\ ~is_defined(vs[2])
    THEN [vs EXCEPT ![1] = vs[2], ![2] = vs[1]] ELSE vs

\* Positions that may be watched instead.
Free(vs) == {p \in 3..Len(vs) : ~is_defined(vs[p])}

\* The first one in a circular search from position index.
NextFree(vs, index) ==
  CHOOSE p \in Free(vs) :
    \A q \in Free(vs) : (p - index) % (Len(vs) - 2) <= (q - index) % (Len(vs) - 2)

Replaceable ==
  /\ ~is_defined(Reordered(TheWatch.atom)[1])
  /\ Free(Reordered(TheWatch.atom)) # {}

-----------------------------------------------------------------------------
(* Linear_arithmetic::propagate.                                           *)

\* Every boolean variable of this module is a constraint; others are skipped.
StartPropagate ==
  /\ pc \in {"bcp", "theory"}
  /\ seen' = [k \in DOMAIN Unseen |-> Unseen[k].var]
  /\ cursor' = SeenAll
  /\ walk' = 0
  /\ pc' = "read"
  /\ UNCHANGED <<trailVars, constraints, boundVars, watchVars, conflictVars>>

\* A new boolean assignment: a constraint that is unit gives a bound.
SeeAtom ==
  /\ pc = "read"
  /\ seen # << >>
  /\ Head(seen) \notin RealVars
  /\ LET a == Head(seen) IN
       IF is_unit(a) THEN update(TrueLit(a), order[a][1]) ELSE UNCHANGED <<bounds, changed>>
  /\ seen' = Tail(seen)
  /\ UNCHANGED <<trailVars, cursor, constraints, stamp, clock, pc, watchVars, walk,
                 conflictVars>>

\* A new value of a rational variable: walk its watch list.
SeeReal ==
  /\ pc = "read"
  /\ seen # << >>
  /\ Walked \in RealVars
  /\ walk = 0
  /\ walk' = 1
  /\ UNCHANGED <<trailVars, cursor, constraints, boundVars, pc, watchVars, seen, conflictVars>>

WalkDone ==
  /\ EndOfWalk
  /\ seen' = Tail(seen)
  /\ walk' = 0
  /\ UNCHANGED <<trailVars, cursor, constraints, boundVars, pc, watchVars, conflictVars>>

\* Another variable is watched; the last watch of the list fills the gap.
MoveWatch ==
  /\ AtWatch
  /\ Replaceable
  /\ LET a == TheWatch.atom
         vs == Reordered(a)
         p == NextFree(vs, TheWatch.index)
         added == [watched EXCEPT ![vs[p]] = Append(@, [atom |-> a, index |-> p])] IN
       /\ order' = [order EXCEPT ![a] = [vs EXCEPT ![2] = vs[p], ![p] = vs[2]]]
       /\ watched' = [added EXCEPT
            ![Walked] = Front([@ EXCEPT ![walk] = Last(watched[Walked])])]
  /\ UNCHANGED <<trailVars, cursor, constraints, boundVars, pc, walkVars, conflictVars>>

\* The constraint lacks one variable: a bound, if the constraint has a value.
VisitUnit ==
  /\ AtWatch
  /\ ~Replaceable
  /\ LET a == TheWatch.atom
         vs == Reordered(a) IN
       /\ ~is_defined(vs[1])
       /\ order' = [order EXCEPT ![a] = vs]
       /\ IF is_defined(a) THEN update(TrueLit(a), vs[1]) ELSE UNCHANGED <<bounds, changed>>
  /\ walk' = walk + 1
  /\ UNCHANGED <<trailVars, cursor, constraints, stamp, clock, pc, watched, seen, conflictVars>>

\* Variation: a constraint is propagated at the current level.
TopLevelOf(rs) == decision_level

\* The level at which the last of some variables was assigned.
LevelOf(rs) == Max({var_level[r] : r \in rs})

\* A constraint whose variables are assigned becomes true or false where they
\* are.
PropagateConstraint(a, c) ==
  /\ Propagate(a, Truth(Satisfied(c, model)), NoReason, LevelOf(DOMAIN c.coef))
  /\ Stamp(a)

\* All variables have values: the constraint gets its own, if it has none.
VisitAssigned ==
  /\ AtWatch
  /\ ~Replaceable
  /\ LET a == TheWatch.atom IN
       /\ is_defined(Reordered(a)[1])
       /\ IF is_defined(a) THEN UNCHANGED <<trailVars, stamp, clock>> 
                          ELSE PropagateConstraint(a, constraints[a])
  /\ walk' = walk + 1
  /\ UNCHANGED <<cursor, constraints, bounds, changed, pc, watchVars, seen, conflictVars>>

ReadDone ==
  /\ pc = "read"
  /\ seen = << >>
  /\ pc' = "check"
  /\ UNCHANGED <<trailVars, cursor, constraints, boundVars, watchVars, walkVars, conflictVars>>

-----------------------------------------------------------------------------
(* Linear_arithmetic::finish: every variable whose bounds have changed is  *)
(* checked, in the order of their ordinals.                                *)

checking == pc = "check" /\ blame = NoBlame

Checked == Min(changed)

Lower == Last(lower_bound(Checked))

Upper == Last(upper_bound(Checked))

Bounded == lower_bound(Checked) # << >> /\ upper_bound(Checked) # << >>

\* Variation: bounds with one value never conflict.
CrossOnly == Bounded /\ Upper.value < Lower.value

BoundConflict ==
  /\ Bounded
  /\ \/ Upper.value < Lower.value
     \/ Upper.value = Lower.value /\ (IsStrict(Lower.lit) \/ IsStrict(Upper.lit))

InequalityConflict ==
  /\ Bounded
  /\ Upper.value = Lower.value
  /\ ~IsStrict(Lower.lit) /\ ~IsStrict(Upper.lit)
  /\ inequality(Checked, Lower.value) # << >>

\* Asking for the bounds prunes them; the disallowed values are looked at
\* only where the bounds meet.
AskBounds ==
  bounds' = [bounds EXCEPT ![Checked] =
    [ub |-> upper_bound(Checked), lb |-> lower_bound(Checked),
     disallowed |-> IF Bounded /\ ~BoundConflict /\ Upper.value = Lower.value
                      THEN InForce(@.disallowed, Checked) ELSE @.disallowed]]

\* L <= x <= U with U < L: eliminate x.
BoundBlame ==
  [lits |-> {-Lower.lit, -Upper.lit},
   polys |-> <<Resolve(PolyOf(Lower.lit), PolyOf(Upper.lit), Checked)>>]

\* L <= x <= U, x # D and L = D = U: either L < D or D < U.  The inequality
\* is read as x < D for one bound and as D < x for the other.
InequalityBlame ==
  LET neq == inequality(Checked, Lower.value)[1].lit
      mult == Constraint(neq).coef[Checked]
  IN [lits |-> {-neq, -Lower.lit, -Upper.lit},
      polys |-> <<Resolve(PolyOf(Lower.lit), Poly(neq, "lt", mult), Checked),
                  Resolve(PolyOf(Upper.lit), Poly(neq, "lt", -mult), Checked)>>]

CheckBounds ==
  /\ checking
  /\ changed # {}
  /\ AskBounds
  /\ blame' = IF BoundConflict THEN BoundBlame
              ELSE IF InequalityConflict THEN InequalityBlame ELSE NoBlame
  /\ changed' = changed \ {Checked}
  /\ UNCHANGED <<trailVars, cursor, constraints, stamp, clock, pc, watchVars, walkVars,
                 conflicts>>

explaining == pc = "check" /\ blame.polys # << >>

\* The constraint without variables that is left when all cancel out.
Trivial(p) == DOMAIN p.coef = {}

DropTrivial ==
  /\ explaining
  /\ Trivial(Head(blame.polys))
  /\ blame' = [blame EXCEPT !.polys = Tail(@)]
  /\ UNCHANGED <<trailVars, cursor, constraints, boundVars, pc, watchVars, walkVars,
                 conflicts>>

\* Variation: the variables are ordered by their ordinals.
ByOrdinal(r, s) == r < s

LaterFirst(r, s) == var_level[r] > var_level[s]

\* Fm_elimination::finish: the derived constraint is created with the
\* variables assigned last in front, and propagated where they are assigned.
Derive ==
  /\ explaining
  /\ ~Trivial(Head(blame.polys))
  /\ LET p == Head(blame.polys)
         a == AtomFor(p) IN
       /\ a <= MaxAtoms /\ Representable(p)
       /\ Make(p)
       /\ IF IsNew(p) THEN \E vs \in SortedBy(DOMAIN p.coef, LaterFirst) : Watch(a, vs)
                      ELSE UNCHANGED watchVars
       /\ IF is_defined(a)
            THEN UNCHANGED <<trailVars, stamp, clock>>
            ELSE PropagateConstraint(a, Normalized(p))
       /\ blame' = [lits |-> blame.lits \cup {LiteralFor(p)}, polys |-> Tail(blame.polys)]
  /\ UNCHANGED <<cursor, bounds, changed, pc, walkVars, conflicts>>

Report ==
  /\ pc = "check"
  /\ blame # NoBlame /\ blame.polys = << >>
  /\ conflicts' = Append(conflicts, blame.lits)
  /\ blame' = NoBlame
  /\ UNCHANGED <<trailVars, cursor, constraints, boundVars, pc, watchVars, walkVars>>

\* A round that has put something on the trail is followed by another one.
CheckDone ==
  /\ checking
  /\ changed = {}
  /\ pc' = IF conflicts # << >> THEN "conflict"
           ELSE IF Unseen # << >> THEN "bcp" ELSE "decide"
  /\ UNCHANGED <<trailVars, cursor, constraints, boundVars, watchVars, walkVars,
                 conflictVars>>
PluginStep ==
  \/ StartPropagate \/ SeeAtom \/ SeeReal \/ WalkDone
  \/ MoveWatch \/ VisitUnit \/ VisitAssigned \/ ReadDone
  \/ CheckBounds \/ DropTrivial \/ Derive \/ Report \/ CheckDone

-----------------------------------------------------------------------------
(* Linear_arithmetic::decide: the value comes from a cache or a search;    *)
(* in any case it is an allowed one.  The search never changes anything;   *)
(* that it ends, and where, is DecideFindsValue.                           *)

\* check_around_zero: 0, 1, -1, 2, -2 and so on, up to length.
AroundZero(length) ==
  [k \in 1..(2 * length + 2) |-> IF k % 2 = 1 THEN k \div 2 ELSE 1 - k \div 2]

\* The loops without a last value, and a number of turns that is certain to
\* reach an allowed one: all disallowed values and a strict bound.
Turns(r) == Len(bounds[r].disallowed) + 2

Counting(first, step, turns) == [k \in 1..turns |-> first + step * (k - 1)]

AbsOf(x) == IF x < 0 THEN -x ELSE x

\* The integers find_integer asks about, in its order.
Tried(r) ==
  LET lb == lower_bound(r)
      ub == upper_bound(r)
      low == Last(lb).value
      high == Last(ub).value
  IN CASE lb = << >> /\ ub = << >> -> AroundZero(Turns(r))
       [] lb = << >> /\ ub # << >> -> AroundZero(high) \o Counting(-AbsOf(high), -1, Turns(r))
       [] lb # << >> /\ ub = << >> -> AroundZero(-low) \o Counting(AbsOf(low), 1, Turns(r))
       [] OTHER -> IF low >= 0 THEN Counting(low, 1, high - low + 1)
                   ELSE IF high <= 0 THEN Counting(high, -1, high - low + 1)
                   ELSE AroundZero(IF high > -low THEN high ELSE -low)

\* The first allowed one, as a sequence of at most one.
FindInteger(r) ==
  LET tried == Tried(r)
      allowed == {k \in DOMAIN tried : is_allowed(r, tried[k])}
  IN IF allowed = {} THEN << >> ELSE <<tried[Min(allowed)]>>

DecideReal ==
  /\ pc = "decide"
  /\ clock.real < Limit.real
  /\ \E r \in InUse, x \in RealValues :
       /\ ~is_defined(r) /\ is_allowed(r, x)
       /\ Decide(r, x)
       /\ Stamp(r)
       /\ AskAll(r)
  /\ pc' = "theory"
  /\ UNCHANGED <<cursor, constraints, changed, watchVars, walkVars, conflictVars>>

-----------------------------------------------------------------------------
(* The solving loop around the plugin.  Clauses are not modelled: boolean  *)
(* propagation assigns any constraint, analysis backtracks to any lower    *)
(* level and has a literal propagated or decided there.  A new value of a  *)
(* rational variable gives boolean propagation nothing to do.              *)

LoopUnchanged ==
  UNCHANGED <<constraints, bounds, changed, watchVars, walkVars, blame>>

DecideAtom ==
  /\ pc \in {"decide", "learn"}
  /\ clock.bool < Limit.bool
  /\ \E a \in DOMAIN constraints, b \in BOOLEAN :
       ~is_defined(a) /\ Decide(a, Truth(b)) /\ Stamp(a)
  /\ pc' = "bcp"
  /\ LoopUnchanged /\ UNCHANGED <<cursor, conflicts>>

BcpAssign ==
  /\ pc \in {"bcp", "learn"}
  /\ clock.bool < Limit.bool
  /\ \E a \in DOMAIN constraints, b \in BOOLEAN, c \in Reasons :
       ~is_defined(a) /\ Propagate(a, Truth(b), c, decision_level) /\ Stamp(a)
  /\ pc' = "bcp"
  /\ LoopUnchanged /\ UNCHANGED <<cursor, conflicts>>

BcpConflict ==
  /\ pc = "bcp"
  /\ pc' = "conflict"
  /\ LoopUnchanged /\ UNCHANGED <<trailVars, stamp, clock, cursor, conflicts>>

BacktrackToLevel ==
  /\ pc = "conflict"
  /\ \E l \in 0..(decision_level - 1) : Backtrack(l)
  /\ cursor' = ResetCursor
  /\ conflicts' = << >>
  /\ pc' = "learn"
  /\ LoopUnchanged /\ UNCHANGED <<stamp, clock>>

Restart ==
  /\ pc = "conflict"
  /\ decision_level > 0
  /\ Clear
  /\ cursor' = ResetCursor
  /\ conflicts' = << >>
  /\ pc' = "bcp"
  /\ LoopUnchanged /\ UNCHANGED <<stamp, clock>>

-----------------------------------------------------------------------------
Init ==
  /\ TrailInit
  /\ cursor = [level |-> 0, next |-> 0]
  /\ constraints \in Inputs
  /\ order \in Orders(constraints)
  /\ watched = [r \in RealVars |-> WatchesOf(r, order)]
  /\ BoundsInit
  /\ pc = "bcp"
  /\ seen = << >>
  /\ walk = 0
  /\ conflicts = << >>
  /\ blame = NoBlame

Next ==
  \/ PluginStep
  \/ DecideReal \/ DecideAtom
  \/ BcpAssign \/ BcpConflict \/ BacktrackToLevel \/ Restart

Spec == Init /\ [][Next]_vars
-----------------------------------------------------------------------------
(* Properties.                                                             *)

Implieds ==
  [value : Int, lit : {lit \in -MaxAtoms..MaxAtoms : lit # 0}, cons_time : Nat, var_time : Nat]

\* Types of the plugin's state; the coefficients are 1 and -1, and constraints
\* are in normal form and all different.
LraTypeOK ==
  /\ Different(constraints)
  /\ pc \in {"bcp", "theory", "read", "check", "decide", "conflict", "learn"}
  /\ \A a \in DOMAIN constraints :
       LET c == constraints[a] IN
       /\ DOMAIN c.coef \in (SUBSET RealVars) \ {{}}
       /\ c.coef \in [DOMAIN c.coef -> {1, -1}] /\ Leading(c.coef) = 1
       /\ c.pred \in {"eq", "lt", "leq"} /\ c.rhs \in Int
       /\ ToSet(order[a]) = DOMAIN c.coef
  /\ \A r \in RealVars :
       /\ \A list \in {bounds[r].ub, bounds[r].lb, bounds[r].disallowed} :
            list \in Seq(Implieds)
       /\ \A k \in DOMAIN watched[r] :
            LET w == watched[r][k] IN
            w.atom \in DOMAIN constraints /\ w.index \in DOMAIN order[w.atom]
  /\ changed \subseteq RealVars
  /\ Len(order) = Len(constraints)

\* Between two rounds the first two positions tell how much of a constraint
\* is assigned, and the variables there have it in their watch lists (the
\* assertions of check_watch_consistency).
quiet == pc \in {"bcp", "decide", "conflict", "learn"}

WatchConsistency ==
  quiet =>
    \A a \in DOMAIN constraints :
      LET vs == order[a] IN
      /\ is_defined(vs[1]) => \A p \in DOMAIN vs : is_defined(vs[p])
      /\ Len(vs) > 1 /\ is_defined(vs[2]) =>
           \A p \in 3..Len(vs) : is_defined(vs[p])
      /\ \A p \in DOMAIN vs : p <= 2 =>
           \E k \in DOMAIN watched[vs[p]] : watched[vs[p]][k].atom = a

\* What holds of the constraints and their watches at every step.
LraInv == LraTypeOK /\ WatchConsistency

\* A constraint whose variables all have values has the value they give it,
\* at a level no higher than the highest of theirs: boolean propagation is
\* never asked to guess what is known, and a backtrack that keeps the
\* variables keeps the constraint.
SemanticPropagation ==
  quiet =>
    \A a \in DOMAIN constraints :
      (\A r \in VarsOf(a) : is_defined(r)) =>
        /\ is_defined(a)
        /\ True(a) = HoldsIn(a, model)
        /\ \E r \in VarsOf(a) : var_level[a] <= var_level[r]

\* The true constraints that lack r only.
UnitsOf(r) ==
  {lit \in {TrueLit(a) : a \in {a \in DOMAIN constraints : is_defined(a)}} :
     {s \in VarsOf(lit) : ~is_defined(s)} = {r}}

ValueFor(lit, r) == ImpliedValue(lit, r, model)

\* At a fixpoint the bound found on top of a stack is the tightest one that
\* any true constraint implies, strictness included, and the disallowed
\* values are those of the true disequalities; what the stacks hold below or
\* above that is left over (check_bounds_consistency, which compares values
\* only).
BoundsAreBest ==
  pc = "decide" =>
    \A r \in {r \in RealVars : ~is_defined(r)} :
      LET above == {lit \in UnitsOf(r) : BoundsFromAbove(lit, r)}
          below == {lit \in UnitsOf(r) : BoundsFromBelow(lit, r)}
          ub == upper_bound(r)
          lb == lower_bound(r)
      IN /\ ub = << >> <=> above = {}
         /\ lb = << >> <=> below = {}
         /\ \A lit \in above :
              /\ Last(ub).value <= ValueFor(lit, r)
              /\ Last(ub).value = ValueFor(lit, r) /\ IsStrict(lit) => IsStrict(Last(ub).lit)
         /\ \A lit \in below :
              /\ Last(lb).value >= ValueFor(lit, r)
              /\ Last(lb).value = ValueFor(lit, r) /\ IsStrict(lit) => IsStrict(Last(lb).lit)
         /\ {e.value : e \in ToSet(InForce(bounds[r].disallowed, r))} =
              {ValueFor(lit, r) : lit \in {l \in UnitsOf(r) : IsInequality(l)}}

\* At a fixpoint decide() finds a value for every rational variable: the
\* allowed integer closest to zero if there is an allowed integer, and
\* otherwise there is room between the two bounds, so that halving the
\* distance to the lower one passes all disallowed values.
DecideFindsValue ==
  pc = "decide" =>
    \A r \in {r \in RealVars : ~is_defined(r)} :
      LET found == FindInteger(r)
          lb == lower_bound(r)
          ub == upper_bound(r)
          closer == AbsOf(Head(found)) - 1
      IN IF found # << >>
           THEN \A x \in -closer..closer : ~is_allowed(r, x)
           ELSE /\ lb # << >> /\ ub # << >> /\ Last(lb).value < Last(ub).value
                /\ \A x \in Last(lb).value..Last(ub).value : ~is_allowed(r, x)

\* What is obsolete stays so: a stack may be cut at its top alone, and an
\* entry taken off is never missed.
Entries(r) == UNION {ToSet(bounds[r].ub), ToSet(bounds[r].lb), ToSet(bounds[r].disallowed)}

ObsoleteForGood ==
  [][\A r \in RealVars : \A e \in Entries(r) : IsObsolete(e, r) => IsObsolete(e, r)']_vars

\* In a stack the entries in force lie below the obsolete ones, each tighter
\* than the one below it.
StacksAreNested ==
  \A r \in RealVars : ~is_defined(r) =>
    \A less \in BOOLEAN :
      LET stack == IF less THEN bounds[r].ub ELSE bounds[r].lb
          live == {k \in DOMAIN stack : ~IsObsolete(stack[k], r)}
      IN \A k \in live \ {1} : k - 1 \in live /\ Better(less, stack[k], stack[k - 1])

\* Values of the rational variables.
Grid == -2..2

\* A reported conflict is false and holds whatever the variables are: the
\* literals of the constraints it blames exclude each other, the derived ones
\* included, and it has two literals at least.
ConflictsAreLemmas ==
  \A k \in DOMAIN conflicts :
    /\ Cardinality(conflicts[k]) >= 2
    /\ \A lit \in conflicts[k] : is_defined(AtomOf(lit)) /\ ~True(lit)
    /\ \A rho \in [UNION {VarsOf(lit) : lit \in conflicts[k]} -> Grid] :
         \E lit \in conflicts[k] : HoldsIn(lit, rho)
=============================================================================
