-------------------------- MODULE LraPluginProofs --------------------------
(***************************************************************************)
(* Proofs about the linear arithmetic plugin, for any rational variables,  *)
(* any input and any behaviour of the solving loop around it: an obsolete  *)
(* bound stays obsolete (ObsoleteForGood), the stacks of bounds stay       *)
(* nested (StacksAreNested), constraints stay in normal form and watched   *)
(* by the variables that tell how much of them is assigned (LraInv), a     *)
(* constraint with all its variables assigned has the right value          *)
(* (SemanticPropagation), and the bounds that are read when a value is     *)
(* decided are the tightest ones (BoundsAreBest).                          *)
(***************************************************************************)
EXTENDS LraPlugin, CommonLemmas, FiniteSetTheorems

-----------------------------------------------------------------------------
(* The least and the greatest of some numbers.                             *)

LEMMA MinExists ==
  ASSUME NEW S \in SUBSET Nat, S # {}
  PROVE  Min(S) \in S
<1>1. PICK x \in S : \A y \in S : x <= y BY LeastNatural
<1>2. QED BY <1>1 DEF Min

\* The greatest element is the one closest to an upper bound.
LEMMA MaxExists ==
  ASSUME NEW S \in SUBSET Int, S # {}, NEW b \in Int, \A x \in S : x <= b
  PROVE  Max(S) \in S
<1> DEFINE T == {b - x : x \in S}
<1>1. T \in SUBSET Nat /\ T # {}
  <2>1. ASSUME NEW x \in S
        PROVE  b - x \in Nat
    <3>1. x \in Int /\ x <= b OBVIOUS
    <3>2. QED BY <3>1
  <2>2. QED BY <2>1
<1>2. PICK d \in T : \A y \in T : d <= y BY <1>1, LeastNatural
<1>3. PICK m \in S : d = b - m BY <1>2
<1>4. \A x \in S : m >= x
  <2>1. TAKE x \in S
  <2>2. b - x \in T OBVIOUS
  <2>3. d <= b - x BY <1>2, <2>2
  <2>4. QED BY <1>3, <2>3
<1>5. QED BY <1>3, <1>4 DEF Max

\* What remove_obsolete leaves of a stack was in it.
LEMMA PrunedElements ==
  ASSUME NEW E, NEW stack \in Seq(E), NEW r
  PROVE  /\ Pruned(stack, r) \in Seq(E)
         /\ ToSet(Pruned(stack, r)) \subseteq ToSet(stack)
<1> DEFINE S == {0} \cup {k \in DOMAIN stack : ~IsObsolete(stack[k], r)}
<1>1. S \in SUBSET Int /\ S # {} /\ Len(stack) \in Int /\ \A x \in S : x <= Len(stack)
  OBVIOUS
<1>2. Max(S) \in S BY <1>1, MaxExists
<1>3. Max(S) \in 0..Len(stack) BY <1>2
<1> HIDE DEF S
<1>4. Pruned(stack, r) = SubSeq(stack, 1, Max(S)) BY DEF Pruned, S
<1>5. /\ SubSeq(stack, 1, Max(S)) \in Seq(E)
      /\ Len(SubSeq(stack, 1, Max(S))) = Max(S)
      /\ \A k \in 1..Max(S) : SubSeq(stack, 1, Max(S))[k] = stack[k]
  BY <1>3
<1>6. QED BY <1>3, <1>4, <1>5 DEF ToSet

\* So was what remove_all_obsolete leaves of a list.
LEMMA InForceElements ==
  ASSUME NEW E, NEW list \in Seq(E), NEW r
  PROVE  /\ InForce(list, r) \in Seq(E)
         /\ ToSet(InForce(list, r)) \subseteq ToSet(list)
<1> DEFINE keep == {k \in DOMAIN list : ~IsObsolete(list[k], r)}
<1>1. InForce(list, r) = Chosen(list, keep) BY DEF InForce
<1> HIDE DEF keep
<1>2. /\ Chosen(list, keep) \in Seq(E)
      /\ \A k \in 1..Len(Chosen(list, keep)) :
           \E i \in 1..Len(list) : i \in keep /\ Chosen(list, keep)[k] = list[i]
  BY ChosenElements
<1>3. QED BY <1>1, <1>2 DEF ToSet

\* A list with every element of a set once is a list of that set.
LEMMA BijectionIsList ==
  ASSUME NEW S, IsFiniteSet(S), NEW s \in Bijection(1..Cardinality(S), S)
  PROVE  s \in Seq(S) /\ Range(s) = S
<1>1. Cardinality(S) \in Nat BY FS_CardinalityType
<1>2. s \in [1..Cardinality(S) -> S] /\ \A x \in S : \E k \in 1..Cardinality(S) : s[k] = x
  BY DEF Bijection, Injection, Surjection
<1>3. s \in Seq(S) BY <1>1, <1>2, FunctionIsSeq
<1>4. QED BY <1>2, <1>3 DEF Range

-----------------------------------------------------------------------------
(* The invariant.  Everything but EntriesDated and TimesOK is there to     *)
(* name the variables and constraints these two are about.                 *)

Known == RealVars \cup DOMAIN constraints

ConstraintsKnown ==
  /\ \E C : constraints \in Seq(C)
  /\ Len(constraints) <= MaxAtoms
  /\ \A a \in DOMAIN constraints : DOMAIN constraints[a].coef \in (SUBSET RealVars) \ {{}}

OrderKnown ==
  /\ order \in Seq(Seq(RealVars))
  /\ Len(order) = Len(constraints)
  /\ \A a \in DOMAIN order : Range(order[a]) = DOMAIN constraints[a].coef

WatchedKnown ==
  watched \in [RealVars -> Seq([atom : DOMAIN constraints, index : Int])]

TrailKnown ==
  /\ trail \in Seq(Seq([var : Known, reason : Reasons \cup {NoReason}]))
  /\ Len(trail) >= 1
  /\ model \in [Vars -> Values \cup {Undef}]
  /\ cursor \in [level : Int, next : Nat]

WalkKnown ==
  /\ walk \in Nat
  /\ seen \in Seq(Known)
  /\ walk > 0 => seen # << >> /\ Head(seen) \in RealVars

BlameKnown ==
  /\ \E P : \E L : blame \in [lits : L, polys : Seq(P)]
  /\ \A k \in DOMAIN blame.polys : DOMAIN blame.polys[k].coef \subseteq RealVars

\* Every assignment is older than the clock of its model.
TimesOK ==
  /\ clock \in [bool : Nat, real : Nat]
  /\ stamp \in [Vars -> Int]
  /\ \A v \in Vars : stamp[v] < clock[ModelOf(v)]

\* Before the first decision of a rational variable there is none on the
\* trail, so that the time of an entry computed from other variables is one.
RealsNeedTime ==
  clock.real = 0 =>
    /\ \A r \in RealVars : ~is_defined(r)
    /\ \A l \in DOMAIN trail : \A k \in DOMAIN trail[l] : trail[l][k].var \notin RealVars
    /\ \A k \in DOMAIN seen : seen[k] \notin RealVars

Dated(e, r) ==
  /\ AtomOf(e.lit) \in DOMAIN constraints
  /\ e.cons_time \in Int /\ e.cons_time < clock.bool
  /\ Others(e.lit, r) # {} => e.var_time \in Int /\ e.var_time < clock.real

BoundsKnown ==
  /\ \E E : bounds \in [RealVars -> [ub : Seq(E), lb : Seq(E), disallowed : Seq(E)]]
  /\ changed \in SUBSET RealVars

\* Whatever is assigned from now on is newer than any entry of the stacks.
EntriesDated == \A r \in RealVars : \A e \in Entries(r) : Dated(e, r)

PluginInv ==
  /\ ConstraintsKnown /\ OrderKnown /\ WatchedKnown
  /\ TrailKnown /\ WalkKnown /\ BlameKnown
  /\ TimesOK /\ RealsNeedTime
  /\ BoundsKnown /\ EntriesDated

-----------------------------------------------------------------------------
(* What a step does to time.                                               *)

Forgets ==
  /\ UNCHANGED <<stamp, clock>>
  /\ \A v \in Vars : model'[v] \in {model[v], Undef}

Assigns(v) ==
  /\ Stamp(v)
  /\ \A u \in Vars \ {v} : model'[u] = model[u]

\* A step takes values away or stamps the variable that gets one.
TimeStep == Forgets \/ \E v \in Vars : Assigns(v)

\* Constraints are only added.
Kept ==
  \A a \in DOMAIN constraints : a \in DOMAIN constraints' /\ constraints'[a] = constraints[a]

\* Constraints and rational variables are different variables.
LEMMA KnownVars ==
  ASSUME ConstraintsKnown
  PROVE  /\ DOMAIN constraints = 1..Len(constraints) /\ Len(constraints) \in Nat
         /\ Known \subseteq Vars
         /\ \A a \in DOMAIN constraints : a \in Nat \ {0} /\ a \notin RealVars /\ a \in 1..MaxAtoms
         /\ \A a \in DOMAIN constraints : AtomOf(a) = a /\ AtomOf(-a) = a
<1>1. PICK C : constraints \in Seq(C) BY DEF ConstraintsKnown
<1>2. Len(constraints) <= MaxAtoms BY DEF ConstraintsKnown
<1>3. DOMAIN constraints = 1..Len(constraints) /\ Len(constraints) \in Nat
  BY <1>1
<1>4. DOMAIN constraints \subseteq 1..MaxAtoms
  BY <1>2, <1>3, PluginAssumption
<1>5. QED BY <1>3, <1>4, PluginAssumption DEF Known, AtomOf

\* The clocks move past the time of the new assignment.
LEMMA TimesStay ==
  ASSUME TimesOK, TimeStep
  PROVE  TimesOK' /\ clock'.bool >= clock.bool /\ clock'.real >= clock.real
<1>1. CASE Forgets BY <1>1 DEF TimesOK, Forgets, ModelOf
<1>2. ASSUME NEW v \in Vars, Assigns(v)
      PROVE  TimesOK' /\ clock'.bool >= clock.bool /\ clock'.real >= clock.real
  <2>1. /\ stamp' = [stamp EXCEPT ![v] = clock[ModelOf(v)]]
        /\ clock' = [clock EXCEPT ![ModelOf(v)] = @ + 1]
    BY <1>2 DEF Assigns, Stamp
  <2>2. CASE v \in RealVars
    <3>1. ModelOf(v) = "real" BY <2>2 DEF ModelOf
    <3>2. clock' = [clock EXCEPT !["real"] = @ + 1] /\ stamp' = [stamp EXCEPT ![v] = clock["real"]]
      BY <2>1, <3>1
    <3>3. QED BY <3>2, <2>2 DEF TimesOK, ModelOf
  <2>3. CASE v \notin RealVars
    <3>1. ModelOf(v) = "bool" BY <2>3 DEF ModelOf
    <3>2. clock' = [clock EXCEPT !["bool"] = @ + 1] /\ stamp' = [stamp EXCEPT ![v] = clock["bool"]]
      BY <2>1, <3>1
    <3>3. QED BY <3>2, <2>3 DEF TimesOK, ModelOf
  <2>4. QED BY <2>2, <2>3
<1>3. QED BY <1>1, <1>2 DEF TimeStep

\* An entry is about the constraint and the variables it was made for.
LEMMA OthersStay ==
  ASSUME Kept, NEW e, NEW r, AtomOf(e.lit) \in DOMAIN constraints
  PROVE  Others(e.lit, r)' = Others(e.lit, r)
BY DEF Kept, Others, VarsOf, Constraint

LEMMA DatedStays ==
  ASSUME TimesOK, TimeStep, Kept, NEW e, NEW r, Dated(e, r)
  PROVE  Dated(e, r)'
<1>1. TimesOK' /\ clock'.bool >= clock.bool /\ clock'.real >= clock.real
  BY TimesStay
<1>2. Others(e.lit, r)' = Others(e.lit, r) BY OthersStay DEF Dated
<1>3. QED BY <1>1, <1>2 DEF Dated, Kept, TimesOK

\* The heart of the matter: a constraint or a variable that is assigned again
\* is newer than the entry.
LEMMA ObsoleteStays ==
  ASSUME ConstraintsKnown, TimesOK, TimeStep, Kept, model \in [Vars -> Values \cup {Undef}],
         NEW e, NEW r, Dated(e, r), IsObsolete(e, r)
  PROVE  IsObsolete(e, r)'
<1> DEFINE a == AtomOf(e.lit)
<1>1. a \in DOMAIN constraints /\ a \in Vars /\ a \notin RealVars /\ ModelOf(a) = "bool"
  BY KnownVars DEF Dated, Known, ModelOf
<1>2. Others(e.lit, r)' = Others(e.lit, r) BY OthersStay DEF Dated
<1>3. Others(e.lit, r) \subseteq RealVars
  BY <1>1 DEF ConstraintsKnown, Others, VarsOf, Constraint
<1>4. RealVars \subseteq Vars BY PluginAssumption
<1> HIDE DEF a
<1>5. ASSUME NEW v \in Vars
      PROVE  \/ stamp'[v] = stamp[v] /\ model'[v] \in {model[v], Undef}
             \/ stamp'[v] = clock[ModelOf(v)]
  BY DEF TimeStep, Forgets, Assigns, Stamp, TimesOK
<1>6. CASE ~True(e.lit)
  <2>1. CASE stamp'[a] = clock.bool
    BY <2>1, <1>1 DEF Dated, TimesOK, IsObsolete, a
  <2>2. CASE model'[a] \in {model[a], Undef}
    <3>1. Undef # Truth(e.lit > 0)
      BY UndefAssumption, PluginAssumption DEF Truth
    <3>2. QED BY <1>6, <2>2, <3>1 DEF True, IsObsolete, a
  <2>3. QED BY <1>1, <1>5, <2>1, <2>2
<1>7. CASE stamp[a] > e.cons_time
  <2>1. stamp'[a] > e.cons_time
    BY <1>1, <1>5, <1>7 DEF Dated, TimesOK, a
  <2>2. QED BY <2>1 DEF IsObsolete, a
<1>8. ASSUME NEW s \in Others(e.lit, r), ~is_defined(s) \/ stamp[s] > e.var_time
      PROVE  IsObsolete(e, r)'
  <2>1. s \in Vars /\ ModelOf(s) = "real" BY <1>3, <1>4 DEF ModelOf
  <2>2. e.var_time \in Int /\ e.var_time < clock.real /\ clock.real \in Int
    BY DEF Dated, TimesOK
  <2>3. ~is_defined(s)' \/ stamp'[s] > e.var_time
    BY <1>5, <1>8, <2>1, <2>2 DEF is_defined
  <2>4. QED BY <1>2, <2>3 DEF IsObsolete
<1>9. QED BY <1>6, <1>7, <1>8 DEF IsObsolete, a

-----------------------------------------------------------------------------
(* What a step does to the stacks.                                         *)

\* A new entry has the times of assignments made so far.
LEMMA NewEntryIsDated ==
  ASSUME ConstraintsKnown, TimesOK, NEW lit, NEW r, AtomOf(lit) \in DOMAIN constraints,
         Others(lit, r) # {} => clock.real > 0
  PROVE  Dated(Implied(lit, r), r)
<1> DEFINE e == Implied(lit, r)
           times == {0} \cup {stamp[s] : s \in Others(lit, r)}
<1>1. /\ e.lit = lit
      /\ e.cons_time = stamp[AtomOf(lit)]
      /\ e.var_time = Max(times)
  BY DEF Implied
<1>2. AtomOf(lit) \in Vars /\ ModelOf(AtomOf(lit)) = "bool"
  BY KnownVars DEF Known, ModelOf
<1>3. e.cons_time \in Int /\ e.cons_time < clock.bool
  BY <1>1, <1>2 DEF TimesOK
<1>4. ASSUME Others(lit, r) # {}
      PROVE  e.var_time \in Int /\ e.var_time < clock.real
  <2>1. \A s \in Others(lit, r) : s \in Vars /\ s \in RealVars
    BY PluginAssumption DEF ConstraintsKnown, Others, VarsOf, Constraint
  <2>2. \A s \in Others(lit, r) : stamp[s] \in Int /\ stamp[s] <= clock.real - 1
    BY <2>1 DEF TimesOK, ModelOf
  <2>3. times \in SUBSET Int /\ times # {} /\ clock.real - 1 \in Int
    BY <2>2 DEF TimesOK
  <2>4. \A x \in times : x <= clock.real - 1 BY <1>4, <2>2 DEF TimesOK
  <2> HIDE DEF times
  <2>5. Max(times) \in times BY <2>3, <2>4, MaxExists
  <2> HIDE DEF e
  <2>6. e.var_time \in times BY <1>1, <2>5
  <2>7. e.var_time \in Int /\ e.var_time <= clock.real - 1
    BY <2>3, <2>4, <2>6
  <2>8. clock.real \in Int BY DEF TimesOK
  <2>9. QED BY <2>7, <2>8
<1>5. QED BY <1>1, <1>3, <1>4 DEF Dated

\* What the stacks may have after a step: what they had, and new for r.
OnlyNew(r, new) ==
  /\ BoundsKnown'
  /\ \A s \in RealVars :
       Entries(s)' \subseteq Entries(s) \cup (IF s = r THEN new ELSE {})

LEMMA EntriesStay ==
  ASSUME TimesOK, TimeStep, Kept, EntriesDated, NEW r, NEW new, OnlyNew(r, new),
         \A e \in new : Dated(e, r)
  PROVE  BoundsKnown' /\ EntriesDated'
<1>1. ASSUME NEW s \in RealVars, NEW e, e \in Entries(s)'
      PROVE  Dated(e, s)'
  <2>1. e \in Entries(s) \/ (s = r /\ e \in new) BY <1>1 DEF OnlyNew
  <2>2. Dated(e, s) BY <2>1 DEF EntriesDated
  <2>3. QED BY <2>2, DatedStays
<1>2. QED BY <1>1 DEF EntriesDated, OnlyNew

\* Pushing an entry on a stack, or adding it to a list.
LEMMA PushElements ==
  ASSUME NEW E, NEW stack \in Seq(E), NEW e \in E, NEW less
  PROVE  /\ Push(stack, less, e) \in Seq(E)
         /\ ToSet(Push(stack, less, e)) \subseteq ToSet(stack) \cup {e}
BY DEF Push, ToSet

LEMMA AppendElements ==
  ASSUME NEW E, NEW list \in Seq(E), NEW e \in E
  PROVE  /\ Append(list, e) \in Seq(E)
         /\ ToSet(Append(list, e)) \subseteq ToSet(list) \cup {e}
BY DEF ToSet

\* Replacing the stacks of one variable.
LEMMA ReplaceStacks ==
  ASSUME NEW E, bounds \in [RealVars -> [ub : Seq(E), lb : Seq(E), disallowed : Seq(E)]],
         NEW r \in RealVars, NEW new,
         NEW ub \in Seq(E), NEW lb \in Seq(E), NEW disallowed \in Seq(E),
         ToSet(ub) \subseteq ToSet(bounds[r].ub) \cup new,
         ToSet(lb) \subseteq ToSet(bounds[r].lb) \cup new,
         ToSet(disallowed) \subseteq ToSet(bounds[r].disallowed) \cup new,
         bounds' = [bounds EXCEPT ![r] = [ub |-> ub, lb |-> lb, disallowed |-> disallowed]],
         changed' \in SUBSET RealVars
  PROVE  OnlyNew(r, new)
<1>1. /\ bounds' \in [RealVars -> [ub : Seq(E), lb : Seq(E), disallowed : Seq(E)]]
      /\ bounds'[r] = [ub |-> ub, lb |-> lb, disallowed |-> disallowed]
      /\ \A s \in RealVars \ {r} : bounds'[s] = bounds[s]
  OBVIOUS
<1>2. BoundsKnown' BY <1>1 DEF BoundsKnown
<1>3. ASSUME NEW s \in RealVars, s # r
      PROVE  Entries(s)' = Entries(s)
  BY <1>1, <1>3 DEF Entries
<1>4. Entries(r)' = ToSet(ub) \cup ToSet(lb) \cup ToSet(disallowed)
  BY <1>1 DEF Entries
<1>5. Entries(r) = ToSet(bounds[r].ub) \cup ToSet(bounds[r].lb) \cup ToSet(bounds[r].disallowed)
  BY DEF Entries
<1>6. QED BY <1>2, <1>3, <1>4, <1>5 DEF OnlyNew

\* Bounds::update adds the value that its literal implies, if anything.
LEMMA UpdateAdds ==
  ASSUME BoundsKnown, NEW lit, NEW r \in RealVars, update(lit, r)
  PROVE  OnlyNew(r, {Implied(lit, r)})
<1> DEFINE e == Implied(lit, r)
<1>1. PICK D : bounds \in [RealVars -> [ub : Seq(D), lb : Seq(D), disallowed : Seq(D)]]
  BY DEF BoundsKnown
<1> DEFINE E == D \cup {e}
<1>2. bounds \in [RealVars -> [ub : Seq(E), lb : Seq(E), disallowed : Seq(E)]]
  <2>1. \A s \in Seq(D) : s \in Seq(E) OBVIOUS
  <2> HIDE DEF E
  <2>2. QED BY <1>1, <2>1
<1>3. e \in E OBVIOUS
<1>4. bounds[r].ub \in Seq(E) /\ bounds[r].lb \in Seq(E) /\ bounds[r].disallowed \in Seq(E)
  BY <1>2
<1>5. bounds[r] = [ub |-> bounds[r].ub, lb |-> bounds[r].lb, disallowed |-> bounds[r].disallowed]
  BY <1>2
<1> HIDE DEF E, e
<1>6. CASE IsInequality(lit)
  <2>1. AddInequality(e, r) BY <1>6 DEF update, e
  <2> DEFINE kept == InForce(bounds[r].disallowed, r)
  <2>2. PICK list \in {kept, Append(kept, e)} :
          /\ bounds' = [bounds EXCEPT ![r].disallowed = list]
          /\ changed' = changed \cup {r}
    BY <2>1 DEF AddInequality
  <2>3. list \in Seq(E) /\ ToSet(list) \subseteq ToSet(bounds[r].disallowed) \cup {e}
    <3>1. kept \in Seq(E) /\ ToSet(kept) \subseteq ToSet(bounds[r].disallowed)
      BY <1>4, InForceElements
    <3> HIDE DEF kept
    <3>2. /\ Append(kept, e) \in Seq(E)
          /\ ToSet(Append(kept, e)) \subseteq ToSet(kept) \cup {e}
      BY <1>3, <3>1, AppendElements
    <3>3. QED BY <3>1, <3>2
  <2> HIDE DEF kept
  <2>4. bounds' = [bounds EXCEPT ![r] =
                     [ub |-> bounds[r].ub, lb |-> bounds[r].lb, disallowed |-> list]]
    <3>1. bounds' = [bounds EXCEPT ![r] = [bounds[r] EXCEPT !.disallowed = list]]
      BY <2>2
    <3>2. [bounds[r] EXCEPT !.disallowed = list]
            = [ub |-> bounds[r].ub, lb |-> bounds[r].lb, disallowed |-> list]
      BY <1>2
    <3>3. QED BY <3>1, <3>2
  <2>5. changed' \in SUBSET RealVars BY <2>2 DEF BoundsKnown
  <2>6. QED BY <1>2, <1>4, <2>3, <2>4, <2>5, ReplaceStacks DEF e
<1>7. CASE ~IsInequality(lit)
  <2>1. AddBounds(e, r) BY <1>7 DEF update, e
  <2> DEFINE ub == IF BoundsFromAbove(e.lit, r) THEN Push(upper_bound(r), TRUE, e)
                                               ELSE bounds[r].ub
             lb == IF BoundsFromBelow(e.lit, r) THEN Push(lower_bound(r), FALSE, e)
                                               ELSE bounds[r].lb
  <2>2. /\ bounds' = [bounds EXCEPT ![r] =
                        [ub |-> ub, lb |-> lb, disallowed |-> bounds[r].disallowed]]
        /\ changed' \in {changed, changed \cup {r}}
    BY <1>2, <2>1 DEF AddBounds
  <2>3. /\ upper_bound(r) \in Seq(E) /\ ToSet(upper_bound(r)) \subseteq ToSet(bounds[r].ub)
        /\ lower_bound(r) \in Seq(E) /\ ToSet(lower_bound(r)) \subseteq ToSet(bounds[r].lb)
    BY <1>4, PrunedElements DEF upper_bound, lower_bound
  <2>4. ub \in Seq(E) /\ ToSet(ub) \subseteq ToSet(bounds[r].ub) \cup {e}
    BY <1>3, <1>4, <2>3, PushElements
  <2>5. lb \in Seq(E) /\ ToSet(lb) \subseteq ToSet(bounds[r].lb) \cup {e}
    BY <1>3, <1>4, <2>3, PushElements
  <2> HIDE DEF ub, lb
  <2>6. changed' \in SUBSET RealVars BY <2>2 DEF BoundsKnown
  <2>7. QED BY <1>2, <1>4, <2>2, <2>4, <2>5, <2>6, ReplaceStacks DEF e
<1>8. QED BY <1>6, <1>7

-----------------------------------------------------------------------------
(* What a step does to the trail.                                          *)

\* A list of elements of a set is a list of elements of a larger one.
LEMMA SeqGrows ==
  ASSUME NEW S, NEW T, S \subseteq T
  PROVE  \A s \in Seq(S) : s \in Seq(T)
OBVIOUS

Entry == [var : Known, reason : Reasons \cup {NoReason}]

\* What propagate() has not seen is on the trail.
LEMMA UnseenOnTrail ==
  ASSUME TrailKnown
  PROVE  /\ Unseen \in Seq(Entry)
         /\ \A k \in DOMAIN Unseen : \E i \in DOMAIN trail[Len(trail)] :
              Unseen[k] = trail[Len(trail)][i]
<1> DEFINE first == 1 + (IF decision_level = cursor.level THEN cursor.next ELSE 0)
<1>1. recent \in Seq(Entry) /\ first \in Nat \ {0}
  BY DEF TrailKnown, recent, Entry
<1>2. Unseen = SubSeq(recent, first, Len(recent)) BY DEF Unseen
<1> HIDE DEF first
<1>3. CASE first > Len(recent)
  <2>1. Unseen = << >> BY <1>1, <1>2, <1>3
  <2>2. QED BY <2>1
<1>4. CASE first <= Len(recent)
  <2>1. /\ Unseen \in Seq(Entry)
        /\ \A k \in 1..Len(Unseen) : Unseen[k] = recent[first + k - 1]
        /\ \A k \in 1..Len(Unseen) : first + k - 1 \in 1..Len(recent)
    BY <1>1, <1>2, <1>4
  <2>2. ASSUME NEW k \in DOMAIN Unseen
        PROVE  \E i \in DOMAIN trail[Len(trail)] : Unseen[k] = trail[Len(trail)][i]
    <3>1. k \in 1..Len(Unseen) BY <2>1
    <3>2. first + k - 1 \in DOMAIN recent /\ Unseen[k] = recent[first + k - 1]
      BY <1>1, <2>1, <3>1
    <3>3. QED BY <3>2 DEF recent
  <2>3. QED BY <2>1, <2>2
<1>5. QED BY <1>1, <1>3, <1>4

\* An assignment: the variable is put on the trail and stamped.
LEMMA AssignmentStep ==
  ASSUME TrailKnown, TimesOK, RealsNeedTime, Kept,
         NEW v \in Vars, v \in Known', NEW value \in Values, Stamp(v),
         UNCHANGED <<cursor, seen>>,
         \/ Decide(v, value)
         \/ \E reason \in Reasons \cup {NoReason} : \E level : Propagate(v, value, reason, level)
  PROVE  TrailKnown' /\ RealsNeedTime' /\ TimeStep
<1>1. Known \subseteq Known' BY DEF Known, Kept
<1>2. model' = [model EXCEPT ![v] = value] BY DEF Decide, Propagate
<1>3. TimeStep BY <1>2 DEF TimeStep, Assigns, TrailKnown
<1>4. PICK e : /\ e \in Entry' /\ e.var = v
               /\ Len(trail') >= 1
               /\ trail' \in Seq(Seq(Entry'))
               /\ \A l \in DOMAIN trail' : \A k \in DOMAIN trail'[l] :
                    \/ trail'[l][k] = e
                    \/ l \in DOMAIN trail /\ k \in DOMAIN trail[l] /\ trail'[l][k] = trail[l][k]
  <2>1. trail \in Seq(Seq(Entry')) /\ Len(trail) >= 1
    <3>1. \A s \in Seq(Entry) : s \in Seq(Entry')
      <4>1. Entry \subseteq Entry' BY <1>1 DEF Entry
      <4>2. QED BY <4>1, SeqGrows
    <3>2. trail \in Seq(Seq(Entry)) BY DEF TrailKnown, Entry
    <3> DEFINE A == Seq(Entry)
               B == Seq(Entry')
    <3>3. A \subseteq B /\ trail \in Seq(A) BY <3>1, <3>2
    <3> HIDE DEF A, B
    <3>4. trail \in Seq(B) BY <3>3
    <3>5. QED BY <3>4 DEF B, TrailKnown
  <2>2. CASE Decide(v, value)
    <3> DEFINE e == [var |-> v, reason |-> NoReason]
    <3>1. e \in Entry' /\ e.var = v BY DEF Entry
    <3>2. trail' = Append(trail, <<e>>) BY <2>2 DEF Decide
    <3> HIDE DEF e
    <3>3. <<e>> \in Seq(Entry') /\ Len(<<e>>) = 1 /\ <<e>>[1] = e
      BY <3>1
    <3>4. trail' \in Seq(Seq(Entry')) /\ Len(trail') >= 1
      BY <2>1, <3>2, <3>3
    <3>5. ASSUME NEW l \in DOMAIN trail', NEW k \in DOMAIN trail'[l]
          PROVE  \/ trail'[l][k] = e
                 \/ l \in DOMAIN trail /\ k \in DOMAIN trail[l] /\ trail'[l][k] = trail[l][k]
      <4>1. CASE l = Len(trail) + 1 BY <2>1, <3>2, <3>3, <4>1
      <4>2. CASE l # Len(trail) + 1
        <5>1. l \in DOMAIN trail /\ trail'[l] = trail[l]
          BY <2>1, <3>2, <3>3, <4>2
        <5>2. QED BY <5>1
      <4>3. QED BY <4>1, <4>2
    <3>6. QED BY <3>1, <3>4, <3>5
  <2>3. CASE ~Decide(v, value)
    <3>0. PICK reason \in Reasons \cup {NoReason} :
            \E level : Propagate(v, value, reason, level)
      BY <2>3
    <3>1. PICK level : Propagate(v, value, reason, level) BY <3>0
    <3> DEFINE e == [var |-> v, reason |-> reason]
    <3>2. e \in Entry' /\ e.var = v BY DEF Entry
    <3>3. trail' = [i \in 1..Len(trail) |-> IF i > level THEN Append(trail[i], e) ELSE trail[i]]
      BY <3>1 DEF Propagate
    <3> HIDE DEF e
    <3>4. ASSUME NEW i \in 1..Len(trail)
          PROVE  /\ trail[i] \in Seq(Entry') /\ trail'[i] \in Seq(Entry')
                 /\ \A k \in DOMAIN trail'[i] :
                      trail'[i][k] = e \/ (k \in DOMAIN trail[i] /\ trail'[i][k] = trail[i][k])
      <4>1. trail[i] \in Seq(Entry') BY <2>1
      <4>2. trail'[i] \in {Append(trail[i], e), trail[i]} BY <3>3
      <4> DEFINE F == Entry'
                 t == trail[i]
                 u == trail'[i]
      <4>3. e \in F /\ t \in Seq(F) /\ u \in {Append(t, e), t}
        BY <3>2, <4>1, <4>2
      <4> HIDE DEF F, t, u
      <4>4. Append(t, e) \in Seq(F) /\ Len(Append(t, e)) = Len(t) + 1 /\ Len(t) \in Nat
        BY <4>3
      <4>5. \A k \in 1..(Len(t) + 1) :
              Append(t, e)[k] = IF k = Len(t) + 1 THEN e ELSE t[k]
        BY <4>3
      <4>6. DOMAIN Append(t, e) = 1..(Len(t) + 1) /\ DOMAIN t = 1..Len(t)
        BY <4>3, <4>4
      <4>7. u \in Seq(F) /\ \A k \in DOMAIN u : u[k] = e \/ (k \in DOMAIN t /\ u[k] = t[k])
        <5>1. CASE u = t BY <4>3, <5>1, Zenon
        <5>2. CASE u = Append(t, e)
          <6>1. u \in Seq(F) BY <4>4, <5>2, Zenon
          <6>2. ASSUME NEW k \in DOMAIN u
                PROVE  u[k] = e \/ (k \in DOMAIN t /\ u[k] = t[k])
            <7>1. k \in 1..(Len(t) + 1) BY <4>6, <5>2
            <7>2. u[k] = IF k = Len(t) + 1 THEN e ELSE t[k]
              BY <4>5, <5>2, <7>1, Zenon
            <7>3. k = Len(t) + 1 \/ k \in DOMAIN t BY <4>4, <4>6, <7>1
            <7>4. QED BY <7>2, <7>3, Zenon
          <6>3. QED BY <6>1, <6>2, Zenon
        <5>3. QED BY <4>3, <5>1, <5>2, Zenon
      <4>8. /\ trail'[i] \in Seq(Entry')
            /\ \A k \in DOMAIN trail'[i] :
                 trail'[i][k] = e \/ (k \in DOMAIN trail[i] /\ trail'[i][k] = trail[i][k])
        BY <4>7, Zenon DEF F, t, u
      <4>9. QED BY <4>1, <4>8, Zenon
    <3>5. trail' \in [1..Len(trail) -> Seq(Entry')] /\ Len(trail) \in Nat
      BY <2>1, <3>3, <3>4
    <3> DEFINE B == Seq(Entry')
    <3>6. trail' \in [1..Len(trail) -> B] BY <3>5
    <3> HIDE DEF B
    <3>7. trail' \in Seq(B) /\ Len(trail') = Len(trail)
      BY <3>5, <3>6, FunctionIsSeq
    <3>8. DOMAIN trail' = 1..Len(trail) /\ DOMAIN trail = 1..Len(trail)
      BY <2>1, <3>3
    <3>9. QED BY <2>1, <3>2, <3>4, <3>7, <3>8 DEF B
  <2>4. QED BY <2>2, <2>3
<1>5. TrailKnown'
  <2>1. model' \in [Vars -> Values \cup {Undef}] BY <1>2 DEF TrailKnown
  <2>2. QED BY <1>4, <2>1 DEF TrailKnown, Entry
<1>6. RealsNeedTime'
  <2> SUFFICES ASSUME clock'.real = 0
               PROVE  RealsNeedTime'
    BY DEF RealsNeedTime
  <2>1. v \notin RealVars /\ clock.real = 0
    <3>1. clock' = [clock EXCEPT ![ModelOf(v)] = @ + 1] BY DEF Stamp
    <3>2. clock \in [bool : Nat, real : Nat] BY DEF TimesOK
    <3>3. QED BY <3>1, <3>2 DEF ModelOf
  <2>2. \A r \in RealVars : ~is_defined(r)'
    BY <1>2, <2>1, PluginAssumption DEF RealsNeedTime, is_defined, TrailKnown
  <2>3. \A l \in DOMAIN trail' : \A k \in DOMAIN trail'[l] : trail'[l][k].var \notin RealVars
    BY <1>4, <2>1 DEF RealsNeedTime
  <2>4. \A k \in DOMAIN seen' : seen'[k] \notin RealVars
    BY <2>1 DEF RealsNeedTime
  <2>5. QED BY <2>2, <2>3, <2>4 DEF RealsNeedTime
<1>7. QED BY <1>3, <1>5, <1>6

\* A backtrack or a restart: some levels are left, nothing gets a value.
LEMMA BacktrackStep ==
  ASSUME TrailKnown, RealsNeedTime,
         UNCHANGED <<stamp, clock, seen, constraints>>, cursor' = ResetCursor,
         (\E l \in 0..(decision_level - 1) : Backtrack(l)) \/ Clear
  PROVE  TrailKnown' /\ RealsNeedTime' /\ TimeStep
<1>1. /\ model' \in [Vars -> Values \cup {Undef}]
      /\ \A v \in Vars : model'[v] \in {model[v], Undef}
  BY DEF Backtrack, Clear, TrailKnown
<1>2. TimeStep BY <1>1 DEF TimeStep, Forgets
<1>3. cursor' \in [level : Int, next : Nat] BY DEF ResetCursor
<1>4. /\ trail' \in Seq(Seq(Entry)) /\ Len(trail') >= 1
      /\ \A l \in DOMAIN trail' : trail'[l] = << >> \/ (l \in DOMAIN trail /\ trail'[l] = trail[l])
  <2> DEFINE A == Seq(Entry)
  <2>1. trail \in Seq(A) /\ << >> \in A BY DEF TrailKnown, Entry
  <2> HIDE DEF A
  <2>2. CASE \E l \in 0..(decision_level - 1) : Backtrack(l)
    <3>1. PICK l \in 0..(decision_level - 1) : trail' = SubSeq(trail, 1, l + 1)
      BY <2>2 DEF Backtrack
    <3>2. l \in Nat /\ l + 1 \in 1..Len(trail)
      BY <2>1, <3>1 DEF decision_level
    <3>3. trail' \in Seq(A) /\ Len(trail') = l + 1 /\ \A i \in 1..(l + 1) : trail'[i] = trail[i]
      BY <2>1, <3>1, <3>2
    <3>4. QED BY <2>1, <3>2, <3>3 DEF A
  <2>3. CASE Clear
    <3>1. trail' = << << >> >> BY <2>3 DEF Clear
    <3>2. << << >> >> \in Seq(A) BY <2>1
    <3>3. QED BY <3>1, <3>2 DEF A
  <2>4. QED BY <2>2, <2>3
<1>5. Entry' = Entry BY DEF Entry, Known
<1>6. TrailKnown' BY <1>1, <1>3, <1>4, <1>5 DEF TrailKnown, Entry
<1>7. RealsNeedTime'
  <2> SUFFICES ASSUME clock.real = 0
               PROVE  RealsNeedTime'
    BY DEF RealsNeedTime
  <2>1. \A r \in RealVars : ~is_defined(r)'
    BY <1>1, PluginAssumption DEF RealsNeedTime, is_defined
  <2>2. \A l \in DOMAIN trail' : \A k \in DOMAIN trail'[l] : trail'[l][k].var \notin RealVars
    BY <1>4 DEF RealsNeedTime
  <2>3. \A k \in DOMAIN seen' : seen'[k] \notin RealVars
    BY DEF RealsNeedTime
  <2>4. QED BY <2>1, <2>2, <2>3 DEF RealsNeedTime
<1>8. QED BY <1>2, <1>6, <1>7

-----------------------------------------------------------------------------
(* Watches.                                                                *)

Watches == [atom : DOMAIN constraints, index : Int]

\* The variables of a constraint are listed, and there is a first one.
LEMMA OrderOf ==
  ASSUME ConstraintsKnown, OrderKnown, NEW a \in DOMAIN constraints
  PROVE  /\ order[a] \in Seq(RealVars) /\ Len(order[a]) >= 1
         /\ Range(order[a]) = DOMAIN constraints[a].coef
         /\ order[a][1] \in RealVars
         /\ DOMAIN order = DOMAIN constraints
<1>1. DOMAIN order = DOMAIN constraints BY KnownVars DEF OrderKnown
<1>2. order[a] \in Seq(RealVars) /\ Range(order[a]) = DOMAIN constraints[a].coef
  BY <1>1 DEF OrderKnown
<1>3. Range(order[a]) # {} BY <1>2 DEF ConstraintsKnown
<1>4. Len(order[a]) >= 1 BY <1>2, <1>3 DEF Range
<1>5. QED BY <1>1, <1>2, <1>4

\* Listing the same variables in another order.
LEMMA OrderExcept ==
  ASSUME ConstraintsKnown, OrderKnown, NEW a \in DOMAIN constraints,
         NEW vs \in Seq(RealVars), Range(vs) = DOMAIN constraints[a].coef,
         order' = [order EXCEPT ![a] = vs], UNCHANGED constraints
  PROVE  OrderKnown'
<1>1. DOMAIN order = DOMAIN constraints BY OrderOf
<1> DEFINE A == Seq(RealVars)
<1>2. order \in Seq(A) /\ vs \in A BY DEF OrderKnown
<1> HIDE DEF A
<1>3. order' \in Seq(A) /\ Len(order') = Len(order) /\ DOMAIN order' = DOMAIN order
  BY <1>1, <1>2
<1>4. \A b \in DOMAIN order' : Range(order'[b]) = DOMAIN constraints[b].coef
  BY <1>1, <1>3 DEF OrderKnown
<1>5. QED BY <1>3, <1>4 DEF OrderKnown, A

\* Two positions of a list exchanged.
LEMMA SwappedElements ==
  ASSUME NEW S, NEW s \in Seq(S), NEW i \in 1..Len(s), NEW j \in 1..Len(s)
  PROVE  LET t == [s EXCEPT ![i] = s[j], ![j] = s[i]]
         IN t \in Seq(S) /\ Len(t) = Len(s) /\ Range(t) = Range(s)
<1> DEFINE t == [s EXCEPT ![i] = s[j], ![j] = s[i]]
<1>1. t \in Seq(S) /\ Len(t) = Len(s) OBVIOUS
<1>2. t[i] = s[j] /\ t[j] = s[i] /\ \A k \in 1..Len(s) : k # i /\ k # j => t[k] = s[k]
  OBVIOUS
<1>3. DOMAIN t = 1..Len(s) /\ DOMAIN s = 1..Len(s) OBVIOUS
<1> HIDE DEF t
<1>4. Range(t) = Range(s)
  <2>1. \A k \in 1..Len(s) : \E m \in 1..Len(s) : t[k] = s[m] BY <1>2
  <2>2. \A k \in 1..Len(s) : \E m \in 1..Len(s) : s[k] = t[m] BY <1>2
  <2>3. Range(t) = {t[k] : k \in 1..Len(s)} /\ Range(s) = {s[k] : k \in 1..Len(s)}
    BY <1>3 DEF Range
  <2>4. Range(t) \subseteq Range(s) BY <2>1, <2>3
  <2>5. Range(s) \subseteq Range(t) BY <2>2, <2>3
  <2>6. QED BY <2>4, <2>5
<1>5. QED BY <1>1, <1>4 DEF t

\* While a watch list is walked, its variable is rational and has been
\* assigned, so that time has passed.
LEMMA WalkedKnown ==
  ASSUME WalkKnown, TimesOK, RealsNeedTime, walking
  PROVE  Walked \in RealVars /\ clock.real > 0
<1>1. Walked = seen[1] /\ 1 \in DOMAIN seen /\ Walked \in RealVars
  BY DEF WalkKnown, walking, Walked
<1>2. clock.real # 0 BY <1>1 DEF RealsNeedTime
<1>3. QED BY <1>1, <1>2 DEF TimesOK

\* The watch at the position reached is about a constraint, whose variables
\* are listed in the order after the exchange of the first two as before.
LEMMA AtWatchKnown ==
  ASSUME ConstraintsKnown, OrderKnown, WatchedKnown, WalkKnown, TimesOK, RealsNeedTime, AtWatch
  PROVE  /\ Walked \in RealVars /\ clock.real > 0
         /\ watched[Walked] \in Seq(Watches) /\ walk \in 1..Len(watched[Walked])
         /\ TheWatch \in Watches
         /\ LET a == TheWatch.atom
                vs == Reordered(a) IN
            /\ a \in DOMAIN constraints
            /\ vs \in Seq(RealVars) /\ Len(vs) >= 1 /\ vs[1] \in RealVars
            /\ Range(vs) = DOMAIN constraints[a].coef
<1> DEFINE a == TheWatch.atom
           vs == Reordered(a)
<1>1. Walked \in RealVars /\ clock.real > 0 BY WalkedKnown DEF AtWatch
<1>2. watched[Walked] \in Seq(Watches) /\ walk \in 1..Len(watched[Walked])
  <2>1. watched[Walked] \in Seq(Watches)
    BY <1>1 DEF WatchedKnown, Watches
  <2>2. walk \in Nat /\ walk > 0 /\ walk <= Len(watched[Walked])
    BY DEF AtWatch, walking, WalkKnown
  <2>3. QED BY <2>1, <2>2
<1>3. TheWatch \in Watches BY <1>2 DEF TheWatch
<1>4. a \in DOMAIN constraints BY <1>3 DEF Watches
<1>5. /\ order[a] \in Seq(RealVars) /\ Len(order[a]) >= 1
      /\ Range(order[a]) = DOMAIN constraints[a].coef
  BY <1>4, OrderOf
<1> HIDE DEF a
<1>6. vs \in Seq(RealVars) /\ Len(vs) >= 1 /\ Range(vs) = DOMAIN constraints[a].coef
  <2>1. CASE Len(order[a]) > 1
    <3> DEFINE t == [order[a] EXCEPT ![1] = order[a][2], ![2] = order[a][1]]
    <3>1. 1 \in 1..Len(order[a]) /\ 2 \in 1..Len(order[a]) BY <1>5, <2>1
    <3>2. t \in Seq(RealVars) /\ Len(t) = Len(order[a]) /\ Range(t) = Range(order[a])
      BY <1>5, <3>1, SwappedElements
    <3>3. vs = t \/ vs = order[a] BY DEF Reordered
    <3> HIDE DEF t, vs
    <3>4. QED BY <1>5, <3>2, <3>3
  <2>2. CASE ~(Len(order[a]) > 1) BY <1>5, <2>2 DEF Reordered
  <2>3. QED BY <2>1, <2>2
<1> HIDE DEF vs
<1>7. vs[1] \in RealVars BY <1>6
<1>8. QED BY <1>1, <1>2, <1>3, <1>4, <1>6, <1>7 DEF a, vs

\* The circular search finds a position that may be watched.
LEMMA NextFreeExists ==
  ASSUME NEW S, NEW vs \in Seq(S), NEW index \in Int, Free(vs) # {}
  PROVE  NextFree(vs, index) \in Free(vs)
<1> DEFINE n == Len(vs) - 2
           Dist(p) == (p - index) % n
           T == {Dist(p) : p \in Free(vs)}
<1>1. Free(vs) \subseteq 3..Len(vs) /\ n \in Nat \ {0} BY DEF Free
<1>2. \A p \in Free(vs) : Dist(p) \in Nat BY <1>1
<1>3. T \in SUBSET Nat /\ T # {}
  <2> HIDE DEF Dist
  <2>1. QED BY <1>2
<1>4. PICK d \in T : \A y \in T : d <= y
  <2> HIDE DEF T
  <2>1. QED BY <1>3, LeastNatural
<1>5. PICK p \in Free(vs) : d = Dist(p) BY <1>4
<1>6. \A q \in Free(vs) : Dist(p) <= Dist(q)
  <2> HIDE DEF Dist
  <2>1. QED BY <1>4, <1>5
<1>7. QED BY <1>5, <1>6, Zenon DEF NextFree

-----------------------------------------------------------------------------
(* The steps.                                                              *)

\* What is proved of every step.
Good == PluginInv' /\ TimeStep /\ Kept

\* What a step leaves alone keeps its part of the invariant.
LEMMA Frame ==
  ASSUME PluginInv
  PROVE  /\ UNCHANGED constraints => ConstraintsKnown' /\ Kept
         /\ UNCHANGED <<constraints, order>> => OrderKnown'
         /\ UNCHANGED <<constraints, watched>> => WatchedKnown'
         /\ UNCHANGED <<constraints, trail, model, cursor>> => TrailKnown'
         /\ UNCHANGED <<constraints, seen, walk>> => WalkKnown'
         /\ UNCHANGED blame => BlameKnown'
         /\ UNCHANGED <<stamp, clock>> => TimesOK'
         /\ UNCHANGED <<trail, model, clock, seen>> => RealsNeedTime'
         /\ UNCHANGED <<stamp, clock, model>> => TimeStep
         /\ UNCHANGED <<bounds, changed, constraints, clock>> => BoundsKnown' /\ EntriesDated'
<1>1. UNCHANGED constraints => ConstraintsKnown' /\ Kept
  BY DEF PluginInv, ConstraintsKnown, Kept
<1>2. UNCHANGED <<constraints, order>> => OrderKnown'
  BY DEF PluginInv, OrderKnown
<1>3. UNCHANGED <<constraints, watched>> => WatchedKnown'
  BY DEF PluginInv, WatchedKnown
<1>4. UNCHANGED <<constraints, trail, model, cursor>> => TrailKnown'
  BY DEF PluginInv, TrailKnown, Known
<1>5. UNCHANGED <<constraints, seen, walk>> => WalkKnown'
  BY DEF PluginInv, WalkKnown, Known
<1>6. UNCHANGED blame => BlameKnown' BY DEF PluginInv, BlameKnown
<1>7. UNCHANGED <<stamp, clock>> => TimesOK' BY DEF PluginInv, TimesOK
<1>8. UNCHANGED <<trail, model, clock, seen>> => RealsNeedTime'
  BY DEF PluginInv, RealsNeedTime, is_defined
<1>9. UNCHANGED <<stamp, clock, model>> => TimeStep
  BY DEF TimeStep, Forgets
<1>10. UNCHANGED <<bounds, changed, constraints, clock>> => BoundsKnown' /\ EntriesDated'
  BY DEF PluginInv, BoundsKnown, EntriesDated, Entries, Dated, Others, VarsOf, Constraint
<1>11. QED BY <1>1, <1>2, <1>3, <1>4, <1>5, <1>6, <1>7, <1>8, <1>9, <1>10

\* The clause being built, with polynomials over rational variables.
LEMMA NewBlame ==
  ASSUME NEW P, NEW polys \in Seq(P), NEW lits,
         \A k \in DOMAIN polys : DOMAIN polys[k].coef \subseteq RealVars,
         blame' = [lits |-> lits, polys |-> polys]
  PROVE  BlameKnown'
<1>1. blame' \in [lits : {lits}, polys : Seq(P)] /\ blame'.polys = polys
  OBVIOUS
<1>2. QED BY <1>1 DEF BlameKnown

\* Going on to the next polynomial.
LEMMA TailOfBlame ==
  ASSUME BlameKnown, blame.polys # << >>, NEW lits,
         blame' = [lits |-> lits, polys |-> Tail(blame.polys)]
  PROVE  BlameKnown' /\ DOMAIN Head(blame.polys).coef \subseteq RealVars
<1>1. PICK P : blame.polys \in Seq(P) BY DEF BlameKnown
<1>2. /\ Tail(blame.polys) \in Seq(P)
      /\ \A k \in DOMAIN Tail(blame.polys) :
           k + 1 \in DOMAIN blame.polys /\ Tail(blame.polys)[k] = blame.polys[k + 1]
  BY <1>1
<1>3. Head(blame.polys) = blame.polys[1] /\ 1 \in DOMAIN blame.polys
  BY <1>1
<1>4. \A k \in DOMAIN Tail(blame.polys) : DOMAIN Tail(blame.polys)[k].coef \subseteq RealVars
  BY <1>2 DEF BlameKnown
<1>5. QED BY <1>2, <1>3, <1>4, NewBlame DEF BlameKnown

\* Nothing is done to the stacks while time passes.
LEMMA BoundsLeftAlone ==
  ASSUME TimesOK, TimeStep, Kept, BoundsKnown, EntriesDated, UNCHANGED <<bounds, changed>>
  PROVE  BoundsKnown' /\ EntriesDated'
<1>1. BoundsKnown' BY DEF BoundsKnown
<1>2. \A s \in RealVars : Entries(s)' = Entries(s) BY DEF Entries
<1>3. OnlyNew(0, {}) BY <1>1, <1>2 DEF OnlyNew
<1>4. QED BY <1>3, EntriesStay

\* Steps that only look at the plugin's own lists.
LEMMA LookingSteps ==
  ASSUME PluginInv,
         StartPropagate \/ SeeReal \/ WalkDone \/ ReadDone \/ Report \/ DropTrivial \/ CheckDone
           \/ BcpConflict
  PROVE  Good
<1> USE DEF trailVars, boundVars, watchVars, walkVars, conflictVars
<1>1. CASE StartPropagate
  <2>1. /\ UNCHANGED <<trail, model, constraints, bounds, changed, stamp, clock, order, watched,
                       blame>>
        /\ seen' = [k \in DOMAIN Unseen |-> Unseen[k].var] /\ walk' = 0 /\ cursor' = SeenAll
    BY <1>1 DEF StartPropagate
  <2>2. /\ ConstraintsKnown' /\ Kept /\ OrderKnown' /\ WatchedKnown' /\ BlameKnown' /\ TimesOK'
        /\ TimeStep /\ BoundsKnown' /\ EntriesDated'
    BY <2>1, Frame
  <2>3. /\ Unseen \in Seq(Entry)
        /\ \A k \in DOMAIN Unseen : \E i \in DOMAIN trail[Len(trail)] :
             Unseen[k] = trail[Len(trail)][i]
    BY UnseenOnTrail DEF PluginInv
  <2>4. TrailKnown'
    <3>1. recent \in Seq(Entry) /\ Len(recent) \in Nat /\ Len(trail) \in Nat
      BY DEF PluginInv, TrailKnown, recent, Entry
    <3>2. cursor' \in [level : Int, next : Nat]
      BY <2>1, <3>1 DEF SeenAll, decision_level
    <3>3. QED BY <2>1, <3>2 DEF PluginInv, TrailKnown, Known
  <2>5. seen' \in Seq(Known) /\ DOMAIN seen' = DOMAIN Unseen
    <3>1. Len(Unseen) \in Nat /\ DOMAIN Unseen = 1..Len(Unseen) BY <2>3
    <3>2. \A k \in DOMAIN Unseen : Unseen[k].var \in Known
      <4>1. \A k \in DOMAIN Unseen : Unseen[k] \in Entry BY <2>3, <3>1
      <4>2. QED BY <4>1 DEF Entry
    <3>3. seen' \in [1..Len(Unseen) -> Known] BY <2>1, <3>1, <3>2
    <3>4. QED BY <2>1, <3>1, <3>3, FunctionIsSeq
  <2>6. WalkKnown' BY <2>1, <2>5 DEF WalkKnown, Known
  <2>7. RealsNeedTime'
    <3> SUFFICES ASSUME clock.real = 0
                 PROVE  \A k \in DOMAIN seen' : seen'[k] \notin RealVars
      BY <2>1 DEF PluginInv, RealsNeedTime, is_defined
    <3>1. Len(trail) \in DOMAIN trail BY DEF PluginInv, TrailKnown
    <3>2. QED BY <2>1, <2>3, <2>5, <3>1 DEF PluginInv, RealsNeedTime
  <2>8. QED BY <2>2, <2>4, <2>6, <2>7 DEF Good, PluginInv
<1>2. CASE SeeReal
  <2>1. /\ UNCHANGED <<trail, model, cursor, constraints, bounds, changed, stamp, clock, order,
                       watched, blame, seen>>
        /\ walk' = 1 /\ seen # << >> /\ Head(seen) \in RealVars
    BY <1>2 DEF SeeReal, Walked
  <2>2. WalkKnown' BY <2>1 DEF PluginInv, WalkKnown, Known
  <2>3. QED BY <2>1, <2>2, Frame DEF Good, PluginInv
<1>3. CASE WalkDone
  <2>1. /\ UNCHANGED <<trail, model, cursor, constraints, bounds, changed, stamp, clock, order,
                       watched, blame>>
        /\ walk' = 0 /\ seen' = Tail(seen)
        /\ walk > 0
    BY <1>3 DEF WalkDone, EndOfWalk, walking
  <2>2. seen \in Seq(Known) /\ seen # << >>
    BY <2>1 DEF PluginInv, WalkKnown
  <2>3. seen' \in Seq(Known) /\ \A k \in DOMAIN seen' : k + 1 \in DOMAIN seen /\ seen'[k] = seen[k + 1]
    BY <2>1, <2>2
  <2>4. WalkKnown' /\ RealsNeedTime'
    BY <2>1, <2>3 DEF PluginInv, WalkKnown, RealsNeedTime, Known, is_defined
  <2>5. QED BY <2>1, <2>4, Frame DEF Good, PluginInv
<1>4. CASE ReadDone \/ CheckDone
  <2>1. UNCHANGED <<trail, model, cursor, constraints, bounds, changed, stamp, clock, order,
                    watched, seen, walk, blame>>
    BY <1>4 DEF ReadDone, CheckDone
  <2>2. QED BY <2>1, Frame DEF Good, PluginInv
<1>5. CASE BcpConflict
  <2>1. UNCHANGED <<trail, model, cursor, constraints, bounds, changed, stamp, clock, order,
                    watched, seen, walk, blame>>
    BY <1>5 DEF BcpConflict, LoopUnchanged
  <2>2. QED BY <2>1, Frame DEF Good, PluginInv
<1>6. CASE Report \/ DropTrivial
  <2>1. UNCHANGED <<trail, model, cursor, constraints, bounds, changed, stamp, clock, order,
                    watched, seen, walk>>
    BY <1>6 DEF Report, DropTrivial
  <2>2. BlameKnown'
    <3>1. CASE Report
      <4>1. blame' = [lits |-> {}, polys |-> << >>]
        BY <3>1 DEF Report, NoBlame
      <4>2. blame' = [lits |-> {}, polys |-> << >>] /\ << >> \in Seq({})
        BY <4>1
      <4>3. \A k \in DOMAIN << >> : DOMAIN << >>[k].coef \subseteq RealVars
        OBVIOUS
      <4>4. QED BY <4>2, <4>3, NewBlame
    <3>2. CASE DropTrivial
      <4>1. blame.polys # << >> /\ blame' = [blame EXCEPT !.polys = Tail(@)]
        BY <3>2 DEF DropTrivial, explaining
      <4>2. blame' = [lits |-> blame.lits, polys |-> Tail(blame.polys)]
        BY <4>1 DEF PluginInv, BlameKnown
      <4>3. QED BY <4>1, <4>2, TailOfBlame DEF PluginInv
    <3>3. QED BY <1>6, <3>1, <3>2
  <2>3. QED BY <2>1, <2>2, Frame DEF Good, PluginInv
<1>7. QED BY <1>1, <1>2, <1>3, <1>4, <1>5, <1>6

\* Bounds::update, or nothing, for a constraint that lacks one variable.
LEMMA UpdateStep ==
  ASSUME PluginInv, NEW a \in DOMAIN constraints, NEW r \in RealVars,
         Others(a, r) # {} => clock.real > 0,
         update(TrueLit(a), r) \/ UNCHANGED <<bounds, changed>>,
         UNCHANGED <<stamp, clock, model, constraints>>
  PROVE  BoundsKnown' /\ EntriesDated'
<1>1. CASE UNCHANGED <<bounds, changed>> BY <1>1, Frame
<1>2. CASE update(TrueLit(a), r)
  <2> DEFINE lit == TrueLit(a)
  <2>1. AtomOf(lit) = a BY KnownVars DEF TrueLit, PluginInv
  <2>2. Others(lit, r) = Others(a, r)
    <3>1. AtomOf(a) = a BY KnownVars DEF PluginInv
    <3>2. QED BY <2>1, <3>1 DEF Others, VarsOf, Constraint
  <2> HIDE DEF lit
  <2>3. Dated(Implied(lit, r), r)
    BY <2>1, <2>2, NewEntryIsDated DEF PluginInv
  <2>4. OnlyNew(r, {Implied(lit, r)})
    BY <1>2, UpdateAdds DEF PluginInv, lit
  <2>5. TimeStep /\ Kept BY Frame
  <2>6. QED BY <2>3, <2>4, <2>5, EntriesStay DEF PluginInv
<1>3. QED BY <1>1, <1>2

LEMMA SeeAtomStep ==
  ASSUME PluginInv, SeeAtom
  PROVE  Good
<1> USE DEF trailVars, boundVars, watchVars, walkVars, conflictVars
<1> DEFINE a == Head(seen)
<1>1. /\ UNCHANGED <<trail, model, cursor, constraints, stamp, clock, order, watched, walk, blame>>
      /\ seen # << >> /\ a \notin RealVars /\ seen' = Tail(seen)
      /\ \/ is_unit(a) /\ update(TrueLit(a), order[a][1])
         \/ UNCHANGED <<bounds, changed>>
  BY DEF SeeAtom
<1>2. seen \in Seq(Known) /\ a \in Known /\ a = seen[1]
  BY <1>1 DEF PluginInv, WalkKnown
<1>3. a \in DOMAIN constraints BY <1>1, <1>2 DEF Known
<1>4. seen' \in Seq(Known) /\ \A k \in DOMAIN seen' : k + 1 \in DOMAIN seen /\ seen'[k] = seen[k + 1]
  BY <1>1, <1>2
<1>5. walk = 0 BY <1>1 DEF PluginInv, WalkKnown
<1>6. WalkKnown' /\ RealsNeedTime'
  BY <1>1, <1>4, <1>5 DEF PluginInv, WalkKnown, RealsNeedTime, Known, is_defined
<1>7. BoundsKnown' /\ EntriesDated'
  <2>1. /\ order[a] \in Seq(RealVars) /\ Len(order[a]) >= 1
        /\ Range(order[a]) = DOMAIN constraints[a].coef /\ order[a][1] \in RealVars
    BY <1>3, OrderOf DEF PluginInv
  <2>2. VarsOf(a) = Range(order[a])
    BY <1>3, <2>1, KnownVars DEF PluginInv, VarsOf, Constraint
  <2> HIDE DEF a
  <2>3. CASE is_unit(a)
    <3>1. CASE Len(order[a]) = 1
      <4>1. Others(a, order[a][1]) = {}
        BY <2>1, <2>2, <3>1 DEF Others, Range
      <4>2. QED BY <1>1, <1>3, <2>1, <4>1, UpdateStep
    <3>2. CASE Len(order[a]) # 1
      <4>1. order[a][2] \in RealVars
        <5> DEFINE n == Len(order[a])
        <5>1. n \in Nat /\ n >= 1 /\ n # 1 BY <2>1, <3>2
        <5> HIDE DEF n
        <5>2. 2 \in 1..n BY <5>1
        <5>3. 2 \in 1..Len(order[a]) BY <5>2 DEF n
        <5>4. QED BY <2>1, <5>3
      <4>2. is_defined(order[a][2]) BY <2>3, <3>2 DEF is_unit
      <4>3. clock.real > 0
        BY <4>1, <4>2 DEF PluginInv, RealsNeedTime, TimesOK
      <4>4. QED BY <1>1, <1>3, <2>1, <4>3, UpdateStep
    <3>3. QED BY <3>1, <3>2
  <2>4. CASE ~is_unit(a) BY <1>1, <2>4, Frame
  <2>5. QED BY <2>3, <2>4
<1>8. QED BY <1>1, <1>6, <1>7, Frame DEF Good, PluginInv

LEMMA VisitUnitStep ==
  ASSUME PluginInv, VisitUnit
  PROVE  Good
<1> USE DEF trailVars, boundVars, watchVars, walkVars, conflictVars
<1> DEFINE a == TheWatch.atom
           vs == Reordered(a)
<1>1. /\ UNCHANGED <<trail, model, cursor, constraints, stamp, clock, watched, seen, blame>>
      /\ walk' = walk + 1 /\ walk > 0 /\ AtWatch
      /\ order' = [order EXCEPT ![a] = vs]
      /\ update(TrueLit(a), vs[1]) \/ UNCHANGED <<bounds, changed>>
  BY DEF VisitUnit, AtWatch, walking
<1>2. /\ clock.real > 0 /\ a \in DOMAIN constraints
      /\ vs \in Seq(RealVars) /\ vs[1] \in RealVars
      /\ Range(vs) = DOMAIN constraints[a].coef
  BY <1>1, AtWatchKnown DEF PluginInv
<1> HIDE DEF a, vs
<1>3. OrderKnown' BY <1>1, <1>2, OrderExcept DEF PluginInv
<1>4. BoundsKnown' /\ EntriesDated' BY <1>1, <1>2, UpdateStep
<1>5. WalkKnown' BY <1>1 DEF PluginInv, WalkKnown, Known
<1>6. QED BY <1>1, <1>3, <1>4, <1>5, Frame DEF Good, PluginInv

\* A list with one element replaced, and without its last.
LEMMA FrontElements ==
  ASSUME NEW S, NEW s \in Seq(S), s # << >>, NEW k, NEW x \in S
  PROVE  Front([s EXCEPT ![k] = x]) \in Seq(S)
<1> DEFINE t == [s EXCEPT ![k] = x]
<1>1. t \in Seq(S) /\ Len(t) >= 1
  <2>1. CASE k \in 1..Len(s) BY <2>1
  <2>2. CASE k \notin 1..Len(s)
    <3>1. t = s BY <2>2
    <3>2. s \in Seq(S) /\ Len(s) >= 1 OBVIOUS
    <3> HIDE DEF t
    <3>3. QED BY <3>1, <3>2
  <2>3. QED BY <2>1, <2>2
<1> HIDE DEF t
<1>2. SubSeq(t, 1, Len(t) - 1) \in Seq(S) BY <1>1
<1>3. QED BY <1>2 DEF Front, t

LEMMA MoveWatchStep ==
  ASSUME PluginInv, MoveWatch
  PROVE  Good
<1> USE DEF trailVars, boundVars, watchVars, walkVars, conflictVars
<1> DEFINE a == TheWatch.atom
           vs == Reordered(a)
           p == NextFree(vs, TheWatch.index)
           us == [vs EXCEPT ![2] = vs[p], ![p] = vs[2]]
           new == [atom |-> a, index |-> p]
           last == Last(watched[Walked])
           added == [watched EXCEPT ![vs[p]] = Append(@, new)]
<1>1. /\ UNCHANGED <<trail, model, cursor, constraints, bounds, changed, stamp, clock, seen, walk,
                     blame>>
      /\ AtWatch /\ Replaceable
      /\ order' = [order EXCEPT ![a] = us]
      /\ watched' = [added EXCEPT ![Walked] = Front([@ EXCEPT ![walk] = last])]
  BY DEF MoveWatch
<1>2. /\ a \in DOMAIN constraints
      /\ vs \in Seq(RealVars) /\ Range(vs) = DOMAIN constraints[a].coef
      /\ Walked \in RealVars /\ watched[Walked] \in Seq(Watches)
      /\ walk \in 1..Len(watched[Walked]) /\ TheWatch \in Watches
  BY <1>1, AtWatchKnown DEF PluginInv
<1>3. p \in Free(vs)
  BY <1>1, <1>2, NextFreeExists DEF Replaceable, Watches
<1>4. p \in 1..Len(vs) /\ 2 \in 1..Len(vs) /\ vs[p] \in RealVars /\ p \in Int
  <2> HIDE DEF p
  <2>1. QED BY <1>2, <1>3 DEF Free
<1>5. OrderKnown'
  <2> HIDE DEF a, p, vs
  <2>1. us \in Seq(RealVars) /\ Range(us) = DOMAIN constraints[a].coef
    BY <1>2, <1>4, SwappedElements
  <2> HIDE DEF us
  <2>2. QED BY <1>1, <1>2, <2>1, OrderExcept DEF PluginInv
<1>6. WatchedKnown'
  <2>1. new \in Watches BY <1>2, <1>4 DEF Watches
  <2>2. watched \in [RealVars -> Seq(Watches)]
    BY DEF PluginInv, WatchedKnown, Watches
  <2>3. last \in Watches BY <1>2 DEF Last
  <2> HIDE DEF new, last, p, vs, a
  <2>4. added \in [RealVars -> Seq(Watches)] /\ added[Walked] # << >>
    <3>1. \A r \in RealVars : watched[r] \in Seq(Watches) /\ Append(watched[r], new) \in Seq(Watches)
      BY <2>1, <2>2
    <3>2. added \in [RealVars -> Seq(Watches)] BY <2>2, <3>1
    <3>3. added[Walked] \in {watched[Walked], Append(watched[Walked], new)}
      BY <1>2, <2>2
    <3>4. QED BY <1>2, <3>2, <3>3
  <2> HIDE DEF added
  <2>5. Front([added[Walked] EXCEPT ![walk] = last]) \in Seq(Watches)
    BY <1>2, <2>3, <2>4, FrontElements
  <2>6. watched' = [added EXCEPT ![Walked] = Front([added[Walked] EXCEPT ![walk] = last])]
    BY <1>1
  <2>7. watched' \in [RealVars -> Seq(Watches)] BY <2>4, <2>5, <2>6
  <2>8. Watches' = Watches BY <1>1 DEF Watches
  <2>9. QED BY <2>7, <2>8 DEF WatchedKnown, Watches
<1>7. QED BY <1>1, <1>5, <1>6, Frame DEF Good, PluginInv

-----------------------------------------------------------------------------
(* Conflicts and derived constraints.                                      *)

LEMMA PolyVars ==
  ASSUME ConstraintsKnown, NEW lit, AtomOf(lit) \in DOMAIN constraints
  PROVE  /\ DOMAIN PolyOf(lit).coef \subseteq RealVars
         /\ \A pred, mult : DOMAIN Poly(lit, pred, mult).coef \subseteq RealVars
BY DEF PolyOf, Poly, VarsOf, Constraint, ConstraintsKnown

LEMMA ResolveVars ==
  ASSUME NEW p, NEW q, NEW r,
         DOMAIN p.coef \subseteq RealVars, DOMAIN q.coef \subseteq RealVars
  PROVE  DOMAIN Resolve(p, q, r).coef \subseteq RealVars
<1>1. \A sign, mult : DOMAIN Combination(p, sign, q, mult).coef \subseteq RealVars
  BY DEF Combination
<1>2. QED BY <1>1 DEF Resolve

\* The entries finish() reads are about constraints.
LEMMA ReadEntries ==
  ASSUME PluginInv, NEW r \in RealVars
  PROVE  /\ lower_bound(r) # << >> => AtomOf(Last(lower_bound(r)).lit) \in DOMAIN constraints
         /\ upper_bound(r) # << >> => AtomOf(Last(upper_bound(r)).lit) \in DOMAIN constraints
         /\ \A x : inequality(r, x) # << >> =>
              AtomOf(inequality(r, x)[1].lit) \in DOMAIN constraints
<1>1. PICK E : bounds \in [RealVars -> [ub : Seq(E), lb : Seq(E), disallowed : Seq(E)]]
  BY DEF PluginInv, BoundsKnown
<1>2. bounds[r].ub \in Seq(E) /\ bounds[r].lb \in Seq(E) /\ bounds[r].disallowed \in Seq(E)
  BY <1>1
<1>3. \A e \in Entries(r) : AtomOf(e.lit) \in DOMAIN constraints
  BY DEF PluginInv, EntriesDated, Dated
<1>4. ASSUME NEW s \in Seq(E), ToSet(s) \subseteq Entries(r), NEW k \in 1..Len(s)
      PROVE  AtomOf(s[k].lit) \in DOMAIN constraints
  <2>1. s[k] \in ToSet(s) BY DEF ToSet
  <2>2. QED BY <1>3, <1>4, <2>1
<1>5. /\ lower_bound(r) \in Seq(E) /\ ToSet(lower_bound(r)) \subseteq Entries(r)
      /\ upper_bound(r) \in Seq(E) /\ ToSet(upper_bound(r)) \subseteq Entries(r)
  BY <1>2, PrunedElements DEF lower_bound, upper_bound, Entries
<1>6. ASSUME NEW s \in Seq(E), ToSet(s) \subseteq Entries(r), s # << >>
      PROVE  AtomOf(Last(s).lit) \in DOMAIN constraints
  <2>1. Len(s) \in 1..Len(s) BY <1>6
  <2>2. QED BY <1>4, <1>6, <2>1 DEF Last
<1>7. ASSUME NEW x, inequality(r, x) # << >>
      PROVE  AtomOf(inequality(r, x)[1].lit) \in DOMAIN constraints
  <2> DEFINE kept == InForce(bounds[r].disallowed, r)
             at == {k \in DOMAIN kept : kept[k].value = x}
             same == Chosen(kept, at)
  <2>1. kept \in Seq(E) /\ ToSet(kept) \subseteq Entries(r)
    BY <1>2, InForceElements DEF Entries
  <2>2. inequality(r, x) = IF same = << >> THEN << >> ELSE <<Head(same)>>
    BY DEF inequality
  <2> HIDE DEF kept, at
  <2>3. /\ same \in Seq(E)
        /\ \A k \in 1..Len(same) : \E i \in 1..Len(kept) : same[k] = kept[i]
    BY <2>1, ChosenElements
  <2> HIDE DEF same
  <2>4. same # << >> /\ inequality(r, x)[1] = same[1] /\ 1 \in 1..Len(same)
    BY <1>7, <2>2, <2>3
  <2>5. PICK i \in 1..Len(kept) : same[1] = kept[i] BY <2>3, <2>4
  <2>6. QED BY <1>4, <2>1, <2>4, <2>5
<1>8. QED BY <1>5, <1>6, <1>7

LEMMA CheckBoundsStep ==
  ASSUME PluginInv, CheckBounds
  PROVE  Good
<1> USE DEF trailVars, boundVars, watchVars, walkVars, conflictVars
<1> DEFINE r == Checked
<1>1. /\ UNCHANGED <<trail, model, cursor, constraints, stamp, clock, order, watched, seen, walk>>
      /\ changed # {} /\ AskBounds /\ changed' = changed \ {r}
      /\ blame' = IF BoundConflict THEN BoundBlame
                  ELSE IF InequalityConflict THEN InequalityBlame ELSE NoBlame
  BY DEF CheckBounds
<1>2. r \in RealVars
  <2>1. changed \in SUBSET Nat
    BY RealVarsAssumption DEF PluginInv, BoundsKnown
  <2>2. QED BY <1>1, <2>1, MinExists DEF Checked, PluginInv, BoundsKnown
<1>3. BoundsKnown' /\ EntriesDated'
  <2>1. PICK E : bounds \in [RealVars -> [ub : Seq(E), lb : Seq(E), disallowed : Seq(E)]]
    BY DEF PluginInv, BoundsKnown
  <2>2. bounds[r].ub \in Seq(E) /\ bounds[r].lb \in Seq(E) /\ bounds[r].disallowed \in Seq(E)
    BY <1>2, <2>1
  <2> DEFINE Keeps == Bounded /\ ~BoundConflict /\ Upper.value = Lower.value
             list == IF Keeps THEN InForce(bounds[r].disallowed, r) ELSE bounds[r].disallowed
  <2>3. bounds' = [bounds EXCEPT ![r] =
                     [ub |-> upper_bound(r), lb |-> lower_bound(r), disallowed |-> list]]
    BY <1>1, <1>2, <2>1 DEF AskBounds
  <2>4. /\ upper_bound(r) \in Seq(E) /\ ToSet(upper_bound(r)) \subseteq ToSet(bounds[r].ub)
        /\ lower_bound(r) \in Seq(E) /\ ToSet(lower_bound(r)) \subseteq ToSet(bounds[r].lb)
    BY <2>2, PrunedElements DEF upper_bound, lower_bound
  <2> HIDE DEF Keeps
  <2>5. list \in Seq(E) /\ ToSet(list) \subseteq ToSet(bounds[r].disallowed)
    BY <2>2, InForceElements
  <2> HIDE DEF list
  <2>6. changed' \in SUBSET RealVars BY <1>1 DEF PluginInv, BoundsKnown
  <2> HIDE DEF r
  <2>7. OnlyNew(r, {})
    <3>1. /\ ToSet(upper_bound(r)) \subseteq ToSet(bounds[r].ub) \cup {}
          /\ ToSet(lower_bound(r)) \subseteq ToSet(bounds[r].lb) \cup {}
          /\ ToSet(list) \subseteq ToSet(bounds[r].disallowed) \cup {}
      BY <2>4, <2>5
    <3>2. QED BY <1>2, <2>1, <2>3, <2>4, <2>5, <2>6, <3>1, ReplaceStacks
  <2>8. TimeStep /\ Kept BY <1>1, Frame
  <2>9. QED BY <2>7, <2>8, EntriesStay DEF PluginInv
<1>4. BlameKnown'
  <2>1. CASE BoundConflict
    <3>1. blame' = BoundBlame BY <1>1, <2>1
    <3>2. AtomOf(Lower.lit) \in DOMAIN constraints /\ AtomOf(Upper.lit) \in DOMAIN constraints
      BY <1>2, <2>1, ReadEntries DEF BoundConflict, Bounded, Lower, Upper
    <3> DEFINE p == Resolve(PolyOf(Lower.lit), PolyOf(Upper.lit), Checked)
               lits == {-Lower.lit, -Upper.lit}
    <3>3. DOMAIN p.coef \subseteq RealVars
      BY <3>2, PolyVars, ResolveVars DEF PluginInv
    <3>4. blame' = [lits |-> lits, polys |-> <<p>>]
      BY <3>1 DEF BoundBlame
    <3> HIDE DEF p, lits
    <3>5. <<p>> \in Seq({p}) /\ \A k \in DOMAIN <<p>> : <<p>>[k] = p
      OBVIOUS
    <3>6. QED BY <3>3, <3>4, <3>5, NewBlame
  <2>2. CASE ~BoundConflict /\ InequalityConflict
    <3> DEFINE neq == inequality(Checked, Lower.value)[1].lit
               mult == Constraint(neq).coef[Checked]
               p == Resolve(PolyOf(Lower.lit), Poly(neq, "lt", mult), Checked)
               q == Resolve(PolyOf(Upper.lit), Poly(neq, "lt", -mult), Checked)
               lits == {-neq, -Lower.lit, -Upper.lit}
    <3>1. blame' = [lits |-> lits, polys |-> <<p, q>>]
      BY <1>1, <2>2 DEF InequalityBlame
    <3>2. /\ AtomOf(Lower.lit) \in DOMAIN constraints /\ AtomOf(Upper.lit) \in DOMAIN constraints
          /\ AtomOf(neq) \in DOMAIN constraints
      BY <1>2, <2>2, ReadEntries DEF InequalityConflict, Bounded, Lower, Upper
    <3> HIDE DEF neq, mult
    <3>3. DOMAIN p.coef \subseteq RealVars /\ DOMAIN q.coef \subseteq RealVars
      BY <3>2, PolyVars, ResolveVars DEF PluginInv
    <3> HIDE DEF p, q, lits
    <3>4. <<p, q>> \in Seq({p, q}) /\ \A k \in DOMAIN <<p, q>> : <<p, q>>[k] \in {p, q}
      OBVIOUS
    <3>5. \A k \in DOMAIN <<p, q>> : DOMAIN <<p, q>>[k].coef \subseteq RealVars
      BY <3>3, <3>4
    <3>6. QED BY <3>1, <3>4, <3>5, NewBlame
  <2>3. CASE ~BoundConflict /\ ~InequalityConflict
    <3>1. blame' = [lits |-> {}, polys |-> << >>] /\ << >> \in Seq({})
      BY <1>1, <2>3 DEF NoBlame
    <3>2. \A k \in DOMAIN << >> : DOMAIN << >>[k].coef \subseteq RealVars
      OBVIOUS
    <3>3. QED BY <3>1, <3>2, NewBlame
  <2>4. QED BY <2>1, <2>2, <2>3
<1>5. QED BY <1>1, <1>3, <1>4, Frame DEF Good, PluginInv

-----------------------------------------------------------------------------
(* Assignments.                                                            *)

LEMMA TruthIsValue ==
  \A b : Truth(b) \in Values
BY PluginAssumption DEF Truth

\* Nothing but the trail and the time changes.
LEMMA AssignedKnown ==
  ASSUME PluginInv, NEW v \in Known, NEW value \in Values, Stamp(v),
         UNCHANGED <<cursor, seen, constraints>>,
         \/ Decide(v, value)
         \/ \E reason \in Reasons \cup {NoReason} : \E level : Propagate(v, value, reason, level)
  PROVE  TrailKnown' /\ RealsNeedTime' /\ TimesOK' /\ TimeStep /\ Kept
<1>1. Kept BY Frame
<1>2. v \in Vars /\ v \in Known' BY KnownVars DEF PluginInv, Known
<1>3. TrailKnown' /\ RealsNeedTime' /\ TimeStep
  BY <1>1, <1>2, AssignmentStep DEF PluginInv
<1>4. QED BY <1>1, <1>3, TimesStay DEF PluginInv

LEMMA VisitAssignedStep ==
  ASSUME PluginInv, VisitAssigned
  PROVE  Good
<1> USE DEF trailVars, boundVars, watchVars, walkVars, conflictVars
<1> DEFINE a == TheWatch.atom
<1>1. /\ UNCHANGED <<cursor, constraints, bounds, changed, order, watched, seen, blame>>
      /\ walk' = walk + 1 /\ walk > 0 /\ AtWatch
      /\ UNCHANGED <<trail, model, stamp, clock>> \/ PropagateConstraint(a, constraints[a])
  BY DEF VisitAssigned, AtWatch, walking
<1>2. a \in DOMAIN constraints BY <1>1, AtWatchKnown DEF PluginInv
<1> HIDE DEF a
<1>3. TrailKnown' /\ RealsNeedTime' /\ TimesOK' /\ TimeStep /\ Kept
  <2>1. CASE UNCHANGED <<trail, model, stamp, clock>>
    BY <1>1, <2>1, Frame
  <2>2. CASE PropagateConstraint(a, constraints[a])
    <3>1. /\ \E reason \in Reasons \cup {NoReason} : \E level :
               Propagate(a, Truth(Satisfied(constraints[a], model)), reason, level)
          /\ Stamp(a)
      BY <2>2 DEF PropagateConstraint
    <3>2. Truth(Satisfied(constraints[a], model)) \in Values
      BY TruthIsValue
    <3>3. a \in Known BY <1>2 DEF Known
    <3>4. QED BY <1>1, <3>1, <3>2, <3>3, AssignedKnown
  <2>3. QED BY <1>1, <2>1, <2>2
<1>4. BoundsKnown' /\ EntriesDated'
  BY <1>1, <1>3, BoundsLeftAlone DEF PluginInv
<1>5. WalkKnown' BY <1>1 DEF PluginInv, WalkKnown, Known
<1>6. QED BY <1>1, <1>3, <1>4, <1>5, Frame DEF Good, PluginInv

LEMMA DecidingSteps ==
  ASSUME PluginInv, DecideAtom \/ BcpAssign
  PROVE  Good
<1> USE DEF trailVars, boundVars, watchVars, walkVars, conflictVars
<1>1. UNCHANGED <<cursor, constraints, bounds, changed, order, watched, seen, walk, blame>>
  BY DEF DecideAtom, BcpAssign, LoopUnchanged
<1>2. PICK a \in DOMAIN constraints, b \in BOOLEAN :
        /\ \/ Decide(a, Truth(b))
           \/ \E reason \in Reasons \cup {NoReason} : \E level : Propagate(a, Truth(b), reason, level)
        /\ Stamp(a)
  BY DEF DecideAtom, BcpAssign
<1>3. TrailKnown' /\ RealsNeedTime' /\ TimesOK' /\ TimeStep /\ Kept
  <2>1. a \in Known /\ Truth(b) \in Values BY TruthIsValue DEF Known
  <2>2. QED BY <1>1, <1>2, <2>1, AssignedKnown
<1>4. BoundsKnown' /\ EntriesDated'
  BY <1>1, <1>3, BoundsLeftAlone DEF PluginInv
<1>5. QED BY <1>1, <1>3, <1>4, Frame DEF Good, PluginInv

LEMMA DecideRealStep ==
  ASSUME PluginInv, DecideReal
  PROVE  Good
<1> USE DEF trailVars, boundVars, watchVars, walkVars, conflictVars
<1>1. UNCHANGED <<cursor, constraints, changed, order, watched, seen, walk, blame>>
  BY DEF DecideReal
<1>2. PICK r \in InUse, x \in RealValues : Decide(r, x) /\ Stamp(r) /\ AskAll(r)
  BY DEF DecideReal
<1>3. r \in RealVars
  <2>1. \A a \in DOMAIN constraints : VarsOf(a) \subseteq RealVars
    BY KnownVars DEF PluginInv, ConstraintsKnown, VarsOf, Constraint
  <2>2. QED BY <2>1 DEF InUse
<1>4. TrailKnown' /\ RealsNeedTime' /\ TimesOK' /\ TimeStep /\ Kept
  <2>1. r \in Known /\ x \in Values BY <1>3, PluginAssumption DEF Known
  <2>2. QED BY <1>1, <1>2, <2>1, AssignedKnown
<1>5. BoundsKnown' /\ EntriesDated'
  <2>1. PICK E : bounds \in [RealVars -> [ub : Seq(E), lb : Seq(E), disallowed : Seq(E)]]
    BY DEF PluginInv, BoundsKnown
  <2>2. bounds[r].ub \in Seq(E) /\ bounds[r].lb \in Seq(E) /\ bounds[r].disallowed \in Seq(E)
    BY <1>3, <2>1
  <2> DEFINE list == InForce(bounds[r].disallowed, r)
  <2>3. bounds' = [bounds EXCEPT ![r] =
                     [ub |-> upper_bound(r), lb |-> lower_bound(r), disallowed |-> list]]
    BY <1>2 DEF AskAll
  <2>4. /\ upper_bound(r) \in Seq(E) /\ ToSet(upper_bound(r)) \subseteq ToSet(bounds[r].ub) \cup {}
        /\ lower_bound(r) \in Seq(E) /\ ToSet(lower_bound(r)) \subseteq ToSet(bounds[r].lb) \cup {}
    BY <2>2, PrunedElements DEF upper_bound, lower_bound
  <2>5. list \in Seq(E) /\ ToSet(list) \subseteq ToSet(bounds[r].disallowed) \cup {}
    BY <2>2, InForceElements
  <2> HIDE DEF list
  <2>6. changed' \in SUBSET RealVars BY <1>1 DEF PluginInv, BoundsKnown
  <2>7. OnlyNew(r, {})
    BY <1>3, <2>1, <2>3, <2>4, <2>5, <2>6, ReplaceStacks
  <2>8. QED BY <1>4, <2>7, EntriesStay DEF PluginInv
<1>6. QED BY <1>1, <1>4, <1>5, Frame DEF Good, PluginInv

LEMMA BacktrackingSteps ==
  ASSUME PluginInv, BacktrackToLevel \/ Restart
  PROVE  Good
<1> USE DEF trailVars, boundVars, watchVars, walkVars, conflictVars
<1>1. /\ UNCHANGED <<stamp, clock, constraints, bounds, changed, order, watched, seen, walk, blame>>
      /\ cursor' = ResetCursor
      /\ (\E l \in 0..(decision_level - 1) : Backtrack(l)) \/ Clear
  BY DEF BacktrackToLevel, Restart, LoopUnchanged
<1>2. TrailKnown' /\ RealsNeedTime' /\ TimeStep
  BY <1>1, BacktrackStep DEF PluginInv
<1>3. QED BY <1>1, <1>2, Frame DEF Good, PluginInv

-----------------------------------------------------------------------------
(* Derived constraints.                                                    *)

\* Linear_constraints::make finds the atom or adds one.
LEMMA MakeStep ==
  ASSUME ConstraintsKnown, NEW p, DOMAIN p.coef \in (SUBSET RealVars) \ {{}},
         Make(p), AtomFor(p) <= MaxAtoms
  PROVE  /\ ConstraintsKnown' /\ Kept
         /\ AtomFor(p) \in DOMAIN constraints'
         /\ ~IsNew(p) => UNCHANGED constraints
         /\ IsNew(p) => /\ AtomFor(p) = Len(constraints) + 1
                        /\ Len(constraints') = Len(constraints) + 1
                        /\ DOMAIN constraints'[AtomFor(p)].coef = DOMAIN p.coef
<1>1. PICK C : constraints \in Seq(C) BY DEF ConstraintsKnown
<1>2. DOMAIN constraints = 1..Len(constraints) /\ Len(constraints) \in Nat
  BY <1>1
<1>3. AtomFor(p) \in DOMAIN constraints \/ AtomFor(p) = Len(constraints) + 1
  BY DEF AtomFor
<1>4. DOMAIN Normalized(p).coef = DOMAIN p.coef BY DEF Normalized
<1>5. CASE ~IsNew(p)
  <2>1. UNCHANGED constraints BY <1>5 DEF Make
  <2>2. AtomFor(p) \in DOMAIN constraints BY <1>2, <1>3, <1>5 DEF IsNew
  <2>3. QED BY <1>5, <2>1, <2>2 DEF ConstraintsKnown, Kept
<1>6. CASE IsNew(p)
  <2> DEFINE c == Normalized(p)
             D == C \cup {c}
  <2>1. AtomFor(p) = Len(constraints) + 1 BY <1>2, <1>3, <1>6 DEF IsNew
  <2>2. constraints' = Append(constraints, c) BY <1>6 DEF Make
  <2>3. DOMAIN c.coef = DOMAIN p.coef BY <1>4
  <2> HIDE DEF c
  <2>4. constraints \in Seq(D) /\ c \in D BY <1>1, SeqGrows
  <2> HIDE DEF D
  <2>5. /\ constraints' \in Seq(D) /\ Len(constraints') = Len(constraints) + 1
        /\ DOMAIN constraints' = 1..(Len(constraints) + 1)
        /\ constraints'[Len(constraints) + 1] = c
        /\ \A a \in 1..Len(constraints) : constraints'[a] = constraints[a]
    BY <2>2, <2>4
  <2>6. Kept BY <1>2, <2>5 DEF Kept
  <2>7. \A a \in DOMAIN constraints' :
          DOMAIN constraints'[a].coef \in (SUBSET RealVars) \ {{}}
    <3> SUFFICES ASSUME NEW a \in DOMAIN constraints'
                 PROVE  DOMAIN constraints'[a].coef \in (SUBSET RealVars) \ {{}}
      OBVIOUS
    <3>1. CASE a = Len(constraints) + 1 BY <2>3, <2>5, <3>1
    <3>2. CASE a # Len(constraints) + 1
      <4>1. a \in 1..Len(constraints) BY <1>2, <2>5, <3>2
      <4>2. QED BY <1>2, <2>5, <4>1 DEF ConstraintsKnown
    <3>3. QED BY <3>1, <3>2
  <2>8. ConstraintsKnown' BY <2>1, <2>5, <2>7 DEF ConstraintsKnown
  <2>9. QED BY <1>2, <1>6, <2>1, <2>3, <2>5, <2>6, <2>8
<1>7. QED BY <1>5, <1>6

\* A new constraint is listed with its variables and watched.
LEMMA WatchStep ==
  ASSUME ConstraintsKnown, ConstraintsKnown', Kept, OrderKnown, WatchedKnown,
         NEW a, a = Len(constraints) + 1, Len(constraints') = Len(constraints) + 1,
         NEW vs \in Seq(RealVars), Range(vs) = DOMAIN constraints'[a].coef, Watch(a, vs)
  PROVE  OrderKnown' /\ WatchedKnown'
<1>1. DOMAIN constraints = 1..Len(constraints) /\ Len(constraints) \in Nat
  BY KnownVars
<1>2. PICK C : constraints' \in Seq(C) BY DEF ConstraintsKnown
<1>3. DOMAIN constraints' = 1..(Len(constraints) + 1) /\ a \in DOMAIN constraints'
  BY <1>1, <1>2
<1>4. OrderKnown'
  <2> DEFINE A == Seq(RealVars)
  <2>1. order \in Seq(A) /\ vs \in A /\ order' = Append(order, vs) /\ Len(order) = Len(constraints)
    BY DEF OrderKnown, Watch
  <2> HIDE DEF A
  <2>2. /\ order' \in Seq(A) /\ Len(order') = Len(constraints) + 1
        /\ order'[Len(constraints) + 1] = vs
        /\ DOMAIN order = 1..Len(constraints)
        /\ DOMAIN order' = 1..(Len(constraints) + 1)
        /\ \A b \in 1..Len(constraints) : order'[b] = order[b]
    BY <2>1
  <2>3. ASSUME NEW b \in DOMAIN order'
        PROVE  Range(order'[b]) = DOMAIN constraints'[b].coef
    <3>1. CASE b = Len(constraints) + 1 BY <2>2, <3>1
    <3>2. CASE b # Len(constraints) + 1
      <4>1. b \in 1..Len(constraints) BY <1>1, <2>2, <3>2
      <4>2. QED BY <1>1, <2>2, <4>1 DEF OrderKnown, Kept
    <3>3. QED BY <3>1, <3>2
  <2>4. QED BY <2>2, <2>3 DEF OrderKnown, A
<1>5. WatchedKnown'
  <2> DEFINE new == [atom |-> a, index |-> FirstIndex(vs)]
  <2>1. new \in Watches' BY <1>3 DEF Watches, FirstIndex
  <2>2. Watches \subseteq Watches' BY <1>1, <1>3 DEF Watches
  <2>3. \A r \in RealVars : watched[r] \in Seq(Watches')
    <3>1. \A r \in RealVars : watched[r] \in Seq(Watches)
      BY DEF WatchedKnown, Watches
    <3>2. QED BY <2>2, <3>1, SeqGrows
  <2>4. \E R : watched' = [r \in RealVars |-> IF r \in R THEN Append(watched[r], new) ELSE watched[r]]
    BY DEF Watch
  <2> HIDE DEF new
  <2>5. \A r \in RealVars : Append(watched[r], new) \in Seq(Watches')
    BY <2>1, <2>3
  <2>6. watched' \in [RealVars -> Seq(Watches')] BY <2>3, <2>4, <2>5
  <2>7. QED BY <2>6 DEF WatchedKnown, Watches
<1>6. QED BY <1>4, <1>5

LEMMA DeriveStep ==
  ASSUME PluginInv, Derive
  PROVE  Good
<1> USE DEF trailVars, boundVars, watchVars, walkVars, conflictVars
<1> DEFINE p == Head(blame.polys)
           a == AtomFor(p)
           polys == Tail(blame.polys)
<1>1. /\ UNCHANGED <<cursor, bounds, changed, seen, walk>>
      /\ blame.polys # << >> /\ DOMAIN p.coef # {}
      /\ a <= MaxAtoms /\ Make(p)
      /\ IF IsNew(p) THEN \E vs \in SortedBy(DOMAIN p.coef, LaterFirst) : Watch(a, vs)
                     ELSE UNCHANGED <<order, watched>>
      /\ \/ UNCHANGED <<trail, model, stamp, clock>>
         \/ PropagateConstraint(a, Normalized(p))
      /\ \E lits : blame' = [lits |-> lits, polys |-> polys]
  BY DEF Derive, explaining, Trivial
<1>2. BlameKnown' /\ DOMAIN p.coef \subseteq RealVars
  BY <1>1, TailOfBlame DEF PluginInv
<1>3. DOMAIN p.coef \in (SUBSET RealVars) \ {{}} BY <1>1, <1>2
<1> HIDE DEF p, polys
<1>4. /\ ConstraintsKnown' /\ Kept /\ a \in DOMAIN constraints'
      /\ ~IsNew(p) => UNCHANGED constraints
      /\ IsNew(p) => /\ a = Len(constraints) + 1
                     /\ Len(constraints') = Len(constraints) + 1
                     /\ DOMAIN constraints'[a].coef = DOMAIN p.coef
  BY <1>1, <1>3, MakeStep DEF PluginInv
<1> HIDE DEF a
<1>5. OrderKnown' /\ WatchedKnown'
  <2>1. CASE ~IsNew(p) BY <1>1, <1>4, <2>1, Frame
  <2>2. CASE IsNew(p)
    <3>1. PICK vs \in SortedBy(DOMAIN p.coef, LaterFirst) : Watch(a, vs)
      BY <1>1, <2>2
    <3>2. IsFiniteSet(DOMAIN p.coef)
      BY <1>3, RealVarsAssumption, FS_Subset
    <3>3. vs \in Bijection(1..Cardinality(DOMAIN p.coef), DOMAIN p.coef)
      BY <3>1 DEF SortedBy
    <3>4. vs \in Seq(DOMAIN p.coef) /\ Range(vs) = DOMAIN p.coef
      BY <3>2, <3>3, BijectionIsList
    <3>5. vs \in Seq(RealVars) BY <1>2, <3>4, SeqGrows
    <3>6. QED BY <1>4, <2>2, <3>1, <3>4, <3>5, WatchStep DEF PluginInv
  <2>3. QED BY <2>1, <2>2
<1>6. Known \subseteq Known' BY <1>4 DEF Known, Kept
<1>7. a \in Known' /\ a \in Vars
  <2>1. PICK C : constraints' \in Seq(C) BY <1>4 DEF ConstraintsKnown
  <2>2. a \in Nat /\ a >= 1 BY <1>4, <2>1
  <2>3. a \in 1..MaxAtoms BY <1>1, <2>2, PluginAssumption
  <2>4. QED BY <1>4, <2>3, PluginAssumption DEF Known
<1>8. TrailKnown' /\ RealsNeedTime' /\ TimeStep
  <2>1. CASE UNCHANGED <<trail, model, stamp, clock>>
    <3>1. TimeStep /\ RealsNeedTime' BY <1>1, <2>1, Frame
    <3>2. trail \in Seq(Seq(Entry'))
      <4> DEFINE A == Seq(Entry)
                 B == Seq(Entry')
      <4>1. A \subseteq B
        <5>1. Entry \subseteq Entry' BY <1>6 DEF Entry
        <5>2. QED BY <5>1, SeqGrows
      <4>2. trail \in Seq(A) BY DEF PluginInv, TrailKnown, Entry
      <4> HIDE DEF A, B
      <4>3. trail \in Seq(B) BY <4>1, <4>2, SeqGrows
      <4>4. QED BY <4>3 DEF B
    <3>3. TrailKnown'
      BY <1>1, <2>1, <3>2 DEF PluginInv, TrailKnown, Entry
    <3>4. QED BY <3>1, <3>3
  <2>2. CASE PropagateConstraint(a, Normalized(p))
    <3> DEFINE value == Truth(Satisfied(Normalized(p), model))
    <3>1. /\ \E reason \in Reasons \cup {NoReason} : \E level : Propagate(a, value, reason, level)
          /\ Stamp(a)
      BY <2>2 DEF PropagateConstraint
    <3>2. value \in Values BY TruthIsValue
    <3> HIDE DEF value
    <3>3. QED BY <1>1, <1>4, <1>7, <3>1, <3>2, AssignmentStep DEF PluginInv
  <2>3. QED BY <1>1, <2>1, <2>2
<1>9. TimesOK' BY <1>8, TimesStay DEF PluginInv
<1>10. BoundsKnown' /\ EntriesDated'
  BY <1>1, <1>4, <1>8, BoundsLeftAlone DEF PluginInv
<1>11. WalkKnown'
  <2>1. seen \in Seq(Known') BY <1>6, SeqGrows DEF PluginInv, WalkKnown
  <2>2. QED BY <1>1, <2>1 DEF PluginInv, WalkKnown
<1>12. QED BY <1>2, <1>4, <1>5, <1>8, <1>9, <1>10, <1>11 DEF Good, PluginInv

-----------------------------------------------------------------------------
(* The theorem.                                                            *)

LEMMA InitOK ==
  ASSUME Init
  PROVE  PluginInv
<1>1. /\ constraints \in Seq(Given) /\ Len(constraints) <= MaxAtoms
  BY PluginAssumption DEF Init
<1>2. ConstraintsKnown
  <2>1. \A a \in DOMAIN constraints : constraints[a] \in Given BY <1>1
  <2>2. \A c \in Given : DOMAIN c.coef \in (SUBSET RealVars) \ {{}}
    BY DEF Given
  <2>3. QED BY <1>1, <2>1, <2>2 DEF ConstraintsKnown
<1>3. DOMAIN constraints = 1..Len(constraints) /\ Len(constraints) \in Nat
  BY <1>1
<1>4. /\ DOMAIN order = DOMAIN constraints
      /\ \A a \in DOMAIN constraints : order[a] \in SortedBy(DOMAIN constraints[a].coef, <)
      /\ order = [a \in DOMAIN constraints |-> order[a]]
  BY DEF Init, Orders
<1>5. ASSUME NEW a \in DOMAIN constraints
      PROVE  order[a] \in Seq(RealVars) /\ Range(order[a]) = DOMAIN constraints[a].coef
  <2> DEFINE D == DOMAIN constraints[a].coef
  <2>1. D \subseteq RealVars /\ IsFiniteSet(D)
    BY <1>2, RealVarsAssumption, FS_Subset DEF ConstraintsKnown
  <2>2. order[a] \in Bijection(1..Cardinality(D), D)
    BY <1>4 DEF SortedBy
  <2> HIDE DEF D
  <2>3. order[a] \in Seq(D) /\ Range(order[a]) = D
    BY <2>1, <2>2, BijectionIsList
  <2>4. order[a] \in Seq(RealVars) BY <2>1, <2>3, SeqGrows
  <2>5. QED BY <2>3, <2>4 DEF D
<1>6. OrderKnown
  <2> DEFINE A == Seq(RealVars)
  <2>1. order \in [1..Len(constraints) -> A] BY <1>3, <1>4, <1>5
  <2> HIDE DEF A
  <2>2. order \in Seq(A) /\ Len(order) = Len(constraints)
    BY <1>3, <2>1, FunctionIsSeq
  <2>3. QED BY <1>4, <1>5, <2>2 DEF OrderKnown, A
<1>7. WatchedKnown
  <2>1. ASSUME NEW r \in RealVars
        PROVE  WatchesOf(r, order) \in Seq(Watches)
    <3> DEFINE atoms == [a \in DOMAIN order |-> a]
               keep == {a \in DOMAIN order : \E k \in DOMAIN order[a] : k <= 2 /\ order[a][k] = r}
               mine == Chosen(atoms, keep)
               list == [k \in DOMAIN mine |-> [atom |-> mine[k], index |-> FirstIndex(order[mine[k]])]]
    <3>1. WatchesOf(r, order) = list BY DEF WatchesOf
    <3>2. atoms \in Seq(DOMAIN constraints)
      <4>1. atoms \in [1..Len(constraints) -> DOMAIN constraints]
        BY <1>3, <1>4
      <4>2. QED BY <1>3, <4>1, FunctionIsSeq
    <3> HIDE DEF atoms, keep
    <3>3. mine \in Seq(DOMAIN constraints) BY <3>2, ChosenElements
    <3> HIDE DEF mine
    <3>4. DOMAIN mine = 1..Len(mine) /\ Len(mine) \in Nat BY <3>3
    <3>5. \A k \in DOMAIN mine : mine[k] \in DOMAIN constraints
      BY <3>3, <3>4
    <3>6. \A k \in DOMAIN mine : FirstIndex(order[mine[k]]) \in Int
      BY <1>5, <3>5 DEF FirstIndex
    <3>7. list \in [1..Len(mine) -> Watches]
      BY <3>4, <3>5, <3>6 DEF Watches
    <3>8. list \in Seq(Watches) BY <3>4, <3>7, FunctionIsSeq
    <3>9. QED BY <3>1, <3>8
  <2>2. watched = [r \in RealVars |-> WatchesOf(r, order)] BY DEF Init
  <2>3. watched \in [RealVars -> Seq(Watches)] BY <2>1, <2>2
  <2>4. QED BY <2>3 DEF WatchedKnown, Watches
<1>8. TrailKnown /\ RealsNeedTime
  <2>1. /\ trail = << << >> >> /\ model = [v \in Vars |-> Undef]
        /\ cursor = [level |-> 0, next |-> 0] /\ seen = << >>
    BY DEF Init, TrailInit
  <2> DEFINE A == Seq(Entry)
  <2>2. << >> \in A OBVIOUS
  <2> HIDE DEF A
  <2>3. trail \in Seq(A) /\ Len(trail) >= 1 BY <2>1, <2>2
  <2>4. TrailKnown BY <2>1, <2>3 DEF TrailKnown, A, Entry
  <2>5. RealsNeedTime
    BY <2>1, PluginAssumption DEF RealsNeedTime, is_defined
  <2>6. QED BY <2>4, <2>5
<1>9. WalkKnown BY DEF Init, WalkKnown
<1>10. BlameKnown
  <2>1. blame = [lits |-> {}, polys |-> << >>] BY DEF Init, NoBlame
  <2>2. << >> \in Seq({}) /\ {} \in {{}} /\ DOMAIN << >> = {} OBVIOUS
  <2>3. blame \in [lits : {{}}, polys : Seq({})] /\ DOMAIN blame.polys = {}
    BY <2>1, <2>2
  <2>4. QED BY <2>3 DEF BlameKnown
<1>11. TimesOK BY DEF Init, BoundsInit, TimesOK, ModelOf
<1>12. BoundsKnown /\ EntriesDated
  <2>1. /\ bounds = [r \in RealVars |-> [ub |-> << >>, lb |-> << >>, disallowed |-> << >>]]
        /\ changed = {}
    BY DEF Init, BoundsInit
  <2>2. << >> \in Seq({}) OBVIOUS
  <2>3. bounds \in [RealVars -> [ub : Seq({}), lb : Seq({}), disallowed : Seq({})]]
    BY <2>1, <2>2
  <2>4. BoundsKnown BY <2>1, <2>3 DEF BoundsKnown
  <2>5. \A r \in RealVars : Entries(r) = {} BY <2>1 DEF Entries, ToSet
  <2>6. QED BY <2>4, <2>5 DEF EntriesDated
<1>13. QED BY <1>2, <1>6, <1>7, <1>8, <1>9, <1>10, <1>11, <1>12 DEF PluginInv

LEMMA NextOK ==
  ASSUME PluginInv, [Next]_vars
  PROVE  Good
<1>1. CASE UNCHANGED vars
  <2>1. UNCHANGED <<trail, model, cursor, constraints, bounds, changed, stamp, clock, order,
                    watched, seen, walk, blame>>
    BY <1>1 DEF vars, trailVars, boundVars, watchVars, walkVars, conflictVars
  <2>2. QED BY <2>1, Frame DEF Good, PluginInv
<1>2. CASE StartPropagate \/ SeeReal \/ WalkDone \/ ReadDone \/ Report \/ DropTrivial \/ CheckDone
             \/ BcpConflict
  BY <1>2, LookingSteps
<1>3. CASE SeeAtom BY <1>3, SeeAtomStep
<1>4. CASE MoveWatch BY <1>4, MoveWatchStep
<1>5. CASE VisitUnit BY <1>5, VisitUnitStep
<1>6. CASE VisitAssigned BY <1>6, VisitAssignedStep
<1>7. CASE CheckBounds BY <1>7, CheckBoundsStep
<1>8. CASE Derive BY <1>8, DeriveStep
<1>9. CASE DecideReal BY <1>9, DecideRealStep
<1>10. CASE DecideAtom \/ BcpAssign BY <1>10, DecidingSteps
<1>11. CASE BacktrackToLevel \/ Restart BY <1>11, BacktrackingSteps
<1>12. QED BY <1>1, <1>2, <1>3, <1>4, <1>5, <1>6, <1>7, <1>8, <1>9, <1>10, <1>11 DEF Next, PluginStep

\* A step never brings an obsolete entry back, since what makes it obsolete
\* is a time that has passed or a value that can only be given again later.
LEMMA StepKeepsObsolete ==
  ASSUME PluginInv, [Next]_vars, NEW r \in RealVars, NEW e \in Entries(r), IsObsolete(e, r)
  PROVE  IsObsolete(e, r)'
<1>1. TimeStep /\ Kept BY NextOK DEF Good
<1>2. Dated(e, r) BY DEF PluginInv, EntriesDated
<1>3. ConstraintsKnown /\ TimesOK /\ model \in [Vars -> Values \cup {Undef}]
  BY DEF PluginInv, TrailKnown
<1>4. QED BY <1>1, <1>2, <1>3, ObsoleteStays


\* The variables an entry made from lit for r depends on.
Members(lit, r) == {AtomOf(lit)} \cup Others(lit, r)

-----------------------------------------------------------------------------
(* The trail and what the plugin has read of it.                           *)

\* A variable with a value is listed on its own level, and what is listed has
\* a value and belongs there or lower.
LevelsOK ==
  /\ var_level \in [Vars -> Int]
  /\ \A v \in Vars : is_defined(v) =>
       /\ var_level[v] \in 0..decision_level
       /\ \E k \in DOMAIN trail[var_level[v] + 1] : trail[var_level[v] + 1][k].var = v
  /\ \A l \in DOMAIN trail : \A k \in DOMAIN trail[l] :
       is_defined(trail[l][k].var) /\ var_level[trail[l][k].var] < l

\* A rational variable is the decision of its level.
RealsFirst ==
  \A l \in DOMAIN trail : \A k \in DOMAIN trail[l] :
    trail[l][k].var \in RealVars => k = 1 /\ var_level[trail[l][k].var] = l - 1

\* A constraint that is listed above its own level has been propagated by its
\* variables.
AtomsLow ==
  \A l \in DOMAIN trail : \A k \in DOMAIN trail[l] :
    LET a == trail[l][k].var IN
    a \notin RealVars /\ var_level[a] < l - 1 =>
      \A r \in VarsOf(a) : is_defined(r) /\ var_level[r] <= var_level[a]

\* What is still to be looked at is on the top level, a rational variable
\* first.
PlacesOK ==
  /\ pc \in {"bcp", "theory", "read", "check", "decide", "conflict", "learn"}
  /\ \A k \in DOMAIN seen : \E j \in DOMAIN recent : seen[k] = recent[j].var
  /\ \A k \in DOMAIN seen : seen[k] \in RealVars => k = 1
  /\ cursor.level <= decision_level
  /\ cursor.level = decision_level => cursor.next <= Len(recent)
  /\ pc # "read" => seen = << >> /\ walk = 0
  /\ pc = "decide" => Unseen = << >>
  /\ blame # NoBlame => pc = "check"

\* Rational variables whose new values the plugin has yet to work through.
Arrived ==
  {r \in RealVars :
     \/ pc = "theory" /\ \E k \in DOMAIN Unseen : Unseen[k].var = r
     \/ pc = "read" /\ \E k \in DOMAIN seen : seen[k] = r}

\* The watch of a by s has not been visited since s got its value.
Due(s, a) ==
  /\ s \in Arrived
  /\ walk > 0 => \E k \in DOMAIN watched[s] : k >= walk /\ watched[s][k].atom = a

\* A new value of a has not been looked at.
Pending(a) ==
  /\ pc # "learn"
  /\ \/ \E k \in DOMAIN seen : seen[k] = a
     \/ \E k \in DOMAIN Unseen : Unseen[k].var = a

-----------------------------------------------------------------------------
(* Constraints, polynomials and stacks.                                    *)

FormsOK == constraints \in Seq(Given) /\ Different(constraints)

PolyOK(p) ==
  /\ p.coef \in [DOMAIN p.coef -> Int] /\ p.const \in Int /\ p.pred \in {"eq", "lt", "leq"}
  /\ \A r \in DOMAIN p.coef : is_defined(r)

PolysOK == \A k \in DOMAIN blame.polys : PolyOK(blame.polys[k])

StampsOK == \A v \in Vars : is_defined(v) => stamp[v] \in Nat

StacksOK == bounds \in [RealVars -> [ub : Seq(Implieds), lb : Seq(Implieds), disallowed : Seq(Implieds)]]

-----------------------------------------------------------------------------
(* Watches.                                                                *)

IsWatched(a, r) == \E p \in DOMAIN order[a] : p <= 2 /\ order[a][p] = r

Watching(list) == {list[k].atom : k \in DOMAIN list}

\* No constraint is in a watch list twice.
Single(list) == \A j, k \in DOMAIN list : list[j].atom = list[k].atom => j = k

OrderOK == \A a \in DOMAIN order : \A p, q \in DOMAIN order[a] : order[a][p] = order[a][q] => p = q

\* A constraint is in the lists of its first two variables, once in each.
WatchesOK ==
  \A r \in RealVars :
    /\ \A a \in DOMAIN constraints : a \in Watching(watched[r]) <=> IsWatched(a, r)
    /\ Single(watched[r])
    /\ \A k \in DOMAIN watched[r] : watched[r][k].index \in DOMAIN order[watched[r][k].atom]

\* Where a watched variable has a value that was looked at, the other
\* variables got theirs before.
Tells(a) ==
  LET vs == order[a] IN
  /\ is_defined(vs[1]) /\ ~Due(vs[1], a) =>
       \A p \in DOMAIN vs : is_defined(vs[p]) /\ var_level[vs[p]] <= var_level[vs[1]]
  /\ Len(vs) > 1 /\ is_defined(vs[2]) /\ ~Due(vs[2], a) =>
       \A p \in 3..Len(vs) : is_defined(vs[p]) /\ var_level[vs[p]] <= var_level[vs[2]]

WatchesTell == \A a \in DOMAIN constraints : Tells(a)

-----------------------------------------------------------------------------
(* Values of the constraints.                                              *)

AllDefined(a) == \A r \in VarsOf(a) : is_defined(r)

AllVisited(a) == \A s \in RealVars : IsWatched(a, s) => ~Due(s, a)

\* A constraint is not a number.
TruthsOK == \A a \in DOMAIN constraints : is_defined(a) => model[a] \in {Truth(TRUE), Truth(FALSE)}

ValuesAgree ==
  \A a \in DOMAIN constraints : AllDefined(a) /\ is_defined(a) =>
    /\ True(a) = HoldsIn(a, model)
    /\ \E r \in VarsOf(a) : var_level[a] <= var_level[r]

ValuesGiven ==
  \A a \in DOMAIN constraints :
    AllDefined(a) /\ AllVisited(a) => is_defined(a)

-----------------------------------------------------------------------------
(* Entries of the stacks.                                                  *)

NoHigher(lit, other, r) ==
  \A s \in Members(lit, r) : \E t \in Members(other, r) : var_level[s] <= var_level[t]

EntriesAbout ==
  \A r \in RealVars :
    /\ \A e \in ToSet(bounds[r].ub) : BoundsFromAbove(e.lit, r)
    /\ \A e \in ToSet(bounds[r].lb) : BoundsFromBelow(e.lit, r)
    /\ \A e \in ToSet(bounds[r].disallowed) : IsInequality(e.lit)
    /\ \A e \in Entries(r) : r \in VarsOf(e.lit)

\* A live entry has the value its constraint implies.
EntriesRight ==
  \A r \in RealVars : \A e \in Entries(r) : ~IsObsolete(e, r) => e.value = ValueFor(e.lit, r)

StackOf(r, less) == IF less THEN bounds[r].ub ELSE bounds[r].lb

\* Every entry in force lies on entries in force that it improves and that
\* depend on nothing later.
NestedStack(stack, less, r) ==
  \A i, j \in DOMAIN stack :
    i < j /\ ~IsObsolete(stack[j], r) =>
      /\ ~IsObsolete(stack[i], r)
      /\ Better(less, stack[j], stack[i])
      /\ NoHigher(stack[i].lit, stack[j].lit, r)

Nested ==
  \A r \in RealVars : \A less \in BOOLEAN : \A stack \in {StackOf(r, less)} :
    NestedStack(stack, less, r)

\* a lacks r only, or did before r got its value.
UnitAt(a, r) ==
  /\ r \in VarsOf(a)
  /\ \A s \in Members(a, r) : is_defined(s)
  /\ is_defined(r) => \A s \in Members(a, r) : var_level[s] < var_level[r]

\* e is live and no worse than what lit implies for r, and will not be undone
\* before it.
Serves(e, lit, r) == ~IsObsolete(e, r) /\ NoHigher(e.lit, lit, r)

ServedBy(less, lit, r) ==
  \E e \in ToSet(StackOf(r, less)) :
    Serves(e, lit, r) /\ ~Better(less, [value |-> ValueFor(lit, r), lit |-> lit], e)

Covered(lit, r) ==
  /\ BoundsFromAbove(lit, r) => ServedBy(TRUE, lit, r)
  /\ BoundsFromBelow(lit, r) => ServedBy(FALSE, lit, r)
  /\ IsInequality(lit) =>
       \E e \in ToSet(bounds[r].disallowed) : Serves(e, lit, r) /\ e.value = ValueFor(lit, r)

\* The values of the other variables of a have been worked through.
NoneDue(a, r) == \A s \in Others(a, r) : IsWatched(a, s) => ~Due(s, a)

Ripe(a, r) == UnitAt(a, r) /\ ~Pending(a) /\ NoneDue(a, r)

\* What a constraint says of the one variable it lacks is on the stacks.
UnitsCovered ==
  \A a \in DOMAIN constraints : \A r \in RealVars :
    Ripe(a, r) => \A lit \in {TrueLit(a)} : Covered(lit, r)
-----------------------------------------------------------------------------
(* Assignments and backtracks, as far as levels are concerned.             *)

\* The lists of the trail after v is recorded at level.
ListsGrow(v, level) ==
  /\ Len(trail') \in Nat /\ DOMAIN trail' = 1..Len(trail') /\ Len(trail) <= Len(trail')
  /\ level + 1 \in DOMAIN trail'
  /\ \A l \in DOMAIN trail' : \A k \in DOMAIN trail'[l] :
       \/ trail'[l][k].var = v /\ level < l
       \/ l \in DOMAIN trail /\ k \in DOMAIN trail[l] /\ trail'[l][k] = trail[l][k]
  /\ \A l \in DOMAIN trail : \A k \in DOMAIN trail[l] :
       l \in DOMAIN trail' /\ k \in DOMAIN trail'[l] /\ trail'[l][k] = trail[l][k]
  /\ \E k \in DOMAIN trail'[level + 1] : trail'[level + 1][k].var = v

\* What the trail is made of.
TrailShape ==
  /\ Len(trail) \in Nat \ {0} /\ DOMAIN trail = 1..Len(trail)
  /\ decision_level = Len(trail) - 1 /\ decision_level \in Nat
  /\ \A l \in 1..Len(trail) :
       trail[l] \in Seq(Entry) /\ Len(trail[l]) \in Nat /\ DOMAIN trail[l] = 1..Len(trail[l])
  /\ recent \in Seq(Entry) /\ Len(recent) \in Nat /\ DOMAIN recent = 1..Len(recent)
  /\ recent = trail[Len(trail)]

LEMMA TrailLists == TrailKnown => TrailShape
<1> SUFFICES ASSUME TrailKnown
             PROVE  TrailShape
  OBVIOUS
<1> DEFINE A == Seq(Entry)
<1>1. trail \in Seq(A) /\ Len(trail) >= 1 BY DEF TrailKnown, Entry
<1> HIDE DEF A
<1>2. Len(trail) \in Nat \ {0} /\ DOMAIN trail = 1..Len(trail) /\ \A l \in 1..Len(trail) : trail[l] \in A
  BY <1>1
<1>3. recent \in A /\ recent = trail[Len(trail)] BY <1>2 DEF recent
<1>4. decision_level = Len(trail) - 1 /\ decision_level \in Nat
  BY <1>2 DEF decision_level
<1>5. \A s \in A : Len(s) \in Nat /\ DOMAIN s = 1..Len(s) BY DEF A
<1>6. QED BY <1>2, <1>3, <1>4, <1>5 DEF A, TrailShape

\* So it is after a step.
LEMMA TrailListsNext == TrailKnown' => TrailShape'
BY TrailLists, PTL

\* A list with an element more.
LEMMA Appended ==
  ASSUME NEW E, NEW s \in Seq(E), NEW e
  PROVE  /\ Len(Append(s, e)) = Len(s) + 1
         /\ DOMAIN Append(s, e) = 1..(Len(s) + 1)
         /\ Append(s, e)[Len(s) + 1] = e
         /\ \A k \in 1..Len(s) : Append(s, e)[k] = s[k]
<1> DEFINE F == E \cup {e}
<1>1. s \in Seq(F) /\ e \in F OBVIOUS
<1> HIDE DEF F
<1>2. QED BY <1>1

LEMMA RecordGrows ==
  ASSUME TrailKnown, NEW v, NEW value, NEW reason, NEW level \in 0..decision_level,
         Propagate(v, value, reason, level)
  PROVE  /\ ListsGrow(v, level) /\ Len(trail') = Len(trail)
         /\ recent' = Append(recent, [var |-> v, reason |-> reason])
<1> DEFINE e == [var |-> v, reason |-> reason]
<1>1. trail' = [i \in 1..Len(trail) |-> IF i > level THEN Append(trail[i], e) ELSE trail[i]]
  BY DEF Propagate
<1>2. e.var = v OBVIOUS
<1> HIDE DEF e
<1>3. /\ Len(trail) \in Nat \ {0} /\ DOMAIN trail = 1..Len(trail) /\ decision_level = Len(trail) - 1
      /\ \A l \in 1..Len(trail) :
           trail[l] \in Seq(Entry) /\ Len(trail[l]) \in Nat /\ DOMAIN trail[l] = 1..Len(trail[l])
  BY TrailLists DEF TrailShape
<1>4. DOMAIN trail' = 1..Len(trail) /\ Len(trail') = Len(trail)
  BY <1>1, <1>3
<1>5. ASSUME NEW l \in 1..Len(trail), l > level
      PROVE  /\ DOMAIN trail'[l] = 1..(Len(trail[l]) + 1)
             /\ trail'[l][Len(trail[l]) + 1] = e
             /\ \A k \in 1..Len(trail[l]) : trail'[l][k] = trail[l][k]
  <2>1. trail'[l] = Append(trail[l], e) BY <1>1, <1>5
  <2>2. trail[l] \in Seq(Entry) BY <1>3
  <2>3. PICK t : t = trail[l] OBVIOUS
  <2>4. PICK u : u = trail'[l] OBVIOUS
  <2>5. t \in Seq(Entry) /\ u = Append(t, e) BY <2>1, <2>2, <2>3, <2>4
  <2>6. /\ DOMAIN u = 1..(Len(t) + 1)
        /\ u[Len(t) + 1] = e
        /\ \A k \in 1..Len(t) : u[k] = t[k]
    BY <2>5, Appended
  <2>7. QED BY <2>3, <2>4, <2>6, ZenonT(60)
<1>6. ASSUME NEW l \in 1..Len(trail), ~(l > level)
      PROVE  trail'[l] = trail[l]
  BY <1>1, <1>6
<1>7. level + 1 \in 1..Len(trail) /\ level + 1 > level BY <1>3
<1>8. \A l \in DOMAIN trail' : \A k \in DOMAIN trail'[l] :
       \/ trail'[l][k].var = v /\ level < l
       \/ l \in DOMAIN trail /\ k \in DOMAIN trail[l] /\ trail'[l][k] = trail[l][k]
  <2>1. SUFFICES ASSUME NEW l \in 1..Len(trail), NEW k \in DOMAIN trail'[l]
                 PROVE  \/ trail'[l][k].var = v /\ level < l
                        \/ k \in DOMAIN trail[l] /\ trail'[l][k] = trail[l][k]
    BY <1>3, <1>4
  <2>2. CASE l > level
    <3>1. k \in 1..(Len(trail[l]) + 1) /\ Len(trail[l]) \in Nat
      BY <1>3, <1>5, <2>2
    <3>2. CASE k = Len(trail[l]) + 1
      <4>1. trail'[l][k] = e BY <1>5, <2>2, <3>2
      <4>2. level < l BY <2>2
      <4>3. QED BY <1>2, <4>1, <4>2, ZenonT(60)
    <3>3. CASE k \in 1..Len(trail[l])
      BY <1>3, <1>5, <2>2, <3>3, ZenonT(60)
    <3>4. QED BY <3>1, <3>2, <3>3
  <2>3. CASE ~(l > level) BY <1>6, <2>3, ZenonT(60)
  <2>4. QED BY <2>2, <2>3
<1>9. \A l \in DOMAIN trail : \A k \in DOMAIN trail[l] :
        l \in DOMAIN trail' /\ k \in DOMAIN trail'[l] /\ trail'[l][k] = trail[l][k]
  <2>1. SUFFICES ASSUME NEW l \in 1..Len(trail), NEW k \in 1..Len(trail[l])
                 PROVE  k \in DOMAIN trail'[l] /\ trail'[l][k] = trail[l][k]
    BY <1>3, <1>4
  <2>2. CASE l > level
    <3>1. k \in 1..(Len(trail[l]) + 1) BY <1>3
    <3>2. QED BY <1>5, <2>2, <3>1, ZenonT(60)
  <2>3. CASE ~(l > level) BY <1>3, <1>6, <2>3, ZenonT(60)
  <2>4. QED BY <2>2, <2>3
<1>10. \E k \in DOMAIN trail'[level + 1] : trail'[level + 1][k].var = v
  <2>1. Len(trail[level + 1]) + 1 \in 1..(Len(trail[level + 1]) + 1)
    BY <1>3, <1>7
  <2>2. QED BY <1>2, <1>5, <1>7, <2>1, ZenonT(60)
<1>11. recent' = Append(recent, e)
  <2>1. trail'[Len(trail)] = Append(trail[Len(trail)], e) BY <1>1, <1>3
  <2>2. QED BY <1>4, <2>1 DEF recent
<1>12. ListsGrow(v, level)
  <2>1. Len(trail') \in Nat /\ DOMAIN trail' = 1..Len(trail') /\ Len(trail) <= Len(trail')
        /\ level + 1 \in DOMAIN trail'
    BY <1>3, <1>4, <1>7
  <2>2. QED BY <1>8, <1>9, <1>10, <2>1, ZenonT(60) DEF ListsGrow
<1>13. QED BY <1>4, <1>11, <1>12 DEF e

LEMMA DecideGrows ==
  ASSUME TrailKnown, NEW v, NEW value, Decide(v, value)
  PROVE  /\ ListsGrow(v, decision_level + 1) /\ Len(trail') = Len(trail) + 1
         /\ recent' = <<[var |-> v, reason |-> NoReason]>>
<1> DEFINE e == [var |-> v, reason |-> NoReason]
           new == <<e>>
<1>1. trail' = Append(trail, new) BY DEF Decide
<1>2. e.var = v /\ DOMAIN new = {1} /\ new[1] = e OBVIOUS
<1> HIDE DEF e, new
<1>3. /\ Len(trail) \in Nat \ {0} /\ DOMAIN trail = 1..Len(trail) /\ decision_level = Len(trail) - 1
  BY TrailLists DEF TrailShape
<1>4. trail \in Seq(Seq(Entry)) BY DEF TrailKnown, Entry
<1>5. /\ Len(trail') = Len(trail) + 1 /\ DOMAIN trail' = 1..(Len(trail) + 1)
      /\ trail'[Len(trail) + 1] = new
      /\ \A l \in 1..Len(trail) : trail'[l] = trail[l]
  <2> DEFINE A == Seq(Entry)
  <2>1. trail \in Seq(A) BY <1>4
  <2> HIDE DEF A
  <2>2. QED BY <1>1, <2>1, Appended, ZenonT(60)
<1>6. \A l \in 1..(Len(trail) + 1) : l \in 1..Len(trail) \/ l = Len(trail) + 1
  BY <1>3
<1>7. \A l \in DOMAIN trail' : \A k \in DOMAIN trail'[l] :
       \/ trail'[l][k].var = v /\ decision_level + 1 < l
       \/ l \in DOMAIN trail /\ k \in DOMAIN trail[l] /\ trail'[l][k] = trail[l][k]
  <2>1. SUFFICES ASSUME NEW l \in 1..(Len(trail) + 1), NEW k \in DOMAIN trail'[l]
                 PROVE  \/ trail'[l][k].var = v /\ decision_level + 1 < l
                        \/ l \in DOMAIN trail /\ k \in DOMAIN trail[l] /\ trail'[l][k] = trail[l][k]
    BY <1>5
  <2>2. CASE l = Len(trail) + 1
    <3>1. decision_level + 1 < l BY <1>3, <2>2
    <3>2. trail'[l][k].var = v BY <1>2, <1>5, <2>2, ZenonT(60)
    <3>3. QED BY <3>1, <3>2
  <2>3. CASE l \in 1..Len(trail) BY <1>3, <1>5, <2>3, ZenonT(60)
  <2>4. QED BY <1>6, <2>2, <2>3
<1>8. \A l \in DOMAIN trail : \A k \in DOMAIN trail[l] :
        l \in DOMAIN trail' /\ k \in DOMAIN trail'[l] /\ trail'[l][k] = trail[l][k]
  <2>1. \A l \in 1..Len(trail) : l \in 1..(Len(trail) + 1) BY <1>3
  <2>2. QED BY <1>3, <1>5, <2>1, ZenonT(60)
<1>9. (decision_level + 1) + 1 = Len(trail) + 1 /\ Len(trail) + 1 \in DOMAIN trail'
  BY <1>3, <1>5
<1>10. \E k \in DOMAIN trail'[(decision_level + 1) + 1] : trail'[(decision_level + 1) + 1][k].var = v
  <2>1. trail'[(decision_level + 1) + 1] = new BY <1>5, <1>9, ZenonT(60)
  <2>2. QED BY <1>2, <2>1, ZenonT(60)
<1>11. recent' = new BY <1>5 DEF recent
<1>12. ListsGrow(v, decision_level + 1)
  <2>1. /\ Len(trail') \in Nat /\ DOMAIN trail' = 1..Len(trail') /\ Len(trail) <= Len(trail')
        /\ (decision_level + 1) + 1 \in DOMAIN trail'
    BY <1>3, <1>5, <1>9
  <2>2. QED BY <1>7, <1>8, <1>10, <2>1, ZenonT(60) DEF ListsGrow
<1>13. QED BY <1>5, <1>11, <1>12 DEF e, new

\* The invariant: what the other proofs of this module call LraI.
LraI ==
  /\ PluginInv
  /\ LevelsOK /\ RealsFirst /\ AtomsLow /\ PlacesOK
  /\ FormsOK /\ PolysOK /\ StampsOK /\ StacksOK
  /\ OrderOK /\ WatchesOK /\ WatchesTell
  /\ EntriesAbout /\ Nested

-----------------------------------------------------------------------------
(* What a step does to the trail: nothing, an assignment of a constraint,  *)
(* a decision of a rational variable, or a cut.                            *)

SameTrail == UNCHANGED <<trail, var_level, model, stamp, clock>>

Gets(v, value, level) ==
  /\ v \in Vars /\ ~is_defined(v) /\ value \in Values /\ level \in 0..decision_level'
  /\ model' = [model EXCEPT ![v] = value]
  /\ var_level' = [var_level EXCEPT ![v] = level]
  /\ Stamp(v)
  /\ ListsGrow(v, level)

\* A constraint gets its value on top or where its variables have theirs.
AtomGets(a, value, level) ==
  /\ Gets(a, value, level)
  /\ a \in DOMAIN constraints'
  /\ \/ level = decision_level'
     \/ \A r \in DOMAIN constraints'[a].coef : is_defined(r) /\ var_level[r] <= level

RealGets(r, value) ==
  /\ r \in RealVars
  /\ Gets(r, value, decision_level + 1) /\ Decide(r, value)
  /\ UNCHANGED constraints

\* The levels above l are left.
Cuts(l) ==
  /\ l \in Int /\ l <= decision_level' /\ (l >= 0 => l < decision_level /\ l = decision_level')
  /\ \A v \in Vars : /\ is_defined(v)' <=> is_defined(v) /\ var_level[v] <= l
                     /\ is_defined(v)' => model'[v] = model[v] /\ var_level'[v] = var_level[v]
  /\ var_level' \in [Vars -> Int]
  /\ UNCHANGED <<stamp, clock, constraints>>
  /\ \A i \in DOMAIN trail' : \A k \in DOMAIN trail'[i] :
       i \in DOMAIN trail /\ i <= l + 1 /\ trail'[i] = trail[i]
  /\ \A i \in 1..(l + 1) : i \in DOMAIN trail' /\ trail'[i] = trail[i]

TrailStep ==
  \/ SameTrail /\ Kept
  \/ (\E a, value, level : AtomGets(a, value, level)) /\ Kept
  \/ \E r, value : RealGets(r, value)
  \/ \E l : Cuts(l)

\* The constraints and their variables.
AtomFact(a) ==
  /\ a \in Vars /\ a \notin RealVars /\ a \in Nat \ {0} /\ AtomOf(a) = a /\ AtomOf(-a) = a
  /\ a \in 1..MaxAtoms
  /\ VarsOf(a) = DOMAIN constraints[a].coef
  /\ VarsOf(a) \in (SUBSET RealVars) \ {{}} /\ VarsOf(a) \subseteq Vars
  /\ TrueLit(a) \in {a, -a} /\ AtomOf(TrueLit(a)) = a /\ VarsOf(TrueLit(a)) = VarsOf(a)
  /\ Constraint(a) = constraints[a] /\ Constraint(TrueLit(a)) = constraints[a]
  /\ \A r : Others(TrueLit(a), r) = Others(a, r) /\ Others(a, r) = VarsOf(a) \ {r}

LEMMA AtomFacts == PluginInv => \A a \in DOMAIN constraints : AtomFact(a)
<1> SUFFICES ASSUME PluginInv, NEW a \in DOMAIN constraints
             PROVE  AtomFact(a)
  OBVIOUS
<1>1. /\ a \in Vars /\ a \notin RealVars /\ a \in Nat \ {0} /\ AtomOf(a) = a /\ AtomOf(-a) = a
      /\ a \in 1..MaxAtoms
  BY KnownVars DEF PluginInv, Known
<1>2. VarsOf(a) = DOMAIN constraints[a].coef /\ VarsOf(-a) = VarsOf(a)
      /\ Constraint(a) = constraints[a] /\ Constraint(-a) = constraints[a]
  BY <1>1 DEF VarsOf, Constraint
<1>3. VarsOf(a) \in (SUBSET RealVars) \ {{}} /\ VarsOf(a) \subseteq Vars
  BY <1>2, PluginAssumption DEF PluginInv, ConstraintsKnown
<1>4. TrueLit(a) \in {a, -a} BY DEF TrueLit
<1>5. QED BY <1>1, <1>2, <1>3, <1>4 DEF Others, AtomFact

LEMMA AtomFactsNext == PluginInv' => \A a \in DOMAIN constraints' : AtomFact(a)'
<1>1. (PluginInv => \A a \in DOMAIN constraints : AtomFact(a))'
  BY AtomFacts, PTL
<1>2. QED BY <1>1

\* A variable that is defined before and after a step is as it was.
LEMMA StepSame ==
  ASSUME LraI, TrailStep, NEW v \in Vars, is_defined(v), is_defined(v)'
  PROVE  model'[v] = model[v] /\ var_level'[v] = var_level[v] /\ stamp'[v] = stamp[v]
<1>1. var_level \in [Vars -> Int] /\ model \in [Vars -> Values \cup {Undef}] /\ stamp \in [Vars -> Int]
  BY DEF LraI, LevelsOK, PluginInv, TrailKnown, TimesOK
<1>2. CASE SameTrail BY <1>2 DEF SameTrail
<1>3. ASSUME NEW u, NEW value, NEW level, Gets(u, value, level)
      PROVE  model'[v] = model[v] /\ var_level'[v] = var_level[v] /\ stamp'[v] = stamp[v]
  <2>1. u # v BY <1>3 DEF Gets
  <2>2. QED BY <1>1, <1>3, <2>1 DEF Gets, Stamp
<1>4. ASSUME NEW l, Cuts(l)
      PROVE  model'[v] = model[v] /\ var_level'[v] = var_level[v] /\ stamp'[v] = stamp[v]
  BY <1>4 DEF Cuts
<1>5. QED BY <1>2, <1>3, <1>4 DEF TrailStep, AtomGets, RealGets

LEMMA KeptFromCuts ==
  ASSUME TrailStep
  PROVE  Kept
BY DEF TrailStep, Kept, RealGets, Cuts

-----------------------------------------------------------------------------
(* The trail's part of the invariant.                                      *)

\* Everything listed has a value, and what it lists is a variable.
LEMMA ListedKnown ==
  ASSUME PluginInv
  PROVE  \A l \in DOMAIN trail : \A k \in DOMAIN trail[l] :
           trail[l][k].var \in Known /\ trail[l][k].var \in Vars
<1>1. Known \subseteq Vars BY KnownVars DEF PluginInv
<1>2. \A e \in Entry : e.var \in Known BY DEF Entry
<1>3. DOMAIN trail = 1..Len(trail) /\ \A l \in 1..Len(trail) :
         trail[l] \in Seq(Entry) /\ Len(trail[l]) \in Nat /\ DOMAIN trail[l] = 1..Len(trail[l])
  BY TrailLists DEF PluginInv, TrailShape
<1>4. \A l \in 1..Len(trail) : \A k \in DOMAIN trail[l] : trail[l][k] \in Entry
  BY <1>3
<1>5. QED BY <1>1, <1>2, <1>3, <1>4

\* The values and levels after an assignment.
NewLevels(v, level) ==
  /\ \A u \in Vars : is_defined(u)' <=> u = v \/ is_defined(u)
  /\ \A u \in Vars : u # v => var_level'[u] = var_level[u] /\ model'[u] = model[u]
  /\ var_level'[v] = level
  /\ var_level' \in [Vars -> Int]

LEMMA GetsValue ==
  ASSUME LraI, NEW v, NEW value, NEW level, Gets(v, value, level), decision_level' \in Int
  PROVE  NewLevels(v, level)
<1>1. var_level \in [Vars -> Int] /\ model \in [Vars -> Values \cup {Undef}]
  BY DEF LraI, LevelsOK, PluginInv, TrailKnown
<1>2. /\ v \in Vars /\ value \in Values /\ level \in Int
      /\ model' = [model EXCEPT ![v] = value] /\ var_level' = [var_level EXCEPT ![v] = level]
  BY DEF Gets
<1>3. value # Undef BY <1>2, UndefAssumption
<1>4. QED BY <1>1, <1>2, <1>3 DEF NewLevels, is_defined

LEMMA GetsLevels ==
  ASSUME LraI, PluginInv', NEW v, NEW value, NEW level, Gets(v, value, level)
  PROVE  LevelsOK'
<1>1. /\ Len(trail) \in Nat /\ DOMAIN trail = 1..Len(trail) /\ decision_level = Len(trail) - 1
  BY TrailLists DEF LraI, PluginInv, TrailShape
<1>2. /\ Len(trail') \in Nat /\ DOMAIN trail' = 1..Len(trail') /\ decision_level' = Len(trail') - 1
  BY TrailListsNext DEF TrailShape, PluginInv
<1>3. NewLevels(v, level) BY <1>2, GetsValue
<1>4. ListsGrow(v, level) /\ ~is_defined(v) /\ level \in 0..decision_level'
  BY DEF Gets
<1>5. ASSUME NEW u \in Vars, is_defined(u)'
      PROVE  /\ var_level'[u] \in 0..decision_level'
             /\ \E k \in DOMAIN trail'[var_level'[u] + 1] : trail'[var_level'[u] + 1][k].var = u
  <2>1. CASE u = v BY <1>3, <1>4, <2>1 DEF NewLevels, ListsGrow
  <2>2. CASE u # v
    <3>1. is_defined(u) /\ var_level'[u] = var_level[u]
      BY <1>3, <1>5, <2>2 DEF NewLevels
    <3>2. PICK l : l = var_level[u] + 1 OBVIOUS
    <3>3. /\ var_level[u] \in 0..decision_level
          /\ \E k \in DOMAIN trail[l] : trail[l][k].var = u
      BY <3>1, <3>2 DEF LraI, LevelsOK
    <3>4. l \in DOMAIN trail /\ Len(trail) <= Len(trail')
      BY <1>1, <1>4, <3>2, <3>3 DEF ListsGrow
    <3>5. \E k \in DOMAIN trail'[l] : trail'[l][k].var = u
      BY <1>4, <3>3, <3>4 DEF ListsGrow
    <3>6. var_level[u] \in 0..decision_level' BY <1>1, <1>2, <3>3, <3>4
    <3>7. QED BY <3>1, <3>2, <3>5, <3>6
  <2>3. QED BY <2>1, <2>2
<1>6. ASSUME NEW l \in DOMAIN trail', NEW k \in DOMAIN trail'[l], NEW u, u = trail'[l][k].var
      PROVE  is_defined(u)' /\ var_level'[u] < l
  <2>1. CASE trail'[l][k].var = v /\ level < l
    <3>1. v \in Vars BY DEF Gets
    <3>2. QED BY <1>3, <1>6, <2>1, <3>1 DEF NewLevels
  <2>2. CASE l \in DOMAIN trail /\ k \in DOMAIN trail[l] /\ trail'[l][k] = trail[l][k]
    <3>1. u = trail[l][k].var BY <1>6, <2>2
    <3>2. u \in Vars /\ is_defined(u) /\ var_level[u] < l
      BY <2>2, <3>1, ListedKnown DEF LraI, LevelsOK
    <3>3. u # v BY <1>4, <3>2
    <3>4. QED BY <1>3, <3>2, <3>3 DEF NewLevels
  <2>3. QED BY <1>4, <1>6, <2>1, <2>2 DEF ListsGrow
<1>7. QED BY <1>3, <1>5, <1>6 DEF LevelsOK, NewLevels, is_defined

LEMMA GetsReals ==
  ASSUME LraI, PluginInv', NEW v, NEW value, NEW level, Gets(v, value, level),
         v \notin RealVars \/ Decide(v, value)
  PROVE  RealsFirst'
<1>1. /\ Len(trail) \in Nat /\ DOMAIN trail = 1..Len(trail) /\ decision_level = Len(trail) - 1
  BY TrailLists DEF LraI, PluginInv, TrailShape
<1>2. /\ Len(trail') \in Nat /\ DOMAIN trail' = 1..Len(trail') /\ decision_level' = Len(trail') - 1
  BY TrailListsNext DEF TrailShape, PluginInv
<1>3. NewLevels(v, level) BY <1>2, GetsValue
<1>4. ListsGrow(v, level) /\ ~is_defined(v) /\ level \in 0..decision_level'
  BY DEF Gets
<1>5. SUFFICES ASSUME NEW l \in DOMAIN trail', NEW k \in DOMAIN trail'[l], trail'[l][k].var \in RealVars
               PROVE  k = 1 /\ var_level'[trail'[l][k].var] = l - 1
  BY DEF RealsFirst
<1>6. CASE trail'[l][k].var = v /\ level < l
  <2>1. Decide(v, value) BY <1>5, <1>6
  <2>2. Len(trail') = Len(trail) + 1 /\ recent' = <<[var |-> v, reason |-> NoReason]>>
    BY <2>1, DecideGrows DEF LraI, PluginInv
  <2>3. var_level' = [var_level EXCEPT ![v] = decision_level + 1]
    BY <2>1 DEF Decide
  <2>4. var_level'[v] = decision_level + 1 /\ level = decision_level + 1
    BY <1>3, <2>3 DEF Gets, LraI, LevelsOK, NewLevels
  <2>5. l = Len(trail') BY <1>1, <1>2, <1>6, <2>2, <2>4
  <2>6. trail'[l] = recent' BY <2>5 DEF recent
  <2>7. DOMAIN recent' = {1} BY <2>2
  <2>8. k = 1 BY <2>6, <2>7
  <2>9. QED BY <1>1, <1>2, <1>6, <2>2, <2>4, <2>5, <2>8
<1>7. CASE l \in DOMAIN trail /\ k \in DOMAIN trail[l] /\ trail'[l][k] = trail[l][k]
  <2>1. PICK u : u = trail[l][k].var OBVIOUS
  <2>2. u \in Vars /\ is_defined(u)
    BY <1>7, <2>1, ListedKnown DEF LraI, LevelsOK
  <2>3. u \in RealVars BY <1>5, <1>7, <2>1
  <2>4. k = 1 /\ var_level[u] = l - 1
    BY <1>7, <2>1, <2>3 DEF LraI, RealsFirst
  <2>5. u # v BY <1>4, <2>2
  <2>6. var_level'[u] = var_level[u] BY <1>3, <2>2, <2>5 DEF NewLevels
  <2>7. QED BY <1>7, <2>1, <2>4, <2>6
<1>8. QED BY <1>4, <1>5, <1>6, <1>7 DEF ListsGrow

LEMMA GetsAtoms ==
  ASSUME LraI, PluginInv', Kept, NEW v, NEW value, NEW level, Gets(v, value, level),
         \/ v \in RealVars
         \/ level = decision_level'
         \/ \A r \in VarsOf(v)' : r \in Vars /\ is_defined(r) /\ var_level[r] <= level
  PROVE  AtomsLow'
<1>2. /\ Len(trail') \in Nat /\ DOMAIN trail' = 1..Len(trail') /\ decision_level' = Len(trail') - 1
  BY TrailListsNext DEF TrailShape, PluginInv
<1>3. NewLevels(v, level) BY <1>2, GetsValue
<1>4. ListsGrow(v, level) /\ ~is_defined(v) /\ level \in 0..decision_level'
  BY DEF Gets
<1>5. SUFFICES ASSUME NEW l \in DOMAIN trail', NEW k \in DOMAIN trail'[l],
                      NEW u, u = trail'[l][k].var, u \notin RealVars, var_level'[u] < l - 1,
                      NEW r \in VarsOf(u)'
               PROVE  is_defined(r)' /\ var_level'[r] <= var_level'[u]
  BY DEF AtomsLow, VarsOf, Constraint, is_defined
<1>6. CASE trail'[l][k].var = v /\ level < l
  <2>0. u = v BY <1>5, <1>6
  <2>1. level # decision_level'
    <3>1. var_level'[v] = level BY <1>3 DEF NewLevels
    <3>2. level < l - 1 BY <1>5, <2>0, <3>1
    <3>3. l \in 1..Len(trail') BY <1>2, <1>5
    <3>4. Len(trail') \in Nat /\ decision_level' = Len(trail') - 1
      BY <1>2
    <3>5. QED BY <3>2, <3>3, <3>4
  <2>2. r \in Vars /\ is_defined(r) /\ var_level[r] <= level
    BY <1>5, <2>0, <2>1
  <2>3. r # v BY <1>4, <2>2
  <2>4. QED BY <1>3, <2>0, <2>2, <2>3 DEF NewLevels
<1>7. CASE l \in DOMAIN trail /\ k \in DOMAIN trail[l] /\ trail'[l][k] = trail[l][k]
  <2>1. u = trail[l][k].var BY <1>5, <1>7
  <2>2. u \in Vars /\ is_defined(u) /\ u \in Known
    BY <1>7, <2>1, ListedKnown DEF LraI, LevelsOK
  <2>3. u \notin RealVars BY <1>5
  <2>4. u # v BY <1>4, <2>2
  <2>5. var_level'[u] = var_level[u] BY <1>3, <2>2, <2>4 DEF NewLevels
  <2>6. u \in DOMAIN constraints BY <2>2, <2>3 DEF Known
  <2>7. VarsOf(u)' = VarsOf(u) /\ VarsOf(u) \subseteq Vars
    <3>1. AtomOf(u) = u BY <2>6, AtomFacts DEF LraI, AtomFact
    <3>2. VarsOf(u)' = VarsOf(u)
      BY <2>6, <3>1 DEF Kept, VarsOf, Constraint
    <3>3. QED BY <2>6, <3>2, AtomFacts DEF LraI, AtomFact
  <2>8. r \in VarsOf(u) /\ var_level[u] < l - 1
    BY <1>5, <2>3, <2>5, <2>7
  <2>9. is_defined(r) /\ var_level[r] <= var_level[u]
    BY <1>7, <2>1, <2>3, <2>8 DEF LraI, AtomsLow
  <2>10. r # v /\ r \in Vars BY <1>4, <2>7, <2>8, <2>9
  <2>11. QED BY <1>3, <2>3, <2>5, <2>9, <2>10 DEF NewLevels
<1>8. QED BY <1>4, <1>5, <1>6, <1>7 DEF ListsGrow

\* A cut leaves the lists up to its level and what belongs there.
LEMMA CutsLevels ==
  ASSUME LraI, PluginInv', NEW l, Cuts(l)
  PROVE  LevelsOK' /\ RealsFirst' /\ AtomsLow'
<1>1. /\ Len(trail) \in Nat \ {0} /\ DOMAIN trail = 1..Len(trail) /\ decision_level = Len(trail) - 1
  BY TrailLists DEF LraI, PluginInv, TrailShape
<1>2. /\ Len(trail') \in Nat \ {0} /\ DOMAIN trail' = 1..Len(trail') /\ decision_level' = Len(trail') - 1
  BY TrailListsNext DEF TrailShape, PluginInv
<1>3. /\ l \in Int /\ l <= decision_level'
      /\ \A v \in Vars : /\ is_defined(v)' <=> is_defined(v) /\ var_level[v] <= l
                         /\ is_defined(v)' => model'[v] = model[v] /\ var_level'[v] = var_level[v]
      /\ var_level' \in [Vars -> Int]
      /\ UNCHANGED constraints
      /\ \A i \in DOMAIN trail' : \A k \in DOMAIN trail'[i] :
           i \in DOMAIN trail /\ i <= l + 1 /\ trail'[i] = trail[i]
      /\ \A i \in 1..(l + 1) : i \in DOMAIN trail' /\ trail'[i] = trail[i]
  BY DEF Cuts
<1>4. ASSUME NEW v \in Vars, is_defined(v)'
      PROVE  /\ var_level'[v] \in 0..decision_level'
             /\ \E k \in DOMAIN trail'[var_level'[v] + 1] : trail'[var_level'[v] + 1][k].var = v
  <2>1. is_defined(v) /\ var_level[v] <= l /\ var_level'[v] = var_level[v]
    BY <1>3, <1>4
  <2>2. PICK i : i = var_level[v] + 1 OBVIOUS
  <2>3. var_level[v] \in 0..decision_level /\ \E k \in DOMAIN trail[i] : trail[i][k].var = v
    BY <2>1, <2>2 DEF LraI, LevelsOK
  <2>4. i \in 1..(l + 1) /\ var_level[v] \in 0..decision_level'
    BY <1>1, <1>2, <1>3, <2>1, <2>2, <2>3
  <2>5. trail'[i] = trail[i] BY <1>3, <2>4
  <2>6. QED BY <2>1, <2>2, <2>3, <2>4, <2>5
<1>5. ASSUME NEW i \in DOMAIN trail', NEW k \in DOMAIN trail'[i], NEW u, u = trail'[i][k].var
      PROVE  /\ i \in DOMAIN trail /\ k \in DOMAIN trail[i] /\ u = trail[i][k].var
             /\ u \in Vars /\ u \in Known /\ is_defined(u) /\ var_level[u] < i
             /\ is_defined(u)' /\ var_level'[u] = var_level[u]
  <2>1. i \in DOMAIN trail /\ i <= l + 1 /\ trail'[i] = trail[i]
    BY <1>3, <1>5
  <2>2. u = trail[i][k].var /\ k \in DOMAIN trail[i] BY <1>5, <2>1
  <2>3. u \in Vars /\ u \in Known /\ is_defined(u) /\ var_level[u] < i
    BY <2>1, <2>2, ListedKnown DEF LraI, LevelsOK
  <2>4. var_level[u] <= l
    <3>1. var_level[u] \in Int /\ i \in Int
      BY <1>1, <2>1, <2>3 DEF LraI, LevelsOK
    <3>2. QED BY <1>3, <2>1, <2>3, <3>1
  <2>5. QED BY <1>3, <2>1, <2>2, <2>3, <2>4
<1>6. LevelsOK' BY <1>3, <1>4, <1>5 DEF LevelsOK, is_defined
<1>7. RealsFirst' BY <1>5 DEF LraI, RealsFirst
<1>8. AtomsLow'
  <2>1. SUFFICES ASSUME NEW i \in DOMAIN trail', NEW k \in DOMAIN trail'[i],
                        NEW u, u = trail'[i][k].var, u \notin RealVars, var_level'[u] < i - 1,
                        NEW r \in VarsOf(u)'
                 PROVE  is_defined(r)' /\ var_level'[r] <= var_level'[u]
    BY DEF AtomsLow, VarsOf, Constraint, is_defined
  <2>2. /\ i \in DOMAIN trail /\ k \in DOMAIN trail[i] /\ u = trail[i][k].var
        /\ u \in Vars /\ u \in Known /\ is_defined(u)
        /\ is_defined(u)' /\ var_level'[u] = var_level[u]
    BY <1>5, <2>1
  <2>3. r \in VarsOf(u) /\ u \notin RealVars /\ var_level[u] < i - 1
    BY <1>3, <2>1, <2>2 DEF VarsOf, Constraint
  <2>4. is_defined(r) /\ var_level[r] <= var_level[u]
    BY <2>2, <2>3 DEF LraI, AtomsLow
  <2>5. r \in Vars BY <2>2, <2>3, AtomFacts DEF Known, LraI, AtomFact
  <2>6. var_level[u] <= l /\ var_level[r] \in Int /\ var_level[u] \in Int
    BY <1>3, <2>2, <2>5 DEF LraI, LevelsOK
  <2>7. var_level[r] <= l BY <1>3, <2>4, <2>6
  <2>8. QED BY <1>3, <2>1, <2>2, <2>4, <2>5, <2>7
<1>9. QED BY <1>6, <1>7, <1>8

LEMMA LevelsStay ==
  ASSUME LraI, TrailStep, PluginInv'
  PROVE  LevelsOK' /\ RealsFirst' /\ AtomsLow'
<1>1. Kept BY KeptFromCuts
<1>2. CASE SameTrail
  <2>1. LevelsOK' /\ RealsFirst'
    BY <1>2 DEF LraI, LevelsOK, RealsFirst, SameTrail, is_defined, decision_level
  <2>2. AtomsLow'
    <3>1. \A a \in Known : a \notin RealVars => VarsOf(a)' = VarsOf(a)
      BY <1>1, AtomFacts DEF Kept, Known, VarsOf, Constraint, LraI, AtomFact
    <3>2. QED BY <1>2, <3>1, ListedKnown DEF LraI, AtomsLow, SameTrail, is_defined
  <2>3. QED BY <2>1, <2>2
<1>3. ASSUME NEW a, NEW value, NEW level, AtomGets(a, value, level)
      PROVE  LevelsOK' /\ RealsFirst' /\ AtomsLow'
  <2>1. Gets(a, value, level) /\ a \in DOMAIN constraints'
    BY <1>3 DEF AtomGets
  <2>2. a \notin RealVars /\ VarsOf(a)' \subseteq Vars /\ VarsOf(a)' = DOMAIN constraints'[a].coef
    BY <2>1, AtomFactsNext DEF AtomFact
  <2>3. \/ level = decision_level'
        \/ \A r \in VarsOf(a)' : r \in Vars /\ is_defined(r) /\ var_level[r] <= level
    BY <1>3, <2>2 DEF AtomGets
  <2>4. QED BY <1>1, <2>1, <2>2, <2>3, GetsLevels, GetsReals, GetsAtoms
<1>4. ASSUME NEW r, NEW value, RealGets(r, value)
      PROVE  LevelsOK' /\ RealsFirst' /\ AtomsLow'
  BY <1>1, <1>4, GetsLevels, GetsReals, GetsAtoms DEF RealGets
<1>5. QED BY <1>2, <1>3, <1>4, CutsLevels DEF TrailStep
-----------------------------------------------------------------------------
(* What is being looked at.                                                *)

\* A rational variable that is still to be looked at is the decision of the
\* top level.
OnTop(r) ==
  /\ is_defined(r) /\ var_level[r] = decision_level /\ 1 \in DOMAIN recent /\ r = recent[1].var

LEMMA RecentReal ==
  ASSUME LraI, NEW j \in DOMAIN recent, recent[j].var \in RealVars
  PROVE  j = 1 /\ OnTop(recent[j].var)
<1>1. TrailShape BY TrailLists DEF LraI, PluginInv
<1>2. PICK l : l = Len(trail) OBVIOUS
<1>3. recent = trail[l] /\ l \in DOMAIN trail /\ l \in Nat /\ decision_level = l - 1
  BY <1>1, <1>2 DEF TrailShape
<1>4. j = 1 /\ var_level[recent[j].var] = l - 1
  BY <1>3 DEF LraI, RealsFirst
<1>5. is_defined(recent[j].var) BY <1>3 DEF LraI, LevelsOK
<1>6. QED BY <1>3, <1>4, <1>5 DEF OnTop

\* The entries not seen.
LEMMA UnseenLists ==
  ASSUME LraI
  PROVE  /\ Len(Unseen) \in Nat /\ DOMAIN Unseen = 1..Len(Unseen)
         /\ \A k \in DOMAIN Unseen : \E j \in DOMAIN recent : Unseen[k] = recent[j] /\ k <= j
         /\ cursor.level # decision_level => Unseen = recent
<1>1. TrailShape BY TrailLists DEF LraI, PluginInv
<1> DEFINE n == IF decision_level = cursor.level THEN cursor.next ELSE 0
<1>2. Len(recent) \in Nat /\ recent \in Seq(Entry) /\ DOMAIN recent = 1..Len(recent)
  BY <1>1 DEF TrailShape
<1>3. n \in Nat /\ n <= Len(recent)
  BY <1>2 DEF LraI, PluginInv, TrailKnown, PlacesOK
<1>4. Unseen = SubSeq(recent, 1 + n, Len(recent)) BY DEF Unseen
<1>5. cursor.level # decision_level => n = 0 OBVIOUS
<1> HIDE DEF n
<1>6. PICK t : t = recent OBVIOUS
<1>7. t \in Seq(Entry) /\ Len(t) \in Nat /\ n \in Nat /\ n <= Len(t)
  BY <1>2, <1>3, <1>6
<1>8. /\ Len(SubSeq(t, 1 + n, Len(t))) = Len(t) - n
      /\ \A k \in 1..(Len(t) - n) : SubSeq(t, 1 + n, Len(t))[k] = t[k + n] /\ k + n \in 1..Len(t)
      /\ SubSeq(t, 1 + n, Len(t)) \in Seq(Entry)
      /\ n = 0 => SubSeq(t, 1 + n, Len(t)) = t
  BY <1>7
<1>9. PICK u : u = Unseen OBVIOUS
<1>10. /\ Len(u) = Len(t) - n /\ u \in Seq(Entry) /\ (n = 0 => u = t)
       /\ \A k \in 1..(Len(t) - n) : u[k] = t[k + n] /\ k + n \in 1..Len(t)
  BY <1>4, <1>6, <1>8, <1>9
<1>11. Len(u) \in Nat /\ DOMAIN u = 1..Len(u) /\ DOMAIN t = 1..Len(t)
  BY <1>7, <1>10
<1>12. \A k \in DOMAIN u : \E j \in DOMAIN t : u[k] = t[j] /\ k <= j
  <2> SUFFICES ASSUME NEW k \in DOMAIN u
               PROVE  \E j \in DOMAIN t : u[k] = t[j] /\ k <= j
    OBVIOUS
  <2>1. k \in 1..(Len(t) - n) /\ k \in Nat BY <1>10, <1>11
  <2>2. u[k] = t[k + n] /\ k + n \in DOMAIN t /\ k <= k + n
    BY <1>3, <1>10, <1>11, <2>1
  <2>3. QED BY <2>2
<1>13. QED BY <1>5, <1>6, <1>9, <1>10, <1>11, <1>12

LEMMA ArrivedOne ==
  ASSUME LraI, NEW r \in Arrived
  PROVE  /\ OnTop(r) /\ r \in RealVars /\ pc \in {"theory", "read"}
         /\ pc = "read" => seen # << >> /\ r = Head(seen) /\ Walked = r
<1>1. r \in RealVars BY DEF Arrived
<1>2. CASE pc = "theory" /\ \E k \in DOMAIN Unseen : Unseen[k].var = r
  <2>1. PICK k \in DOMAIN Unseen : Unseen[k].var = r BY <1>2
  <2>2. PICK j \in DOMAIN recent : Unseen[k] = recent[j]
    BY <2>1, UnseenLists
  <2>3. recent[j].var = r BY <2>1, <2>2
  <2>4. OnTop(r) BY <1>1, <2>3, RecentReal
  <2>5. QED BY <1>1, <1>2, <2>4
<1>3. CASE pc = "read" /\ \E k \in DOMAIN seen : seen[k] = r
  <2>1. PICK k \in DOMAIN seen : seen[k] = r BY <1>3
  <2>2. k = 1 /\ \E j \in DOMAIN recent : seen[k] = recent[j].var
    BY <1>1, <2>1 DEF LraI, PlacesOK
  <2>3. OnTop(r) BY <1>1, <2>1, <2>2, RecentReal
  <2>4. seen \in Seq(Known) BY DEF LraI, PluginInv, WalkKnown
  <2>5. seen # << >> /\ r = Head(seen) BY <2>1, <2>2, <2>4
  <2>6. QED BY <1>1, <1>3, <2>3, <2>5 DEF Walked
<1>4. QED BY <1>2, <1>3 DEF Arrived

\* Only the first two variables of a constraint are watched.
LEMMA WatchedFirst ==
  ASSUME LraI, NEW a \in DOMAIN constraints
  PROVE  /\ order[a] \in Seq(RealVars) /\ Len(order[a]) \in Nat /\ Len(order[a]) >= 1
         /\ DOMAIN order[a] = 1..Len(order[a])
         /\ VarsOf(a) = {order[a][p] : p \in 1..Len(order[a])}
         /\ \A p, q \in 1..Len(order[a]) : order[a][p] = order[a][q] => p = q
         /\ \A r : IsWatched(a, r) <=> r = order[a][1] \/ (Len(order[a]) > 1 /\ r = order[a][2])
<1>1. /\ order[a] \in Seq(RealVars) /\ Len(order[a]) >= 1
      /\ Range(order[a]) = DOMAIN constraints[a].coef /\ DOMAIN order = DOMAIN constraints
  BY OrderOf DEF LraI, PluginInv
<1>2. Len(order[a]) \in Nat /\ DOMAIN order[a] = 1..Len(order[a])
  BY <1>1
<1>3. VarsOf(a) = {order[a][p] : p \in 1..Len(order[a])}
  BY <1>1, <1>2, AtomFacts DEF Range, AtomFact, LraI
<1>4. \A p, q \in 1..Len(order[a]) : order[a][p] = order[a][q] => p = q
  BY <1>1, <1>2 DEF LraI, OrderOK
<1>5. \A p \in 1..Len(order[a]) : p <= 2 => p = 1 \/ (Len(order[a]) > 1 /\ p = 2)
  BY <1>2
<1>6. 1 \in 1..Len(order[a]) /\ (Len(order[a]) > 1 => 2 \in 1..Len(order[a]))
  BY <1>1, <1>2
<1>7. \A r : IsWatched(a, r) <=> r = order[a][1] \/ (Len(order[a]) > 1 /\ r = order[a][2])
  BY <1>2, <1>5, <1>6 DEF IsWatched
<1>8. QED BY <1>1, <1>2, <1>3, <1>4, <1>7

\* The visited constraint a with its variables as they are listed by then.
Visit(a, vs) ==
  /\ a \in DOMAIN constraints /\ Walked \in RealVars
  /\ pc = "read" /\ walk \in 1..Len(watched[Walked]) /\ watched[Walked][walk].atom = a
  /\ watched[Walked] \in Seq(Watches) /\ watched[Walked][walk].index \in Int
  /\ Walked \in Arrived /\ Due(Walked, a) /\ OnTop(Walked) /\ IsWatched(a, Walked)
  /\ vs \in Seq(RealVars) /\ Len(vs) \in Nat /\ Len(vs) >= 1 /\ DOMAIN vs = 1..Len(vs)
  /\ Len(vs) = Len(order[a])
  /\ VarsOf(a) = {vs[p] : p \in 1..Len(vs)}
  /\ \A p, q \in 1..Len(vs) : vs[p] = vs[q] => p = q
  /\ \A p \in 3..Len(vs) : vs[p] = order[a][p]
  /\ \A r : IsWatched(a, r) <=> r = vs[1] \/ (Len(vs) > 1 /\ r = vs[2])
  /\ ~is_defined(vs[1]) => Len(vs) > 1 /\ vs[2] = Walked
  /\ is_defined(vs[1]) => vs = order[a] /\ AllDefined(a)

\* Nothing else is due.
LEMMA OnlyWalkedDue ==
  ASSUME LraI, walk > 0 \/ pc \notin {"theory", "read"} \/ (seen = << >> /\ pc # "theory")
               \/ (pc = "read" /\ Head(seen) \notin RealVars),
         NEW s, NEW a, Due(s, a)
  PROVE  pc = "read" /\ walk > 0 /\ s = Walked
<1>1. s \in Arrived BY DEF Due
<1>2. OnTop(s) /\ s \in RealVars /\ pc \in {"theory", "read"} /\ (pc = "read" => seen # << >> /\ s = Head(seen) /\ Walked = s)
  BY <1>1, ArrivedOne
<1>3. walk > 0 => pc = "read"
  BY DEF LraI, PlacesOK, PluginInv, WalkKnown
<1>4. QED BY <1>2, <1>3

LEMMA Visiting ==
  ASSUME LraI, AtWatch
  PROVE  Visit(TheWatch.atom, Reordered(TheWatch.atom))
<1> DEFINE a == TheWatch.atom
           vs == Reordered(a)
<1>1. /\ Walked \in RealVars
      /\ watched[Walked] \in Seq(Watches) /\ walk \in 1..Len(watched[Walked])
      /\ TheWatch \in Watches /\ a \in DOMAIN constraints
      /\ TheWatch = watched[Walked][walk]
  BY AtWatchKnown DEF LraI, PluginInv, TheWatch
<1>2. pc = "read" /\ walk > 0 /\ seen # << >> /\ Walked = seen[1] /\ 1 \in DOMAIN seen
  BY DEF AtWatch, walking, LraI, PluginInv, WalkKnown, Walked
<1>3. Walked \in Arrived BY <1>1, <1>2 DEF Arrived
<1>4. OnTop(Walked) BY <1>3, ArrivedOne
<1>5. watched[Walked][walk].index \in Int /\ DOMAIN watched[Walked] = 1..Len(watched[Walked])
  BY <1>1 DEF Watches
<1> HIDE DEF a
<1>6. watched[Walked][walk].atom = a BY <1>1 DEF a
<1>7. Due(Walked, a)
  <2>1. walk \in DOMAIN watched[Walked] /\ walk >= walk BY <1>1, <1>5
  <2>2. QED BY <1>3, <1>6, <2>1 DEF Due
<1>8. IsWatched(a, Walked)
  <2>1. a \in Watching(watched[Walked]) BY <1>1, <1>5, <1>6 DEF Watching
  <2>2. QED BY <1>1, <2>1 DEF LraI, WatchesOK
<1> DEFINE os == order[a]
<1>9. /\ os \in Seq(RealVars) /\ Len(os) \in Nat /\ Len(os) >= 1 /\ DOMAIN os = 1..Len(os)
      /\ VarsOf(a) = {os[p] : p \in 1..Len(os)}
      /\ \A p, q \in 1..Len(os) : os[p] = os[q] => p = q
      /\ \A r : IsWatched(a, r) <=> r = os[1] \/ (Len(os) > 1 /\ r = os[2])
  BY <1>1, WatchedFirst
<1>10. /\ is_defined(os[1]) /\ ~Due(os[1], a) => \A p \in DOMAIN os : is_defined(os[p])
       /\ Len(os) > 1 /\ is_defined(os[2]) /\ ~Due(os[2], a) => \A p \in 3..Len(os) : is_defined(os[p])
  BY <1>1 DEF LraI, WatchesTell, Tells
<1>11. \A s : s # Walked => ~Due(s, a) BY <1>2, OnlyWalkedDue
<1>12. Len(os) > 1 => 1 \in 1..Len(os) /\ 2 \in 1..Len(os) /\ os[1] # os[2]
  BY <1>9
<1>13. is_defined(Walked) BY <1>4 DEF OnTop
<1>14. vs = IF Len(os) > 1 /\ os[1] = Walked /\ ~is_defined(os[2])
              THEN [os EXCEPT ![1] = os[2], ![2] = os[1]] ELSE os
  BY DEF Reordered
<1> HIDE DEF os, vs
<1>15. CASE Len(os) > 1 /\ os[1] = Walked /\ ~is_defined(os[2])
  <2>1. vs = [os EXCEPT ![1] = os[2], ![2] = os[1]] BY <1>14, <1>15
  <2>2. /\ vs \in Seq(RealVars) /\ Len(vs) = Len(os) /\ DOMAIN vs = 1..Len(os)
        /\ vs[1] = os[2] /\ vs[2] = os[1] /\ \A p \in 3..Len(os) : vs[p] = os[p]
    BY <1>9, <1>12, <1>15, <2>1
  <2>3. \A p \in 1..Len(os) : p = 1 \/ p = 2 \/ p \in 3..Len(os) BY <1>9
  <2>4. \A p, q \in 1..Len(vs) : vs[p] = vs[q] => p = q
    <3>1. 1 \notin 3..Len(os) /\ 2 \notin 3..Len(os) /\ \A p \in 3..Len(os) : p \in 1..Len(os)
      BY <1>9
    <3>2. QED BY <1>9, <1>12, <1>15, <2>2, <2>3, <3>1
  <2>5. VarsOf(a) = {vs[p] : p \in 1..Len(vs)}
    <3>1. \A p \in 1..Len(os) : \E q \in 1..Len(os) : os[p] = vs[q]
      BY <1>12, <1>15, <2>2, <2>3
    <3>2. \A p \in 1..Len(os) : \E q \in 1..Len(os) : vs[p] = os[q]
      BY <1>12, <1>15, <2>2, <2>3
    <3>3. {os[p] : p \in 1..Len(os)} = {vs[q] : q \in 1..Len(os)}
      <4> DEFINE I == 1..Len(os)
      <4>1. (\A p \in I : \E q \in I : os[p] = vs[q]) /\ (\A p \in I : \E q \in I : vs[p] = os[q])
        BY <3>1, <3>2
      <4> HIDE DEF I
      <4>2. {os[p] : p \in I} \subseteq {vs[q] : q \in I} BY <4>1
      <4>3. {vs[p] : p \in I} \subseteq {os[q] : q \in I} BY <4>1
      <4>4. QED BY <4>2, <4>3 DEF I
    <3>4. QED BY <1>9, <2>2, <3>3
  <2>6. \A r : IsWatched(a, r) <=> r = vs[1] \/ (Len(vs) > 1 /\ r = vs[2])
    BY <1>9, <1>15, <2>2
  <2>7. ~is_defined(vs[1]) /\ Len(vs) > 1 /\ vs[2] = Walked /\ Len(vs) >= 1
    BY <1>9, <1>15, <2>2
  <2>8. \A p \in 3..Len(vs) : vs[p] = os[p] BY <2>2
  <2>9. vs \in Seq(RealVars) /\ Len(vs) \in Nat /\ DOMAIN vs = 1..Len(vs) /\ Len(vs) = Len(os)
    BY <1>9, <2>2
  <2>10. Visit(a, vs)
    BY <1>1, <1>2, <1>3, <1>4, <1>5, <1>6, <1>7, <1>8, <2>4, <2>5, <2>6, <2>7, <2>8, <2>9 DEF Visit, os
  <2>11. QED BY <2>10 DEF a, vs
<1>16. CASE ~(Len(os) > 1 /\ os[1] = Walked /\ ~is_defined(os[2]))
  <2>1. vs = os BY <1>14, <1>16
  <2>2. ~is_defined(os[1]) => Len(os) > 1 /\ os[2] = Walked
    BY <1>8, <1>9, <1>13
  <2>3. ASSUME is_defined(os[1])
        PROVE  AllDefined(a)
    <3>1. CASE os[1] # Walked
      BY <1>9, <1>10, <1>11, <2>3, <3>1 DEF AllDefined
    <3>2. CASE os[1] = Walked
      <4>1. \A p \in 1..Len(os) : p = 1 \/ (Len(os) > 1 /\ p = 2) \/ (Len(os) > 1 /\ p \in 3..Len(os))
        BY <1>9
      <4>2. Len(os) > 1 => is_defined(os[2]) /\ ~Due(os[2], a)
        BY <1>11, <1>12, <1>16, <3>2
      <4>3. QED BY <1>9, <1>10, <2>3, <4>1, <4>2 DEF AllDefined
    <3>3. QED BY <3>1, <3>2
  <2>4. \A p \in 3..Len(vs) : vs[p] = os[p] BY <2>1
  <2>5. Visit(a, vs)
    BY <1>1, <1>2, <1>3, <1>4, <1>5, <1>6, <1>7, <1>8, <1>9, <2>1, <2>2, <2>3, <2>4 DEF Visit, os
  <2>6. QED BY <2>5 DEF a, vs
<1>17. QED BY <1>15, <1>16
-----------------------------------------------------------------------------
(* What the steps do to the trail.                                         *)

LEMMA MaxIs ==
  ASSUME NEW S \in SUBSET Int, S # {}, NEW b \in Int, \A x \in S : x <= b
  PROVE  Max(S) \in S /\ \A x \in S : x <= Max(S)
<1> DEFINE T == {b - x : x \in S}
<1>1. T \in SUBSET Nat /\ T # {}
  <2>1. ASSUME NEW x \in S
        PROVE  b - x \in Nat
    <3>1. x \in Int /\ x <= b OBVIOUS
    <3>2. QED BY <3>1
  <2>2. QED BY <2>1
<1>2. PICK d \in T : \A y \in T : d <= y BY <1>1, LeastNatural
<1>3. PICK m \in S : d = b - m BY <1>2
<1>4. \A x \in S : m >= x
  <2>1. TAKE x \in S
  <2>2. b - x \in T OBVIOUS
  <2>3. d <= b - x BY <1>2, <2>2
  <2>4. QED BY <1>3, <2>3
<1>5. Max(S) \in S /\ \A x \in S : Max(S) >= x BY <1>3, <1>4 DEF Max
<1>6. QED BY <1>5

\* The level of the variable assigned last.
LEMMA LevelOfLast ==
  ASSUME LraI, NEW D \in (SUBSET RealVars) \ {{}}, \A r \in D : is_defined(r)
  PROVE  /\ LevelOf(D) \in 0..decision_level
         /\ \A r \in D : var_level[r] <= LevelOf(D)
         /\ \E r \in D : var_level[r] = LevelOf(D)
<1> DEFINE S == {var_level[r] : r \in D}
<1>1. \A r \in D : var_level[r] \in 0..decision_level
  BY PluginAssumption DEF LraI, LevelsOK
<1>2. decision_level \in Int
  BY TrailLists DEF LraI, PluginInv, TrailShape
<1>3. S \in SUBSET Int /\ S # {} /\ \A x \in S : x <= decision_level
  BY <1>1, <1>2
<1>4. Max(S) \in S /\ \A x \in S : x <= Max(S)
  <2> HIDE DEF S
  <2>1. QED BY <1>2, <1>3, MaxIs
<1>5. QED BY <1>1, <1>4 DEF LevelOf

\* A propagation at a level that exists.
LEMMA PropagateGets ==
  ASSUME LraI, NEW v \in Vars, ~is_defined(v), NEW value \in Values, NEW reason,
         NEW level \in 0..decision_level, Propagate(v, value, reason, level), Stamp(v)
  PROVE  Gets(v, value, level) /\ decision_level' = decision_level
<1>1. ListsGrow(v, level) /\ Len(trail') = Len(trail)
  BY RecordGrows DEF LraI, PluginInv
<1>2. decision_level' = decision_level BY <1>1 DEF decision_level
<1>3. QED BY <1>1, <1>2 DEF Gets, Propagate

LEMMA DecideGets ==
  ASSUME LraI, NEW v \in Vars, ~is_defined(v), NEW value \in Values,
         Decide(v, value), Stamp(v)
  PROVE  Gets(v, value, decision_level + 1) /\ decision_level' = decision_level + 1
<1>1. ListsGrow(v, decision_level + 1) /\ Len(trail') = Len(trail) + 1
  BY DecideGrows DEF LraI, PluginInv
<1>2. Len(trail) \in Nat \ {0}
  BY TrailLists DEF LraI, PluginInv, TrailShape
<1>3. decision_level' = decision_level + 1 /\ decision_level + 1 \in 0..decision_level'
  BY <1>1, <1>2 DEF decision_level
<1>4. QED BY <1>1, <1>3 DEF Gets, Decide

\* A constraint whose variables have values is propagated where the last of
\* them got its own.
LEMMA ConstraintGets ==
  ASSUME LraI, Kept, NEW a \in Vars, a \in DOMAIN constraints', ~is_defined(a), NEW c,
         constraints'[a] = c, DOMAIN c.coef \in (SUBSET RealVars) \ {{}},
         \A r \in DOMAIN c.coef : is_defined(r),
         PropagateConstraint(a, c)
  PROVE  AtomGets(a, Truth(Satisfied(c, model)), LevelOf(DOMAIN c.coef))
<1> DEFINE value == Truth(Satisfied(c, model))
           level == LevelOf(DOMAIN c.coef)
<1>1. Propagate(a, value, NoReason, level) /\ Stamp(a)
  BY DEF PropagateConstraint
<1>2. value \in Values BY TruthIsValue
<1>3. level \in 0..decision_level /\ \A r \in DOMAIN c.coef : var_level[r] <= level
  BY LevelOfLast
<1> HIDE DEF value, level
<1>4. Gets(a, value, level) BY <1>1, <1>2, <1>3, PropagateGets
<1>5. AtomGets(a, value, level) BY <1>3, <1>4 DEF AtomGets
<1>6. QED BY <1>5 DEF value, level

LEMMA BacktrackCuts ==
  ASSUME LraI, NEW l \in 0..(decision_level - 1), Backtrack(l), UNCHANGED <<stamp, clock, constraints>>
  PROVE  Cuts(l)
<1>1. /\ Len(trail) \in Nat \ {0} /\ DOMAIN trail = 1..Len(trail) /\ decision_level = Len(trail) - 1
      /\ \A i \in 1..Len(trail) : DOMAIN trail[i] = 1..Len(trail[i])
  BY TrailLists DEF LraI, PluginInv, TrailShape
<1>2. trail \in Seq(Seq(Entry))
  BY DEF LraI, PluginInv, TrailKnown, Entry
<1>3. l \in Nat /\ l + 1 \in 1..Len(trail) /\ l < decision_level BY <1>1
<1>4. /\ Len(trail') = l + 1 /\ DOMAIN trail' = 1..(l + 1)
      /\ \A i \in 1..(l + 1) : trail'[i] = trail[i]
  <2> DEFINE A == Seq(Entry)
  <2>1. trail \in Seq(A) BY <1>2
  <2> HIDE DEF A
  <2>2. trail' = SubSeq(trail, 1, l + 1) BY DEF Backtrack
  <2>3. QED BY <1>3, <2>1, <2>2
<1>5. decision_level' = l BY <1>3, <1>4 DEF decision_level
<1> DEFINE gone == Unassigns(l)
<1>6. /\ var_level' = [v \in Vars |-> IF v \in gone THEN unassigned ELSE var_level[v]]
      /\ model' = [v \in Vars |-> IF v \in gone THEN Undef ELSE model[v]]
  BY DEF Backtrack
<1>7. ASSUME NEW v \in Vars, is_defined(v)
      PROVE  v \in gone <=> var_level[v] > l
  <2>1. v \in gone => var_level[v] > l BY DEF Unassigns
  <2>2. ASSUME var_level[v] > l
        PROVE  v \in gone
    <3>1. /\ var_level[v] \in 0..decision_level
          /\ \E k \in DOMAIN trail[var_level[v] + 1] : trail[var_level[v] + 1][k].var = v
      BY <1>7 DEF LraI, LevelsOK
    <3>2. PICK j : j = var_level[v] OBVIOUS
    <3>3. j \in (l + 1)..decision_level /\ j + 1 \in 1..Len(trail)
      BY <1>1, <1>3, <2>2, <3>1, <3>2
    <3>4. v \in VarsIn(assigned(j))
      BY <1>1, <3>1, <3>2, <3>3 DEF VarsIn, assigned
    <3>5. QED BY <2>2, <3>3, <3>4 DEF Unassigns
  <2>3. QED BY <2>1, <2>2
<1> HIDE DEF gone
<1>8. var_level \in [Vars -> Int] /\ model \in [Vars -> Values \cup {Undef}]
  BY DEF LraI, LevelsOK, PluginInv, TrailKnown
<1>9. var_level' \in [Vars -> Int] BY <1>6, <1>8 DEF unassigned
<1>10. \A v \in Vars : /\ is_defined(v)' <=> is_defined(v) /\ var_level[v] <= l
                       /\ is_defined(v)' => model'[v] = model[v] /\ var_level'[v] = var_level[v]
  <2> SUFFICES ASSUME NEW v \in Vars
               PROVE  /\ is_defined(v)' <=> is_defined(v) /\ var_level[v] <= l
                      /\ is_defined(v)' => model'[v] = model[v] /\ var_level'[v] = var_level[v]
    OBVIOUS
  <2>1. var_level[v] \in Int /\ (var_level[v] > l <=> ~(var_level[v] <= l))
    BY <1>3, <1>8
  <2>2. QED BY <1>6, <1>7, <2>1 DEF is_defined
<1>11. /\ \A i \in DOMAIN trail' : \A k \in DOMAIN trail'[i] :
            i \in DOMAIN trail /\ i <= l + 1 /\ trail'[i] = trail[i]
       /\ \A i \in 1..(l + 1) : i \in DOMAIN trail' /\ trail'[i] = trail[i]
  BY <1>1, <1>3, <1>4
<1>12. l \in Int /\ l <= decision_level' /\ (l >= 0 => l < decision_level /\ l = decision_level')
  BY <1>3, <1>5
<1>13. QED BY <1>9, <1>10, <1>11, <1>12 DEF Cuts

LEMMA ClearCuts ==
  ASSUME LraI, Clear, UNCHANGED <<stamp, clock, constraints>>
  PROVE  Cuts(-1)
<1>1. trail' = << << >> >> /\ DOMAIN trail' = {1} /\ trail'[1] = << >> /\ Len(trail') = 1
  BY DEF Clear
<1>2. decision_level' = 0 BY <1>1 DEF decision_level
<1>3. /\ var_level' = [v \in Vars |-> unassigned] /\ model' = [v \in Vars |-> Undef]
  BY DEF Clear
<1>4. \A v \in Vars : is_defined(v) => ~(var_level[v] <= -1)
  <2>1. \A v \in Vars : is_defined(v) => var_level[v] \in 0..decision_level
    BY DEF LraI, LevelsOK
  <2>2. QED BY <2>1
<1>5. \A v \in Vars : ~is_defined(v)' BY <1>3 DEF is_defined
<1>6. var_level' \in [Vars -> Int] BY <1>3 DEF unassigned
<1>7. /\ \A i \in DOMAIN trail' : \A k \in DOMAIN trail'[i] :
            i \in DOMAIN trail /\ i <= -1 + 1 /\ trail'[i] = trail[i]
      /\ \A i \in 1..(-1 + 1) : i \in DOMAIN trail' /\ trail'[i] = trail[i]
  BY <1>1
<1>8. QED BY <1>2, <1>4, <1>5, <1>6, <1>7 DEF Cuts

\* The constraint a derived polynomial stands for has not been decided when
\* it is new.
LEMMA AtomForKnown ==
  ASSUME LraI, NEW p, DOMAIN p.coef \in (SUBSET RealVars) \ {{}}, Make(p), AtomFor(p) <= MaxAtoms
  PROVE  /\ AtomFor(p) \in DOMAIN constraints' /\ constraints'[AtomFor(p)] = Normalized(p)
         /\ AtomFor(p) \in Vars
         /\ Kept
         /\ ~IsNew(p) => AtomFor(p) \in DOMAIN constraints /\ UNCHANGED constraints
         /\ IsNew(p) => AtomFor(p) = Len(constraints) + 1 /\ ~is_defined(AtomFor(p))
         /\ IsNew(p) => constraints' = Append(constraints, Normalized(p))
<1>1. PICK C : constraints \in Seq(C)
  BY DEF LraI, PluginInv, ConstraintsKnown
<1>2. /\ Kept /\ AtomFor(p) \in DOMAIN constraints'
      /\ ~IsNew(p) => UNCHANGED constraints
      /\ IsNew(p) => AtomFor(p) = Len(constraints) + 1
  BY MakeStep DEF LraI, PluginInv
<1>3. DOMAIN constraints = 1..Len(constraints) /\ Len(constraints) \in Nat
  BY <1>1
<1> DEFINE c == Normalized(p)
           a == AtomFor(p)
<1>4. IsNew(p) => constraints' = Append(constraints, c) BY DEF Make
<1>5. /\ (\E b \in DOMAIN constraints : constraints[b] = c) => a \in DOMAIN constraints /\ constraints[a] = c
      /\ ~(\E b \in DOMAIN constraints : constraints[b] = c) => a = Len(constraints) + 1
  BY DEF AtomFor
<1>6. IsNew(p) <=> a > Len(constraints) BY DEF IsNew
<1> HIDE DEF c, a
<1>7. CASE ~IsNew(p)
  <2>1. a \in DOMAIN constraints /\ constraints[a] = c
    BY <1>3, <1>5, <1>6, <1>7
  <2>2. a \in Vars BY <2>1, AtomFacts DEF LraI, AtomFact
  <2>3. QED BY <1>2, <1>7, <2>1, <2>2 DEF a, c
<1>8. CASE IsNew(p)
  <2>1. a = Len(constraints) + 1 BY <1>2, <1>8 DEF a
  <2>2. constraints'[a] = c
    <3>1. constraints' = Append(constraints, c) /\ constraints \in Seq(C)
      BY <1>1, <1>4, <1>8
    <3>2. QED BY <2>1, <3>1, Appended
  <2>3. a \in 1..MaxAtoms
    <3>1. a <= MaxAtoms /\ MaxAtoms \in Nat BY PluginAssumption DEF a
    <3>2. QED BY <1>3, <2>1, <3>1
  <2>4. a \in Vars /\ a \notin RealVars BY <2>3, PluginAssumption
  <2>5. a \notin Known BY <1>3, <2>1, <2>4 DEF Known
  <2>6. ~is_defined(a)
    <3>1. ASSUME is_defined(a)
          PROVE  FALSE
      <4>1. /\ var_level[a] \in 0..decision_level
            /\ \E k \in DOMAIN trail[var_level[a] + 1] : trail[var_level[a] + 1][k].var = a
        BY <2>4, <3>1 DEF LraI, LevelsOK
      <4>2. PICK i : i = var_level[a] + 1 OBVIOUS
      <4>3. i \in DOMAIN trail
        <5>1. Len(trail) \in Nat \ {0} /\ DOMAIN trail = 1..Len(trail) /\ decision_level = Len(trail) - 1
          BY TrailLists DEF LraI, PluginInv, TrailShape
        <5>2. QED BY <4>1, <4>2, <5>1
      <4>4. QED BY <2>5, <4>1, <4>2, <4>3, ListedKnown DEF LraI
    <3>2. QED BY <3>1
  <2>7. QED BY <1>2, <1>4, <1>8, <2>1, <2>2, <2>4, <2>6 DEF a, c
<1>9. QED BY <1>7, <1>8

\* The variables of the constraint c that becomes true or false.
NewValues(a, c) ==
  /\ a \in Vars /\ a \in DOMAIN constraints' /\ constraints'[a] = c
  /\ DOMAIN c.coef \in (SUBSET RealVars) \ {{}}
  /\ \A r \in DOMAIN c.coef : is_defined(r)
  /\ \/ SameTrail /\ is_defined(a)
     \/ ~is_defined(a) /\ AtomGets(a, Truth(Satisfied(c, model)), LevelOf(DOMAIN c.coef))

LEMMA VisitAssignedGets ==
  ASSUME LraI, VisitAssigned
  PROVE  /\ NewValues(TheWatch.atom, constraints[TheWatch.atom])
         /\ Kept /\ TheWatch.atom \in DOMAIN constraints /\ AllDefined(TheWatch.atom)
<1> USE DEF trailVars, boundVars, watchVars, walkVars, conflictVars
<1> DEFINE a == TheWatch.atom
<1>1. AtWatch /\ UNCHANGED constraints BY DEF VisitAssigned
<1>2. /\ is_defined(Reordered(a)[1])
      /\ \/ is_defined(a) /\ UNCHANGED <<trail, var_level, model, stamp, clock>>
         \/ ~is_defined(a) /\ PropagateConstraint(a, constraints[a])
  BY DEF VisitAssigned
<1>3. Visit(a, Reordered(a)) BY <1>1, Visiting
<1> HIDE DEF a
<1>4. a \in DOMAIN constraints /\ AllDefined(a) BY <1>2, <1>3 DEF Visit
<1>5. /\ a \in Vars /\ VarsOf(a) = DOMAIN constraints[a].coef
      /\ DOMAIN constraints[a].coef \in (SUBSET RealVars) \ {{}}
  BY <1>4, AtomFacts DEF LraI, AtomFact
<1>6. a \in DOMAIN constraints' /\ constraints'[a] = constraints[a]
  BY <1>1, <1>4
<1>7. \A r \in DOMAIN constraints[a].coef : is_defined(r)
  BY <1>4, <1>5 DEF AllDefined
<1>8. Kept BY <1>1 DEF Kept
<1>10. CASE ~is_defined(a) /\ PropagateConstraint(a, constraints[a])
  BY <1>4, <1>5, <1>6, <1>7, <1>8, <1>10, ConstraintGets DEF NewValues, a
<1>11. CASE is_defined(a) /\ UNCHANGED <<trail, var_level, model, stamp, clock>>
  BY <1>4, <1>5, <1>6, <1>7, <1>8, <1>11 DEF NewValues, SameTrail, a
<1>12. QED BY <1>2, <1>10, <1>11

\* The next polynomial and what is known of it.
LEMMA NextPoly ==
  ASSUME LraI, blame.polys # << >>
  PROVE  /\ 1 \in DOMAIN blame.polys /\ Head(blame.polys) = blame.polys[1]
         /\ PolyOK(Head(blame.polys)) /\ DOMAIN Head(blame.polys).coef \subseteq RealVars
         /\ DOMAIN Tail(blame.polys) \subseteq DOMAIN blame.polys
         /\ \A k \in DOMAIN Tail(blame.polys) :
              k + 1 \in DOMAIN blame.polys /\ Tail(blame.polys)[k] = blame.polys[k + 1]
<1>1. PICK P : blame.polys \in Seq(P) BY DEF LraI, PluginInv, BlameKnown
<1>2. PICK s : s = blame.polys OBVIOUS
<1>3. s \in Seq(P) /\ s # << >> BY <1>1, <1>2
<1>4. /\ 1 \in DOMAIN s /\ Head(s) = s[1]
      /\ \A k \in DOMAIN Tail(s) : k + 1 \in DOMAIN s /\ Tail(s)[k] = s[k + 1] /\ k \in DOMAIN s
  BY <1>3
<1>5. PolyOK(s[1]) /\ DOMAIN s[1].coef \subseteq RealVars
  BY <1>2, <1>4 DEF LraI, PolysOK, PluginInv, BlameKnown
<1>6. QED BY <1>2, <1>4, <1>5

LEMMA DeriveGets ==
  ASSUME LraI, Derive
  PROVE  LET p == Head(blame.polys) IN
         /\ NewValues(AtomFor(p), Normalized(p)) /\ Kept
         /\ DOMAIN p.coef \in (SUBSET RealVars) \ {{}} /\ Make(p) /\ AtomFor(p) <= MaxAtoms
         /\ Representable(p) /\ PolyOK(p)
<1> USE DEF trailVars, boundVars, watchVars, walkVars, conflictVars
<1> DEFINE p == Head(blame.polys)
           a == AtomFor(p)
<1>1. /\ blame.polys # << >> /\ DOMAIN p.coef # {}
      /\ a <= MaxAtoms /\ Make(p) /\ Representable(p)
      /\ \/ is_defined(a) /\ UNCHANGED <<trail, var_level, model, stamp, clock>>
         \/ ~is_defined(a) /\ PropagateConstraint(a, Normalized(p))
  BY DEF Derive, explaining, Trivial
<1>2. PolyOK(p) /\ DOMAIN p.coef \in (SUBSET RealVars) \ {{}}
  BY <1>1, NextPoly
<1> HIDE DEF p
<1>3. /\ a \in DOMAIN constraints' /\ constraints'[a] = Normalized(p) /\ a \in Vars /\ Kept
  BY <1>1, <1>2, AtomForKnown
<1> DEFINE c == Normalized(p)
<1>4. DOMAIN c.coef = DOMAIN p.coef BY DEF Normalized
<1> HIDE DEF a, c
<1>7. \A r \in DOMAIN c.coef : is_defined(r) BY <1>2, <1>4 DEF PolyOK
<1>5. constraints'[a] = c BY <1>3 DEF c
<1>6. DOMAIN c.coef \in (SUBSET RealVars) \ {{}} BY <1>2, <1>4
<1>8. ASSUME ~is_defined(a), PropagateConstraint(a, c)
      PROVE  NewValues(a, c)
  <2>1. AtomGets(a, Truth(Satisfied(c, model)), LevelOf(DOMAIN c.coef))
    BY <1>3, <1>5, <1>6, <1>7, <1>8, ConstraintGets
  <2>2. QED BY <1>3, <1>5, <1>6, <1>7, <1>8, <2>1 DEF NewValues
<1>9. ASSUME is_defined(a), UNCHANGED <<trail, var_level, model, stamp, clock>>
      PROVE  NewValues(a, c)
  BY <1>3, <1>5, <1>6, <1>7, <1>9 DEF NewValues, SameTrail
<1>10. NewValues(a, c) BY <1>1, <1>8, <1>9 DEF c
<1>11. QED BY <1>1, <1>2, <1>3, <1>10 DEF p, a, c

\* A value given by the solving loop.
LoopGets(a, b) ==
  a \in DOMAIN constraints /\ ~is_defined(a) /\ b \in BOOLEAN
  /\ AtomGets(a, Truth(b), decision_level')
  /\ UNCHANGED constraints

LEMMA DecideAtomGets ==
  ASSUME LraI, DecideAtom
  PROVE  \E a, b : LoopGets(a, b)
<1>1. PICK a \in DOMAIN constraints, b \in BOOLEAN :
        ~is_defined(a) /\ Decide(a, Truth(b)) /\ Stamp(a)
  BY DEF DecideAtom
<1>2. UNCHANGED constraints BY DEF DecideAtom, LoopUnchanged
<1>3. a \in Vars /\ Truth(b) \in Values
  BY <1>1, AtomFacts, TruthIsValue DEF LraI, AtomFact
<1>4. Gets(a, Truth(b), decision_level + 1) /\ decision_level' = decision_level + 1
  BY <1>1, <1>3, DecideGets
<1>5. QED BY <1>1, <1>2, <1>4 DEF LoopGets, AtomGets

LEMMA BcpAssignGets ==
  ASSUME LraI, BcpAssign
  PROVE  (\E a, b : LoopGets(a, b)) /\ decision_level' = decision_level
<1>1. PICK a \in DOMAIN constraints, b \in BOOLEAN, c \in Reasons :
        ~is_defined(a) /\ Propagate(a, Truth(b), c, decision_level) /\ Stamp(a)
  BY DEF BcpAssign
<1>2. UNCHANGED constraints BY DEF BcpAssign, LoopUnchanged
<1>3. a \in Vars /\ Truth(b) \in Values
  BY <1>1, AtomFacts, TruthIsValue DEF LraI, AtomFact
<1>4. decision_level \in 0..decision_level
  BY TrailLists DEF LraI, PluginInv, TrailShape
<1>5. Gets(a, Truth(b), decision_level) /\ decision_level' = decision_level
  BY <1>1, <1>3, <1>4, PropagateGets
<1>6. QED BY <1>1, <1>2, <1>5 DEF LoopGets, AtomGets

LEMMA DecideRealGets ==
  ASSUME LraI, DecideReal
  PROVE  \E r \in InUse, x \in RealValues :
           /\ RealGets(r, x) /\ is_allowed(r, x) /\ AskAll(r) /\ decision_level' = decision_level + 1
<1>1. PICK r \in InUse, x \in RealValues :
        ~is_defined(r) /\ is_allowed(r, x) /\ Decide(r, x) /\ Stamp(r) /\ AskAll(r)
  BY DEF DecideReal
<1>2. UNCHANGED constraints BY DEF DecideReal
<1>3. r \in RealVars BY AtomFacts DEF LraI, AtomFact, InUse
<1>4. r \in Vars /\ x \in Values BY <1>3, PluginAssumption
<1>5. Gets(r, x, decision_level + 1) /\ decision_level' = decision_level + 1
  BY <1>1, <1>4, DecideGets
<1>6. QED BY <1>1, <1>2, <1>3, <1>5 DEF RealGets

LEMMA BackCuts ==
  ASSUME LraI, BacktrackToLevel \/ Restart
  PROVE  \E l : Cuts(l)
<1>1. UNCHANGED <<stamp, clock, constraints>>
  BY DEF BacktrackToLevel, Restart, LoopUnchanged
<1>2. QED BY <1>1, BacktrackCuts, ClearCuts DEF BacktrackToLevel, Restart

\* Steps that leave the trail alone.
Looking ==
  \/ StartPropagate \/ SeeAtom \/ SeeReal \/ WalkDone \/ MoveWatch \/ VisitUnit \/ ReadDone
  \/ CheckBounds \/ DropTrivial \/ Report \/ CheckDone \/ BcpConflict
  \/ UNCHANGED vars

LEMMA LookingSame ==
  ASSUME Looking
  PROVE  SameTrail /\ UNCHANGED constraints /\ Kept
<1> USE DEF trailVars, boundVars, watchVars, walkVars, conflictVars, vars
<1>1. SameTrail /\ UNCHANGED constraints
  <2>1. CASE StartPropagate \/ SeeAtom \/ SeeReal \/ WalkDone
    BY <2>1 DEF StartPropagate, SeeAtom, SeeReal, WalkDone, SameTrail
  <2>2. CASE MoveWatch \/ VisitUnit \/ ReadDone
    BY <2>2 DEF MoveWatch, VisitUnit, ReadDone, SameTrail
  <2>3. CASE CheckBounds \/ DropTrivial \/ Report \/ CheckDone
    BY <2>3 DEF CheckBounds, DropTrivial, Report, CheckDone, SameTrail
  <2>4. CASE BcpConflict \/ UNCHANGED vars
    BY <2>4 DEF BcpConflict, LoopUnchanged, SameTrail
  <2>5. QED BY <2>1, <2>2, <2>3, <2>4 DEF Looking
<1>2. QED BY <1>1 DEF Kept

LEMMA NextCases ==
  ASSUME [Next]_vars
  PROVE  \/ Looking \/ VisitAssigned \/ Derive
         \/ DecideReal \/ DecideAtom \/ BcpAssign \/ BacktrackToLevel \/ Restart
BY DEF Next, PluginStep, Looking

LEMMA NextTrail ==
  ASSUME LraI, [Next]_vars
  PROVE  TrailStep
<1>1. CASE Looking BY <1>1, LookingSame DEF TrailStep
<1>2. CASE VisitAssigned
  BY <1>2, VisitAssignedGets DEF TrailStep, NewValues
<1>3. CASE Derive
  <2> DEFINE p == Head(blame.polys)
  <2>1. NewValues(AtomFor(p), Normalized(p)) /\ Kept BY <1>3, DeriveGets
  <2>2. QED BY <2>1 DEF TrailStep, NewValues
<1>4. CASE DecideAtom \/ BcpAssign
  <2>1. PICK a, b : LoopGets(a, b)
    BY <1>4, DecideAtomGets, BcpAssignGets
  <2>2. QED BY <2>1 DEF TrailStep, LoopGets, Kept
<1>5. CASE DecideReal BY <1>5, DecideRealGets DEF TrailStep
<1>6. CASE BacktrackToLevel \/ Restart BY <1>6, BackCuts DEF TrailStep
<1>7. QED BY <1>1, <1>2, <1>3, <1>4, <1>5, <1>6, NextCases

LEMMA NextLevels ==
  ASSUME LraI, [Next]_vars
  PROVE  PluginInv' /\ Kept /\ TrailStep /\ LevelsOK' /\ RealsFirst' /\ AtomsLow'
<1>1. PluginInv' /\ Kept BY NextOK DEF LraI, Good
<1>2. QED BY <1>1, NextTrail, LevelsStay
-----------------------------------------------------------------------------
(* What is still to be looked at.                                          *)

\* What does not depend on the place.
SameLists == UNCHANGED <<trail, cursor>>

LEMMA SamePlaces ==
  ASSUME SameLists
  PROVE  /\ Unseen' = Unseen /\ recent' = recent /\ decision_level' = decision_level
BY DEF SameLists, Unseen, recent, decision_level

\* The entries that have been seen are a part of the list.
Cursored ==
  /\ cursor.level <= decision_level
  /\ cursor.level = decision_level => cursor.next <= Len(recent)

\* The rest of a list with a rational variable in front.
LEMMA SeenTail ==
  ASSUME LraI, seen # << >>
  PROVE  /\ \A k \in DOMAIN Tail(seen) : Tail(seen)[k] \notin RealVars
         /\ \A k \in DOMAIN Tail(seen) : \E j \in DOMAIN recent : Tail(seen)[k] = recent[j].var
         /\ \A k \in DOMAIN Tail(seen) : k + 1 \in DOMAIN seen /\ Tail(seen)[k] = seen[k + 1]
         /\ \A k \in DOMAIN seen : k # 1 => k - 1 \in DOMAIN Tail(seen) /\ Tail(seen)[k - 1] = seen[k]
         /\ 1 \in DOMAIN seen /\ Head(seen) = seen[1]
<1>1. seen \in Seq(Known) BY DEF LraI, PluginInv, WalkKnown
<1>2. \A k \in DOMAIN Tail(seen) : k + 1 \in DOMAIN seen /\ Tail(seen)[k] = seen[k + 1] /\ k \in Nat \ {0}
  BY <1>1
<1>3. 1 \in DOMAIN seen /\ Head(seen) = seen[1] BY <1>1
<1>4. \A k \in DOMAIN seen : k # 1 => k - 1 \in DOMAIN Tail(seen) /\ Tail(seen)[k - 1] = seen[k]
  BY <1>1
<1>5. \A k \in DOMAIN Tail(seen) : Tail(seen)[k] \notin RealVars
  <2> SUFFICES ASSUME NEW k \in DOMAIN Tail(seen), Tail(seen)[k] \in RealVars
               PROVE  FALSE
    OBVIOUS
  <2>1. k + 1 \in DOMAIN seen /\ seen[k + 1] \in RealVars /\ k \in Nat \ {0}
    BY <1>2
  <2>2. k + 1 = 1 BY <2>1 DEF LraI, PlacesOK
  <2>3. QED BY <2>1, <2>2
<1>6. \A k \in DOMAIN Tail(seen) : \E j \in DOMAIN recent : Tail(seen)[k] = recent[j].var
  BY <1>2 DEF LraI, PlacesOK
<1>7. QED BY <1>2, <1>3, <1>4, <1>5, <1>6

LEMMA PlacesLooking ==
  ASSUME LraI, Looking
  PROVE  PlacesOK'
<1> USE DEF trailVars, boundVars, watchVars, walkVars, conflictVars
<1>1. Cursored BY DEF LraI, PlacesOK, Cursored
<1>2. /\ pc \in {"bcp", "theory", "read", "check", "decide", "conflict", "learn"}
      /\ \A k \in DOMAIN seen : \E j \in DOMAIN recent : seen[k] = recent[j].var
      /\ \A k \in DOMAIN seen : seen[k] \in RealVars => k = 1
      /\ pc # "read" => seen = << >> /\ walk = 0
      /\ pc = "decide" => Unseen = << >>
      /\ blame # NoBlame => pc = "check"
  BY DEF LraI, PlacesOK
<1>3. walk > 0 => seen # << >> BY DEF LraI, PluginInv, WalkKnown
<1>4. walk \in Nat BY DEF LraI, PluginInv, WalkKnown
<1>5. CASE StartPropagate
  <2>1. /\ pc \in {"bcp", "theory"} /\ pc' = "read" /\ walk' = 0 /\ UNCHANGED <<trail, blame>>
        /\ seen' = [k \in DOMAIN Unseen |-> Unseen[k].var] /\ cursor' = SeenAll
    BY <1>5 DEF StartPropagate
  <2>2. /\ DOMAIN seen' = DOMAIN Unseen /\ DOMAIN Unseen = 1..Len(Unseen)
        /\ \A k \in DOMAIN seen' : seen'[k] = Unseen[k].var
        /\ \A k \in DOMAIN Unseen : \E j \in DOMAIN recent : Unseen[k] = recent[j] /\ k <= j
    BY <2>1, UnseenLists
  <2>3. recent' = recent /\ decision_level' = decision_level
    BY <2>1 DEF recent, decision_level
  <2>4. \A k \in DOMAIN seen' : \E j \in DOMAIN recent' : seen'[k] = recent'[j].var
    BY <2>2, <2>3
  <2>5. ASSUME NEW k \in DOMAIN seen', seen'[k] \in RealVars
        PROVE  k = 1
    <3>1. PICK j \in DOMAIN recent : Unseen[k] = recent[j] /\ k <= j
      BY <2>2, <2>5
    <3>2. recent[j].var \in RealVars BY <2>2, <2>5, <3>1
    <3>3. j = 1 BY <3>2, RecentReal
    <3>4. k \in 1..Len(Unseen) /\ Len(Unseen) \in Nat
      BY <2>2, <2>5, UnseenLists
    <3>5. QED BY <3>1, <3>3, <3>4
  <2>6. Cursored'
    <3>1. cursor'.level = decision_level /\ cursor'.next = Len(recent)
      BY <2>1 DEF SeenAll
    <3>2. decision_level \in Nat /\ Len(recent) \in Nat
      BY TrailLists DEF LraI, PluginInv, TrailShape
    <3>3. QED BY <2>3, <3>1, <3>2 DEF Cursored
  <2>7. QED BY <1>2, <2>1, <2>4, <2>5, <2>6 DEF PlacesOK, Cursored
<1>6. CASE SeeAtom \/ WalkDone
  <2>1. /\ UNCHANGED <<trail, cursor, pc, blame>> /\ seen' = Tail(seen) /\ seen # << >> /\ pc = "read"
    BY <1>3, <1>6 DEF SeeAtom, WalkDone, EndOfWalk, walking
  <2>2. Unseen' = Unseen /\ recent' = recent /\ decision_level' = decision_level /\ Cursored'
    BY <1>1, <2>1, SamePlaces DEF SameLists, Cursored
  <2>3. QED BY <1>2, <2>1, <2>2, SeenTail DEF PlacesOK, Cursored
<1>7. CASE SeeReal \/ MoveWatch \/ VisitUnit
  <2>1. UNCHANGED <<trail, cursor, pc, blame, seen>> /\ pc = "read"
    BY <1>7 DEF SeeReal, MoveWatch, VisitUnit, AtWatch, walking
  <2>2. Unseen' = Unseen /\ recent' = recent /\ decision_level' = decision_level /\ Cursored'
    BY <1>1, <2>1, SamePlaces DEF SameLists, Cursored
  <2>3. QED BY <1>2, <2>1, <2>2 DEF PlacesOK, Cursored
<1>8. CASE ReadDone
  <2>1. UNCHANGED <<trail, cursor, blame, seen, walk>> /\ pc' = "check" /\ seen = << >>
    BY <1>8 DEF ReadDone
  <2>2. Unseen' = Unseen /\ recent' = recent /\ decision_level' = decision_level /\ Cursored'
    BY <1>1, <2>1, SamePlaces DEF SameLists, Cursored
  <2>3. walk = 0 BY <1>3, <1>4, <2>1
  <2>4. QED BY <1>2, <2>1, <2>2, <2>3 DEF PlacesOK, Cursored
<1>9. CASE CheckBounds \/ DropTrivial \/ Report
  <2>1. UNCHANGED <<trail, cursor, pc, seen, walk>> /\ pc = "check"
    BY <1>9 DEF CheckBounds, checking, DropTrivial, explaining, Report
  <2>2. Unseen' = Unseen /\ recent' = recent /\ decision_level' = decision_level /\ Cursored'
    BY <1>1, <2>1, SamePlaces DEF SameLists, Cursored
  <2>3. QED BY <1>2, <2>1, <2>2 DEF PlacesOK, Cursored
<1>10. CASE CheckDone
  <2>1. /\ UNCHANGED <<trail, cursor, seen, walk, blame>> /\ pc = "check" /\ blame = NoBlame
        /\ pc' \in {"conflict", "bcp", "decide"} /\ (pc' = "decide" => Unseen = << >>)
    BY <1>10 DEF CheckDone, checking
  <2>2. Unseen' = Unseen /\ recent' = recent /\ decision_level' = decision_level /\ Cursored'
    BY <1>1, <2>1, SamePlaces DEF SameLists, Cursored
  <2>3. NoBlame' = NoBlame BY DEF NoBlame
  <2>4. QED BY <1>2, <2>1, <2>2, <2>3 DEF PlacesOK, Cursored
<1>11. CASE BcpConflict
  <2>1. /\ UNCHANGED <<trail, cursor, seen, walk, blame>> /\ pc = "bcp" /\ pc' = "conflict"
    BY <1>11 DEF BcpConflict, LoopUnchanged
  <2>2. Unseen' = Unseen /\ recent' = recent /\ decision_level' = decision_level /\ Cursored'
    BY <1>1, <2>1, SamePlaces DEF SameLists, Cursored
  <2>3. NoBlame' = NoBlame BY DEF NoBlame
  <2>4. QED BY <1>2, <2>1, <2>2, <2>3 DEF PlacesOK, Cursored
<1>12. CASE UNCHANGED vars
  <2>1. UNCHANGED <<trail, cursor, seen, walk, blame, pc>>
    BY <1>12 DEF vars
  <2>2. Unseen' = Unseen /\ recent' = recent /\ decision_level' = decision_level /\ Cursored'
    BY <1>1, <2>1, SamePlaces DEF SameLists, Cursored
  <2>3. NoBlame' = NoBlame BY DEF NoBlame
  <2>4. QED BY <1>2, <2>1, <2>2, <2>3 DEF PlacesOK, Cursored
<1>13. QED BY <1>5, <1>6, <1>7, <1>8, <1>9, <1>10, <1>11, <1>12 DEF Looking

\* The lists of the trail after a propagation.
LEMMA GetsRecent ==
  ASSUME LraI, PluginInv', NEW v, NEW value, NEW level, Gets(v, value, level), decision_level' = decision_level
  PROVE  /\ Len(recent) <= Len(recent')
         /\ \A j \in DOMAIN recent : j \in DOMAIN recent' /\ recent'[j] = recent[j]
         /\ \A j \in DOMAIN recent' : recent'[j].var = v \/ (j \in DOMAIN recent /\ recent'[j] = recent[j])
<1>1. TrailShape /\ TrailShape'
  BY TrailLists, TrailListsNext DEF LraI, PluginInv
<1>2. Len(trail') = Len(trail) BY <1>1 DEF TrailShape, decision_level
<1>3. PICK n : n = Len(trail) OBVIOUS
<1>4. /\ n \in DOMAIN trail /\ n \in DOMAIN trail' /\ recent = trail[n] /\ recent' = trail'[n]
      /\ DOMAIN recent = 1..Len(recent) /\ DOMAIN recent' = 1..Len(recent')
      /\ Len(recent) \in Nat /\ Len(recent') \in Nat
  BY <1>1, <1>2, <1>3 DEF TrailShape
<1>5. /\ \A k \in DOMAIN trail'[n] :
           \/ trail'[n][k].var = v
           \/ k \in DOMAIN trail[n] /\ trail'[n][k] = trail[n][k]
      /\ \A k \in DOMAIN trail[n] : k \in DOMAIN trail'[n] /\ trail'[n][k] = trail[n][k]
  BY <1>4 DEF Gets, ListsGrow
<1>6. /\ \A j \in DOMAIN recent : j \in DOMAIN recent' /\ recent'[j] = recent[j]
      /\ \A j \in DOMAIN recent' : recent'[j].var = v \/ (j \in DOMAIN recent /\ recent'[j] = recent[j])
  BY <1>4, <1>5
<1>7. Len(recent) <= Len(recent')
  <2>1. CASE Len(recent) = 0 BY <1>4, <2>1
  <2>2. CASE Len(recent) # 0
    <3>1. Len(recent) \in DOMAIN recent' BY <1>4, <1>6, <2>2
    <3>2. QED BY <1>4, <3>1
  <2>3. QED BY <2>1, <2>2
<1>8. QED BY <1>6, <1>7

\* A constraint gets its value without a decision, or nothing happens.
LEMMA PlacesPropagated ==
  ASSUME LraI, PluginInv', UNCHANGED <<cursor, seen>>,
         \/ SameTrail
         \/ (\E v, value, level : Gets(v, value, level)) /\ decision_level' = decision_level
  PROVE  /\ Cursored'
         /\ \A k \in DOMAIN seen' : \E j \in DOMAIN recent' : seen'[k] = recent'[j].var
         /\ \A k \in DOMAIN seen' : seen'[k] \in RealVars => k = 1
<1>1. /\ Cursored
      /\ \A k \in DOMAIN seen : \E j \in DOMAIN recent : seen[k] = recent[j].var
      /\ \A k \in DOMAIN seen : seen[k] \in RealVars => k = 1
  BY DEF LraI, PlacesOK, Cursored
<1>2. /\ Len(recent) <= Len(recent') /\ decision_level' = decision_level
      /\ \A j \in DOMAIN recent : j \in DOMAIN recent' /\ recent'[j] = recent[j]
  <2>1. CASE SameTrail
    <3>1. recent' = recent /\ decision_level' = decision_level
      BY <2>1 DEF SameTrail, recent, decision_level
    <3>2. Len(recent) \in Nat
      BY TrailLists DEF LraI, PluginInv, TrailShape
    <3>3. QED BY <3>1, <3>2
  <2>2. CASE (\E v, value, level : Gets(v, value, level)) /\ decision_level' = decision_level
    BY <2>2, GetsRecent
  <2>3. QED BY <2>1, <2>2
<1>3. Len(recent) \in Nat /\ Len(recent') \in Nat /\ cursor.next \in Nat
  BY TrailLists, TrailListsNext DEF LraI, PluginInv, TrailShape, TrailKnown
<1>4. Cursored' BY <1>1, <1>2, <1>3 DEF Cursored
<1>5. QED BY <1>1, <1>2, <1>4

\* The level is kept where a constraint gets its value.
LEMMA NewValuesLevel ==
  ASSUME NEW a, NEW c, NewValues(a, c), PropagateConstraint(a, c) \/ SameTrail
  PROVE  decision_level' = decision_level
<1>1. CASE SameTrail BY <1>1 DEF SameTrail, decision_level
<1>2. CASE PropagateConstraint(a, c)
  <2>1. \E level : trail' = [i \in 1..Len(trail) |->
                 IF i > level THEN Append(trail[i], [var |-> a, reason |-> NoReason]) ELSE trail[i]]
    BY <1>2 DEF PropagateConstraint, Propagate
  <2>2. QED BY <2>1 DEF decision_level
<1>3. QED BY <1>1, <1>2

LEMMA PlacesNext ==
  ASSUME LraI, [Next]_vars
  PROVE  PlacesOK'
<1> USE DEF trailVars, boundVars, watchVars, walkVars, conflictVars
<1>1. /\ pc \in {"bcp", "theory", "read", "check", "decide", "conflict", "learn"}
      /\ pc # "read" => seen = << >> /\ walk = 0
      /\ pc = "decide" => Unseen = << >>
      /\ blame # NoBlame => pc = "check"
      /\ Cursored
  BY DEF LraI, PlacesOK, Cursored
<1>2. PluginInv' /\ NoBlame' = NoBlame BY NextLevels DEF NoBlame
<1>3. CASE Looking BY <1>3, PlacesLooking
<1>4. CASE VisitAssigned
  <2>1. UNCHANGED <<cursor, seen, pc, blame>> /\ pc = "read"
    BY <1>4 DEF VisitAssigned, AtWatch, walking
  <2>2. \/ SameTrail
        \/ (\E v, value, level : Gets(v, value, level)) /\ decision_level' = decision_level
    <3> DEFINE a == TheWatch.atom
               c == constraints[a]
    <3>1. NewValues(a, c) BY <1>4, VisitAssignedGets
    <3>2. SameTrail \/ PropagateConstraint(a, c)
      BY <1>4 DEF VisitAssigned, SameTrail
    <3> HIDE DEF a, c
    <3>3. decision_level' = decision_level BY <3>1, <3>2, NewValuesLevel
    <3>4. QED BY <3>1, <3>3 DEF NewValues, AtomGets
  <2>3. /\ Cursored'
        /\ \A k \in DOMAIN seen' : \E j \in DOMAIN recent' : seen'[k] = recent'[j].var
        /\ \A k \in DOMAIN seen' : seen'[k] \in RealVars => k = 1
    BY <1>2, <2>1, <2>2, PlacesPropagated
  <2>4. QED BY <1>1, <1>2, <2>1, <2>3 DEF PlacesOK, Cursored
<1>5. CASE Derive
  <2>1. UNCHANGED <<cursor, seen, pc, walk>> /\ pc = "check"
    BY <1>5 DEF Derive, explaining
  <2>2. \/ SameTrail
        \/ (\E v, value, level : Gets(v, value, level)) /\ decision_level' = decision_level
    <3> DEFINE p == Head(blame.polys)
               a == AtomFor(p)
               c == Normalized(p)
    <3>1. NewValues(a, c) BY <1>5, DeriveGets
    <3>2. SameTrail \/ PropagateConstraint(a, c)
      BY <1>5 DEF Derive, SameTrail
    <3> HIDE DEF a, c
    <3>3. decision_level' = decision_level BY <3>1, <3>2, NewValuesLevel
    <3>4. QED BY <3>1, <3>3 DEF NewValues, AtomGets
  <2>3. /\ Cursored'
        /\ \A k \in DOMAIN seen' : \E j \in DOMAIN recent' : seen'[k] = recent'[j].var
        /\ \A k \in DOMAIN seen' : seen'[k] \in RealVars => k = 1
    BY <1>2, <2>1, <2>2, PlacesPropagated
  <2>4. QED BY <1>1, <1>2, <2>1, <2>3 DEF PlacesOK, Cursored
<1>6. CASE BcpAssign
  <2>1. UNCHANGED <<cursor, seen, walk, blame>> /\ pc \in {"bcp", "learn"} /\ pc' = "bcp"
    BY <1>6 DEF BcpAssign, LoopUnchanged
  <2>2. (\E v, value, level : Gets(v, value, level)) /\ decision_level' = decision_level
    BY <1>6, BcpAssignGets DEF LoopGets, AtomGets
  <2>3. /\ Cursored'
        /\ \A k \in DOMAIN seen' : \E j \in DOMAIN recent' : seen'[k] = recent'[j].var
        /\ \A k \in DOMAIN seen' : seen'[k] \in RealVars => k = 1
    BY <1>2, <2>1, <2>2, PlacesPropagated
  <2>4. QED BY <1>1, <1>2, <2>1, <2>3 DEF PlacesOK, Cursored
<1>7. CASE DecideAtom \/ DecideReal
  <2>1. /\ UNCHANGED <<cursor, seen, walk, blame>> /\ pc \in {"decide", "learn"}
        /\ pc' \in {"bcp", "theory"}
    BY <1>7 DEF DecideAtom, DecideReal, LoopUnchanged
  <2>2. \E e : trail' = Append(trail, <<e>>)
    BY <1>7 DEF DecideAtom, DecideReal, Decide
  <2>3. Len(trail') = Len(trail) + 1 /\ Len(trail) \in Nat
    <3> DEFINE A == Seq(Entry)
    <3>1. trail \in Seq(A) /\ Len(trail) \in Nat
      BY TrailLists DEF LraI, PluginInv, TrailShape, TrailKnown, Entry
    <3> HIDE DEF A
    <3>2. PICK e : trail' = Append(trail, <<e>>) BY <2>2
    <3>3. QED BY <3>1, <3>2, Appended
  <2>4. Cursored'
    BY <1>1, <2>1, <2>3 DEF Cursored, decision_level, LraI, PluginInv, TrailKnown
  <2>5. seen' = << >> /\ DOMAIN seen' = {} BY <1>1, <2>1
  <2>6. QED BY <1>1, <1>2, <2>1, <2>4, <2>5 DEF PlacesOK, Cursored
<1>8. CASE BacktrackToLevel \/ Restart
  <2>1. /\ UNCHANGED <<seen, walk, blame>> /\ pc = "conflict"
        /\ pc' \in {"bcp", "learn"} /\ cursor' = ResetCursor
    BY <1>8 DEF BacktrackToLevel, Restart, LoopUnchanged
  <2>2. Cursored'
    <3>1. decision_level' \in Nat
      BY <1>2, TrailListsNext DEF PluginInv, TrailShape
    <3>2. cursor'.level = -1 BY <2>1 DEF ResetCursor
    <3>3. QED BY <3>1, <3>2 DEF Cursored
  <2>3. seen' = << >> /\ DOMAIN seen' = {} BY <1>1, <2>1
  <2>4. QED BY <1>1, <1>2, <2>1, <2>2, <2>3 DEF PlacesOK, Cursored
<1>9. QED BY <1>3, <1>4, <1>5, <1>6, <1>7, <1>8, NextCases
-----------------------------------------------------------------------------
(* Watch lists.                                                            *)

\* list has the elements of less, and new besides.
Added(list, less, new) ==
  /\ DOMAIN list = 1..(Len(less) + 1) /\ DOMAIN less = 1..Len(less) /\ Len(less) \in Nat
  /\ list[Len(less) + 1] = new
  /\ \A k \in 1..Len(less) : list[k] = less[k]

LEMMA AddedWatching ==
  ASSUME NEW list, NEW less, NEW new, Added(list, less, new)
  PROVE  /\ Watching(list) = Watching(less) \cup {new.atom}
         /\ Single(less) /\ new.atom \notin Watching(less) => Single(list)
         /\ \A k \in DOMAIN list : list[k] = new \/ (k \in DOMAIN less /\ list[k] = less[k])
         /\ \A k \in DOMAIN less : k \in DOMAIN list /\ list[k] = less[k]
<1>1. /\ DOMAIN list = 1..(Len(less) + 1) /\ DOMAIN less = 1..Len(less) /\ Len(less) \in Nat
      /\ list[Len(less) + 1] = new
      /\ \A k \in 1..Len(less) : list[k] = less[k]
  BY DEF Added
<1>2. \A k \in DOMAIN list : k = Len(less) + 1 \/ k \in DOMAIN less
  BY <1>1
<1>3. Len(less) + 1 \in DOMAIN list /\ \A k \in DOMAIN less : k \in DOMAIN list
  BY <1>1
<1>4. /\ \A k \in DOMAIN list : list[k] = new \/ (k \in DOMAIN less /\ list[k] = less[k])
      /\ \A k \in DOMAIN less : k \in DOMAIN list /\ list[k] = less[k]
  BY <1>1, <1>2, <1>3
<1>5. Watching(list) = Watching(less) \cup {new.atom}
  <2>1. \A k \in DOMAIN list : list[k].atom \in Watching(less) \cup {new.atom}
    BY <1>4 DEF Watching
  <2>2. \A k \in DOMAIN less : less[k].atom \in Watching(list)
    BY <1>4 DEF Watching
  <2>3. new.atom \in Watching(list) BY <1>1, <1>3 DEF Watching
  <2>4. QED BY <2>1, <2>2, <2>3 DEF Watching
<1>6. ASSUME Single(less), new.atom \notin Watching(less)
      PROVE  Single(list)
  <2>1. \A k \in DOMAIN less : list[k].atom # new.atom
    BY <1>4, <1>6 DEF Watching
  <2>2. SUFFICES ASSUME NEW j \in DOMAIN list, NEW k \in DOMAIN list, list[j].atom = list[k].atom
                 PROVE  j = k
    BY DEF Single
  <2>3. CASE j \in DOMAIN less /\ k \in DOMAIN less
    BY <1>4, <1>6, <2>2, <2>3 DEF Single
  <2>4. CASE j \notin DOMAIN less \/ k \notin DOMAIN less
    BY <1>1, <1>2, <2>1, <2>2, <2>4
  <2>5. QED BY <2>3, <2>4
<1>7. QED BY <1>4, <1>5, <1>6

\* list has the elements of more but the one at k, which the last one replaces.
Removed(list, more, k) ==
  /\ Len(more) \in Nat /\ DOMAIN more = 1..Len(more) /\ k \in 1..Len(more)
  /\ DOMAIN list = 1..(Len(more) - 1)
  /\ \A j \in DOMAIN list : list[j] = IF j = k THEN more[Len(more)] ELSE more[j]

LEMMA RemovedWatching ==
  ASSUME NEW list, NEW more, NEW k, Removed(list, more, k), Single(more)
  PROVE  /\ Watching(list) = Watching(more) \ {more[k].atom}
         /\ Single(list)
         /\ \A j \in DOMAIN list : \E i \in DOMAIN more : list[j] = more[i]
         /\ \A i \in DOMAIN more : i # k =>
              \E j \in DOMAIN list : list[j] = more[i] /\ (i >= k => j >= k)
<1>1. /\ Len(more) \in Nat /\ DOMAIN more = 1..Len(more) /\ k \in 1..Len(more)
      /\ DOMAIN list = 1..(Len(more) - 1)
      /\ \A j \in DOMAIN list : list[j] = IF j = k THEN more[Len(more)] ELSE more[j]
  BY DEF Removed
<1>2. ASSUME NEW j \in DOMAIN list
      PROVE  \E i \in DOMAIN more : list[j] = more[i] /\ i # k
  <2>1. j \in DOMAIN more /\ Len(more) \in DOMAIN more /\ j # Len(more)
    BY <1>1
  <2>2. CASE j = k BY <1>1, <2>1, <2>2
  <2>3. CASE j # k BY <1>1, <2>1, <2>3
  <2>4. QED BY <2>2, <2>3
<1>3. ASSUME NEW i \in DOMAIN more, i # k
      PROVE  \E j \in DOMAIN list : list[j] = more[i] /\ (i >= k => j >= k)
  <2>1. CASE i = Len(more)
    <3>1. k \in DOMAIN list /\ k >= k
      <4>1. k \in 1..Len(more) /\ k # Len(more) /\ Len(more) \in Nat
        BY <1>1, <1>3, <2>1
      <4>2. k \in 1..(Len(more) - 1) /\ k >= k BY <4>1
      <4>3. QED BY <1>1, <4>2
    <3>2. list[k] = more[i] BY <1>1, <2>1, <3>1
    <3>3. QED BY <3>1, <3>2
  <2>2. CASE i # Len(more)
    <3>1. i \in DOMAIN list BY <1>1, <2>2
    <3>2. list[i] = more[i] BY <1>1, <1>3, <3>1
    <3>3. QED BY <3>1, <3>2
  <2>3. QED BY <2>1, <2>2
<1>4. Watching(list) = Watching(more) \ {more[k].atom}
  <2>1. \A i \in DOMAIN more : i # k => more[i].atom # more[k].atom
    BY <1>1 DEF Single
  <2>2. \A j \in DOMAIN list : list[j].atom \in Watching(more) \ {more[k].atom}
    BY <1>2, <2>1 DEF Watching
  <2>3. \A i \in DOMAIN more : i # k => more[i].atom \in Watching(list)
    BY <1>3 DEF Watching
  <2>4. Watching(list) \subseteq Watching(more) \ {more[k].atom}
    BY <2>2 DEF Watching
  <2>5. Watching(more) \ {more[k].atom} \subseteq Watching(list)
    BY <2>3 DEF Watching
  <2>6. QED BY <2>4, <2>5
<1>5. Single(list)
  <2> SUFFICES ASSUME NEW i \in DOMAIN list, NEW j \in DOMAIN list, list[i].atom = list[j].atom
               PROVE  i = j
    BY DEF Single
  <2>1. /\ i \in DOMAIN more /\ j \in DOMAIN more /\ Len(more) \in DOMAIN more
        /\ i # Len(more) /\ j # Len(more)
    BY <1>1
  <2>2. CASE i = k /\ j = k BY <2>2
  <2>3. CASE i = k /\ j # k
    <3>1. more[Len(more)].atom = more[j].atom BY <1>1, <2>3
    <3>2. Len(more) = j BY <2>1, <3>1 DEF Single
    <3>3. QED BY <2>1, <3>2
  <2>4. CASE i # k /\ j = k
    <3>1. more[Len(more)].atom = more[i].atom BY <1>1, <2>4
    <3>2. Len(more) = i BY <2>1, <3>1 DEF Single
    <3>3. QED BY <2>1, <3>2
  <2>5. CASE i # k /\ j # k
    <3>1. more[i].atom = more[j].atom BY <1>1, <2>5
    <3>2. QED BY <2>1, <3>1 DEF Single
  <2>6. QED BY <2>2, <2>3, <2>4, <2>5
<1>6. QED BY <1>2, <1>3, <1>4, <1>5

LEMMA FrontRemoves ==
  ASSUME NEW S, NEW s \in Seq(S), NEW k \in 1..Len(s)
  PROVE  Removed(Front([s EXCEPT ![k] = Last(s)]), s, k)
<1> DEFINE x == s[Len(s)]
           t == [s EXCEPT ![k] = x]
<1>1. /\ t \in Seq(S) /\ Len(t) = Len(s) /\ Len(s) \in Nat /\ Len(s) >= 1
      /\ \A j \in 1..Len(s) : t[j] = IF j = k THEN x ELSE s[j]
  OBVIOUS
<1>2. Last(s) = x BY DEF Last
<1> HIDE DEF t, x
<1>3. PICK u : u = SubSeq(t, 1, Len(t) - 1) OBVIOUS
<1>4. u = Front([s EXCEPT ![k] = Last(s)]) BY <1>2, <1>3 DEF Front, t
<1>5. /\ DOMAIN u = 1..(Len(s) - 1)
      /\ \A j \in 1..(Len(s) - 1) : u[j] = t[j]
  BY <1>1, <1>3
<1>6. DOMAIN s = 1..Len(s) /\ \A j \in 1..(Len(s) - 1) : j \in 1..Len(s)
  BY <1>1
<1>7. Removed(u, s, k) BY <1>1, <1>5, <1>6 DEF Removed, x
<1>8. QED BY <1>4, <1>7

LEMMA AppendAdds ==
  ASSUME NEW S, NEW s \in Seq(S), NEW e
  PROVE  Added(Append(s, e), s, e)
<1>1. Len(s) \in Nat /\ DOMAIN s = 1..Len(s) OBVIOUS
<1>2. QED BY <1>1, Appended DEF Added

\* The positions that are chosen are so once.
Ascending(list, top) ==
  /\ list \in Seq(Nat)
  /\ \A k \in 1..Len(list) : list[k] <= top
  /\ \A j, k \in 1..Len(list) : list[j] = list[k] => j = k

LEMMA ChosenOnce ==
  ASSUME NEW n \in Nat, NEW keep
  PROVE  Ascending(Chosen([i \in 1..n |-> i], keep), n)
<1> DEFINE s == [i \in 1..n |-> i]
<1>1. Len(s) = n /\ \A i \in 1..n : s[i] = i
  <2>1. s \in [1..n -> 1..n] OBVIOUS
  <2>2. QED BY <2>1, FunctionIsSeq
<1> HIDE DEF s
<1>2. PICK f : IsChosen(f, s, keep, n) /\ Chosen(s, keep) = f[n]
  BY <1>1, ChosenIsFunction
<1> DEFINE P == {k \in 0..n : Ascending(f[k], k)}
<1>3. 0 \in P
  <2>1. f[0] = << >> BY <1>2 DEF IsChosen
  <2>2. << >> \in Seq(Nat) /\ Len(<< >>) = 0 /\ 1..0 = {} OBVIOUS
  <2>3. PICK g : g = << >> OBVIOUS
  <2>4. g \in Seq(Nat) /\ Len(g) = 0 BY <2>2, <2>3
  <2>5. Ascending(g, 0) BY <2>4 DEF Ascending
  <2>6. 0 \in 0..n OBVIOUS
  <2>7. QED BY <2>1, <2>3, <2>5, <2>6
<1>4. ASSUME NEW m \in 1..n, m - 1 \in P
      PROVE  m \in P
  <2>1. Ascending(f[m - 1], m - 1) /\ m \in 0..n /\ m - 1 \in 0..n
    BY <1>4
  <2>2. f[m] = IF m \in keep THEN Append(f[m - 1], m) ELSE f[m - 1]
    <3>1. f[m] = IF m = 0 THEN << >> ELSE IF m \in keep THEN Append(f[m - 1], s[m]) ELSE f[m - 1]
      BY <1>2, <2>1, ZenonT(60) DEF IsChosen
    <3>2. m # 0 /\ s[m] = m BY <1>1
    <3>3. QED BY <3>1, <3>2
  <2>3. PICK g : g = f[m - 1] OBVIOUS
  <2>4. /\ g \in Seq(Nat) /\ Len(g) \in Nat
        /\ \A k \in 1..Len(g) : g[k] \in Nat /\ g[k] <= m - 1
        /\ \A j, k \in 1..Len(g) : g[j] = g[k] => j = k
    BY <2>1, <2>3 DEF Ascending
  <2>5. CASE m \notin keep
    <3>1. f[m] = g BY <2>2, <2>3, <2>5
    <3>2. \A k \in 1..Len(g) : g[k] <= m BY <2>4
    <3>3. QED BY <2>1, <2>4, <3>1, <3>2 DEF Ascending
  <2>6. CASE m \in keep
    <3>1. PICK h : h = f[m] OBVIOUS
    <3>2. h = Append(g, m) BY <2>2, <2>3, <2>6, <3>1
    <3>3. h \in Seq(Nat) /\ Len(h) = Len(g) + 1 BY <2>4, <3>2
    <3>4. h[Len(g) + 1] = m /\ \A k \in 1..Len(g) : h[k] = g[k]
      BY <2>4, <3>2, Appended
    <3>5. \A k \in 1..Len(h) : k = Len(g) + 1 \/ k \in 1..Len(g)
      BY <2>4, <3>3
    <3>6. \A k \in 1..Len(g) : g[k] # m /\ g[k] <= m BY <2>4
    <3>7. \A k \in 1..Len(h) : h[k] <= m BY <3>4, <3>5, <3>6
    <3>8. \A j, k \in 1..Len(h) : h[j] = h[k] => j = k
      BY <2>4, <3>4, <3>5, <3>6
    <3>9. QED BY <2>1, <3>1, <3>3, <3>7, <3>8 DEF Ascending
  <2>7. QED BY <2>5, <2>6
<1> HIDE DEF P
<1>5. \A k \in 0..n : k \in P BY <1>3, <1>4, UpTo
<1>6. n \in P BY <1>5
<1>7. QED BY <1>2, <1>6 DEF P, s
-----------------------------------------------------------------------------
(* Constraints are in the watch lists of their first two variables.        *)

\* What is watched is a constraint.
LEMMA WatchedAtoms ==
  ASSUME PluginInv
  PROVE  \A r \in RealVars :
           /\ watched[r] \in Seq(Watches) /\ Len(watched[r]) \in Nat
           /\ DOMAIN watched[r] = 1..Len(watched[r])
           /\ \A k \in DOMAIN watched[r] : watched[r][k].atom \in DOMAIN constraints
<1> SUFFICES ASSUME NEW r \in RealVars
             PROVE  /\ watched[r] \in Seq(Watches) /\ Len(watched[r]) \in Nat
                    /\ DOMAIN watched[r] = 1..Len(watched[r])
                    /\ \A k \in DOMAIN watched[r] : watched[r][k].atom \in DOMAIN constraints
  OBVIOUS
<1>1. watched[r] \in Seq(Watches)
  BY DEF PluginInv, WatchedKnown, Watches
<1>2. \A w \in Watches : w.atom \in DOMAIN constraints BY DEF Watches
<1> HIDE DEF Watches
<1>3. Len(watched[r]) \in Nat /\ DOMAIN watched[r] = 1..Len(watched[r])
  BY <1>1
<1>4. \A k \in DOMAIN watched[r] : watched[r][k] \in Watches
  BY <1>1, <1>3
<1>5. QED BY <1>1, <1>2, <1>3, <1>4

\* The variables of a are listed in another order.
Relisted(a, us) ==
  /\ a \in DOMAIN constraints /\ UNCHANGED constraints
  /\ us \in Seq(RealVars) /\ Len(us) \in Nat /\ DOMAIN us = 1..Len(us) /\ Len(us) = Len(order[a])
  /\ \A p, q \in 1..Len(us) : us[p] = us[q] => p = q
  /\ order' = [order EXCEPT ![a] = us]

LEMMA RelistedOrder ==
  ASSUME LraI, NEW a, NEW us, Relisted(a, us)
  PROVE  /\ OrderOK' /\ order'[a] = us
         /\ \A b \in DOMAIN constraints : DOMAIN order'[b] = DOMAIN order[b]
         /\ \A b \in DOMAIN constraints : b # a => order'[b] = order[b]
         /\ \A b \in DOMAIN constraints : b # a => \A r : IsWatched(b, r)' <=> IsWatched(b, r)
         /\ \A r : IsWatched(a, r)' <=> r = us[1] \/ (Len(us) > 1 /\ r = us[2])
<1>1. /\ a \in DOMAIN constraints /\ Len(us) \in Nat /\ DOMAIN us = 1..Len(us)
      /\ Len(us) = Len(order[a]) /\ \A p, q \in 1..Len(us) : us[p] = us[q] => p = q
      /\ order' = [order EXCEPT ![a] = us]
  BY DEF Relisted
<1>2. DOMAIN order = DOMAIN constraints /\ DOMAIN order[a] = 1..Len(order[a]) /\ Len(order[a]) >= 1
  BY <1>1, OrderOf, WatchedFirst DEF LraI, PluginInv
<1>3. order'[a] = us /\ \A b \in DOMAIN constraints : b # a => order'[b] = order[b]
  BY <1>1, <1>2
<1>4. \A b \in DOMAIN constraints : DOMAIN order'[b] = DOMAIN order[b]
  BY <1>1, <1>2, <1>3
<1>5. OrderOK'
  <2>1. DOMAIN order' = DOMAIN constraints BY <1>1, <1>2
  <2>2. QED BY <1>1, <1>2, <1>3, <2>1 DEF LraI, OrderOK
<1>6. \A b \in DOMAIN constraints : b # a => \A r : IsWatched(b, r)' <=> IsWatched(b, r)
  BY <1>3 DEF IsWatched
<1>7. \A p \in 1..Len(us) : p <= 2 => p = 1 \/ (Len(us) > 1 /\ p = 2)
  BY <1>1
<1>8. 1 \in 1..Len(us) /\ (Len(us) > 1 => 2 \in 1..Len(us))
  BY <1>1, <1>2
<1>9. \A r : IsWatched(a, r)' <=> r = us[1] \/ (Len(us) > 1 /\ r = us[2])
  BY <1>1, <1>3, <1>7, <1>8 DEF IsWatched
<1>10. QED BY <1>3, <1>4, <1>5, <1>6, <1>9

LEMMA WatchesVisitUnit ==
  ASSUME LraI, VisitUnit
  PROVE  /\ OrderOK' /\ WatchesOK'
         /\ Visit(TheWatch.atom, Reordered(TheWatch.atom))
         /\ Relisted(TheWatch.atom, Reordered(TheWatch.atom))
         /\ ~is_defined(Reordered(TheWatch.atom)[1])
<1> USE DEF trailVars, boundVars, watchVars, walkVars, conflictVars
<1> DEFINE a == TheWatch.atom
           vs == Reordered(a)
<1>1. /\ AtWatch /\ order' = [order EXCEPT ![a] = vs] /\ UNCHANGED <<watched, constraints>>
      /\ ~is_defined(vs[1])
  BY DEF VisitUnit
<1>2. Visit(a, vs) BY <1>1, Visiting
<1> HIDE DEF a, vs
<1>3. Relisted(a, vs) BY <1>1, <1>2 DEF Visit, Relisted
<1>4. /\ OrderOK'
      /\ \A b \in DOMAIN constraints : DOMAIN order'[b] = DOMAIN order[b]
      /\ \A b \in DOMAIN constraints : \A r : IsWatched(b, r)' <=> IsWatched(b, r)
  BY <1>2, <1>3, RelistedOrder DEF Visit
<1>5. \A r \in RealVars : \A k \in DOMAIN watched[r] : watched[r][k].atom \in DOMAIN constraints
  BY WatchedAtoms DEF LraI
<1>6. WatchesOK'
  <2> SUFFICES ASSUME NEW r \in RealVars
               PROVE  /\ \A b \in DOMAIN constraints : b \in Watching(watched[r]) <=> IsWatched(b, r)'
                      /\ Single(watched[r])
                      /\ \A k \in DOMAIN watched[r] : watched[r][k].index \in DOMAIN order'[watched[r][k].atom]
    BY <1>1 DEF WatchesOK, IsWatched, Watching, Single
  <2>1. /\ \A b \in DOMAIN constraints : b \in Watching(watched[r]) <=> IsWatched(b, r)
        /\ Single(watched[r])
        /\ \A k \in DOMAIN watched[r] : watched[r][k].index \in DOMAIN order[watched[r][k].atom]
    BY DEF LraI, WatchesOK
  <2>2. QED BY <1>4, <1>5, <2>1
<1>7. QED BY <1>1, <1>2, <1>3, <1>4, <1>6 DEF a, vs

\* The watch of a is moved from Walked to the variable at position p.
Moves(a, vs, p) ==
  /\ Visit(a, vs) /\ ~is_defined(vs[1]) /\ vs[2] = Walked
  /\ p \in 3..Len(vs) /\ ~is_defined(vs[p]) /\ vs[p] \in RealVars /\ vs[p] # Walked
  /\ Relisted(a, [vs EXCEPT ![2] = vs[p], ![p] = vs[2]])
  /\ Added(watched'[vs[p]], watched[vs[p]], [atom |-> a, index |-> p])
  /\ Removed(watched'[Walked], watched[Walked], walk)
  /\ \A r \in RealVars \ {Walked, vs[p]} : watched'[r] = watched[r]

LEMMA MoveWatchMoves ==
  ASSUME LraI, MoveWatch
  PROVE  \E a, vs, p : Moves(a, vs, p)
<1> USE DEF trailVars, boundVars, watchVars, walkVars, conflictVars
<1> DEFINE a == TheWatch.atom
           vs == Reordered(a)
           p == NextFree(vs, TheWatch.index)
           us == [vs EXCEPT ![2] = vs[p], ![p] = vs[2]]
           new == [atom |-> a, index |-> p]
           last == Last(watched[Walked])
           added == [watched EXCEPT ![vs[p]] = Append(@, new)]
<1>1. /\ UNCHANGED constraints
      /\ AtWatch /\ Replaceable
      /\ order' = [order EXCEPT ![a] = us]
      /\ watched' = [added EXCEPT ![Walked] = Front([@ EXCEPT ![walk] = last])]
  BY DEF MoveWatch
<1>2. Visit(a, vs) /\ ~is_defined(vs[1]) /\ TheWatch \in Watches
  BY <1>1, Visiting, AtWatchKnown DEF Replaceable, LraI, PluginInv
<1>3. p \in Free(vs)
  BY <1>1, <1>2, NextFreeExists DEF Replaceable, Watches, Visit
<1> HIDE DEF a, vs, p
<1>4. /\ p \in 3..Len(vs) /\ ~is_defined(vs[p]) /\ vs[p] \in RealVars /\ vs[2] = Walked /\ Len(vs) > 1
      /\ p \in 1..Len(vs) /\ 2 \in 1..Len(vs) /\ p # 2 /\ Len(vs) \in Nat
      /\ vs \in Seq(RealVars) /\ DOMAIN vs = 1..Len(vs) /\ Len(vs) = Len(order[a])
      /\ Walked \in RealVars /\ walk \in 1..Len(watched[Walked]) /\ a \in DOMAIN constraints
      /\ \A i, j \in 1..Len(vs) : vs[i] = vs[j] => i = j
  BY <1>2, <1>3 DEF Visit, Free
<1>5. vs[p] # Walked BY <1>4
<1>6. /\ us \in Seq(RealVars) /\ Len(us) = Len(vs) /\ DOMAIN us = 1..Len(vs)
      /\ us[2] = vs[p] /\ us[p] = vs[2] /\ \A j \in 1..Len(vs) : j # 2 /\ j # p => us[j] = vs[j]
  BY <1>4
<1>7. \A i, j \in 1..Len(us) : us[i] = us[j] => i = j
  <2> HIDE DEF us
  <2>1. SUFFICES ASSUME NEW i \in 1..Len(vs), NEW j \in 1..Len(vs), us[i] = us[j]
                 PROVE  i = j
    BY <1>6
  <2>2. \E k \in 1..Len(vs) : us[i] = vs[k] /\ k = IF i = 2 THEN p ELSE IF i = p THEN 2 ELSE i
    BY <1>4, <1>6
  <2>3. \E k \in 1..Len(vs) : us[j] = vs[k] /\ k = IF j = 2 THEN p ELSE IF j = p THEN 2 ELSE j
    BY <1>4, <1>6
  <2>4. QED BY <1>4, <2>1, <2>2, <2>3
<1>8. Relisted(a, us)
  <2> HIDE DEF us
  <2>1. QED BY <1>1, <1>4, <1>6, <1>7 DEF Relisted
<1>9. watched \in [RealVars -> Seq(Watches)]
  BY DEF LraI, PluginInv, WatchedKnown, Watches
<1> HIDE DEF new
<1>10. /\ added[Walked] = watched[Walked] /\ added[vs[p]] = Append(watched[vs[p]], new)
       /\ \A r \in RealVars \ {Walked, vs[p]} : added[r] = watched[r]
       /\ DOMAIN added = RealVars
  BY <1>4, <1>5, <1>9
<1> HIDE DEF added
<1>11. /\ watched'[Walked] = Front([watched[Walked] EXCEPT ![walk] = last])
       /\ watched'[vs[p]] = Append(watched[vs[p]], new)
       /\ \A r \in RealVars \ {Walked, vs[p]} : watched'[r] = watched[r]
  BY <1>1, <1>4, <1>5, <1>10
<1>12. watched[Walked] \in Seq(Watches) /\ watched[vs[p]] \in Seq(Watches)
  BY <1>4, <1>9
<1>13. Removed(watched'[Walked], watched[Walked], walk)
  <2>1. PICK s : s = watched[Walked] OBVIOUS
  <2>2. s \in Seq(Watches) /\ walk \in 1..Len(s) BY <1>4, <1>12, <2>1
  <2>3. Removed(Front([s EXCEPT ![walk] = Last(s)]), s, walk)
    BY <2>2, FrontRemoves
  <2>4. QED BY <1>11, <2>1, <2>3
<1>14. Added(watched'[vs[p]], watched[vs[p]], new)
  <2>1. PICK s : s = watched[vs[p]] OBVIOUS
  <2>2. Added(Append(s, new), s, new) BY <1>12, <2>1, AppendAdds
  <2>3. QED BY <1>11, <2>1, <2>2
<1>15. Moves(a, vs, p)
  BY <1>2, <1>4, <1>5, <1>8, <1>11, <1>13, <1>14 DEF Moves, new
<1>16. QED BY <1>15

LEMMA WatchesMoved ==
  ASSUME LraI, NEW a, NEW vs, NEW p, Moves(a, vs, p)
  PROVE  OrderOK' /\ WatchesOK'
<1> DEFINE us == [vs EXCEPT ![2] = vs[p], ![p] = vs[2]]
           new == [atom |-> a, index |-> p]
           t == vs[p]
<1>1. /\ Visit(a, vs) /\ p \in 3..Len(vs) /\ vs[2] = Walked /\ t \in RealVars /\ t # Walked
      /\ Relisted(a, us)
      /\ Added(watched'[t], watched[t], new)
      /\ Removed(watched'[Walked], watched[Walked], walk)
      /\ \A r \in RealVars \ {Walked, t} : watched'[r] = watched[r]
  BY DEF Moves
<1>2. /\ vs \in Seq(RealVars) /\ Len(vs) \in Nat /\ DOMAIN vs = 1..Len(vs)
      /\ a \in DOMAIN constraints /\ Walked \in RealVars /\ watched[Walked][walk].atom = a
      /\ \A i, j \in 1..Len(vs) : vs[i] = vs[j] => i = j
      /\ \A r : IsWatched(a, r) <=> r = vs[1] \/ (Len(vs) > 1 /\ r = vs[2])
  BY <1>1 DEF Visit
<1>3. Len(vs) > 1 /\ Len(us) = Len(vs) /\ us[1] = vs[1] /\ us[2] = t /\ p \in 1..Len(vs)
  BY <1>1, <1>2
<1>4. new.atom = a /\ new.index = p /\ UNCHANGED constraints
  BY <1>1 DEF Relisted
<1>5. 1 \in 1..Len(vs) /\ 2 \in 1..Len(vs) /\ p # 1 /\ p # 2
  BY <1>1, <1>2, <1>3
<1>6. t # vs[1] /\ vs[1] # Walked BY <1>1, <1>2, <1>3, <1>5
<1> HIDE DEF us, new, t
<1>7. /\ OrderOK'
      /\ \A b \in DOMAIN constraints : DOMAIN order'[b] = DOMAIN order[b]
      /\ \A b \in DOMAIN constraints : b # a => \A r : IsWatched(b, r)' <=> IsWatched(b, r)
      /\ \A r : IsWatched(a, r)' <=> r = vs[1] \/ r = t
  BY <1>1, <1>2, <1>3, RelistedOrder
<1>8. p \in DOMAIN order[a] BY <1>1, <1>3, <1>2, WatchedFirst DEF Visit
<1>9. ~IsWatched(a, t) /\ IsWatched(a, Walked) /\ IsWatched(a, vs[1])
  BY <1>1, <1>2, <1>3, <1>6
<1>10. \A r \in RealVars :
         /\ \A b \in DOMAIN constraints : b \in Watching(watched[r]) <=> IsWatched(b, r)
         /\ Single(watched[r])
         /\ \A k \in DOMAIN watched[r] : watched[r][k].index \in DOMAIN order[watched[r][k].atom]
         /\ \A k \in DOMAIN watched[r] : watched[r][k].atom \in DOMAIN constraints
  BY WatchedAtoms DEF LraI, WatchesOK
<1>11. SUFFICES ASSUME NEW r \in RealVars
                PROVE  /\ \A b \in DOMAIN constraints : b \in Watching(watched'[r]) <=> IsWatched(b, r)'
                       /\ Single(watched'[r])
                       /\ \A k \in DOMAIN watched'[r] : watched'[r][k].index \in DOMAIN order'[watched'[r][k].atom]
  BY <1>4, <1>7 DEF WatchesOK, IsWatched, Watching, Single
<1>12. CASE r = t
  <2>1. a \notin Watching(watched[r]) BY <1>2, <1>9, <1>10, <1>12
  <2>2. /\ Watching(watched'[r]) = Watching(watched[r]) \cup {a}
        /\ Single(watched'[r])
        /\ \A k \in DOMAIN watched'[r] :
             watched'[r][k] = new \/ (k \in DOMAIN watched[r] /\ watched'[r][k] = watched[r][k])
    BY <1>1, <1>4, <1>10, <1>12, <2>1, AddedWatching
  <2>3. \A k \in DOMAIN watched'[r] : watched'[r][k].index \in DOMAIN order'[watched'[r][k].atom]
    BY <1>2, <1>4, <1>7, <1>8, <1>10, <2>2
  <2>4. \A b \in DOMAIN constraints : b \in Watching(watched'[r]) <=> IsWatched(b, r)'
    BY <1>7, <1>10, <1>12, <2>2
  <2>5. QED BY <2>2, <2>3, <2>4
<1>13. CASE r = Walked
  <2>1. /\ Watching(watched'[r]) = Watching(watched[r]) \ {a}
        /\ Single(watched'[r])
        /\ \A j \in DOMAIN watched'[r] : \E i \in DOMAIN watched[r] : watched'[r][j] = watched[r][i]
    BY <1>1, <1>2, <1>10, <1>13, RemovedWatching
  <2>2. \A k \in DOMAIN watched'[r] : watched'[r][k].index \in DOMAIN order'[watched'[r][k].atom]
    BY <1>7, <1>10, <2>1
  <2>3. \A b \in DOMAIN constraints : b \in Watching(watched'[r]) <=> IsWatched(b, r)'
    BY <1>1, <1>6, <1>7, <1>10, <1>13, <2>1
  <2>4. QED BY <2>1, <2>2, <2>3
<1>14. CASE r # t /\ r # Walked
  <2>1. watched'[r] = watched[r] BY <1>1, <1>14
  <2>2. \A b \in DOMAIN constraints : IsWatched(b, r)' <=> IsWatched(b, r)
    BY <1>1, <1>2, <1>7, <1>14
  <2>3. QED BY <1>7, <1>10, <2>1, <2>2
<1>15. QED BY <1>12, <1>13, <1>14
-----------------------------------------------------------------------------
(* The constraint that is new.                                             *)

LEMMA MinTwo ==
  ASSUME NEW n \in Nat \ {0}
  PROVE  Min({2, n}) = IF n = 1 THEN 1 ELSE 2
<1>1. {2, n} \in SUBSET Nat /\ {2, n} # {} OBVIOUS
<1>2. Min({2, n}) \in {2, n} /\ \A y \in {2, n} : Min({2, n}) <= y
  <2>1. \E x \in {2, n} : \A y \in {2, n} : x <= y BY <1>1, LeastNatural
  <2>2. QED BY <2>1 DEF Min
<1>3. QED BY <1>2

\* The variables of a constraint in some order.
Listing(vs, D) ==
  /\ vs \in Seq(RealVars) /\ Len(vs) \in Nat /\ Len(vs) >= 1 /\ DOMAIN vs = 1..Len(vs)
  /\ \A p, q \in 1..Len(vs) : vs[p] = vs[q] => p = q
  /\ D = {vs[p] : p \in 1..Len(vs)}
  /\ FirstIndex(vs) \in DOMAIN vs

LEMMA SortedIsListing ==
  ASSUME NEW D \in (SUBSET RealVars) \ {{}}, NEW vs \in Bijection(1..Cardinality(D), D)
  PROVE  Listing(vs, D)
<1>1. IsFiniteSet(D) BY RealVarsAssumption, FS_Subset
<1>2. vs \in Seq(D) /\ Range(vs) = D BY <1>1, BijectionIsList
<1>3. vs \in Seq(RealVars) BY <1>2, SeqGrows
<1>4. Len(vs) \in Nat /\ DOMAIN vs = 1..Len(vs) /\ D = {vs[p] : p \in 1..Len(vs)}
  BY <1>2 DEF Range
<1>5. Len(vs) >= 1 BY <1>4
<1>6. \A p, q \in DOMAIN vs : vs[p] = vs[q] => p = q
  BY DEF Bijection, Injection, IsInjective
<1>7. FirstIndex(vs) \in 1..Len(vs) BY <1>4, <1>5 DEF FirstIndex
<1>8. QED BY <1>3, <1>4, <1>5, <1>6, <1>7 DEF Listing

\* The constraint a is new and its variables are vs.
NewListed(a, vs) ==
  /\ a = Len(constraints) + 1 /\ a \notin DOMAIN constraints
  /\ DOMAIN constraints' = DOMAIN constraints \cup {a} /\ Kept
  /\ Listing(vs, DOMAIN constraints'[a].coef)
  /\ \A i, j \in 1..Len(vs) : i < j => var_level[vs[j]] <= var_level[vs[i]]
  /\ \A i \in 1..Len(vs) : is_defined(vs[i])
  /\ order'[a] = vs /\ DOMAIN order' = DOMAIN constraints'
  /\ \A b \in DOMAIN constraints : order'[b] = order[b]
  /\ \A r \in RealVars :
       IF r = vs[1] \/ (Len(vs) > 1 /\ r = vs[2])
         THEN Added(watched'[r], watched[r], [atom |-> a, index |-> FirstIndex(vs)])
         ELSE watched'[r] = watched[r]

LEMMA DeriveLists ==
  ASSUME LraI, Derive
  PROVE  LET p == Head(blame.polys) IN
         \/ ~IsNew(p) /\ UNCHANGED <<constraints, order, watched>>
         \/ IsNew(p) /\ \E vs : NewListed(AtomFor(p), vs)
<1> USE DEF trailVars, boundVars, watchVars, walkVars, conflictVars
<1> DEFINE p == Head(blame.polys)
           a == AtomFor(p)
<1>1. IF IsNew(p) THEN \E vs \in SortedBy(DOMAIN p.coef, LaterFirst) : Watch(a, vs)
                  ELSE UNCHANGED <<order, watched>>
  BY DEF Derive
<1>2. /\ DOMAIN p.coef \in (SUBSET RealVars) \ {{}} /\ Make(p) /\ AtomFor(p) <= MaxAtoms
      /\ PolyOK(p)
  BY DeriveGets
<1> HIDE DEF p
<1>3. /\ a \in DOMAIN constraints' /\ constraints'[a] = Normalized(p)
      /\ a \in Vars /\ Kept
      /\ ~IsNew(p) => a \in DOMAIN constraints /\ UNCHANGED constraints
      /\ IsNew(p) => a = Len(constraints) + 1
      /\ IsNew(p) => constraints' = Append(constraints, Normalized(p))
  BY <1>2, AtomForKnown
<1> HIDE DEF a
<1>4. CASE ~IsNew(p) BY <1>1, <1>3, <1>4 DEF p
<1>5. CASE IsNew(p)
  <2>1. PICK vs \in SortedBy(DOMAIN p.coef, LaterFirst) : Watch(a, vs)
    BY <1>1, <1>5
  <2>2. /\ vs \in Bijection(1..Cardinality(DOMAIN p.coef), DOMAIN p.coef)
        /\ \A i, j \in DOMAIN vs : i < j => ~LaterFirst(vs[j], vs[i])
    BY <2>1 DEF SortedBy
  <2>3. DOMAIN constraints'[a].coef = DOMAIN p.coef
    BY <1>3 DEF Normalized
  <2>4. Listing(vs, DOMAIN p.coef) BY <1>2, <2>2, SortedIsListing
  <2>5. /\ DOMAIN vs = 1..Len(vs) /\ \A i \in 1..Len(vs) : vs[i] \in DOMAIN p.coef /\ vs[i] \in Vars
    BY <1>2, <2>4, PluginAssumption DEF Listing
  <2>6. \A i, j \in 1..Len(vs) : i < j => var_level[vs[j]] <= var_level[vs[i]]
    <3> SUFFICES ASSUME NEW i \in 1..Len(vs), NEW j \in 1..Len(vs), i < j
                 PROVE  var_level[vs[j]] <= var_level[vs[i]]
      OBVIOUS
    <3>1. ~LaterFirst(vs[j], vs[i]) BY <2>2, <2>5
    <3>2. var_level[vs[j]] \in Int /\ var_level[vs[i]] \in Int
      BY <2>5 DEF LraI, LevelsOK
    <3>3. ~(var_level[vs[j]] > var_level[vs[i]]) BY <3>1 DEF LaterFirst
    <3>4. QED BY <3>2, <3>3
  <2>7. \A i \in 1..Len(vs) : is_defined(vs[i]) BY <1>2, <2>5 DEF PolyOK
  <2>8. /\ DOMAIN constraints = 1..Len(constraints) /\ Len(constraints) \in Nat
        /\ order \in Seq(Seq(RealVars)) /\ Len(order) = Len(constraints)
    BY KnownVars DEF LraI, PluginInv, OrderKnown
  <2>9. DOMAIN constraints' = DOMAIN constraints \cup {a} /\ a \notin DOMAIN constraints /\ a = Len(constraints) + 1
    <3>1. PICK C : constraints \in Seq(C)
      BY DEF LraI, PluginInv, ConstraintsKnown
    <3>2. DOMAIN constraints' = 1..(Len(constraints) + 1)
      BY <1>3, <1>5, <3>1, Appended
    <3>3. QED BY <1>3, <1>5, <2>8, <3>2
  <2>10. order'[a] = vs /\ DOMAIN order' = DOMAIN constraints' /\ \A b \in DOMAIN constraints : order'[b] = order[b]
    <3> DEFINE A == Seq(RealVars)
    <3>1. order \in Seq(A) /\ order' = Append(order, vs)
      BY <2>1, <2>8 DEF Watch
    <3> HIDE DEF A
    <3>2. /\ DOMAIN order' = 1..(Len(order) + 1) /\ order'[Len(order) + 1] = vs
          /\ \A b \in 1..Len(order) : order'[b] = order[b]
      BY <3>1, Appended
    <3>3. QED BY <2>8, <2>9, <3>2
  <2>11. ASSUME NEW r \in RealVars
         PROVE  IF r = vs[1] \/ (Len(vs) > 1 /\ r = vs[2])
                  THEN Added(watched'[r], watched[r], [atom |-> a, index |-> FirstIndex(vs)])
                  ELSE watched'[r] = watched[r]
    <3> DEFINE new == [atom |-> a, index |-> FirstIndex(vs)]
    <3>1. watched'[r] = IF r \in {vs[1], vs[Min({2, Len(vs)})]}
                          THEN Append(watched[r], new) ELSE watched[r]
      BY <2>1 DEF Watch
    <3>2. Min({2, Len(vs)}) = (IF Len(vs) = 1 THEN 1 ELSE 2) /\ Len(vs) \in Nat /\ Len(vs) >= 1
      BY <2>4, MinTwo DEF Listing
    <3>3. r \in {vs[1], vs[Min({2, Len(vs)})]} <=> r = vs[1] \/ (Len(vs) > 1 /\ r = vs[2])
      <4>1. CASE Len(vs) = 1 BY <3>2, <4>1
      <4>2. CASE Len(vs) # 1
        <5>1. Len(vs) > 1 /\ Min({2, Len(vs)}) = 2
          <6>1. Min({2, Len(vs)}) = 2 BY <3>2, <4>2, ZenonT(60)
          <6>2. PICK n : n = Len(vs) OBVIOUS
          <6>3. n \in Nat /\ n >= 1 /\ n # 1 BY <3>2, <4>2, <6>2
          <6>4. n > 1 BY <6>3
          <6>5. QED BY <6>1, <6>2, <6>4
        <5>2. QED BY <5>1
      <4>3. QED BY <4>1, <4>2
    <3>4. PICK s : s = watched[r] OBVIOUS
    <3>5. s \in Seq(Watches) BY <3>4, WatchedAtoms DEF LraI
    <3> HIDE DEF new
    <3>6. Added(Append(s, new), s, new) BY <3>5, AppendAdds
    <3>7. QED BY <3>1, <3>3, <3>4, <3>6 DEF new
  <2>12. NewListed(a, vs)
    BY <1>3, <2>3, <2>4, <2>6, <2>7, <2>9, <2>10, <2>11 DEF NewListed
  <2>13. QED BY <1>5, <2>12 DEF p, a
<1>6. QED BY <1>4, <1>5

LEMMA WatchesListed ==
  ASSUME LraI, NEW a, NEW vs, NewListed(a, vs)
  PROVE  /\ OrderOK' /\ WatchesOK'
         /\ \A b \in DOMAIN constraints : \A r : IsWatched(b, r)' <=> IsWatched(b, r)
         /\ \A r : IsWatched(a, r)' <=> r = vs[1] \/ (Len(vs) > 1 /\ r = vs[2])
<1> DEFINE new == [atom |-> a, index |-> FirstIndex(vs)]
<1>1. /\ a \notin DOMAIN constraints
      /\ DOMAIN constraints' = DOMAIN constraints \cup {a} /\ Kept
      /\ Listing(vs, DOMAIN constraints'[a].coef)
      /\ order'[a] = vs /\ DOMAIN order' = DOMAIN constraints'
      /\ \A b \in DOMAIN constraints : order'[b] = order[b]
      /\ \A r \in RealVars :
           IF r = vs[1] \/ (Len(vs) > 1 /\ r = vs[2])
             THEN Added(watched'[r], watched[r], new)
             ELSE watched'[r] = watched[r]
  BY DEF NewListed
<1>2. /\ Len(vs) \in Nat /\ Len(vs) >= 1 /\ DOMAIN vs = 1..Len(vs)
      /\ \A p, q \in 1..Len(vs) : vs[p] = vs[q] => p = q
      /\ FirstIndex(vs) \in DOMAIN vs
  BY <1>1 DEF Listing
<1>3. new.atom = a /\ new.index \in DOMAIN vs BY <1>2
<1> HIDE DEF new
<1>4. DOMAIN order = DOMAIN constraints
  BY KnownVars DEF LraI, PluginInv, OrderKnown
<1>5. OrderOK' BY <1>1, <1>2, <1>4 DEF LraI, OrderOK
<1>6. \A b \in DOMAIN constraints : \A r : IsWatched(b, r)' <=> IsWatched(b, r)
  BY <1>1 DEF IsWatched
<1>7. \A r : IsWatched(a, r)' <=> r = vs[1] \/ (Len(vs) > 1 /\ r = vs[2])
  <2>1. \A p \in 1..Len(vs) : p <= 2 => p = 1 \/ (Len(vs) > 1 /\ p = 2)
    BY <1>2
  <2>2. 1 \in 1..Len(vs) /\ (Len(vs) > 1 => 2 \in 1..Len(vs)) BY <1>2
  <2>3. QED BY <1>1, <1>2, <2>1, <2>2 DEF IsWatched
<1>8. WatchesOK'
  <2>1. \A r \in RealVars :
         /\ \A b \in DOMAIN constraints : b \in Watching(watched[r]) <=> IsWatched(b, r)
         /\ Single(watched[r])
         /\ \A k \in DOMAIN watched[r] : watched[r][k].index \in DOMAIN order[watched[r][k].atom]
         /\ \A k \in DOMAIN watched[r] : watched[r][k].atom \in DOMAIN constraints
    BY WatchedAtoms DEF LraI, WatchesOK
  <2>2. SUFFICES ASSUME NEW r \in RealVars
                 PROVE  /\ \A b \in DOMAIN constraints' : b \in Watching(watched'[r]) <=> IsWatched(b, r)'
                        /\ Single(watched'[r])
                        /\ \A k \in DOMAIN watched'[r] : watched'[r][k].index \in DOMAIN order'[watched'[r][k].atom]
    BY DEF WatchesOK, IsWatched, Watching, Single
  <2>3. a \notin Watching(watched[r]) BY <1>1, <2>1 DEF Watching
  <2>4. CASE r = vs[1] \/ (Len(vs) > 1 /\ r = vs[2])
    <3>1. Added(watched'[r], watched[r], new) BY <1>1, <2>4
    <3>2. /\ Watching(watched'[r]) = Watching(watched[r]) \cup {a}
          /\ Single(watched'[r])
          /\ \A k \in DOMAIN watched'[r] :
               watched'[r][k] = new \/ (k \in DOMAIN watched[r] /\ watched'[r][k] = watched[r][k])
      BY <1>3, <2>1, <2>3, <3>1, AddedWatching
    <3>3. \A k \in DOMAIN watched'[r] : watched'[r][k].index \in DOMAIN order'[watched'[r][k].atom]
      BY <1>1, <1>3, <2>1, <3>2
    <3>4. \A b \in DOMAIN constraints' : b \in Watching(watched'[r]) <=> IsWatched(b, r)'
      BY <1>1, <1>6, <1>7, <2>1, <2>4, <3>2
    <3>5. QED BY <3>2, <3>3, <3>4
  <2>5. CASE ~(r = vs[1] \/ (Len(vs) > 1 /\ r = vs[2]))
    <3>1. watched'[r] = watched[r] BY <1>1, <2>5
    <3>2. \A b \in DOMAIN constraints' : b \in Watching(watched'[r]) <=> IsWatched(b, r)'
      BY <1>1, <1>6, <1>7, <2>1, <2>3, <2>5, <3>1
    <3>3. QED BY <1>1, <2>1, <3>1, <3>2
  <2>6. QED BY <2>4, <2>5
<1>9. QED BY <1>5, <1>6, <1>7, <1>8

LEMMA WatchesNext ==
  ASSUME LraI, [Next]_vars
  PROVE  OrderOK' /\ WatchesOK'
<1> USE DEF trailVars, boundVars, watchVars, walkVars, conflictVars
<1>1. ASSUME UNCHANGED <<constraints, order, watched>>
      PROVE  OrderOK' /\ WatchesOK'
  BY <1>1 DEF LraI, OrderOK, WatchesOK, IsWatched, Watching, Single
<1>2. CASE VisitUnit BY <1>2, WatchesVisitUnit
<1>3. CASE MoveWatch
  <2>1. PICK a, vs, p : Moves(a, vs, p) BY <1>3, MoveWatchMoves
  <2>2. QED BY <2>1, WatchesMoved
<1>4. CASE Derive
  <2>1. UNCHANGED <<constraints, order, watched>> \/ \E a, vs : NewListed(a, vs)
    BY <1>4, DeriveLists
  <2>2. QED BY <1>1, <2>1, WatchesListed
<1>5. CASE ~VisitUnit /\ ~MoveWatch /\ ~Derive
  <2>1. CASE StartPropagate \/ SeeAtom \/ SeeReal \/ WalkDone
    BY <1>1, <2>1 DEF StartPropagate, SeeAtom, SeeReal, WalkDone
  <2>2. CASE VisitAssigned \/ ReadDone \/ CheckBounds
    BY <1>1, <2>2 DEF VisitAssigned, ReadDone, CheckBounds
  <2>3. CASE DropTrivial \/ Report \/ CheckDone \/ DecideReal
    BY <1>1, <2>3 DEF DropTrivial, Report, CheckDone, DecideReal
  <2>4. CASE BcpConflict \/ DecideAtom \/ BcpAssign \/ BacktrackToLevel \/ Restart
    BY <1>1, <2>4 DEF BcpConflict, DecideAtom, BcpAssign, BacktrackToLevel, Restart, LoopUnchanged
  <2>5. CASE UNCHANGED vars BY <1>1, <2>5 DEF vars
  <2>6. QED BY <1>5, <2>1, <2>2, <2>3, <2>4, <2>5 DEF Next, PluginStep
<1>6. QED BY <1>2, <1>3, <1>4, <1>5
-----------------------------------------------------------------------------
(* Where a watched variable has been looked at, the others got their       *)
(* values before.                                                          *)

\* What was given no later than u stays while u does.
LEMMA LowerStays ==
  ASSUME LraI, TrailStep, NEW u \in Vars, NEW v \in Vars, is_defined(u), is_defined(v),
         is_defined(u)', var_level[v] <= var_level[u]
  PROVE  is_defined(v)' /\ var_level'[v] = var_level[v] /\ var_level'[u] = var_level[u]
<1>1. var_level \in [Vars -> Int] /\ model \in [Vars -> Values \cup {Undef}]
  BY DEF LraI, LevelsOK, PluginInv, TrailKnown
<1>2. is_defined(v)'
  <2>1. CASE SameTrail BY <2>1 DEF SameTrail, is_defined
  <2>2. ASSUME NEW w, NEW value, NEW level, Gets(w, value, level)
        PROVE  is_defined(v)'
    <3>1. w # v BY <2>2 DEF Gets
    <3>2. QED BY <1>1, <2>2, <3>1 DEF Gets, is_defined
  <2>3. ASSUME NEW l, Cuts(l)
        PROVE  is_defined(v)'
    <3>1. l \in Int /\ var_level[u] <= l BY <2>3 DEF Cuts
    <3>2. var_level[v] <= l BY <1>1, <3>1
    <3>3. QED BY <2>3, <3>2 DEF Cuts
  <2>4. QED BY <2>1, <2>2, <2>3 DEF TrailStep, AtomGets, RealGets
<1>3. QED BY <1>2, StepSame

\* Only a decision gives a rational variable its value.
LEMMA NewReal ==
  ASSUME LraI, [Next]_vars, NEW s \in RealVars, ~is_defined(s), is_defined(s)'
  PROVE  DecideReal
<1>1. s \in Vars BY PluginAssumption
<1>2. ~SameTrail BY DEF SameTrail, is_defined
<1>3. ASSUME NEW l, Cuts(l)
      PROVE  FALSE
  BY <1>1, <1>3 DEF Cuts
<1>4. ASSUME NEW a, NEW value, NEW level, AtomGets(a, value, level)
      PROVE  FALSE
  <2>1. Gets(a, value, level) /\ a \in DOMAIN constraints'
    BY <1>4 DEF AtomGets
  <2>2. a \notin RealVars
    BY <2>1, NextLevels, AtomFactsNext DEF AtomFact
  <2>3. model' = [model EXCEPT ![a] = value] BY <2>1 DEF Gets
  <2>4. model'[s] = model[s]
    BY <1>1, <2>2, <2>3 DEF LraI, PluginInv, TrailKnown
  <2>5. QED BY <2>4 DEF is_defined
<1>5. CASE Looking BY <1>2, <1>5, LookingSame
<1>6. CASE VisitAssigned
  BY <1>2, <1>4, <1>6, VisitAssignedGets DEF NewValues
<1>7. CASE Derive
  <2> DEFINE p == Head(blame.polys)
  <2>1. NewValues(AtomFor(p), Normalized(p)) BY <1>7, DeriveGets
  <2>2. QED BY <1>2, <1>4, <2>1 DEF NewValues
<1>8. CASE DecideAtom \/ BcpAssign
  <2>1. PICK a, b : LoopGets(a, b)
    BY <1>8, DecideAtomGets, BcpAssignGets
  <2>2. QED BY <1>4, <2>1 DEF LoopGets
<1>9. CASE BacktrackToLevel \/ Restart BY <1>3, <1>9, BackCuts
<1>10. QED BY <1>5, <1>6, <1>7, <1>8, <1>9, NextCases

LEMMA NothingDue ==
  ASSUME LraI,
         \/ pc \notin {"theory", "read"}
         \/ seen = << >> /\ pc # "theory"
         \/ pc = "read" /\ seen # << >> /\ Head(seen) \notin RealVars
         \/ EndOfWalk
  PROVE  \A s, a : ~Due(s, a)
<1> SUFFICES ASSUME NEW s, NEW a, Due(s, a)
             PROVE  FALSE
  OBVIOUS
<1>1. walk > 0 => pc = "read" /\ seen # << >> /\ Head(seen) \in RealVars
  BY DEF LraI, PlacesOK, PluginInv, WalkKnown
<1>2. s \in Arrived BY DEF Due
<1>3. OnTop(s) /\ s \in RealVars /\ pc \in {"theory", "read"}
      /\ (pc = "read" => seen # << >> /\ s = Head(seen) /\ Walked = s)
  BY <1>2, ArrivedOne
<1>4. CASE EndOfWalk
  <2>1. walk > 0 /\ walk > Len(watched[Walked]) /\ pc = "read"
    BY <1>4 DEF EndOfWalk, walking
  <2>2. s = Walked BY <1>3, <2>1
  <2>4. PICK k \in DOMAIN watched[s] : k >= walk BY <2>1 DEF Due
  <2>5. DOMAIN watched[s] = 1..Len(watched[s]) /\ Len(watched[s]) \in Nat /\ walk \in Nat
    BY <1>3, WatchedAtoms DEF LraI, PluginInv, WalkKnown
  <2>6. QED BY <2>1, <2>2, <2>4, <2>5
<1>5. CASE ~EndOfWalk BY <1>1, <1>3, <1>5
<1>6. QED BY <1>4, <1>5

\* What the others got before a watched variable s of a, or what was looked at
\* just now.
Looked(a, s) ==
  is_defined(s) /\ (~Due(s, a) \/ (OnTop(s) /\ AllDefined(a)))

\* Nothing of a is due after the step that was not due or looked at before.
LookedAll(a) ==
  \A s \in RealVars : IsWatched(a, s) /\ model'[s] # Undef /\ ~Due(s, a)' => Looked(a, s)

LEMMA TellsStays ==
  ASSUME LraI, TrailStep, NEW a \in DOMAIN constraints, NEW vs, vs = order[a], order'[a] = vs,
         LookedAll(a)
  PROVE  Tells(a)'
<1>1. /\ vs \in Seq(RealVars) /\ Len(vs) \in Nat /\ Len(vs) >= 1 /\ DOMAIN vs = 1..Len(vs)
      /\ VarsOf(a) = {vs[p] : p \in 1..Len(vs)}
      /\ \A r : IsWatched(a, r) <=> r = vs[1] \/ (Len(vs) > 1 /\ r = vs[2])
  BY WatchedFirst
<1>2. Tells(a) BY DEF LraI, WatchesTell
<1>3. \A p \in 1..Len(vs) : vs[p] \in RealVars /\ vs[p] \in Vars /\ vs[p] \in VarsOf(a)
  BY <1>1, PluginAssumption
<1>4. ASSUME NEW i \in 1..Len(vs), i <= 2, is_defined(vs[i])', ~Due(vs[i], a)', NEW p \in 1..Len(vs),
             p >= i
      PROVE  is_defined(vs[p])' /\ var_level'[vs[p]] <= var_level'[vs[i]]
  <2>0. PICK u : u = vs[i] OBVIOUS
  <2>00. PICK v : v = vs[p] OBVIOUS
  <2>000. u \in RealVars /\ u \in Vars /\ v \in RealVars /\ v \in Vars /\ v \in VarsOf(a)
    BY <1>3, <2>0, <2>00
  <2>1. IsWatched(a, u)
    <3>1. i = 1 \/ (Len(vs) > 1 /\ i = 2) BY <1>1, <1>4
    <3>2. QED BY <1>1, <2>0, <3>1
  <2>1b. model'[u] # Undef /\ ~Due(u, a)' BY <1>4, <2>0 DEF is_defined
  <2>2. Looked(a, u) BY <2>000, <2>1, <2>1b DEF LookedAll
  <2>4. is_defined(u) BY <2>2 DEF Looked
  <2>3. is_defined(v) /\ var_level[v] <= var_level[u]
    <3>1. CASE OnTop(u) /\ AllDefined(a)
      <4>1. is_defined(v) BY <2>000, <3>1 DEF AllDefined
      <4>2. var_level[v] \in 0..decision_level /\ var_level[u] = decision_level
        BY <2>000, <3>1, <4>1 DEF LraI, LevelsOK, OnTop
      <4>3. decision_level \in Int
        BY TrailLists DEF LraI, PluginInv, TrailShape
      <4>4. QED BY <4>1, <4>2, <4>3
    <3>2. CASE ~Due(u, a)
      <4>2. CASE i = 1
        BY <1>1, <1>2, <2>0, <2>00, <2>4, <3>2, <4>2 DEF Tells
      <4>3. CASE i = 2
        <5>1. CASE p = 2
          <6>1. var_level[u] \in Int /\ v = u
            BY <2>0, <2>00, <2>000, <4>3, <5>1 DEF LraI, LevelsOK
          <6>2. QED BY <2>4, <6>1
        <5>2. CASE p # 2
          <6>1. p \in 3..Len(vs) /\ Len(vs) > 1
            BY <1>1, <1>4, <4>3, <5>2
          <6>2. QED BY <1>2, <2>0, <2>00, <2>4, <3>2, <4>3, <6>1 DEF Tells
        <5>3. QED BY <5>1, <5>2
      <4>4. i = 1 \/ i = 2 BY <1>1, <1>4
      <4>5. QED BY <4>2, <4>3, <4>4
    <3>3. QED BY <2>2, <3>1, <3>2 DEF Looked
  <2>5. is_defined(v)' /\ var_level'[v] = var_level[v] /\ var_level'[u] = var_level[u]
    <3>1. is_defined(u)' BY <2>1b DEF is_defined
    <3>2. QED BY <2>000, <2>3, <2>4, <3>1, LowerStays
  <2>6. QED BY <2>0, <2>00, <2>3, <2>5 DEF is_defined
<1>6. 1 \in 1..Len(vs) /\ (Len(vs) > 1 => 2 \in 1..Len(vs)) BY <1>1
<1>7. ASSUME is_defined(vs[1])', ~Due(vs[1], a)'
      PROVE  \A p \in DOMAIN vs : is_defined(vs[p])' /\ var_level'[vs[p]] <= var_level'[vs[1]]
  BY <1>1, <1>4, <1>6, <1>7
<1>8. ASSUME Len(vs) > 1, is_defined(vs[2])', ~Due(vs[2], a)'
      PROVE  \A p \in 3..Len(vs) : is_defined(vs[p])' /\ var_level'[vs[p]] <= var_level'[vs[2]]
  <2>1. \A p \in 3..Len(vs) : p \in 1..Len(vs) /\ p >= 2 BY <1>1
  <2>2. QED BY <1>4, <1>6, <1>8, <2>1
<1>9. QED BY <1>7, <1>8 DEF Tells

LEMMA WalkedDue ==
  ASSUME LraI, walk > 0
  PROVE  \A s, a : Due(s, a) => pc = "read" /\ s = Walked
<1> SUFFICES ASSUME NEW s, NEW a, Due(s, a)
             PROVE  pc = "read" /\ s = Walked
  OBVIOUS
<1>1. s \in Arrived BY DEF Due
<1>2. walk > 0 => pc = "read"
  BY DEF LraI, PlacesOK, PluginInv, WalkKnown
<1>3. QED BY <1>1, <1>2, ArrivedOne

\* What is due stays due while it has a value.
StillDue(a) ==
  \A s \in RealVars : IsWatched(a, s) /\ model'[s] # Undef /\ Due(s, a) => Due(s, a)'

LEMMA StillLooked ==
  ASSUME LraI, [Next]_vars, ~DecideReal, NEW a \in DOMAIN constraints, StillDue(a)
  PROVE  LookedAll(a)
<1> SUFFICES ASSUME NEW s \in RealVars, IsWatched(a, s), model'[s] # Undef, ~Due(s, a)'
             PROVE  Looked(a, s)
  BY DEF LookedAll
<1>1. ~Due(s, a) BY DEF StillDue
<1>2. is_defined(s)' BY DEF is_defined
<1>3. is_defined(s) BY <1>2, NewReal
<1>4. QED BY <1>1, <1>3 DEF Looked

LEMMA AllTell ==
  ASSUME LraI, [Next]_vars, DOMAIN constraints' = DOMAIN constraints,
         \A a \in DOMAIN constraints : order'[a] = order[a] /\ LookedAll(a)
  PROVE  WatchesTell'
<1>1. TrailStep BY NextTrail
<1>2. ASSUME NEW a \in DOMAIN constraints
      PROVE  Tells(a)'
  <2>1. PICK vs : vs = order[a] OBVIOUS
  <2>2. order'[a] = vs /\ LookedAll(a) BY <2>1
  <2>3. QED BY <1>1, <2>1, <2>2, TellsStays
<1>3. QED BY <1>2 DEF WatchesTell

\* Steps that lose sight of nothing.
LEMMA NothingLost ==
  ASSUME LraI, [Next]_vars, ~DecideReal, UNCHANGED order, DOMAIN constraints' = DOMAIN constraints,
         \A a \in DOMAIN constraints : StillDue(a)
  PROVE  WatchesTell'
BY StillLooked, AllTell

\* Steps that start with nothing due.
LEMMA QuietNothing ==
  ASSUME LraI,
         \/ SeeAtom \/ WalkDone \/ ReadDone \/ CheckBounds \/ DropTrivial \/ Report \/ CheckDone
         \/ BcpConflict \/ DecideAtom \/ BcpAssign \/ BacktrackToLevel \/ Restart
         \/ Derive \/ DecideReal
  PROVE  \A s, a : ~Due(s, a)
<1>1. \/ pc \notin {"theory", "read"}
      \/ seen = << >> /\ pc # "theory"
      \/ pc = "read" /\ seen # << >> /\ Head(seen) \notin RealVars
      \/ EndOfWalk
  BY DEF SeeAtom, WalkDone, ReadDone, CheckBounds, DropTrivial, Report, CheckDone, BcpConflict,
         DecideAtom, BcpAssign, BacktrackToLevel, Restart, Derive, DecideReal, checking, explaining
<1>2. QED BY <1>1, NothingDue

LEMMA QuietTells ==
  ASSUME LraI,
         \/ SeeAtom \/ WalkDone \/ ReadDone \/ CheckBounds \/ DropTrivial \/ Report \/ CheckDone
         \/ BcpConflict \/ DecideAtom \/ BcpAssign \/ BacktrackToLevel \/ Restart
  PROVE  WatchesTell'
<1> USE DEF trailVars, boundVars, watchVars, walkVars, conflictVars
<1>1. [Next]_vars BY DEF Next, PluginStep
<1>2. UNCHANGED <<order, constraints>>
  BY DEF SeeAtom, WalkDone, ReadDone, CheckBounds, DropTrivial, Report, CheckDone, BcpConflict,
         DecideAtom, BcpAssign, BacktrackToLevel, Restart, LoopUnchanged
<1>4. \A s, a : ~Due(s, a) BY QuietNothing
<1>5. ~DecideReal
  <2>1. ASSUME DecideReal
        PROVE  FALSE
    <3>1. pc = "decide" /\ pc' = "theory" BY <2>1 DEF DecideReal
    <3>2. QED BY <3>1 DEF SeeAtom, WalkDone, ReadDone, CheckBounds, DropTrivial, Report, CheckDone, BcpConflict,
         DecideAtom, BcpAssign, BacktrackToLevel, Restart, checking, explaining, EndOfWalk, walking
  <2>2. QED BY <2>1
<1>6. \A a \in DOMAIN constraints : StillDue(a) BY <1>4 DEF StillDue
<1>7. QED BY <1>1, <1>2, <1>5, <1>6, NothingLost

LEMMA StartStill ==
  ASSUME LraI, StartPropagate \/ SeeReal \/ UNCHANGED vars, NEW a \in DOMAIN constraints
  PROVE  StillDue(a)
<1> USE DEF trailVars, boundVars, watchVars, walkVars, conflictVars
<1>1. UNCHANGED <<order, constraints, watched>>
  BY DEF StartPropagate, SeeReal, vars
<1> SUFFICES ASSUME NEW s \in RealVars, IsWatched(a, s), Due(s, a)
             PROVE  Due(s, a)'
  BY DEF StillDue
<1>2. CASE UNCHANGED vars
  BY <1>2 DEF vars, Due, Arrived, Unseen, recent, decision_level
<1>3. CASE StartPropagate
  <2>1. /\ pc' = "read" /\ walk' = 0 /\ pc \in {"bcp", "theory"}
        /\ seen' = [k \in DOMAIN Unseen |-> Unseen[k].var]
    BY <1>3 DEF StartPropagate
  <2>2. pc = "theory" /\ \E k \in DOMAIN Unseen : Unseen[k].var = s
    BY <2>1 DEF Due, Arrived
  <2>3. \E k \in DOMAIN seen' : seen'[k] = s BY <2>1, <2>2
  <2>4. QED BY <2>1, <2>3 DEF Due, Arrived
<1>4. CASE SeeReal
  <2>1. pc' = "read" /\ pc = "read" /\ walk' = 1 /\ seen' = seen
    BY <1>4 DEF SeeReal
  <2>2. \E k \in DOMAIN seen' : seen'[k] = s BY <2>1 DEF Due, Arrived
  <2>3. a \in Watching(watched[s]) BY DEF LraI, WatchesOK
  <2>4. PICK k \in DOMAIN watched[s] : watched[s][k].atom = a
    BY <2>3 DEF Watching
  <2>5. k >= 1 BY WatchedAtoms DEF LraI
  <2>6. QED BY <1>1, <2>1, <2>2, <2>4, <2>5 DEF Due, Arrived
<1>5. QED BY <1>2, <1>3, <1>4

LEMMA StartTells ==
  ASSUME LraI, StartPropagate \/ SeeReal \/ UNCHANGED vars
  PROVE  WatchesTell'
<1> USE DEF trailVars, boundVars, watchVars, walkVars, conflictVars
<1>1. [Next]_vars BY DEF Next, PluginStep
<1>2. UNCHANGED <<order, constraints>>
  BY DEF StartPropagate, SeeReal, vars
<1>3. ~DecideReal
  <2>1. ASSUME DecideReal
        PROVE  FALSE
    <3>1. pc = "decide" /\ pc' = "theory" BY <2>1 DEF DecideReal
    <3>2. QED BY <3>1 DEF StartPropagate, SeeReal, vars
  <2>2. QED BY <2>1
<1>4. \A a \in DOMAIN constraints : StillDue(a) BY StartStill
<1>5. QED BY <1>1, <1>2, <1>3, <1>4, NothingLost

\* A visit leaves the later watches of the walk.
LEMMA OtherDue ==
  ASSUME LraI, NEW b, NEW vs, Visit(b, vs), UNCHANGED <<pc, seen, watched>>, walk' = walk + 1,
         NEW a \in DOMAIN constraints, a # b, NEW s \in RealVars, Due(s, a)
  PROVE  Due(s, a)'
<1>1. walk \in 1..Len(watched[Walked]) /\ watched[Walked][walk].atom = b /\ Walked \in RealVars
  BY DEF Visit
<1>2. walk \in Nat /\ walk > 0 BY <1>1, WatchedAtoms DEF LraI
<1>9. walk > 0 BY <1>2
<1>3. s = Walked /\ pc = "read" BY <1>9, WalkedDue
<1>4. s \in Arrived' BY <1>3 DEF Due, Arrived
<1>5. PICK k \in DOMAIN watched[s] : k >= walk /\ watched[s][k].atom = a
  BY <1>2 DEF Due
<1>6. k \in Nat /\ k # walk BY <1>1, <1>3, <1>5, WatchedAtoms DEF LraI
<1>7. k >= walk' BY <1>2, <1>5, <1>6
<1>8. QED BY <1>4, <1>5, <1>7 DEF Due

LEMMA VisitAssignedTells ==
  ASSUME LraI, VisitAssigned
  PROVE  WatchesTell'
<1> USE DEF trailVars, boundVars, watchVars, walkVars, conflictVars
<1>1. [Next]_vars BY DEF Next, PluginStep
<1>2. PICK b, vs : b = TheWatch.atom /\ vs = Reordered(b) OBVIOUS
<1>3. Visit(b, vs) /\ AllDefined(b)
  BY <1>2, Visiting, VisitAssignedGets DEF VisitAssigned
<1>4. UNCHANGED <<constraints, order, watched, pc, seen>> /\ walk' = walk + 1
  BY DEF VisitAssigned
<1>5. ~DecideReal
  <2>1. pc = "read" BY DEF VisitAssigned, AtWatch, walking
  <2>2. QED BY <2>1 DEF DecideReal
<1>6. ASSUME NEW a \in DOMAIN constraints, a # b
      PROVE  LookedAll(a)
  <2>1. StillDue(a) BY <1>3, <1>4, <1>6, OtherDue DEF StillDue
  <2>2. QED BY <1>1, <1>5, <2>1, StillLooked
<1>7. LookedAll(b)
  <2>1. b \in DOMAIN constraints /\ OnTop(Walked) /\ walk > 0
    BY <1>3, WatchedAtoms DEF Visit, LraI
  <2> SUFFICES ASSUME NEW s \in RealVars, IsWatched(b, s)
               PROVE  Looked(b, s)
    BY DEF LookedAll
  <2>2. s \in VarsOf(b)
    <3>1. /\ Len(vs) \in Nat /\ Len(vs) >= 1
          /\ VarsOf(b) = {vs[p] : p \in 1..Len(vs)}
          /\ s = vs[1] \/ (Len(vs) > 1 /\ s = vs[2])
      BY <1>3 DEF Visit
    <3>2. 1 \in 1..Len(vs) /\ (Len(vs) > 1 => 2 \in 1..Len(vs)) BY <3>1
    <3>3. QED BY <3>1, <3>2
  <2>3. is_defined(s) BY <1>3, <2>2 DEF AllDefined
  <2>4. CASE s = Walked BY <1>3, <2>1, <2>3, <2>4 DEF Looked
  <2>5. CASE s # Walked
    <3>0. walk > 0 BY <2>1
    <3>1. ~Due(s, b) BY <2>5, <3>0, WalkedDue
    <3>2. QED BY <2>3, <3>1 DEF Looked
  <2>6. QED BY <2>4, <2>5
<1>8. QED BY <1>1, <1>4, <1>6, <1>7, AllTell

LEMMA VisitUnitTells ==
  ASSUME LraI, VisitUnit
  PROVE  WatchesTell'
<1> USE DEF trailVars, boundVars, watchVars, walkVars, conflictVars
<1>1. [Next]_vars BY DEF Next, PluginStep
<1>2. PICK b, vs : b = TheWatch.atom /\ vs = Reordered(b) OBVIOUS
<1>3. Visit(b, vs) /\ Relisted(b, vs) /\ ~is_defined(vs[1])
  BY <1>2, WatchesVisitUnit
<1>4. UNCHANGED <<constraints, watched, pc, seen, model, trail, var_level>> /\ walk' = walk + 1
  BY DEF VisitUnit
<1>5. ~DecideReal
  <2>1. pc = "read" BY DEF VisitUnit, AtWatch, walking
  <2>2. QED BY <2>1 DEF DecideReal
<1>6. ASSUME NEW a \in DOMAIN constraints, a # b
      PROVE  Tells(a)'
  <2>1. StillDue(a) BY <1>3, <1>4, <1>6, OtherDue DEF StillDue
  <2>2. LookedAll(a) BY <1>1, <1>5, <2>1, StillLooked
  <2>3. PICK os : os = order[a] OBVIOUS
  <2>4. order'[a] = os BY <1>3, <1>6, <2>3, RelistedOrder
  <2>5. TrailStep BY <1>1, NextTrail
  <2>6. QED BY <2>2, <2>3, <2>4, <2>5, TellsStays
<1>7. Tells(b)'
  <2>1. order'[b] = vs BY <1>3, RelistedOrder
  <2>2. vs[2] = Walked /\ OnTop(Walked) /\ VarsOf(b) = {vs[p] : p \in 1..Len(vs)} /\ Len(vs) \in Nat
        /\ Len(vs) > 1 /\ vs \in Seq(RealVars)
    BY <1>3 DEF Visit
  <2>3. \A p \in 3..Len(vs) : is_defined(vs[p])
    <3>1. ~Replaceable BY DEF VisitUnit
    <3>2. Free(vs) = {} BY <1>2, <1>3, <3>1 DEF Replaceable
    <3>3. QED BY <3>2 DEF Free
  <2>4. ASSUME NEW p \in 3..Len(vs)
        PROVE  is_defined(vs[p])' /\ var_level'[vs[p]] <= var_level'[vs[2]]
    <3>1. PICK u : u = vs[p] OBVIOUS
    <3>2. u \in Vars /\ is_defined(u)
      <4>1. u \in RealVars BY <2>2, <3>1
      <4>2. QED BY <2>3, <3>1, <4>1, PluginAssumption
    <3>3. var_level[u] \in 0..decision_level /\ var_level[vs[2]] = decision_level
      BY <2>2, <3>2 DEF LraI, LevelsOK, OnTop
    <3>4. decision_level \in Int
      BY TrailLists DEF LraI, PluginInv, TrailShape
    <3>5. QED BY <1>4, <3>1, <3>2, <3>3, <3>4 DEF is_defined
  <2>5. ~(model'[vs[1]] # Undef) BY <1>3, <1>4 DEF is_defined
  <2>6. QED BY <2>1, <2>4, <2>5 DEF Tells, is_defined
<1>8. QED BY <1>4, <1>6, <1>7 DEF WatchesTell

\* A watch that is moved leaves the later ones of the walk.
LEMMA MoveStill ==
  ASSUME LraI, MoveWatch, NEW b, NEW vs, NEW p, Moves(b, vs, p), NEW a \in DOMAIN constraints, a # b
  PROVE  StillDue(a)
<1> USE DEF trailVars, boundVars, watchVars, walkVars, conflictVars
<1>1. Visit(b, vs) /\ Removed(watched'[Walked], watched[Walked], walk)
  BY DEF Moves
<1>2. UNCHANGED <<constraints, pc, seen, walk>> BY DEF MoveWatch
<1> SUFFICES ASSUME NEW s \in RealVars, Due(s, a)
             PROVE  Due(s, a)'
  BY DEF StillDue
<1>3. walk \in 1..Len(watched[Walked]) /\ watched[Walked][walk].atom = b /\ Walked \in RealVars
  BY <1>1 DEF Visit
<1>4. walk \in Nat /\ walk > 0 BY <1>3, WatchedAtoms DEF LraI
<1>5. walk > 0 BY <1>4
<1>6. s = Walked /\ pc = "read" BY <1>5, WalkedDue
<1>7. s \in Arrived' BY <1>2, <1>6 DEF Due, Arrived
<1>8. PICK k \in DOMAIN watched[s] : k >= walk /\ watched[s][k].atom = a
  BY <1>4 DEF Due
<1>9. k # walk /\ Single(watched[Walked])
  BY <1>3, <1>6, <1>8 DEF LraI, WatchesOK
<1>10. PICK new, old : new = watched'[Walked] /\ old = watched[Walked]
  OBVIOUS
<1>11. Removed(new, old, walk) /\ Single(old) /\ k \in DOMAIN old /\ old[k].atom = a
  BY <1>1, <1>6, <1>8, <1>9, <1>10
<1>12. PICK j \in DOMAIN new : new[j] = old[k] /\ j >= walk
  BY <1>8, <1>9, <1>11, RemovedWatching
<1>13. QED BY <1>2, <1>6, <1>7, <1>10, <1>11, <1>12 DEF Due

LEMMA MoveWatchTells ==
  ASSUME LraI, MoveWatch
  PROVE  WatchesTell'
<1> USE DEF trailVars, boundVars, watchVars, walkVars, conflictVars
<1>1. [Next]_vars BY DEF Next, PluginStep
<1>2. PICK b, vs, p : Moves(b, vs, p) BY MoveWatchMoves
<1>3. PICK us : us = [vs EXCEPT ![2] = vs[p], ![p] = vs[2]] OBVIOUS
<1>4. Visit(b, vs) /\ Relisted(b, us) /\ ~is_defined(vs[1]) /\ ~is_defined(vs[p]) /\ p \in 3..Len(vs)
  BY <1>2, <1>3 DEF Moves
<1>5. UNCHANGED <<constraints, pc, seen, walk, model, trail, var_level>>
  BY DEF MoveWatch
<1>6. ~DecideReal
  <2>1. pc = "read" BY DEF MoveWatch, AtWatch, walking
  <2>2. QED BY <2>1 DEF DecideReal
<1>7. ASSUME NEW a \in DOMAIN constraints, a # b
      PROVE  Tells(a)'
  <2>2. StillDue(a) BY <1>2, <1>7, MoveStill
  <2>3. LookedAll(a) BY <1>1, <1>6, <2>2, StillLooked
  <2>4. PICK os : os = order[a] OBVIOUS
  <2>5. order'[a] = os BY <1>4, <1>7, <2>4, RelistedOrder
  <2>6. TrailStep BY <1>1, NextTrail
  <2>7. QED BY <2>3, <2>4, <2>5, <2>6, TellsStays
<1>8. Tells(b)'
  <2>1. order'[b] = us BY <1>4, RelistedOrder
  <2>2. DOMAIN vs = 1..Len(vs) /\ Len(vs) \in Nat BY <1>4 DEF Visit
  <2>3. us[1] = vs[1] /\ us[2] = vs[p]
    <3>1. 1 \in DOMAIN vs /\ 2 \in DOMAIN vs /\ p # 1 /\ p # 2 /\ p \in DOMAIN vs
      BY <1>4, <2>2
    <3>2. QED BY <1>3, <3>1
  <2>4. ~(model'[us[1]] # Undef) /\ ~(model'[us[2]] # Undef)
    BY <1>4, <1>5, <2>3 DEF is_defined
  <2>5. QED BY <2>1, <2>4 DEF Tells, is_defined
<1>9. QED BY <1>5, <1>7, <1>8 DEF WatchesTell

\* What has just got its value is due for every constraint.
DueAnew(r, x) ==
  /\ r \in RealVars /\ r \in Vars /\ x \in RealValues /\ ~is_defined(r)
  /\ RealGets(r, x) /\ NewLevels(r, decision_level + 1) /\ model'[r] = x
  /\ is_allowed(r, x)
  /\ decision_level' = decision_level + 1 /\ decision_level \in Nat
  /\ \A a : Due(r, a)'

LEMMA DecidedDue ==
  ASSUME LraI, DecideReal
  PROVE  \E r, x : DueAnew(r, x)
<1> USE DEF trailVars, boundVars, watchVars, walkVars, conflictVars
<1>1. [Next]_vars BY DEF Next
<1>2. /\ pc = "decide" /\ pc' = "theory"
      /\ UNCHANGED <<constraints, order, watched, seen, walk, cursor>>
  BY DEF DecideReal
<1>3. PICK r \in InUse, x \in RealValues :
         RealGets(r, x) /\ is_allowed(r, x) /\ decision_level' = decision_level + 1
  BY DecideRealGets
<1>4. r \in Vars /\ Gets(r, x, decision_level + 1) /\ Decide(r, x) /\ r \in RealVars
  BY <1>3, PluginAssumption DEF RealGets
<1>5. PluginInv' BY <1>1, NextLevels
<1>6. decision_level \in Nat /\ decision_level' \in Nat
  BY <1>5, TrailLists, TrailListsNext DEF LraI, PluginInv, TrailShape
<1>7. NewLevels(r, decision_level + 1) BY <1>4, <1>6, GetsValue
<1>8. walk = 0 /\ walk' = 0 BY <1>2 DEF LraI, PlacesOK
<1>9. r \in Arrived'
  <2>1. recent' = <<[var |-> r, reason |-> NoReason]>>
    BY <1>4, DecideGrows DEF LraI, PluginInv
  <2>2. cursor'.level # decision_level'
    <3>1. cursor.level <= decision_level /\ cursor.level \in Int
      BY DEF LraI, PlacesOK, PluginInv, TrailKnown
    <3>2. QED BY <1>2, <1>3, <1>6, <3>1
  <2>3. Unseen' = SubSeq(recent', 1, Len(recent')) BY <2>2 DEF Unseen
  <2>4. PICK t : t = <<[var |-> r, reason |-> NoReason]>> OBVIOUS
  <2>5. SubSeq(t, 1, Len(t)) = t /\ 1 \in DOMAIN t /\ t[1].var = r
    <3>1. PICK e : e = [var |-> r, reason |-> NoReason] OBVIOUS
    <3>2. t = <<e>> /\ e.var = r BY <2>4, <3>1
    <3>3. t \in Seq({e}) /\ Len(t) = 1 /\ t[1] = e BY <3>2
    <3>4. SubSeq(t, 1, Len(t)) = t BY <3>3
    <3>5. QED BY <3>2, <3>3, <3>4
  <2>6. Unseen' = t BY <2>1, <2>3, <2>4, <2>5
  <2>7. QED BY <1>2, <1>4, <2>5, <2>6 DEF Arrived
<1>10. ~is_defined(r) /\ model'[r] = x
  <2>1. model \in [Vars -> Values \cup {Undef}]
    BY DEF LraI, PluginInv, TrailKnown
  <2>2. ~is_defined(r) /\ model' = [model EXCEPT ![r] = x]
    BY <1>4 DEF Gets
  <2>3. QED BY <1>4, <2>1, <2>2
<1>11. \A a : Due(r, a)' BY <1>8, <1>9 DEF Due
<1>12. QED BY <1>3, <1>4, <1>6, <1>7, <1>10, <1>11 DEF DueAnew

LEMMA DecideRealTells ==
  ASSUME LraI, DecideReal
  PROVE  WatchesTell'
<1> USE DEF trailVars, boundVars, watchVars, walkVars, conflictVars
<1>1. [Next]_vars BY DEF Next
<1>2. pc = "decide" /\ UNCHANGED <<constraints, order>>
  BY DEF DecideReal
<1>3. PICK r, x : DueAnew(r, x) BY DecidedDue
<1>4. ASSUME NEW a \in DOMAIN constraints, NEW s \in RealVars, model'[s] # Undef, ~Due(s, a)'
      PROVE  Looked(a, s)
  <2>1. s # r BY <1>3, <1>4 DEF DueAnew
  <2>2. is_defined(s)
    <3>1. s \in Vars BY PluginAssumption
    <3>2. QED BY <1>3, <1>4, <2>1, <3>1 DEF DueAnew, NewLevels, is_defined
  <2>3. ~Due(s, a) BY <1>2, NothingDue
  <2>4. QED BY <2>2, <2>3 DEF Looked
<1>5. \A a \in DOMAIN constraints : LookedAll(a) BY <1>4 DEF LookedAll
<1>6. QED BY <1>1, <1>2, <1>5, AllTell

LEMMA DeriveTells ==
  ASSUME LraI, Derive
  PROVE  WatchesTell'
<1> USE DEF trailVars, boundVars, watchVars, walkVars, conflictVars
<1>1. [Next]_vars BY DEF Next, PluginStep
<1>2. pc = "check" BY DEF Derive, explaining
<1>3. \A s, a : ~Due(s, a) BY <1>2, NothingDue
<1>4. ~DecideReal BY <1>2 DEF DecideReal
<1>5. \A a \in DOMAIN constraints : LookedAll(a)
  <2>1. \A a \in DOMAIN constraints : StillDue(a) BY <1>3 DEF StillDue
  <2>2. QED BY <1>1, <1>4, <2>1, StillLooked
<1>6. TrailStep BY <1>1, NextTrail
<1> DEFINE p == Head(blame.polys)
<1>7. CASE ~IsNew(p) /\ UNCHANGED <<constraints, order, watched>>
  BY <1>1, <1>5, <1>7, AllTell
<1>8. CASE IsNew(p) /\ \E vs : NewListed(AtomFor(p), vs)
  <2>1. PICK a, vs : NewListed(a, vs) BY <1>8
  <2>2. ASSUME NEW b \in DOMAIN constraints
        PROVE  Tells(b)'
    <3>1. PICK os : os = order[b] OBVIOUS
    <3>2. order'[b] = os BY <2>1, <2>2, <3>1 DEF NewListed
    <3>3. LookedAll(b) BY <1>5
    <3>4. QED BY <1>6, <3>1, <3>2, <3>3, TellsStays
  <2>3. Tells(a)'
    <3>1. /\ order'[a] = vs /\ vs \in Seq(RealVars) /\ Len(vs) \in Nat /\ Len(vs) >= 1
          /\ DOMAIN vs = 1..Len(vs)
          /\ \A i, j \in 1..Len(vs) : i < j => var_level[vs[j]] <= var_level[vs[i]]
          /\ \A i \in 1..Len(vs) : is_defined(vs[i])
      BY <2>1 DEF NewListed, Listing
    <3>2. ASSUME NEW i \in 1..Len(vs), NEW j \in 1..Len(vs), i <= j, model'[vs[i]] # Undef
          PROVE  model'[vs[j]] # Undef /\ var_level'[vs[j]] <= var_level'[vs[i]]
      <4>1. PICK u : u = vs[i] OBVIOUS
      <4>2. PICK v : v = vs[j] OBVIOUS
      <4>3. u \in RealVars /\ u \in Vars /\ v \in RealVars /\ v \in Vars
        BY <3>1, <4>1, <4>2, PluginAssumption
      <4>4. is_defined(u) /\ is_defined(v) BY <3>1, <4>1, <4>2
      <4>5. var_level[v] <= var_level[u]
        <5>1. CASE i = j
          <6>1. var_level[u] \in Int /\ u = v
            BY <4>1, <4>2, <4>3, <5>1 DEF LraI, LevelsOK
          <6>2. QED BY <6>1
        <5>2. CASE i # j
          <6>1. i < j BY <3>2, <5>2
          <6>2. QED BY <3>1, <4>1, <4>2, <6>1
        <5>3. QED BY <5>1, <5>2
      <4>6. is_defined(u)' BY <3>2, <4>1 DEF is_defined
      <4>7. is_defined(v)' /\ var_level'[v] = var_level[v] /\ var_level'[u] = var_level[u]
        BY <1>6, <4>3, <4>4, <4>5, <4>6, LowerStays
      <4>8. QED BY <4>1, <4>2, <4>5, <4>7 DEF is_defined
    <3>3. 1 \in 1..Len(vs) /\ \A j \in 1..Len(vs) : 1 <= j BY <3>1
    <3>4. \A j \in 3..Len(vs) : 2 \in 1..Len(vs) /\ j \in 1..Len(vs) /\ 2 <= j
      BY <3>1
    <3>5. model'[vs[1]] # Undef => \A j \in DOMAIN vs : model'[vs[j]] # Undef /\ var_level'[vs[j]] <= var_level'[vs[1]]
      BY <3>1, <3>2, <3>3
    <3>6. model'[vs[2]] # Undef => \A j \in 3..Len(vs) : model'[vs[j]] # Undef /\ var_level'[vs[j]] <= var_level'[vs[2]]
      BY <3>1, <3>2, <3>4
    <3>7. QED BY <3>1, <3>5, <3>6 DEF Tells, is_defined
  <2>4. DOMAIN constraints' = DOMAIN constraints \cup {a}
    BY <2>1 DEF NewListed
  <2>5. QED BY <2>2, <2>3, <2>4 DEF WatchesTell
<1>9. QED BY <1>7, <1>8, DeriveLists

LEMMA TellNext ==
  ASSUME LraI, [Next]_vars
  PROVE  WatchesTell'
BY NextCases, StartTells, QuietTells, MoveWatchTells, VisitUnitTells, VisitAssignedTells,
   DecideRealTells, DeriveTells DEF Looking
-----------------------------------------------------------------------------
(* Normal forms.                                                           *)

FormOf(c) ==
  /\ DOMAIN c.coef \in (SUBSET RealVars) \ {{}} /\ IsFiniteSet(DOMAIN c.coef)
  /\ \A r \in DOMAIN c.coef : c.coef[r] \in {1, -1} /\ c.coef[r] \in Int
  /\ c.coef \in [DOMAIN c.coef -> {1, -1}]
  /\ c.pred \in {"eq", "lt", "leq"} /\ c.rhs \in Int
  /\ Leading(c.coef) = 1

LEMMA Forms ==
  ASSUME FormsOK
  PROVE  \A a \in DOMAIN constraints : FormOf(constraints[a])
<1> SUFFICES ASSUME NEW a \in DOMAIN constraints
             PROVE  FormOf(constraints[a])
  OBVIOUS
<1>1. PICK c : c = constraints[a] OBVIOUS
<1>2. c \in Given BY <1>1 DEF FormsOK
<1>3. PICK D \in (SUBSET RealVars) \ {{}} : c.coef \in [D -> {1, -1}]
  BY <1>2 DEF Given
<1>4. DOMAIN c.coef = D BY <1>3
<1>5. IsFiniteSet(D) BY RealVarsAssumption, FS_Subset
<1>6. c.pred \in {"eq", "lt", "leq"} /\ c.rhs \in Int /\ Leading(c.coef) = 1
  BY <1>2 DEF Given
<1>7. QED BY <1>1, <1>3, <1>4, <1>5, <1>6 DEF FormOf

\* A polynomial divided by its leading coefficient.
LEMMA NormalForm ==
  ASSUME NEW p, PolyOK(p), Representable(p), DOMAIN p.coef \in (SUBSET RealVars) \ {{}}
  PROVE  Normalized(p) \in Given
<1> DEFINE D == DOMAIN p.coef
           least == CHOOSE r \in D : \A s \in D : r <= s
           mult == Leading(p.coef)
           c == Normalized(p)
<1>1. least \in D
  <2>1. D \in SUBSET Nat /\ D # {} BY RealVarsAssumption
  <2>2. \E r \in D : \A s \in D : r <= s BY <2>1, LeastNatural
  <2>3. QED BY <2>2
<1>2. mult = p.coef[least] BY DEF Leading
<1>3. c = [coef |-> [r \in D |-> mult * p.coef[r]],
           pred |-> IF mult < 0 THEN Flipped(p.pred) ELSE p.pred,
           rhs |-> -mult * p.const]
  BY DEF Normalized
<1>4. \A r \in D : p.coef[r] \in {1, -1} BY DEF Representable
<1>5. Leading(c.coef) = c.coef[least]
  <2>1. DOMAIN c.coef = D BY <1>3
  <2>2. QED BY <2>1 DEF Leading
<1> HIDE DEF c, least, mult
<1>6. mult \in {1, -1} BY <1>1, <1>2, <1>4
<1>7. \A r \in D : mult * p.coef[r] \in {1, -1} BY <1>4, <1>6
<1>8. c.coef \in [D -> {1, -1}] BY <1>3, <1>7
<1>9. Leading(c.coef) = 1 BY <1>1, <1>2, <1>3, <1>4, <1>5, <1>6
<1>10. c.rhs \in Int BY <1>3, <1>6 DEF PolyOK
<1>11. c.pred \in {"eq", "lt", "leq"} BY <1>3 DEF PolyOK, Flipped
<1>12. c \in [coef : UNION {[E -> {1, -1}] : E \in (SUBSET RealVars) \ {{}}},
             pred : {"eq", "lt", "leq"}, rhs : Int]
  <2>1. c.coef \in UNION {[E -> {1, -1}] : E \in (SUBSET RealVars) \ {{}}}
    BY <1>8
  <2>2. QED BY <1>3, <1>10, <1>11, <2>1
<1>13. QED BY <1>9, <1>12 DEF c, Given

\* A new constraint is a different one.
LEMMA FormsNext ==
  ASSUME LraI, [Next]_vars
  PROVE  FormsOK'
<1> USE DEF trailVars, boundVars, watchVars, walkVars, conflictVars
<1>1. CASE UNCHANGED constraints BY <1>1 DEF FormsOK, LraI, Different
<1>2. CASE Derive
  <2> DEFINE p == Head(blame.polys)
             n == Normalized(p)
  <2>1. /\ DOMAIN p.coef \in (SUBSET RealVars) \ {{}} /\ Make(p) /\ AtomFor(p) <= MaxAtoms
        /\ Representable(p) /\ PolyOK(p)
    BY <1>2, DeriveGets
  <2>2. n \in Given BY <2>1, NormalForm
  <2>3. CASE ~IsNew(p) BY <1>1, <2>1, <2>3, AtomForKnown
  <2>4. CASE IsNew(p)
    <3>1. constraints' = Append(constraints, n)
      BY <2>1, <2>4, AtomForKnown
    <3>2. constraints \in Seq(Given) /\ Different(constraints)
      BY DEF LraI, FormsOK
    <3>3. \A a \in DOMAIN constraints : constraints[a] # n
      <4>1. SUFFICES ASSUME NEW a \in DOMAIN constraints, constraints[a] = n
                     PROVE  FALSE
        OBVIOUS
      <4>2. AtomFor(p) \in DOMAIN constraints BY <4>1 DEF AtomFor
      <4>3. AtomFor(p) = Len(constraints) + 1 /\ DOMAIN constraints = 1..Len(constraints) /\ Len(constraints) \in Nat
        BY <2>1, <2>4, <3>2, AtomForKnown
      <4>4. QED BY <4>2, <4>3
    <3> HIDE DEF n
    <3>4. PICK cs : cs = constraints OBVIOUS
    <3>5. PICK ds : ds = Append(cs, n) OBVIOUS
    <3>6. /\ Len(cs) \in Nat /\ DOMAIN cs = 1..Len(cs) /\ DOMAIN ds = 1..(Len(cs) + 1)
          /\ ds[Len(cs) + 1] = n /\ \A k \in 1..Len(cs) : ds[k] = cs[k]
      BY <3>2, <3>4, <3>5, Appended
    <3>7. ds \in Seq(Given) BY <2>2, <3>2, <3>4, <3>5
    <3>8. \A a, b \in DOMAIN cs : cs[a] = cs[b] => a = b
      BY <3>2, <3>4 DEF Different
    <3>9. \A a \in DOMAIN cs : cs[a] # n BY <3>3, <3>4
    <3>10. \A a, b \in DOMAIN ds : ds[a] = ds[b] => a = b
      <4>1. \A a \in DOMAIN ds : a = Len(cs) + 1 \/ a \in DOMAIN cs
        BY <3>6
      <4>2. \A a \in DOMAIN cs : ds[a] = cs[a] BY <3>6
      <4>3. QED BY <3>6, <3>8, <3>9, <4>1, <4>2
    <3>11. constraints' = ds BY <3>1, <3>4, <3>5
    <3>12. QED BY <3>7, <3>10, <3>11 DEF FormsOK, Different
  <2>5. QED BY <2>3, <2>4
<1>3. Looking => UNCHANGED constraints BY LookingSame
<1>4. VisitAssigned \/ DecideReal \/ DecideAtom \/ BcpAssign \/ BacktrackToLevel \/ Restart
        => UNCHANGED constraints
  BY DEF VisitAssigned, DecideReal, DecideAtom, BcpAssign, BacktrackToLevel, Restart, LoopUnchanged
<1>5. QED BY <1>1, <1>2, <1>3, <1>4, NextCases
-----------------------------------------------------------------------------
(* What is read from the stacks is in force.                               *)

\* The first m entries of a stack are left; those above are obsolete, the
\* last one left is not.
PrunedTo(part, stack, r, m) ==
  /\ m \in 0..Len(stack) /\ Len(stack) \in Nat /\ DOMAIN stack = 1..Len(stack)
  /\ Len(part) = m /\ DOMAIN part = 1..m /\ (m = 0 => part = << >>)
  /\ \A k \in 1..m : part[k] = stack[k]
  /\ m > 0 => ~IsObsolete(stack[m], r)
  /\ \A k \in 1..Len(stack) : k > m => IsObsolete(stack[k], r)

LEMMA PrunedIs ==
  ASSUME NEW E, NEW stack \in Seq(E), NEW r
  PROVE  \E m : PrunedTo(Pruned(stack, r), stack, r, m) /\ Pruned(stack, r) \in Seq(E)
<1> DEFINE S == {0} \cup {k \in DOMAIN stack : ~IsObsolete(stack[k], r)}
           m == Max(S)
<1>1. S \in SUBSET Int /\ S # {} /\ Len(stack) \in Int /\ \A x \in S : x <= Len(stack)
  OBVIOUS
<1>2. m \in S /\ \A x \in S : x <= m BY <1>1, MaxIs
<1>3. m \in 0..Len(stack) /\ Len(stack) \in Nat /\ DOMAIN stack = 1..Len(stack)
  BY <1>2
<1>4. m > 0 => ~IsObsolete(stack[m], r) BY <1>2
<1>5. \A k \in 1..Len(stack) : k > m => IsObsolete(stack[k], r)
  <2> SUFFICES ASSUME NEW k \in 1..Len(stack), k > m, ~IsObsolete(stack[k], r)
               PROVE  FALSE
    OBVIOUS
  <2>1. k \in S BY <1>3
  <2>2. k <= m BY <1>2, <2>1
  <2>3. QED BY <1>3, <2>2
<1>6. Pruned(stack, r) = SubSeq(stack, 1, m) BY DEF Pruned
<1> HIDE DEF S, m
<1>7. PICK part : part = SubSeq(stack, 1, m) OBVIOUS
<1>8. /\ part \in Seq(E) /\ Len(part) = m /\ DOMAIN part = 1..m
      /\ \A k \in 1..m : part[k] = stack[k]
  BY <1>3, <1>7
<1>9. m = 0 => part = << >> BY <1>8
<1>10. PrunedTo(part, stack, r, m)
  BY <1>3, <1>4, <1>5, <1>8, <1>9 DEF PrunedTo
<1>11. QED BY <1>6, <1>7, <1>8, <1>10

LEMMA InForceIs ==
  ASSUME NEW E, NEW list \in Seq(E), NEW r
  PROVE  /\ InForce(list, r) \in Seq(E)
         /\ \A e : e \in ToSet(InForce(list, r)) <=> e \in ToSet(list) /\ ~IsObsolete(e, r)
<1> DEFINE keep == {k \in DOMAIN list : ~IsObsolete(list[k], r)}
<1>1. InForce(list, r) = Chosen(list, keep) BY DEF InForce
<1>2. \A i \in 1..Len(list) : i \in keep <=> ~IsObsolete(list[i], r)
  OBVIOUS
<1> HIDE DEF keep
<1>3. PICK part : part = Chosen(list, keep) OBVIOUS
<1>8. /\ Chosen(list, keep) \in Seq(E)
      /\ \A k \in 1..Len(Chosen(list, keep)) :
           \E i \in 1..Len(list) : i \in keep /\ Chosen(list, keep)[k] = list[i]
      /\ \A i \in 1..Len(list) : i \in keep =>
           \E k \in 1..Len(Chosen(list, keep)) : Chosen(list, keep)[k] = list[i]
  BY ChosenElements
<1>4. /\ part \in Seq(E)
      /\ \A k \in 1..Len(part) : \E i \in 1..Len(list) : i \in keep /\ part[k] = list[i]
      /\ \A i \in 1..Len(list) : i \in keep => \E k \in 1..Len(part) : part[k] = list[i]
  BY <1>3, <1>8
<1>5. ToSet(part) = {part[k] : k \in 1..Len(part)} /\ ToSet(list) = {list[k] : k \in 1..Len(list)}
  BY <1>4 DEF ToSet
<1>6. \A e : e \in ToSet(part) <=> e \in ToSet(list) /\ ~IsObsolete(e, r)
  BY <1>2, <1>4, <1>5
<1>7. QED BY <1>1, <1>3, <1>4, <1>6

\* An entry of a list of r that counts.
LiveIn(e, list, r) == e \in ToSet(list) /\ ~IsObsolete(e, r)

LEMMA ReadLive ==
  ASSUME StacksOK, NEW r \in RealVars
  PROVE  /\ lower_bound(r) # << >> => LiveIn(Last(lower_bound(r)), bounds[r].lb, r)
         /\ upper_bound(r) # << >> => LiveIn(Last(upper_bound(r)), bounds[r].ub, r)
         /\ \A x : inequality(r, x) # << >> =>
              LiveIn(inequality(r, x)[1], bounds[r].disallowed, r) /\ inequality(r, x)[1].value = x
<1>1. /\ bounds[r].ub \in Seq(Implieds) /\ bounds[r].lb \in Seq(Implieds)
      /\ bounds[r].disallowed \in Seq(Implieds)
  BY DEF StacksOK
<1>2. ASSUME NEW stack \in Seq(Implieds), Pruned(stack, r) # << >>
      PROVE  LiveIn(Last(Pruned(stack, r)), stack, r)
  <2>1. PICK part : part = Pruned(stack, r) OBVIOUS
  <2>2. PICK m : PrunedTo(part, stack, r, m) BY <2>1, PrunedIs
  <2>3. m \in 1..Len(stack) /\ m > 0 BY <1>2, <2>1, <2>2 DEF PrunedTo
  <2>4. Last(part) = stack[m] /\ ~IsObsolete(stack[m], r)
    <3>1. m \in 1..m BY <2>3
    <3>2. QED BY <2>2, <2>3, <3>1 DEF PrunedTo, Last
  <2>5. stack[m] \in ToSet(stack) BY <2>3 DEF ToSet
  <2>6. QED BY <2>1, <2>4, <2>5 DEF LiveIn
<1>3. ASSUME NEW x, inequality(r, x) # << >>
      PROVE  /\ LiveIn(inequality(r, x)[1], bounds[r].disallowed, r)
             /\ inequality(r, x)[1].value = x
  <2> DEFINE kept == InForce(bounds[r].disallowed, r)
             at == {k \in DOMAIN kept : kept[k].value = x}
             same == Chosen(kept, at)
  <2>1. /\ kept \in Seq(Implieds)
        /\ \A e : e \in ToSet(kept) <=> e \in ToSet(bounds[r].disallowed) /\ ~IsObsolete(e, r)
    BY <1>1, InForceIs
  <2>2. inequality(r, x) = IF same = << >> THEN << >> ELSE <<Head(same)>>
    BY DEF inequality
  <2>3. \A i \in at : kept[i].value = x OBVIOUS
  <2> HIDE DEF kept, at
  <2>4. /\ same \in Seq(Implieds)
        /\ \A k \in 1..Len(same) : \E i \in 1..Len(kept) : i \in at /\ same[k] = kept[i]
    BY <2>1, ChosenElements
  <2> HIDE DEF same
  <2>5. same # << >> /\ inequality(r, x)[1] = same[1] /\ 1 \in 1..Len(same)
    BY <1>3, <2>2, <2>4
  <2>6. PICK i \in 1..Len(kept) : i \in at /\ same[1] = kept[i]
    BY <2>4, <2>5
  <2>7. kept[i] \in ToSet(kept) BY <2>1 DEF ToSet
  <2>8. QED BY <2>1, <2>3, <2>5, <2>6, <2>7 DEF LiveIn
<1>4. QED BY <1>1, <1>2, <1>3 DEF lower_bound, upper_bound

-----------------------------------------------------------------------------
(* What is blamed is about variables that have values.                     *)

\* Only the solving loop takes values away.
LEMMA DefinedStays ==
  ASSUME LraI, [Next]_vars, ~BacktrackToLevel, ~Restart, NEW v \in Vars, is_defined(v)
  PROVE  is_defined(v)'
<1>1. ASSUME NEW u, NEW value, NEW level, Gets(u, value, level)
      PROVE  is_defined(v)'
  <2>1. u # v BY <1>1 DEF Gets
  <2>2. model \in [Vars -> Values \cup {Undef}]
    BY DEF LraI, PluginInv, TrailKnown
  <2>3. model' = [model EXCEPT ![u] = value] BY <1>1 DEF Gets
  <2>4. model'[v] = model[v] BY <2>1, <2>2, <2>3
  <2>5. QED BY <2>4 DEF is_defined
<1>2. ASSUME SameTrail
      PROVE  is_defined(v)'
  BY <1>2 DEF SameTrail, is_defined
<1>3. CASE Looking BY <1>2, <1>3, LookingSame
<1>4. CASE VisitAssigned
  BY <1>1, <1>2, <1>4, VisitAssignedGets DEF NewValues, AtomGets
<1>5. CASE Derive
  <2> DEFINE p == Head(blame.polys)
  <2>1. NewValues(AtomFor(p), Normalized(p)) BY <1>5, DeriveGets
  <2>2. QED BY <1>1, <1>2, <2>1 DEF NewValues, AtomGets
<1>6. CASE DecideAtom \/ BcpAssign
  <2>1. PICK a, b : LoopGets(a, b)
    BY <1>6, DecideAtomGets, BcpAssignGets
  <2>2. QED BY <1>1, <2>1 DEF LoopGets, AtomGets
<1>7. CASE DecideReal
  <2>1. PICK r, x : RealGets(r, x) BY <1>7, DecideRealGets
  <2>2. QED BY <1>1, <2>1 DEF RealGets
<1>8. QED BY <1>3, <1>4, <1>5, <1>6, <1>7, NextCases

\* A constraint as a polynomial.
PolyAbout(p, lit) ==
  /\ DOMAIN p.coef = VarsOf(lit) /\ p.coef \in [VarsOf(lit) -> {1, -1}]
  /\ p.const \in Int /\ p.pred \in {"eq", "lt", "leq"}

LEMMA PolyIsAbout ==
  ASSUME FormsOK, NEW lit, AtomOf(lit) \in DOMAIN constraints
  PROVE  /\ PolyAbout(PolyOf(lit), lit)
         /\ \A mult \in {1, -1} : PolyAbout(Poly(lit, "lt", mult), lit)
<1>1. PICK c : c = Constraint(lit) OBVIOUS
<1>2. FormOf(c) /\ VarsOf(lit) = DOMAIN c.coef
  BY <1>1, Forms DEF Constraint, VarsOf
<1>3. ASSUME NEW mult \in {1, -1}, NEW pred \in {"eq", "lt", "leq"}
      PROVE  PolyAbout(Poly(lit, pred, mult), lit)
  <2> DEFINE D == DOMAIN c.coef
             p == Poly(lit, pred, mult)
  <2>1. p = [coef |-> [r \in D |-> mult * c.coef[r]], const |-> -mult * c.rhs, pred |-> pred]
    BY <1>1, <1>2 DEF Poly
  <2>2. \A r \in D : mult * c.coef[r] \in {1, -1}
    BY <1>2, <1>3 DEF FormOf
  <2>3. p.coef \in [D -> {1, -1}] BY <2>1, <2>2
  <2>4. p.const \in Int BY <1>2, <2>1 DEF FormOf
  <2>5. QED BY <1>2, <2>1, <2>3, <2>4 DEF PolyAbout
<1>4. c.pred \in {"eq", "lt", "leq"} /\ Flipped(c.pred) \in {"eq", "lt", "leq"}
  BY <1>2 DEF FormOf, Flipped
<1>5. PolyAbout(PolyOf(lit), lit) BY <1>1, <1>3, <1>4 DEF PolyOf
<1>6. QED BY <1>3, <1>5

\* Resolution cancels the variable it is about.
LEMMA ResolveCancels ==
  ASSUME NEW k, NEW l, NEW p, NEW q, PolyAbout(p, k), PolyAbout(q, l), NEW r \in VarsOf(k) \cap VarsOf(l),
         \A s \in Others(k, r) \cup Others(l, r) : is_defined(s)
  PROVE  PolyOK(Resolve(p, q, r))
<1>1. p.coef[r] \in {1, -1} /\ q.coef[r] \in {1, -1} BY DEF PolyAbout
<1>2. ASSUME NEW sign \in {1, -1}, NEW mult \in {1, -1}, sign * p.coef[r] + mult * q.coef[r] = 0
      PROVE  PolyOK(Combination(p, sign, q, mult))
  <2> DEFINE D == DOMAIN p.coef \cup DOMAIN q.coef
             f(s) == sign * Coefficient(p, s) + mult * Coefficient(q, s)
             c == [s \in D |-> f(s)]
             t == Combination(p, sign, q, mult)
             E == {s \in D : f(s) # 0}
  <2>1. t = [coef |-> [s \in {s \in DOMAIN c : c[s] # 0} |-> c[s]],
             const |-> sign * p.const + mult * q.const, pred |-> Combine(p.pred, q.pred)]
    BY DEF Combination
  <2>2. t.coef = [s \in E |-> f(s)] /\ DOMAIN t.coef = E BY <2>1
  <2>3. \A s \in D : f(s) \in Int
    <3>1. \A s \in D : Coefficient(p, s) \in Int /\ Coefficient(q, s) \in Int
      BY DEF PolyAbout, Coefficient
    <3>2. QED BY <1>2, <3>1
  <2>4. f(r) = 0
    <3>1. Coefficient(p, r) = p.coef[r] /\ Coefficient(q, r) = q.coef[r]
      BY DEF PolyAbout, Coefficient
    <3>2. QED BY <1>2, <3>1
  <2>5. \A s \in E : is_defined(s) BY <2>4 DEF Others, PolyAbout
  <2>6. t.coef \in [E -> Int] BY <2>2, <2>3
  <2>7. t.const \in Int BY <1>2, <2>1 DEF PolyAbout
  <2>8. t.pred \in {"eq", "lt", "leq"} BY <2>1 DEF Combine
  <2>9. QED BY <2>2, <2>5, <2>6, <2>7, <2>8 DEF PolyOK
<1>3. PICK m : m = -p.coef[r] * q.coef[r] OBVIOUS
<1>4. m \in {1, -1} /\ -m \in {1, -1} BY <1>1, <1>3
<1>5. 1 * p.coef[r] + m * q.coef[r] = 0 BY <1>1, <1>3
<1>6. (-1) * p.coef[r] + (-m) * q.coef[r] = 0 BY <1>1, <1>3
<1>7. Resolve(p, q, r) \in {Combination(p, -1, q, -m), Combination(p, 1, q, m)}
  BY <1>3 DEF Resolve
<1>8. QED BY <1>2, <1>4, <1>5, <1>6, <1>7

\* An entry of r in force.
EntryOK(e, r) ==
  /\ AtomOf(e.lit) \in DOMAIN constraints /\ r \in VarsOf(e.lit) /\ True(e.lit)
  /\ \A s \in Others(e.lit, r) : is_defined(s)

LEMMA LiveEntry ==
  ASSUME LraI, NEW r \in RealVars, NEW e \in Entries(r), ~IsObsolete(e, r)
  PROVE  EntryOK(e, r)
<1>1. AtomOf(e.lit) \in DOMAIN constraints
  BY DEF LraI, PluginInv, EntriesDated, Dated
<1>2. r \in VarsOf(e.lit) BY DEF LraI, EntriesAbout
<1>3. True(e.lit) /\ \A s \in Others(e.lit, r) : is_defined(s)
  BY DEF IsObsolete
<1>4. QED BY <1>1, <1>2, <1>3 DEF EntryOK

LEMMA ReadOK ==
  ASSUME LraI, NEW r \in RealVars
  PROVE  /\ lower_bound(r) # << >> => EntryOK(Last(lower_bound(r)), r)
         /\ upper_bound(r) # << >> => EntryOK(Last(upper_bound(r)), r)
         /\ \A x : inequality(r, x) # << >> => EntryOK(inequality(r, x)[1], r)
<1>1. StacksOK BY DEF LraI
<1>2. \A e : LiveIn(e, bounds[r].lb, r) \/ LiveIn(e, bounds[r].ub, r) \/ LiveIn(e, bounds[r].disallowed, r)
         => e \in Entries(r) /\ ~IsObsolete(e, r)
  BY DEF LiveIn, Entries
<1>3. \A e : e \in Entries(r) /\ ~IsObsolete(e, r) => EntryOK(e, r)
  BY LiveEntry
<1>4. QED BY <1>1, <1>2, <1>3, ReadLive

\* Two constraints that are read without the variable they are read for.
LEMMA ResolveOK ==
  ASSUME LraI, NEW r, NEW d, NEW e, EntryOK(d, r), EntryOK(e, r), NEW p, NEW q,
         PolyAbout(p, d.lit), PolyAbout(q, e.lit)
  PROVE  PolyOK(Resolve(p, q, r))
<1>1. r \in VarsOf(d.lit) \cap VarsOf(e.lit)
      /\ \A s \in Others(d.lit, r) \cup Others(e.lit, r) : is_defined(s)
  BY DEF EntryOK
<1>2. QED BY <1>1, ResolveCancels

LEMMA CheckedReal ==
  ASSUME LraI, changed # {}
  PROVE  Checked \in RealVars
<1>1. changed \in SUBSET RealVars BY DEF LraI, PluginInv, BoundsKnown
<1>2. changed \in SUBSET Nat BY <1>1, RealVarsAssumption
<1>3. Min(changed) \in changed BY <1>2, MinExists
<1>4. QED BY <1>1, <1>3 DEF Checked

LEMMA BlamedOK ==
  ASSUME LraI, CheckBounds
  PROVE  \A k \in DOMAIN blame'.polys : PolyOK(blame'.polys[k])
<1> DEFINE r == Checked
<1>1. r \in RealVars BY CheckedReal DEF CheckBounds
<1>2. blame' = IF BoundConflict THEN BoundBlame ELSE IF InequalityConflict THEN InequalityBlame ELSE NoBlame
  BY DEF CheckBounds
<1>3. BoundConflict \/ InequalityConflict => EntryOK(Lower, r) /\ EntryOK(Upper, r)
  BY <1>1, ReadOK DEF BoundConflict, InequalityConflict, Bounded, Lower, Upper
<1>4. FormsOK BY DEF LraI
<1>5. CASE BoundConflict
  <2>1. EntryOK(Lower, r) /\ EntryOK(Upper, r) BY <1>3, <1>5
  <2>2. PolyAbout(PolyOf(Lower.lit), Lower.lit) /\ PolyAbout(PolyOf(Upper.lit), Upper.lit)
    BY <1>4, <2>1, PolyIsAbout DEF EntryOK
  <2>3. PICK p : p = Resolve(PolyOf(Lower.lit), PolyOf(Upper.lit), r)
    OBVIOUS
  <2>4. PolyOK(p) BY <2>1, <2>2, <2>3, ResolveOK
  <2>5. blame'.polys = <<p>> BY <1>2, <1>5, <2>3 DEF BoundBlame
  <2>6. QED BY <2>4, <2>5
<1>6. CASE ~BoundConflict /\ InequalityConflict
  <2> DEFINE d == inequality(r, Lower.value)[1]
             mult == Constraint(d.lit).coef[r]
  <2>1. EntryOK(Lower, r) /\ EntryOK(Upper, r) BY <1>3, <1>6
  <2>2. EntryOK(d, r) BY <1>1, <1>6, ReadOK DEF InequalityConflict
  <2>3. PolyAbout(PolyOf(Lower.lit), Lower.lit) /\ PolyAbout(PolyOf(Upper.lit), Upper.lit)
    BY <1>4, <2>1, PolyIsAbout DEF EntryOK
  <2>4. mult \in {1, -1} /\ -mult \in {1, -1}
    <3>1. FormOf(Constraint(d.lit)) /\ r \in DOMAIN Constraint(d.lit).coef
      BY <1>4, <2>2, Forms DEF EntryOK, Constraint, VarsOf
    <3>2. mult \in {1, -1} BY <3>1 DEF FormOf
    <3>3. QED BY <3>2
  <2>5. PICK p : p = Resolve(PolyOf(Lower.lit), Poly(d.lit, "lt", mult), r)
    OBVIOUS
  <2>6. PICK q : q = Resolve(PolyOf(Upper.lit), Poly(d.lit, "lt", -mult), r)
    OBVIOUS
  <2>7. blame'.polys = <<p, q>>
    BY <1>2, <1>6, <2>5, <2>6 DEF InequalityBlame
  <2> HIDE DEF d, mult
  <2>8. PolyAbout(Poly(d.lit, "lt", mult), d.lit) /\ PolyAbout(Poly(d.lit, "lt", -mult), d.lit)
    BY <1>4, <2>2, <2>4, PolyIsAbout DEF EntryOK
  <2>9. PolyOK(p) BY <2>1, <2>2, <2>3, <2>5, <2>8, ResolveOK
  <2>10. PolyOK(q) BY <2>1, <2>2, <2>3, <2>6, <2>8, ResolveOK
  <2>11. QED BY <2>7, <2>9, <2>10
<1>7. CASE ~BoundConflict /\ ~InequalityConflict
  BY <1>2, <1>7 DEF NoBlame
<1>8. QED BY <1>5, <1>6, <1>7

LEMMA PolyStays ==
  ASSUME LraI, [Next]_vars, ~BacktrackToLevel, ~Restart, NEW p, PolyOK(p), DOMAIN p.coef \subseteq RealVars
  PROVE  PolyOK(p)'
<1>1. \A r \in DOMAIN p.coef : r \in Vars /\ is_defined(r)
  BY PluginAssumption DEF PolyOK
<1>2. \A r \in DOMAIN p.coef : is_defined(r)' BY <1>1, DefinedStays
<1>3. QED BY <1>2 DEF PolyOK

LEMMA PolysNext ==
  ASSUME LraI, [Next]_vars
  PROVE  PolysOK'
<1> USE DEF trailVars, boundVars, watchVars, walkVars, conflictVars
<1>1. CASE BacktrackToLevel \/ Restart
  <2>1. pc = "conflict" /\ blame' = blame
    BY <1>1 DEF BacktrackToLevel, Restart, LoopUnchanged
  <2>2. blame = NoBlame BY <2>1 DEF LraI, PlacesOK
  <2>3. DOMAIN blame'.polys = {} BY <2>1, <2>2 DEF NoBlame
  <2>4. QED BY <2>3 DEF PolysOK
<1>2. CASE ~BacktrackToLevel /\ ~Restart
  <2>1. SUFFICES ASSUME NEW k \in DOMAIN blame'.polys, NEW p, p = blame'.polys[k]
                 PROVE  PolyOK(p)'
    BY DEF PolysOK
  <2>2. DOMAIN p.coef \subseteq RealVars
    BY <2>1, NextLevels DEF PluginInv, BlameKnown
  <2>3. PolyOK(p)
    <3>1. CASE UNCHANGED blame BY <2>1, <3>1 DEF LraI, PolysOK
    <3>2. CASE DropTrivial \/ Derive
      <4>1. blame.polys # << >> /\ blame'.polys = Tail(blame.polys)
        <5>1. CASE Derive BY <5>1 DEF Derive, explaining
        <5>2. CASE DropTrivial
          <6>1. blame' = [blame EXCEPT !.polys = Tail(@)] /\ blame.polys # << >>
            BY <5>2 DEF DropTrivial, explaining
          <6>2. blame \in [lits : {blame.lits}, polys : {blame.polys}]
            BY DEF LraI, PluginInv, BlameKnown
          <6>3. QED BY <6>1, <6>2
        <5>3. QED BY <3>2, <5>1, <5>2
      <4>2. k + 1 \in DOMAIN blame.polys /\ p = blame.polys[k + 1]
        BY <2>1, <4>1, NextPoly
      <4>3. QED BY <4>2 DEF LraI, PolysOK
    <3>3. CASE CheckBounds BY <2>1, <3>3, BlamedOK
    <3>4. CASE Report
      <4>1. blame' = NoBlame BY <3>4 DEF Report
      <4>2. QED BY <2>1, <4>1 DEF NoBlame
    <3>5. VisitAssigned \/ DecideReal \/ DecideAtom \/ BcpAssign \/ BcpConflict \/ StartPropagate \/ SeeAtom
            \/ SeeReal \/ WalkDone \/ MoveWatch \/ VisitUnit \/ ReadDone \/ CheckDone \/ UNCHANGED vars
            => UNCHANGED blame
      BY DEF VisitAssigned, DecideReal, DecideAtom, BcpAssign, BcpConflict, StartPropagate, SeeAtom,
             SeeReal, WalkDone, MoveWatch, VisitUnit, ReadDone, CheckDone, LoopUnchanged, vars
    <3>6. QED BY <1>2, <3>1, <3>2, <3>3, <3>4, <3>5, NextCases DEF Looking
  <2>4. QED BY <1>2, <2>2, <2>3, PolyStays
<1>3. QED BY <1>1, <1>2

LEMMA StampsNext ==
  ASSUME LraI, [Next]_vars
  PROVE  StampsOK'
<1> SUFFICES ASSUME NEW v \in Vars, is_defined(v)'
             PROVE  stamp'[v] \in Nat
  BY DEF StampsOK
<1>1. TrailStep BY NextTrail
<1>2. stamp \in [Vars -> Int] /\ clock \in [bool : Nat, real : Nat]
  BY DEF LraI, PluginInv, TimesOK
<1>3. CASE is_defined(v)
  <2>1. stamp'[v] = stamp[v] BY <1>1, <1>3, StepSame
  <2>2. QED BY <1>3, <2>1 DEF LraI, StampsOK
<1>4. CASE ~is_defined(v)
  <2>1. ~SameTrail BY <1>4 DEF SameTrail, is_defined
  <2>2. ASSUME NEW l, Cuts(l)
        PROVE  FALSE
    BY <1>4, <2>2 DEF Cuts
  <2>3. ASSUME NEW u, NEW value, NEW level, Gets(u, value, level)
        PROVE  stamp'[v] \in Nat
    <3>1. model' = [model EXCEPT ![u] = value] /\ model \in [Vars -> Values \cup {Undef}]
      BY <2>3 DEF LraI, PluginInv, TrailKnown, Gets
    <3>2. v = u BY <1>4, <3>1 DEF is_defined
    <3>3. stamp' = [stamp EXCEPT ![u] = clock[ModelOf(u)]]
      BY <2>3 DEF Gets, Stamp
    <3>4. clock[ModelOf(u)] \in Nat BY <1>2 DEF ModelOf
    <3>5. QED BY <1>2, <3>2, <3>3, <3>4
  <2>4. QED BY <1>1, <2>1, <2>2, <2>3 DEF TrailStep, AtomGets, RealGets
<1>5. QED BY <1>3, <1>4

-----------------------------------------------------------------------------
(* What becomes of the stacks.                                             *)

\* lit lacks r only and has just come to that.
UnitFor(lit, r) ==
  /\ AtomOf(lit) \in DOMAIN constraints /\ lit \in {AtomOf(lit), -AtomOf(lit)}
  /\ lit = TrueLit(AtomOf(lit))
  /\ r \in RealVars /\ r \in VarsOf(lit) /\ ~is_defined(r)
  /\ is_defined(AtomOf(lit)) /\ \A s \in Others(lit, r) : is_defined(s)
  /\ \E m \in Members(lit, r) : var_level[m] = decision_level

BoundsFrom(less, lit, r) == IF less THEN BoundsFromAbove(lit, r) ELSE BoundsFromBelow(lit, r)

NewStack(list, stack, less, r) ==
  \/ list = stack
  \/ list = Pruned(stack, r)
  \/ \E lit : /\ UnitFor(lit, r) /\ BoundsFrom(less, lit, r) /\ ~IsInequality(lit)
              /\ Beats(Implied(lit, r), Pruned(stack, r), less)
              /\ list = Append(Pruned(stack, r), Implied(lit, r))
              /\ SameTrail /\ UNCHANGED constraints

NewList(list, old, r) ==
  \/ list = old
  \/ list = InForce(old, r)
  \/ \E lit : /\ UnitFor(lit, r) /\ IsInequality(lit)
              /\ list = Append(InForce(old, r), Implied(lit, r))
              /\ SameTrail /\ UNCHANGED constraints

Restacks(r, ub, lb, disallowed) ==
  /\ r \in RealVars
  /\ bounds' = [bounds EXCEPT ![r] = [ub |-> ub, lb |-> lb, disallowed |-> disallowed]]
  /\ NewStack(ub, bounds[r].ub, TRUE, r)
  /\ NewStack(lb, bounds[r].lb, FALSE, r)
  /\ NewList(disallowed, bounds[r].disallowed, r)

BoundsStep == \E r, ub, lb, disallowed : Restacks(r, ub, lb, disallowed)

LEMMA UpdateRestacks ==
  ASSUME LraI, NEW lit, NEW r, UnitFor(lit, r), update(lit, r), SameTrail, UNCHANGED constraints
  PROVE  BoundsStep
<1> DEFINE e == Implied(lit, r)
           old == bounds[r]
<1>1. r \in RealVars BY DEF UnitFor
<1>2. old = [ub |-> old.ub, lb |-> old.lb, disallowed |-> old.disallowed]
  BY <1>1 DEF LraI, StacksOK
<1>3. e.lit = lit BY DEF Implied
<1> HIDE DEF e
<1>4. CASE IsInequality(lit)
  <2>1. AddInequality(e, r) BY <1>4 DEF update, e
  <2> DEFINE kept == InForce(old.disallowed, r)
  <2>2. PICK list \in {kept, Append(kept, e)} : bounds' = [bounds EXCEPT ![r].disallowed = list]
    BY <2>1 DEF AddInequality
  <2>3. bounds' = [bounds EXCEPT ![r] = [ub |-> old.ub, lb |-> old.lb, disallowed |-> list]]
    <3>1. bounds' = [bounds EXCEPT ![r] = [old EXCEPT !.disallowed = list]]
      BY <2>2
    <3>2. [old EXCEPT !.disallowed = list] = [ub |-> old.ub, lb |-> old.lb, disallowed |-> list]
      BY <1>2
    <3>3. QED BY <3>1, <3>2
  <2>4. NewList(list, old.disallowed, r) BY <1>4, <2>2 DEF NewList, e
  <2>5. Restacks(r, old.ub, old.lb, list)
    BY <1>1, <2>3, <2>4 DEF Restacks, NewStack
  <2>6. QED BY <2>5 DEF BoundsStep
<1>5. CASE ~IsInequality(lit)
  <2>1. AddBounds(e, r) BY <1>5 DEF update, e
  <2> DEFINE ub == IF BoundsFromAbove(lit, r) THEN Push(upper_bound(r), TRUE, e) ELSE old.ub
             lb == IF BoundsFromBelow(lit, r) THEN Push(lower_bound(r), FALSE, e) ELSE old.lb
  <2>2. bounds' = [bounds EXCEPT ![r] = [ub |-> ub, lb |-> lb, disallowed |-> old.disallowed]]
    BY <1>2, <1>3, <2>1 DEF AddBounds
  <2>3. NewStack(ub, old.ub, TRUE, r)
    <3>1. CASE BoundsFromAbove(lit, r) /\ Beats(e, upper_bound(r), TRUE)
      <4>1. ub = Append(Pruned(old.ub, r), e) /\ Beats(e, Pruned(old.ub, r), TRUE)
        BY <3>1 DEF Push, upper_bound
      <4>2. BoundsFrom(TRUE, lit, r) BY <3>1 DEF BoundsFrom
      <4>3. QED BY <1>5, <4>1, <4>2 DEF NewStack, e
    <3>2. CASE ~(BoundsFromAbove(lit, r) /\ Beats(e, upper_bound(r), TRUE))
      <4>1. ub = old.ub \/ ub = Pruned(old.ub, r)
        BY <3>2 DEF Push, upper_bound
      <4>2. QED BY <4>1 DEF NewStack
    <3>3. QED BY <3>1, <3>2
  <2>4. NewStack(lb, old.lb, FALSE, r)
    <3>1. CASE BoundsFromBelow(lit, r) /\ Beats(e, lower_bound(r), FALSE)
      <4>1. lb = Append(Pruned(old.lb, r), e) /\ Beats(e, Pruned(old.lb, r), FALSE)
        BY <3>1 DEF Push, lower_bound
      <4>2. BoundsFrom(FALSE, lit, r) BY <3>1 DEF BoundsFrom
      <4>3. QED BY <1>5, <4>1, <4>2 DEF NewStack, e
    <3>2. CASE ~(BoundsFromBelow(lit, r) /\ Beats(e, lower_bound(r), FALSE))
      <4>1. lb = old.lb \/ lb = Pruned(old.lb, r)
        BY <3>2 DEF Push, lower_bound
      <4>2. QED BY <4>1 DEF NewStack
    <3>3. QED BY <3>1, <3>2
  <2> HIDE DEF ub, lb
  <2>5. Restacks(r, ub, lb, old.disallowed)
    BY <1>1, <2>2, <2>3, <2>4 DEF Restacks, NewList
  <2>6. QED BY <2>5 DEF BoundsStep
<1>6. QED BY <1>4, <1>5

\* A true literal and what it lacks.
LEMMA UnitOf ==
  ASSUME LraI, NEW a \in DOMAIN constraints, NEW r \in VarsOf(a), ~is_defined(r), is_defined(a),
         \A s \in VarsOf(a) : s # r => is_defined(s),
         \E m \in {a} \cup (VarsOf(a) \ {r}) : var_level[m] = decision_level
  PROVE  UnitFor(TrueLit(a), r)
<1>1. AtomFact(a) BY AtomFacts DEF LraI
<1>2. AtomOf(TrueLit(a)) = a /\ VarsOf(TrueLit(a)) = VarsOf(a) /\ Others(TrueLit(a), r) = VarsOf(a) \ {r}
      /\ TrueLit(a) \in {a, -a} /\ r \in RealVars
  BY <1>1 DEF AtomFact
<1>3. QED BY <1>2 DEF UnitFor, Members

LEMMA SeeAtomUnit ==
  ASSUME LraI, SeeAtom, NEW a, a = Head(seen), is_unit(a)
  PROVE  UnitFor(TrueLit(a), order[a][1])
<1>1. pc = "read" /\ seen # << >> /\ a \notin RealVars BY DEF SeeAtom
<1>2. 1 \in DOMAIN seen /\ a = seen[1] /\ a \in Known
  <2>1. seen \in Seq(Known) BY DEF LraI, PluginInv, WalkKnown
  <2>2. QED BY <1>1, <2>1
<1>3. a \in DOMAIN constraints BY <1>1, <1>2 DEF Known
<1>4. PICK j \in DOMAIN recent : a = recent[j].var
  BY <1>2 DEF LraI, PlacesOK
<1>5. TrailShape BY TrailLists DEF LraI, PluginInv
<1>6. PICK l : l = Len(trail) OBVIOUS
<1>7. l \in DOMAIN trail /\ j \in DOMAIN trail[l] /\ a = trail[l][j].var /\ decision_level = l - 1 /\ l \in Nat
  BY <1>4, <1>5, <1>6 DEF TrailShape
<1>8. PICK vs : vs = order[a] OBVIOUS
<1>9. /\ vs \in Seq(RealVars) /\ Len(vs) \in Nat /\ Len(vs) >= 1 /\ DOMAIN vs = 1..Len(vs)
      /\ VarsOf(a) = {vs[p] : p \in 1..Len(vs)}
      /\ \A p, q \in 1..Len(vs) : vs[p] = vs[q] => p = q
  BY <1>3, <1>8, WatchedFirst
<1>10. ~is_defined(vs[1]) /\ (Len(vs) = 1 \/ is_defined(vs[2]))
  BY <1>8 DEF is_unit
<1>11. vs[1] \in VarsOf(a) BY <1>9
<1>12. is_defined(a) BY <1>7 DEF LraI, LevelsOK
<1>13. var_level[a] = decision_level
  <2>1. a \in Vars /\ var_level[a] \in Int
    BY <1>3, AtomFacts DEF LraI, LevelsOK, AtomFact
  <2>2. var_level[a] < l BY <1>7 DEF LraI, LevelsOK
  <2>3. ~(var_level[a] < l - 1)
    BY <1>1, <1>7, <1>10, <1>11 DEF LraI, AtomsLow
  <2>4. QED BY <1>7, <2>1, <2>2, <2>3
<1>14. \A p \in 1..Len(vs) : p # 1 => is_defined(vs[p])
  <2>1. \A s, b : ~Due(s, b) BY <1>1, NothingDue
  <2>2. Tells(a) BY <1>3 DEF LraI, WatchesTell
  <2>3. Len(vs) > 1 /\ is_defined(vs[2]) => \A p \in 3..Len(vs) : is_defined(vs[p])
    BY <1>8, <2>1, <2>2 DEF Tells
  <2>4. ASSUME NEW p \in 1..Len(vs), p # 1
        PROVE  Len(vs) > 1 /\ Len(vs) # 1 /\ (p = 2 \/ p \in 3..Len(vs))
    BY <1>9, <2>4
  <2>5. QED BY <1>10, <2>3, <2>4
<1>15. \A s \in VarsOf(a) : s # vs[1] => is_defined(s) BY <1>9, <1>14
<1>16. QED BY <1>3, <1>8, <1>10, <1>11, <1>12, <1>13, <1>15, UnitOf

LEMMA VisitUnitUnit ==
  ASSUME LraI, VisitUnit, is_defined(TheWatch.atom)
  PROVE  UnitFor(TrueLit(TheWatch.atom), Reordered(TheWatch.atom)[1])
<1>1. PICK a, vs : a = TheWatch.atom /\ vs = Reordered(a) OBVIOUS
<1>2. Visit(a, vs) /\ ~is_defined(vs[1]) /\ is_defined(a)
  BY <1>1, WatchesVisitUnit
<1>3. /\ a \in DOMAIN constraints /\ vs[2] = Walked /\ OnTop(Walked) /\ Len(vs) > 1
      /\ VarsOf(a) = {vs[p] : p \in 1..Len(vs)} /\ Len(vs) \in Nat
      /\ \A p, q \in 1..Len(vs) : vs[p] = vs[q] => p = q
  BY <1>2 DEF Visit
<1>4. \A p \in 3..Len(vs) : is_defined(vs[p])
  <2>1. ~Replaceable BY DEF VisitUnit
  <2>2. Free(vs) = {} BY <1>1, <1>2, <2>1 DEF Replaceable
  <2>3. QED BY <2>2 DEF Free
<1>5. 1 \in 1..Len(vs) /\ 2 \in 1..Len(vs) /\ \A p \in 1..Len(vs) : p = 1 \/ p = 2 \/ p \in 3..Len(vs)
  BY <1>3
<1>6. \A s \in VarsOf(a) : s # vs[1] => is_defined(s)
  BY <1>3, <1>4, <1>5 DEF OnTop
<1>7. vs[1] \in VarsOf(a) /\ vs[2] \in VarsOf(a) /\ vs[2] # vs[1]
  BY <1>3, <1>5
<1>8. var_level[vs[2]] = decision_level BY <1>3 DEF OnTop
<1>9. UnitFor(TrueLit(a), vs[1]) BY <1>2, <1>3, <1>6, <1>7, <1>8, UnitOf
<1>10. QED BY <1>1, <1>9

LEMMA AskAllRestacks ==
  ASSUME LraI, NEW r \in RealVars, AskAll(r)
  PROVE  BoundsStep
<1>1. Restacks(r, upper_bound(r), lower_bound(r), InForce(bounds[r].disallowed, r))
  BY DEF AskAll, Restacks, NewStack, NewList, upper_bound, lower_bound
<1>2. QED BY <1>1 DEF BoundsStep

LEMMA AskBoundsRestacks ==
  ASSUME LraI, changed # {}, AskBounds
  PROVE  BoundsStep
<1>1. Checked \in RealVars BY CheckedReal
<1>2. PICK d : /\ d = bounds[Checked].disallowed \/ d = InForce(bounds[Checked].disallowed, Checked)
               /\ bounds' = [bounds EXCEPT ![Checked] =
                    [ub |-> upper_bound(Checked), lb |-> lower_bound(Checked), disallowed |-> d]]
  <2> DEFINE old == bounds[Checked].disallowed
             d == IF Bounded /\ ~BoundConflict /\ Upper.value = Lower.value
                    THEN InForce(old, Checked) ELSE old
  <2>1. bounds' = [bounds EXCEPT ![Checked] =
                    [ub |-> upper_bound(Checked), lb |-> lower_bound(Checked), disallowed |-> d]]
    BY DEF AskBounds
  <2>2. d = old \/ d = InForce(old, Checked) OBVIOUS
  <2> HIDE DEF d
  <2>3. QED BY <2>1, <2>2
<1>3. Restacks(Checked, upper_bound(Checked), lower_bound(Checked), d)
  BY <1>1, <1>2 DEF Restacks, NewStack, NewList, upper_bound, lower_bound
<1>4. QED BY <1>3 DEF BoundsStep

LEMMA NextBounds ==
  ASSUME LraI, [Next]_vars
  PROVE  UNCHANGED bounds \/ BoundsStep
<1> USE DEF trailVars, boundVars, watchVars, walkVars, conflictVars
<1>1. CASE SeeAtom
  <2>1. PICK a : a = Head(seen) OBVIOUS
  <2>2. SameTrail /\ UNCHANGED constraints
    BY <1>1, LookingSame DEF Looking
  <2>3. IF is_unit(a) THEN update(TrueLit(a), order[a][1]) ELSE UNCHANGED <<bounds, changed>>
    BY <1>1, <2>1 DEF SeeAtom
  <2>4. CASE is_unit(a)
    <3>1. UnitFor(TrueLit(a), order[a][1])
      BY <1>1, <2>1, <2>4, SeeAtomUnit
    <3>2. QED BY <2>2, <2>3, <2>4, <3>1, UpdateRestacks
  <2>5. QED BY <2>3, <2>4
<1>2. CASE VisitUnit
  <2>1. PICK a, r : a = TheWatch.atom /\ r = Reordered(a)[1] OBVIOUS
  <2>2. SameTrail /\ UNCHANGED constraints
    BY <1>2, LookingSame DEF Looking
  <2>3. IF is_defined(a) THEN update(TrueLit(a), r) ELSE UNCHANGED <<bounds, changed>>
    BY <1>2, <2>1 DEF VisitUnit
  <2>4. CASE is_defined(a)
    <3>1. UnitFor(TrueLit(a), r) BY <1>2, <2>1, <2>4, VisitUnitUnit
    <3>2. QED BY <2>2, <2>3, <2>4, <3>1, UpdateRestacks
  <2>5. QED BY <2>3, <2>4
<1>3. CASE CheckBounds BY <1>3, AskBoundsRestacks DEF CheckBounds
<1>4. CASE DecideReal
  <2>1. PICK r \in InUse, x \in RealValues : RealGets(r, x) /\ AskAll(r)
    BY <1>4, DecideRealGets
  <2>2. r \in RealVars BY <2>1 DEF RealGets
  <2>3. QED BY <2>1, <2>2, AskAllRestacks
<1>5. VisitAssigned \/ Derive \/ DecideAtom \/ BcpAssign \/ BcpConflict \/ StartPropagate \/ BacktrackToLevel
        \/ Restart \/ SeeReal \/ WalkDone \/ MoveWatch \/ ReadDone \/ CheckDone \/ Report \/ DropTrivial
        \/ UNCHANGED vars => UNCHANGED bounds
  BY DEF VisitAssigned, Derive, DecideAtom, BcpAssign, BcpConflict, StartPropagate, BacktrackToLevel,
         Restart, SeeReal, WalkDone, MoveWatch, ReadDone, CheckDone, Report, DropTrivial, LoopUnchanged, vars
<1>6. QED BY <1>1, <1>2, <1>3, <1>4, <1>5, NextCases DEF Looking
-----------------------------------------------------------------------------
(* Sums.                                                                   *)

\* A weighted sum is the sum of its terms.
LEMMA SumIsFold ==
  ASSUME NEW coef, NEW set, NEW rho
  PROVE  WeightedSum(coef, set, rho) = SumOf([r \in set |-> coef[r] * rho[r]], set)
BY DEF WeightedSum, FoldFunctionOnSet, MapThenFoldSet, SumOf, IsSum

\* The sum of integers is an integer.
LEMMA SumType ==
  ASSUME NEW set, IsFiniteSet(set), NEW coef, NEW rho,
         \A r \in set : coef[r] \in Int /\ rho[r] \in Int
  PROVE  WeightedSum(coef, set, rho) \in Int
<1> DEFINE term == [r \in set |-> coef[r] * rho[r]]
<1>1. term \in [set -> Int] OBVIOUS
<1> HIDE DEF term
<1>2. PICK g : IsSum(g, term, SUBSET set) /\ SumOf(term, set) = g[set]
  BY SumIs
<1>3. \A s \in SUBSET set : g[s] \in Int
  <2>1. TakesOut(g, term, set) BY <1>1, <1>2, SumTakesOut
  <2>2. QED BY <2>1 DEF TakesOut
<1>4. set \in SUBSET set OBVIOUS
<1>5. SumOf(term, set) \in Int BY <1>2, <1>3, <1>4, ZenonT(60)
<1>6. QED BY <1>5, SumIsFold DEF term

\* It depends on the values of its variables alone.
LEMMA SumSame ==
  ASSUME NEW set, NEW coef, NEW rho, NEW other, \A r \in set : rho[r] = other[r]
  PROVE  WeightedSum(coef, set, rho) = WeightedSum(coef, set, other)
<1>1. [r \in set |-> coef[r] * rho[r]] = [r \in set |-> coef[r] * other[r]]
  OBVIOUS
<1>2. QED BY <1>1, SumIsFold

\* One of its variables may be added last.
LEMMA SumSplit ==
  ASSUME NEW set, IsFiniteSet(set), NEW coef, NEW rho,
         \A r \in set : coef[r] \in Int /\ rho[r] \in Int, NEW last \in set
  PROVE  WeightedSum(coef, set, rho) = coef[last] * rho[last] + WeightedSum(coef, set \ {last}, rho)
<1> DEFINE term == [r \in set |-> coef[r] * rho[r]]
           less == [r \in set \ {last} |-> coef[r] * rho[r]]
<1>1. term \in [set -> Int] /\ \A r \in set \ {last} : less[r] = term[r]
  OBVIOUS
<1>2. term[last] = coef[last] * rho[last] OBVIOUS
<1>3. /\ WeightedSum(coef, set, rho) = SumOf(term, set)
      /\ WeightedSum(coef, set \ {last}, rho) = SumOf(less, set \ {last})
  BY SumIsFold
<1> HIDE DEF term, less
<1>4. SumOf(term, set) = term[last] + SumOf(less, set \ {last})
  BY <1>1, SumOfSplit
<1>5. QED BY <1>2, <1>3, <1>4

\* Values are integers.
LEMMA ValuesAreInt ==
  ASSUME LraI, NEW v \in Vars, is_defined(v)
  PROVE  model[v] \in Int
<1>1. model[v] \in Values \cup {Undef} /\ model[v] # Undef
  BY DEF LraI, PluginInv, TrailKnown, is_defined
<1>2. Values \subseteq Int BY PluginAssumption DEF Truth
<1>3. QED BY <1>1, <1>2

LEMMA ImpliedIsInt ==
  ASSUME LraI, NEW lit, NEW r, UnitFor(lit, r)
  PROVE  ImpliedValue(lit, r, model) \in Int
<1>1. PICK c : c = Constraint(lit) OBVIOUS
<1>2. FormOf(c) /\ VarsOf(lit) = DOMAIN c.coef /\ r \in DOMAIN c.coef
  BY <1>1, Forms DEF UnitFor, Constraint, VarsOf, LraI
<1> DEFINE D == DOMAIN c.coef \ {r}
<1>3. IsFiniteSet(D) BY <1>2, FS_Subset DEF FormOf
<1>4. \A s \in D : c.coef[s] \in Int /\ model[s] \in Int
  <2>1. \A s \in D : s \in Vars BY <1>2, PluginAssumption DEF FormOf
  <2>2. \A s \in D : is_defined(s) BY <1>2 DEF UnitFor, Others
  <2>3. QED BY <1>2, <2>1, <2>2, ValuesAreInt DEF FormOf
<1>5. WeightedSum(c.coef, D, model) \in Int BY <1>3, <1>4, SumType
<1>6. ImpliedValue(lit, r, model) = c.coef[r] * (c.rhs - WeightedSum(c.coef, D, model))
  BY <1>1 DEF ImpliedValue
<1>7. c.coef[r] \in Int /\ c.rhs \in Int BY <1>2 DEF FormOf
<1> HIDE DEF D
<1>8. QED BY <1>5, <1>6, <1>7

LEMMA ImpliedOK ==
  ASSUME LraI, NEW lit, NEW r, UnitFor(lit, r)
  PROVE  Implied(lit, r) \in Implieds
<1> DEFINE e == Implied(lit, r)
           times == {0} \cup {stamp[s] : s \in Others(lit, r)}
           a == AtomOf(lit)
<1>1. e = [value |-> ImpliedValue(lit, r, model), lit |-> lit, cons_time |-> stamp[a], var_time |-> Max(times)]
  BY DEF Implied
<1>2. ImpliedValue(lit, r, model) \in Int BY ImpliedIsInt
<1>3. AtomFact(a) /\ is_defined(a) /\ lit \in {a, -a}
  BY AtomFacts DEF UnitFor, LraI
<1>4. lit \in {l \in -MaxAtoms..MaxAtoms : l # 0}
  <2>1. a \in 1..MaxAtoms /\ MaxAtoms \in Nat
    BY <1>3, PluginAssumption DEF AtomFact
  <2> HIDE DEF a
  <2>2. QED BY <1>3, <2>1
<1>5. stamp[a] \in Nat BY <1>3 DEF AtomFact, LraI, StampsOK
<1>6. Max(times) \in Nat
  <2>1. \A s \in Others(lit, r) : s \in RealVars /\ s \in Vars /\ is_defined(s)
    <3>1. VarsOf(lit) \subseteq RealVars
      BY Forms DEF UnitFor, VarsOf, Constraint, FormOf, LraI
    <3>2. QED BY <3>1, PluginAssumption DEF UnitFor, Others
  <2>2. \A s \in Others(lit, r) : stamp[s] \in Nat /\ stamp[s] < clock.real
    BY <2>1 DEF LraI, StampsOK, PluginInv, TimesOK, ModelOf
  <2>3. clock.real \in Nat BY DEF LraI, PluginInv, TimesOK
  <2>4. times \in SUBSET Int /\ times # {} /\ times \subseteq Nat
    BY <2>2
  <2>5. \A x \in times : x <= clock.real BY <2>2, <2>3
  <2> HIDE DEF times
  <2>6. PICK S : S = times OBVIOUS
  <2>7. PICK b : b = clock.real OBVIOUS
  <2>8. S \in SUBSET Int /\ S # {} /\ b \in Int /\ \A x \in S : x <= b
    BY <2>3, <2>4, <2>5, <2>6, <2>7
  <2>9. Max(S) \in S BY <2>8, MaxIs
  <2>10. QED BY <2>4, <2>6, <2>9
<1> HIDE DEF times, a
<1>7. QED BY <1>1, <1>2, <1>4, <1>5, <1>6 DEF Implieds

\* What the new lists are made of.
MadeOf(list, stack, less, r) ==
  /\ list \in Seq(Implieds)
  /\ \A e \in ToSet(list) :
       e \in ToSet(stack) \/ \E lit : UnitFor(lit, r) /\ BoundsFrom(less, lit, r) /\ e = Implied(lit, r)

LEMMA NewStackOf ==
  ASSUME LraI, NEW stack \in Seq(Implieds), NEW less, NEW r, NEW list, NewStack(list, stack, less, r)
  PROVE  MadeOf(list, stack, less, r)
<1>1. Pruned(stack, r) \in Seq(Implieds) /\ ToSet(Pruned(stack, r)) \subseteq ToSet(stack)
  BY PrunedElements
<1>2. CASE list = stack \/ list = Pruned(stack, r)
  BY <1>1, <1>2 DEF MadeOf
<1>3. ASSUME NEW lit, UnitFor(lit, r), BoundsFrom(less, lit, r), list = Append(Pruned(stack, r), Implied(lit, r))
      PROVE  MadeOf(list, stack, less, r)
  <2>1. Implied(lit, r) \in Implieds BY <1>3, ImpliedOK
  <2>2. list \in Seq(Implieds) /\ ToSet(list) \subseteq ToSet(Pruned(stack, r)) \cup {Implied(lit, r)}
    BY <1>1, <1>3, <2>1, AppendElements
  <2>3. QED BY <1>1, <1>3, <2>2 DEF MadeOf
<1>4. QED BY <1>2, <1>3 DEF NewStack

LEMMA NewListOf ==
  ASSUME LraI, NEW old \in Seq(Implieds), NEW r, NEW list, NewList(list, old, r)
  PROVE  /\ list \in Seq(Implieds)
         /\ \A e \in ToSet(list) :
              e \in ToSet(old) \/ \E lit : UnitFor(lit, r) /\ IsInequality(lit) /\ e = Implied(lit, r)
<1>1. InForce(old, r) \in Seq(Implieds) /\ ToSet(InForce(old, r)) \subseteq ToSet(old)
  BY InForceElements
<1>2. CASE list = old \/ list = InForce(old, r) BY <1>1, <1>2
<1>3. ASSUME NEW lit, UnitFor(lit, r), IsInequality(lit), list = Append(InForce(old, r), Implied(lit, r))
      PROVE  /\ list \in Seq(Implieds)
             /\ \A e \in ToSet(list) : e \in ToSet(old) \/ e = Implied(lit, r)
  <2>1. Implied(lit, r) \in Implieds BY <1>3, ImpliedOK
  <2>2. list \in Seq(Implieds) /\ ToSet(list) \subseteq ToSet(InForce(old, r)) \cup {Implied(lit, r)}
    BY <1>1, <1>3, <2>1, AppendElements
  <2>3. QED BY <1>1, <2>2
<1>4. QED BY <1>2, <1>3 DEF NewList

LEMMA StacksNext ==
  ASSUME LraI, [Next]_vars
  PROVE  StacksOK'
<1>1. CASE UNCHANGED bounds BY <1>1 DEF LraI, StacksOK
<1>2. ASSUME NEW r, NEW ub, NEW lb, NEW disallowed, Restacks(r, ub, lb, disallowed)
      PROVE  StacksOK'
  <2>1. /\ bounds \in [RealVars -> [ub : Seq(Implieds), lb : Seq(Implieds), disallowed : Seq(Implieds)]]
        /\ r \in RealVars
    BY <1>2 DEF LraI, StacksOK, Restacks
  <2>2. ub \in Seq(Implieds) /\ lb \in Seq(Implieds) /\ disallowed \in Seq(Implieds)
    <3>1. bounds[r].ub \in Seq(Implieds) /\ bounds[r].lb \in Seq(Implieds) /\ bounds[r].disallowed \in Seq(Implieds)
      BY <2>1
    <3>2. MadeOf(ub, bounds[r].ub, TRUE, r) /\ MadeOf(lb, bounds[r].lb, FALSE, r)
      BY <1>2, <3>1, NewStackOf DEF Restacks
    <3>3. QED BY <1>2, <3>1, <3>2, NewListOf DEF Restacks, MadeOf
  <2>3. bounds' = [bounds EXCEPT ![r] = [ub |-> ub, lb |-> lb, disallowed |-> disallowed]]
    BY <1>2 DEF Restacks
  <2>4. QED BY <2>1, <2>2, <2>3 DEF StacksOK
<1>3. QED BY <1>1, <1>2, NextBounds DEF BoundsStep

-----------------------------------------------------------------------------
(* Every entry bounds the variable whose it is.                            *)

\* The literal e is made of is about r, from above, from below, or not equal.
About(e, r, kind) ==
  /\ AtomOf(e.lit) \in DOMAIN constraints /\ r \in VarsOf(e.lit)
  /\ kind = "above" => BoundsFromAbove(e.lit, r)
  /\ kind = "below" => BoundsFromBelow(e.lit, r)
  /\ kind = "not" => IsInequality(e.lit)

Kinds(r) == <<bounds[r].ub, bounds[r].lb, bounds[r].disallowed>>

EntriesHave ==
  \A r \in RealVars :
    /\ \A e \in ToSet(bounds[r].ub) : About(e, r, "above")
    /\ \A e \in ToSet(bounds[r].lb) : About(e, r, "below")
    /\ \A e \in ToSet(bounds[r].disallowed) : About(e, r, "not")

LEMMA AboutStays ==
  ASSUME Kept, NEW e, NEW r, NEW kind, About(e, r, kind)
  PROVE  About(e, r, kind)'
BY DEF Kept, About, VarsOf, Constraint, BoundsFromAbove, BoundsFromBelow, IsInequality, IsEquality

LEMMA EntriesHaveAll ==
  LraI => EntriesHave
<1> SUFFICES ASSUME LraI PROVE EntriesHave
  OBVIOUS
<1>1. \A r \in RealVars : \A e \in Entries(r) : AtomOf(e.lit) \in DOMAIN constraints /\ r \in VarsOf(e.lit)
  BY DEF LraI, EntriesAbout, PluginInv, EntriesDated, Dated
<1>2. \A r \in RealVars : \A e : e \in ToSet(bounds[r].ub) \/ e \in ToSet(bounds[r].lb)
        \/ e \in ToSet(bounds[r].disallowed) => e \in Entries(r)
  BY DEF Entries
<1>3. QED BY <1>1, <1>2 DEF LraI, EntriesAbout, EntriesHave, About

LEMMA EntriesAboutNext ==
  ASSUME LraI, [Next]_vars
  PROVE  EntriesAbout'
<1>1. Kept /\ EntriesHave BY NextLevels, EntriesHaveAll
<1>2. CASE UNCHANGED bounds
  <2>1. EntriesHave' BY <1>1, <1>2, AboutStays DEF EntriesHave
  <2>2. QED BY <2>1 DEF EntriesHave, EntriesAbout, Entries, About
<1>3. ASSUME NEW r, NEW ub, NEW lb, NEW disallowed, Restacks(r, ub, lb, disallowed)
      PROVE  EntriesAbout'
  <2>1. bounds[r].ub \in Seq(Implieds) /\ bounds[r].lb \in Seq(Implieds) /\ bounds[r].disallowed \in Seq(Implieds)
        /\ r \in RealVars
    BY <1>3 DEF LraI, StacksOK, Restacks
  <2>2. \A lit : Implied(lit, r).lit = lit BY DEF Implied
  <2>3. \A lit : UnitFor(lit, r) => AtomOf(lit) \in DOMAIN constraints /\ r \in VarsOf(lit)
    BY DEF UnitFor
  <2>4. \A e \in ToSet(ub) : About(e, r, "above")
    <3>1. \A e \in ToSet(ub) : e \in ToSet(bounds[r].ub) \/
            \E lit : UnitFor(lit, r) /\ BoundsFrom(TRUE, lit, r) /\ e = Implied(lit, r)
      <4>1. MadeOf(ub, bounds[r].ub, TRUE, r)
        BY <1>3, <2>1, NewStackOf DEF Restacks
      <4>2. QED BY <4>1 DEF MadeOf
    <3>2. QED BY <1>1, <2>1, <2>2, <2>3, <3>1 DEF EntriesHave, About, BoundsFrom
  <2>5. \A e \in ToSet(lb) : About(e, r, "below")
    <3>1. \A e \in ToSet(lb) : e \in ToSet(bounds[r].lb) \/
            \E lit : UnitFor(lit, r) /\ BoundsFrom(FALSE, lit, r) /\ e = Implied(lit, r)
      <4>1. MadeOf(lb, bounds[r].lb, FALSE, r)
        BY <1>3, <2>1, NewStackOf DEF Restacks
      <4>2. QED BY <4>1 DEF MadeOf
    <3>2. QED BY <1>1, <2>1, <2>2, <2>3, <3>1 DEF EntriesHave, About, BoundsFrom
  <2>6. \A e \in ToSet(disallowed) : About(e, r, "not")
    <3>1. \A e \in ToSet(disallowed) : e \in ToSet(bounds[r].disallowed) \/
            \E lit : UnitFor(lit, r) /\ IsInequality(lit) /\ e = Implied(lit, r)
      BY <1>3, <2>1, NewListOf DEF Restacks
    <3>2. QED BY <1>1, <2>1, <2>2, <2>3, <3>1 DEF EntriesHave, About
  <2>7. \A s \in RealVars : bounds'[s] = IF s = r THEN [ub |-> ub, lb |-> lb, disallowed |-> disallowed] ELSE bounds[s]
    BY <1>3, <2>1 DEF Restacks, LraI, StacksOK
  <2>8. EntriesHave'
    <3> SUFFICES ASSUME NEW s \in RealVars
                 PROVE  /\ \A e \in ToSet(bounds'[s].ub) : About(e, s, "above")'
                        /\ \A e \in ToSet(bounds'[s].lb) : About(e, s, "below")'
                        /\ \A e \in ToSet(bounds'[s].disallowed) : About(e, s, "not")'
      BY DEF EntriesHave
    <3>1. CASE s = r BY <1>1, <2>4, <2>5, <2>6, <2>7, <3>1, AboutStays
    <3>2. CASE s # r BY <1>1, <2>7, <3>2, AboutStays DEF EntriesHave
    <3>3. QED BY <3>1, <3>2
  <2>9. QED BY <2>8 DEF EntriesHave, EntriesAbout, Entries, About
<1>4. QED BY <1>2, <1>3, NextBounds DEF BoundsStep
-----------------------------------------------------------------------------
(* Nested stacks.                                                          *)

\* The variables an entry depends on.
LEMMA MembersDefined ==
  ASSUME LraI, NEW r, NEW e, EntryOK(e, r)
  PROVE  /\ \A m \in Members(e.lit, r) : m \in Vars /\ is_defined(m) /\ var_level[m] \in 0..decision_level
         /\ Members(e.lit, r)' = Members(e.lit, r) \/ ~Kept
<1>1. PICK a : a = AtomOf(e.lit) OBVIOUS
<1>2. a \in DOMAIN constraints BY <1>1 DEF EntryOK
<1>3. AtomFact(a) BY <1>2, AtomFacts DEF LraI
<1>4. a \in Vars /\ is_defined(a)
  <2>1. model[a] = Truth(e.lit > 0) BY <1>1 DEF EntryOK, True
  <2>2. Truth(e.lit > 0) \in Values BY TruthIsValue
  <2>3. QED BY <1>3, <2>1, <2>2, UndefAssumption DEF AtomFact, is_defined
<1>5. Others(e.lit, r) \subseteq RealVars
  <2>1. VarsOf(e.lit) = DOMAIN constraints[a].coef
    BY <1>1 DEF VarsOf, Constraint
  <2>2. QED BY <1>3, <2>1 DEF AtomFact, Others
<1>6. \A m \in Members(e.lit, r) : m \in Vars /\ is_defined(m)
  BY <1>1, <1>4, <1>5, PluginAssumption DEF Members, EntryOK
<1>7. \A m \in Members(e.lit, r) : var_level[m] \in 0..decision_level
  BY <1>6 DEF LraI, LevelsOK
<1>8. Kept => Others(e.lit, r)' = Others(e.lit, r)
  BY <1>1, <1>2, OthersStay
<1>9. QED BY <1>6, <1>7, <1>8 DEF Members

\* What an entry lies on goes no sooner than the entry.
LEMMA LiveStays ==
  ASSUME LraI, [Next]_vars, NEW r \in RealVars, NEW d \in Entries(r), NEW e \in Entries(r),
         ~IsObsolete(d, r), ~IsObsolete(e, r), ~IsObsolete(e, r)', NoHigher(d.lit, e.lit, r)
  PROVE  ~IsObsolete(d, r)' /\ NoHigher(d.lit, e.lit, r)'
<1>1. TrailStep /\ Kept BY NextLevels
<1>2. EntryOK(d, r) /\ EntryOK(e, r) BY LiveEntry
<1> DEFINE D == Members(d.lit, r)
           E == Members(e.lit, r)
<1>3. Members(d.lit, r)' = D /\ Members(e.lit, r)' = E
  BY <1>1, <1>2, MembersDefined
<1>4. /\ \A m \in D : m \in Vars /\ is_defined(m)
      /\ \A m \in E : m \in Vars /\ is_defined(m)
  BY <1>2, MembersDefined
<1>5. \A m \in E : is_defined(m)'
  <2>1. Others(e.lit, r)' = Others(e.lit, r)
    BY <1>1, <1>2, OthersStay DEF EntryOK
  <2>2. \A m \in Others(e.lit, r) : is_defined(m)'
    BY <2>1 DEF IsObsolete
  <2>3. is_defined(AtomOf(e.lit))'
    <3>1. model'[AtomOf(e.lit)] = Truth(e.lit > 0)
      BY DEF IsObsolete, True
    <3>2. Truth(e.lit > 0) \in Values BY TruthIsValue
    <3>3. QED BY <3>1, <3>2, UndefAssumption DEF is_defined
  <2>4. QED BY <2>2, <2>3 DEF Members
<1>6. ASSUME NEW m \in D
      PROVE  /\ is_defined(m)' /\ model'[m] = model[m] /\ stamp'[m] = stamp[m]
             /\ var_level'[m] = var_level[m]
             /\ \E t \in E : var_level'[m] <= var_level'[t]
  <2>1. PICK t \in E : var_level[m] <= var_level[t] BY <1>6 DEF NoHigher
  <2>2. m \in Vars /\ t \in Vars /\ is_defined(m) /\ is_defined(t) /\ is_defined(t)'
    BY <1>4, <1>5, <1>6, <2>1
  <2>3. is_defined(m)' /\ var_level'[m] = var_level[m] /\ var_level'[t] = var_level[t]
    BY <1>1, <2>1, <2>2, LowerStays
  <2>4. model'[m] = model[m] /\ stamp'[m] = stamp[m]
    BY <1>1, <2>2, <2>3, StepSame
  <2>5. QED BY <2>1, <2>3, <2>4
<1>7. NoHigher(d.lit, e.lit, r)' BY <1>3, <1>6 DEF NoHigher
<1>8. ~IsObsolete(d, r)'
  <2>1. Others(d.lit, r)' = Others(d.lit, r)
    BY <1>1, <1>2, OthersStay DEF EntryOK
  <2>2. AtomOf(d.lit) \in D /\ Others(d.lit, r) \subseteq D
    BY DEF Members
  <2>3. True(d.lit)'
    <3>1. True(d.lit) BY DEF IsObsolete
    <3>2. QED BY <1>6, <2>2, <3>1 DEF True
  <2>4. ~(stamp'[AtomOf(d.lit)] > d.cons_time)
    BY <1>6, <2>2 DEF IsObsolete
  <2>5. \A s \in Others(d.lit, r) : is_defined(s)' /\ ~(stamp'[s] > d.var_time)
    BY <1>6, <2>2 DEF IsObsolete
  <2>6. QED BY <2>1, <2>3, <2>4, <2>5 DEF IsObsolete
<1>9. QED BY <1>7, <1>8

LEMMA BetterStays ==
  ASSUME Kept, NEW d, NEW e, AtomOf(d.lit) \in DOMAIN constraints, AtomOf(e.lit) \in DOMAIN constraints,
         NEW less, Better(less, e, d)
  PROVE  Better(less, e, d)'
<1>1. IsStrict(d.lit)' = IsStrict(d.lit) /\ IsStrict(e.lit)' = IsStrict(e.lit)
  BY DEF Kept, IsStrict, Constraint
<1>2. QED BY <1>1 DEF Better

LEMMA StackStays ==
  ASSUME LraI, [Next]_vars, NEW r \in RealVars, NEW less, NEW stack \in Seq(Implieds), ToSet(stack) \subseteq Entries(r),
         NestedStack(stack, less, r)
  PROVE  NestedStack(stack, less, r)'
<1> SUFFICES ASSUME NEW i \in DOMAIN stack, NEW j \in DOMAIN stack, i < j, ~IsObsolete(stack[j], r)'
             PROVE  /\ ~IsObsolete(stack[i], r)'
                    /\ Better(less, stack[j], stack[i])'
                    /\ NoHigher(stack[i].lit, stack[j].lit, r)'
  BY DEF NestedStack
<1>1. PICK d, e : d = stack[i] /\ e = stack[j] OBVIOUS
<1>2. d \in Entries(r) /\ e \in Entries(r) BY <1>1 DEF ToSet
<1>3. ~IsObsolete(e, r)' BY <1>1
<1>4. ~IsObsolete(e, r) BY <1>2, <1>3, StepKeepsObsolete DEF LraI
<1>5. ~IsObsolete(d, r) /\ Better(less, e, d) /\ NoHigher(d.lit, e.lit, r)
  BY <1>1, <1>4 DEF NestedStack
<1>6. ~IsObsolete(d, r)' /\ NoHigher(d.lit, e.lit, r)'
  BY <1>2, <1>3, <1>4, <1>5, LiveStays
<1>7. Better(less, e, d)'
  <2>1. EntryOK(d, r) /\ EntryOK(e, r) BY <1>2, <1>4, <1>5, LiveEntry
  <2>2. QED BY <1>5, <2>1, NextLevels, BetterStays DEF EntryOK
<1>8. QED BY <1>1, <1>6, <1>7

LEMMA PrunedNested ==
  ASSUME NEW stack \in Seq(Implieds), NEW less, NEW r, NestedStack(stack, less, r)
  PROVE  NestedStack(Pruned(stack, r), less, r)
<1>1. PICK part : part = Pruned(stack, r) OBVIOUS
<1>2. PICK m : PrunedTo(part, stack, r, m) BY <1>1, PrunedIs
<1>3. \A k \in DOMAIN part : k \in DOMAIN stack /\ part[k] = stack[k]
  BY <1>2 DEF PrunedTo
<1>4. NestedStack(part, less, r) BY <1>3 DEF NestedStack
<1>5. QED BY <1>1, <1>4

LEMMA BetterTwice ==
  ASSUME NEW less, NEW c, NEW d, NEW e, c.value \in Int, d.value \in Int, e.value \in Int,
         Better(less, e, d), Better(less, d, c)
  PROVE  Better(less, e, c)
BY DEF Better

LEMMA PushedNested ==
  ASSUME LraI, NEW r, NEW less, NEW stack \in Seq(Implieds), ToSet(stack) \subseteq Entries(r),
         NestedStack(stack, less, r), NEW lit, UnitFor(lit, r), Beats(Implied(lit, r), Pruned(stack, r), less)
  PROVE  NestedStack(Append(Pruned(stack, r), Implied(lit, r)), less, r)
<1>1. PICK part : part = Pruned(stack, r) OBVIOUS
<1>2. PICK m : PrunedTo(part, stack, r, m) /\ part \in Seq(Implieds)
  BY <1>1, PrunedIs
<1>3. PICK e : e = Implied(lit, r) OBVIOUS
<1>4. e \in Implieds /\ e.lit = lit BY <1>3, ImpliedOK DEF Implied
<1>5. PICK list : list = Append(part, e) OBVIOUS
<1>6. /\ m \in Nat /\ Len(part) = m /\ DOMAIN part = 1..m /\ DOMAIN list = 1..(m + 1) /\ list[m + 1] = e
      /\ \A k \in 1..m : list[k] = part[k] /\ part[k] \in Implieds
  <2>1. m \in Nat /\ Len(part) = m /\ DOMAIN part = 1..m
    BY <1>2 DEF PrunedTo
  <2>2. /\ DOMAIN list = 1..(Len(part) + 1) /\ list[Len(part) + 1] = e
        /\ \A k \in 1..Len(part) : list[k] = part[k]
    BY <1>2, <1>5, Appended
  <2>3. QED BY <1>2, <2>1, <2>2
<1>7. NestedStack(part, less, r) BY <1>1, PrunedNested
<1>8. ASSUME NEW i \in 1..m
      PROVE  /\ ~IsObsolete(part[i], r)
             /\ Better(less, e, part[i])
             /\ NoHigher(part[i].lit, lit, r)
  <2>1. m \in 1..m /\ part # << >> /\ Last(part) = part[m]
    BY <1>2, <1>6, <1>8 DEF Last
  <2>2. ~IsObsolete(part[m], r) BY <1>2, <1>6, <2>1 DEF PrunedTo
  <2>3. Better(less, e, part[m]) BY <1>1, <1>3, <2>1 DEF Beats
  <2>4. i = m \/ (i < m /\ i \in DOMAIN part /\ m \in DOMAIN part)
    BY <1>6, <1>8
  <2>5. ~IsObsolete(part[i], r) /\ (i = m \/ Better(less, part[m], part[i]))
    BY <1>7, <2>2, <2>4 DEF NestedStack
  <2>6. Better(less, e, part[i])
    <3>1. CASE i = m BY <2>3, <3>1
    <3>2. CASE i # m
      <4>1. e.value \in Int /\ part[m].value \in Int /\ part[i].value \in Int
        BY <1>4, <1>6, <2>1 DEF Implieds
      <4>2. QED BY <2>3, <2>5, <3>2, <4>1, BetterTwice
    <3>3. QED BY <3>1, <3>2
  <2>7. NoHigher(part[i].lit, lit, r)
    <3>1. part[i] \in Entries(r)
      <4>1. part[i] \in ToSet(stack) BY <1>2, <1>6 DEF PrunedTo, ToSet
      <4>2. QED BY <4>1
    <3>2. EntryOK(part[i], r)
      <4>1. r \in RealVars BY DEF UnitFor
      <4>2. QED BY <2>5, <3>1, <4>1, LiveEntry
    <3>3. \A s \in Members(part[i].lit, r) : var_level[s] \in 0..decision_level
      BY <3>2, MembersDefined
    <3>4. PICK t \in Members(lit, r) : var_level[t] = decision_level
      BY DEF UnitFor
    <3>5. decision_level \in Int
      BY TrailLists DEF LraI, PluginInv, TrailShape
    <3>6. QED BY <3>3, <3>4, <3>5 DEF NoHigher
  <2>8. QED BY <2>5, <2>6, <2>7
<1>9. NestedStack(list, less, r)
  <2> SUFFICES ASSUME NEW i \in DOMAIN list, NEW j \in DOMAIN list, i < j, ~IsObsolete(list[j], r)
               PROVE  /\ ~IsObsolete(list[i], r)
                      /\ Better(less, list[j], list[i])
                      /\ NoHigher(list[i].lit, list[j].lit, r)
    BY DEF NestedStack
  <2>1. i \in 1..m /\ (j = m + 1 \/ j \in 1..m) BY <1>6
  <2>2. CASE j = m + 1 BY <1>4, <1>6, <1>8, <2>1, <2>2
  <2>3. CASE j \in 1..m
    <3>1. list[i] = part[i] /\ list[j] = part[j] /\ i \in DOMAIN part /\ j \in DOMAIN part
      BY <1>6, <2>1, <2>3
    <3>2. QED BY <1>7, <3>1 DEF NestedStack
  <2>4. QED BY <2>1, <2>2, <2>3
<1>10. QED BY <1>1, <1>3, <1>5, <1>9

LEMMA NewStackNested ==
  ASSUME LraI, [Next]_vars, NEW r \in RealVars, NEW less, NEW stack \in Seq(Implieds),
         ToSet(stack) \subseteq Entries(r), NestedStack(stack, less, r), NEW list, NewStack(list, stack, less, r)
  PROVE  NestedStack(list, less, r)'
<1>1. CASE list = stack BY <1>1, StackStays
<1>2. CASE list = Pruned(stack, r)
  <2>1. NestedStack(list, less, r) /\ list \in Seq(Implieds) /\ ToSet(list) \subseteq Entries(r)
    BY <1>2, PrunedNested, PrunedElements
  <2>2. QED BY <2>1, StackStays
<1>3. ASSUME NEW lit, UnitFor(lit, r), Beats(Implied(lit, r), Pruned(stack, r), less),
             list = Append(Pruned(stack, r), Implied(lit, r)), SameTrail, UNCHANGED constraints
      PROVE  NestedStack(list, less, r)'
  <2>1. NestedStack(list, less, r) BY <1>3, PushedNested
  <2>2. UNCHANGED <<constraints, model, stamp, var_level>>
    BY <1>3 DEF SameTrail
  <2>3. QED BY <2>1, <2>2 DEF NestedStack, IsObsolete, NoHigher, Members, Better, True, Others, VarsOf, Constraint,
                      IsStrict, is_defined
<1>4. QED BY <1>1, <1>2, <1>3 DEF NewStack

LEMMA NestedNext ==
  ASSUME LraI, [Next]_vars
  PROVE  Nested'
<1> SUFFICES ASSUME NEW s \in RealVars, NEW less \in BOOLEAN, NEW new, new = StackOf(s, less)'
             PROVE  NestedStack(new, less, s)'
  BY DEF Nested
<1>1. PICK old : old = StackOf(s, less) OBVIOUS
<1>2. old \in Seq(Implieds) /\ ToSet(old) \subseteq Entries(s)
  BY <1>1 DEF LraI, StacksOK, StackOf, Entries
<1>3. NestedStack(old, less, s) BY <1>1 DEF LraI, Nested
<1>4. CASE new = old BY <1>2, <1>3, <1>4, StackStays
<1>5. ASSUME NEW r, NEW ub, NEW lb, NEW disallowed, Restacks(r, ub, lb, disallowed), new # old
      PROVE  NewStack(new, old, less, s)
  <2>1. /\ bounds' = [bounds EXCEPT ![r] = [ub |-> ub, lb |-> lb, disallowed |-> disallowed]]
        /\ r \in RealVars
        /\ NewStack(ub, bounds[r].ub, TRUE, r) /\ NewStack(lb, bounds[r].lb, FALSE, r)
    BY <1>5 DEF Restacks
  <2>2. \A t \in RealVars : bounds'[t] = IF t = r THEN [ub |-> ub, lb |-> lb, disallowed |-> disallowed] ELSE bounds[t]
    BY <2>1 DEF LraI, StacksOK
  <2>3. s = r BY <1>1, <1>5, <2>2 DEF StackOf
  <2>4. bounds'[s].ub = ub /\ bounds'[s].lb = lb BY <2>2, <2>3
  <2>5. CASE less BY <1>1, <2>1, <2>3, <2>4, <2>5 DEF StackOf
  <2>6. CASE ~less BY <1>1, <2>1, <2>3, <2>4, <2>6 DEF StackOf
  <2>7. QED BY <2>5, <2>6
<1>6. CASE new # old
  <2>1. ~(UNCHANGED bounds) BY <1>1, <1>6 DEF StackOf
  <2>2. NewStack(new, old, less, s)
    BY <1>5, <1>6, <2>1, NextBounds DEF BoundsStep
  <2>3. QED BY <1>2, <1>3, <2>2, NewStackNested
<1>7. QED BY <1>4, <1>6

LEMMA LraNext ==
  ASSUME LraI, [Next]_vars
  PROVE  LraI'
BY NextLevels, PlacesNext, FormsNext, PolysNext, StampsNext, StacksNext, WatchesNext, TellNext,
   EntriesAboutNext, NestedNext DEF LraI

\* The input: constraints, their variables by their ordinals and the watches.
LEMMA InitListed ==
  ASSUME Init
  PROVE  \A a \in DOMAIN constraints : Listing(order[a], DOMAIN constraints[a].coef)
<1> SUFFICES ASSUME NEW a \in DOMAIN constraints
             PROVE  Listing(order[a], DOMAIN constraints[a].coef)
  OBVIOUS
<1>1. PICK D : D = DOMAIN constraints[a].coef OBVIOUS
<1>2. D \in (SUBSET RealVars) \ {{}}
  BY <1>1, InitOK DEF PluginInv, ConstraintsKnown
<1>3. order[a] \in SortedBy(D, <) BY <1>1 DEF Init, Orders
<1>4. order[a] \in Bijection(1..Cardinality(D), D) BY <1>3 DEF SortedBy
<1>5. QED BY <1>1, <1>2, <1>4, SortedIsListing

\* The watches of r in the input.
LEMMA InitWatches ==
  ASSUME Init, NEW r \in RealVars
  PROVE  /\ \A a \in DOMAIN constraints : a \in Watching(watched[r]) <=> IsWatched(a, r)
         /\ Single(watched[r])
         /\ \A k \in DOMAIN watched[r] : watched[r][k].index \in DOMAIN order[watched[r][k].atom]
<1> DEFINE n == Len(constraints)
           keep == {a \in DOMAIN order : \E k \in DOMAIN order[a] : k <= 2 /\ order[a][k] = r}
<1>1. n \in Nat /\ DOMAIN constraints = 1..n /\ DOMAIN order = 1..n /\ keep \in SUBSET (1..n)
  BY InitOK DEF PluginInv, ConstraintsKnown, OrderKnown
<1>2. PICK mine : mine = Chosen([a \in 1..n |-> a], keep) OBVIOUS
<1>3. watched[r] = [k \in DOMAIN mine |-> [atom |-> mine[k], index |-> FirstIndex(order[mine[k]])]]
  <2>1. watched[r] = WatchesOf(r, order) BY DEF Init
  <2>2. [a \in DOMAIN order |-> a] = [a \in 1..n |-> a] BY <1>1
  <2>3. QED BY <1>2, <2>1, <2>2 DEF WatchesOf
<1> HIDE DEF keep
<1>4. mine \in Seq(1..n) /\ Range(mine) = keep
  BY <1>1, <1>2, ChosenPositions
<1>5. Ascending(mine, n) BY <1>1, <1>2, ChosenOnce
<1>6. /\ DOMAIN watched[r] = DOMAIN mine /\ DOMAIN mine = 1..Len(mine)
      /\ \A k \in DOMAIN mine : /\ watched[r][k].atom = mine[k]
                                /\ watched[r][k].index = FirstIndex(order[mine[k]])
                                /\ mine[k] \in 1..n
  BY <1>3, <1>4
<1>7. Watching(watched[r]) = keep BY <1>4, <1>6 DEF Watching, Range
<1>8. \A a \in DOMAIN constraints : a \in Watching(watched[r]) <=> IsWatched(a, r)
  BY <1>1, <1>7 DEF IsWatched, keep
<1>9. Single(watched[r]) BY <1>5, <1>6 DEF Single, Ascending
<1>10. \A k \in DOMAIN watched[r] : watched[r][k].index \in DOMAIN order[watched[r][k].atom]
  BY <1>1, <1>6, InitListed DEF Listing
<1>11. QED BY <1>8, <1>9, <1>10

LEMMA LraInit ==
  ASSUME Init
  PROVE  LraI
<1>1. PluginInv BY InitOK
<1>2. /\ trail = << << >> >> /\ model = [v \in Vars |-> Undef] /\ var_level = [v \in Vars |-> -1]
      /\ cursor = [level |-> 0, next |-> 0] /\ seen = << >> /\ walk = 0 /\ pc = "bcp"
      /\ blame = NoBlame
  BY DEF Init, TrailInit, unassigned
<1>3. \A v \in Vars : ~is_defined(v) BY <1>2 DEF is_defined
<1>4. /\ DOMAIN trail = {1} /\ Len(trail) = 1 /\ trail[1] = << >> /\ DOMAIN trail[1] = {}
      /\ decision_level = 0 /\ recent = << >> /\ Len(recent) = 0
  BY <1>2 DEF decision_level, recent
<1>5. LevelsOK /\ RealsFirst /\ AtomsLow
  <2>1. \A l \in DOMAIN trail : DOMAIN trail[l] = {} BY <1>4
  <2>2. var_level \in [Vars -> Int] BY <1>2
  <2>3. QED BY <1>3, <2>1, <2>2 DEF LevelsOK, RealsFirst, AtomsLow
<1>6. PlacesOK
  <2>1. DOMAIN seen = {} BY <1>2
  <2>2. QED BY <1>2, <1>4, <2>1 DEF PlacesOK
<1>7. FormsOK BY PluginAssumption DEF Init, FormsOK
<1>8. PolysOK
  <2>1. DOMAIN blame.polys = {} BY <1>2 DEF NoBlame
  <2>2. QED BY <2>1 DEF PolysOK
<1>9. StampsOK BY <1>3 DEF StampsOK
<1>10. /\ bounds = [r \in RealVars |-> [ub |-> << >>, lb |-> << >>, disallowed |-> << >>]]
  BY DEF Init, BoundsInit
<1>11. StacksOK BY <1>10 DEF StacksOK
<1>12. OrderOK
  <2>1. DOMAIN order = DOMAIN constraints BY DEF Init, Orders
  <2>2. QED BY <2>1, InitListed DEF Listing, OrderOK
<1>13. WatchesOK BY InitWatches DEF WatchesOK
<1>14. WatchesTell
  <2> SUFFICES ASSUME NEW a \in DOMAIN constraints
               PROVE  Tells(a)
    BY DEF WatchesTell
  <2>1. Listing(order[a], DOMAIN constraints[a].coef) BY InitListed
  <2>2. \A p \in 1..Len(order[a]) : ~is_defined(order[a][p])
    BY <1>3, <2>1, PluginAssumption DEF Listing
  <2>3. ~is_defined(order[a][1]) /\ (Len(order[a]) > 1 => ~is_defined(order[a][2]))
    BY <2>1, <2>2 DEF Listing
  <2>4. QED BY <2>3 DEF Tells
<1>15. EntriesAbout
  <2>1. \A r \in RealVars : Entries(r) = {} /\ ToSet(bounds[r].ub) = {} /\ ToSet(bounds[r].lb) = {}
                            /\ ToSet(bounds[r].disallowed) = {}
    BY <1>10 DEF Entries, ToSet
  <2>2. QED BY <2>1 DEF EntriesAbout
<1>16. Nested
  <2>1. \A r \in RealVars : DOMAIN bounds[r].ub = {} /\ DOMAIN bounds[r].lb = {}
    BY <1>10
  <2>2. \A r \in RealVars : \A less \in BOOLEAN : DOMAIN StackOf(r, less) = {}
    BY <2>1 DEF StackOf
  <2>3. QED BY <2>2 DEF Nested, NestedStack
<1>17. QED BY <1>1, <1>5, <1>6, <1>7, <1>8, <1>9, <1>11, <1>12, <1>13, <1>14, <1>15, <1>16 DEF LraI

-----------------------------------------------------------------------------
(* What the invariant says.                                                *)

LEMMA InvTypes ==
  ASSUME LraI
  PROVE  LraTypeOK
<1>1. Different(constraints) /\ pc \in {"bcp", "theory", "read", "check", "decide", "conflict", "learn"}
      /\ changed \subseteq RealVars /\ Len(order) = Len(constraints)
  BY DEF LraI, FormsOK, PlacesOK, PluginInv, BoundsKnown, OrderKnown
<1>2. ASSUME NEW a \in DOMAIN constraints, NEW c, c = constraints[a]
      PROVE  /\ DOMAIN c.coef \in (SUBSET RealVars) \ {{}}
             /\ c.coef \in [DOMAIN c.coef -> {1, -1}] /\ Leading(c.coef) = 1
             /\ c.pred \in {"eq", "lt", "leq"} /\ c.rhs \in Int
             /\ ToSet(order[a]) = DOMAIN c.coef
  <2>1. FormOf(c) BY <1>2, Forms DEF LraI
  <2>2. DOMAIN order = DOMAIN constraints /\ Range(order[a]) = DOMAIN c.coef
    BY <1>2 DEF LraI, PluginInv, OrderKnown, ConstraintsKnown
  <2>3. order[a] \in Seq(RealVars)
    BY <2>2 DEF LraI, PluginInv, OrderKnown
  <2>4. ToSet(order[a]) = Range(order[a]) BY <2>3 DEF ToSet, Range
  <2>5. QED BY <2>1, <2>2, <2>4 DEF FormOf
<1>3. ASSUME NEW r \in RealVars
      PROVE  /\ bounds[r].ub \in Seq(Implieds) /\ bounds[r].lb \in Seq(Implieds)
             /\ bounds[r].disallowed \in Seq(Implieds)
  BY DEF LraI, StacksOK
<1>4. ASSUME NEW r \in RealVars, NEW k \in DOMAIN watched[r]
      PROVE  watched[r][k].atom \in DOMAIN constraints /\ watched[r][k].index \in DOMAIN order[watched[r][k].atom]
  BY WatchedAtoms DEF LraI, WatchesOK
<1>5. QED BY <1>1, <1>2, <1>3, <1>4 DEF LraTypeOK

LEMMA InvWatches ==
  ASSUME LraI
  PROVE  WatchConsistency
<1> SUFFICES ASSUME quiet, NEW a \in DOMAIN constraints, NEW vs, vs = order[a]
             PROVE  /\ is_defined(vs[1]) => \A p \in DOMAIN vs : is_defined(vs[p])
                    /\ Len(vs) > 1 /\ is_defined(vs[2]) => \A p \in 3..Len(vs) : is_defined(vs[p])
                    /\ \A p \in DOMAIN vs : p <= 2 => \E k \in DOMAIN watched[vs[p]] : watched[vs[p]][k].atom = a
  BY DEF WatchConsistency
<1>1. ~Due(vs[1], a) /\ ~Due(vs[2], a) BY NothingDue DEF quiet
<1>2. Tells(a) BY DEF LraI, WatchesTell
<1>3. vs \in Seq(RealVars)
  BY DEF LraI, PluginInv, OrderKnown, ConstraintsKnown
<1>4. ASSUME NEW p \in DOMAIN vs, p <= 2
      PROVE  \E k \in DOMAIN watched[vs[p]] : watched[vs[p]][k].atom = a
  <2>1. PICK r \in RealVars : r = vs[p] BY <1>3
  <2>2. IsWatched(a, r) BY <1>4, <2>1 DEF IsWatched
  <2>3. a \in Watching(watched[r]) BY <2>2 DEF LraI, WatchesOK
  <2>4. QED BY <2>1, <2>3 DEF Watching
<1>5. QED BY <1>1, <1>2, <1>4 DEF Tells

LEMMA InvStacks ==
  ASSUME LraI
  PROVE  StacksAreNested
<1> SUFFICES ASSUME NEW r \in RealVars, NEW less \in BOOLEAN, NEW stack,
                    stack = IF less THEN bounds[r].ub ELSE bounds[r].lb,
                    NEW k \in DOMAIN stack, ~IsObsolete(stack[k], r), k # 1
             PROVE  /\ k - 1 \in DOMAIN stack /\ ~IsObsolete(stack[k - 1], r)
                    /\ Better(less, stack[k], stack[k - 1])
  BY DEF StacksAreNested
<1>1. stack \in Seq(Implieds) BY DEF LraI, StacksOK
<1>2. k - 1 \in DOMAIN stack /\ k - 1 < k BY <1>1
<1>3. NestedStack(stack, less, r) BY DEF LraI, Nested, StackOf
<1>4. QED BY <1>2, <1>3 DEF NestedStack

-----------------------------------------------------------------------------
\* For every input and every behaviour of the loop around the plugin, the constraints
\* stay in normal form and different, and between two rounds the watched positions
\* tell how much of a constraint is assigned: the assertions of check_watch_consistency,
\* and what makes reading two positions of a constraint enough for is_unit.
THEOREM PluginIsSound == Spec => []LraInv
<1>1. Init => LraI BY LraInit
<1>2. LraI /\ [Next]_vars => LraI' BY LraNext
<1>3. LraI => LraInv BY InvTypes, InvWatches DEF LraInv
<1>4. QED BY <1>1, <1>2, <1>3, PTL DEF Spec

\* The entries in force of a stack lie below the obsolete ones, each better than the
\* one below it: pruning a stack from the top, as remove_obsolete does, loses no bound
\* in force, and the top that is left is the tightest.
THEOREM StacksStayNested == Spec => []StacksAreNested
<1>1. Init => LraI BY LraInit
<1>2. LraI /\ [Next]_vars => LraI' BY LraNext
<1>3. LraI => StacksAreNested BY InvStacks
<1>4. QED BY <1>1, <1>2, <1>3, PTL DEF Spec
-----------------------------------------------------------------------------
(* The values: what constraints imply, what is on the stacks and what they *)
(* are when all is assigned.                                               *)

ValuesInv ==
  /\ LraI
  /\ TruthsOK /\ ValuesAgree /\ ValuesGiven
  /\ EntriesRight /\ UnitsCovered

\* What lit says of r does not change.
SaysSame(lit, r) ==
  /\ ValueFor(lit, r)' = ValueFor(lit, r)
  /\ VarsOf(lit)' = VarsOf(lit) /\ Others(lit, r)' = Others(lit, r) /\ Members(lit, r)' = Members(lit, r)
  /\ IsStrict(lit)' = IsStrict(lit) /\ IsInequality(lit)' = IsInequality(lit)
  /\ BoundsFromAbove(lit, r)' = BoundsFromAbove(lit, r)
  /\ BoundsFromBelow(lit, r)' = BoundsFromBelow(lit, r)

LEMMA LitSame ==
  ASSUME LraI, [Next]_vars, NEW lit, AtomOf(lit) \in DOMAIN constraints, NEW r,
         \A s \in Others(lit, r) : is_defined(s) /\ is_defined(s)'
  PROVE  SaysSame(lit, r)
<1>1. Kept /\ TrailStep BY NextLevels
<1>2. PICK c : c = Constraint(lit) OBVIOUS
<1>3. Constraint(lit)' = c BY <1>1, <1>2 DEF Kept, Constraint
<1>4. DOMAIN c.coef \subseteq RealVars /\ DOMAIN c.coef = VarsOf(lit)
  BY <1>2 DEF LraI, PluginInv, ConstraintsKnown, Constraint, VarsOf
<1>5. \A s \in DOMAIN c.coef \ {r} : model'[s] = model[s]
  <2> SUFFICES ASSUME NEW s \in DOMAIN c.coef \ {r}
               PROVE  model'[s] = model[s]
    OBVIOUS
  <2>1. s \in Vars /\ s \in Others(lit, r)
    BY <1>4, PluginAssumption DEF Others
  <2>2. is_defined(s) /\ is_defined(s)' BY <2>1
  <2>3. QED BY <1>1, <2>1, <2>2, StepSame
<1>6. PICK now : now = model' OBVIOUS
<1>7. WeightedSum(c.coef, DOMAIN c.coef \ {r}, now) = WeightedSum(c.coef, DOMAIN c.coef \ {r}, model)
  <2>1. \A s \in DOMAIN c.coef \ {r} : now[s] = model[s] BY <1>5, <1>6
  <2>2. QED BY <2>1, SumSame
<1>8. ValueFor(lit, r)' = ValueFor(lit, r)
  BY <1>2, <1>3, <1>6, <1>7 DEF ValueFor, ImpliedValue
<1>9. VarsOf(lit)' = VarsOf(lit) BY <1>2, <1>3 DEF VarsOf
<1>10. Others(lit, r)' = Others(lit, r) /\ Members(lit, r)' = Members(lit, r)
  BY <1>9 DEF Others, Members
<1>11. IsStrict(lit)' = IsStrict(lit) /\ IsInequality(lit)' = IsInequality(lit)
  BY <1>2, <1>3 DEF IsStrict, IsInequality
<1>12. BoundsFromAbove(lit, r)' = BoundsFromAbove(lit, r)
  BY <1>2, <1>3 DEF BoundsFromAbove, IsEquality
<1>13. BoundsFromBelow(lit, r)' = BoundsFromBelow(lit, r)
  BY <1>2, <1>3 DEF BoundsFromBelow, IsEquality
<1>14. QED BY <1>8, <1>9, <1>10, <1>11, <1>12, <1>13 DEF SaysSame

-----------------------------------------------------------------------------
(* Entries have the value their constraints imply.                         *)

\* A new entry is in force.
LEMMA ImpliedLive ==
  ASSUME LraI, TruthsOK, NEW lit, NEW r, UnitFor(lit, r)
  PROVE  ~IsObsolete(Implied(lit, r), r) /\ Implied(lit, r).value = ValueFor(lit, r)
         /\ Implied(lit, r).lit = lit
<1> DEFINE e == Implied(lit, r)
           times == {0} \cup {stamp[s] : s \in Others(lit, r)}
<1>1. PICK a : a = AtomOf(lit) OBVIOUS
<1>2. e.lit = lit /\ e.value = ValueFor(lit, r) /\ e.cons_time = stamp[a] /\ e.var_time = Max(times)
  BY <1>1 DEF Implied, ValueFor
<1>3. a \in DOMAIN constraints /\ is_defined(a) /\ lit = TrueLit(a) /\ \A s \in Others(lit, r) : is_defined(s)
  BY <1>1 DEF UnitFor
<1>4. AtomFact(a) BY <1>3, AtomFacts DEF LraI
<1>5. True(lit)
  <2>1. model[a] \in {Truth(TRUE), Truth(FALSE)} BY <1>3 DEF TruthsOK
  <2>2. lit = (IF model[a] = Truth(a > 0) THEN a ELSE -a)
    BY <1>3, <1>4 DEF TrueLit, True, AtomFact
  <2>3. a > 0 /\ ~(-a > 0) /\ a \in Nat BY <1>4 DEF AtomFact
  <2>4. model[a] = Truth(lit > 0) BY <2>1, <2>2, <2>3 DEF Truth
  <2>5. QED BY <1>1, <2>4 DEF True
<1>6. ~(stamp[a] > stamp[a])
  <2>1. stamp[a] \in Nat BY <1>3, <1>4 DEF LraI, StampsOK, AtomFact
  <2>2. QED BY <2>1
<1>7. \A s \in Others(lit, r) : s \in Vars /\ stamp[s] \in Nat
  <2>1. VarsOf(lit) = DOMAIN constraints[a].coef
    BY <1>1 DEF VarsOf, Constraint
  <2>2. VarsOf(lit) \subseteq Vars BY <1>4, <2>1 DEF AtomFact
  <2>3. \A s \in Others(lit, r) : s \in Vars BY <2>2 DEF Others
  <2>4. QED BY <1>3, <2>3 DEF LraI, StampsOK
<1>8. \A s \in Others(lit, r) : ~(stamp[s] > Max(times))
  <2>1. times \in SUBSET Int /\ times # {} /\ clock.real \in Int
    BY <1>7 DEF LraI, PluginInv, TimesOK
  <2>2. \A x \in times : x <= clock.real
    <3>1. clock.real \in Nat BY DEF LraI, PluginInv, TimesOK
    <3>2. ASSUME NEW s \in Others(lit, r)
          PROVE  stamp[s] <= clock.real
      <4>1. s \in RealVars
        <5>1. VarsOf(lit) = DOMAIN constraints[a].coef
          BY <1>1 DEF VarsOf, Constraint
        <5>2. QED BY <1>4, <5>1 DEF AtomFact, Others
      <4>2. stamp[s] < clock.real
        BY <1>7, <4>1 DEF LraI, PluginInv, TimesOK, ModelOf
      <4>3. QED BY <1>7, <3>1, <4>2
    <3>3. QED BY <3>1, <3>2
  <2> HIDE DEF times
  <2>3. Max(times) \in times /\ \A x \in times : x <= Max(times)
    BY <2>1, <2>2, MaxIs
  <2>4. \A s \in Others(lit, r) : stamp[s] \in times BY DEF times
  <2>5. PICK m : m = Max(times) OBVIOUS
  <2>6. m \in Int /\ \A x \in times : x <= m BY <2>1, <2>3, <2>5
  <2>7. \A s \in Others(lit, r) : ~(stamp[s] > m) BY <1>7, <2>4, <2>6
  <2>8. QED BY <2>5, <2>7
<1> HIDE DEF times, e
<1>9. ~IsObsolete(e, r)
  BY <1>1, <1>2, <1>3, <1>5, <1>6, <1>8 DEF IsObsolete
<1>10. QED BY <1>2, <1>9 DEF e

\* Where an entry comes from.
LEMMA EntryFrom ==
  ASSUME LraI, [Next]_vars, NEW r \in RealVars, NEW e, e \in Entries(r)'
  PROVE  \/ e \in Entries(r)
         \/ \E lit : UnitFor(lit, r) /\ e = Implied(lit, r) /\ SameTrail /\ UNCHANGED constraints
<1>1. CASE UNCHANGED bounds BY <1>1 DEF Entries
<1>2. ASSUME NEW s, NEW ub, NEW lb, NEW disallowed, Restacks(s, ub, lb, disallowed)
      PROVE  \/ e \in Entries(r)
             \/ \E lit : UnitFor(lit, r) /\ e = Implied(lit, r) /\ SameTrail /\ UNCHANGED constraints
  <2>1. bounds' = [bounds EXCEPT ![s] = [ub |-> ub, lb |-> lb, disallowed |-> disallowed]] /\ s \in RealVars
    BY <1>2 DEF Restacks
  <2>2. bounds'[r] = IF r = s THEN [ub |-> ub, lb |-> lb, disallowed |-> disallowed] ELSE bounds[r]
    BY <2>1 DEF LraI, StacksOK
  <2>3. CASE r # s BY <2>2, <2>3 DEF Entries
  <2>4. CASE r = s
    <3>1. e \in ToSet(ub) \/ e \in ToSet(lb) \/ e \in ToSet(disallowed)
      BY <2>2, <2>4 DEF Entries
    <3>2. bounds[r].ub \in Seq(Implieds) /\ bounds[r].lb \in Seq(Implieds) /\ bounds[r].disallowed \in Seq(Implieds)
      BY DEF LraI, StacksOK
    <3>3. ASSUME NEW stack \in Seq(Implieds), ToSet(stack) \subseteq Entries(r), NEW less, NEW list,
                 NewStack(list, stack, less, r), e \in ToSet(list)
          PROVE  \/ e \in Entries(r)
                 \/ \E lit : UnitFor(lit, r) /\ e = Implied(lit, r) /\ SameTrail /\ UNCHANGED constraints
      <4>1. CASE list = stack BY <3>3, <4>1
      <4>2. ToSet(Pruned(stack, r)) \subseteq ToSet(stack) /\ Pruned(stack, r) \in Seq(Implieds)
        BY PrunedElements
      <4>3. CASE list = Pruned(stack, r) BY <3>3, <4>2, <4>3
      <4>4. ASSUME NEW lit, UnitFor(lit, r), list = Append(Pruned(stack, r), Implied(lit, r)), SameTrail, UNCHANGED constraints
            PROVE  \/ e \in Entries(r)
                   \/ \E k : UnitFor(k, r) /\ e = Implied(k, r) /\ SameTrail /\ UNCHANGED constraints
        <5>1. PICK part, new : part = Pruned(stack, r) /\ new = Implied(lit, r)
          OBVIOUS
        <5>2. list = Append(part, new) /\ part \in Seq(Implieds) /\ ToSet(part) \subseteq Entries(r)
          BY <3>3, <4>2, <4>4, <5>1
        <5>3. /\ DOMAIN list = 1..(Len(part) + 1) /\ list[Len(part) + 1] = new
              /\ \A k \in 1..Len(part) : list[k] = part[k]
          BY <5>2, Appended
        <5>4. DOMAIN part = 1..Len(part) /\ Len(part) \in Nat BY <5>2
        <5>5. e = new \/ e \in ToSet(part) BY <3>3, <5>3, <5>4 DEF ToSet
        <5>6. QED BY <4>4, <5>1, <5>2, <5>5
      <4>5. QED BY <3>3, <4>1, <4>3, <4>4 DEF NewStack
    <3>4. CASE e \in ToSet(ub)
      BY <1>2, <2>4, <3>2, <3>3, <3>4 DEF Restacks, Entries
    <3>5. CASE e \in ToSet(lb)
      BY <1>2, <2>4, <3>2, <3>3, <3>5 DEF Restacks, Entries
    <3>6. CASE e \in ToSet(disallowed)
      <4>1. PICK old : old = bounds[r].disallowed OBVIOUS
      <4>2. NewList(disallowed, old, r) /\ old \in Seq(Implieds) /\ ToSet(old) \subseteq Entries(r)
        BY <1>2, <2>4, <3>2, <4>1 DEF Restacks, Entries
      <4>3. CASE disallowed = old BY <3>6, <4>2, <4>3
      <4>4. ToSet(InForce(old, r)) \subseteq ToSet(old) /\ InForce(old, r) \in Seq(Implieds)
        BY <4>2, InForceElements
      <4>5. CASE disallowed = InForce(old, r) BY <3>6, <4>2, <4>4, <4>5
      <4>6. ASSUME NEW lit, UnitFor(lit, r), disallowed = Append(InForce(old, r), Implied(lit, r)), SameTrail, UNCHANGED constraints
            PROVE  \/ e \in Entries(r)
                   \/ \E k : UnitFor(k, r) /\ e = Implied(k, r) /\ SameTrail /\ UNCHANGED constraints
        <5>1. PICK part, new : part = InForce(old, r) /\ new = Implied(lit, r)
          OBVIOUS
        <5>2. disallowed = Append(part, new) /\ part \in Seq(Implieds) /\ ToSet(part) \subseteq Entries(r)
          BY <4>2, <4>4, <4>6, <5>1
        <5>3. /\ DOMAIN disallowed = 1..(Len(part) + 1) /\ disallowed[Len(part) + 1] = new
              /\ \A k \in 1..Len(part) : disallowed[k] = part[k]
          BY <5>2, Appended
        <5>4. DOMAIN part = 1..Len(part) /\ Len(part) \in Nat BY <5>2
        <5>5. e = new \/ e \in ToSet(part) BY <3>6, <5>3, <5>4 DEF ToSet
        <5>6. QED BY <4>6, <5>1, <5>2, <5>5
      <4>7. QED BY <4>2, <4>3, <4>5, <4>6 DEF NewList
    <3>7. QED BY <3>1, <3>4, <3>5, <3>6
  <2>5. QED BY <2>3, <2>4
<1>3. QED BY <1>1, <1>2, NextBounds DEF BoundsStep

LEMMA EntriesRightNext ==
  ASSUME ValuesInv, [Next]_vars
  PROVE  EntriesRight'
<1> SUFFICES ASSUME NEW r \in RealVars, NEW e, e \in Entries(r)', ~IsObsolete(e, r)'
             PROVE  e.value = ValueFor(e.lit, r)'
  BY DEF EntriesRight
<1>1. LraI /\ TruthsOK BY DEF ValuesInv
<1>2. CASE e \in Entries(r)
  <2>1. ~IsObsolete(e, r) BY <1>1, <1>2, StepKeepsObsolete DEF LraI
  <2>2. EntryOK(e, r) BY <1>1, <1>2, <2>1, LiveEntry
  <2>3. e.value = ValueFor(e.lit, r)
    BY <1>2, <2>1 DEF ValuesInv, EntriesRight
  <2>4. Others(e.lit, r)' = Others(e.lit, r)
    BY <1>1, <2>2, NextLevels, OthersStay DEF EntryOK
  <2>5. \A s \in Others(e.lit, r) : is_defined(s) /\ is_defined(s)'
    BY <2>2, <2>4 DEF EntryOK, IsObsolete
  <2>6. PICK lit : lit = e.lit OBVIOUS
  <2>7. SaysSame(lit, r) BY <1>1, <2>2, <2>5, <2>6, LitSame DEF EntryOK
  <2>8. QED BY <2>3, <2>6, <2>7 DEF SaysSame
<1>3. ASSUME NEW lit, UnitFor(lit, r), e = Implied(lit, r), SameTrail, UNCHANGED constraints
      PROVE  e.value = ValueFor(e.lit, r)'
  <2>1. e.value = ValueFor(lit, r) /\ e.lit = lit
    BY <1>1, <1>3, ImpliedLive
  <2>2. ValueFor(lit, r)' = ValueFor(lit, r)
    BY <1>3 DEF SameTrail, ValueFor, ImpliedValue, Constraint
  <2>3. QED BY <2>1, <2>2
<1>4. QED BY <1>1, <1>2, <1>3, EntryFrom
-----------------------------------------------------------------------------
(* What covers a constraint stays.                                         *)

\* The variables a literal is about keep their values.
Settled(lit, r) ==
  /\ AtomOf(lit) \in DOMAIN constraints
  /\ \A m \in Members(lit, r) : m \in Vars /\ is_defined(m) /\ model'[m] # Undef

\* What an entry needs goes no sooner than what it serves.
LEMMA ServesStays ==
  ASSUME LraI, [Next]_vars, NEW r \in RealVars, NEW d \in Entries(r), NEW lit, Settled(lit, r),
         Serves(d, lit, r)
  PROVE  SaysSame(lit, r) /\ Serves(d, lit, r)'
<1>1. TrailStep /\ Kept BY NextLevels
<1>2. EntryOK(d, r) /\ ~IsObsolete(d, r) /\ NoHigher(d.lit, lit, r)
  BY LiveEntry DEF Serves
<1> DEFINE D == Members(d.lit, r)
           E == Members(lit, r)
<1>3. SaysSame(lit, r)
  <2>1. \A s \in Others(lit, r) : is_defined(s) /\ is_defined(s)'
    BY DEF Settled, Members, is_defined
  <2>2. QED BY <2>1, LitSame DEF Settled
<1>4. Members(d.lit, r)' = D /\ Members(lit, r)' = E
  BY <1>1, <1>2, <1>3, MembersDefined DEF SaysSame
<1>5. \A m \in D : m \in Vars /\ is_defined(m) BY <1>2, MembersDefined
<1>6. \A m \in E : m \in Vars /\ is_defined(m) /\ is_defined(m)'
  BY DEF Settled, is_defined
<1>7. ASSUME NEW m \in D
      PROVE  /\ is_defined(m)' /\ model'[m] = model[m] /\ stamp'[m] = stamp[m]
             /\ var_level'[m] = var_level[m]
             /\ \E t \in E : var_level'[m] <= var_level'[t]
  <2>1. PICK t \in E : var_level[m] <= var_level[t] BY <1>2 DEF NoHigher
  <2>2. m \in Vars /\ t \in Vars /\ is_defined(m) /\ is_defined(t) /\ is_defined(t)'
    BY <1>5, <1>6, <1>7, <2>1
  <2>3. is_defined(m)' /\ var_level'[m] = var_level[m] /\ var_level'[t] = var_level[t]
    BY <1>1, <2>1, <2>2, LowerStays
  <2>4. model'[m] = model[m] /\ stamp'[m] = stamp[m]
    BY <1>1, <2>2, <2>3, StepSame
  <2>5. QED BY <2>1, <2>3, <2>4
<1>8. NoHigher(d.lit, lit, r)' BY <1>4, <1>7 DEF NoHigher
<1>9. ~IsObsolete(d, r)'
  <2>1. Others(d.lit, r)' = Others(d.lit, r)
    BY <1>1, <1>2, OthersStay DEF EntryOK
  <2>2. AtomOf(d.lit) \in D /\ Others(d.lit, r) \subseteq D
    BY DEF Members
  <2>3. True(d.lit)'
    <3>1. True(d.lit) BY <1>2 DEF IsObsolete
    <3>2. QED BY <1>7, <2>2, <3>1 DEF True
  <2>4. ~(stamp'[AtomOf(d.lit)] > d.cons_time)
    BY <1>2, <1>7, <2>2 DEF IsObsolete
  <2>5. \A s \in Others(d.lit, r) : is_defined(s)' /\ ~(stamp'[s] > d.var_time)
    BY <1>2, <1>7, <2>2 DEF IsObsolete
  <2>6. QED BY <2>1, <2>3, <2>4, <2>5 DEF IsObsolete
<1>10. QED BY <1>3, <1>8, <1>9 DEF Serves

\* Entries in force are left.
LEMMA StackKeeps ==
  ASSUME NEW stack \in Seq(Implieds), NEW less, NEW r, NEW list, NewStack(list, stack, less, r),
         NEW e \in ToSet(stack), ~IsObsolete(e, r)
  PROVE  e \in ToSet(list)
<1>1. PICK part : part = Pruned(stack, r) OBVIOUS
<1>2. PICK m : PrunedTo(part, stack, r, m) /\ part \in Seq(Implieds)
  BY <1>1, PrunedIs
<1>3. PICK k \in DOMAIN stack : stack[k] = e BY DEF ToSet
<1>4. k \in 1..m
  <2>1. m \in 0..Len(stack) /\ Len(stack) \in Nat /\ DOMAIN stack = 1..Len(stack)
        /\ \A i \in 1..Len(stack) : i > m => IsObsolete(stack[i], r)
    BY <1>2 DEF PrunedTo
  <2>2. ~(k > m) BY <1>3, <2>1
  <2>3. QED BY <2>1, <2>2
<1>5. DOMAIN part = 1..m /\ part[k] = e /\ Len(part) = m /\ m \in Nat
  BY <1>2, <1>3, <1>4 DEF PrunedTo
<1>6. e \in ToSet(part) BY <1>4, <1>5 DEF ToSet
<1>7. ASSUME NEW new, list = Append(part, new)
      PROVE  e \in ToSet(list)
  <2>1. DOMAIN list = 1..(Len(part) + 1) /\ \A i \in 1..Len(part) : list[i] = part[i]
    BY <1>2, <1>7, Appended
  <2>2. k \in DOMAIN list /\ list[k] = e BY <1>4, <1>5, <2>1
  <2>3. QED BY <2>2 DEF ToSet
<1>8. QED BY <1>1, <1>6, <1>7 DEF NewStack

LEMMA ListKeeps ==
  ASSUME NEW old \in Seq(Implieds), NEW r, NEW list, NewList(list, old, r),
         NEW e \in ToSet(old), ~IsObsolete(e, r)
  PROVE  e \in ToSet(list)
<1>1. PICK part : part = InForce(old, r) OBVIOUS
<1>2. part \in Seq(Implieds) /\ e \in ToSet(part) BY <1>1, InForceIs
<1>3. ASSUME NEW new, list = Append(part, new)
      PROVE  e \in ToSet(list)
  <2>1. DOMAIN list = 1..(Len(part) + 1) /\ \A i \in 1..Len(part) : list[i] = part[i]
    BY <1>2, <1>3, Appended
  <2>2. PICK k \in DOMAIN part : part[k] = e BY <1>2 DEF ToSet
  <2>3. DOMAIN part = 1..Len(part) /\ Len(part) \in Nat BY <1>2
  <2>4. k \in DOMAIN list /\ list[k] = e BY <2>1, <2>2, <2>3
  <2>5. QED BY <2>4 DEF ToSet
<1>4. QED BY <1>1, <1>2, <1>3 DEF NewList

LEMMA LiveIsLeft ==
  ASSUME LraI, [Next]_vars, NEW r \in RealVars, NEW e, ~IsObsolete(e, r)
  PROVE  /\ \A less \in BOOLEAN : e \in ToSet(StackOf(r, less)) => e \in ToSet(StackOf(r, less))'
         /\ e \in ToSet(bounds[r].disallowed) => e \in ToSet(bounds'[r].disallowed)
<1>1. CASE UNCHANGED bounds BY <1>1 DEF StackOf
<1>2. ASSUME NEW s, NEW ub, NEW lb, NEW disallowed, Restacks(s, ub, lb, disallowed)
      PROVE  /\ e \in ToSet(bounds[r].ub) => e \in ToSet(bounds'[r].ub)
             /\ e \in ToSet(bounds[r].lb) => e \in ToSet(bounds'[r].lb)
             /\ e \in ToSet(bounds[r].disallowed) => e \in ToSet(bounds'[r].disallowed)
  <2>1. bounds' = [bounds EXCEPT ![s] = [ub |-> ub, lb |-> lb, disallowed |-> disallowed]] /\ s \in RealVars
    BY <1>2 DEF Restacks
  <2>2. bounds'[r] = IF r = s THEN [ub |-> ub, lb |-> lb, disallowed |-> disallowed] ELSE bounds[r]
    BY <2>1 DEF LraI, StacksOK
  <2>3. CASE r # s BY <2>2, <2>3
  <2>4. CASE r = s
    <3>1. bounds[r].ub \in Seq(Implieds) /\ bounds[r].lb \in Seq(Implieds) /\ bounds[r].disallowed \in Seq(Implieds)
      BY DEF LraI, StacksOK
    <3>2. /\ NewStack(ub, bounds[r].ub, TRUE, r) /\ NewStack(lb, bounds[r].lb, FALSE, r)
          /\ NewList(disallowed, bounds[r].disallowed, r)
      BY <1>2, <2>4 DEF Restacks
    <3>3. bounds'[r].ub = ub /\ bounds'[r].lb = lb /\ bounds'[r].disallowed = disallowed
      BY <2>2, <2>4
    <3>4. e \in ToSet(bounds[r].ub) => e \in ToSet(ub)
      BY <3>1, <3>2, StackKeeps
    <3>5. e \in ToSet(bounds[r].lb) => e \in ToSet(lb)
      BY <3>1, <3>2, StackKeeps
    <3>6. e \in ToSet(bounds[r].disallowed) => e \in ToSet(disallowed)
      BY <3>1, <3>2, ListKeeps
    <3>7. QED BY <3>3, <3>4, <3>5, <3>6
  <2>5. QED BY <2>3, <2>4
<1>3. QED BY <1>1, <1>2, NextBounds DEF BoundsStep, StackOf

\* e is no worse than what lit says.
NoWorse(less, e, lit, r) == ~Better(less, [value |-> ValueFor(lit, r), lit |-> lit], e)

LEMMA NoWorseStays ==
  ASSUME LraI, [Next]_vars, NEW r \in RealVars, NEW e, AtomOf(e.lit) \in DOMAIN constraints,
         NEW lit, SaysSame(lit, r), NEW less, NoWorse(less, e, lit, r)
  PROVE  NoWorse(less, e, lit, r)'
<1>1. IsStrict(e.lit)' = IsStrict(e.lit)
  BY NextLevels DEF Kept, IsStrict, Constraint
<1>2. ValueFor(lit, r)' = ValueFor(lit, r) /\ IsStrict(lit)' = IsStrict(lit)
  BY DEF SaysSame
<1>3. PICK v : v = ValueFor(lit, r) OBVIOUS
<1>4. ValueFor(lit, r)' = v BY <1>2, <1>3
<1>5. QED BY <1>1, <1>2, <1>3, <1>4 DEF NoWorse, Better

LEMMA CoveredStays ==
  ASSUME LraI, [Next]_vars, NEW r \in RealVars, NEW lit, Settled(lit, r), Covered(lit, r)
  PROVE  Covered(lit, r)'
<1>1. SaysSame(lit, r)
  <2>1. \A s \in Others(lit, r) : is_defined(s) /\ is_defined(s)'
    BY DEF Settled, Members, is_defined
  <2>2. QED BY <2>1, LitSame DEF Settled
<1>2. ASSUME NEW less \in BOOLEAN, ServedBy(less, lit, r)
      PROVE  ServedBy(less, lit, r)'
  <2>1. PICK e \in ToSet(StackOf(r, less)) : Serves(e, lit, r) /\ NoWorse(less, e, lit, r)
    BY <1>2 DEF ServedBy, NoWorse
  <2>2. e \in Entries(r) /\ ~IsObsolete(e, r)
    BY <2>1 DEF StackOf, Entries, Serves
  <2>3. Serves(e, lit, r)' BY <2>1, <2>2, ServesStays
  <2>4. e \in ToSet(StackOf(r, less))' BY <2>2, LiveIsLeft
  <2>5. NoWorse(less, e, lit, r)'
    BY <1>1, <2>1, <2>2, NoWorseStays, LiveEntry DEF EntryOK
  <2>6. QED BY <2>3, <2>4, <2>5 DEF ServedBy, NoWorse
<1>3. ASSUME IsInequality(lit)
      PROVE  \E e \in ToSet(bounds'[r].disallowed) : Serves(e, lit, r)' /\ e.value = ValueFor(lit, r)'
  <2>1. PICK e \in ToSet(bounds[r].disallowed) : Serves(e, lit, r) /\ e.value = ValueFor(lit, r)
    BY <1>3 DEF Covered
  <2>2. e \in Entries(r) /\ ~IsObsolete(e, r)
    BY <2>1 DEF Entries, Serves
  <2>3. Serves(e, lit, r)' BY <2>1, <2>2, ServesStays
  <2>4. e \in ToSet(bounds'[r].disallowed) BY <2>1, <2>2, LiveIsLeft
  <2>5. QED BY <1>1, <2>1, <2>3, <2>4 DEF SaysSame
<1>4. QED BY <1>1, <1>2, <1>3 DEF Covered, SaysSame
-----------------------------------------------------------------------------
(* What update puts on the stacks.                                         *)

\* A literal whose other variables have values.
LitMembers(lit, r) ==
  /\ AtomOf(lit) \in DOMAIN constraints /\ r \in VarsOf(lit)
  /\ \A m \in Members(lit, r) : m \in Vars /\ is_defined(m) /\ var_level[m] \in 0..decision_level

LEMMA UnitMembers ==
  ASSUME LraI, NEW lit, NEW r, UnitFor(lit, r)
  PROVE  LitMembers(lit, r)
<1>1. PICK a : a = AtomOf(lit) OBVIOUS
<1>2. a \in DOMAIN constraints /\ is_defined(a) /\ \A s \in Others(lit, r) : is_defined(s)
  BY <1>1 DEF UnitFor
<1>3. AtomFact(a) BY <1>2, AtomFacts DEF LraI
<1>4. Others(lit, r) \subseteq Vars
  <2>1. VarsOf(lit) = DOMAIN constraints[a].coef
    BY <1>1 DEF VarsOf, Constraint
  <2>2. QED BY <1>3, <2>1 DEF AtomFact, Others
<1>5. \A m \in Members(lit, r) : m \in Vars /\ is_defined(m)
  BY <1>1, <1>2, <1>3, <1>4 DEF Members, AtomFact
<1>6. QED BY <1>5 DEF LitMembers, UnitFor, LraI, LevelsOK

LEMMA NoHigherSelf ==
  ASSUME NEW lit, NEW r, LitMembers(lit, r)
  PROVE  NoHigher(lit, lit, r)
<1>1. \A m \in Members(lit, r) : var_level[m] <= var_level[m]
  BY DEF LitMembers
<1>2. QED BY <1>1 DEF NoHigher

\* What is read of an entry while the trail does not change.
SeenSame(lit, r, e) ==
  /\ SaysSame(lit, r)
  /\ IsObsolete(e, r)' = IsObsolete(e, r) /\ NoHigher(e.lit, lit, r)' = NoHigher(e.lit, lit, r)
  /\ \A less : NoWorse(less, e, lit, r)' = NoWorse(less, e, lit, r)

LEMMA SameTrailSeen ==
  ASSUME SameTrail, UNCHANGED constraints, NEW lit, NEW r, NEW e
  PROVE  SeenSame(lit, r, e)
<1>1. Constraint(lit)' = Constraint(lit) /\ Constraint(e.lit)' = Constraint(e.lit)
  BY DEF Constraint
<1>2. /\ VarsOf(lit)' = VarsOf(lit) /\ Others(lit, r)' = Others(lit, r) /\ Members(lit, r)' = Members(lit, r)
      /\ IsStrict(lit)' = IsStrict(lit) /\ IsInequality(lit)' = IsInequality(lit)
      /\ BoundsFromAbove(lit, r)' = BoundsFromAbove(lit, r)
      /\ BoundsFromBelow(lit, r)' = BoundsFromBelow(lit, r)
  BY <1>1 DEF VarsOf, Others, Members, IsStrict, IsInequality, IsEquality, BoundsFromAbove, BoundsFromBelow
<1>3. ValueFor(lit, r)' = ValueFor(lit, r)
  <2>1. PICK c : c = Constraint(lit) OBVIOUS
  <2>2. PICK rho : rho = model OBVIOUS
  <2>3. Constraint(lit)' = c /\ model' = rho
    BY <1>1, <2>1, <2>2 DEF SameTrail
  <2>4. ValueFor(lit, r) = ImpliedValue(lit, r, rho) /\ ValueFor(lit, r)' = ImpliedValue(lit, r, rho)'
    BY <2>2, <2>3 DEF ValueFor
  <2>5. QED BY <2>1, <2>3, <2>4 DEF ImpliedValue
<1>4. IsObsolete(e, r)' = IsObsolete(e, r)
  BY <1>1 DEF IsObsolete, True, Others, VarsOf, SameTrail, is_defined
<1>5. NoHigher(e.lit, lit, r)' = NoHigher(e.lit, lit, r)
  BY <1>1, <1>2 DEF NoHigher, Members, Others, VarsOf, SameTrail
<1>6. \A less : NoWorse(less, e, lit, r)' = NoWorse(less, e, lit, r)
  <2>1. IsStrict(e.lit)' = IsStrict(e.lit) BY <1>1 DEF IsStrict
  <2>2. PICK v : v = ValueFor(lit, r) OBVIOUS
  <2>3. ValueFor(lit, r)' = v BY <1>3, <2>2
  <2>4. QED BY <1>2, <2>1, <2>2, <2>3 DEF NoWorse, Better
<1>7. QED BY <1>2, <1>3, <1>4, <1>5, <1>6 DEF SeenSame, SaysSame

\* Of a bound that is pushed and one that keeps it off, one serves.
LEMMA PushServes ==
  ASSUME LraI, TruthsOK, NEW lit, NEW r, UnitFor(lit, r), NEW less \in BOOLEAN,
         NEW list, list = Push(Pruned(StackOf(r, less), r), less, Implied(lit, r))
  PROVE  \E e \in ToSet(list) : Serves(e, lit, r) /\ NoWorse(less, e, lit, r)
<1>1. PICK stack : stack = StackOf(r, less) OBVIOUS
<1>2. stack \in Seq(Implieds) /\ r \in RealVars
  BY <1>1 DEF LraI, StacksOK, StackOf, UnitFor
<1>3. PICK part : part = Pruned(stack, r) OBVIOUS
<1>4. PICK m : PrunedTo(part, stack, r, m) /\ part \in Seq(Implieds)
  BY <1>2, <1>3, PrunedIs
<1>5. PICK e : e = Implied(lit, r) OBVIOUS
<1>6. PICK v : v = ValueFor(lit, r) OBVIOUS
<1>7. ~IsObsolete(e, r) /\ e.value = v /\ e.lit = lit
  BY <1>5, <1>6, ImpliedLive
<1>8. v \in Int BY <1>6, ImpliedIsInt DEF ValueFor
<1>9. LitMembers(lit, r) BY UnitMembers
<1>10. PICK L : L = [value |-> v, lit |-> lit] OBVIOUS
<1>11. CASE Beats(e, part, less)
  <2>1. list = Append(part, e) BY <1>1, <1>3, <1>5, <1>11 DEF Push
  <2>2. e \in ToSet(list)
    <3>1. DOMAIN list = 1..(Len(part) + 1) /\ list[Len(part) + 1] = e /\ Len(part) \in Nat
      BY <1>4, <2>1, Appended
    <3>2. Len(part) + 1 \in DOMAIN list BY <3>1
    <3>3. QED BY <3>1, <3>2 DEF ToSet
  <2>3. Serves(e, lit, r) BY <1>7, <1>9, NoHigherSelf DEF Serves
  <2>4. ~Better(less, L, e) BY <1>7, <1>8, <1>10 DEF Better
  <2>5. NoWorse(less, e, lit, r) BY <1>6, <1>10, <2>4 DEF NoWorse
  <2>6. QED BY <2>2, <2>3, <2>5
<1>12. CASE ~Beats(e, part, less)
  <2>1. list = part /\ part # << >> /\ ~Better(less, e, Last(part))
    BY <1>1, <1>3, <1>5, <1>12 DEF Push, Beats
  <2>2. m > 0 /\ Last(part) = part[m] /\ m \in DOMAIN part
    BY <1>4, <2>1 DEF PrunedTo, Last
  <2>3. PICK d : d = part[m] OBVIOUS
  <2>4. d \in ToSet(list) /\ d = stack[m] /\ m \in DOMAIN stack
    BY <1>4, <2>1, <2>2, <2>3 DEF PrunedTo, ToSet
  <2>5. ~IsObsolete(d, r) BY <1>4, <2>2, <2>4 DEF PrunedTo
  <2>6. d \in Entries(r)
    <3>1. d \in ToSet(stack) BY <2>4 DEF ToSet
    <3>2. QED BY <1>1, <3>1 DEF StackOf, Entries
  <2>7. EntryOK(d, r) BY <1>2, <2>5, <2>6, LiveEntry
  <2>8. NoHigher(d.lit, lit, r)
    <3>1. PICK t \in Members(lit, r) : var_level[t] = decision_level
      BY DEF UnitFor
    <3>2. var_level[t] \in Int BY <1>9, <3>1 DEF LitMembers
    <3>3. \A s \in Members(d.lit, r) : var_level[s] \in 0..decision_level
      BY <2>7, MembersDefined
    <3>4. \A s \in Members(d.lit, r) : var_level[s] <= var_level[t]
      BY <3>1, <3>2, <3>3
    <3>5. QED BY <3>1, <3>4 DEF NoHigher
  <2>9. ~Better(less, L, d) BY <1>7, <1>10, <2>1, <2>2, <2>3 DEF Better
  <2>10. QED BY <1>6, <1>10, <2>4, <2>5, <2>8, <2>9 DEF NoWorse, Serves
<1>13. QED BY <1>11, <1>12

\* The first entry that disallows a value, if there is one.
LEMMA InequalityOne ==
  ASSUME LraI, NEW r \in RealVars, NEW x, NEW k \in DOMAIN inequality(r, x)
  PROVE  /\ inequality(r, x)[k].value = x
         /\ inequality(r, x)[k] \in ToSet(InForce(bounds[r].disallowed, r))
<1>1. PICK s : s = inequality(r, x) OBVIOUS
<1>2. s = << >> \/ \E h : s = <<h>> BY <1>1 DEF inequality
<1>3. s # << >> /\ k = 1 BY <1>1, <1>2
<1>4. LiveIn(s[1], bounds[r].disallowed, r) /\ s[1].value = x
  BY <1>1, <1>3, ReadLive DEF LraI
<1>5. PICK old : old = bounds[r].disallowed /\ old \in Seq(Implieds)
  BY DEF LraI, StacksOK
<1>6. s[1] \in ToSet(InForce(old, r))
  BY <1>4, <1>5, InForceIs DEF LiveIn
<1>7. QED BY <1>1, <1>3, <1>4, <1>5, <1>6

LEMMA InequalityServes ==
  ASSUME LraI, TruthsOK, NEW lit, NEW r, UnitFor(lit, r), AddInequality(Implied(lit, r), r)
  PROVE  \E e \in ToSet(bounds'[r].disallowed) : Serves(e, lit, r) /\ e.value = ValueFor(lit, r)
<1>1. PICK e : e = Implied(lit, r) OBVIOUS
<1>2. ~IsObsolete(e, r) /\ e.value = ValueFor(lit, r) /\ e.lit = lit
  BY <1>1, ImpliedLive
<1>3. NoHigher(lit, lit, r) BY UnitMembers, NoHigherSelf
<1>4. PICK kept : kept = InForce(bounds[r].disallowed, r) OBVIOUS
<1>5. PICK known : known = \E k \in DOMAIN inequality(r, e.value) : inequality(r, e.value)[k].lit = e.lit
  OBVIOUS
<1>6. bounds' = [bounds EXCEPT ![r].disallowed = IF known THEN kept ELSE Append(kept, e)]
  BY <1>1, <1>4, <1>5 DEF AddInequality
<1>7. r \in RealVars /\ bounds \in [RealVars -> [ub : Seq(Implieds), lb : Seq(Implieds), disallowed : Seq(Implieds)]]
  BY DEF UnitFor, LraI, StacksOK
<1>8. bounds'[r].disallowed = IF known THEN kept ELSE Append(kept, e)
  BY <1>6, <1>7
<1>9. CASE known
  <2>1. PICK k \in DOMAIN inequality(r, e.value) : inequality(r, e.value)[k].lit = e.lit
    BY <1>5, <1>9
  <2>2. PICK d : d = inequality(r, e.value)[k] OBVIOUS
  <2>3. d.value = e.value /\ d \in ToSet(kept)
    BY <1>4, <1>7, <2>1, <2>2, InequalityOne
  <2>4. PICK old : old = bounds[r].disallowed /\ old \in Seq(Implieds)
    BY <1>7
  <2>5. ~IsObsolete(d, r) BY <1>4, <2>3, <2>4, InForceIs
  <2>6. Serves(d, lit, r) BY <1>2, <1>3, <2>1, <2>2, <2>5 DEF Serves
  <2>7. QED BY <1>2, <1>8, <1>9, <2>3, <2>6
<1>10. CASE ~known
  <2>1. PICK old : old = bounds[r].disallowed /\ old \in Seq(Implieds)
    BY <1>7
  <2>2. kept \in Seq(Implieds) BY <1>4, <2>1, InForceIs
  <2>3. PICK list : list = Append(kept, e) OBVIOUS
  <2>4. e \in ToSet(list)
    <3>1. DOMAIN list = 1..(Len(kept) + 1) /\ list[Len(kept) + 1] = e /\ Len(kept) \in Nat
      BY <2>2, <2>3, Appended
    <3>2. Len(kept) + 1 \in DOMAIN list BY <3>1
    <3>3. QED BY <3>1, <3>2 DEF ToSet
  <2>5. QED BY <1>2, <1>3, <1>8, <1>10, <2>3, <2>4 DEF Serves
<1>11. QED BY <1>9, <1>10

LEMMA CoveredMade ==
  ASSUME LraI, TruthsOK, NEW lit, NEW r, UnitFor(lit, r), update(lit, r), SameTrail, UNCHANGED constraints
  PROVE  Covered(lit, r)'
<1>1. \A e : SeenSame(lit, r, e) BY SameTrailSeen
<1>2. SaysSame(lit, r) BY <1>1 DEF SeenSame
<1>3. \A e : Serves(e, lit, r) => Serves(e, lit, r)'
  BY <1>1 DEF SeenSame, Serves
<1>4. CASE IsInequality(lit)
  <2>1. ~BoundsFromAbove(lit, r) /\ ~BoundsFromBelow(lit, r)
    <3>1. AtomOf(lit) \in DOMAIN constraints /\ lit \in {AtomOf(lit), -AtomOf(lit)}
      BY DEF UnitFor
    <3>2. PICK a : a = AtomOf(lit) OBVIOUS
    <3>3. a \in Nat BY <3>1, <3>2, AtomFacts DEF LraI, AtomFact
    <3>4. lit \in Int BY <3>1, <3>2, <3>3
    <3>5. QED BY <1>4, <3>4 DEF IsInequality, IsEquality, BoundsFromAbove, BoundsFromBelow
  <2>2. \E e \in ToSet(bounds'[r].disallowed) : Serves(e, lit, r) /\ e.value = ValueFor(lit, r)
    BY <1>4, InequalityServes DEF update
  <2>3. \E e \in ToSet(bounds'[r].disallowed) : Serves(e, lit, r)' /\ e.value = ValueFor(lit, r)'
    BY <1>2, <1>3, <2>2 DEF SaysSame
  <2>4. QED BY <1>2, <2>1, <2>3 DEF Covered, SaysSame
<1>5. CASE ~IsInequality(lit)
  <2>1. AddBounds(Implied(lit, r), r) /\ Implied(lit, r).lit = lit
    BY <1>5, ImpliedLive DEF update
  <2>2. r \in RealVars /\ bounds \in [RealVars -> [ub : Seq(Implieds), lb : Seq(Implieds), disallowed : Seq(Implieds)]]
    BY DEF UnitFor, LraI, StacksOK
  <2>3. /\ bounds'[r].ub = IF BoundsFromAbove(lit, r) THEN Push(upper_bound(r), TRUE, Implied(lit, r)) ELSE bounds[r].ub
        /\ bounds'[r].lb = IF BoundsFromBelow(lit, r) THEN Push(lower_bound(r), FALSE, Implied(lit, r)) ELSE bounds[r].lb
    BY <2>1, <2>2 DEF AddBounds
  <2>4. ASSUME NEW less \in BOOLEAN, BoundsFrom(less, lit, r)
        PROVE  ServedBy(less, lit, r)'
    <3>2. PICK list : list = Push(Pruned(StackOf(r, less), r), less, Implied(lit, r))
      OBVIOUS
    <3>3. StackOf(r, less)' = list
      BY <2>3, <2>4, <3>2 DEF StackOf, BoundsFrom, upper_bound, lower_bound
    <3>4. PICK e \in ToSet(list) : Serves(e, lit, r) /\ NoWorse(less, e, lit, r)
      BY <3>2, PushServes
    <3>5. Serves(e, lit, r)' /\ NoWorse(less, e, lit, r)'
      BY <1>1, <1>3, <3>4 DEF SeenSame
    <3>6. QED BY <3>3, <3>4, <3>5 DEF ServedBy, NoWorse
  <2>5. QED BY <1>2, <1>5, <2>4 DEF Covered, SaysSame, BoundsFrom
<1>6. QED BY <1>4, <1>5

\* What a literal implies is an integer.
LEMMA ValueIsInt ==
  ASSUME LraI, NEW lit, NEW r, LitMembers(lit, r)
  PROVE  ValueFor(lit, r) \in Int
<1>1. PICK c : c = Constraint(lit) OBVIOUS
<1>2. FormOf(c) /\ VarsOf(lit) = DOMAIN c.coef /\ r \in DOMAIN c.coef
  BY <1>1, Forms DEF LitMembers, Constraint, VarsOf, LraI
<1> DEFINE D == DOMAIN c.coef \ {r}
<1>3. IsFiniteSet(D) BY <1>2, FS_Subset DEF FormOf
<1>4. \A s \in D : c.coef[s] \in Int /\ model[s] \in Int
  <2>1. \A s \in D : s \in Members(lit, r) BY <1>2 DEF Members, Others
  <2>2. \A s \in D : s \in Vars /\ is_defined(s) BY <2>1 DEF LitMembers
  <2>3. QED BY <1>2, <2>2, ValuesAreInt DEF FormOf
<1>5. WeightedSum(c.coef, D, model) \in Int BY <1>3, <1>4, SumType
<1>6. ValueFor(lit, r) = c.coef[r] * (c.rhs - WeightedSum(c.coef, D, model))
  BY <1>1 DEF ValueFor, ImpliedValue
<1>7. c.coef[r] \in Int /\ c.rhs \in Int BY <1>2 DEF FormOf
<1> HIDE DEF D
<1>8. QED BY <1>5, <1>6, <1>7

\* The top that pruning leaves is no worse than any entry in force.
LEMMA TopIsBest ==
  ASSUME LraI, NEW r \in RealVars, NEW less \in BOOLEAN, NEW lit, ValueFor(lit, r) \in Int,
         ServedBy(less, lit, r), NEW part, part = Pruned(StackOf(r, less), r)
  PROVE  part # << >> /\ LiveIn(Last(part), StackOf(r, less), r) /\ NoWorse(less, Last(part), lit, r)
<1>1. PICK stack : stack = StackOf(r, less) OBVIOUS
<1>2. stack \in Seq(Implieds) /\ NestedStack(stack, less, r)
  BY <1>1 DEF LraI, StacksOK, StackOf, Nested
<1>3. PICK m : PrunedTo(part, stack, r, m) BY <1>1, <1>2, PrunedIs
<1>4. PICK e \in ToSet(stack) : ~IsObsolete(e, r) /\ NoWorse(less, e, lit, r)
  BY <1>1 DEF ServedBy, Serves, NoWorse
<1>5. PICK k \in DOMAIN stack : e = stack[k] BY <1>4 DEF ToSet
<1>6. k \in 1..m /\ m \in 1..Len(stack) BY <1>3, <1>4, <1>5 DEF PrunedTo
<1>7. part # << >> /\ Last(part) = stack[m] /\ m \in DOMAIN stack /\ ~IsObsolete(stack[m], r)
  BY <1>3, <1>6 DEF PrunedTo, Last
<1>8. LiveIn(Last(part), stack, r) BY <1>7 DEF LiveIn, ToSet
<1>9. NoWorse(less, stack[m], lit, r)
  <2>1. CASE k = m BY <1>4, <1>5, <2>1
  <2>2. CASE k # m
    <3>1. k < m BY <1>6, <2>2
    <3>2. PICK d : d = stack[m] OBVIOUS
    <3>3. Better(less, d, e)
      BY <1>2, <1>5, <1>7, <3>1, <3>2 DEF NestedStack
    <3>4. d \in Implieds /\ e \in Implieds BY <1>2, <1>5, <1>7, <3>2
    <3>5. d.value \in Int /\ e.value \in Int BY <3>4 DEF Implieds
    <3>6. PICK L : L = [value |-> ValueFor(lit, r), lit |-> lit] OBVIOUS
    <3>7. ~Better(less, L, e) /\ L.value \in Int
      BY <1>4, <3>6 DEF NoWorse
    <3>8. ~Better(less, L, d) BY <3>3, <3>5, <3>7, BetterTwice
    <3>9. QED BY <3>2, <3>6, <3>8 DEF NoWorse
  <2>3. QED BY <2>1, <2>2
<1>10. QED BY <1>1, <1>7, <1>8, <1>9
-----------------------------------------------------------------------------
(* New values of constraints that have not been looked at.                 *)

IsUnseen(v) ==
  \E j \in DOMAIN recent : recent[j].var = v /\ (cursor.level = decision_level => j > cursor.next)

UnseenAre == \A v : (\E k \in DOMAIN Unseen : Unseen[k].var = v) <=> IsUnseen(v)

LEMMA UnseenVars ==
  LraI => UnseenAre
<1> SUFFICES ASSUME LraI
             PROVE  UnseenAre
  OBVIOUS
<1>1. TrailShape BY TrailLists DEF LraI, PluginInv
<1> DEFINE n == IF decision_level = cursor.level THEN cursor.next ELSE 0
<1>2. Len(recent) \in Nat /\ recent \in Seq(Entry) /\ DOMAIN recent = 1..Len(recent)
  BY <1>1 DEF TrailShape
<1>3. n \in Nat /\ n <= Len(recent)
  BY <1>2 DEF LraI, PluginInv, TrailKnown, PlacesOK
<1>4. Unseen = SubSeq(recent, 1 + n, Len(recent)) BY DEF Unseen
<1>5. \A j \in DOMAIN recent : (cursor.level = decision_level => j > cursor.next) <=> j > n
  <2>1. \A j \in DOMAIN recent : j > 0 BY <1>2
  <2>2. QED BY <2>1
<1> HIDE DEF n
<1>6. PICK t : t = recent OBVIOUS
<1>7. t \in Seq(Entry) /\ Len(t) \in Nat /\ n \in Nat /\ n <= Len(t)
  BY <1>2, <1>3, <1>6
<1>8. /\ Len(SubSeq(t, 1 + n, Len(t))) = Len(t) - n
      /\ \A k \in 1..(Len(t) - n) : SubSeq(t, 1 + n, Len(t))[k] = t[k + n] /\ k + n \in 1..Len(t)
      /\ SubSeq(t, 1 + n, Len(t)) \in Seq(Entry)
      /\ n = 0 => SubSeq(t, 1 + n, Len(t)) = t
  BY <1>7
<1>9. PICK u : u = Unseen OBVIOUS
<1>10. /\ Len(u) = Len(t) - n /\ u \in Seq(Entry)
       /\ \A k \in 1..(Len(t) - n) : u[k] = t[k + n] /\ k + n \in 1..Len(t)
  BY <1>4, <1>6, <1>8, <1>9
<1>11. Len(u) \in Nat /\ DOMAIN u = 1..(Len(t) - n) /\ DOMAIN t = 1..Len(t)
  BY <1>7, <1>10
<1>12. ASSUME NEW v
       PROVE  (\E k \in DOMAIN u : u[k].var = v) <=> (\E j \in DOMAIN t : t[j].var = v /\ j > n)
  <2>1. ASSUME NEW k \in DOMAIN u, u[k].var = v
        PROVE  \E j \in DOMAIN t : t[j].var = v /\ j > n
    <3>1. u[k] = t[k + n] /\ k + n \in DOMAIN t BY <1>7, <1>10, <1>11
    <3>2. k + n > n BY <1>7, <1>11
    <3>3. QED BY <2>1, <3>1, <3>2
  <2>2. ASSUME NEW j \in DOMAIN t, t[j].var = v, j > n
        PROVE  \E k \in DOMAIN u : u[k].var = v
    <3>1. PICK k : k = j - n OBVIOUS
    <3>2. k \in 1..(Len(t) - n) /\ k + n = j BY <1>7, <2>2, <3>1
    <3>3. u[k] = t[j] /\ k \in DOMAIN u BY <1>10, <1>11, <3>2
    <3>4. QED BY <2>2, <3>3
  <2>3. QED BY <2>1, <2>2
<1>13. QED BY <1>5, <1>6, <1>9, <1>12 DEF UnseenAre, IsUnseen

LEMMA UnseenVarsNext ==
  ASSUME LraI, [Next]_vars
  PROVE  UnseenAre'
<1>1. LraI' BY LraNext
<1>2. QED BY <1>1, UnseenVars, PTL

\* What is unseen stays so while nothing is read and the level stays.
LEMMA UnseenStays ==
  ASSUME LraI, PluginInv', UNCHANGED cursor,
         \/ SameTrail
         \/ (\E v, value, level : Gets(v, value, level)) /\ decision_level' = decision_level,
         NEW a, IsUnseen(a)
  PROVE  IsUnseen(a)'
<1>1. \A j \in DOMAIN recent : j \in DOMAIN recent' /\ recent'[j] = recent[j]
  <2>1. CASE SameTrail BY <2>1 DEF SameTrail, recent
  <2>2. CASE (\E v, value, level : Gets(v, value, level)) /\ decision_level' = decision_level
    BY <2>2, GetsRecent
  <2>3. QED BY <2>1, <2>2
<1>2. decision_level' = decision_level BY DEF SameTrail, decision_level
<1>3. PICK j \in DOMAIN recent : recent[j].var = a /\ (cursor.level = decision_level => j > cursor.next)
  BY DEF IsUnseen
<1>4. QED BY <1>1, <1>2, <1>3 DEF IsUnseen

\* What the plugin itself assigns does not raise the level.
LEMMA PluginGets ==
  ASSUME LraI, VisitAssigned \/ Derive
  PROVE  /\ UNCHANGED <<cursor, seen, pc>> /\ pc \in {"read", "check"}
         /\ \/ SameTrail
            \/ (\E v, value, level : Gets(v, value, level)) /\ decision_level' = decision_level
<1> USE DEF trailVars, boundVars, watchVars, walkVars, conflictVars
<1>1. CASE VisitAssigned
  <2>1. UNCHANGED <<cursor, seen, pc>> /\ pc = "read"
    BY <1>1 DEF VisitAssigned, AtWatch, walking
  <2> DEFINE a == TheWatch.atom
             c == constraints[a]
  <2>2. NewValues(a, c) BY <1>1, VisitAssignedGets
  <2>3. SameTrail \/ PropagateConstraint(a, c)
    BY <1>1 DEF VisitAssigned, SameTrail
  <2> HIDE DEF a, c
  <2>4. decision_level' = decision_level BY <2>2, <2>3, NewValuesLevel
  <2>5. QED BY <2>1, <2>2, <2>4 DEF NewValues, AtomGets
<1>2. CASE Derive
  <2>1. UNCHANGED <<cursor, seen, pc>> /\ pc = "check"
    BY <1>2 DEF Derive, explaining
  <2> DEFINE p == Head(blame.polys)
             a == AtomFor(p)
             c == Normalized(p)
  <2>2. NewValues(a, c) BY <1>2, DeriveGets
  <2>3. SameTrail \/ PropagateConstraint(a, c)
    BY <1>2 DEF Derive, SameTrail
  <2> HIDE DEF a, c
  <2>4. decision_level' = decision_level BY <2>2, <2>3, NewValuesLevel
  <2>5. QED BY <2>1, <2>2, <2>4 DEF NewValues, AtomGets
<1>3. QED BY <1>1, <1>2

\* A constraint with a new value is looked at, or given up on a backtrack.
PendingKept(a) == Pending(a) => Pending(a)'

LEMMA PendingLooking ==
  ASSUME LraI, Looking, NEW a \in Nat, a \notin RealVars, ~(SeeAtom /\ a = Head(seen))
  PROVE  PendingKept(a)
<1> USE DEF trailVars, boundVars, watchVars, walkVars, conflictVars
<1>1. SUFFICES ASSUME Pending(a)
               PROVE  Pending(a)'
  BY DEF PendingKept
<1>2. CASE StartPropagate
  <2>1. /\ pc' = "read" /\ pc \in {"bcp", "theory"}
        /\ seen' = [k \in DOMAIN Unseen |-> Unseen[k].var]
    BY <1>2 DEF StartPropagate
  <2>2. seen = << >> BY <2>1 DEF LraI, PlacesOK
  <2>3. \E k \in DOMAIN Unseen : Unseen[k].var = a
    BY <1>1, <2>2 DEF Pending
  <2>4. \E k \in DOMAIN seen' : seen'[k] = a BY <2>1, <2>3
  <2>5. QED BY <2>1, <2>4 DEF Pending
<1>3. CASE SeeAtom \/ WalkDone
  <2>1. /\ pc' = "read" /\ pc = "read" /\ seen # << >> /\ seen' = Tail(seen) /\ UNCHANGED <<trail, cursor>>
    <3>1. CASE SeeAtom BY <3>1 DEF SeeAtom
    <3>2. CASE WalkDone
      <4>1. walk > 0 /\ pc = "read" /\ pc' = "read" /\ seen' = Tail(seen)  /\ UNCHANGED <<trail, cursor>>
        BY <3>2 DEF WalkDone, EndOfWalk, walking
      <4>2. seen # << >> BY <4>1 DEF LraI, PluginInv, WalkKnown
      <4>3. QED BY <4>1, <4>2
    <3>3. QED BY <1>3, <3>1, <3>2
  <2>2. a # Head(seen)
    <3>1. CASE SeeAtom BY <3>1
    <3>2. CASE WalkDone
      <4>1. walk > 0 BY <3>2 DEF WalkDone, EndOfWalk, walking
      <4>2. QED BY <4>1 DEF LraI, PluginInv, WalkKnown
    <3>3. QED BY <1>3, <3>1, <3>2
  <2>3. CASE \E k \in DOMAIN Unseen : Unseen[k].var = a
    BY <2>1, <2>3 DEF Pending, Unseen, recent, decision_level
  <2>4. CASE \E k \in DOMAIN seen : seen[k] = a
    <3>1. PICK k \in DOMAIN seen : seen[k] = a BY <2>4
    <3>2. k # 1 /\ k - 1 \in DOMAIN Tail(seen) /\ Tail(seen)[k - 1] = a
      BY <2>1, <2>2, <3>1, SeenTail
    <3>3. QED BY <2>1, <3>2 DEF Pending
  <2>5. QED BY <1>1, <2>3, <2>4 DEF Pending
<1>4. CASE SeeReal \/ MoveWatch \/ VisitUnit \/ ReadDone \/ CheckBounds \/ DropTrivial \/ Report
           \/ CheckDone \/ BcpConflict \/ UNCHANGED vars
  <2>1. UNCHANGED <<trail, cursor, seen>> /\ (pc' = "learn" => pc = "learn")
    BY <1>4 DEF SeeReal, MoveWatch, VisitUnit, ReadDone, CheckBounds, DropTrivial, Report,
         CheckDone, BcpConflict, LoopUnchanged, vars, AtWatch, walking, explaining, checking
  <2>2. QED BY <1>1, <2>1 DEF Pending, Unseen, recent, decision_level
<1>5. QED BY <1>2, <1>3, <1>4 DEF Looking

LEMMA PendingStays ==
  ASSUME LraI, [Next]_vars, NEW a \in Nat, a \notin RealVars, ~(SeeAtom /\ a = Head(seen)),
         ~BacktrackToLevel, ~Restart
  PROVE  PendingKept(a)
<1> USE DEF trailVars, boundVars, watchVars, walkVars, conflictVars
<1>1. CASE Looking BY <1>1, PendingLooking
<1>2. ASSUME UNCHANGED <<cursor, seen>>, pc' # "learn",
             \/ SameTrail
             \/ (\E v, value, level : Gets(v, value, level)) /\ decision_level' = decision_level
      PROVE  PendingKept(a)
  <2>1. IsUnseen(a) => IsUnseen(a)' BY <1>2, UnseenStays, NextLevels
  <2>2. UnseenAre /\ UnseenAre' BY UnseenVars, UnseenVarsNext
  <2>3. (\E k \in DOMAIN Unseen : Unseen[k].var = a) => (\E k \in DOMAIN Unseen : Unseen[k].var = a)'
    BY <2>1, <2>2 DEF UnseenAre
  <2>4. QED BY <1>2, <2>3 DEF PendingKept, Pending
<1>3. CASE VisitAssigned \/ Derive BY <1>2, <1>3, PluginGets
<1>4. CASE BcpAssign
  <2>1. UNCHANGED <<cursor, seen>> /\ pc' = "bcp"
    BY <1>4 DEF BcpAssign, LoopUnchanged
  <2>2. (\E v, value, level : Gets(v, value, level)) /\ decision_level' = decision_level
    BY <1>4, BcpAssignGets DEF LoopGets, AtomGets
  <2>3. QED BY <1>2, <2>1, <2>2
<1>5. CASE DecideAtom \/ DecideReal
  <2>1. pc \in {"decide", "learn"} BY <1>5 DEF DecideAtom, DecideReal
  <2>2. pc = "decide" => Unseen = << >> /\ seen = << >>
    BY DEF LraI, PlacesOK
  <2>3. DOMAIN << >> = {} OBVIOUS
  <2>4. ~Pending(a) BY <2>1, <2>2, <2>3 DEF Pending
  <2>5. QED BY <2>4 DEF PendingKept
<1>6. QED BY <1>1, <1>3, <1>4, <1>5, NextCases
-----------------------------------------------------------------------------
(* What is due, and what is new.                                           *)

\* What is due for a stays so while it has a value.
DueKept(a) ==
  \A s \in RealVars : IsWatched(a, s) /\ model'[s] # Undef /\ Due(s, a) =>
    IsWatched(a, s)' /\ Due(s, a)'

Visits(a) == (VisitAssigned \/ VisitUnit \/ MoveWatch) /\ a = TheWatch.atom

LEMMA DueStays ==
  ASSUME LraI, [Next]_vars, NEW a \in DOMAIN constraints, ~Visits(a)
  PROVE  DueKept(a)
<1> USE DEF trailVars, boundVars, watchVars, walkVars, conflictVars
<1>1. CASE StartPropagate \/ SeeReal \/ UNCHANGED vars
  <2>1. StillDue(a) /\ UNCHANGED order
    BY <1>1, StartStill DEF StartPropagate, SeeReal, vars
  <2>2. QED BY <2>1 DEF StillDue, DueKept, IsWatched
<1>2. CASE SeeAtom \/ WalkDone \/ ReadDone \/ CheckBounds \/ DropTrivial \/ Report \/ CheckDone
           \/ BcpConflict \/ DecideAtom \/ BcpAssign \/ BacktrackToLevel \/ Restart
           \/ Derive \/ DecideReal
  BY <1>2, QuietNothing DEF DueKept
<1>3. CASE VisitAssigned
  <2>1. Visit(TheWatch.atom, Reordered(TheWatch.atom))
    BY <1>3, Visiting DEF VisitAssigned
  <2>2. PICK b, vs : b = TheWatch.atom /\ vs = Reordered(b) OBVIOUS
  <2>3. Visit(b, vs) /\ a # b BY <1>3, <2>1, <2>2 DEF Visits
  <2>4. UNCHANGED <<order, watched, pc, seen>> /\ walk' = walk + 1
    BY <1>3 DEF VisitAssigned
  <2>5. \A s \in RealVars : Due(s, a) => Due(s, a)'
    BY <2>3, <2>4, OtherDue
  <2>6. QED BY <2>4, <2>5 DEF DueKept, IsWatched
<1>4. CASE VisitUnit
  <2>1. PICK b, vs : b = TheWatch.atom /\ vs = Reordered(b) OBVIOUS
  <2>2. Visit(b, vs) /\ Relisted(b, vs) /\ a # b
    BY <1>4, <2>1, WatchesVisitUnit DEF Visits
  <2>3. UNCHANGED <<watched, pc, seen>> /\ walk' = walk + 1
    BY <1>4 DEF VisitUnit
  <2>4. \A s \in RealVars : Due(s, a) => Due(s, a)'
    BY <2>2, <2>3, OtherDue
  <2>5. \A s : IsWatched(a, s)' <=> IsWatched(a, s)
    BY <2>2, RelistedOrder
  <2>6. QED BY <2>4, <2>5 DEF DueKept
<1>5. CASE MoveWatch
  <2>1. PICK b, vs, p : Moves(b, vs, p) BY <1>5, MoveWatchMoves
  <2>2. PICK us : us = [vs EXCEPT ![2] = vs[p], ![p] = vs[2]] OBVIOUS
  <2>3. Visit(b, vs) /\ Relisted(b, us) BY <2>1, <2>2 DEF Moves
  <2>4. a # b BY <1>5, <2>3 DEF Visits, Visit, TheWatch
  <2>5. StillDue(a) BY <1>5, <2>1, <2>4, MoveStill
  <2>6. \A s : IsWatched(a, s)' <=> IsWatched(a, s)
    BY <2>3, <2>4, RelistedOrder
  <2>7. QED BY <2>5, <2>6 DEF StillDue, DueKept
<1>6. QED BY <1>1, <1>2, <1>3, <1>4, <1>5 DEF Next, PluginStep

\* A constraint gets the value that its variables give it.
Valued(a, c) ==
  /\ VisitAssigned \/ Derive
  /\ NewValues(a, c) /\ ~is_defined(a)
  /\ AtomGets(a, Truth(Satisfied(c, model)), LevelOf(DOMAIN c.coef))
  /\ NewLevels(a, LevelOf(DOMAIN c.coef)) /\ model'[a] = Truth(Satisfied(c, model))

\* The solving loop gives it one.
Guessed(a, b) ==
  /\ DecideAtom \/ BcpAssign
  /\ LoopGets(a, b) /\ NewLevels(a, decision_level') /\ model'[a] = Truth(b)

LEMMA GetsModel ==
  ASSUME LraI, [Next]_vars, NEW v, NEW value, NEW level, Gets(v, value, level)
  PROVE  NewLevels(v, level) /\ model'[v] = value
<1>1. PluginInv' BY NextLevels
<1>2. decision_level' \in Int
  BY <1>1, TrailListsNext DEF PluginInv, TrailShape
<1>3. model \in [Vars -> Values \cup {Undef}] /\ v \in Vars /\ model' = [model EXCEPT ![v] = value]
  BY DEF LraI, PluginInv, TrailKnown, Gets
<1>4. QED BY <1>2, <1>3, GetsValue

\* A constraint with a value had it before or gets it in one of two ways.
LEMMA AtomValued ==
  ASSUME LraI, [Next]_vars, NEW a \in DOMAIN constraints', is_defined(a)'
  PROVE  \/ a \in DOMAIN constraints /\ is_defined(a)
         \/ \E c : Valued(a, c)
         \/ \E b : Guessed(a, b)
<1> USE DEF trailVars, boundVars, watchVars, walkVars, conflictVars
<1>1. a \in Vars /\ a \notin RealVars
  BY NextLevels, AtomFactsNext DEF AtomFact
<1>2. CASE Looking BY <1>2, LookingSame DEF SameTrail, is_defined
<1>3. CASE VisitAssigned
  <2>1. PICK b, c : b = TheWatch.atom /\ c = constraints[b] OBVIOUS
  <2>2. NewValues(b, c) /\ UNCHANGED constraints
    BY <1>3, <2>1, VisitAssignedGets DEF VisitAssigned
  <2>3. CASE SameTrail BY <2>2, <2>3 DEF SameTrail, is_defined
  <2>4. CASE ~is_defined(b) /\ AtomGets(b, Truth(Satisfied(c, model)), LevelOf(DOMAIN c.coef))
    <3>1. NewLevels(b, LevelOf(DOMAIN c.coef)) /\ model'[b] = Truth(Satisfied(c, model))
      BY <2>4, GetsModel DEF AtomGets
    <3>2. CASE a = b BY <1>3, <2>2, <2>4, <3>1, <3>2 DEF Valued
    <3>3. CASE a # b BY <1>1, <2>2, <3>1, <3>3 DEF NewLevels
    <3>4. QED BY <3>2, <3>3
  <2>5. QED BY <2>2, <2>3, <2>4 DEF NewValues
<1>4. CASE Derive
  <2>1. PICK p : p = Head(blame.polys) OBVIOUS
  <2>2. PICK b, c : b = AtomFor(p) /\ c = Normalized(p) OBVIOUS
  <2>3. NewValues(b, c) /\ DOMAIN p.coef \in (SUBSET RealVars) \ {{}} /\ Make(p) /\ AtomFor(p) <= MaxAtoms
    BY <1>4, <2>1, <2>2, DeriveGets
  <2>4. /\ ~IsNew(p) => UNCHANGED constraints
        /\ IsNew(p) => b = Len(constraints) + 1 /\ ~is_defined(b) /\ constraints' = Append(constraints, c)
    BY <2>2, <2>3, AtomForKnown
  <2>5. a \in DOMAIN constraints \/ (IsNew(p) /\ a = b)
    <3>1. CASE ~IsNew(p) BY <2>4, <3>1
    <3>2. CASE IsNew(p)
      <4>1. \E C : constraints \in Seq(C) BY DEF LraI, FormsOK
      <4>2. QED BY <2>4, <3>2, <4>1
    <3>3. QED BY <3>1, <3>2
  <2>6. CASE SameTrail /\ is_defined(b)
    BY <2>4, <2>5, <2>6 DEF SameTrail, is_defined
  <2>7. CASE ~is_defined(b) /\ AtomGets(b, Truth(Satisfied(c, model)), LevelOf(DOMAIN c.coef))
    <3>1. NewLevels(b, LevelOf(DOMAIN c.coef)) /\ model'[b] = Truth(Satisfied(c, model))
      BY <2>7, GetsModel DEF AtomGets
    <3>2. CASE a = b BY <1>4, <2>3, <2>7, <3>1, <3>2 DEF Valued
    <3>3. CASE a # b BY <1>1, <2>5, <3>1, <3>3 DEF NewLevels
    <3>4. QED BY <3>2, <3>3
  <2>8. QED BY <2>3, <2>6, <2>7 DEF NewValues
<1>5. CASE DecideReal
  <2>1. PICK r, x : DueAnew(r, x) BY <1>5, DecidedDue
  <2>2. a # r /\ UNCHANGED constraints
    BY <1>1, <1>5, <2>1 DEF DueAnew, DecideReal
  <2>3. QED BY <1>1, <2>1, <2>2 DEF DueAnew, NewLevels
<1>6. CASE DecideAtom \/ BcpAssign
  <2>1. PICK d, b : LoopGets(d, b)
    BY <1>6, DecideAtomGets, BcpAssignGets
  <2>2. NewLevels(d, decision_level') /\ model'[d] = Truth(b) /\ UNCHANGED constraints
    BY <2>1, GetsModel DEF LoopGets, AtomGets
  <2>3. CASE a = d BY <1>6, <2>1, <2>2, <2>3 DEF Guessed
  <2>4. CASE a # d BY <1>1, <2>2, <2>4 DEF NewLevels
  <2>5. QED BY <2>3, <2>4
<1>7. CASE BacktrackToLevel \/ Restart BY <1>1, <1>7, BackCuts DEF Cuts
<1>8. QED BY <1>2, <1>3, <1>4, <1>5, <1>6, <1>7, NextCases

\* A constraint keeps its value as long as it has it.
LEMMA AtomKeeps ==
  ASSUME LraI, [Next]_vars, NEW a \in DOMAIN constraints, is_defined(a), is_defined(a)'
  PROVE  TrueLit(a)' = TrueLit(a) /\ model'[a] = model[a] /\ var_level'[a] = var_level[a]
<1>1. a \in Vars /\ AtomOf(a) = a BY AtomFacts DEF LraI, AtomFact
<1>2. model'[a] = model[a] /\ var_level'[a] = var_level[a]
  BY <1>1, StepSame, NextTrail
<1>3. QED BY <1>1, <1>2 DEF TrueLit, True

LEMMA TruthsNext ==
  ASSUME LraI, [Next]_vars, TruthsOK
  PROVE  TruthsOK'
<1> SUFFICES ASSUME NEW a \in DOMAIN constraints', is_defined(a)'
             PROVE  model'[a] \in {Truth(TRUE), Truth(FALSE)}
  BY DEF TruthsOK, Truth
<1>1. CASE a \in DOMAIN constraints /\ is_defined(a)
  BY <1>1, AtomKeeps DEF TruthsOK
<1>2. CASE \E c : Valued(a, c) BY <1>2 DEF Valued, Truth
<1>3. CASE \E b : Guessed(a, b) BY <1>3 DEF Guessed, LoopGets, Truth
<1>4. QED BY <1>1, <1>2, <1>3, AtomValued

-----------------------------------------------------------------------------
(* A rational variable that has just got its value.                        *)

\* Where all variables of a have values, and nothing of a is due, q was not
\* the variable missed.
LEMMA NotDueBefore ==
  ASSUME LraI, NEW a \in DOMAIN constraints, NEW q \in VarsOf(a), ~is_defined(q), ~IsWatched(a, q),
         \A s : ~Due(s, a),
         NEW w, IsWatched(a, w), is_defined(w)
  PROVE  FALSE
<1>1. /\ order[a] \in Seq(RealVars) /\ Len(order[a]) \in Nat /\ Len(order[a]) >= 1
      /\ DOMAIN order[a] = 1..Len(order[a])
      /\ VarsOf(a) = {order[a][p] : p \in 1..Len(order[a])}
  BY WatchedFirst
<1>2. PICK vs : vs = order[a] OBVIOUS
<1>3. PICK p \in DOMAIN vs : p <= 2 /\ vs[p] = w BY <1>2 DEF IsWatched
<1>4. PICK k \in DOMAIN vs : vs[k] = q BY <1>1, <1>2
<1>5. k \in 3..Len(vs) BY <1>1, <1>2, <1>4 DEF IsWatched
<1>6. Tells(a) BY DEF LraI, WatchesTell
<1>7. is_defined(vs[k])
  <2>1. CASE p = 1 BY <1>2, <1>3, <1>4, <1>6, <2>1 DEF Tells
  <2>2. CASE p = 2
    <3>1. Len(vs) > 1 BY <1>1, <1>2, <1>5
    <3>2. QED BY <1>2, <1>3, <1>5, <1>6, <2>2, <3>1 DEF Tells
  <2>3. QED BY <1>1, <1>2, <1>3, <2>1, <2>2
<1>8. QED BY <1>4, <1>7
-----------------------------------------------------------------------------
(* Constraints that lack one variable.                                     *)

\* A constraint that lacks a variable is listed where it belongs.
LEMMA ListedUnit ==
  ASSUME LraI, NEW a \in DOMAIN constraints, NEW j \in DOMAIN recent, recent[j].var = a,
         NEW r, UnitAt(a, r)
  PROVE  var_level[a] = decision_level /\ ~is_defined(r)
<1>1. AtomFact(a) BY AtomFacts DEF LraI
<1>2. a \in Vars /\ a \notin RealVars /\ a \in Members(a, r) /\ r \in VarsOf(a) /\ r \in Vars
  BY <1>1 DEF AtomFact, Members, UnitAt
<1>3. TrailShape BY TrailLists DEF LraI, PluginInv
<1>4. PICK l : l = Len(trail) OBVIOUS
<1>5. l \in DOMAIN trail /\ trail[l] = recent /\ l - 1 = decision_level /\ l \in Nat
  BY <1>3, <1>4 DEF TrailShape
<1>6. is_defined(a) /\ var_level[a] \in 0..decision_level
  BY <1>2 DEF UnitAt, LraI, LevelsOK
<1>7. is_defined(r) => var_level[a] < var_level[r] /\ var_level[r] \in 0..decision_level
  BY <1>2 DEF UnitAt, LraI, LevelsOK
<1>8. var_level[a] < l - 1 => is_defined(r) /\ var_level[r] <= var_level[a]
  BY <1>2, <1>5 DEF LraI, AtomsLow
<1>9. QED BY <1>5, <1>6, <1>7, <1>8

\* What a constraint is about does not change.
LEMMA MembersKept ==
  ASSUME Kept, NEW a \in DOMAIN constraints, AtomOf(a) = a
  PROVE  VarsOf(a)' = VarsOf(a) /\ \A r : Members(a, r)' = Members(a, r) /\ Others(a, r)' = Others(a, r)
BY DEF Kept, VarsOf, Constraint, Members, Others

LEMMA UnitBefore ==
  ASSUME LraI, [Next]_vars, NEW a \in DOMAIN constraints, NEW r, UnitAt(a, r)',
         \A m \in Members(a, r) : is_defined(m)
  PROVE  UnitAt(a, r)
<1>1. AtomFact(a) /\ TrailStep /\ Kept BY AtomFacts, NextLevels DEF LraI
<1>2. VarsOf(a)' = VarsOf(a) /\ Members(a, r)' = Members(a, r)
  BY <1>1, MembersKept DEF AtomFact
<1>3. /\ r \in VarsOf(a) /\ \A s \in Members(a, r) : is_defined(s)'
      /\ is_defined(r)' => \A s \in Members(a, r) : var_level'[s] < var_level'[r]
  BY <1>2 DEF UnitAt
<1>4. r \in Vars /\ \A s \in Members(a, r) : s \in Vars
  BY <1>1, <1>3 DEF AtomFact, Members, Others
<1>5. ASSUME is_defined(r), NEW s \in Members(a, r)
      PROVE  var_level[s] < var_level[r]
  <2>1. s \in Vars /\ is_defined(s) /\ is_defined(s)' BY <1>3, <1>4
  <2>2. var_level[s] \in Int /\ var_level[r] \in Int
    BY <1>4, <2>1 DEF LraI, LevelsOK
  <2>3. CASE is_defined(r)'
    <3>1. var_level'[s] = var_level[s] /\ var_level'[r] = var_level[r]
      BY <1>1, <1>4, <1>5, <2>1, <2>3, StepSame
    <3>2. QED BY <1>3, <2>3, <3>1
  <2>4. CASE ~is_defined(r)'
    <3>1. ~(var_level[r] <= var_level[s])
      BY <1>1, <1>4, <1>5, <2>1, <2>4, LowerStays
    <3>2. QED BY <2>2, <3>1
  <2>5. QED BY <2>3, <2>4
<1>6. QED BY <1>3, <1>5 DEF UnitAt

\* What the solving loop has just given a value has not been looked at.
LEMMA GuessPends ==
  ASSUME LraI, [Next]_vars, NEW a, NEW b, Guessed(a, b)
  PROVE  Pending(a)'
<1>1. PluginInv' /\ UnseenAre' BY NextLevels, UnseenVarsNext
<1>2. pc' = "bcp" /\ UNCHANGED cursor
  BY DEF Guessed, DecideAtom, BcpAssign
<1>3. TrailShape /\ TrailShape'
  BY <1>1, TrailLists, TrailListsNext DEF LraI, PluginInv
<1>4. cursor.level \in Int /\ cursor.next \in Nat /\ cursor.level <= decision_level
  BY DEF LraI, PluginInv, TrailKnown, PlacesOK
<1>5. LoopGets(a, b) BY DEF Guessed
<1>6. Gets(a, Truth(b), decision_level') /\ ~is_defined(a)
  BY <1>5 DEF LoopGets, AtomGets
<1>7. PICK j \in DOMAIN recent' : recent'[j].var = a
  <2>1. PICK l : l = decision_level' + 1 OBVIOUS
  <2>2. \E j \in DOMAIN trail'[l] : trail'[l][j].var = a
    BY <1>6, <2>1 DEF Gets, ListsGrow
  <2>3. trail'[l] = recent' BY <1>3, <2>1 DEF TrailShape
  <2>4. QED BY <2>2, <2>3
<1>8. cursor'.level = decision_level' => j > cursor'.next
  <2>1. CASE DecideAtom
    <3>1. decision_level' = decision_level + 1
      <4>1. PICK v \in DOMAIN constraints, c \in BOOLEAN : Decide(v, Truth(c))
        BY <2>1 DEF DecideAtom
      <4>2. Len(trail') = Len(trail) + 1
        BY <4>1, DecideGrows DEF LraI, PluginInv
      <4>3. QED BY <1>3, <4>2 DEF TrailShape
    <3>2. decision_level \in Int BY <1>3 DEF TrailShape
    <3>3. QED BY <1>2, <1>4, <3>1, <3>2
  <2>2. CASE BcpAssign
    <3>1. decision_level' = decision_level BY <2>2, BcpAssignGets
    <3>2. j \notin DOMAIN recent
      <4>1. SUFFICES ASSUME j \in DOMAIN recent
                     PROVE  FALSE
        OBVIOUS
      <4>2. recent[j].var = a
        BY <1>1, <1>6, <1>7, <3>1, <4>1, GetsRecent
      <4>3. PICK l : l = Len(trail) OBVIOUS
      <4>4. l \in DOMAIN trail /\ trail[l] = recent
        BY <1>3, <4>3 DEF TrailShape
      <4>5. is_defined(trail[l][j].var) BY <4>1, <4>4 DEF LraI, LevelsOK
      <4>6. QED BY <1>6, <4>2, <4>4, <4>5
    <3>3. j > Len(recent) /\ Len(recent) \in Nat /\ j \in Nat
      <4>1. DOMAIN recent = 1..Len(recent) /\ Len(recent) \in Nat /\ DOMAIN recent' = 1..Len(recent') /\ Len(recent') \in Nat
        BY <1>3 DEF TrailShape
      <4>2. QED BY <1>7, <3>2, <4>1
    <3>4. cursor.level = decision_level => cursor.next <= Len(recent)
      BY DEF LraI, PlacesOK
    <3>5. QED BY <1>2, <1>4, <3>1, <3>3, <3>4
  <2>3. QED BY <2>1, <2>2 DEF Guessed
<1>9. \E k \in DOMAIN Unseen' : Unseen'[k].var = a
  <2>1. IsUnseen(a)' BY <1>7, <1>8 DEF IsUnseen
  <2>2. QED BY <1>1, <2>1 DEF UnseenAre
<1>10. QED BY <1>2, <1>9 DEF Pending

\* What the plugin gives a value lacks nothing, and did not before the last of
\* its variables got its own.
LEMMA ValuedNotUnit ==
  ASSUME LraI, [Next]_vars, NEW a, NEW c, Valued(a, c), NEW r \in RealVars, UnitAt(a, r)'
  PROVE  FALSE
<1>1. /\ a \in DOMAIN constraints' /\ constraints'[a] = c /\ a \in Vars
      /\ DOMAIN c.coef \in (SUBSET RealVars) \ {{}} /\ \A s \in DOMAIN c.coef : is_defined(s)
      /\ NewLevels(a, LevelOf(DOMAIN c.coef)) /\ ~is_defined(a)
  BY DEF Valued, NewValues
<1>2. AtomFact(a)' /\ TrailStep BY <1>1, NextLevels, AtomFactsNext
<1>3. AtomOf(a) = a /\ VarsOf(a)' = DOMAIN c.coef
  BY <1>1, <1>2 DEF AtomFact
<1>4. r \in DOMAIN c.coef /\ a \in Members(a, r)'
  BY <1>3 DEF UnitAt, Members
<1>5. r \in Vars /\ is_defined(r) /\ r # a
  BY <1>1, <1>4, PluginAssumption
<1>6. is_defined(r)' /\ var_level'[r] = var_level[r] /\ var_level'[a] = LevelOf(DOMAIN c.coef)
  BY <1>1, <1>5 DEF NewLevels
<1>7. var_level'[a] < var_level'[r] BY <1>4, <1>6 DEF UnitAt
<1>8. var_level[r] <= LevelOf(DOMAIN c.coef) /\ LevelOf(DOMAIN c.coef) \in Int /\ var_level[r] \in Int
  BY <1>1, <1>4, <1>5, LevelOfLast DEF LraI, LevelsOK
<1>9. QED BY <1>6, <1>7, <1>8

LEMMA AtomBefore ==
  ASSUME LraI, [Next]_vars, NEW a \in DOMAIN constraints', NEW r \in RealVars, Ripe(a, r)'
  PROVE  a \in DOMAIN constraints /\ is_defined(a)
<1>1. AtomFact(a)' BY NextLevels, AtomFactsNext
<1>2. UnitAt(a, r)' /\ ~Pending(a)' BY DEF Ripe
<1>3. is_defined(a)' BY <1>1, <1>2 DEF UnitAt, Members, AtomFact
<1>4. QED BY <1>2, <1>3, AtomValued, ValuedNotUnit, GuessPends

\* What a constraint lacks one variable with was there before.
LEMMA MembersBefore ==
  ASSUME LraI, [Next]_vars, NEW a \in DOMAIN constraints', NEW r \in RealVars, Ripe(a, r)'
  PROVE  a \in DOMAIN constraints /\ UnitAt(a, r)
<1> USE DEF trailVars, boundVars, watchVars, walkVars, conflictVars
<1>1. a \in DOMAIN constraints /\ is_defined(a) BY AtomBefore
<1>2. AtomFact(a) /\ Kept BY <1>1, AtomFacts, NextLevels DEF LraI
<1>3. UnitAt(a, r)' /\ NoneDue(a, r)' BY DEF Ripe
<1>4. Members(a, r)' = Members(a, r) /\ Others(a, r)' = Others(a, r) /\ VarsOf(a)' = VarsOf(a)
  BY <1>1, <1>2, MembersKept DEF AtomFact
<1>5. \A s \in Others(a, r) : is_defined(s)'
  BY <1>3, <1>4 DEF UnitAt, Members
<1>6. ASSUME NEW q \in Others(a, r), ~is_defined(q)
      PROVE  FALSE
  <2>1. q \in RealVars /\ q \in Vars /\ q \in VarsOf(a) /\ q # r /\ r \in VarsOf(a)
    BY <1>2, <1>3, <1>4 DEF AtomFact, UnitAt
  <2>2. DecideReal BY <1>5, <1>6, <2>1, NewReal
  <2>3. UNCHANGED order BY <2>2 DEF DecideReal
  <2>4. PICK p, x : DueAnew(p, x) BY <2>2, DecidedDue
  <2>5. q = p BY <1>5, <1>6, <2>1, <2>4 DEF DueAnew, NewLevels
  <2>6. Due(q, a)' BY <2>4, <2>5 DEF DueAnew
  <2>7. ~IsWatched(a, q)
    <3>1. ~IsWatched(a, q)' BY <1>3, <1>4, <1>6, <2>6 DEF NoneDue
    <3>2. QED BY <2>3, <3>1 DEF IsWatched
  <2>8. /\ Len(order[a]) \in Nat /\ Len(order[a]) >= 1 /\ order[a] \in Seq(RealVars)
        /\ VarsOf(a) = {order[a][k] : k \in 1..Len(order[a])}
        /\ \A k, l \in 1..Len(order[a]) : order[a][k] = order[a][l] => k = l
        /\ \A s : IsWatched(a, s) <=> s = order[a][1] \/ (Len(order[a]) > 1 /\ s = order[a][2])
    BY <1>1, WatchedFirst
  <2>9. PICK vs : vs = order[a] OBVIOUS
  <2>10. Len(vs) > 1
    <3>1. PICK k \in 1..Len(vs) : vs[k] = q BY <2>1, <2>8, <2>9
    <3>2. PICK l \in 1..Len(vs) : vs[l] = r BY <2>1, <2>8, <2>9
    <3>3. k # l BY <2>1, <3>1, <3>2
    <3>4. QED BY <2>8, <2>9, <3>1, <3>2, <3>3
  <2>11. 1 \in 1..Len(vs) /\ 2 \in 1..Len(vs) /\ vs[1] # vs[2] /\ Len(vs) \in Nat
    <3>1. 1 \in 1..Len(vs) /\ 2 \in 1..Len(vs) /\ 1 # 2
      BY <2>8, <2>9, <2>10
    <3>2. QED BY <2>8, <2>9, <3>1
  <2>12. PICK w : w \in {vs[1], vs[2]} /\ w # r BY <2>11
  <2>13. IsWatched(a, w) /\ w # q /\ w \in VarsOf(a)
    BY <2>7, <2>8, <2>9, <2>10, <2>11, <2>12
  <2>14. is_defined(w)
    <3>1. w \in Others(a, r) /\ w \in Vars
      BY <1>2, <2>12, <2>13 DEF AtomFact
    <3>2. is_defined(w)' BY <1>5, <3>1
    <3>3. QED BY <2>4, <2>5, <2>13, <3>1, <3>2 DEF DueAnew, NewLevels
  <2>15. \A s : ~Due(s, a) BY <2>2, QuietNothing
  <2>16. QED BY <1>1, <1>6, <2>1, <2>7, <2>13, <2>14, <2>15, NotDueBefore
<1>7. \A m \in Members(a, r) : is_defined(m)
  BY <1>1, <1>2, <1>6 DEF Members, AtomFact
<1>8. QED BY <1>1, <1>3, <1>7, UnitBefore

\* What a says of r is put on the stacks.
Made(a, r) ==
  /\ UnitFor(TrueLit(a), r) /\ update(TrueLit(a), r)
  /\ SameTrail /\ UNCHANGED constraints

LEMMA PendingListed ==
  ASSUME LraI, NEW a, Pending(a)
  PROVE  \E j \in DOMAIN recent : recent[j].var = a
<1>1. CASE \E k \in DOMAIN seen : seen[k] = a BY <1>1 DEF LraI, PlacesOK
<1>2. CASE \E k \in DOMAIN Unseen : Unseen[k].var = a
  <2>1. PICK k \in DOMAIN Unseen : Unseen[k].var = a BY <1>2
  <2>2. PICK j \in DOMAIN recent : Unseen[k] = recent[j]
    BY <2>1, UnseenLists
  <2>3. QED BY <2>1, <2>2
<1>3. QED BY <1>1, <1>2 DEF Pending

\* What is read of a constraint that lacks r only.
LEMMA SeeAtomMade ==
  ASSUME LraI, SeeAtom, NEW a \in DOMAIN constraints, a = Head(seen), NEW r \in RealVars, UnitAt(a, r)
  PROVE  Made(a, r)
<1>1. pc = "read" /\ seen # << >> /\ Head(seen) \notin RealVars
  BY DEF SeeAtom
<1>2. \A s, b : ~Due(s, b) BY <1>1, NothingDue
<1>3. 1 \in DOMAIN seen /\ Head(seen) = seen[1] BY <1>1, SeenTail
<1>4. PICK j \in DOMAIN recent : recent[j].var = a
  BY <1>3 DEF LraI, PlacesOK
<1>5. ~is_defined(r) BY <1>4, ListedUnit
<1>6. AtomFact(a) BY AtomFacts DEF LraI
<1>7. is_defined(a) /\ r \in VarsOf(a) /\ \A s \in VarsOf(a) : s # r => is_defined(s)
  BY <1>6 DEF UnitAt, Members, Others, AtomFact
<1>8. PICK vs : vs = order[a] OBVIOUS
<1>9. /\ Len(vs) \in Nat /\ Len(vs) >= 1 /\ vs \in Seq(RealVars) /\ DOMAIN vs = 1..Len(vs)
      /\ VarsOf(a) = {vs[k] : k \in 1..Len(vs)}
      /\ \A k, l \in 1..Len(vs) : vs[k] = vs[l] => k = l
  BY <1>8, WatchedFirst
<1>10. vs[1] = r
  <2>1. SUFFICES ASSUME vs[1] # r
                 PROVE  FALSE
    OBVIOUS
  <2>2. 1 \in 1..Len(vs) BY <1>9
  <2>3. is_defined(vs[1]) BY <1>7, <1>9, <2>1, <2>2
  <2>4. \A p \in DOMAIN vs : is_defined(vs[p])
    <3>1. Tells(a) BY DEF LraI, WatchesTell
    <3>2. QED BY <1>2, <1>8, <2>3, <3>1 DEF Tells
  <2>5. QED BY <1>5, <1>7, <1>9, <2>4
<1>11. is_unit(a)
  <2>1. CASE Len(vs) = 1 BY <1>5, <1>8, <1>10, <2>1 DEF is_unit
  <2>2. CASE Len(vs) # 1
    <3>1. 1 \in 1..Len(vs) /\ 2 \in 1..Len(vs) /\ 1 # 2 BY <1>9, <2>2
    <3>2. vs[2] # r /\ vs[2] \in VarsOf(a) BY <1>9, <1>10, <3>1
    <3>3. QED BY <1>5, <1>7, <1>8, <1>10, <3>2 DEF is_unit
  <2>3. QED BY <2>1, <2>2
<1>12. update(TrueLit(a), r) BY <1>8, <1>10, <1>11 DEF SeeAtom
<1>13. UnitFor(TrueLit(a), r) BY <1>8, <1>10, <1>11, SeeAtomUnit
<1>14. SameTrail /\ UNCHANGED constraints BY LookingSame DEF Looking
<1>15. QED BY <1>12, <1>13, <1>14 DEF Made

LEMMA PendingMade ==
  ASSUME LraI, [Next]_vars, NEW a \in DOMAIN constraints, NEW r \in RealVars, UnitAt(a, r),
         Pending(a), ~Pending(a)', is_defined(a)'
  PROVE  Made(a, r)
<1>1. AtomFact(a) BY AtomFacts DEF LraI
<1>2. a \in Vars /\ a \in Nat /\ a \notin RealVars BY <1>1 DEF AtomFact
<1>3. CASE SeeAtom /\ a = Head(seen) BY <1>3, SeeAtomMade
<1>4. CASE BacktrackToLevel \/ Restart
  <2>1. PICK l : Cuts(l) BY <1>4, BackCuts
  <2>2. var_level[a] = decision_level BY PendingListed, ListedUnit
  <2>3. is_defined(a) /\ var_level[a] <= l BY <1>2, <2>1 DEF Cuts
  <2>4. var_level[a] \in 0..decision_level
    BY <1>2, <2>3 DEF LraI, LevelsOK
  <2>5. l \in Int /\ decision_level \in Nat
    BY <2>1, TrailLists DEF Cuts, LraI, PluginInv, TrailShape
  <2>6. QED BY <2>1, <2>2, <2>3, <2>4, <2>5 DEF Cuts
<1>5. CASE ~(SeeAtom /\ a = Head(seen)) /\ ~BacktrackToLevel /\ ~Restart
  BY <1>2, <1>5, PendingStays DEF PendingKept
<1>6. QED BY <1>3, <1>4, <1>5

LEMMA DueMade ==
  ASSUME LraI, [Next]_vars, NEW a \in DOMAIN constraints, NEW r \in RealVars, UnitAt(a, r),
         NEW s \in Others(a, r), IsWatched(a, s), Due(s, a), is_defined(s)',
         ~(IsWatched(a, s)' /\ Due(s, a)')
  PROVE  Made(a, r)
<1>1. AtomFact(a) BY AtomFacts DEF LraI
<1>2. s \in RealVars /\ s \in VarsOf(a) /\ s # r /\ s \in Vars /\ r \in Vars /\ r \in VarsOf(a) /\ a \in Members(a, r)
  BY <1>1 DEF AtomFact, UnitAt, Members
<1>3. \A q \in VarsOf(a) : q # r => is_defined(q)
  BY <1>1 DEF AtomFact, UnitAt, Members
<1>4. is_defined(a) BY <1>2 DEF UnitAt
<1>5. Visits(a) BY <1>2, DueStays DEF DueKept, is_defined
<1>6. AtWatch BY <1>5 DEF Visits, VisitAssigned, VisitUnit, MoveWatch
<1>7. PICK vs : vs = Reordered(a) OBVIOUS
<1>8. Visit(a, vs) BY <1>5, <1>6, <1>7, Visiting DEF Visits
<1>9. walk > 0 BY <1>6 DEF AtWatch, walking
<1>10. s = Walked /\ OnTop(Walked) BY <1>8, <1>9, WalkedDue DEF Visit
<1>11. Len(vs) \in Nat /\ Len(vs) >= 1 /\ VarsOf(a) = {vs[k] : k \in 1..Len(vs)}
       /\ \A p, q \in 1..Len(vs) : vs[p] = vs[q] => p = q
  BY <1>8 DEF Visit
<1>12. 1 \in 1..Len(vs) /\ vs[1] \in VarsOf(a) BY <1>11
<1>13. ~is_defined(vs[1])
  <2>1. SUFFICES ASSUME is_defined(vs[1])
                 PROVE  FALSE
    OBVIOUS
  <2>2. AllDefined(a) BY <1>8, <2>1 DEF Visit
  <2>3. is_defined(r) BY <1>2, <2>2 DEF AllDefined
  <2>4. var_level[s] < var_level[r] BY <2>3 DEF UnitAt, Members
  <2>5. var_level[s] = decision_level /\ var_level[r] \in 0..decision_level
    BY <1>2, <1>10, <2>3 DEF OnTop, LraI, LevelsOK
  <2>6. decision_level \in Nat
    BY TrailLists DEF LraI, PluginInv, TrailShape
  <2>7. QED BY <2>4, <2>5, <2>6
<1>14. vs[1] = r BY <1>3, <1>12, <1>13
<1>15. CASE VisitAssigned
  BY <1>5, <1>7, <1>13, <1>15 DEF VisitAssigned, Visits
<1>16. CASE VisitUnit
  <2>1. a = TheWatch.atom BY <1>5 DEF Visits
  <2>2. update(TrueLit(a), r)
    BY <1>4, <1>7, <1>14, <1>16, <2>1 DEF VisitUnit
  <2>3. UnitFor(TrueLit(a), r)
    BY <1>4, <1>7, <1>14, <1>16, <2>1, VisitUnitUnit
  <2>4. SameTrail /\ UNCHANGED constraints
    BY <1>16, LookingSame DEF Looking
  <2>5. QED BY <2>2, <2>3, <2>4 DEF Made
<1>17. CASE MoveWatch
  <2>1. PICK b, us, p : Moves(b, us, p) BY <1>17, MoveWatchMoves
  <2>2. b = a /\ Visit(b, us)
    BY <1>5, <2>1 DEF Visits, Moves, Visit, TheWatch
  <2>3. /\ ~is_defined(us[1]) /\ ~is_defined(us[p]) /\ p \in 3..Len(us)
        /\ Len(us) \in Nat /\ VarsOf(a) = {us[k] : k \in 1..Len(us)}
        /\ \A k, l \in 1..Len(us) : us[k] = us[l] => k = l
    BY <2>1, <2>2 DEF Moves, Visit
  <2>4. 1 \in 1..Len(us) /\ p \in 1..Len(us) /\ p # 1 BY <2>3
  <2>5. us[1] # us[p] /\ us[1] \in VarsOf(a) /\ us[p] \in VarsOf(a)
    BY <2>3, <2>4
  <2>6. QED BY <1>3, <2>3, <2>5
<1>18. QED BY <1>5, <1>15, <1>16, <1>17 DEF Visits

LEMMA RipeCases ==
  ASSUME LraI, [Next]_vars, NEW a \in DOMAIN constraints', NEW r \in RealVars, Ripe(a, r)'
  PROVE  /\ a \in DOMAIN constraints /\ UnitAt(a, r)
         /\ Ripe(a, r) \/ Made(a, r)
<1>1. a \in DOMAIN constraints /\ UnitAt(a, r) BY MembersBefore
<1>2. AtomFact(a) /\ Kept BY <1>1, AtomFacts, NextLevels DEF LraI
<1>3. UnitAt(a, r)' /\ NoneDue(a, r)' /\ ~Pending(a)' BY DEF Ripe
<1>4. Members(a, r)' = Members(a, r) /\ Others(a, r)' = Others(a, r)
  BY <1>1, <1>2, MembersKept DEF AtomFact
<1>5. is_defined(a)' /\ \A s \in Others(a, r) : is_defined(s)'
  BY <1>2, <1>3, <1>4 DEF UnitAt, Members, AtomFact
<1>6. CASE Pending(a) BY <1>1, <1>3, <1>5, <1>6, PendingMade
<1>7. CASE \E s \in Others(a, r) : IsWatched(a, s) /\ Due(s, a)
  <2>1. PICK s \in Others(a, r) : IsWatched(a, s) /\ Due(s, a) BY <1>7
  <2>2. ~(IsWatched(a, s)' /\ Due(s, a)')
    BY <1>3, <1>4, <2>1 DEF NoneDue
  <2>3. QED BY <1>1, <1>5, <2>1, <2>2, DueMade
<1>8. QED BY <1>1, <1>6, <1>7 DEF Ripe, NoneDue

LEMMA UnitsNext ==
  ASSUME ValuesInv, [Next]_vars
  PROVE  UnitsCovered'
<1>1. LraI /\ TruthsOK /\ UnitsCovered BY DEF ValuesInv
<1>2. SUFFICES ASSUME NEW a \in DOMAIN constraints', NEW r \in RealVars, Ripe(a, r)',
                      NEW lit, lit = TrueLit(a)'
               PROVE  Covered(lit, r)'
  BY DEF UnitsCovered
<1>3. a \in DOMAIN constraints /\ UnitAt(a, r) /\ (Ripe(a, r) \/ Made(a, r))
  BY <1>1, <1>2, RipeCases
<1>4. AtomFact(a) /\ Kept BY <1>1, <1>3, AtomFacts, NextLevels DEF LraI
<1>5. Members(a, r)' = Members(a, r) /\ UnitAt(a, r)'
  BY <1>2, <1>3, <1>4, MembersKept DEF AtomFact, Ripe
<1>6. a \in Members(a, r) /\ \A m \in Members(a, r) : m \in Vars /\ is_defined(m) /\ is_defined(m)'
  <2>1. \A m \in Members(a, r) : is_defined(m) /\ is_defined(m)'
    BY <1>3, <1>5 DEF UnitAt
  <2>2. a \in Members(a, r) /\ \A m \in Members(a, r) : m \in Vars
    BY <1>4 DEF Members, AtomFact
  <2>3. QED BY <2>1, <2>2
<1>7. TrueLit(a) = lit BY <1>1, <1>2, <1>3, <1>6, AtomKeeps
<1>8. AtomOf(lit) = a /\ Members(lit, r) = Members(a, r)
  BY <1>4, <1>7 DEF AtomFact, Members
<1>9. CASE Made(a, r) BY <1>1, <1>7, <1>9, CoveredMade DEF Made
<1>10. CASE Ripe(a, r)
  <2>1. Covered(lit, r) BY <1>1, <1>3, <1>7, <1>10 DEF UnitsCovered
  <2>2. Settled(lit, r) BY <1>3, <1>6, <1>8 DEF Settled, is_defined
  <2>3. QED BY <1>1, <2>1, <2>2, CoveredStays
<1>11. QED BY <1>3, <1>9, <1>10

-----------------------------------------------------------------------------
(* Constraints whose variables all have values.                            *)

LEMMA NewValueDefined ==
  ASSUME LraI, [Next]_vars, NEW a, NEW c, NewValues(a, c)
  PROVE  is_defined(a)'
<1>1. CASE SameTrail /\ is_defined(a) BY <1>1 DEF SameTrail, is_defined
<1>2. CASE AtomGets(a, Truth(Satisfied(c, model)), LevelOf(DOMAIN c.coef))
  <2>1. NewLevels(a, LevelOf(DOMAIN c.coef)) /\ a \in Vars
    BY <1>2, GetsModel DEF AtomGets, Gets
  <2>2. QED BY <2>1 DEF NewLevels
<1>3. QED BY <1>1, <1>2 DEF NewValues

\* A constraint that is new has a value.
LEMMA NewAtomDefined ==
  ASSUME LraI, [Next]_vars, NEW a \in DOMAIN constraints', a \notin DOMAIN constraints
  PROVE  is_defined(a)'
<1> USE DEF trailVars, boundVars, watchVars, walkVars, conflictVars
<1>1. Derive
  <2>1. ~Looking BY LookingSame
  <2>2. ~VisitAssigned /\ ~DecideReal /\ ~DecideAtom /\ ~BcpAssign
    BY DEF VisitAssigned, DecideReal, DecideAtom, BcpAssign, LoopUnchanged
  <2>3. ~BacktrackToLevel /\ ~Restart BY BackCuts DEF Cuts
  <2>4. QED BY <2>1, <2>2, <2>3, NextCases
<1>2. PICK p : p = Head(blame.polys) OBVIOUS
<1>3. PICK b, c : b = AtomFor(p) /\ c = Normalized(p) OBVIOUS
<1>4. NewValues(b, c) /\ DOMAIN p.coef \in (SUBSET RealVars) \ {{}} /\ Make(p) /\ AtomFor(p) <= MaxAtoms
  BY <1>1, <1>2, <1>3, DeriveGets
<1>5. /\ ~IsNew(p) => UNCHANGED constraints
      /\ IsNew(p) => b = Len(constraints) + 1 /\ constraints' = Append(constraints, c)
  BY <1>3, <1>4, AtomForKnown
<1>6. \E C : constraints \in Seq(C) BY DEF LraI, FormsOK
<1>7. a = b BY <1>5, <1>6
<1>8. QED BY <1>4, <1>7, NewValueDefined

\* The last variable of a constraint that has all of them is worked through
\* later.
LEMMA DefinedBefore ==
  ASSUME LraI, [Next]_vars, NEW a \in DOMAIN constraints, AllVisited(a)',
         \A s \in VarsOf(a) : is_defined(s)', NEW q \in VarsOf(a)
  PROVE  is_defined(q)
<1> USE DEF trailVars, boundVars, watchVars, walkVars, conflictVars
<1>1. SUFFICES ASSUME ~is_defined(q)
               PROVE  FALSE
  OBVIOUS
<1>2. AtomFact(a) BY AtomFacts DEF LraI
<1>3. q \in RealVars BY <1>2 DEF AtomFact
<1>4. DecideReal BY <1>1, <1>3, NewReal
<1>5. UNCHANGED order BY <1>4 DEF DecideReal
<1>6. PICK p, x : DueAnew(p, x) BY <1>4, DecidedDue
<1>7. \A s \in VarsOf(a) : s # p => is_defined(s)
  BY <1>2, <1>6 DEF DueAnew, NewLevels, AtomFact
<1>8. q = p BY <1>1, <1>7
<1>9. ~IsWatched(a, q)
  <2>1. ~IsWatched(a, q)' BY <1>3, <1>6, <1>8 DEF DueAnew, AllVisited
  <2>2. QED BY <1>5, <2>1 DEF IsWatched
<1>10. PICK vs : vs = order[a] OBVIOUS
<1>11. /\ Len(vs) \in Nat /\ Len(vs) >= 1 /\ VarsOf(a) = {vs[k] : k \in 1..Len(vs)}
       /\ IsWatched(a, vs[1])
  BY <1>10, WatchedFirst
<1>12. vs[1] \in VarsOf(a) /\ vs[1] # q
  <2>1. 1 \in 1..Len(vs) BY <1>11
  <2>2. QED BY <1>9, <1>11, <2>1
<1>13. is_defined(vs[1]) BY <1>7, <1>8, <1>12
<1>14. \A s : ~Due(s, a) BY <1>4, QuietNothing
<1>15. QED BY <1>1, <1>9, <1>11, <1>13, <1>14, NotDueBefore

\* A constraint that is visited with all its variables assigned gets a value.
LEMMA VisitGives ==
  ASSUME LraI, [Next]_vars, NEW a, Visits(a), AllDefined(a)
  PROVE  is_defined(a)'
<1>1. AtWatch /\ a = TheWatch.atom
  BY DEF Visits, VisitAssigned, VisitUnit, MoveWatch
<1>2. PICK vs : vs = Reordered(a) OBVIOUS
<1>3. Visit(a, vs) BY <1>1, <1>2, Visiting
<1>4. is_defined(vs[1])
  <2>1. 1 \in 1..Len(vs) /\ VarsOf(a) = {vs[k] : k \in 1..Len(vs)}
    BY <1>3 DEF Visit
  <2>2. QED BY <2>1 DEF AllDefined
<1>5. ~VisitUnit BY <1>1, <1>2, <1>4 DEF VisitUnit
<1>6. ~MoveWatch BY <1>1, <1>2, <1>4 DEF MoveWatch, Replaceable
<1>7. VisitAssigned BY <1>5, <1>6 DEF Visits
<1>8. NewValues(a, constraints[a]) BY <1>1, <1>7, VisitAssignedGets
<1>9. QED BY <1>8, NewValueDefined

LEMMA ValuesGivenNext ==
  ASSUME ValuesInv, [Next]_vars
  PROVE  ValuesGiven'
<1>1. LraI /\ ValuesGiven /\ ValuesAgree BY DEF ValuesInv
<1>2. SUFFICES ASSUME NEW a \in DOMAIN constraints', AllDefined(a)', AllVisited(a)'
               PROVE  is_defined(a)'
  BY DEF ValuesGiven
<1>3. CASE a \notin DOMAIN constraints
  BY <1>1, <1>2, <1>3, NewAtomDefined
<1>4. CASE a \in DOMAIN constraints
  <2>1. AtomFact(a) /\ Kept /\ TrailStep
    BY <1>1, <1>4, AtomFacts, NextLevels DEF LraI
  <2>2. \A s \in VarsOf(a) : is_defined(s)'
    <3>1. VarsOf(a)' = VarsOf(a) BY <1>4, <2>1, MembersKept DEF AtomFact
    <3>2. QED BY <1>2, <3>1 DEF AllDefined
  <2>3. AllDefined(a)
    BY <1>1, <1>2, <1>4, <2>2, DefinedBefore DEF AllDefined
  <2>4. CASE Visits(a) BY <1>1, <2>3, <2>4, VisitGives
  <2>5. CASE ~Visits(a)
    <3>1. DueKept(a) BY <1>1, <1>4, <2>5, DueStays
    <3>2. ASSUME NEW s \in RealVars, IsWatched(a, s)
          PROVE  ~Due(s, a)
      <4>1. s \in VarsOf(a)
        <5>1. /\ Len(order[a]) \in Nat /\ Len(order[a]) >= 1
              /\ VarsOf(a) = {order[a][k] : k \in 1..Len(order[a])}
              /\ s = order[a][1] \/ (Len(order[a]) > 1 /\ s = order[a][2])
          BY <1>1, <1>4, <3>2, WatchedFirst
        <5>2. 1 \in 1..Len(order[a]) /\ (Len(order[a]) > 1 => 2 \in 1..Len(order[a]))
          BY <5>1
        <5>3. QED BY <5>1, <5>2
      <4>2. QED BY <1>2, <2>2, <3>1, <3>2, <4>1 DEF DueKept, AllVisited, is_defined
    <3>3. is_defined(a)
      BY <1>1, <1>4, <2>3, <3>2 DEF AllVisited, ValuesGiven
    <3>4. PICK r \in VarsOf(a) : var_level[a] <= var_level[r]
      BY <1>1, <1>4, <2>3, <3>3 DEF ValuesAgree
    <3>5. a \in Vars /\ r \in Vars /\ is_defined(r) /\ is_defined(r)'
      BY <2>1, <2>2, <2>3 DEF AtomFact, AllDefined
    <3>6. QED BY <1>1, <2>1, <3>3, <3>4, <3>5, LowerStays
  <2>6. QED BY <2>4, <2>5
<1>5. QED BY <1>3, <1>4
-----------------------------------------------------------------------------
(* An allowed value.                                                       *)

\* x is on the right side of what lit implies for r.
Keeps(lit, r, x) ==
  /\ BoundsFromAbove(lit, r) =>
       x < ValueFor(lit, r) \/ (x = ValueFor(lit, r) /\ ~IsStrict(lit))
  /\ BoundsFromBelow(lit, r) =>
       x > ValueFor(lit, r) \/ (x = ValueFor(lit, r) /\ ~IsStrict(lit))
  /\ IsInequality(lit) => x # ValueFor(lit, r)

LEMMA AllowedKeeps ==
  ASSUME LraI, NEW lit, NEW r \in RealVars, ValueFor(lit, r) \in Int, Covered(lit, r),
         NEW x \in Int, is_allowed(r, x)
  PROVE  Keeps(lit, r, x)
<1>1. PICK V : V = ValueFor(lit, r) OBVIOUS
<1>2. V \in Int BY <1>1
<1>3. ASSUME BoundsFromAbove(lit, r)
      PROVE  x < V \/ (x = V /\ ~IsStrict(lit))
  <2>1. PICK part : part = upper_bound(r) OBVIOUS
  <2>2. ServedBy(TRUE, lit, r) /\ part = Pruned(StackOf(r, TRUE), r)
    BY <1>3, <2>1 DEF Covered, upper_bound, StackOf
  <2>3. part # << >> /\ LiveIn(Last(part), StackOf(r, TRUE), r) /\ NoWorse(TRUE, Last(part), lit, r)
    BY <2>2, TopIsBest
  <2>4. PICK e : e = Last(part) OBVIOUS
  <2>5. e.value \in Int
    <3>1. StackOf(r, TRUE) \in Seq(Implieds)
      BY DEF LraI, StacksOK, StackOf
    <3>2. PICK stack \in Seq(Implieds) : stack = StackOf(r, TRUE)
      BY <3>1
    <3>3. PICK k \in DOMAIN stack : e = stack[k]
      BY <2>3, <2>4, <3>2 DEF LiveIn, ToSet
    <3>4. e \in Implieds
      <4>1. PICK I : I = Implieds OBVIOUS
      <4>2. stack \in Seq(I) /\ e = stack[k] /\ k \in DOMAIN stack
        BY <3>2, <3>3, <4>1
      <4>3. QED BY <4>1, <4>2
    <3>5. QED BY <3>4 DEF Implieds
  <2>6. x < e.value \/ (x = e.value /\ ~IsStrict(e.lit))
    BY <2>1, <2>3, <2>4 DEF is_allowed, BelowUpper
  <2>7. ~(V < e.value) /\ ~(V = e.value /\ IsStrict(lit) /\ ~IsStrict(e.lit))
    BY <1>1, <2>3, <2>4 DEF NoWorse, Better
  <2>8. QED BY <1>2, <2>5, <2>6, <2>7
<1>4. ASSUME BoundsFromBelow(lit, r)
      PROVE  x > V \/ (x = V /\ ~IsStrict(lit))
  <2>1. PICK part : part = lower_bound(r) OBVIOUS
  <2>2. ServedBy(FALSE, lit, r) /\ part = Pruned(StackOf(r, FALSE), r)
    BY <1>4, <2>1 DEF Covered, lower_bound, StackOf
  <2>3. part # << >> /\ LiveIn(Last(part), StackOf(r, FALSE), r) /\ NoWorse(FALSE, Last(part), lit, r)
    BY <2>2, TopIsBest
  <2>4. PICK e : e = Last(part) OBVIOUS
  <2>5. e.value \in Int
    <3>1. StackOf(r, FALSE) \in Seq(Implieds)
      BY DEF LraI, StacksOK, StackOf
    <3>2. PICK stack \in Seq(Implieds) : stack = StackOf(r, FALSE)
      BY <3>1
    <3>3. PICK k \in DOMAIN stack : e = stack[k]
      BY <2>3, <2>4, <3>2 DEF LiveIn, ToSet
    <3>4. e \in Implieds
      <4>1. PICK I : I = Implieds OBVIOUS
      <4>2. stack \in Seq(I) /\ e = stack[k] /\ k \in DOMAIN stack
        BY <3>2, <3>3, <4>1
      <4>3. QED BY <4>1, <4>2
    <3>5. QED BY <3>4 DEF Implieds
  <2>6. e.value < x \/ (e.value = x /\ ~IsStrict(e.lit))
    BY <2>1, <2>3, <2>4 DEF is_allowed, AboveLower
  <2>7. ~(V > e.value) /\ ~(V = e.value /\ IsStrict(lit) /\ ~IsStrict(e.lit))
    BY <1>1, <2>3, <2>4 DEF NoWorse, Better
  <2>8. QED BY <1>2, <2>5, <2>6, <2>7
<1>5. ASSUME IsInequality(lit), x = V
      PROVE  FALSE
  <2>1. PICK e \in ToSet(bounds[r].disallowed) : Serves(e, lit, r) /\ e.value = V
    BY <1>1, <1>5 DEF Covered
  <2>2. QED BY <1>5, <2>1 DEF is_allowed, Serves
<1>6. QED BY <1>1, <1>3, <1>4, <1>5 DEF Keeps

\* The sum of a constraint is off its right side as far as r is off the value
\* implied for it.
LEMMA SumOff ==
  ASSUME LraI, NEW lit, NEW r \in RealVars, LitMembers(lit, r), NEW x \in Int,
         NEW rho, rho[r] = x, \A s \in Others(lit, r) : rho[s] = model[s],
         NEW c, c = Constraint(lit), NEW sum, sum = WeightedSum(c.coef, DOMAIN c.coef, rho)
  PROVE  /\ sum \in Int /\ c.rhs \in Int /\ c.coef[r] \in {1, -1}
         /\ c.coef[r] = 1 => sum - c.rhs = x - ValueFor(lit, r)
         /\ c.coef[r] = -1 => sum - c.rhs = ValueFor(lit, r) - x
<1>1. FormOf(c) /\ VarsOf(lit) = DOMAIN c.coef /\ r \in DOMAIN c.coef
  BY Forms DEF LitMembers, Constraint, VarsOf, LraI
<1> DEFINE D == DOMAIN c.coef
<1>2. IsFiniteSet(D) /\ \A s \in D : c.coef[s] \in Int
  BY <1>1 DEF FormOf
<1>3. \A s \in D \ {r} : rho[s] = model[s] /\ model[s] \in Int
  <2>1. \A s \in D \ {r} : s \in Members(lit, r) /\ s \in Others(lit, r)
    BY <1>1 DEF Members, Others
  <2>2. \A s \in D \ {r} : s \in Vars /\ is_defined(s)
    BY <2>1 DEF LitMembers
  <2>3. QED BY <2>1, <2>2, ValuesAreInt
<1>4. \A s \in D : c.coef[s] \in Int /\ rho[s] \in Int BY <1>2, <1>3
<1>5. PICK rest : rest = WeightedSum(c.coef, D \ {r}, model) OBVIOUS
<1>6. rest = WeightedSum(c.coef, D \ {r}, rho) BY <1>3, <1>5, SumSame
<1>7. sum = c.coef[r] * x + rest BY <1>1, <1>2, <1>4, <1>6, SumSplit
<1>8. rest \in Int
  <2>1. IsFiniteSet(D \ {r}) BY <1>2, FS_Subset
  <2>2. QED BY <1>4, <1>6, <2>1, SumType
<1>9. ValueFor(lit, r) = c.coef[r] * (c.rhs - rest)
  BY <1>5 DEF ValueFor, ImpliedValue
<1>10. c.coef[r] \in {1, -1} /\ c.rhs \in Int BY <1>1 DEF FormOf
<1> HIDE DEF D
<1>11. CASE c.coef[r] = 1
  <2>1. ValueFor(lit, r) = c.rhs - rest /\ sum = x + rest
    BY <1>7, <1>8, <1>9, <1>10, <1>11
  <2>2. QED BY <1>8, <1>10, <1>11, <2>1
<1>12. CASE c.coef[r] = -1
  <2>1. ValueFor(lit, r) = rest - c.rhs /\ sum = rest - x
    BY <1>7, <1>8, <1>9, <1>10, <1>12
  <2>2. QED BY <1>8, <1>10, <1>12, <2>1
<1>13. QED BY <1>10, <1>11, <1>12

\* A value that keeps to what lit says makes it hold.
LEMMA KeepsHold ==
  ASSUME LraI, NEW lit \in Int, lit # 0, NEW r \in RealVars, LitMembers(lit, r),
         NEW x \in Int, Keeps(lit, r, x),
         NEW rho, rho[r] = x, \A s \in Others(lit, r) : rho[s] = model[s]
  PROVE  Satisfied(Constraint(lit), rho) <=> lit > 0
<1>1. PICK c : c = Constraint(lit) OBVIOUS
<1>2. PICK sum : sum = WeightedSum(c.coef, DOMAIN c.coef, rho) OBVIOUS
<1>3. PICK V : V = ValueFor(lit, r) OBVIOUS
<1>4. V \in Int BY <1>3, ValueIsInt
<1>5. /\ sum \in Int /\ c.rhs \in Int /\ c.coef[r] \in {1, -1}
      /\ c.coef[r] = 1 => sum - c.rhs = x - V
      /\ c.coef[r] = -1 => sum - c.rhs = V - x
  BY <1>1, <1>2, <1>3, SumOff
<1>6. Satisfied(c, rho) = Holds(c.pred, sum, c.rhs)
  BY <1>2 DEF Satisfied
<1>7. c.pred \in {"eq", "lt", "leq"}
  <2>1. FormOf(c) BY <1>1, Forms DEF LitMembers, Constraint, LraI
  <2>2. QED BY <2>1 DEF FormOf
<1>8. /\ BoundsFromAbove(lit, r) => x < V \/ (x = V /\ ~IsStrict(lit))
      /\ BoundsFromBelow(lit, r) => x > V \/ (x = V /\ ~IsStrict(lit))
      /\ IsInequality(lit) => x # V
  BY <1>3 DEF Keeps
<1>9. CASE c.pred = "eq"
  <2>1. Holds(c.pred, sum, c.rhs) <=> sum = c.rhs BY <1>9 DEF Holds
  <2>2. sum = c.rhs <=> x = V BY <1>4, <1>5
  <2>3. lit > 0 => x = V
    <3>1. lit > 0 => BoundsFromAbove(lit, r) /\ BoundsFromBelow(lit, r)
      BY <1>1, <1>9 DEF BoundsFromAbove, BoundsFromBelow, IsEquality
    <3>2. QED BY <1>4, <1>8, <3>1
  <2>4. lit < 0 => x # V BY <1>1, <1>8, <1>9 DEF IsInequality
  <2>5. QED BY <1>1, <1>6, <2>1, <2>2, <2>3, <2>4
<1>10. CASE c.pred = "lt"
  <2>1. Holds(c.pred, sum, c.rhs) <=> sum < c.rhs BY <1>10 DEF Holds
  <2>2. IsStrict(lit) <=> lit > 0 BY <1>1, <1>10 DEF IsStrict
  <2>3. CASE c.coef[r] = 1
    <3>1. sum < c.rhs <=> x < V BY <1>4, <1>5, <2>3
    <3>2. (lit > 0 => BoundsFromAbove(lit, r)) /\ (lit < 0 => BoundsFromBelow(lit, r))
      BY <1>1, <1>10, <2>3 DEF BoundsFromAbove, BoundsFromBelow
    <3>3. QED BY <1>1, <1>4, <1>6, <1>8, <2>1, <2>2, <3>1, <3>2
  <2>4. CASE c.coef[r] = -1
    <3>1. sum < c.rhs <=> x > V BY <1>4, <1>5, <2>4
    <3>2. (lit > 0 => BoundsFromBelow(lit, r)) /\ (lit < 0 => BoundsFromAbove(lit, r))
      BY <1>1, <1>10, <2>4 DEF BoundsFromAbove, BoundsFromBelow
    <3>3. QED BY <1>1, <1>4, <1>6, <1>8, <2>1, <2>2, <3>1, <3>2
  <2>5. QED BY <1>5, <2>3, <2>4
<1>11. CASE c.pred = "leq"
  <2>1. Holds(c.pred, sum, c.rhs) <=> sum <= c.rhs BY <1>11 DEF Holds
  <2>2. IsStrict(lit) <=> lit < 0 BY <1>1, <1>11 DEF IsStrict
  <2>3. CASE c.coef[r] = 1
    <3>1. sum <= c.rhs <=> x <= V BY <1>4, <1>5, <2>3
    <3>2. (lit > 0 => BoundsFromAbove(lit, r)) /\ (lit < 0 => BoundsFromBelow(lit, r))
      BY <1>1, <1>11, <2>3 DEF BoundsFromAbove, BoundsFromBelow
    <3>3. QED BY <1>1, <1>4, <1>6, <1>8, <2>1, <2>2, <3>1, <3>2
  <2>4. CASE c.coef[r] = -1
    <3>1. sum <= c.rhs <=> x >= V BY <1>4, <1>5, <2>4
    <3>2. (lit > 0 => BoundsFromBelow(lit, r)) /\ (lit < 0 => BoundsFromAbove(lit, r))
      BY <1>1, <1>11, <2>4 DEF BoundsFromAbove, BoundsFromBelow
    <3>3. QED BY <1>1, <1>4, <1>6, <1>8, <2>1, <2>2, <3>1, <3>2
  <2>5. QED BY <1>5, <2>3, <2>4
<1>12. QED BY <1>7, <1>9, <1>10, <1>11
-----------------------------------------------------------------------------
(* Constraints and their variables agree.                                  *)

\* The value of a is what its variables give it.
Agrees(a) == model[a] = Truth(TRUE) <=> Satisfied(constraints[a], model)

LEMMA AgreesIs ==
  ASSUME FormsOK, NEW a \in DOMAIN constraints, AtomFact(a)
  PROVE  /\ True(a) <=> model[a] = Truth(TRUE)
         /\ HoldsIn(a, model) <=> Satisfied(constraints[a], model)
         /\ TrueLit(a) > 0 <=> model[a] = Truth(TRUE)
         /\ True(a) = HoldsIn(a, model) <=> Agrees(a)
<1>1. AtomOf(a) = a /\ a \in Nat \ {0} /\ Constraint(a) = constraints[a]
  BY DEF AtomFact
<1>2. a > 0 /\ ~(-a > 0) BY <1>1
<1>3. True(a) <=> model[a] = Truth(TRUE) BY <1>1, <1>2 DEF True, Truth
<1>4. HoldsIn(a, model) <=> Satisfied(constraints[a], model)
  <2>1. Satisfied(constraints[a], model) \in BOOLEAN
    <3>1. constraints[a].pred \in {"eq", "lt", "leq"}
      BY Forms DEF FormOf
    <3>2. PICK pred, x, y : Satisfied(constraints[a], model) = Holds(pred, x, y) /\ pred = constraints[a].pred
      BY DEF Satisfied
    <3>3. CASE pred = "eq" BY <3>2, <3>3 DEF Holds
    <3>4. CASE pred = "lt" BY <3>2, <3>4 DEF Holds
    <3>5. CASE pred = "leq" BY <3>2, <3>5 DEF Holds
    <3>6. QED BY <3>1, <3>2, <3>3, <3>4, <3>5
  <2>2. HoldsIn(a, model) = (Satisfied(constraints[a], model) = TRUE)
    BY <1>1, <1>2 DEF HoldsIn
  <2>3. QED BY <2>1, <2>2
<1>5. TrueLit(a) > 0 <=> model[a] = Truth(TRUE)
  BY <1>2, <1>3 DEF TrueLit
<1>6. QED BY <1>3, <1>4, <1>5 DEF Agrees, HoldsIn, True

LEMMA SatisfiedSame ==
  ASSUME NEW c, NEW rho, NEW other, \A r \in DOMAIN c.coef : rho[r] = other[r]
  PROVE  Satisfied(c, rho) <=> Satisfied(c, other)
BY SumSame DEF Satisfied

\* What ValuesAgree says of a.
Fits(a) == Agrees(a) /\ \E r \in VarsOf(a) : var_level[a] <= var_level[r]

AgreeAsFits == ValuesAgree <=> \A a \in DOMAIN constraints : AllDefined(a) /\ is_defined(a) => Fits(a)

LEMMA FitsAgree ==
  LraI => AgreeAsFits
BY AtomFacts, AgreesIs DEF LraI, ValuesAgree, Fits, AgreeAsFits

LEMMA FitsAgreeNext ==
  LraI' => AgreeAsFits'
BY FitsAgree, PTL

\* A constraint that gets the value of its variables fits.
LEMMA ValuedFits ==
  ASSUME LraI, [Next]_vars, NEW a, NEW c, Valued(a, c)
  PROVE  Fits(a)'
<1>1. /\ a \in DOMAIN constraints' /\ constraints'[a] = c /\ a \in Vars
      /\ DOMAIN c.coef \in (SUBSET RealVars) \ {{}} /\ \A s \in DOMAIN c.coef : is_defined(s)
      /\ NewLevels(a, LevelOf(DOMAIN c.coef)) /\ ~is_defined(a)
      /\ model'[a] = Truth(Satisfied(c, model))
  BY DEF Valued, NewValues
<1>2. AtomFact(a)' BY <1>1, NextLevels, AtomFactsNext
<1>3. VarsOf(a)' = DOMAIN c.coef BY <1>1, <1>2 DEF AtomFact
<1>4. \A s \in DOMAIN c.coef : s \in Vars /\ s # a
  BY <1>1, PluginAssumption
<1>5. \A s \in DOMAIN c.coef : model'[s] = model[s] /\ var_level'[s] = var_level[s]
  BY <1>1, <1>4 DEF NewLevels
<1>6. PICK rho : rho = model' OBVIOUS
<1>7. Satisfied(c, rho) <=> Satisfied(c, model)
  BY <1>5, <1>6, SatisfiedSame
<1>8. Agrees(a)' BY <1>1, <1>6, <1>7 DEF Agrees, Truth
<1>9. PICK r \in DOMAIN c.coef : var_level[r] = LevelOf(DOMAIN c.coef)
  BY <1>1, LevelOfLast
<1>10. LevelOf(DOMAIN c.coef) \in Int BY <1>1, LevelOfLast
<1>11. var_level'[a] <= var_level'[r]
  BY <1>1, <1>5, <1>9, <1>10 DEF NewLevels
<1>12. QED BY <1>3, <1>8, <1>9, <1>11 DEF Fits

\* The solving loop has no constraint left to guess whose variables have values.
LEMMA NoGuess ==
  ASSUME LraI, ValuesGiven, [Next]_vars, NEW a, NEW b, Guessed(a, b), AllDefined(a)'
  PROVE  FALSE
<1>1. LoopGets(a, b) /\ NewLevels(a, decision_level') BY DEF Guessed
<1>2. a \in DOMAIN constraints /\ ~is_defined(a) BY <1>1 DEF LoopGets
<1>3. AtomFact(a) /\ Kept BY <1>2, AtomFacts, NextLevels DEF LraI
<1>4. VarsOf(a)' = VarsOf(a) BY <1>2, <1>3, MembersKept DEF AtomFact
<1>5. \A s \in VarsOf(a) : s \in Vars /\ s # a BY <1>3 DEF AtomFact
<1>6. AllDefined(a) BY <1>1, <1>4, <1>5 DEF AllDefined, NewLevels
<1>7. \A s : ~Due(s, a) BY QuietNothing DEF Guessed
<1>8. QED BY <1>2, <1>6, <1>7 DEF ValuesGiven, AllVisited

\* An old constraint and its variables, as they were.
LEMMA OldFits ==
  ASSUME LraI, [Next]_vars, NEW a \in DOMAIN constraints, is_defined(a), AllDefined(a), Fits(a),
         is_defined(a)', AllDefined(a)'
  PROVE  Fits(a)'
<1>1. AtomFact(a) /\ Kept /\ TrailStep BY AtomFacts, NextLevels DEF LraI
<1>2. VarsOf(a)' = VarsOf(a) /\ constraints'[a] = constraints[a]
  BY <1>1, MembersKept DEF AtomFact, Kept
<1>3. \A s \in VarsOf(a) : s \in Vars /\ is_defined(s) /\ is_defined(s)'
  BY <1>1, <1>2 DEF AllDefined, AtomFact
<1>4. \A s \in VarsOf(a) : model'[s] = model[s] /\ var_level'[s] = var_level[s]
  BY <1>1, <1>3, StepSame
<1>5. model'[a] = model[a] /\ var_level'[a] = var_level[a] BY AtomKeeps
<1>6. PICK c, rho : c = constraints[a] /\ rho = model' OBVIOUS
<1>7. VarsOf(a) = DOMAIN c.coef BY <1>1, <1>6 DEF AtomFact
<1>8. Satisfied(c, rho) <=> Satisfied(c, model)
  BY <1>4, <1>6, <1>7, SatisfiedSame
<1>9. Agrees(a)' BY <1>2, <1>5, <1>6, <1>8 DEF Agrees, Fits
<1>10. QED BY <1>2, <1>4, <1>5, <1>9 DEF Fits

\* The last variable of a constraint is decided to a value it allows.
LEMMA DecidedFits ==
  ASSUME ValuesInv, [Next]_vars, NEW a \in DOMAIN constraints, is_defined(a), is_defined(a)',
         AllDefined(a)', NEW q \in VarsOf(a), ~is_defined(q)
  PROVE  Fits(a)'
<1> USE DEF trailVars, boundVars, watchVars, walkVars, conflictVars
<1>1. LraI /\ TruthsOK /\ UnitsCovered BY DEF ValuesInv
<1>2. AtomFact(a) /\ Kept BY <1>1, AtomFacts, NextLevels DEF LraI
<1>3. VarsOf(a)' = VarsOf(a) /\ constraints'[a] = constraints[a]
  BY <1>2, MembersKept DEF AtomFact, Kept
<1>4. \A s \in VarsOf(a) : is_defined(s)' /\ s \in Vars /\ s \in RealVars /\ s # a
  BY <1>2, <1>3 DEF AllDefined, AtomFact
<1>5. DecideReal BY <1>1, <1>4, NewReal
<1>6. PICK p, x : DueAnew(p, x) BY <1>1, <1>5, DecidedDue
<1>7. p = q BY <1>4, <1>6 DEF DueAnew, NewLevels
<1>8. /\ model'[q] = x /\ var_level'[q] = decision_level + 1 /\ is_allowed(q, x) /\ x \in Int
      /\ q \in RealVars
      /\ \A s \in VarsOf(a) : s # q => is_defined(s) /\ model'[s] = model[s]
  BY <1>4, <1>6, <1>7, PluginAssumption DEF DueAnew, NewLevels
<1>9. UnitAt(a, q) BY <1>2, <1>8 DEF UnitAt, Members, AtomFact
<1>10. ~Pending(a)
  <2>1. pc = "decide" BY <1>5 DEF DecideReal
  <2>2. seen = << >> /\ Unseen = << >> BY <1>1, <2>1 DEF LraI, PlacesOK
  <2>3. QED BY <2>2 DEF Pending
<1>11. NoneDue(a, q) BY <1>1, <1>5, QuietNothing DEF NoneDue
<1>12. PICK lit : lit = TrueLit(a) OBVIOUS
<1>13. Covered(lit, q)
  BY <1>1, <1>8, <1>9, <1>10, <1>11, <1>12 DEF UnitsCovered, Ripe
<1>14. lit \in Int /\ lit # 0 /\ AtomOf(lit) = a /\ Members(lit, q) = Members(a, q) /\ VarsOf(lit) = VarsOf(a)
       /\ Others(lit, q) = VarsOf(a) \ {q} /\ Constraint(lit) = constraints[a]
  BY <1>2, <1>12 DEF AtomFact, Members
<1>15. LitMembers(lit, q)
  <2>1. \A m \in Members(a, q) : m \in Vars /\ is_defined(m)
    BY <1>2, <1>4, <1>9 DEF UnitAt, Members, AtomFact
  <2>2. \A m \in Members(a, q) : var_level[m] \in 0..decision_level
    BY <1>1, <2>1 DEF LraI, LevelsOK
  <2>3. QED BY <1>14, <2>1, <2>2 DEF LitMembers
<1>16. Keeps(lit, q, x)
  BY <1>1, <1>8, <1>13, <1>15, AllowedKeeps, ValueIsInt
<1>17. PICK rho : rho = model' OBVIOUS
<1>18. Satisfied(Constraint(lit), rho) <=> lit > 0
  BY <1>1, <1>8, <1>14, <1>15, <1>16, <1>17, KeepsHold
<1>19. lit > 0 <=> model[a] = Truth(TRUE)
  BY <1>1, <1>2, <1>12, AgreesIs DEF LraI
<1>20. model'[a] = model[a] /\ var_level'[a] = var_level[a]
  BY <1>1, AtomKeeps
<1>21. Agrees(a)' BY <1>3, <1>14, <1>17, <1>18, <1>19, <1>20 DEF Agrees
<1>22. var_level'[a] <= var_level'[q]
  <2>1. var_level[a] \in 0..decision_level
    BY <1>1, <1>2 DEF LraI, LevelsOK, AtomFact
  <2>2. decision_level \in Nat BY <1>6 DEF DueAnew
  <2>3. QED BY <1>8, <1>20, <2>1, <2>2
<1>23. QED BY <1>3, <1>21, <1>22 DEF Fits

LEMMA ValuesAgreeNext ==
  ASSUME ValuesInv, [Next]_vars
  PROVE  ValuesAgree'
<1>1. LraI /\ ValuesGiven /\ ValuesAgree BY DEF ValuesInv
<1>2. LraI' BY <1>1, LraNext
<1>3. SUFFICES ASSUME NEW a \in DOMAIN constraints', AllDefined(a)', is_defined(a)'
               PROVE  Fits(a)'
  BY <1>2, FitsAgreeNext DEF AgreeAsFits
<1>4. CASE \E c : Valued(a, c) BY <1>1, <1>4, ValuedFits
<1>5. CASE \E b : Guessed(a, b) BY <1>1, <1>3, <1>5, NoGuess
<1>6. CASE a \in DOMAIN constraints /\ is_defined(a)
  <2>1. CASE AllDefined(a)
    <3>1. Fits(a) BY <1>1, <1>6, <2>1, FitsAgree DEF AgreeAsFits
    <3>2. QED BY <1>1, <1>3, <1>6, <2>1, <3>1, OldFits
  <2>2. CASE ~AllDefined(a)
    BY <1>3, <1>6, <2>2, DecidedFits DEF AllDefined
  <2>3. QED BY <2>1, <2>2
<1>7. QED BY <1>1, <1>3, <1>4, <1>5, <1>6, AtomValued

LEMMA ValuesNext ==
  ASSUME ValuesInv, [Next]_vars
  PROVE  ValuesInv'
<1>1. LraI' BY LraNext DEF ValuesInv
<1>2. TruthsOK' BY TruthsNext DEF ValuesInv
<1>3. QED BY <1>1, <1>2, ValuesAgreeNext, ValuesGivenNext, EntriesRightNext, UnitsNext DEF ValuesInv

LEMMA ValuesInit ==
  ASSUME Init
  PROVE  ValuesInv
<1>1. LraI BY LraInit
<1>2. \A v \in Vars : ~is_defined(v) BY DEF Init, TrailInit, is_defined
<1>3. ASSUME NEW a \in DOMAIN constraints
      PROVE  ~is_defined(a) /\ ~AllDefined(a) /\ \A r : ~UnitAt(a, r)
  <2>1. AtomFact(a) BY <1>1, AtomFacts DEF LraI
  <2>2. a \in Vars /\ VarsOf(a) # {} /\ \A s \in VarsOf(a) : s \in Vars
    BY <2>1 DEF AtomFact
  <2>3. AtomOf(a) = a BY <2>1 DEF AtomFact
  <2>4. QED BY <1>2, <2>2, <2>3 DEF AllDefined, UnitAt, Members
<1>4. ASSUME NEW r \in RealVars
      PROVE  Entries(r) = {}
  <2>1. bounds[r] = [ub |-> << >>, lb |-> << >>, disallowed |-> << >>]
    BY DEF Init, BoundsInit
  <2>2. ToSet(<< >>) = {} BY DEF ToSet
  <2>3. bounds[r].ub = << >> /\ bounds[r].lb = << >> /\ bounds[r].disallowed = << >>
    BY <2>1
  <2>4. QED BY <2>2, <2>3 DEF Entries
<1>5. TruthsOK /\ ValuesAgree /\ ValuesGiven /\ UnitsCovered
  BY <1>3 DEF TruthsOK, ValuesAgree, ValuesGiven, UnitsCovered, Ripe
<1>6. EntriesRight BY <1>4 DEF EntriesRight
<1>7. QED BY <1>1, <1>5, <1>6 DEF ValuesInv

-----------------------------------------------------------------------------
(* What the invariant says of a fixpoint.                                  *)

LEMMA InvPropagation ==
  ASSUME ValuesInv
  PROVE  SemanticPropagation
<1>1. SUFFICES ASSUME quiet, NEW a \in DOMAIN constraints, AllDefined(a)
               PROVE  /\ is_defined(a) /\ True(a) = HoldsIn(a, model)
                      /\ \E r \in VarsOf(a) : var_level[a] <= var_level[r]
  BY DEF SemanticPropagation, AllDefined
<1>2. \A s, b : ~Due(s, b) BY <1>1, NothingDue DEF ValuesInv, quiet
<1>3. is_defined(a) BY <1>1, <1>2 DEF ValuesInv, ValuesGiven, AllVisited
<1>4. QED BY <1>1, <1>3 DEF ValuesInv, ValuesAgree

\* Where a value is to be decided, everything has been looked at.
LEMMA UnitIsCovered ==
  ASSUME ValuesInv, pc = "decide", NEW r \in RealVars, ~is_defined(r), NEW lit \in UnitsOf(r)
  PROVE  Covered(lit, r) /\ ValueFor(lit, r) \in Int
<1>1. LraI /\ UnitsCovered BY DEF ValuesInv
<1>2. PICK a \in DOMAIN constraints : is_defined(a) /\ lit = TrueLit(a)
  BY DEF UnitsOf
<1>3. AtomFact(a) BY <1>1, AtomFacts DEF LraI
<1>4. {s \in VarsOf(lit) : ~is_defined(s)} = {r} BY DEF UnitsOf
<1>5. r \in VarsOf(a) /\ \A s \in VarsOf(a) : s # r => is_defined(s)
  BY <1>2, <1>3, <1>4 DEF AtomFact
<1>6. UnitAt(a, r) BY <1>2, <1>3, <1>5 DEF UnitAt, Members, AtomFact
<1>7. ~Pending(a)
  <2>1. seen = << >> /\ Unseen = << >> BY <1>1 DEF LraI, PlacesOK
  <2>2. QED BY <2>1 DEF Pending
<1>8. NoneDue(a, r) BY <1>1, NothingDue DEF NoneDue
<1>9. Covered(lit, r)
  BY <1>1, <1>2, <1>6, <1>7, <1>8 DEF UnitsCovered, Ripe
<1>10. LitMembers(lit, r)
  <2>1. AtomOf(lit) = a /\ VarsOf(lit) = VarsOf(a) /\ Members(lit, r) = {a} \cup (VarsOf(a) \ {r})
    BY <1>2, <1>3 DEF AtomFact, Members
  <2>2. \A m \in Members(lit, r) : m \in Vars /\ is_defined(m)
    BY <1>2, <1>3, <1>5, <2>1 DEF AtomFact
  <2>3. \A m \in Members(lit, r) : var_level[m] \in 0..decision_level
    BY <1>1, <2>2 DEF LraI, LevelsOK
  <2>4. QED BY <1>5, <2>1, <2>2, <2>3 DEF LitMembers
<1>11. QED BY <1>1, <1>9, <1>10, ValueIsInt

\* What is in force is about a true constraint that lacks r.
LEMMA LiveIsUnit ==
  ASSUME LraI, NEW r \in RealVars, ~is_defined(r), NEW e \in Entries(r), ~IsObsolete(e, r)
  PROVE  e.lit \in UnitsOf(r)
<1>1. EntryOK(e, r) BY LiveEntry
<1>2. PICK lit, a : lit = e.lit /\ a = AtomOf(lit) OBVIOUS
<1>3. a \in DOMAIN constraints /\ r \in VarsOf(lit) /\ True(lit) /\ \A s \in Others(lit, r) : is_defined(s)
  BY <1>1, <1>2 DEF EntryOK
<1>4. AtomFact(a) BY <1>3, AtomFacts DEF LraI
<1>5. is_defined(a) BY <1>1, <1>2, MembersDefined DEF Members
<1>6. lit \in Int /\ lit # 0
  <2>1. PICK I : I = Implieds OBVIOUS
  <2>2. bounds[r].ub \in Seq(I) /\ bounds[r].lb \in Seq(I) /\ bounds[r].disallowed \in Seq(I)
    BY <2>1 DEF LraI, StacksOK
  <2>3. PICK list \in Seq(I) : e \in ToSet(list) BY <2>2 DEF Entries
  <2>4. PICK k \in DOMAIN list : e = list[k] BY <2>3 DEF ToSet
  <2>5. e \in I BY <2>4
  <2>6. MaxAtoms \in Nat BY PluginAssumption
  <2>7. QED BY <1>2, <2>1, <2>5, <2>6 DEF Implieds
<1>7. a \in Nat \ {0} /\ AtomOf(a) = a BY <1>4 DEF AtomFact
<1>8. lit = TrueLit(a)
  <2>1. CASE lit > 0
    <3>1. a = lit BY <1>2, <1>6, <2>1 DEF AtomOf
    <3>2. QED BY <1>3, <3>1 DEF TrueLit
  <2>2. CASE lit < 0
    <3>1. a = -lit /\ a > 0 /\ ~(lit > 0) /\ lit = -a
      BY <1>2, <1>6, <2>2 DEF AtomOf
    <3>2. model[a] = Truth(FALSE) BY <1>2, <1>3, <3>1 DEF True, Truth
    <3>3. ~True(a) BY <1>7, <3>1, <3>2 DEF True, Truth
    <3>4. QED BY <3>1, <3>3 DEF TrueLit
  <2>3. QED BY <1>6, <2>1, <2>2
<1>9. {s \in VarsOf(lit) : ~is_defined(s)} = {r} BY <1>3 DEF Others
<1>10. QED BY <1>2, <1>3, <1>5, <1>8, <1>9 DEF UnitsOf

\* The top of a stack and the literals that bound r from that side.
TopFits(top, less, r) ==
  /\ top = << >> <=> {lit \in UnitsOf(r) : BoundsFrom(less, lit, r)} = {}
  /\ \A lit \in UnitsOf(r) : BoundsFrom(less, lit, r) =>
       Last(top).value \in Int /\ ValueFor(lit, r) \in Int /\ NoWorse(less, Last(top), lit, r)

LEMMA TopsFit ==
  ASSUME ValuesInv, pc = "decide", NEW r \in RealVars, ~is_defined(r), NEW less \in BOOLEAN,
         NEW top, top = Pruned(StackOf(r, less), r)
  PROVE  TopFits(top, less, r)
<1>1. LraI BY DEF ValuesInv
<1>2. PICK I : I = Implieds OBVIOUS
<1>3. PICK stack \in Seq(I) : stack = StackOf(r, less)
  BY <1>1, <1>2 DEF LraI, StacksOK, StackOf
<1>4. ASSUME NEW e, LiveIn(e, stack, r)
      PROVE  e.value \in Int /\ e.lit \in UnitsOf(r) /\ BoundsFrom(less, e.lit, r)
  <2>1. PICK k \in DOMAIN stack : e = stack[k] BY <1>4 DEF LiveIn, ToSet
  <2>2. e \in I BY <2>1
  <2>3. e \in Entries(r) BY <1>3, <1>4 DEF LiveIn, Entries, StackOf
  <2>4. e.lit \in UnitsOf(r) BY <1>1, <1>4, <2>3, LiveIsUnit DEF LiveIn
  <2>5. BoundsFrom(less, e.lit, r)
    BY <1>1, <1>3, <1>4 DEF LiveIn, LraI, EntriesAbout, BoundsFrom, StackOf
  <2>6. QED BY <1>2, <2>2, <2>4, <2>5 DEF Implieds
<1>5. ASSUME NEW lit \in UnitsOf(r), BoundsFrom(less, lit, r)
      PROVE  /\ top # << >> /\ LiveIn(Last(top), stack, r) /\ ValueFor(lit, r) \in Int
             /\ NoWorse(less, Last(top), lit, r)
  <2>1. Covered(lit, r) /\ ValueFor(lit, r) \in Int BY UnitIsCovered
  <2>2. ServedBy(less, lit, r) BY <1>5, <2>1 DEF Covered, BoundsFrom
  <2>3. QED BY <1>1, <1>3, <2>1, <2>2, TopIsBest
<1>6. ASSUME top # << >>
      PROVE  \E lit \in UnitsOf(r) : BoundsFrom(less, lit, r)
  <2>1. PICK m : PrunedTo(top, stack, r, m) BY <1>3, PrunedIs
  <2>2. m > 0 /\ m \in DOMAIN stack /\ ~IsObsolete(stack[m], r)
    BY <1>6, <2>1 DEF PrunedTo
  <2>3. LiveIn(stack[m], stack, r) BY <2>2 DEF LiveIn, ToSet
  <2>4. QED BY <1>4, <2>3
<1>7. QED BY <1>4, <1>5, <1>6 DEF TopFits

\* The disallowed values.
LEMMA DisallowedFit ==
  ASSUME ValuesInv, pc = "decide", NEW r \in RealVars, ~is_defined(r)
  PROVE  {e.value : e \in ToSet(InForce(bounds[r].disallowed, r))} =
           {ValueFor(lit, r) : lit \in {l \in UnitsOf(r) : IsInequality(l)}}
<1>1. LraI /\ EntriesRight BY DEF ValuesInv
<1>2. PICK list : list = bounds[r].disallowed OBVIOUS
<1>3. list \in Seq(Implieds) BY <1>1, <1>2 DEF LraI, StacksOK
<1>4. \A e : e \in ToSet(InForce(list, r)) <=> e \in ToSet(list) /\ ~IsObsolete(e, r)
  BY <1>3, InForceIs
<1>5. ASSUME NEW e \in ToSet(InForce(list, r))
      PROVE  e.lit \in UnitsOf(r) /\ IsInequality(e.lit) /\ e.value = ValueFor(e.lit, r)
  <2>1. e \in ToSet(list) /\ ~IsObsolete(e, r) BY <1>4
  <2>2. e \in Entries(r) BY <1>2, <2>1 DEF Entries
  <2>3. QED BY <1>1, <1>2, <2>1, <2>2, LiveIsUnit DEF EntriesRight, LraI, EntriesAbout
<1>6. ASSUME NEW lit \in UnitsOf(r), IsInequality(lit)
      PROVE  \E e \in ToSet(InForce(list, r)) : e.value = ValueFor(lit, r)
  <2>1. PICK e \in ToSet(list) : Serves(e, lit, r) /\ e.value = ValueFor(lit, r)
    BY <1>2, <1>6, UnitIsCovered DEF Covered
  <2>2. QED BY <1>4, <2>1 DEF Serves
<1>7. QED BY <1>2, <1>5, <1>6

LEMMA InvBounds ==
  ASSUME ValuesInv
  PROVE  BoundsAreBest
<1>1. SUFFICES ASSUME pc = "decide", NEW r \in RealVars, ~is_defined(r),
                      NEW ub, ub = upper_bound(r), NEW lb, lb = lower_bound(r),
                      NEW above, above = {lit \in UnitsOf(r) : BoundsFromAbove(lit, r)},
                      NEW below, below = {lit \in UnitsOf(r) : BoundsFromBelow(lit, r)}
               PROVE  /\ ub = << >> <=> above = {}
                      /\ lb = << >> <=> below = {}
                      /\ \A lit \in above :
                           /\ Last(ub).value <= ValueFor(lit, r)
                           /\ Last(ub).value = ValueFor(lit, r) /\ IsStrict(lit) => IsStrict(Last(ub).lit)
                      /\ \A lit \in below :
                           /\ Last(lb).value >= ValueFor(lit, r)
                           /\ Last(lb).value = ValueFor(lit, r) /\ IsStrict(lit) => IsStrict(Last(lb).lit)
                      /\ {e.value : e \in ToSet(InForce(bounds[r].disallowed, r))} =
                           {ValueFor(lit, r) : lit \in {l \in UnitsOf(r) : IsInequality(l)}}
  BY DEF BoundsAreBest
<1>2. TopFits(ub, TRUE, r) /\ TopFits(lb, FALSE, r)
  BY <1>1, TopsFit DEF upper_bound, lower_bound, StackOf
<1>3. (ub = << >> <=> above = {}) /\ (lb = << >> <=> below = {})
  BY <1>1, <1>2 DEF TopFits, BoundsFrom
<1>4. ASSUME NEW lit \in above
      PROVE  /\ Last(ub).value <= ValueFor(lit, r)
             /\ Last(ub).value = ValueFor(lit, r) /\ IsStrict(lit) => IsStrict(Last(ub).lit)
  <2>1. PICK e, V : e = Last(ub) /\ V = ValueFor(lit, r) OBVIOUS
  <2>2. e.value \in Int /\ V \in Int /\ NoWorse(TRUE, e, lit, r)
    BY <1>1, <1>2, <1>4, <2>1 DEF TopFits, BoundsFrom
  <2>3. ~(V < e.value) /\ ~(V = e.value /\ IsStrict(lit) /\ ~IsStrict(e.lit))
    BY <2>1, <2>2 DEF NoWorse, Better
  <2>4. QED BY <2>1, <2>2, <2>3
<1>5. ASSUME NEW lit \in below
      PROVE  /\ Last(lb).value >= ValueFor(lit, r)
             /\ Last(lb).value = ValueFor(lit, r) /\ IsStrict(lit) => IsStrict(Last(lb).lit)
  <2>1. PICK e, V : e = Last(lb) /\ V = ValueFor(lit, r) OBVIOUS
  <2>2. e.value \in Int /\ V \in Int /\ NoWorse(FALSE, e, lit, r)
    BY <1>1, <1>2, <1>5, <2>1 DEF TopFits, BoundsFrom
  <2>3. ~(V > e.value) /\ ~(V = e.value /\ IsStrict(lit) /\ ~IsStrict(e.lit))
    BY <2>1, <2>2 DEF NoWorse, Better
  <2>4. QED BY <2>1, <2>2, <2>3
<1>6. QED BY <1>1, <1>3, <1>4, <1>5, DisallowedFit

-----------------------------------------------------------------------------
\* Between two rounds a constraint whose variables all have values has the value they
\* give it, at a level no higher than the highest of theirs: boolean propagation and the
\* loop never guess what VisitAssigned (Linear_arithmetic::propagate) has to tell them,
\* and a value that decide() picks from the bounds never contradicts a constraint.
THEOREM ConstraintsPropagate == Spec => []SemanticPropagation
<1>1. Init => ValuesInv BY ValuesInit
<1>2. ValuesInv /\ [Next]_vars => ValuesInv' BY ValuesNext
<1>3. ValuesInv => SemanticPropagation BY InvPropagation
<1>4. QED BY <1>1, <1>2, <1>3, PTL DEF Spec

\* Where decide() is asked for a value, the bounds that are read from the stacks are the
\* tightest ones that any true constraint implies, strictness included, and the values
\* disallowed are those of the true disequalities: nothing that was dropped as obsolete,
\* kept off by a better bound or undone by a backtrack is missing (check_bounds_consistency).
THEOREM BoundsStayBest == Spec => []BoundsAreBest
<1>1. Init => ValuesInv BY ValuesInit
<1>2. ValuesInv /\ [Next]_vars => ValuesInv' BY ValuesNext
<1>3. ValuesInv => BoundsAreBest BY InvBounds
<1>4. QED BY <1>1, <1>2, <1>3, PTL DEF Spec

\* Every entry of the stacks is older than the two clocks, at every step.
THEOREM EntriesAreDated == Spec => [](TimesOK /\ EntriesDated)
<1>1. Init => PluginInv BY InitOK
<1>2. PluginInv /\ [Next]_vars => PluginInv' BY NextOK DEF Good
<1>3. PluginInv => TimesOK /\ EntriesDated BY DEF PluginInv
<1>4. QED BY <1>1, <1>2, <1>3, PTL DEF Spec

\* Once an entry of a stack is obsolete it stays so, whatever is assigned,
\* undone and assigned again: remove_obsolete may stop at the first entry in
\* force and never misses one it has taken off (src/lra/Variable_bounds.h).
THEOREM ObsoleteBoundsStay == Spec => ObsoleteForGood
<1>1. Init => PluginInv BY InitOK
<1>2. PluginInv /\ [Next]_vars => PluginInv' BY NextOK DEF Good
<1>3. PluginInv /\ [Next]_vars =>
        [\A r \in RealVars : \A e \in Entries(r) : IsObsolete(e, r) => IsObsolete(e, r)']_vars
  BY StepKeepsObsolete
<1>4. QED BY <1>1, <1>2, <1>3, PTL DEF Spec, ObsoleteForGood
=============================================================================
