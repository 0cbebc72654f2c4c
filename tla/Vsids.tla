------------------------------- MODULE Vsids -------------------------------
(***************************************************************************)
(* Solver::check with the variable order Generalized_vsids                 *)
(* (src/variable_order): the variable to decide comes from a queue that    *)
(* keeps assigned variables until they reach its top, and backtracking has *)
(* to put back the ones it lost.                                           *)
(*                                                                         *)
(* The queue is the map of ScoreMap, which PriorityQueue implements.       *)
(* Variables are numbered in the order of type and ordinal, and scores are *)
(* fixed-point numbers of two decimals.  score_threshold is a parameter,   *)
(* for a few conflicts to reach it.  The queue of effectively decided      *)
(* variables, empty without the option prop_rational, is left out.         *)
(***************************************************************************)
EXTENDS SolverProperties

CONSTANT score_threshold  \* above it all scores are divided by it

ASSUME VsidsAssumption ==
  /\ score_threshold \in Nat \ {0}
  /\ Vars \subseteq Nat
  /\ \A a \in AtomVars : IsFiniteSet(AtomScope[a])

VARIABLE order  \* [vsids, variables, inc]: scores, the queue, the increment

vsidsVars == <<vars, order>>

Unit == 100  \* the score 1.0

-----------------------------------------------------------------------------
(* Scores.                                                                 *)

Scaled(f) == [v \in DOMAIN f |-> f[v] \div score_threshold]

\* update(), for a variable that may be missing
Updated(queue, v, s) == IF v \in DOMAIN queue THEN [queue EXCEPT ![v] = s] ELSE queue

\* Variation: the new score is not given to the queue.
BumpWithoutUpdate(o, v) == [o EXCEPT !.vsids[v] = @ + o.inc]

\* A score that reaches the threshold divides all scores, the increment and
\* the scores of the queue; the new score itself is given to the queue only
\* otherwise.
BumpVar(o, v) ==
  LET raised == [o.vsids EXCEPT ![v] = @ + o.inc] IN
  IF raised[v] >= Unit * score_threshold
    THEN [vsids |-> Scaled(raised), variables |-> Scaled(o.variables),
          inc |-> o.inc \div score_threshold]
    ELSE [vsids |-> raised, variables |-> Updated(o.variables, v, raised[v]),
          inc |-> o.inc]

\* The order after an event for each element of a list, one after the other.
Each(o, list, Event(_, _)) ==
  LET after[k \in 0..Len(list)] ==
        IF k = 0 THEN o ELSE Event(after[k - 1], list[k])
  IN after[Len(list)]

Sooner(v, w) == v < w

\* A boolean variable is bumped with the variables of its constraint.
BumpedWith(v) == <<v>> \o IF v \in AtomVars THEN SortedList(AtomScope[v], Sooner) ELSE << >>

BumpLit(o, lit) == Each(o, BumpedWith(VarOf(lit)), BumpVar)

BumpClause(o, clause) == Each(o, clause, BumpLit)

\* inc *= grow
Decay(o) == [o EXCEPT !.inc = (@ * 105) \div 100]

\* on_learned_clause
BumpAndDecay(o, clause) == Decay(BumpClause(o, clause))

-----------------------------------------------------------------------------
(* The queue.                                                              *)

\* push(), for some of the variables that are not contained
PushNew(o, new) ==
  [o EXCEPT !.variables = [v \in DOMAIN @ \cup new |->
     IF v \in DOMAIN @ THEN @[v] ELSE o.vsids[v]]]

\* Variation: what the levels above the target record, whatever its own level.
PushBackTop(level) ==
  {v \in VarsIn(assigned(decision_level)) : var_level[v] > level}

\* on_before_backtrack: the assigned variables that will lose their value
PushBack(level) ==
  {v \in UNION {VarsIn(assigned(l)) : l \in (level + 1)..decision_level} :
     var_level[v] > level}

Q == INSTANCE ScoreMap WITH
       score <- order.variables, QVars <- Vars, Scores <- Nat, Factor <- score_threshold

Waiting == {v \in DOMAIN order.variables : ~is_defined(v)}

\* pick_top: the first variable of the queue that has no value
Top(v) ==
  /\ v \in Waiting
  /\ \A w \in Waiting \ {v} : Q!Precedes(v, w)

\* and the assigned ones before it are popped.
PopAssigned(v) ==
  order' = [order EXCEPT !.variables =
    [w \in {w \in DOMAIN @ : w = v \/ Q!Precedes(v, w)} |-> @[w]]]

-----------------------------------------------------------------------------
(* The solving loop with the order: pick() and the events of the loop.     *)

\* A derived constraint is a new variable.
Propagation ==
  /\ BoolStep \/ LraStep \/ RoundDone
  /\ order' = PushNew(order, created' \ created)

Pick ==
  /\ DecideNext
  /\ \E v \in Vars : Top(v) /\ is_defined(v)' /\ PopAssigned(v)

\* The queue runs empty: pick() returns none.
PickNone ==
  /\ pc = "decide"
  /\ Waiting = {}
  /\ Finish("sat")
  /\ order' = [order EXCEPT !.variables = [v \in {} |-> 0]]

\* on_conflict_resolved
Analysis ==
  /\ AnalysisStep
  /\ order' =
       IF /\ pc = "resolve" /\ ~CanBacktrack /\ position > 0
          /\ CanResolve(assigned(top_level)[position])
         THEN BumpClause(order, Clause(assigned(top_level)[position].reason))
         ELSE order

LearnAndBump == Learn /\ order' = Each(order, PreferredLemmas, BumpAndDecay)

RestartAndPush == RestartSolver /\ order' = PushNew(order, PushBack(0))

BacktrackAndPush == BacktrackWith /\ order' = PushNew(order, PushBack(jump_level))

\* Variable_order::is_before
IsBefore(v, w) == order.vsids[v] > order.vsids[w]

\* The first literal of the split that no other one is before.
SplitOnBest ==
  /\ SplitDecide
  /\ \E lit \in choices :
       /\ \A other \in choices \ {lit} :
            ~IsBefore(VarOf(other), VarOf(lit)) /\ (VarOf(other) < VarOf(lit) =>
              IsBefore(VarOf(lit), VarOf(other)))
       /\ is_defined(VarOf(lit))'
  /\ UNCHANGED order

Otherwise == (AnswerUnsat \/ UnitPropagate \/ UnitsDone \/ Returned) /\ UNCHANGED order

Unscored ==
  [vsids |-> [v \in Vars |-> 0],
   variables |-> [v \in InUse |-> 0],
   inc |-> Unit]

\* on_variable_resize and on_init
VsidsInit ==
  /\ Init
  /\ order = Each(Unscored, asserted, BumpClause)

VsidsNext ==
  \/ Propagation \/ Pick \/ PickNone \/ Analysis \/ LearnAndBump
  \/ RestartAndPush \/ BacktrackAndPush \/ SplitOnBest \/ Otherwise

VsidsSpec == VsidsInit /\ [][VsidsNext]_vsidsVars /\ WF_vsidsVars(VsidsNext)

-----------------------------------------------------------------------------
(* Properties.                                                             *)

\* A variable without a value is in the queue, except between a restart, which
\* puts back what lay above level 0 but unassigns level 0 as well, and the
\* decision that follows it: propagation has assigned level 0 again by then.
\* Without this pick() would find nothing to decide and the solver would
\* answer "sat" with a partial model.
NothingIsLost ==
  pc = "decide" => Undecided \subseteq DOMAIN order.variables

\* With the order the loop does what it does with any order: in particular it
\* answers "sat" only when every variable has a value.
ImplementsSolver == Init /\ [][Next]_vars

\* "Pick a variable with the best VSIDS score" (Generalized_vsids.h:69): no
\* decision passes over a variable with a greater score.
PicksBest ==
  [][\A v \in Undecided :
       pc = "decide" /\ is_defined(v)' =>
         \A w \in Undecided : order.vsids[w] <= order.vsids[v]]_vsidsVars

-----------------------------------------------------------------------------
(* Why nothing is lost.                                                    *)

\* If all other literals of the clause are false, the one left over is true.
\* (Positions are what propagation tells apart, a clause may repeat a literal.)
Closed(c, S) ==
  \A p \in 1..Len(c) :
    (\A q \in 1..Len(c) : q # p => -c[q] \in S) => c[p] \in S

\* Literals that may be the true ones when propagation has come to an end.
Propagated(S) ==
  /\ \A lit \in S : -lit \notin S
  /\ \A id \in ClauseIds : Closed(Clause(id), S)

\* Propagation alone gives v a value, whatever has been decided.
ValueReturns(v) ==
  \A S \in SUBSET Literals : Propagated(S) => \E lit \in S : VarOf(lit) = v

\* Orders with the queue of the variables D.
Queueing(D) == [vsids : [Vars -> Nat], variables : [D -> Nat], inc : Nat]

\* A variable has a value, or waits in the queue, or will have a value again
\* by the next decision.
QueueOK ==
  /\ DOMAIN order.variables \subseteq Vars
  /\ order \in Queueing(DOMAIN order.variables)
  /\ \A v \in InUse :
       is_defined(v) \/ v \in DOMAIN order.variables \/ ValueReturns(v)

Once(c) == \A p, q \in 1..Len(c) : c[p] = c[q] => p = q

\* A derived clause has each literal once.  This is why subsumption may remove
\* the clauses around it: it propagates whatever they do.
DerivedOnce ==
  /\ \A id \in ClauseIds : id > Len(asserted) => Once(Clause(id))
  /\ \A k \in 1..Len(lemmas) : Once(lemmas[k])

VsidsInv == LoopInv /\ DerivedOnce /\ QueueOK
=============================================================================
