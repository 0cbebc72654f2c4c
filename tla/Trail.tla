------------------------------- MODULE Trail -------------------------------
(***************************************************************************)
(* The solver's trail (src/Trail.h, src/Trail.cpp) together with the       *)
(* partial models it owns.  The trail is a list of decision levels; each   *)
(* level lists the assignments made while it was the top one.  What makes  *)
(* it more than a stack is that a propagation names the level it belongs   *)
(* to: a literal that follows from values at a low level is recorded at    *)
(* that level and on every level above it.                                 *)
(*                                                                         *)
(* A value is set in the model immediately before or after every call of   *)
(* decide and propagate in the source, so the two are one operation here.  *)
(***************************************************************************)
EXTENDS Integers, Sequences

CONSTANTS
  Vars,      \* variables of every type (boolean and rational)
  Values,    \* the values they may take
  Reasons,   \* clauses that may be the reason of a propagation
  NoReason,  \* nullptr: a decision or a semantic propagation
  Undef      \* "not defined" in a partial model

ASSUME ReasonAssumption == NoReason \notin Reasons
ASSUME UndefAssumption  == Undef \notin Values

VARIABLES
  trail,       \* trail[l + 1] is the list of assignments of level l
  var_level,   \* level of a variable, or unassigned
  var_reason,  \* reason clause of a variable, or NoReason
  model        \* value of a variable, or Undef

trailVars == <<trail, var_level, var_reason, model>>

unassigned == -1

Assignment == [var : Vars, reason : Reasons \cup {NoReason}]

-----------------------------------------------------------------------------
(* Queries.                                                                *)

decision_level == Len(trail) - 1

assigned(level) == trail[level + 1]

recent == trail[Len(trail)]

is_defined(var) == model[var] # Undef

\* The trail has one level and nothing on it.  This is what the source's
\* empty() computes; it is stronger than "no variable is assigned" only in
\* that it also asks for level 0.
empty == Len(trail) = 1 /\ trail[1] = << >>

VarsIn(list) == {list[k].var : k \in 1..Len(list)}

-----------------------------------------------------------------------------
(* Operations.                                                             *)

TrailInit ==
  /\ trail = << << >> >>
  /\ var_level = [v \in Vars |-> unassigned]
  /\ var_reason = [v \in Vars |-> NoReason]
  /\ model = [v \in Vars |-> Undef]

Decide(var, value) ==
  /\ trail' = Append(trail, <<[var |-> var, reason |-> NoReason]>>)
  /\ var_level' = [var_level EXCEPT ![var] = decision_level + 1]
  /\ var_reason' = [var_reason EXCEPT ![var] = NoReason]
  /\ model' = [model EXCEPT ![var] = value]

\* Variation: an assignment is recorded at the top level only.
PropagateTopOnly(var, value, reason, level) ==
  /\ trail' = [trail EXCEPT ![Len(trail)] =
                 Append(@, [var |-> var, reason |-> reason])]
  /\ var_level' = [var_level EXCEPT ![var] = level]
  /\ var_reason' = [var_reason EXCEPT ![var] = reason]
  /\ model' = [model EXCEPT ![var] = value]

Propagate(var, value, reason, level) ==
  /\ trail' = [i \in 1..Len(trail) |->
                 IF i > level
                   THEN Append(trail[i], [var |-> var, reason |-> reason])
                   ELSE trail[i]]
  /\ var_level' = [var_level EXCEPT ![var] = level]
  /\ var_reason' = [var_reason EXCEPT ![var] = reason]
  /\ model' = [model EXCEPT ![var] = value]

\* Variation: every variable listed on a popped level is unassigned.
UnassignsAllPopped(level) ==
  UNION {VarsIn(assigned(l)) : l \in (level + 1)..decision_level}

\* The variables a backtrack to level unassigns: those listed on a level that
\* is popped and belonging to a level above the target.
Unassigns(level) ==
  {v \in UNION {VarsIn(assigned(l)) : l \in (level + 1)..decision_level} :
     var_level[v] > level}

Backtrack(level) ==
  LET gone == Unassigns(level) IN
  /\ trail' = SubSeq(trail, 1, level + 1)
  /\ var_level' = [v \in Vars |-> IF v \in gone THEN unassigned ELSE var_level[v]]
  /\ var_reason' = [v \in Vars |-> IF v \in gone THEN NoReason ELSE var_reason[v]]
  /\ model' = [v \in Vars |-> IF v \in gone THEN Undef ELSE model[v]]

\* Variation: the lists and the levels are reset, the models are not.
ClearKeepingModels ==
  /\ trail' = << << >> >>
  /\ var_level' = [v \in Vars |-> unassigned]
  /\ var_reason' = [v \in Vars |-> NoReason]
  /\ UNCHANGED model

Clear ==
  /\ trail' = << << >> >>
  /\ var_level' = [v \in Vars |-> unassigned]
  /\ var_reason' = [v \in Vars |-> NoReason]
  /\ model' = [v \in Vars |-> Undef]

-----------------------------------------------------------------------------
(* The trail under an arbitrary client that keeps the stated               *)
(* preconditions: it assigns undefined variables only, and names levels    *)
(* that exist (the assertions of propagate and backtrack).                 *)

TrailNext ==
  \/ \E v \in Vars, x \in Values : ~is_defined(v) /\ Decide(v, x)
  \/ \E v \in Vars, x \in Values, r \in Reasons \cup {NoReason} :
       \E level \in 0..decision_level :
         ~is_defined(v) /\ Propagate(v, x, r, level)
  \/ \E level \in 0..decision_level : Backtrack(level)
  \/ Clear

TrailSpec == TrailInit /\ [][TrailNext]_trailVars

-----------------------------------------------------------------------------
(* Properties.                                                             *)

\* Types of the trail and of the tables kept beside it.
TrailTypeOK ==
  /\ trail \in Seq(Seq(Assignment))
  /\ Len(trail) >= 1
  /\ var_level \in [Vars -> Int]
  /\ var_reason \in [Vars -> Reasons \cup {NoReason}]
  /\ model \in [Vars -> Values \cup {Undef}]

\* A variable has a value exactly when it has a level, and a variable
\* without a level has no reason.
DefinedIffLevel ==
  \A v \in Vars :
    /\ var_level[v] \in unassigned..decision_level
    /\ is_defined(v) <=> var_level[v] # unassigned
    /\ ~is_defined(v) => var_reason[v] = NoReason

\* Everything listed on a level belongs to that level or to a lower one and
\* agrees with the redundant table of reasons.
ListedBelow ==
  \A l \in 0..decision_level : \A k \in 1..Len(assigned(l)) :
    LET e == assigned(l)[k] IN
    /\ var_level[e.var] \in 0..l
    /\ e.reason = var_reason[e.var]

\* Every assigned variable is listed on its own level, so backtracking below
\* that level is certain to meet it.
ListedAtOwnLevel ==
  \A v \in Vars :
    var_level[v] # unassigned => v \in VarsIn(assigned(var_level[v]))

\* No variable is listed twice on one level.
ListedOnce ==
  \A l \in 0..decision_level : \A j, k \in 1..Len(assigned(l)) :
    assigned(l)[j].var = assigned(l)[k].var => j = k

\* Each level above 0 starts with the decision that opened it, and that
\* variable belongs to the level.  backtrack_with and propagate_unassigned
\* read the front of a level as its decision.
DecisionFirst ==
  \A l \in 1..decision_level :
    /\ assigned(l) # << >>
    /\ var_level[assigned(l)[1].var] = l
    /\ assigned(l)[1].reason = NoReason

\* The conjunction that is inductive.
TrailInv ==
  /\ TrailTypeOK
  /\ DefinedIffLevel
  /\ ListedBelow
  /\ ListedAtOwnLevel
  /\ ListedOnce
  /\ DecisionFirst

\* When levels are popped, the variables of the remaining levels keep their
\* value, level and reason, those of the popped levels lose theirs, and the
\* lists of the remaining levels do not change: an assignment recorded out of
\* order survives exactly as long as its own level.
BacktrackIsExact ==
  [][Len(trail') < Len(trail) /\ trail' # << << >> >> =>
       /\ \A i \in 1..Len(trail') : trail'[i] = trail[i]
       /\ \A v \in Vars :
            IF var_level[v] < Len(trail')
              THEN /\ model'[v] = model[v]
                   /\ var_level'[v] = var_level[v]
                   /\ var_reason'[v] = var_reason[v]
              ELSE model'[v] = Undef /\ var_level'[v] = unassigned]_trailVars

\* The trail promises no more than a map from variables to (value, level,
\* reason) cut at the target level by a backtrack (module Assignment).
AbstractTrail == INSTANCE Assignment WITH
  level <- decision_level,
  map <- [v \in Vars |-> IF is_defined(v)
                           THEN <<model[v], var_level[v], var_reason[v]>>
                           ELSE << >>]

ImplementsAssignment == AbstractTrail!Spec
=============================================================================
