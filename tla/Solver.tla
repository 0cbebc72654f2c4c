------------------------------- MODULE Solver -------------------------------
(***************************************************************************)
(* Solver::check (src/Solver.cpp): propagate until a fixpoint or a         *)
(* conflict, then decide, or learn and backtrack, or restart.  The module  *)
(* composes the boolean plugin, the linear arithmetic plugin, conflict     *)
(* analysis and subsumption over one trail and one database.               *)
(*                                                                         *)
(* The variable order and the restart policy are heuristics: any undefined *)
(* variable may be decided and any conflict may be followed by a restart,  *)
(* at most MaxRestarts times.                                              *)
(***************************************************************************)
EXTENDS ConflictAnalysis, LinearArithmetic, Subsumption

CONSTANTS
  Formulas,    \* inputs: sequences of clauses
  MaxRestarts  \* bound on the number of restarts

ASSUME RestartAssumption == MaxRestarts \in Nat

\* The front ends assert no empty clause: the reader of DIMACS answers at once
\* when it meets one, and the other translates every term to literals.
ASSUME FormulasAssumption == Formulas \subseteq Seq(Seq(Literals) \ {<< >>})

VARIABLES
  round_size,  \* Theory_combination: size of the top level before this round
  todo,        \* learned clauses whose first literal is still to be propagated
  choices,     \* literals of a semantic split that may be decided
  old_size,    \* Subsumption: number of learned clauses at the last restart
  restarts,    \* total_restarts
  verdict      \* "none" until check returns

loopVars == <<round_size, todo, choices, old_size, restarts, verdict>>

vars == <<trailVars, pc, conflicts, dbVars, bcpVars, phase, cursor,
          analysisVars, lraVars, loopVars>>

-----------------------------------------------------------------------------
(* Theory_combination::propagate: the plugins in order, again and again    *)
(* until the top level stops growing.  The propositional solver has the    *)
(* boolean plugin only.                                                    *)

BoolStep ==
  /\ BoolPropagate
  /\ round_size' = IF pc = "propagate" THEN Len(recent) ELSE round_size
  /\ UNCHANGED <<analysisVars, lraVars, todo, choices, old_size, restarts, verdict>>

LraStep ==
  /\ LraPropagateStep
  /\ UNCHANGED <<analysisVars, loopVars>>

\* Variation: a round that propagated something is not repeated.
RoundDoneOnce ==
  /\ LraDone
  /\ pc' = "decide"
  /\ UNCHANGED <<trailVars, conflicts, dbVars, bcpVars, phase, cursor,
                 analysisVars, lraVars, loopVars>>

RoundDone ==
  /\ LraDone
  /\ pc' = IF RealVars # {} /\ Len(recent) # round_size THEN "propagate" ELSE "decide"
  /\ UNCHANGED <<trailVars, conflicts, dbVars, bcpVars, phase, cursor,
                 analysisVars, lraVars, loopVars>>

-----------------------------------------------------------------------------
(* Decisions.                                                              *)

Undecided == {v \in InUse : ~is_defined(v)}

DecideNext ==
  /\ pc = "decide"
  /\ \E v \in Undecided : DecideBool(v) \/ DecideReal(v)
  /\ pc' = "propagate"
  /\ UNCHANGED <<conflicts, dbVars, bcpVars, phase, cursor, analysisVars,
                 lraVars, loopVars>>

Finish(answer) ==
  /\ pc' = "done"
  /\ verdict' = answer
  /\ UNCHANGED <<trailVars, conflicts, dbVars, bcpVars, phase, cursor, analysisVars,
                 lraVars, round_size, todo, choices, old_size, restarts>>

\* pick_variable() returns none.
AnswerSat == pc = "decide" /\ Undecided = {} /\ Finish("sat")

\* A conflict at level 0, or an empty clause among the analysed ones.
AnswerUnsat ==
  /\ \/ pc = "conflict" /\ decision_level = 0
     \/ pc = "learn" /\ << >> \in ToSet(lemmas)
  /\ Finish("unsat")

-----------------------------------------------------------------------------
(* Solver::learn.                                                          *)

AnalysisStep ==
  /\ AnalyzeConflicts
  /\ UNCHANGED <<lraVars, loopVars>>

is_semantic_split(c) == Len(c) >= 2 /\ LevelOf(c[1]) = LevelOf(c[2])

LearnedBefore(c, d) == Len(c) < Len(d) \/ (Len(c) = Len(d) /\ LexBefore(c, d))

DistinctLemmas == SortedList(ToSet(lemmas), LearnedBefore)

\* Variation: clauses that split and clauses that propagate are mixed.
AllLemmas == DistinctLemmas

\* Clauses that propagate are preferred to clauses that split.
PreferredLemmas ==
  LET distinct == DistinctLemmas
      uips == Chosen(distinct,
                     {k \in DOMAIN distinct : ~is_semantic_split(distinct[k])})
  IN IF uips # << >> THEN uips ELSE distinct

Learn ==
  /\ pc = "learn"
  /\ << >> \notin ToSet(lemmas)
  /\ \E new \in {PreferredLemmas} :
       /\ learned' = learned \o new
       /\ WatchLearned(new)
       /\ todo' = [k \in DOMAIN new |-> Len(asserted) + Len(learned) + k]
  /\ lemmas' = << >>
  /\ pc' = "jump"
  /\ UNCHANGED <<trailVars, conflicts, asserted, satisfied, visit, phase, cursor,
                 work, top_level, position, minimized, jump_level, lraVars,
                 round_size, choices, old_size, restarts, verdict>>

-----------------------------------------------------------------------------
(* Solver::restart and Solver::backtrack_with.                             *)

RestartSolver ==
  /\ pc = "jump"
  /\ restarts < MaxRestarts
  /\ BeforeBacktrack(0)
  /\ Clear
  /\ learned' = Survivors(learned, old_size)
  /\ old_size' = Len(learned')
  /\ restarts' = restarts + 1
  /\ todo' = << >>
  /\ jump_level' = 0
  /\ pc' = "propagate"
  /\ UNCHANGED <<conflicts, asserted, bcpVars, work, top_level, position, minimized,
                 lemmas, lraVars, round_size, choices, verdict>>

\* The literals of the highest level, at the front of the clause.
SplitLiterals(c) ==
  {c[i] : i \in {i \in DOMAIN c : \A j \in 1..i : LevelOf(c[j]) = LevelOf(c[1])}}

BacktrackWith ==
  /\ pc = "jump"
  /\ BeforeBacktrack(jump_level)
  /\ Backtrack(jump_level)
  /\ IF is_semantic_split(Clause(todo[1]))
       THEN /\ choices' = SplitLiterals(Clause(todo[1]))
            /\ todo' = << >>
            /\ pc' = "split"
       ELSE /\ pc' = "unit"
            /\ UNCHANGED <<choices, todo>>
  /\ UNCHANGED <<conflicts, dbVars, bcpVars, analysisVars, lraVars,
                 round_size, old_size, restarts, verdict>>

\* Semantic split: decide one of the literals instead of the value that
\* falsified them all.
SplitDecide ==
  /\ pc = "split"
  /\ \E lit \in choices : Decide(VarOf(lit), lit > 0)
  /\ choices' = {}
  /\ jump_level' = 0
  /\ pc' = "propagate"
  /\ UNCHANGED <<conflicts, dbVars, bcpVars, phase, cursor, work, top_level, position,
                 minimized, lemmas, lraVars, round_size, todo, old_size, restarts, verdict>>

\* Variation: the learned clauses propagate nothing.
NoUnitPropagate ==
  /\ pc = "unit"
  /\ todo # << >>
  /\ todo' = << >>
  /\ UNCHANGED <<trailVars, pc, conflicts, dbVars, bcpVars, phase, cursor, analysisVars,
                 lraVars, round_size, choices, old_size, restarts, verdict>>

\* UIP: propagate the first literal of each learned clause that has not been
\* assigned by another one of them.
UnitPropagate ==
  /\ pc = "unit"
  /\ todo # << >>
  /\ LET lit == Clause(Head(todo))[1] IN
       IF is_defined(VarOf(lit))
         THEN UNCHANGED trailVars
         ELSE Propagate(VarOf(lit), lit > 0, Head(todo), jump_level)
  /\ todo' = Tail(todo)
  /\ UNCHANGED <<pc, conflicts, dbVars, bcpVars, phase, cursor, analysisVars, lraVars,
                 round_size, choices, old_size, restarts, verdict>>

UnitsDone ==
  /\ pc = "unit"
  /\ todo = << >>
  /\ jump_level' = 0
  /\ pc' = "propagate"
  /\ UNCHANGED <<trailVars, conflicts, dbVars, bcpVars, phase, cursor, work, top_level,
                 position, minimized, lemmas, lraVars, loopVars>>

\* check() has returned.
Returned == pc = "done" /\ UNCHANGED vars

-----------------------------------------------------------------------------
Init ==
  /\ TrailInit
  /\ \E f \in Formulas : BoolInit(f)
  /\ AnalysisInit
  /\ LraInit
  /\ round_size = 0
  /\ todo = << >>
  /\ choices = {}
  /\ old_size = 0
  /\ restarts = 0
  /\ verdict = "none"

Next ==
  \/ BoolStep \/ LraStep \/ RoundDone
  \/ DecideNext \/ AnswerSat \/ AnswerUnsat
  \/ AnalysisStep \/ Learn
  \/ RestartSolver \/ BacktrackWith \/ SplitDecide \/ UnitPropagate \/ UnitsDone
  \/ Returned

Spec == Init /\ [][Next]_vars /\ WF_vars(Next)
=============================================================================
