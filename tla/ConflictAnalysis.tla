------------------------- MODULE ConflictAnalysis -------------------------
(***************************************************************************)
(* From the conflict clauses of one round of propagation to the clauses    *)
(* that will be learned: Conflict_analysis::analyze, the minimisation by   *)
(* self-subsumption and the choice of the clauses at the lowest level      *)
(* (Solver::analyze_conflicts).  One entry of the trail and one literal of *)
(* the minimised clause are one step each.                                 *)
(***************************************************************************)
EXTENDS BoolTheory

VARIABLES
  work,       \* the conflict clause under resolution, a set of literals
  top_level,  \* the highest level in the conflict it started from
  position,   \* entries of that level of the trail still to be looked at
  minimized,  \* clause being minimised: [clause, kept, next, level]
  lemmas,     \* analysed clauses at the lowest level so far
  jump_level  \* that level

analysisVars == <<work, top_level, position, minimized, lemmas, jump_level>>

-----------------------------------------------------------------------------
(* Conflict_analysis.                                                      *)

TopLiterals(lits) == {lit \in lits : LevelOf(lit) = top_level}

NumTopLevel == Cardinality(TopLiterals(work))

CanBacktrack == NumTopLevel = 1 /\ Cardinality(work) > 1

HighestLevel(lits) ==
  CHOOSE l \in {LevelOf(lit) : lit \in lits} \cup {0} :
    \A lit \in lits : LevelOf(lit) <= l

BeginAnalysis ==
  /\ pc = "conflict"
  /\ decision_level > 0
  /\ LET lits == ToSet(Head(conflicts)) IN
       /\ work' = lits
       /\ top_level' = HighestLevel(lits)
       /\ position' = Len(assigned(HighestLevel(lits)))
  /\ conflicts' = Tail(conflicts)
  /\ pc' = "resolve"
  /\ UNCHANGED <<minimized, lemmas, jump_level>>

\* The literal of the conflict that the entry of the trail made false.
FalsifiedBy(entry) == -TrueLiteralOf(entry.var)

CanResolve(entry) ==
  /\ entry.var \in BoolVars
  /\ entry.reason # NoReason
  /\ var_level[entry.var] = top_level
  /\ FalsifiedBy(entry) \in work

\* Variation: the literal the reason implies is taken over from it.
ResolventWithImplied(lit, other) == (work \cup other) \ {lit}

Resolvent(lit, other) == (work \cup (other \ {-lit})) \ {lit}

ResolveStep ==
  /\ pc = "resolve"
  /\ ~CanBacktrack
  /\ position > 0
  /\ LET entry == assigned(top_level)[position] IN
       work' = IF CanResolve(entry)
                 THEN Resolvent(FalsifiedBy(entry), ToSet(Clause(entry.reason)))
                 ELSE work
  /\ position' = position - 1
  /\ UNCHANGED <<pc, conflicts, top_level, minimized, lemmas, jump_level>>

\* finish(): literals of the highest levels first, the watched ones among
\* them, and the level to backtrack to.
HigherLevelFirst(l, k) ==
  \/ LevelOf(l) > LevelOf(k)
  \/ LevelOf(l) = LevelOf(k) /\ VarOf(l) < VarOf(k)

BacktrackLevel(clause) ==
  IF clause = << >> THEN -1
  ELSE IF NumTopLevel >= 2 THEN top_level - 1
  ELSE IF Len(clause) = 1 THEN 0 ELSE LevelOf(clause[2])

FinishAnalysis ==
  /\ pc = "resolve"
  /\ CanBacktrack \/ position = 0
  /\ LET clause == SortedList(work, HigherLevelFirst) IN
       minimized' = [clause |-> clause, kept |-> << >>, next |-> 1,
                     level |-> BacktrackLevel(clause)]
  /\ pc' = "minimize"
  /\ UNCHANGED <<conflicts, work, top_level, position, lemmas, jump_level>>

-----------------------------------------------------------------------------
(* Subsumption::minimize.  remove_if moves the kept literals to the front  *)
(* while its predicate reads the same vector: behind the kept literals it  *)
(* still finds the original ones, removed literals included.               *)

NothingMinimized == [clause |-> << >>, kept |-> << >>, next |-> 1, level |-> 0]

Contents ==
  minimized.kept \o
  SubSeq(minimized.clause, Len(minimized.kept) + 1, Len(minimized.clause))

\* Variation: the other literals of the reason are not looked up.
RedundantIgnoringReason(lit) ==
  /\ var_reason[VarOf(lit)] # NoReason
  /\ Len(Clause(var_reason[VarOf(lit)])) <= Len(minimized.clause)

\* selfsubsumes(reason, clause, ~lit)
Redundant(lit) ==
  LET reason == var_reason[VarOf(lit)] IN
  /\ reason # NoReason
  /\ True(-lit)
  /\ Len(Clause(reason)) <= Len(minimized.clause)
  /\ ToSet(Clause(reason)) \subseteq ToSet(Contents) \cup {-lit}

MinimizeStep ==
  /\ pc = "minimize"
  /\ minimized.next <= Len(minimized.clause)
  /\ LET lit == minimized.clause[minimized.next] IN
       minimized' = [minimized EXCEPT
         !.kept = IF Redundant(lit) THEN @ ELSE Append(@, lit),
         !.next = @ + 1]
  /\ UNCHANGED <<pc, conflicts, work, top_level, position, lemmas, jump_level>>

-----------------------------------------------------------------------------
(* Keep the clauses with the lowest level.  The level was computed before  *)
(* the clause was minimised.                                               *)

\* The locals of the analysis are dead between two conflicts.
AnalysisReset ==
  /\ work' = {}
  /\ top_level' = 0
  /\ position' = 0
  /\ minimized' = NothingMinimized

KeepLowest ==
  /\ pc = "minimize"
  /\ minimized.next > Len(minimized.clause)
  /\ CASE lemmas = << >> \/ minimized.level < jump_level ->
            lemmas' = <<minimized.kept>> /\ jump_level' = minimized.level
       [] lemmas # << >> /\ minimized.level = jump_level ->
            lemmas' = Append(lemmas, minimized.kept) /\ UNCHANGED jump_level
       [] OTHER -> UNCHANGED <<lemmas, jump_level>>
  /\ pc' = IF conflicts = << >> THEN "learn" ELSE "conflict"
  /\ AnalysisReset
  /\ UNCHANGED conflicts

AnalyzeConflicts ==
  /\ BeginAnalysis \/ ResolveStep \/ FinishAnalysis \/ MinimizeStep \/ KeepLowest
  /\ UNCHANGED <<dbVars, bcpVars, phase, cursor, trailVars>>

AnalysisInit ==
  /\ work = {}
  /\ top_level = 0
  /\ position = 0
  /\ minimized = NothingMinimized
  /\ lemmas = << >>
  /\ jump_level = 0
=============================================================================
