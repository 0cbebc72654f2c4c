------------------------------- MODULE Session -------------------------------
(***************************************************************************)
(* A program that checks satisfiability more than once: (check-sat) may be *)
(* repeated, with assertions added in between.  For each of them           *)
(* Solver_wrapper::check calls Yaga::init on the solver it has             *)
(* (src/Yaga.cpp), translates all assertions again and calls               *)
(* Solver::check.  What Yaga::init forgets and what it keeps is the        *)
(* subject of this module.                                                 *)
(***************************************************************************)
EXTENDS SolverProperties

\* Assertions are only added between two checks.
Extends(f) == Problem \subseteq {ToSet(f[i]) : i \in DOMAIN f}

\* Yaga::init destroys the clauses the trail still points to.  If the next
\* propagation would read one of them, anything may happen; such a step is not
\* taken.
ReadsNoDeadClause == \A k \in DOMAIN recent : recent[k].reason = NoReason

\* The database is emptied and filled again, models, levels and reasons are
\* those of new variables, the plugins are new objects.  The list of levels of
\* the trail stays, and so does Subsumption's number of old clauses.
CheckAgain(f) ==
  /\ pc = "done"
  /\ Extends(f)
  /\ ReadsNoDeadClause
  /\ asserted' = f
  /\ learned' = << >>
  /\ var_level' = [v \in Vars |-> unassigned]
  /\ var_reason' = [v \in Vars |-> NoReason]
  /\ model' = [v \in Vars |-> Undef]
  /\ watched' = [lit \in Literals |-> << >>]
  /\ satisfied' = << >>
  /\ visit' = NoVisit
  /\ phase' = [v \in BoolVars |-> TRUE]
  /\ cursor' = [level |-> 0, next |-> 0]
  /\ created' = AtomVars \cap Mentioned'
  /\ checked' = {}
  /\ blame' = {}
  /\ conflicts' = << >>
  /\ round_size' = 0
  /\ todo' = << >>
  /\ choices' = {}
  /\ restarts' = 0
  /\ verdict' = "none"
  /\ pc' = "propagate"
  /\ UNCHANGED <<trail, old_size, analysisVars>>

\* One process reads all commands.
SessionNext == Next \/ \E f \in Formulas : CheckAgain(f)

SessionSpec == Init /\ [][SessionNext]_vars

\* check() is documented to return sat if the asserted clauses are satisfiable
\* and unsat otherwise, and Yaga::init to remove all clauses and variables: an
\* answer "sat" is right whatever was checked before.
SatMeansSatisfiable == verdict = "sat" => Problem \in SatisfiableProblems
=============================================================================
