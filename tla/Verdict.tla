------------------------------ MODULE Verdict ------------------------------
(***************************************************************************)
(* What Solver::check promises: an answer, once, and the right one.        *)
(***************************************************************************)
CONSTANT Satisfiable  \* the problems that have a model

VARIABLES problem, verdict

vars == <<problem, verdict>>

Init == verdict = "none"

Answer ==
  /\ verdict = "none"
  /\ verdict' = IF problem \in Satisfiable THEN "sat" ELSE "unsat"
  /\ UNCHANGED problem

Spec == Init /\ [][Answer]_vars /\ WF_vars(Answer)
=============================================================================
