---------------------------- MODULE Subsumption ----------------------------
(***************************************************************************)
(* Subsumption between clauses (src/Subsumption.cpp) and what a restart    *)
(* leaves of the learned clauses.  SubsumptionAlgorithm is the algorithm   *)
(* that computes it.                                                       *)
(***************************************************************************)
EXTENDS Clauses, Lists

\* Subsumption::subsumes: a proper subset, by size and by content.
Subsumes(first, second) ==
  Len(first) < Len(second) /\ ToSet(first) \subseteq ToSet(second)

\* The clauses are old (up to old_size, already compared with each other at
\* the previous restart) or new.  An old clause falls to a new one, a new
\* clause to any.
Subsumed(clauses, old_size, i) ==
  \E j \in DOMAIN clauses :
    /\ clauses[j] # << >>
    /\ i > old_size \/ j > old_size
    /\ Subsumes(clauses[j], clauses[i])

\* Variation: new clauses are compared with old ones only.
SurvivorsOfOld(clauses, old_size) ==
  Chosen(clauses,
         {i \in DOMAIN clauses : ~\E j \in 1..old_size : Subsumes(clauses[j], clauses[i])})

Survivors(clauses, old_size) ==
  Chosen(clauses, {i \in DOMAIN clauses : ~Subsumed(clauses, old_size, i)})
=============================================================================
