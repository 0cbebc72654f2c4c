------------------------------ MODULE ScoreMap ------------------------------
(***************************************************************************)
(* What Variable_priority_queue promises its user: a partial map from      *)
(* variables to scores, from which the variable that comes first can be    *)
(* removed.  PriorityQueue is shown to implement this module.              *)
(***************************************************************************)
EXTENDS Integers

CONSTANTS
  QVars,   \* variables, numbered in the order of type and ordinal
  Scores,  \* scores a user may give
  Factor   \* the factor by which scores are divided

VARIABLE score  \* variable in the queue -> its score

Contained == DOMAIN score

\* Greater scores first, then smaller variables.
Precedes(v, w) == score[v] > score[w] \/ (score[v] = score[w] /\ v < w)

Best(v) == v \in Contained /\ \A w \in Contained \ {v} : Precedes(v, w)

Insert(v, s) ==
  /\ v \notin Contained
  /\ score' = [w \in Contained \cup {v} |-> IF w = v THEN s ELSE score[w]]

RemoveBest ==
  \E v \in QVars : Best(v) /\ score' = [w \in Contained \ {v} |-> score[w]]

SetScore(v, s) ==
  /\ v \in Contained
  /\ score' = [score EXCEPT ![v] = s]

DivideAll == score' = [v \in Contained |-> score[v] \div Factor]

Init == score = [v \in {} |-> 0]

Next ==
  \/ \E v \in QVars, s \in Scores : Insert(v, s) \/ SetScore(v, s)
  \/ RemoveBest
  \/ DivideAll

Spec == Init /\ [][Next]_score
=============================================================================
