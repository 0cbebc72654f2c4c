----------------------------- MODULE Assignment -----------------------------
(***************************************************************************)
(* What a trail promises its users, without the lists that make it fast: a *)
(* number of open decision levels and a partial map from variables to a    *)
(* value, the level the variable belongs to and the reason it was given.   *)
(***************************************************************************)
EXTENDS Integers

CONSTANTS Vars, Values, Reasons, NoReason

VARIABLES
  level,  \* the current decision level
  map     \* variable -> <<value, level, reason>>, or << >> when unassigned

vars == <<level, map>>

Free(v) == map[v] = << >>

Init ==
  /\ level = 0
  /\ map = [v \in Vars |-> << >>]

\* A decision opens a level.
Decision(v, x) ==
  /\ Free(v)
  /\ level' = level + 1
  /\ map' = [map EXCEPT ![v] = <<x, level', NoReason>>]

\* A propagation may belong to any open level.
Propagation(v, x, r, l) ==
  /\ Free(v)
  /\ map' = [map EXCEPT ![v] = <<x, l, r>>]
  /\ level' = level

\* Backtracking keeps what belongs to the remaining levels and nothing else.
Cut(l) ==
  /\ level' = l
  /\ map' = [v \in Vars |-> IF ~Free(v) /\ map[v][2] > l THEN << >> ELSE map[v]]

\* A restart forgets everything, level 0 included.
Reset ==
  /\ level' = 0
  /\ map' = [v \in Vars |-> << >>]

Next ==
  \/ \E v \in Vars, x \in Values : Decision(v, x)
  \/ \E v \in Vars, x \in Values, r \in Reasons \cup {NoReason} :
       \E l \in 0..level : Propagation(v, x, r, l)
  \/ \E l \in 0..level : Cut(l)
  \/ Reset

Spec == Init /\ [][Next]_vars
=============================================================================
