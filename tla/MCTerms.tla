------------------------------ MODULE MCTerms ------------------------------
(***************************************************************************)
(* Three boolean constants: enough for every row of the simplifications of *)
(* a conditional term and for disjunctions within disjunctions.  Two real  *)
(* constants and one literal that is negative and not a unit, so that      *)
(* fractions and coefficients that cancel appear.  One problem with a      *)
(* quarter, whose reciprocal does not fit words of three bits: x / (1/4)   *)
(* may not go through inv(), and 1 / (1/4) need not.                       *)
(***************************************************************************)
EXTENDS TermManager

MCProblems ==
  {[sorts |-> <<"bool", "bool", "bool">>, literals |-> {}, calls |-> 2],
   [sorts |-> <<"real", "real">>, literals |-> {<<-2, 1>>}, calls |-> 3],
   [sorts |-> <<"real">>, literals |-> {<<1, 4>>}, calls |-> 3]}

MCPoints == {<<-1, 1>>, <<1, 2>>}
=============================================================================
