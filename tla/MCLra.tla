------------------------------- MODULE MCLra -------------------------------
(***************************************************************************)
(* The solver with linear arithmetic, abstracted to three rational         *)
(* variables of three values, q0 < q1 < q2.  Atoms 1 and 2 bound r1 from   *)
(* above and below, 3 is r1 = r2, 4 is r1 = r3, 5 is r2 = q1, 6 and 8      *)
(* bound r3 from above and below, 7 and 9 bound r2; 10 is an ordinary      *)
(* boolean variable.  Elimination derives what a problem does not mention. *)
(***************************************************************************)
EXTENDS SolverProperties

CONSTANTS r1, r2, r3, q0, q1, q2

LraVars == BoolVars \cup {r1, r2, r3}
LraValues == BOOLEAN \cup {q0, q1, q2}

All == [{r1, r2, r3} -> {q0, q1, q2}]

Scopes == [a \in AtomVars |-> CASE a \in {1, 2} -> {r1}
                                 [] a = 3 -> {r1, r2}
                                 [] a = 4 -> {r1, r3}
                                 [] a \in {5, 7, 9} -> {r2}
                                 [] a \in {6, 8} -> {r3}]

Models == [a \in AtomVars |->
  CASE a = 1 -> {rho \in All : rho[r1] \in {q0, q1}}
    [] a = 2 -> {rho \in All : rho[r1] \in {q1, q2}}
    [] a = 3 -> {rho \in All : rho[r1] = rho[r2]}
    [] a = 4 -> {rho \in All : rho[r1] = rho[r3]}
    [] a = 5 -> {rho \in All : rho[r2] = q1}
    [] a = 6 -> {rho \in All : rho[r3] \in {q0, q1}}
    [] a = 7 -> {rho \in All : rho[r2] \in {q0, q1}}
    [] a = 8 -> {rho \in All : rho[r3] \in {q1, q2}}
    [] a = 9 -> {rho \in All : rho[r2] \in {q1, q2}}]

\* A choice between bounds, and an equality with a bounded variable.
Choice == << <<-1, -2>>, <<3>>, <<7>> >>

\* Only arithmetic refutes it: neither bound of r1 can hold.
Refutable == << <<-1, 10>>, <<-1, -10>>, <<-2>>, <<3>> >>

\* r1 = q1 leaves r2 and r3 without a value: the first conflict splits, the
\* second propagates.
Mixed == << <<3>>, <<4>>, <<-5>>, <<-6>> >>

\* The bound of r3 is decided, so the two conflicts go back to different levels.
Decided == << <<3>>, <<4>>, <<-5>>, <<1>>, <<7>> >>

LraFormulas == {Choice, Refutable, Mixed, Decided}
=============================================================================
