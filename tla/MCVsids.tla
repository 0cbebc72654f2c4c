------------------------------- MODULE MCVsids -------------------------------
(***************************************************************************)
(* The solver with its order on two rational variables, 11 and 12, and     *)
(* three values, q0 < q1 < q2.  Atoms 2 and 3 bound the first from above   *)
(* and below, 4 is their equality, 5 and 6 are the bounds of the second    *)
(* that elimination derives; 1, 7 and 8 are ordinary boolean variables.    *)
(***************************************************************************)
EXTENDS Vsids

CONSTANTS q0, q1, q2

Reals == {11, 12}
VsidsVariables == BoolVars \cup Reals
VsidsValues == BOOLEAN \cup {q0, q1, q2}

All == [Reals -> {q0, q1, q2}]

Scopes == [a \in 2..6 |-> CASE a \in {2, 3} -> {11}
                            [] a = 4 -> {11, 12}
                            [] a \in {5, 6} -> {12}]

Models == [a \in 2..6 |->
  CASE a = 2 -> {rho \in All : rho[11] \in {q0, q1}}
    [] a = 3 -> {rho \in All : rho[11] \in {q1, q2}}
    [] a = 4 -> {rho \in All : rho[11] = rho[12]}
    [] a = 5 -> {rho \in All : rho[12] \in {q0, q1}}
    [] a = 6 -> {rho \in All : rho[12] \in {q1, q2}}]

\* A choice between bounds, and an equality that must hold.
Choice == << <<-2, -3>>, <<4>> >>

\* Only arithmetic refutes it: neither bound can hold.
Refutable == << <<-2, 1>>, <<-2, -1>>, <<-3>>, <<4>> >>

\* Conflicts that jump back over more than one level.
Jumps == << <<3,4,7>>, <<-1,2,3>>, <<-4,-8,-2>>, <<1,8,-3>>, <<8,-3,7>>, <<-7,8>>, <<3,-4,-2>>, <<4,7,-2>> >>

Spread == << <<-4,2,1>>, <<-2,-7,4>>, <<3,8,4>>, <<1,2,-7>>, <<7,-1,2>>, <<-1,-7,-2>>, <<7,-1,-2>>,
             <<1,7,8>>, <<2,8>>, <<-7,-4>>, <<-2,8,4>> >>

\* Many conflicts about a few variables.
Crowded == << <<-4,-7>>, <<-8,-7>>, <<-1,4,7>>, <<8,-7>>, <<-3,-1,-8>>, <<-7,4>>, <<8,7,1>>, <<-8,-3,1>>, <<-8,3>> >>

VsidsFormulas == {Choice, Refutable, Jumps, Spread, Crowded}
=============================================================================
