------------------------------- MODULE MCSat -------------------------------
(***************************************************************************)
(* The propositional solver on small formulas.                             *)
(***************************************************************************)
EXTENDS SolverProperties

NoReals == {}
NoScope == [a \in {} |-> {}]

\* All eight clauses over three variables: two conflicts deep everywhere.
Full3 == << <<1,2,3>>, <<1,2,-3>>, <<1,-2,3>>, <<1,-2,-3>>,
            <<-1,2,3>>, <<-1,2,-3>>, <<-1,-2,3>>, <<-1,-2,-3>> >>

\* Decisions on one variable that do not take part in the conflict.
Jump == << <<-1,2,-4>>, <<-1,-2,-4>>, <<-1,3,4>>, <<-1,-3,4>>, <<1,3>>, <<-3, 2, 4>> >>

\* Unit clauses, a repeated literal and a tautology.
Odd == << <<1>>, <<-1,2,2>>, <<3,-3,4>>, <<-4,-2,3>>, <<-3,-3>> >>

Units == << <<1>>, <<-1>> >>

\* A clause long enough for the circular search to wrap around.
Wide == << <<-3,-4>>, <<4,1,3>>, <<-4,-1,-2>>, <<-2,1,4,-3>>, <<-2,3,-1>>, <<1,3>>, <<-2,4,-3>> >>

SatFormulas == {Full3, Jump, Odd, Units, Wide}
=============================================================================
