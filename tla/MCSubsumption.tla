--------------------------- MODULE MCSubsumption ---------------------------
(***************************************************************************)
(* Clauses over three variables that form chains and antichains, with two  *)
(* clauses that are equal as sets.                                         *)
(***************************************************************************)
EXTENDS SubsumptionAlgorithm

Chains ==
  {<<1>>, <<2, 1>>, <<1, 2>>, <<2, -3>>, <<-3, 1, 2>>, <<-1, 3>>, <<3, 2, -1>>}
=============================================================================
