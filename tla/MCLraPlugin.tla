---------------------------- MODULE MCLraPlugin ----------------------------
(***************************************************************************)
(* Inputs of two rational variables, x = 11 and y = 12, with bounds that   *)
(* meet in one value and disequalities, bounds that exclude each other     *)
(* without another variable, and inputs of up to four, with more variables *)
(* in a constraint than are watched, from which constraints of two are     *)
(* derived.                                                                *)
(***************************************************************************)
EXTENDS LraPlugin

x == 11
y == 12
z == 13
w == 14

LinearCons(coef, pred) == [coef |-> coef, pred |-> pred, rhs |-> 0]
Compare(pred) == LinearCons(x :> 1 @@ y :> -1, pred)
Bound(r, pred) == LinearCons(r :> 1, pred)

MCInputs ==
  {<<Compare("leq"), Bound(y, "leq"), Bound(x, "eq")>>,
   <<Compare("eq"), Bound(y, "lt")>>,
   <<Bound(y, "leq"), Bound(y, "lt")>>,
   <<LinearCons(x :> 1 @@ y :> -1 @@ z :> -1, "leq"), Bound(z, "leq")>>,
   <<LinearCons(x :> 1 @@ y :> 1 @@ z :> -1 @@ w :> -1, "lt")>>}

MCRealVars == {x, y, z, w}
MCRealValues == 0..1
MCMaxAtoms == 5
MCMaxTime == [n \in 1..4 |-> IF n <= 2 THEN [bool |-> 4, real |-> 3]
                                       ELSE [bool |-> 2, real |-> 5]]
MCVars == MCRealVars \cup 1..MCMaxAtoms
MCValues == MCRealValues \cup {0, 1}
=============================================================================
