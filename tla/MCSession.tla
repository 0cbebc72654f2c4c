------------------------------ MODULE MCSession ------------------------------
(***************************************************************************)
(* Two assertions, satisfiable alone and not together, checked one after   *)
(* the other.                                                              *)
(***************************************************************************)
EXTENDS Session

NoReals == {}
NoScope == [a \in {} |-> {}]

Alone == << <<1, 2>> >>

Together == << <<1, 2>>, <<-1>>, <<-2>> >>

SessionFormulas == {Alone, Together}
=============================================================================
