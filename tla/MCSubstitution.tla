--------------------------- MODULE MCSubstitution ---------------------------
(***************************************************************************)
(* Functions of a boolean parameter p and a real parameter q, called with  *)
(* any terms of the table.                                                 *)
(***************************************************************************)
EXTENDS Substitution

p == 6
q == 8
a == 10
b == 12

Start ==
  PrimitiveTerms \o [k \in 1..4 |-> Composite("uninterpreted", IF k \in {1, 4} THEN "bool" ELSE "real", << >>)]

\* p or q >= (if p then a else q)
Body ==
  LET i == mk_arithmetic_ite(Start, p, a, q)
      g == mk_arithmetic_geq(i.tab, q, i.term)
  IN mk_or(g.tab, <<p, g.term>>)

TermsOf(T, type) == {t \in 2..(2 * Len(T) + 1) : get_type(T, t) = type /\ (type = "real" => t % 2 = 0)}

MCCalls ==
  {[table |-> Body.tab, body |-> f, subst_map |-> (p :> s @@ q :> t)] :
     f \in TermsOf(Body.tab, "bool") \cup TermsOf(Body.tab, "real"),
     s \in TermsOf(Body.tab, "bool"), t \in TermsOf(Body.tab, "real")}
=============================================================================
