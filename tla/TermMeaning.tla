---------------------------- MODULE TermMeaning ----------------------------
(***************************************************************************)
(* What the terms of a table mean under a valuation of its uninterpreted   *)
(* constants: the reference the constructors, the translation to clauses   *)
(* and the substitution are compared with.                                 *)
(***************************************************************************)
EXTENDS Terms

Not(b, neg) == IF neg THEN ~b ELSE b

\* The value of every entry of a table, from its arguments down.
ValuesIn(T, rho) ==
  LET val[i \in DOMAIN T] ==
        LET arg(k) == val[index_of(T[i].args[k])]
            holds(k) == Not(arg(k), is_negated(T[i].args[k]))
        IN CASE T[i].kind = "true" -> TRUE
             [] T[i].kind = "uninterpreted" -> rho[2 * i]
             [] T[i].kind = "constant" -> T[i].value
             [] T[i].kind = "or" -> \E k \in DOMAIN T[i].args : holds(k)
             [] T[i].kind = "geq" -> AtLeast(arg(1), Zero)
             [] T[i].kind = "eq" -> arg(1) = Zero
             [] T[i].kind = "bineq" -> arg(1) = arg(2)
             [] T[i].kind = "product" -> Times(arg(1), arg(2))
             [] T[i].kind = "poly" ->
                  FoldLeft(Plus, Zero, [k \in DOMAIN T[i].args |-> arg(k)])
             [] T[i].kind = "ite" -> IF arg(1) THEN arg(2) ELSE arg(3)
  IN val

Value(val, t) == IF is_negated(t) THEN ~val[index_of(t)] ELSE val[index_of(t)]

SymbolsOf(T) == {2 * i : i \in {i \in DOMAIN T : T[i].kind = "uninterpreted"}}

\* The functions on set with values from inner on part and from outer elsewhere.
Pieced(set, part, inner, outer) ==
  {[t \in set |-> IF t \in part THEN f[t] ELSE g[t]] : f \in [part -> inner], g \in [set \ part -> outer]}

\* Valuations that take the real constants from a set of points.
ValuationsOf(T, points) ==
  LET reals == {t \in SymbolsOf(T) : get_type(T, t) = "real"}
  IN Pieced(SymbolsOf(T), reals, points, BOOLEAN)
=============================================================================
