--------------------------- MODULE MCInternalizer ---------------------------
(***************************************************************************)
(* Problems over one boolean constant b and three real constants x, y, z.  *)
(* Boolean terms of a table and their negations are asserted, alone and in *)
(* pairs.                                                                  *)
(***************************************************************************)
EXTENDS Internalizer

\* The constants b, x, y, z are the terms 6, 8, 10 and 12.
Start ==
  PrimitiveTerms \o [k \in 1..4 |-> Composite("uninterpreted", IF k = 1 THEN "bool" ELSE "real", << >>)]

Build(T, op, a) ==
  CASE op = "or" -> mk_or(T, a)
    [] op = "binary_or" -> mk_binary_or(T, a[1], a[2])
    [] op = "xor" -> mk_xor(T, a[1], a[2])
    [] op = "iff" -> mk_iff(T, a[1], a[2])
    [] op = "bool_ite" -> mk_bool_ite(T, a[1], a[2], a[3])
    [] op = "ite" -> mk_arithmetic_ite(T, a[1], a[2], a[3])
    [] op = "plus" -> mk_arithmetic_plus(T, a)
    [] op = "minus" -> mk_arithmetic_minus(T, a[1], a[2])
    [] op = "geq" -> mk_arithmetic_geq(T, a[1], a[2])
    [] op = "eq" -> mk_arithmetic_eq(T, a[1], a[2])

\* A problem is built step by step.  The arguments of a step are positions in
\* the list of b, x, y, z, zero and the terms of the steps before; a negative
\* number stands for the opposite of a term.
ConstantTerms == <<6, 8, 10, 12, zero_term>>

Built(steps) ==
  FoldLeft(LAMBDA r, s :
             LET arg(k) == IF k < 0 THEN opposite_term(r.terms[-k]) ELSE r.terms[k]
                 n == Build(r.tab, s[1], [k \in DOMAIN s[2] |-> arg(s[2][k])])
             IN [tab |-> n.tab, terms |-> Append(r.terms, n.term)],
           [tab |-> Start, terms |-> ConstantTerms],
           steps)

\* b or not x - y >= 0 or y - z < 0; the argument is met under a negation.
Orders == <<<<"geq", <<2, 3>>>>, <<"geq", <<3, 4>>>>, <<"or", <<1, -6, -7>>>>>>

\* A conditional term in a sum; its branch is also an equation of its own.
Conditional ==
  <<<<"ite", <<1, 2, 3>>>>, <<"plus", <<6, 4>>>>, <<"geq", <<7, 3>>>>,
    <<"eq", <<6, 2>>>>, <<"binary_or", <<8, -9>>>>>>

\* A condition with a conditional term in a branch of another one.
Nested ==
  <<<<"ite", <<-1, 2, 5>>>>, <<"geq", <<3, 6>>>>, <<"minus", <<6, 2>>>>,
    <<"ite", <<7, 8, 3>>>>, <<"geq", <<9, 2>>>>>>

\* Two equations that are one constraint.
Twice ==
  <<<<"plus", <<2, 3>>>>, <<"eq", <<6, 4>>>>, <<"eq", <<4, 6>>>>, <<"xor", <<7, 1>>>>>>

\* Equal terms compared, and the connectives.
Connectives ==
  <<<<"geq", <<2, 2>>>>, <<"eq", <<2, 5>>>>, <<"iff", <<1, 7>>>>, <<"bool_ite", <<8, 1, -7>>>>>>

Roots == {Built(steps) : steps \in {Orders, Conditional, Nested, Twice, Connectives}}

BoolTerms(T) == {t \in 2..(2 * Len(T) + 1) : get_type(T, t) = "bool"}

\* Every boolean term and its negation, alone and in pairs.
MCProblems ==
  UNION {{[table |-> r.tab, assertions |-> q] :
            q \in UNION {{<<s>>, <<s, t>>} : s, t \in BoolTerms(r.tab)}} : r \in Roots}

MCRealVars == 0..5
MCGrid == -1..1
=============================================================================
