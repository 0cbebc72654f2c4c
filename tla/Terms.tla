------------------------------- MODULE Terms -------------------------------
(***************************************************************************)
(* The table of terms (src/terms/Terms.cpp, src/terms/Term_hash_table.cpp) *)
(* and the simplifying constructors over it (src/terms/Term_manager.cpp).  *)
(*                                                                         *)
(* A term is a number, twice the index of its entry in the table, plus one *)
(* for a negation.  A constructor takes the table T and returns the term   *)
(* with the table it is in, since it may add terms it needs on the way.    *)
(***************************************************************************)
EXTENDS Words, Lists, FiniteSetsExt, SequencesExt, TLC

-----------------------------------------------------------------------------
(* Handles.                                                                *)

Undef == -1

true_term == 2

false_term == 3

zero_term == 4

index_of(t) == t \div 2

is_negated(t) == t % 2 = 1

opposite_term(t) == IF is_negated(t) THEN t - 1 ELSE t + 1

positive_term(t) == 2 * index_of(t)

get_kind(T, t) == T[index_of(t)].kind

get_type(T, t) == T[index_of(t)].type

get_args(T, t) == T[index_of(t)].args

arithmetic_constant_value(T, t) == T[index_of(t)].value

var_of_product(T, t) == get_args(T, t)[2]

coeff_of_product(T, t) == arithmetic_constant_value(T, get_args(T, t)[1])

is_var_like(T, t) == get_kind(T, t) \in {"uninterpreted", "ite"}

is_arithmetic_constant(T, t) == get_kind(T, t) = "constant"

Kept(T, t) == [tab |-> T, term |-> t]

Negated(r) == [r EXCEPT !.term = opposite_term(@)]

-----------------------------------------------------------------------------
(* The table: a term that is known is not added again.                     *)

Composite(kind, type, args) == [kind |-> kind, type |-> type, args |-> args, value |-> Zero]

Intern(T, entry) ==
  IF \E i \in DOMAIN T : T[i] = entry
    THEN Kept(T, 2 * (CHOOSE i \in DOMAIN T : T[i] = entry))
    ELSE [tab |-> Append(T, entry), term |-> 2 * (Len(T) + 1)]

new_uninterpreted_constant(T, type) ==
  [tab |-> Append(T, Composite("uninterpreted", type, << >>)), term |-> 2 * (Len(T) + 1)]

arithmetic_constant(T, q) ==
  Intern(T, [kind |-> "constant", type |-> "real", args |-> << >>, value |-> q])

arithmetic_product(T, coeff, var) ==
  LET k == arithmetic_constant(T, coeff)
  IN Intern(k.tab, Composite("product", "real", <<k.term, var>>))

or_term(T, args) == Intern(T, Composite("or", "bool", args))

arithmetic_geq_zero(T, t) == Intern(T, Composite("geq", "bool", <<t>>))

arithmetic_eq_zero(T, t) == Intern(T, Composite("eq", "bool", <<t>>))

arithmetic_binary_eq(T, s, t) == Intern(T, Composite("bineq", "bool", <<s, t>>))

\* The terms every table starts with.
PrimitiveTerms ==
  <<Composite("true", "bool", << >>),
    [kind |-> "constant", type |-> "real", args |-> << >>, value |-> Zero]>>

-----------------------------------------------------------------------------
(* Connectives.                                                            *)

\* Variation: complementary arguments are not looked for.
OrWithoutOpposites(T, args) ==
  LET rest == ToSet(args) \ {false_term} IN
  IF true_term \in ToSet(args) THEN Kept(T, true_term)
  ELSE IF rest = {} THEN Kept(T, false_term)
  ELSE IF Cardinality(rest) = 1 THEN Kept(T, CHOOSE x \in rest : TRUE)
  ELSE or_term(T, SortedList(rest, <))

\* Sorting brings true and false to the front and equal and complementary
\* arguments together.
mk_or(T, args) ==
  LET all == ToSet(args)
      rest == all \ {false_term}
  IN IF true_term \in all \/ \E x \in all : opposite_term(x) \in all THEN Kept(T, true_term)
     ELSE IF rest = {} THEN Kept(T, false_term)
     ELSE IF Cardinality(rest) = 1 THEN Kept(T, CHOOSE x \in rest : TRUE)
     ELSE or_term(T, SortedList(rest, <))

mk_and(T, args) == Negated(mk_or(T, [k \in DOMAIN args |-> opposite_term(args[k])]))

mk_binary_or(T, x, y) ==
  IF x = y \/ x = true_term THEN Kept(T, x)
  ELSE IF y = true_term THEN Kept(T, y)
  ELSE IF x = false_term THEN Kept(T, y)
  ELSE IF y = false_term THEN Kept(T, x)
  ELSE IF opposite_term(x) = y THEN Kept(T, true_term)
  ELSE or_term(T, SortedList({x, y}, <))

mk_binary_and(T, x, y) == Negated(mk_binary_or(T, opposite_term(x), opposite_term(y)))

mk_implies(T, x, y) == mk_binary_or(T, opposite_term(x), y)

\* C++ leaves open which of the two arguments is built first; only the
\* numbers of the terms depend on it.
mk_iff(T, x, y) ==
  LET a == mk_implies(T, x, y)
      b == mk_implies(a.tab, y, x)
  IN mk_binary_and(b.tab, a.term, b.term)

mk_xor(T, x, y) ==
  LET a == mk_binary_or(T, x, y)
      b == mk_binary_and(a.tab, x, y)
  IN mk_binary_and(b.tab, a.term, opposite_term(b.term))

\* Variation: a negated condition is dropped, but the branches are not
\* exchanged.
IteBothImplications(T, c, t, e) ==
  LET p == positive_term(c)
      a == mk_implies(T, p, t)
      b == mk_implies(a.tab, opposite_term(p), e)
  IN mk_binary_and(b.tab, a.term, b.term)

\* c -> t and not c -> e, for a positive condition.
GeneralIte(T, c, t, e) ==
  LET p == positive_term(c)
      a == mk_implies(T, p, IF is_negated(c) THEN e ELSE t)
      b == mk_implies(a.tab, opposite_term(p), IF is_negated(c) THEN t ELSE e)
  IN mk_binary_and(b.tab, a.term, b.term)

\* The first row that applies decides.
mk_bool_ite(T, c, t, e) ==
  IF t = e \/ c = true_term THEN Kept(T, t)
  ELSE IF c = false_term THEN Kept(T, e)
  ELSE IF t = opposite_term(e) THEN mk_iff(T, c, t)
  ELSE IF c = t THEN mk_binary_or(T, t, e)
  ELSE IF c = e THEN mk_binary_and(T, e, t)
  ELSE IF c = opposite_term(t) THEN mk_binary_and(T, t, e)
  ELSE IF c = opposite_term(e) THEN mk_binary_or(T, e, t)
  ELSE IF t = true_term THEN mk_binary_or(T, c, e)
  ELSE IF t = false_term THEN mk_binary_and(T, opposite_term(c), e)
  ELSE IF e = false_term THEN mk_binary_and(T, c, t)
  ELSE IF e = true_term THEN mk_binary_or(T, opposite_term(c), t)
  ELSE GeneralIte(T, c, t, e)

-----------------------------------------------------------------------------
(* Polynomials: functions from variables, and Undef for the constant term, *)
(* to coefficients other than zero.                                        *)

NoTerms == [v \in {} |-> Zero]

Monomial(v, c) == [w \in {v} |-> c]

At(p, v) == IF v \in DOMAIN p THEN p[v] ELSE Zero

\* p + c * q
Merge(p, q, c) ==
  LET sum == [v \in DOMAIN p \cup DOMAIN q |-> Plus(At(p, v), Times(c, At(q, v)))]
  IN RestrictValues(sum, LAMBDA q1 : q1 # Zero)

\* The sum of a list of polynomials.
MergeAll(ps) == FoldLeft(LAMBDA p, q : Merge(p, q, One), NoTerms, ps)

MonomialPoly(T, t) ==
  CASE t = zero_term -> NoTerms
    [] t # zero_term /\ is_arithmetic_constant(T, t) -> Monomial(Undef, arithmetic_constant_value(T, t))
    [] is_var_like(T, t) -> Monomial(t, One)
    [] get_kind(T, t) = "product" -> Monomial(var_of_product(T, t), coeff_of_product(T, t))

term_to_poly(T, t) ==
  IF get_kind(T, t) = "poly"
    THEN MergeAll([k \in DOMAIN get_args(T, t) |-> MonomialPoly(T, get_args(T, t)[k])])
    ELSE MonomialPoly(T, t)

MonomialTerm(T, p, v) ==
  CASE v = Undef -> arithmetic_constant(T, p[v])
    [] v # Undef /\ p[v] = One -> Kept(T, v)
    [] v # Undef /\ p[v] # One -> arithmetic_product(T, p[v], v)

\* The monomials in the order of their variables, the constant first.
MonomialTerms(T, p) ==
  FoldLeft(LAMBDA r, v : LET m == MonomialTerm(r.tab, p, v)
                         IN [tab |-> m.tab, terms |-> Append(r.terms, m.term)],
           [tab |-> T, terms |-> << >>],
           SortedList(DOMAIN p, <))

poly_to_term(T, p) ==
  LET r == MonomialTerms(T, p) IN
  CASE r.terms = << >>    -> Kept(T, zero_term)
    [] Len(r.terms) = 1 -> Kept(r.tab, r.terms[1])
    [] OTHER            -> Intern(r.tab, Composite("poly", "real", r.terms))

mk_arithmetic_plus(T, args) ==
  poly_to_term(T, MergeAll([k \in DOMAIN args |-> term_to_poly(T, args[k])]))

mk_arithmetic_minus(T, x, y) ==
  poly_to_term(T, Merge(term_to_poly(T, x), term_to_poly(T, y), MinusOne))

Scaled(p, c) == [v \in DOMAIN p |-> Times(c, p[v])]

mk_unary_minus(T, x) == poly_to_term(T, Scaled(term_to_poly(T, x), MinusOne))

\* A constant times a term.
Multiplied(T, val, t) ==
  CASE is_var_like(T, t) -> arithmetic_product(T, val, t)
    [] get_kind(T, t) = "product" ->
         arithmetic_product(T, Times(coeff_of_product(T, t), val), var_of_product(T, t))
    [] get_kind(T, t) = "poly" -> poly_to_term(T, Scaled(term_to_poly(T, t), val))

Factor(T, t) == IF is_arithmetic_constant(T, t) THEN arithmetic_constant_value(T, t) ELSE One

\* One of the two is a constant.
mk_arithmetic_times(T, x, y) ==
  LET val == Times(Factor(T, x), Factor(T, y))
      rest == {t \in {x, y} : ~is_arithmetic_constant(T, t)}
  IN CASE val = Zero -> Kept(T, zero_term)
       [] val # Zero /\ rest = {} -> arithmetic_constant(T, val)
       [] val = One /\ rest # {} -> Kept(T, CHOOSE t \in rest : TRUE)
       [] OTHER -> Multiplied(T, val, CHOOSE t \in rest : TRUE)

\* y is a constant other than zero.  If x is not a constant, y is one held in
\* words: inv() reads no other part of it.
mk_divides(T, x, y) ==
  LET value == arithmetic_constant_value(T, y)
      mult == arithmetic_constant(T, InvOfWords(value))
  IN IF is_arithmetic_constant(T, x)
       THEN arithmetic_constant(T, Over(arithmetic_constant_value(T, x), value))
       ELSE mk_arithmetic_times(mult.tab, x, mult.term)

\* The divisions that do not depend on a reciprocal that inv() misses.
HasQuotient(T, x, y) ==
  LET value == arithmetic_constant_value(T, y)
  IN is_arithmetic_constant(T, x) \/ (FitsWord(value) /\ SignedDenominator(value) \in Word)

mk_arithmetic_ite(T, c, t, e) ==
  CASE c = true_term -> Kept(T, t)
    [] c = false_term -> Kept(T, e)
    [] t = e /\ c \notin {true_term, false_term} -> Kept(T, t)
    [] OTHER -> Intern(T, Composite("ite", "real",
                  <<positive_term(c), IF is_negated(c) THEN e ELSE t,
                                      IF is_negated(c) THEN t ELSE e>>))

-----------------------------------------------------------------------------
(* Atoms.                                                                  *)

mk_arithmetic_geq(T, x, y) ==
  LET diff == mk_arithmetic_minus(T, x, y) IN
  IF is_arithmetic_constant(diff.tab, diff.term)
    THEN Kept(diff.tab, IF AtLeast(arithmetic_constant_value(diff.tab, diff.term), Zero)
                          THEN true_term ELSE false_term)
    ELSE arithmetic_geq_zero(diff.tab, diff.term)

mk_arithmetic_leq(T, x, y) == mk_arithmetic_geq(T, y, x)

mk_arithmetic_lt(T, x, y) == Negated(mk_arithmetic_geq(T, x, y))

mk_arithmetic_gt(T, x, y) == mk_arithmetic_lt(T, y, x)

Difference(T, x, y) == Merge(term_to_poly(T, x), term_to_poly(T, y), MinusOne)

\* Variable on the left, the older one if both sides are variables.
direct_arithmetic_binary_equality(T, s, t) ==
  IF ~is_var_like(T, s) \/ (is_var_like(T, t) /\ t < s)
    THEN arithmetic_binary_eq(T, t, s) ELSE arithmetic_binary_eq(T, s, t)

\* Variation: the constant changes sides without changing its sign.
RootUnsigned(p, v) == Over(p[Undef], p[v])

\* The solution of c0 + c1 * v = 0.
Root(p, v) == Over(Times(MinusOne, p[Undef]), p[v])

\* The equation p = 0.  The constant term, if there is one, comes first.
EqualsZero(T, p) ==
  LET vs == SortedList(DOMAIN p, <)
      solved == arithmetic_constant(T, Root(p, vs[2]))
      whole == poly_to_term(T, p)
  IN CASE Len(vs) = 1 /\ vs[1] = Undef -> Kept(T, false_term)
       [] Len(vs) = 1 /\ vs[1] # Undef -> arithmetic_eq_zero(T, vs[1])
       [] Len(vs) = 2 /\ vs[1] = Undef ->
            direct_arithmetic_binary_equality(solved.tab, vs[2], solved.term)
       [] Len(vs) = 2 /\ vs[1] # Undef /\ Plus(p[vs[1]], p[vs[2]]) = Zero ->
            direct_arithmetic_binary_equality(T, vs[1], vs[2])
       [] OTHER -> arithmetic_eq_zero(whole.tab, whole.term)

\* The assertion of mk_arithmetic_eq on two different terms.
HasDifference(T, x, y) == x = y \/ Difference(T, x, y) # NoTerms

mk_arithmetic_eq(T, x, y) ==
  IF x = y THEN Kept(T, true_term) ELSE EqualsZero(T, Difference(T, x, y))

=============================================================================
