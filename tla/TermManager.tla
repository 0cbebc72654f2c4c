---------------------------- MODULE TermManager ----------------------------
(***************************************************************************)
(* The front end building terms: any sequence of calls of the constructors *)
(* of Terms on terms that exist (src/terms/Term_manager.cpp, mk_term).     *)
(***************************************************************************)
EXTENDS TermMeaning

CONSTANTS
  Problems,  \* set of [sorts, literals, calls]: the types of the constants
             \* declared, the rational numbers written, a bound on the calls
  Points     \* the values properties try for a real constant

ASSUME TermManagerAssumption ==
  /\ \A p \in Problems : p.sorts \in Seq({"bool", "real"}) /\ p.calls \in Nat
  /\ \A q \in Points \cup UNION {p.literals : p \in Problems} :
       q \in Int \X (Nat \ {0}) /\ q = Frac(q[1], q[2])

VARIABLES
  problem,
  table,  \* index -> [kind, type, args, value]
  calls   \* the number of calls so far

vars == <<problem, table, calls>>

Handles == 2..(2 * Len(table) + 1)

Bools == {t \in Handles : get_type(table, t) = "bool"}

Reals == {t \in Handles : get_type(table, t) = "real" /\ ~is_negated(t)}

Constants == {t \in Reals : is_arithmetic_constant(table, t)}

-----------------------------------------------------------------------------
Declared(sort) == Composite("uninterpreted", sort, << >>)

Init ==
  /\ problem \in Problems
  /\ table = PrimitiveTerms \o [k \in DOMAIN problem.sorts |-> Declared(problem.sorts[k])]
  /\ calls = 0

MayCall == calls < problem.calls

Call(r) ==
  /\ table' = r.tab
  /\ calls' = calls + 1
  /\ UNCHANGED problem

MkConstant == MayCall /\ \E q \in problem.literals : Call(arithmetic_constant(table, q))

\* mk_or sorts its arguments first, so one order of them is enough.
MkOr == MayCall /\ \E x, y, z \in Bools : x <= y /\ y <= z /\ Call(mk_or(table, <<x, y, z>>))

MkAnd == MayCall /\ \E x, y, z \in Bools : x <= y /\ y <= z /\ Call(mk_and(table, <<x, y, z>>))

MkImplies == MayCall /\ \E x, y \in Bools : Call(mk_implies(table, x, y))

MkIff == MayCall /\ \E x, y \in Bools : Call(mk_iff(table, x, y))

MkXor == MayCall /\ \E x, y \in Bools : Call(mk_xor(table, x, y))

MkBoolIte == MayCall /\ \E c, t, e \in Bools : Call(mk_bool_ite(table, c, t, e))

MkRealIte == MayCall /\ \E c \in Bools, t, e \in Reals : Call(mk_arithmetic_ite(table, c, t, e))

MkPlus == MayCall /\ \E x, y \in Reals : Call(mk_arithmetic_plus(table, <<x, y>>))

MkMinus == MayCall /\ \E x, y \in Reals : Call(mk_arithmetic_minus(table, x, y))

MkUnaryMinus == MayCall /\ \E x \in Reals : Call(mk_unary_minus(table, x))

MkTimes == MayCall /\ \E c \in Constants, x \in Reals : Call(mk_arithmetic_times(table, c, x))

\* What inv() makes of a larger divisor is InverseNeedsSmallDenominator's subject.
MkDivides ==
  /\ MayCall
  /\ \E x \in Reals, c \in Constants \ {zero_term} :
       HasQuotient(table, x, c) /\ Call(mk_divides(table, x, c))

MkGeq == MayCall /\ \E x, y \in Reals : Call(mk_arithmetic_geq(table, x, y))

\* A failed assertion ends the program.
MkEq ==
  MayCall /\ \E x, y \in Reals : HasDifference(table, x, y) /\ Call(mk_arithmetic_eq(table, x, y))

Next ==
  \/ MkConstant \/ MkOr \/ MkAnd \/ MkImplies \/ MkIff \/ MkXor \/ MkBoolIte \/ MkRealIte
  \/ MkPlus \/ MkMinus \/ MkUnaryMinus \/ MkTimes \/ MkDivides \/ MkGeq \/ MkEq

Spec == Init /\ [][Next]_vars

-----------------------------------------------------------------------------
(* What terms mean under a valuation of the declared constants.            *)

\* The term r stands for what Meaning makes of the values of the arguments.
Means(r, args, Meaning(_)) ==
  \A rho \in ValuationsOf(table, Points) :
    LET val == ValuesIn(r.tab, rho)
    IN Value(val, r.term) = Meaning([k \in DOMAIN args |-> Value(val, args[k])])

-----------------------------------------------------------------------------
(* Properties.                                                             *)

\* Entries are built from older ones, of the types their kind asks for, and no
\* two entries are the same term but for declared constants.
TermsTypeOK ==
  /\ calls \in 0..problem.calls
  /\ \A i \in DOMAIN table :
       /\ table[i].kind \in {"true", "constant", "uninterpreted", "product", "poly", "ite",
                             "or", "geq", "eq", "bineq"}
       /\ table[i].type = IF table[i].kind \in {"constant", "product", "poly", "ite"} THEN "real"
                          ELSE IF table[i].kind = "uninterpreted" THEN table[i].type ELSE "bool"
       /\ \A k \in DOMAIN table[i].args : index_of(table[i].args[k]) \in 1..(i - 1)
  /\ LET known == {i \in DOMAIN table : table[i].kind # "uninterpreted"}
     IN Cardinality({table[i] : i \in known}) = Cardinality(known)

\* The simplifications of the boolean constructors (the table above
\* mk_bool_ite, the argument sorting of mk_or, the definitions of iff and
\* xor) keep the meaning of the connective.
ConnectivesKeepMeaning ==
  MayCall => \A x, y \in Bools :
    /\ Means(mk_implies(table, x, y), <<x, y>>, LAMBDA v : v[1] => v[2])
    /\ Means(mk_iff(table, x, y), <<x, y>>, LAMBDA v : v[1] = v[2])
    /\ Means(mk_xor(table, x, y), <<x, y>>, LAMBDA v : v[1] # v[2])
    /\ \A z \in Bools :
         /\ x <= y /\ y <= z =>
              /\ Means(mk_or(table, <<x, y, z>>), <<x, y, z>>, LAMBDA v : v[1] \/ v[2] \/ v[3])
              /\ Means(mk_and(table, <<x, y, z>>), <<x, y, z>>, LAMBDA v : v[1] /\ v[2] /\ v[3])
         /\ Means(mk_bool_ite(table, x, y, z), <<x, y, z>>,
                  LAMBDA v : IF v[1] THEN v[2] ELSE v[3])

\* The normal forms of arithmetic (polynomials, solved equations, x >= 0 for
\* all orders, ite with a positive condition) keep the meaning of the
\* operator; of a division where inv() has the reciprocal of the divisor.
ArithmeticKeepsMeaning ==
  MayCall => \A x, y \in Reals :
    /\ Means(mk_arithmetic_plus(table, <<x, y>>), <<x, y>>, LAMBDA v : Plus(v[1], v[2]))
    /\ Means(mk_arithmetic_minus(table, x, y), <<x, y>>, LAMBDA v : Minus(v[1], v[2]))
    /\ Means(mk_unary_minus(table, x), <<x>>, LAMBDA v : Times(MinusOne, v[1]))
    /\ Means(mk_arithmetic_geq(table, x, y), <<x, y>>, LAMBDA v : AtLeast(v[1], v[2]))
    /\ Means(mk_arithmetic_gt(table, x, y), <<x, y>>, LAMBDA v : ~AtLeast(v[2], v[1]))
    /\ HasDifference(table, x, y) =>
         Means(mk_arithmetic_eq(table, x, y), <<x, y>>, LAMBDA v : v[1] = v[2])
    /\ y \in Constants =>
         Means(mk_arithmetic_times(table, y, x), <<x, y>>, LAMBDA v : Times(v[1], v[2]))
    /\ y \in Constants \ {zero_term} /\ HasQuotient(table, x, y) =>
         Means(mk_divides(table, x, y), <<x, y>>, LAMBDA v : Over(v[1], v[2]))
    /\ \A c \in Bools :
         Means(mk_arithmetic_ite(table, c, x, y), <<c, x, y>>,
               LAMBDA v : IF v[1] THEN v[2] ELSE v[3])

\* What the translation to clauses asserts of the terms it meets: a
\* disjunction has two different arguments or more, none of them a constant
\* and no two complementary; conditions are positive; equations have a
\* variable on the left; no atom is about a constant.
NormalForm ==
  \A i \in DOMAIN table :
    LET args == table[i].args
        kind(k) == get_kind(table, args[k])
    IN CASE table[i].kind = "or" ->
              /\ Len(args) >= 2
              /\ \A j, k \in DOMAIN args : j < k => positive_term(args[j]) < positive_term(args[k])
              /\ \A k \in DOMAIN args : kind(k) # "true"
         [] table[i].kind = "poly" ->
              /\ Len(args) >= 2
              /\ \A k \in DOMAIN args :
                   kind(k) \in {"uninterpreted", "ite", "product"} \/ (k = 1 /\ kind(k) = "constant")
              /\ Cardinality(DOMAIN term_to_poly(table, 2 * i)) = Len(args)
         [] table[i].kind = "ite" -> ~is_negated(args[1]) /\ kind(1) # "true"
         [] table[i].kind \in {"geq", "eq"} -> kind(1) # "constant"
         [] table[i].kind = "bineq" ->
              /\ args[1] # args[2]
              /\ kind(1) \in {"uninterpreted", "ite"}
              /\ kind(2) \in {"uninterpreted", "ite", "constant"}
         [] OTHER -> TRUE

\* What holds of the table: sharing is complete and every entry is in normal
\* form.
TermsInv == TermsTypeOK /\ NormalForm

\* "assert(p.size() != 0)" in mk_arithmetic_eq: different terms have
\* different polynomials.
EquationHasAPolynomial == \A x, y \in Reals : HasDifference(table, x, y)
=============================================================================
