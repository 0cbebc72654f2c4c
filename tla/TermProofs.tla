----------------------------- MODULE TermProofs -----------------------------
(***************************************************************************)
(* Proofs about terms, for any declared constants, any numbers written and *)
(* any calls of the constructors: the table of terms is well built, its    *)
(* entries are in normal form, and a term that a constructor returns has   *)
(* the value of the operator, in its table and in every larger one, for    *)
(* all truth values and all rational numbers.                              *)
(***************************************************************************)
EXTENDS TermManager, CommonLemmas

-----------------------------------------------------------------------------
(* Tables of terms.                                                        *)

Kinds == {"true", "constant", "uninterpreted", "product", "poly", "ite", "or", "geq", "eq",
          "bineq"}

Entry == [kind : Kinds, type : {"bool", "real"}, args : Seq(Nat), value : Rat]

TermOf(T) == {t \in Nat : index_of(t) \in DOMAIN T}

BoolOf(T) == {t \in TermOf(T) : get_type(T, t) = "bool"}

RealOf(T) == {t \in TermOf(T) : get_type(T, t) = "real" /\ ~is_negated(t)}

\* The terms variables of polynomials are.
VarLike(T) == {t \in RealOf(T) : is_var_like(T, t)}

Monomials(T) ==
  {t \in RealOf(T) :
     /\ get_kind(T, t) \in {"constant", "uninterpreted", "ite", "product"}
     /\ get_kind(T, t) = "constant" => arithmetic_constant_value(T, t) # Zero}

VarOf(T, t) ==
  IF get_kind(T, t) = "constant" THEN Undef
  ELSE IF get_kind(T, t) = "product" THEN var_of_product(T, t) ELSE t

\* What an entry over the terms of T looks like, by its kind.
OrShape(T, e) ==
  /\ e.type = "bool"
  /\ Len(e.args) >= 2
  /\ \A k \in DOMAIN e.args : e.args[k] \in BoolOf(T) /\ get_kind(T, e.args[k]) # "true"
  /\ \A j, k \in DOMAIN e.args : j < k => positive_term(e.args[j]) < positive_term(e.args[k])

AtomShape(T, e) ==
  /\ e.type = "bool"
  /\ Len(e.args) = 1
  /\ e.args[1] \in RealOf(T) /\ get_kind(T, e.args[1]) # "constant"

EquationShape(T, e) ==
  /\ e.type = "bool"
  /\ Len(e.args) = 2
  /\ e.args[1] # e.args[2]
  /\ e.args[1] \in VarLike(T)
  /\ e.args[2] \in RealOf(T) /\ get_kind(T, e.args[2]) \in {"uninterpreted", "ite", "constant"}

ProductShape(T, e) ==
  /\ e.type = "real"
  /\ Len(e.args) = 2
  /\ e.args[1] \in RealOf(T) /\ get_kind(T, e.args[1]) = "constant"
  /\ arithmetic_constant_value(T, e.args[1]) # Zero
  /\ e.args[2] \in VarLike(T)

PolyShape(T, e) ==
  /\ e.type = "real"
  /\ Len(e.args) >= 2
  /\ \A k \in DOMAIN e.args : e.args[k] \in Monomials(T)
  /\ \A j, k \in DOMAIN e.args : j < k => VarOf(T, e.args[j]) < VarOf(T, e.args[k])

IteShape(T, e) ==
  /\ e.type = "real"
  /\ Len(e.args) = 3
  /\ e.args[1] \in BoolOf(T) /\ ~is_negated(e.args[1]) /\ get_kind(T, e.args[1]) # "true"
  /\ e.args[2] \in RealOf(T) /\ e.args[3] \in RealOf(T)

Shape(T, e) ==
  /\ e \in Entry
  /\ \A k \in DOMAIN e.args : e.args[k] \in TermOf(T)
  /\ e.kind = "true" => e = PrimitiveTerms[1]
  /\ e.kind = "uninterpreted" => e.args = << >>
  /\ e.kind = "constant" => e.type = "real" /\ e.args = << >>
  /\ e.kind = "or" => OrShape(T, e)
  /\ e.kind \in {"geq", "eq"} => AtomShape(T, e)
  /\ e.kind = "bineq" => EquationShape(T, e)
  /\ e.kind = "product" => ProductShape(T, e)
  /\ e.kind = "poly" => PolyShape(T, e)
  /\ e.kind = "ite" => IteShape(T, e)

\* Every entry is built from older ones, as its kind asks for, and is there once.
WellBuilt(T) ==
  /\ T \in Seq(Entry)
  /\ Len(T) >= 2 /\ T[1] = PrimitiveTerms[1] /\ T[2] = PrimitiveTerms[2]
  /\ \A i \in DOMAIN T :
       Shape(T, T[i]) /\ \A k \in DOMAIN T[i].args : index_of(T[i].args[k]) \in 1..(i - 1)
  /\ \A i, j \in DOMAIN T : T[i] = T[j] /\ T[i].kind # "uninterpreted" => i = j

\* F holds the terms of T.
Extends(T, F) == Len(T) <= Len(F) /\ \A i \in DOMAIN T : F[i] = T[i]

Grown(T, F) == WellBuilt(F) /\ Extends(T, F)

-----------------------------------------------------------------------------
(* Handles of terms.                                                       *)

LEMMA HandleFacts ==
  ASSUME NEW t \in Nat
  PROVE  /\ index_of(t) \in Nat
         /\ is_negated(t) \in BOOLEAN
         /\ opposite_term(t) \in Int
         /\ t >= 2 => opposite_term(t) \in Nat /\ opposite_term(t) >= 2
         /\ index_of(opposite_term(t)) = index_of(t)
         /\ is_negated(opposite_term(t)) = ~is_negated(t)
         /\ opposite_term(opposite_term(t)) = t
         /\ positive_term(t) \in Nat
         /\ index_of(positive_term(t)) = index_of(t)
         /\ ~is_negated(positive_term(t))
         /\ t = IF is_negated(t) THEN positive_term(t) + 1 ELSE positive_term(t)
<1>1. PICK i \in Nat : t = 2 * i \/ t = 2 * i + 1
  <2>1. t = 2 * (t \div 2) \/ t = 2 * (t \div 2) + 1 OBVIOUS
  <2>2. t \div 2 \in Nat OBVIOUS
  <2>3. QED BY <2>1, <2>2
<1>2. /\ (2 * i) \div 2 = i /\ (2 * i + 1) \div 2 = i
      /\ (2 * i) % 2 = 0 /\ (2 * i + 1) % 2 = 1
      /\ 2 * i \in Nat /\ 2 * i + 1 \in Nat
      /\ (2 * i + 1) - 1 = 2 * i
  OBVIOUS
<1>3. CASE t = 2 * i
  BY <1>2, <1>3 DEF index_of, is_negated, opposite_term, positive_term
<1>4. CASE t = 2 * i + 1
  BY <1>2, <1>4 DEF index_of, is_negated, opposite_term, positive_term
<1>5. QED BY <1>1, <1>3, <1>4

\* A term is its entry and its sign.
LEMMA HandleIs ==
  ASSUME NEW s \in Nat, NEW t \in Nat, index_of(s) = index_of(t)
  PROVE  s = t \/ s = opposite_term(t)
<1>1. s = 2 * (s \div 2) \/ s = 2 * (s \div 2) + 1 OBVIOUS
<1>2. t = 2 * (t \div 2) \/ t = 2 * (t \div 2) + 1 OBVIOUS
<1>3. s \div 2 = t \div 2 /\ t \div 2 \in Nat BY DEF index_of
<1>4. (2 * (t \div 2)) % 2 = 0 /\ (2 * (t \div 2) + 1) % 2 = 1 BY <1>3
<1>5. QED BY <1>1, <1>2, <1>3, <1>4 DEF opposite_term, is_negated

\* The handle of an entry.
LEMMA HandleOf ==
  ASSUME NEW i \in Nat
  PROVE  2 * i \in Nat /\ index_of(2 * i) = i /\ ~is_negated(2 * i)
BY DEF index_of, is_negated

LEMMA OppositeIsTerm ==
  ASSUME NEW T, NEW t \in TermOf(T), 0 \notin DOMAIN T
  PROVE  /\ opposite_term(t) \in TermOf(T)
         /\ get_type(T, opposite_term(t)) = get_type(T, t)
         /\ get_kind(T, opposite_term(t)) = get_kind(T, t)
         /\ t >= 2
<1>1. t \in Nat /\ index_of(t) \in DOMAIN T BY DEF TermOf
<1>2. t >= 2
  <2>1. index_of(0) = 0 /\ index_of(1) = 0 BY DEF index_of
  <2>2. QED BY <1>1, <2>1
<1>3. opposite_term(t) \in Nat /\ index_of(opposite_term(t)) = index_of(t)
  BY <1>1, <1>2, HandleFacts
<1>4. QED BY <1>1, <1>2, <1>3 DEF TermOf, get_type, get_kind

-----------------------------------------------------------------------------
(* Tables that grow.                                                       *)

LEMMA ExtendsIs ==
  ASSUME NEW T, Len(T) \in Nat, DOMAIN T = 1..Len(T), NEW F, Len(F) \in Nat,
         DOMAIN F = 1..Len(F), Extends(T, F)
  PROVE  DOMAIN T \subseteq DOMAIN F
BY DEF Extends

\* Terms stay what they are.
LEMMA TermsStay ==
  ASSUME NEW T \in Seq(Entry), NEW F \in Seq(Entry), Extends(T, F), NEW t \in TermOf(T)
  PROVE  /\ t \in TermOf(F)
         /\ F[index_of(t)] = T[index_of(t)]
         /\ get_kind(F, t) = get_kind(T, t)
         /\ get_type(F, t) = get_type(T, t)
         /\ get_args(F, t) = get_args(T, t)
         /\ arithmetic_constant_value(F, t) = arithmetic_constant_value(T, t)
         /\ is_var_like(F, t) = is_var_like(T, t)
         /\ VarOf(F, t) = VarOf(T, t)
<1>1. t \in TermOf(F) /\ F[index_of(t)] = T[index_of(t)]
  BY ExtendsIs DEF Extends, TermOf
<1>2. QED BY <1>1 DEF get_kind, get_type, get_args, arithmetic_constant_value, is_var_like, VarOf,
              var_of_product

LEMMA SetsGrow ==
  ASSUME NEW T \in Seq(Entry), NEW F \in Seq(Entry), Extends(T, F)
  PROVE  /\ TermOf(T) \subseteq TermOf(F)
         /\ BoolOf(T) \subseteq BoolOf(F)
         /\ RealOf(T) \subseteq RealOf(F)
         /\ VarLike(T) \subseteq VarLike(F)
         /\ Monomials(T) \subseteq Monomials(F)
<1>1. TermOf(T) \subseteq TermOf(F) BY TermsStay
<1>2. BoolOf(T) \subseteq BoolOf(F) BY TermsStay DEF BoolOf
<1>3. RealOf(T) \subseteq RealOf(F) BY TermsStay DEF RealOf
<1>4. VarLike(T) \subseteq VarLike(F)
  BY TermsStay, <1>3 DEF VarLike, RealOf
<1>5. Monomials(T) \subseteq Monomials(F)
  BY TermsStay, <1>3 DEF Monomials, RealOf
<1>6. QED BY <1>1, <1>2, <1>3, <1>4, <1>5

LEMMA ShapeStays ==
  ASSUME NEW T \in Seq(Entry), NEW F \in Seq(Entry), Extends(T, F), NEW e, Shape(T, e)
  PROVE  Shape(F, e)
<1>1. /\ e \in Entry
      /\ \A k \in DOMAIN e.args : e.args[k] \in TermOf(T)
      /\ DOMAIN e.args = 1..Len(e.args) /\ Len(e.args) \in Nat
  BY DEF Shape, Entry
<1>2. \A k \in DOMAIN e.args :
        /\ e.args[k] \in TermOf(F)
        /\ get_kind(F, e.args[k]) = get_kind(T, e.args[k])
        /\ arithmetic_constant_value(F, e.args[k]) = arithmetic_constant_value(T, e.args[k])
        /\ VarOf(F, e.args[k]) = VarOf(T, e.args[k])
  BY <1>1, TermsStay
<1>3. /\ BoolOf(T) \subseteq BoolOf(F)
      /\ RealOf(T) \subseteq RealOf(F)
      /\ VarLike(T) \subseteq VarLike(F)
      /\ Monomials(T) \subseteq Monomials(F)
  BY SetsGrow
<1>4. OrShape(T, e) => OrShape(F, e) BY <1>2, <1>3 DEF OrShape
<1>5. AtomShape(T, e) => AtomShape(F, e)
  BY <1>1, <1>2, <1>3 DEF AtomShape
<1>6. EquationShape(T, e) => EquationShape(F, e)
  BY <1>1, <1>2, <1>3 DEF EquationShape
<1>7. ProductShape(T, e) => ProductShape(F, e)
  BY <1>1, <1>2, <1>3 DEF ProductShape
<1>8. PolyShape(T, e) => PolyShape(F, e) BY <1>2, <1>3 DEF PolyShape
<1>9. IteShape(T, e) => IteShape(F, e) BY <1>1, <1>2, <1>3 DEF IteShape
<1>10. QED BY <1>1, <1>2, <1>4, <1>5, <1>6, <1>7, <1>8, <1>9 DEF Shape

LEMMA GrownReflexive ==
  ASSUME NEW T, WellBuilt(T)
  PROVE  Grown(T, T)
BY DEF Grown, Extends, WellBuilt

LEMMA GrownTransitive ==
  ASSUME NEW T, WellBuilt(T), NEW F, Grown(T, F), NEW G, Grown(F, G)
  PROVE  Grown(T, G)
<1>1. /\ Len(T) \in Nat /\ Len(F) \in Nat /\ Len(G) \in Nat
      /\ DOMAIN T = 1..Len(T) /\ DOMAIN F = 1..Len(F)
  BY DEF Grown, WellBuilt
<1>2. Len(T) <= Len(F) /\ Len(F) <= Len(G) BY DEF Grown, Extends
<1>3. DOMAIN T \subseteq DOMAIN F BY <1>1, <1>2
<1>4. \A i \in DOMAIN T : G[i] = T[i] BY <1>3 DEF Grown, Extends
<1>5. QED BY <1>1, <1>2, <1>4 DEF Grown, Extends

\* What is known of every table and its terms.
LEMMA TableFacts ==
  ASSUME NEW T, WellBuilt(T)
  PROVE  /\ T \in Seq(Entry) /\ Len(T) \in Nat /\ DOMAIN T = 1..Len(T)
         /\ 0 \notin DOMAIN T /\ 1 \in DOMAIN T /\ 2 \in DOMAIN T
         /\ \A t \in TermOf(T) : /\ t \in Nat /\ index_of(t) \in 1..Len(T)
                                 /\ Shape(T, T[index_of(t)])
                                 /\ T[index_of(t)] \in Entry
<1>1. T \in Seq(Entry) /\ Len(T) \in Nat /\ DOMAIN T = 1..Len(T) /\ Len(T) >= 2
  BY DEF WellBuilt
<1>2. \A t \in TermOf(T) : t \in Nat /\ index_of(t) \in DOMAIN T
  BY DEF TermOf
<1>3. \A i \in DOMAIN T : Shape(T, T[i]) /\ T[i] \in Entry
  BY <1>1 DEF WellBuilt
<1>4. QED BY <1>1, <1>2, <1>3

\* The constants every table has.
LEMMA PrimitivesAre ==
  ASSUME NEW T, WellBuilt(T)
  PROVE  /\ true_term \in BoolOf(T) /\ get_kind(T, true_term) = "true"
         /\ false_term \in BoolOf(T) /\ get_kind(T, false_term) = "true"
         /\ \A t \in TermOf(T) : get_kind(T, t) = "true" <=> t \in {true_term, false_term}
         /\ zero_term \in RealOf(T) /\ get_kind(T, zero_term) = "constant"
         /\ arithmetic_constant_value(T, zero_term) = Zero
         /\ \A t \in RealOf(T) :
              get_kind(T, t) = "constant" /\ arithmetic_constant_value(T, t) = Zero
                => t = zero_term
<1>1. index_of(2) = 1 /\ index_of(3) = 1 /\ index_of(4) = 2 /\ ~is_negated(4)
      /\ opposite_term(2) = 3 /\ opposite_term(3) = 2
  BY DEF index_of, is_negated, opposite_term
<1>2. 1 \in DOMAIN T /\ 2 \in DOMAIN T BY TableFacts
<1>3. /\ T[1] = Composite("true", "bool", << >>)
      /\ T[2] = [kind |-> "constant", type |-> "real", args |-> << >>, value |-> Zero]
  BY DEF WellBuilt, PrimitiveTerms
<1>4. /\ true_term \in BoolOf(T) /\ get_kind(T, true_term) = "true"
      /\ false_term \in BoolOf(T) /\ get_kind(T, false_term) = "true"
      /\ zero_term \in RealOf(T) /\ get_kind(T, zero_term) = "constant"
      /\ arithmetic_constant_value(T, zero_term) = Zero
  BY <1>1, <1>2, <1>3 DEF true_term, false_term, zero_term, BoolOf, RealOf, TermOf, get_type,
                        get_kind, arithmetic_constant_value, Composite
<1>5. ASSUME NEW t \in TermOf(T), get_kind(T, t) = "true"
      PROVE  t \in {true_term, false_term}
  <2>1. t \in Nat /\ index_of(t) \in DOMAIN T /\ Shape(T, T[index_of(t)])
    BY TableFacts
  <2>2. T[index_of(t)] = T[1] /\ T[index_of(t)].kind # "uninterpreted"
    BY <1>5, <2>1 DEF Shape, WellBuilt, get_kind
  <2>3. index_of(t) = index_of(2)
    BY <1>1, <1>2, <2>1, <2>2 DEF WellBuilt
  <2>4. QED BY <1>1, <2>1, <2>3, HandleIs DEF true_term, false_term
<1>6. ASSUME NEW t \in RealOf(T), get_kind(T, t) = "constant",
             arithmetic_constant_value(T, t) = Zero
      PROVE  t = zero_term
  <2>1. t \in Nat /\ index_of(t) \in DOMAIN T /\ Shape(T, T[index_of(t)]) /\ ~is_negated(t)
        /\ T[index_of(t)] \in Entry
    BY TableFacts DEF RealOf
  <2>2. T[index_of(t)] = T[2] /\ T[index_of(t)].kind # "uninterpreted"
    BY <1>3, <1>6, <2>1 DEF Shape, get_kind, arithmetic_constant_value, Entry
  <2>3. index_of(t) = index_of(4)
    BY <1>1, <1>2, <2>1, <2>2 DEF WellBuilt
  <2>4. t = 4 \/ t = opposite_term(4) BY <2>1, <2>3, HandleIs
  <2>5. QED BY <1>1, <2>1, <2>4, HandleFacts DEF zero_term
<1>7. QED BY <1>4, <1>5, <1>6

-----------------------------------------------------------------------------
(* Adding an entry.                                                        *)

LEMMA AppendGrows ==
  ASSUME NEW T, WellBuilt(T), NEW e, Shape(T, e),
         e.kind = "uninterpreted" \/ \A i \in DOMAIN T : T[i] # e
  PROVE  /\ Grown(T, Append(T, e))
         /\ Append(T, e)[Len(T) + 1] = e
<1> DEFINE F == Append(T, e)
           n == Len(T)
<1>1. T \in Seq(Entry) /\ n \in Nat /\ DOMAIN T = 1..n /\ e \in Entry
  BY TableFacts DEF Shape
<1>2. /\ F \in Seq(Entry) /\ Len(F) = n + 1 /\ DOMAIN F = 1..(n + 1)
      /\ \A i \in 1..n : F[i] = T[i]
      /\ F[n + 1] = e
  BY <1>1
<1> HIDE DEF F
<1>3. Extends(T, F) BY <1>1, <1>2 DEF Extends
<1>4. \A i \in 1..(n + 1) : i \in 1..n \/ i = n + 1 BY <1>1
<1>5. ASSUME NEW i \in DOMAIN F
      PROVE  Shape(F, F[i]) /\ \A k \in DOMAIN F[i].args : index_of(F[i].args[k]) \in 1..(i - 1)
  <2>1. CASE i \in 1..n
    <3>1. /\ Shape(T, T[i]) /\ F[i] = T[i]
          /\ \A k \in DOMAIN T[i].args : index_of(T[i].args[k]) \in 1..(i - 1)
      BY <1>1, <1>2, <2>1 DEF WellBuilt
    <3>2. QED BY <1>1, <1>2, <1>3, <3>1, ShapeStays
  <2>2. CASE i = n + 1
    <3>1. Shape(F, F[i]) BY <1>1, <1>2, <1>3, <2>2, ShapeStays
    <3>2. \A k \in DOMAIN e.args : index_of(e.args[k]) \in 1..n
      BY <1>1 DEF Shape, TermOf
    <3>3. (n + 1) - 1 = n BY <1>1
    <3>4. QED BY <1>2, <2>2, <3>1, <3>2, <3>3
  <2>3. QED BY <1>2, <1>4, <1>5, <2>1, <2>2
<1>6. ASSUME NEW i \in DOMAIN F, NEW j \in DOMAIN F, F[i] = F[j], F[i].kind # "uninterpreted"
      PROVE  i = j
  <2>1. CASE i \in 1..n /\ j \in 1..n
    BY <1>1, <1>2, <1>6, <2>1 DEF WellBuilt
  <2>2. CASE i = n + 1 /\ j \in 1..n BY <1>1, <1>2, <1>6, <2>2
  <2>3. CASE i \in 1..n /\ j = n + 1 BY <1>1, <1>2, <1>6, <2>3
  <2>4. QED BY <1>2, <1>4, <1>6, <2>1, <2>2, <2>3
<1>7. Len(F) >= 2 /\ F[1] = PrimitiveTerms[1] /\ F[2] = PrimitiveTerms[2]
  BY <1>1, <1>2 DEF WellBuilt
<1>8. WellBuilt(F) BY <1>2, <1>5, <1>6, <1>7 DEF WellBuilt
<1>9. QED BY <1>2, <1>3, <1>8 DEF Grown, F

\* An entry that is known is not added again.
LEMMA InternGrows ==
  ASSUME NEW T, WellBuilt(T), NEW e, Shape(T, e), e.kind # "uninterpreted"
  PROVE  LET r == Intern(T, e)
         IN /\ Grown(T, r.tab)
            /\ r.term \in TermOf(r.tab) /\ ~is_negated(r.term)
            /\ r.tab[index_of(r.term)] = e
<1>1. CASE \E i \in DOMAIN T : T[i] = e
  <2> DEFINE i == CHOOSE i \in DOMAIN T : T[i] = e
  <2>1. i \in DOMAIN T /\ T[i] = e BY <1>1
  <2> HIDE DEF i
  <2>2. Intern(T, e) = [tab |-> T, term |-> 2 * i]
    BY <1>1 DEF Intern, Kept, i
  <2>3. i \in Nat BY <2>1, TableFacts
  <2>4. QED BY <2>1, <2>2, <2>3, HandleOf, GrownReflexive DEF TermOf
<1>2. CASE ~ \E i \in DOMAIN T : T[i] = e
  <2>1. Intern(T, e) = [tab |-> Append(T, e), term |-> 2 * (Len(T) + 1)]
    BY <1>2 DEF Intern
  <2>2. Grown(T, Append(T, e)) /\ Append(T, e)[Len(T) + 1] = e
    BY <1>2, AppendGrows
  <2>3. T \in Seq(Entry) /\ Len(T) + 1 \in Nat /\ e \in Entry
    BY TableFacts DEF Shape
  <2> DEFINE n == Len(T) + 1
             F == Append(T, e)
  <2>4. n \in Nat /\ n \in DOMAIN F BY <2>3
  <2> HIDE DEF n, F
  <2>5. 2 * n \in Nat /\ index_of(2 * n) = n /\ ~is_negated(2 * n)
    BY <2>4, HandleOf
  <2>6. Grown(T, F) /\ F[n] = e /\ Intern(T, e) = [tab |-> F, term |-> 2 * n]
    BY <2>1, <2>2 DEF n, F
  <2>7. QED BY <2>4, <2>5, <2>6 DEF TermOf
<1>3. QED BY <1>1, <1>2

-----------------------------------------------------------------------------
(* Sorting.                                                                *)

Ascending(S) == SortedList(S, <)

LEMMA AscendingSorts ==
  ASSUME NEW S \in SUBSET Int, IsFiniteSet(S)
  PROVE  /\ Ascending(S) \in Seq(S)
         /\ Len(Ascending(S)) = Cardinality(S) /\ Cardinality(S) \in Nat
         /\ \A x \in S : \E k \in 1..Len(Ascending(S)) : Ascending(S)[k] = x
         /\ \A i, j \in 1..Len(Ascending(S)) : i < j => Ascending(S)[i] < Ascending(S)[j]
<1> DEFINE order == {pair \in S \X S : pair[1] < pair[2]}
<1>1. Ascending(S) = Ranked(S, order) BY DEF Ascending, SortedList
<1>2. \A x, y \in S : <<x, y>> \in order <=> x < y OBVIOUS
<1>3. \A i, j : <<i, j>> \in order => i < j OBVIOUS
<1> HIDE DEF order
<1>4. \A x \in S : <<x, x>> \notin order BY <1>2
<1>5. \A x, y, z \in S : <<x, y>> \in order /\ <<y, z>> \in order => <<x, z>> \in order
  BY <1>2
<1>6. \A x, y \in S : x # y => <<x, y>> \in order \/ <<y, x>> \in order
  BY <1>2
<1>7. /\ Ranked(S, order) \in Seq(S)
      /\ Len(Ranked(S, order)) = Cardinality(S)
      /\ \A x \in S : \E k \in 1..Len(Ranked(S, order)) : Ranked(S, order)[k] = x
      /\ \A i, j \in 1..Len(Ranked(S, order)) :
           i < j => <<Ranked(S, order)[i], Ranked(S, order)[j]>> \in order
  BY <1>4, <1>5, <1>6, RankedSorts
<1>8. Cardinality(S) \in Nat BY FS_CardinalityType
<1>9. QED BY <1>1, <1>3, <1>7, <1>8

-----------------------------------------------------------------------------
(* The values of terms.                                                    *)

\* What the entry e is worth, from the values f of its arguments; x is the value
\* of an uninterpreted constant.
Worth(e, x, f) ==
  LET arg(k) == f[index_of(e.args[k])]
      holds(k) == Not(arg(k), is_negated(e.args[k]))
  IN CASE e.kind = "true" -> TRUE
       [] e.kind = "uninterpreted" -> x
       [] e.kind = "constant" -> e.value
       [] e.kind = "or" -> \E k \in DOMAIN e.args : holds(k)
       [] e.kind = "geq" -> AtLeast(arg(1), Zero)
       [] e.kind = "eq" -> arg(1) = Zero
       [] e.kind = "bineq" -> arg(1) = arg(2)
       [] e.kind = "product" -> Times(arg(1), arg(2))
       [] e.kind = "poly" -> FoldLeft(Plus, Zero, [k \in DOMAIN e.args |-> arg(k)])
       [] e.kind = "ite" -> IF arg(1) THEN arg(2) ELSE arg(3)

Total(s) == FoldLeft(Plus, Zero, s)

\* Worth, one kind at a time.
LEMMA WorthOfLeaf ==
  ASSUME NEW e, NEW x, NEW f
  PROVE  /\ e.kind = "true" => Worth(e, x, f) = TRUE
         /\ e.kind = "uninterpreted" => Worth(e, x, f) = x
         /\ e.kind = "constant" => Worth(e, x, f) = e.value
BY DEF Worth

LEMMA WorthOfOr ==
  ASSUME NEW e, NEW x, NEW f, e.kind = "or"
  PROVE  Worth(e, x, f) =
           \E k \in DOMAIN e.args : Not(f[index_of(e.args[k])], is_negated(e.args[k]))
BY DEF Worth

LEMMA WorthOfAtom ==
  ASSUME NEW e, NEW x, NEW f
  PROVE  /\ e.kind = "geq" => Worth(e, x, f) = AtLeast(f[index_of(e.args[1])], Zero)
         /\ e.kind = "eq" => Worth(e, x, f) = (f[index_of(e.args[1])] = Zero)
         /\ e.kind = "bineq" =>
              Worth(e, x, f) = (f[index_of(e.args[1])] = f[index_of(e.args[2])])
BY DEF Worth

LEMMA WorthOfProduct ==
  ASSUME NEW e, NEW x, NEW f, e.kind = "product"
  PROVE  Worth(e, x, f) = Times(f[index_of(e.args[1])], f[index_of(e.args[2])])
BY DEF Worth

LEMMA WorthOfPoly ==
  ASSUME NEW e, NEW x, NEW f, e.kind = "poly"
  PROVE  Worth(e, x, f) = Total([k \in DOMAIN e.args |-> f[index_of(e.args[k])]])
BY DEF Worth, Total

LEMMA WorthOfIte ==
  ASSUME NEW e, NEW x, NEW f, e.kind = "ite"
  PROVE  Worth(e, x, f) = IF f[index_of(e.args[1])] THEN f[index_of(e.args[2])]
                          ELSE f[index_of(e.args[3])]
BY DEF Worth

\* The worth of an entry depends on the values of its arguments only.
LEMMA WorthAgrees ==
  ASSUME NEW e, e.kind \in Kinds, NEW x, NEW f, NEW g,
         e.kind \in {"geq", "eq", "bineq", "product", "ite"} => 1 \in DOMAIN e.args,
         e.kind \in {"bineq", "product", "ite"} => 2 \in DOMAIN e.args,
         e.kind = "ite" => 3 \in DOMAIN e.args,
         \A k \in DOMAIN e.args : f[index_of(e.args[k])] = g[index_of(e.args[k])]
  PROVE  Worth(e, x, f) = Worth(e, x, g)
<1>3. [k \in DOMAIN e.args |-> f[index_of(e.args[k])]]
        = [k \in DOMAIN e.args |-> g[index_of(e.args[k])]]
  OBVIOUS
<1>4. CASE e.kind \in {"true", "uninterpreted", "constant"}
  BY <1>4, WorthOfLeaf
<1>5. CASE e.kind = "or"
  <2>1. Worth(e, x, f) =
          \E k \in DOMAIN e.args : Not(f[index_of(e.args[k])], is_negated(e.args[k]))
    BY <1>5, WorthOfOr
  <2>2. Worth(e, x, g) =
          \E k \in DOMAIN e.args : Not(g[index_of(e.args[k])], is_negated(e.args[k]))
    BY <1>5, WorthOfOr
  <2>3. (\E k \in DOMAIN e.args : Not(f[index_of(e.args[k])], is_negated(e.args[k])))
          = \E k \in DOMAIN e.args : Not(g[index_of(e.args[k])], is_negated(e.args[k]))
    BY DEF Not
  <2>4. QED BY <2>1, <2>2, <2>3, Zenon
<1>6. CASE e.kind \in {"geq", "eq", "bineq"} BY <1>6, WorthOfAtom
<1>7. CASE e.kind = "product" BY <1>7, WorthOfProduct
<1>8. CASE e.kind = "poly"
  <2>1. Worth(e, x, f) = Total([k \in DOMAIN e.args |-> f[index_of(e.args[k])]])
    BY <1>8, WorthOfPoly
  <2>2. Worth(e, x, g) = Total([k \in DOMAIN e.args |-> g[index_of(e.args[k])]])
    BY <1>8, WorthOfPoly
  <2>3. QED BY <1>3, <2>1, <2>2, Zenon
<1>9. CASE e.kind = "ite" BY <1>9, WorthOfIte
<1>10. QED BY <1>4, <1>5, <1>6, <1>7, <1>8, <1>9 DEF Kinds

\* The arguments an entry of a table has.
LEMMA ArgumentsOf ==
  ASSUME NEW T, WellBuilt(T), NEW i \in DOMAIN T
  PROVE  /\ i \in Nat
         /\ \A k \in DOMAIN T[i].args :
              /\ T[i].args[k] \in TermOf(T)
              /\ index_of(T[i].args[k]) \in DOMAIN T
              /\ index_of(T[i].args[k]) \in Nat
              /\ index_of(T[i].args[k]) < i
         /\ T[i].kind \in {"geq", "eq", "bineq", "product", "ite"} => 1 \in DOMAIN T[i].args
         /\ T[i].kind \in {"bineq", "product", "ite"} => 2 \in DOMAIN T[i].args
         /\ T[i].kind = "ite" => 3 \in DOMAIN T[i].args
         /\ T[i].kind \in Kinds
<1>1. /\ DOMAIN T = 1..Len(T) /\ Len(T) \in Nat
      /\ T[i] \in Entry /\ Shape(T, T[i])
      /\ \A k \in DOMAIN T[i].args : index_of(T[i].args[k]) \in 1..(i - 1)
  BY TableFacts DEF WellBuilt
<1>2. DOMAIN T[i].args = 1..Len(T[i].args) /\ T[i].kind \in Kinds
  BY <1>1 DEF Entry
<1>3. i \in Nat BY <1>1
<1>4. \A k \in DOMAIN T[i].args :
        /\ T[i].args[k] \in TermOf(T)
        /\ index_of(T[i].args[k]) \in DOMAIN T
        /\ index_of(T[i].args[k]) \in Nat
        /\ index_of(T[i].args[k]) < i
  BY <1>1, <1>3 DEF Shape
<1>5. T[i].kind \in {"geq", "eq"} => Len(T[i].args) = 1
  BY <1>1 DEF Shape, AtomShape
<1>6. T[i].kind = "bineq" => Len(T[i].args) = 2
  BY <1>1 DEF Shape, EquationShape
<1>7. T[i].kind = "product" => Len(T[i].args) = 2
  BY <1>1 DEF Shape, ProductShape
<1>8. T[i].kind = "ite" => Len(T[i].args) = 3
  BY <1>1 DEF Shape, IteShape
<1>9. /\ T[i].kind \in {"geq", "eq", "bineq", "product", "ite"} => 1 \in DOMAIN T[i].args
      /\ T[i].kind \in {"bineq", "product", "ite"} => 2 \in DOMAIN T[i].args
      /\ T[i].kind = "ite" => 3 \in DOMAIN T[i].args
  <2> DEFINE a == T[i].args
             K == T[i].kind
  <2>1. DOMAIN a = 1..Len(a) BY <1>2
  <2>2. /\ K \in {"geq", "eq"} => Len(a) = 1
        /\ K \in {"bineq", "product"} => Len(a) = 2
        /\ K = "ite" => Len(a) = 3
    BY <1>5, <1>6, <1>7, <1>8
  <2>3. 1 \in 1..1 /\ 1 \in 1..2 /\ 2 \in 1..2 /\ 1 \in 1..3 /\ 2 \in 1..3 /\ 3 \in 1..3
    OBVIOUS
  <2> HIDE DEF a, K
  <2>4. /\ K \in {"geq", "eq", "bineq", "product", "ite"} => 1 \in DOMAIN a
        /\ K \in {"bineq", "product", "ite"} => 2 \in DOMAIN a
        /\ K = "ite" => 3 \in DOMAIN a
    BY <2>1, <2>2, <2>3
  <2>5. QED BY <2>4 DEF a, K
<1>10. QED BY <1>2, <1>3, <1>4, <1>9

\* f holds the values of the entries up to n.
IsValues(f, T, rho, n) == f = [i \in 1..n |-> Worth(T[i], rho[2 * i], f)]

\* There are such values: entry after entry.
LEMMA ValuesExist ==
  ASSUME NEW T, WellBuilt(T), NEW rho
  PROVE  \A n \in 0..Len(T) : \E f : IsValues(f, T, rho, n)
<1> DEFINE Bad == {n \in 0..Len(T) : ~ \E f : IsValues(f, T, rho, n)}
<1>1. Len(T) \in Nat /\ DOMAIN T = 1..Len(T) BY TableFacts
<1>2. ASSUME Bad # {}
      PROVE  FALSE
  <2>1. PICK m \in Bad : \A n \in Bad : m <= n
    <3> Bad \in SUBSET Nat
      BY <1>1
    <3> QED
      BY <1>2, LeastNatural
  <2>2. CASE m = 0
    <3> DEFINE f == [i \in 1..0 |-> 0]
    <3>1. f = [i \in 1..0 |-> Worth(T[i], rho[2 * i], f)] OBVIOUS
    <3>2. QED BY <2>1, <2>2, <3>1, Zenon DEF IsValues
  <2>3. CASE m # 0
    <3>1. m \in DOMAIN T /\ m - 1 \in 0..Len(T) /\ m - 1 \notin Bad
      <4>1. m \in 0..Len(T) BY <2>1
      <4>2. m - 1 \in 0..Len(T) /\ ~ (m <= m - 1) /\ m \in DOMAIN T
        BY <1>1, <2>3, <4>1
      <4> HIDE DEF Bad
      <4>3. QED BY <2>1, <4>2
    <3>2. PICK g : IsValues(g, T, rho, m - 1) BY <3>1
    <3>3. \A i \in 1..(m - 1) : g[i] = Worth(T[i], rho[2 * i], g)
      BY <3>2, Zenon DEF IsValues
    <3> DEFINE f == [i \in 1..m |-> IF i < m THEN g[i] ELSE Worth(T[m], rho[2 * m], g)]
    <3>4. /\ \A i \in 1..(m - 1) : f[i] = g[i]
          /\ f[m] = Worth(T[m], rho[2 * m], g)
      BY <1>1, <3>1
    <3>5. DOMAIN f = 1..m /\ f = [i \in 1..m |-> f[i]] OBVIOUS
    <3> HIDE DEF f
    <3>6. ASSUME NEW i \in 1..m
          PROVE  f[i] = Worth(T[i], rho[2 * i], f)
      <4>1. i \in DOMAIN T /\ i \in Nat BY <1>1, <3>1
      <4>2. \A k \in DOMAIN T[i].args : index_of(T[i].args[k]) \in 1..(m - 1)
        <5>1. TAKE k \in DOMAIN T[i].args
        <5>2. index_of(T[i].args[k]) \in 1..Len(T) /\ index_of(T[i].args[k]) < i
          BY <1>1, <4>1, ArgumentsOf
        <5>3. QED BY <1>1, <3>1, <3>6, <5>2
      <4>3. \A k \in DOMAIN T[i].args :
              g[index_of(T[i].args[k])] = f[index_of(T[i].args[k])]
        BY <3>4, <4>2
      <4>4. Worth(T[i], rho[2 * i], g) = Worth(T[i], rho[2 * i], f)
        BY <4>1, <4>3, ArgumentsOf, WorthAgrees
      <4>5. i \in 1..(m - 1) \/ i = m BY <1>1, <3>1, <3>6
      <4>6. QED BY <3>3, <3>4, <4>4, <4>5
    <3>7. [i \in 1..m |-> f[i]] = [i \in 1..m |-> Worth(T[i], rho[2 * i], f)]
      BY <3>6, Zenon
    <3>8. IsValues(f, T, rho, m) BY <3>5, <3>7, Zenon DEF IsValues
    <3>9. QED BY <2>1, <3>8
  <2>4. QED BY <2>2, <2>3
<1>3. QED BY <1>2

LEMMA ValuesAre ==
  ASSUME NEW T, WellBuilt(T), NEW rho
  PROVE  \A i \in DOMAIN T : ValuesIn(T, rho)[i] = Worth(T[i], rho[2 * i], ValuesIn(T, rho))
<1>1. Len(T) \in Nat /\ DOMAIN T = 1..Len(T) /\ Len(T) \in 0..Len(T)
  BY TableFacts
<1>2. PICK g : g = [i \in DOMAIN T |-> Worth(T[i], rho[2 * i], g)]
  <2>1. PICK g : IsValues(g, T, rho, Len(T)) BY <1>1, ValuesExist
  <2>2. g = [i \in 1..Len(T) |-> Worth(T[i], rho[2 * i], g)]
    BY <2>1, Zenon DEF IsValues
  <2>3. QED BY <1>1, <2>2, Zenon
<1> DEFINE f == CHOOSE f : f = [i \in DOMAIN T |-> Worth(T[i], rho[2 * i], f)]
<1>3. f = [i \in DOMAIN T |-> Worth(T[i], rho[2 * i], f)] BY <1>2
<1>4. ValuesIn(T, rho) = f BY DEF ValuesIn, Worth
<1> HIDE DEF f
<1>5. \A i \in DOMAIN T : f[i] = Worth(T[i], rho[2 * i], f)
  BY <1>3, Zenon
<1>6. QED BY <1>4, <1>5

-----------------------------------------------------------------------------
(* Truth values.                                                           *)

Logical(F, rho, t) == ValuesIn(F, rho)[index_of(t)] \in BOOLEAN

Truth(F, rho, t) == Value(ValuesIn(F, rho), t)

LEMMA TruthOfConstants ==
  ASSUME NEW F, WellBuilt(F), NEW rho
  PROVE  /\ Logical(F, rho, true_term) /\ Truth(F, rho, true_term) = TRUE
         /\ Logical(F, rho, false_term) /\ Truth(F, rho, false_term) = FALSE
<1>1. index_of(2) = 1 /\ index_of(3) = 1 /\ ~is_negated(2) /\ is_negated(3)
  BY DEF index_of, is_negated
<1>2. 1 \in DOMAIN F /\ F[1].kind = "true"
  BY TableFacts DEF WellBuilt, PrimitiveTerms, Composite
<1>3. ValuesIn(F, rho)[1] = TRUE
  <2>1. ValuesIn(F, rho)[1] = Worth(F[1], rho[2 * 1], ValuesIn(F, rho))
    BY <1>2, ValuesAre
  <2>2. QED BY <1>2, <2>1, WorthOfLeaf
<1>4. QED BY <1>1, <1>3 DEF Logical, Truth, Value, true_term, false_term

LEMMA TruthOfOpposite ==
  ASSUME NEW F, NEW rho, NEW t \in Nat, Logical(F, rho, t)
  PROVE  /\ Truth(F, rho, t) \in BOOLEAN
         /\ Logical(F, rho, opposite_term(t))
         /\ Truth(F, rho, opposite_term(t)) = ~Truth(F, rho, t)
<1> DEFINE v == ValuesIn(F, rho)[index_of(t)]
<1>1. v \in BOOLEAN BY DEF Logical
<1>2. /\ index_of(opposite_term(t)) = index_of(t)
      /\ is_negated(opposite_term(t)) = ~is_negated(t)
      /\ is_negated(t) \in BOOLEAN
  BY HandleFacts
<1>3. Truth(F, rho, t) = IF is_negated(t) THEN ~v ELSE v
  BY DEF Truth, Value
<1>4. Truth(F, rho, opposite_term(t)) = IF is_negated(opposite_term(t)) THEN ~v ELSE v
  BY <1>2 DEF Truth, Value
<1> HIDE DEF v
<1>5. Truth(F, rho, t) \in BOOLEAN BY <1>1, <1>3
<1>6. Truth(F, rho, opposite_term(t)) = ~Truth(F, rho, t)
  BY <1>1, <1>2, <1>3, <1>4
<1>7. Logical(F, rho, opposite_term(t)) BY <1>1, <1>2 DEF Logical, v
<1>8. QED BY <1>5, <1>6, <1>7

-----------------------------------------------------------------------------
(* Disjunctions.                                                           *)

\* r is a boolean term, of a table that T grew into.
Formula(T, r) == Grown(T, r.tab) /\ r.term \in BoolOf(r.tab)

\* The term r says that one of the terms in X is true, in this table and in
\* every larger one.
SaysSome(r, X) ==
  \A F, rho :
    Grown(r.tab, F) /\ (\A x \in X : Logical(F, rho, x))
      => /\ Logical(F, rho, r.term)
         /\ Truth(F, rho, r.term) = \E x \in X : Truth(F, rho, x)

LEMMA BoolIsTerm ==
  ASSUME NEW T, WellBuilt(T), NEW x \in BoolOf(T)
  PROVE  /\ x \in TermOf(T) /\ x \in Nat /\ x >= 2
         /\ opposite_term(x) \in BoolOf(T)
         /\ opposite_term(opposite_term(x)) = x
<1>1. x \in TermOf(T) /\ get_type(T, x) = "bool" /\ 0 \notin DOMAIN T
  BY TableFacts DEF BoolOf
<1>2. opposite_term(x) \in TermOf(T) /\ get_type(T, opposite_term(x)) = "bool" /\ x >= 2
  BY <1>1, OppositeIsTerm
<1>3. x \in Nat BY <1>1 DEF TermOf
<1>4. QED BY <1>1, <1>2, <1>3, HandleFacts DEF BoolOf

\* Different terms that are not complementary are ordered by their entries.
LEMMA OrderOfEntries ==
  ASSUME NEW s \in Nat, NEW t \in Nat, s < t, t # opposite_term(s)
  PROVE  positive_term(s) < positive_term(t)
<1>1. index_of(s) \in Nat /\ index_of(t) \in Nat /\ index_of(s) <= index_of(t)
  BY DEF index_of
<1>2. index_of(s) # index_of(t) BY HandleIs
<1>3. QED BY <1>1, <1>2 DEF positive_term

LEMMA SeqGrows ==
  ASSUME NEW X, NEW Y, X \subseteq Y, NEW s \in Seq(X)
  PROVE  s \in Seq(Y)
OBVIOUS

LEMMA OrTermIs ==
  ASSUME NEW T, WellBuilt(T), NEW X \in SUBSET BoolOf(T), IsFiniteSet(X), Cardinality(X) >= 2,
         \A x \in X : get_kind(T, x) # "true" /\ opposite_term(x) \notin X
  PROVE  Formula(T, or_term(T, Ascending(X))) /\ SaysSome(or_term(T, Ascending(X)), X)
<1> DEFINE a == Ascending(X)
           e == Composite("or", "bool", a)
           r == or_term(T, a)
<1>1. X \in SUBSET Int /\ X \in SUBSET Nat /\ X \in SUBSET TermOf(T)
  BY BoolIsTerm
<1>2. /\ a \in Seq(X)
      /\ Len(a) = Cardinality(X) /\ Cardinality(X) \in Nat
      /\ \A x \in X : \E k \in 1..Len(a) : a[k] = x
      /\ \A i, j \in 1..Len(a) : i < j => a[i] < a[j]
  BY <1>1, AscendingSorts
<1>3. r = Intern(T, e) BY DEF or_term
<1>4. e.kind = "or" /\ e.type = "bool" /\ e.args = a /\ e.value = Zero
  BY DEF Composite
<1> HIDE DEF a, r
<1>5. e \in Entry
  <2>1. a \in Seq(Nat) BY <1>1, <1>2, SeqGrows
  <2>2. Zero \in Rat BY ZeroIsRat
  <2>3. QED BY <2>1, <2>2 DEF Entry, Composite, Kinds
<1>6. DOMAIN a = 1..Len(a) /\ Len(a) \in Nat /\ \A k \in DOMAIN a : a[k] \in X
  BY <1>2
<1> HIDE DEF e
<1>7. OrShape(T, e)
  <2>1. ASSUME NEW j \in DOMAIN a, NEW k \in DOMAIN a, j < k
        PROVE  positive_term(a[j]) < positive_term(a[k])
    <3>1. a[j] \in X /\ a[k] \in X /\ a[j] < a[k] BY <1>2, <1>6, <2>1
    <3>2. a[k] # opposite_term(a[j]) /\ a[j] \in Nat /\ a[k] \in Nat
      BY <1>1, <3>1
    <3>3. QED BY <3>1, <3>2, OrderOfEntries
  <2>2. QED BY <1>2, <1>4, <1>6, <2>1 DEF OrShape
<1>8. Shape(T, e) BY <1>1, <1>4, <1>5, <1>6, <1>7 DEF Shape
<1>9. /\ Grown(T, r.tab)
      /\ r.term \in TermOf(r.tab) /\ ~is_negated(r.term)
      /\ r.tab[index_of(r.term)] = e
  BY <1>3, <1>4, <1>8, InternGrows
<1>10. Formula(T, r) BY <1>4, <1>9 DEF Formula, BoolOf, get_type
<1>11. ASSUME NEW F, NEW rho, Grown(r.tab, F), \A x \in X : Logical(F, rho, x)
       PROVE  /\ Logical(F, rho, r.term)
              /\ Truth(F, rho, r.term) = \E x \in X : Truth(F, rho, x)
  <2> DEFINE val == ValuesIn(F, rho)
             n == index_of(r.term)
  <2>1. n \in DOMAIN F /\ F[n] = e /\ WellBuilt(F)
    <3>1. r.tab \in Seq(Entry) /\ F \in Seq(Entry) /\ Extends(r.tab, F) /\ WellBuilt(F)
      BY <1>9, <1>11 DEF Grown, WellBuilt
    <3>2. QED BY <1>9, <3>1, TermsStay DEF TermOf
  <2>2. val[n] = Worth(e, rho[2 * n], val) BY <2>1, ValuesAre
  <2>3. val[n] = \E k \in DOMAIN a : Not(val[index_of(a[k])], is_negated(a[k]))
    BY <1>4, <2>2, WorthOfOr
  <2>4. \A k \in DOMAIN a : Not(val[index_of(a[k])], is_negated(a[k])) = Truth(F, rho, a[k])
    BY DEF Not, Truth, Value
  <2>5. val[n] = \E k \in DOMAIN a : Truth(F, rho, a[k]) BY <2>3, <2>4
  <2>6. (\E k \in DOMAIN a : Truth(F, rho, a[k])) = \E x \in X : Truth(F, rho, x)
    BY <1>2, <1>6
  <2>7. Truth(F, rho, r.term) = val[n] BY <1>9 DEF Truth, Value
  <2>8. val[n] \in BOOLEAN BY <2>5
  <2>9. QED BY <2>5, <2>6, <2>7, <2>8 DEF Logical
<1>12. SaysSome(r, X) BY <1>11 DEF SaysSome
<1>13. QED BY <1>10, <1>12 DEF a, r

\* A disjunction of one term, and of none.
LEMMA SingleSays ==
  ASSUME NEW T, WellBuilt(T), NEW x \in BoolOf(T)
  PROVE  Formula(T, Kept(T, x)) /\ SaysSome(Kept(T, x), {x})
<1>1. Formula(T, Kept(T, x)) BY GrownReflexive DEF Formula, Kept
<1>2. ASSUME NEW F, NEW rho, \A y \in {x} : Logical(F, rho, y)
      PROVE  /\ Logical(F, rho, x)
             /\ Truth(F, rho, x) = \E y \in {x} : Truth(F, rho, y)
  <2>1. Logical(F, rho, x) /\ x \in Nat BY <1>2, BoolIsTerm
  <2>2. Truth(F, rho, x) \in BOOLEAN BY <2>1, TruthOfOpposite
  <2>3. QED BY <2>1, <2>2
<1>3. QED BY <1>1, <1>2 DEF SaysSome, Kept

LEMMA ConstantSays ==
  ASSUME NEW T, WellBuilt(T)
  PROVE  /\ Formula(T, Kept(T, true_term)) /\ Formula(T, Kept(T, false_term))
         /\ SaysSome(Kept(T, false_term), {})
<1>1. Formula(T, Kept(T, true_term)) /\ Formula(T, Kept(T, false_term))
  BY GrownReflexive, PrimitivesAre DEF Formula, Kept
<1>2. SaysSome(Kept(T, false_term), {})
  BY TruthOfConstants DEF SaysSome, Kept, Grown
<1>3. QED BY <1>1, <1>2

\* True arguments decide, false ones do not matter.
LEMMA TrueDecides ==
  ASSUME NEW T, WellBuilt(T), NEW X \in SUBSET BoolOf(T),
         true_term \in X \/ \E x \in X : opposite_term(x) \in X
  PROVE  SaysSome(Kept(T, true_term), X)
<1>1. ASSUME NEW F, NEW rho, Grown(T, F), \A x \in X : Logical(F, rho, x)
      PROVE  /\ Logical(F, rho, true_term)
             /\ Truth(F, rho, true_term) = \E x \in X : Truth(F, rho, x)
  <2>1. /\ Logical(F, rho, true_term) /\ Truth(F, rho, true_term) = TRUE
    BY <1>1, TruthOfConstants DEF Grown
  <2>2. \E x \in X : Truth(F, rho, x)
    <3>1. CASE true_term \in X BY <2>1, <3>1
    <3>2. CASE \E x \in X : opposite_term(x) \in X
      <4>1. PICK x \in X : opposite_term(x) \in X BY <3>2
      <4>2. x \in Nat /\ Logical(F, rho, x) BY <1>1, BoolIsTerm
      <4>3. Truth(F, rho, x) \in BOOLEAN /\ Truth(F, rho, opposite_term(x)) = ~Truth(F, rho, x)
        BY <4>2, TruthOfOpposite
      <4>4. QED BY <4>1, <4>3
    <3>3. QED BY <3>1, <3>2
  <2>3. QED BY <2>1, <2>2
<1>2. QED BY <1>1 DEF SaysSome, Kept

LEMMA FalseIsDropped ==
  ASSUME NEW r, NEW X, SaysSome(r, X \ {false_term})
  PROVE  SaysSome(r, X)
<1>1. ASSUME NEW F, NEW rho, Grown(r.tab, F), \A x \in X : Logical(F, rho, x)
      PROVE  /\ Logical(F, rho, r.term)
             /\ Truth(F, rho, r.term) = \E x \in X : Truth(F, rho, x)
  <2>1. /\ Logical(F, rho, r.term)
        /\ Truth(F, rho, r.term) = \E x \in X \ {false_term} : Truth(F, rho, x)
    BY <1>1 DEF SaysSome
  <2>2. Truth(F, rho, false_term) = FALSE
    BY <1>1, TruthOfConstants DEF Grown
  <2>3. (\E x \in X \ {false_term} : Truth(F, rho, x)) = \E x \in X : Truth(F, rho, x)
    BY <2>2
  <2>4. QED BY <2>1, <2>3
<1>2. QED BY <1>1 DEF SaysSome

\* Boolean terms but for the constants are no constants.
LEMMA NotConstant ==
  ASSUME NEW T, WellBuilt(T), NEW x \in BoolOf(T), x \notin {true_term, false_term}
  PROVE  get_kind(T, x) # "true"
BY PrimitivesAre DEF BoolOf

LEMMA OrIs ==
  ASSUME NEW T, WellBuilt(T), NEW args \in Seq(BoolOf(T))
  PROVE  Formula(T, mk_or(T, args)) /\ SaysSome(mk_or(T, args), ToSet(args))
<1> DEFINE all == ToSet(args)
           rest == all \ {false_term}
           r == mk_or(T, args)
<1>1. /\ IsFiniteSet(all) /\ all \in SUBSET BoolOf(T)
  <2>1. Len(args) \in Nat /\ all = {args[i] : i \in 1..Len(args)}
    BY DEF ToSet
  <2>2. args \in Surjection(1..Len(args), all)
    BY <2>1 DEF Surjection, ToSet
  <2>3. IsFiniteSet(1..Len(args)) BY <2>1, FS_Interval
  <2>4. IsFiniteSet(all) BY <2>2, <2>3, FS_Surjection
  <2>5. QED BY <2>1, <2>4
<1> HIDE DEF all
<1>2. IsFiniteSet(rest) /\ rest \in SUBSET BoolOf(T) /\ Cardinality(rest) \in Nat
  BY <1>1, FS_Subset, FS_CardinalityType
<1>3. CASE true_term \in all \/ \E x \in all : opposite_term(x) \in all
  <2>1. r = Kept(T, true_term) BY <1>3 DEF mk_or, all
  <2>2. QED BY <1>1, <1>3, <2>1, TrueDecides, ConstantSays DEF all
<1>4. CASE ~ (true_term \in all \/ \E x \in all : opposite_term(x) \in all)
  <2>1. CASE rest = {}
    <3>1. r = Kept(T, false_term) BY <1>4, <2>1 DEF mk_or, all
    <3>2. SaysSome(r, rest) BY <2>1, <3>1, ConstantSays
    <3>3. SaysSome(r, all) BY <3>2, FalseIsDropped
    <3>4. QED BY <3>1, <3>3, ConstantSays DEF all
  <2>2. CASE rest # {} /\ Cardinality(rest) = 1
    <3>1. r = Kept(T, CHOOSE x \in rest : TRUE)
      BY <1>4, <2>2 DEF mk_or, all
    <3>2. PICK x : rest = {x} BY <1>2, <2>2, FS_Singleton
    <3>3. r = Kept(T, x) /\ x \in BoolOf(T) BY <1>2, <3>1, <3>2
    <3>4. Formula(T, r) /\ SaysSome(r, rest) BY <3>2, <3>3, SingleSays
    <3>5. SaysSome(r, all) BY <3>4, FalseIsDropped
    <3>6. QED BY <3>4, <3>5 DEF all
  <2>3. CASE rest # {} /\ Cardinality(rest) # 1
    <3>1. r = or_term(T, Ascending(rest))
      BY <1>4, <2>3 DEF mk_or, all, Ascending
    <3>2. Cardinality(rest) >= 2
      <4>1. Cardinality(rest) # 0 BY <1>2, <2>3, FS_EmptySet
      <4>2. QED BY <1>2, <2>3, <4>1
    <3>3. \A x \in rest : get_kind(T, x) # "true" /\ opposite_term(x) \notin rest
      BY <1>2, <1>4, NotConstant
    <3>4. Formula(T, r) /\ SaysSome(r, rest)
      BY <1>2, <3>1, <3>2, <3>3, OrTermIs
    <3>5. SaysSome(r, all) BY <3>4, FalseIsDropped
    <3>6. QED BY <3>4, <3>5 DEF all
  <2>4. QED BY <2>1, <2>2, <2>3
<1>5. QED BY <1>3, <1>4

LEMMA BinaryOrIs ==
  ASSUME NEW T, WellBuilt(T), NEW x \in BoolOf(T), NEW y \in BoolOf(T)
  PROVE  Formula(T, mk_binary_or(T, x, y)) /\ SaysSome(mk_binary_or(T, x, y), {x, y})
<1> DEFINE r == mk_binary_or(T, x, y)
<1>1. CASE x = y
  <2>1. r = Kept(T, x) /\ {x, y} = {x} BY <1>1 DEF mk_binary_or
  <2>2. QED BY <2>1, SingleSays
<1>2. CASE x # y /\ (x = true_term \/ y = true_term)
  <2>1. r = Kept(T, true_term) BY <1>2 DEF mk_binary_or
  <2>2. QED BY <1>2, <2>1, TrueDecides, ConstantSays
<1>3. CASE x # y /\ x # true_term /\ y # true_term /\ (x = false_term \/ y = false_term)
  <2>1. r = Kept(T, IF x = false_term THEN y ELSE x)
    BY <1>3 DEF mk_binary_or
  <2>2. {x, y} \ {false_term} = {IF x = false_term THEN y ELSE x}
    BY <1>3
  <2>3. Formula(T, r) /\ SaysSome(r, {x, y} \ {false_term})
    BY <2>1, <2>2, SingleSays
  <2>4. QED BY <2>3, FalseIsDropped
<1>4. CASE /\ x # y /\ x \notin {true_term, false_term} /\ y \notin {true_term, false_term}
           /\ opposite_term(x) = y
  <2>1. r = Kept(T, true_term) BY <1>4 DEF mk_binary_or
  <2>2. QED BY <1>4, <2>1, TrueDecides, ConstantSays
<1>5. CASE /\ x # y /\ x \notin {true_term, false_term} /\ y \notin {true_term, false_term}
           /\ opposite_term(x) # y
  <2>1. r = or_term(T, Ascending({x, y}))
    BY <1>5 DEF mk_binary_or, Ascending
  <2>2. IsFiniteSet({x, y}) /\ Cardinality({x, y}) = 2
    <3>1. {x, y} = {x} \cup {y} /\ y \notin {x} BY <1>5
    <3>2. IsFiniteSet({x}) /\ Cardinality({x}) = 1 BY FS_Singleton
    <3>3. IsFiniteSet({x} \cup {y}) /\ Cardinality({x} \cup {y}) = 1 + 1
      BY <3>1, <3>2, FS_AddElement
    <3>4. QED BY <3>1, <3>3
  <2>3. /\ opposite_term(x) \notin {x, y} /\ opposite_term(y) \notin {x, y}
    <3>1. opposite_term(x) # x /\ opposite_term(y) # y
      BY BoolIsTerm DEF opposite_term
    <3>2. opposite_term(y) # x BY <1>5, BoolIsTerm
    <3>3. QED BY <1>5, <3>1, <3>2
  <2>4. get_kind(T, x) # "true" /\ get_kind(T, y) # "true"
    BY <1>5, NotConstant
  <2>5. \A z \in {x, y} : get_kind(T, z) # "true" /\ opposite_term(z) \notin {x, y}
    BY <2>3, <2>4
  <2>6. QED BY <2>1, <2>2, <2>5, OrTermIs
<1>6. QED BY <1>1, <1>2, <1>3, <1>4, <1>5

-----------------------------------------------------------------------------
(* The other connectives.                                                  *)

LEMMA OrSays ==
  ASSUME NEW T, WellBuilt(T), NEW x \in BoolOf(T), NEW y \in BoolOf(T)
  PROVE  LET r == mk_binary_or(T, x, y)
         IN /\ Formula(T, r)
            /\ \A F, rho :
                 Grown(r.tab, F) /\ Logical(F, rho, x) /\ Logical(F, rho, y)
                   => /\ Logical(F, rho, r.term)
                      /\ Truth(F, rho, r.term) = (Truth(F, rho, x) \/ Truth(F, rho, y))
<1> DEFINE r == mk_binary_or(T, x, y)
<1>1. Formula(T, r) /\ SaysSome(r, {x, y}) BY BinaryOrIs
<1> HIDE DEF r
<1>2. ASSUME NEW F, NEW rho, Grown(r.tab, F), Logical(F, rho, x), Logical(F, rho, y)
      PROVE  /\ Logical(F, rho, r.term)
             /\ Truth(F, rho, r.term) = (Truth(F, rho, x) \/ Truth(F, rho, y))
  <2>1. /\ Logical(F, rho, r.term)
        /\ Truth(F, rho, r.term) = \E z \in {x, y} : Truth(F, rho, z)
    BY <1>1, <1>2 DEF SaysSome
  <2>2. (\E z \in {x, y} : Truth(F, rho, z)) = (Truth(F, rho, x) \/ Truth(F, rho, y))
    OBVIOUS
  <2>3. QED BY <2>1, <2>2
<1>3. QED BY <1>1, <1>2 DEF r

\* Negating the result.
LEMMA NegatedIs ==
  ASSUME NEW T, WellBuilt(T), NEW r, Formula(T, r), r = Kept(r.tab, r.term)
  PROVE  /\ Formula(T, Negated(r))
         /\ Negated(r).tab = r.tab /\ Negated(r).term = opposite_term(r.term)
         /\ \A F, rho : Logical(F, rho, r.term)
              => /\ Logical(F, rho, Negated(r).term)
                 /\ Truth(F, rho, Negated(r).term) = ~Truth(F, rho, r.term)
<1>1. Negated(r).tab = r.tab /\ Negated(r).term = opposite_term(r.term)
  BY DEF Negated, Kept
<1>2. r.term \in BoolOf(r.tab) /\ WellBuilt(r.tab) BY DEF Formula, Grown
<1>3. opposite_term(r.term) \in BoolOf(r.tab) /\ r.term \in Nat
  BY <1>2, BoolIsTerm
<1>4. QED BY <1>1, <1>3, TruthOfOpposite DEF Formula

\* The results are records.
LEMMA OrIsRecord ==
  ASSUME NEW T, NEW x, NEW y
  PROVE  mk_binary_or(T, x, y) = Kept(mk_binary_or(T, x, y).tab, mk_binary_or(T, x, y).term)
BY DEF mk_binary_or, Kept, or_term, Intern

LEMMA AndSays ==
  ASSUME NEW T, WellBuilt(T), NEW x \in BoolOf(T), NEW y \in BoolOf(T)
  PROVE  LET r == mk_binary_and(T, x, y)
         IN /\ Formula(T, r)
            /\ \A F, rho :
                 Grown(r.tab, F) /\ Logical(F, rho, x) /\ Logical(F, rho, y)
                   => /\ Logical(F, rho, r.term)
                      /\ Truth(F, rho, r.term) = (Truth(F, rho, x) /\ Truth(F, rho, y))
<1> DEFINE u == opposite_term(x)
           v == opposite_term(y)
           s == mk_binary_or(T, u, v)
           r == mk_binary_and(T, x, y)
<1>1. r = Negated(s) BY DEF mk_binary_and
<1>2. u \in BoolOf(T) /\ v \in BoolOf(T) /\ x \in Nat /\ y \in Nat
  BY BoolIsTerm
<1>3. \A F, rho : /\ Logical(F, rho, x) => Logical(F, rho, u) /\ Truth(F, rho, x) \in BOOLEAN
                                           /\ Truth(F, rho, u) = ~Truth(F, rho, x)
                  /\ Logical(F, rho, y) => Logical(F, rho, v) /\ Truth(F, rho, y) \in BOOLEAN
                                           /\ Truth(F, rho, v) = ~Truth(F, rho, y)
  BY <1>2, TruthOfOpposite
<1> HIDE DEF u, v
<1>4. /\ Formula(T, s)
      /\ \A F, rho :
           Grown(s.tab, F) /\ Logical(F, rho, u) /\ Logical(F, rho, v)
             => /\ Logical(F, rho, s.term)
                /\ Truth(F, rho, s.term) = (Truth(F, rho, u) \/ Truth(F, rho, v))
  BY <1>2, OrSays
<1>5. s = Kept(s.tab, s.term) BY OrIsRecord
<1> HIDE DEF s, r
<1>6. /\ Formula(T, r) /\ r.tab = s.tab
      /\ \A F, rho : Logical(F, rho, s.term)
           => /\ Logical(F, rho, r.term)
              /\ Truth(F, rho, r.term) = ~Truth(F, rho, s.term)
  BY <1>1, <1>4, <1>5, NegatedIs
<1>7. ASSUME NEW F, NEW rho, Grown(r.tab, F), Logical(F, rho, x), Logical(F, rho, y)
      PROVE  /\ Logical(F, rho, r.term)
             /\ Truth(F, rho, r.term) = (Truth(F, rho, x) /\ Truth(F, rho, y))
  <2>1. /\ Truth(F, rho, x) \in BOOLEAN /\ Truth(F, rho, u) = ~Truth(F, rho, x)
        /\ Truth(F, rho, y) \in BOOLEAN /\ Truth(F, rho, v) = ~Truth(F, rho, y)
        /\ Logical(F, rho, u) /\ Logical(F, rho, v)
    BY <1>3, <1>7
  <2>2. /\ Logical(F, rho, s.term)
        /\ Truth(F, rho, s.term) = (Truth(F, rho, u) \/ Truth(F, rho, v))
    BY <1>4, <1>6, <1>7, <2>1
  <2>3. Logical(F, rho, r.term) /\ Truth(F, rho, r.term) = ~Truth(F, rho, s.term)
    BY <1>6, <2>2
  <2>4. QED BY <2>1, <2>2, <2>3
<1>8. QED BY <1>6, <1>7 DEF r

LEMMA ImpliesSays ==
  ASSUME NEW T, WellBuilt(T), NEW x \in BoolOf(T), NEW y \in BoolOf(T)
  PROVE  LET r == mk_implies(T, x, y)
         IN /\ Formula(T, r)
            /\ \A F, rho :
                 Grown(r.tab, F) /\ Logical(F, rho, x) /\ Logical(F, rho, y)
                   => /\ Logical(F, rho, r.term)
                      /\ Truth(F, rho, r.term) = (Truth(F, rho, x) => Truth(F, rho, y))
<1> DEFINE u == opposite_term(x)
           r == mk_implies(T, x, y)
<1>1. r = mk_binary_or(T, u, y) BY DEF mk_implies
<1>2. u \in BoolOf(T) /\ x \in Nat /\ y \in Nat BY BoolIsTerm
<1>3. \A F, rho : Logical(F, rho, x) => /\ Logical(F, rho, u) /\ Truth(F, rho, x) \in BOOLEAN
                                        /\ Truth(F, rho, u) = ~Truth(F, rho, x)
  BY <1>2, TruthOfOpposite
<1> HIDE DEF u, r
<1>4. /\ Formula(T, r)
      /\ \A F, rho :
           Grown(r.tab, F) /\ Logical(F, rho, u) /\ Logical(F, rho, y)
             => /\ Logical(F, rho, r.term)
                /\ Truth(F, rho, r.term) = (Truth(F, rho, u) \/ Truth(F, rho, y))
  BY <1>1, <1>2, OrSays
<1>5. ASSUME NEW F, NEW rho, Grown(r.tab, F), Logical(F, rho, x), Logical(F, rho, y)
      PROVE  /\ Logical(F, rho, r.term)
             /\ Truth(F, rho, r.term) = (Truth(F, rho, x) => Truth(F, rho, y))
  <2>1. /\ Truth(F, rho, x) \in BOOLEAN /\ Truth(F, rho, u) = ~Truth(F, rho, x)
        /\ Logical(F, rho, u)
    BY <1>3, <1>5
  <2>2. /\ Logical(F, rho, r.term)
        /\ Truth(F, rho, r.term) = (Truth(F, rho, u) \/ Truth(F, rho, y))
    BY <1>4, <1>5, <2>1
  <2>3. QED BY <2>1, <2>2
<1>6. QED BY <1>4, <1>5 DEF r

\* What is said of two parts holds of what is built from both.
LEMMA AndOfParts ==
  ASSUME NEW T, WellBuilt(T), NEW a, Formula(T, a), NEW b, Formula(a.tab, b)
  PROVE  LET r == mk_binary_and(b.tab, a.term, b.term)
         IN /\ Formula(T, r)
            /\ Formula(b.tab, r)
            /\ \A F : Grown(r.tab, F) => Grown(a.tab, F) /\ Grown(b.tab, F)
            /\ \A F, rho :
                 Grown(r.tab, F) /\ Logical(F, rho, a.term) /\ Logical(F, rho, b.term)
                   => /\ Logical(F, rho, r.term)
                      /\ Truth(F, rho, r.term) = (Truth(F, rho, a.term) /\ Truth(F, rho, b.term))
<1> DEFINE r == mk_binary_and(b.tab, a.term, b.term)
<1>1. /\ WellBuilt(a.tab) /\ Grown(T, a.tab) /\ a.term \in BoolOf(a.tab)
      /\ WellBuilt(b.tab) /\ Grown(a.tab, b.tab) /\ b.term \in BoolOf(b.tab)
  BY DEF Formula, Grown
<1>2. a.term \in BoolOf(b.tab)
  <2>1. a.tab \in Seq(Entry) /\ b.tab \in Seq(Entry) /\ Extends(a.tab, b.tab)
    BY <1>1, TableFacts DEF Grown
  <2>2. QED BY <1>1, <2>1, SetsGrow
<1>3. /\ Formula(b.tab, r)
      /\ \A F, rho :
           Grown(r.tab, F) /\ Logical(F, rho, a.term) /\ Logical(F, rho, b.term)
             => /\ Logical(F, rho, r.term)
                /\ Truth(F, rho, r.term) = (Truth(F, rho, a.term) /\ Truth(F, rho, b.term))
  BY <1>1, <1>2, AndSays
<1> HIDE DEF r
<1>4. Grown(b.tab, r.tab) /\ WellBuilt(r.tab) BY <1>3 DEF Formula, Grown
<1>5. Grown(T, b.tab) /\ Grown(a.tab, r.tab)
  BY <1>1, <1>4, GrownTransitive
<1>6. Grown(T, r.tab) BY <1>1, <1>4, <1>5, GrownTransitive
<1>7. \A F : Grown(r.tab, F) => Grown(a.tab, F) /\ Grown(b.tab, F)
  BY <1>1, <1>4, <1>5, GrownTransitive
<1>8. Formula(T, r) BY <1>3, <1>6 DEF Formula
<1>9. QED BY <1>3, <1>7, <1>8 DEF r

LEMMA BoolsGrow ==
  ASSUME NEW T, WellBuilt(T), NEW r, Formula(T, r)
  PROVE  WellBuilt(r.tab) /\ BoolOf(T) \subseteq BoolOf(r.tab)
<1>1. WellBuilt(r.tab) /\ Extends(T, r.tab) BY DEF Formula, Grown
<1>2. T \in Seq(Entry) /\ r.tab \in Seq(Entry) BY <1>1, TableFacts
<1>3. QED BY <1>1, <1>2, SetsGrow

\* A pair of implications, of four terms.
PairOf(T, w, x, y, z) ==
  LET a == mk_implies(T, w, x)
      b == mk_implies(a.tab, y, z)
  IN mk_binary_and(b.tab, a.term, b.term)

SaysPair(r, w, x, y, z) ==
  \A F, rho :
    /\ Grown(r.tab, F)
    /\ Logical(F, rho, w) /\ Logical(F, rho, x) /\ Logical(F, rho, y) /\ Logical(F, rho, z)
    => /\ Logical(F, rho, r.term)
       /\ Truth(F, rho, r.term) = /\ Truth(F, rho, w) => Truth(F, rho, x)
                                  /\ Truth(F, rho, y) => Truth(F, rho, z)

LEMMA PairSays ==
  ASSUME NEW T, WellBuilt(T), NEW w \in BoolOf(T), NEW x \in BoolOf(T), NEW y \in BoolOf(T),
         NEW z \in BoolOf(T)
  PROVE  /\ Formula(T, PairOf(T, w, x, y, z))
         /\ SaysPair(PairOf(T, w, x, y, z), w, x, y, z)
<1> DEFINE a == mk_implies(T, w, x)
           b == mk_implies(a.tab, y, z)
           r == mk_binary_and(b.tab, a.term, b.term)
<1>1. /\ Formula(T, a)
      /\ \A F, rho :
           Grown(a.tab, F) /\ Logical(F, rho, w) /\ Logical(F, rho, x)
             => /\ Logical(F, rho, a.term)
                /\ Truth(F, rho, a.term) = (Truth(F, rho, w) => Truth(F, rho, x))
  BY ImpliesSays
<1> HIDE DEF a
<1>2. WellBuilt(a.tab) /\ y \in BoolOf(a.tab) /\ z \in BoolOf(a.tab)
  BY <1>1, BoolsGrow
<1>3. /\ Formula(a.tab, b)
      /\ \A F, rho :
           Grown(b.tab, F) /\ Logical(F, rho, y) /\ Logical(F, rho, z)
             => /\ Logical(F, rho, b.term)
                /\ Truth(F, rho, b.term) = (Truth(F, rho, y) => Truth(F, rho, z))
  BY <1>2, ImpliesSays
<1> HIDE DEF b
<1>4. /\ Formula(T, r)
      /\ \A F : Grown(r.tab, F) => Grown(a.tab, F) /\ Grown(b.tab, F)
      /\ \A F, rho :
           Grown(r.tab, F) /\ Logical(F, rho, a.term) /\ Logical(F, rho, b.term)
             => /\ Logical(F, rho, r.term)
                /\ Truth(F, rho, r.term) = (Truth(F, rho, a.term) /\ Truth(F, rho, b.term))
  BY <1>1, <1>3, AndOfParts
<1> HIDE DEF r
<1>5. ASSUME NEW F, NEW rho, Grown(r.tab, F), Logical(F, rho, w), Logical(F, rho, x),
             Logical(F, rho, y), Logical(F, rho, z)
      PROVE  /\ Logical(F, rho, r.term)
             /\ Truth(F, rho, r.term) = /\ Truth(F, rho, w) => Truth(F, rho, x)
                                        /\ Truth(F, rho, y) => Truth(F, rho, z)
  <2>1. Grown(a.tab, F) /\ Grown(b.tab, F) BY <1>4, <1>5
  <2>2. /\ Logical(F, rho, a.term)
        /\ Truth(F, rho, a.term) = (Truth(F, rho, w) => Truth(F, rho, x))
    BY <1>1, <1>5, <2>1
  <2>3. /\ Logical(F, rho, b.term)
        /\ Truth(F, rho, b.term) = (Truth(F, rho, y) => Truth(F, rho, z))
    BY <1>3, <1>5, <2>1
  <2>4. /\ Logical(F, rho, r.term)
        /\ Truth(F, rho, r.term) = (Truth(F, rho, a.term) /\ Truth(F, rho, b.term))
    BY <1>4, <1>5, <2>2, <2>3
  <2>5. QED BY <2>2, <2>3, <2>4
<1>6. r = PairOf(T, w, x, y, z) BY DEF r, b, a, PairOf
<1>7. QED BY <1>4, <1>5, <1>6 DEF SaysPair

LEMMA IffSays ==
  ASSUME NEW T, WellBuilt(T), NEW x \in BoolOf(T), NEW y \in BoolOf(T)
  PROVE  LET r == mk_iff(T, x, y)
         IN /\ Formula(T, r)
            /\ \A F, rho :
                 Grown(r.tab, F) /\ Logical(F, rho, x) /\ Logical(F, rho, y)
                   => /\ Logical(F, rho, r.term)
                      /\ Truth(F, rho, r.term) = (Truth(F, rho, x) = Truth(F, rho, y))
<1> DEFINE r == mk_iff(T, x, y)
<1>1. Formula(T, r) /\ SaysPair(r, x, y, y, x)
  <2>1. r = PairOf(T, x, y, y, x) BY DEF mk_iff, PairOf
  <2> HIDE DEF r
  <2>2. QED BY <2>1, PairSays
<1> HIDE DEF r
<1>2. ASSUME NEW F, NEW rho, Grown(r.tab, F), Logical(F, rho, x), Logical(F, rho, y)
      PROVE  /\ Logical(F, rho, r.term)
             /\ Truth(F, rho, r.term) = (Truth(F, rho, x) = Truth(F, rho, y))
  <2>1. /\ Logical(F, rho, r.term)
        /\ Truth(F, rho, r.term) = /\ Truth(F, rho, x) => Truth(F, rho, y)
                                   /\ Truth(F, rho, y) => Truth(F, rho, x)
    BY <1>1, <1>2 DEF SaysPair
  <2>2. Truth(F, rho, x) \in BOOLEAN /\ Truth(F, rho, y) \in BOOLEAN
    BY <1>2, BoolIsTerm, TruthOfOpposite
  <2>3. QED BY <2>1, <2>2
<1>3. QED BY <1>1, <1>2 DEF r

LEMMA XorSays ==
  ASSUME NEW T, WellBuilt(T), NEW x \in BoolOf(T), NEW y \in BoolOf(T)
  PROVE  LET r == mk_xor(T, x, y)
         IN /\ Formula(T, r)
            /\ \A F, rho :
                 Grown(r.tab, F) /\ Logical(F, rho, x) /\ Logical(F, rho, y)
                   => /\ Logical(F, rho, r.term)
                      /\ Truth(F, rho, r.term) = (Truth(F, rho, x) # Truth(F, rho, y))
<1> DEFINE a == mk_binary_or(T, x, y)
           b == mk_binary_and(a.tab, x, y)
           c == Negated(b)
           r == mk_xor(T, x, y)
<1>1. /\ Formula(T, a)
      /\ \A F, rho :
           Grown(a.tab, F) /\ Logical(F, rho, x) /\ Logical(F, rho, y)
             => /\ Logical(F, rho, a.term)
                /\ Truth(F, rho, a.term) = (Truth(F, rho, x) \/ Truth(F, rho, y))
  BY OrSays
<1>2. r = mk_binary_and(b.tab, a.term, opposite_term(b.term))
  BY DEF mk_xor
<1>3. b = Kept(b.tab, b.term)
  BY OrIsRecord DEF mk_binary_and, Negated, Kept
<1> HIDE DEF a, r
<1>4. WellBuilt(a.tab) /\ x \in BoolOf(a.tab) /\ y \in BoolOf(a.tab)
  BY <1>1, BoolsGrow
<1>5. /\ Formula(a.tab, b)
      /\ \A F, rho :
           Grown(b.tab, F) /\ Logical(F, rho, x) /\ Logical(F, rho, y)
             => /\ Logical(F, rho, b.term)
                /\ Truth(F, rho, b.term) = (Truth(F, rho, x) /\ Truth(F, rho, y))
  BY <1>4, AndSays
<1> HIDE DEF b
<1>6. /\ Formula(a.tab, c) /\ c.tab = b.tab /\ c.term = opposite_term(b.term)
      /\ \A F, rho : Logical(F, rho, b.term)
           => /\ Logical(F, rho, c.term)
              /\ Truth(F, rho, c.term) = ~Truth(F, rho, b.term)
  BY <1>3, <1>4, <1>5, NegatedIs
<1> HIDE DEF c
<1>7. r = mk_binary_and(c.tab, a.term, c.term) BY <1>2, <1>6
<1>8. /\ Formula(T, r)
      /\ \A F : Grown(r.tab, F) => Grown(a.tab, F) /\ Grown(c.tab, F)
      /\ \A F, rho :
           Grown(r.tab, F) /\ Logical(F, rho, a.term) /\ Logical(F, rho, c.term)
             => /\ Logical(F, rho, r.term)
                /\ Truth(F, rho, r.term) = (Truth(F, rho, a.term) /\ Truth(F, rho, c.term))
  BY <1>1, <1>6, <1>7, AndOfParts
<1>9. ASSUME NEW F, NEW rho, Grown(r.tab, F), Logical(F, rho, x), Logical(F, rho, y)
      PROVE  /\ Logical(F, rho, r.term)
             /\ Truth(F, rho, r.term) = (Truth(F, rho, x) # Truth(F, rho, y))
  <2>1. Grown(a.tab, F) /\ Grown(b.tab, F) BY <1>6, <1>8, <1>9
  <2>2. /\ Logical(F, rho, a.term)
        /\ Truth(F, rho, a.term) = (Truth(F, rho, x) \/ Truth(F, rho, y))
    BY <1>1, <1>9, <2>1
  <2>3. /\ Logical(F, rho, b.term)
        /\ Truth(F, rho, b.term) = (Truth(F, rho, x) /\ Truth(F, rho, y))
    BY <1>5, <1>9, <2>1
  <2>4. Logical(F, rho, c.term) /\ Truth(F, rho, c.term) = ~Truth(F, rho, b.term)
    BY <1>6, <2>3
  <2>5. /\ Logical(F, rho, r.term)
        /\ Truth(F, rho, r.term) = (Truth(F, rho, a.term) /\ Truth(F, rho, c.term))
    BY <1>8, <1>9, <2>2, <2>4
  <2>6. Truth(F, rho, x) \in BOOLEAN /\ Truth(F, rho, y) \in BOOLEAN
    BY <1>9, BoolIsTerm, TruthOfOpposite
  <2>7. QED BY <2>2, <2>3, <2>4, <2>5, <2>6
<1>10. QED BY <1>8, <1>9 DEF r

\* What a conditional term says.
SaysIte(r, c, t, e) ==
  \A F, rho :
    /\ Grown(r.tab, F)
    /\ Logical(F, rho, c) /\ Logical(F, rho, t) /\ Logical(F, rho, e)
    => /\ Logical(F, rho, r.term)
       /\ Truth(F, rho, r.term) = IF Truth(F, rho, c) THEN Truth(F, rho, t) ELSE Truth(F, rho, e)

LEMMA GeneralIteSays ==
  ASSUME NEW T, WellBuilt(T), NEW c \in BoolOf(T), NEW t \in BoolOf(T), NEW e \in BoolOf(T)
  PROVE  Formula(T, GeneralIte(T, c, t, e)) /\ SaysIte(GeneralIte(T, c, t, e), c, t, e)
<1> DEFINE p == positive_term(c)
           q == opposite_term(p)
           u == IF is_negated(c) THEN e ELSE t
           v == IF is_negated(c) THEN t ELSE e
           r == GeneralIte(T, c, t, e)
<1>1. c \in Nat /\ opposite_term(c) \in BoolOf(T) BY BoolIsTerm
<1>2. p = IF is_negated(c) THEN opposite_term(c) ELSE c
  BY <1>1, HandleFacts DEF opposite_term
<1>3. p \in BoolOf(T) BY <1>1, <1>2
<1>4. q \in BoolOf(T) /\ p \in Nat BY <1>3, BoolIsTerm
<1>5. u \in BoolOf(T) /\ v \in BoolOf(T) OBVIOUS
<1>6. Formula(T, r) /\ SaysPair(r, p, u, q, v)
  <2> HIDE DEF p, u, v
  <2>1. r = PairOf(T, p, u, q, v) BY DEF GeneralIte, PairOf, p, u, v
  <2> HIDE DEF q, r
  <2>2. QED BY <1>3, <1>4, <1>5, <2>1, PairSays
<1> HIDE DEF p, q, r
<1>7. ASSUME NEW F, NEW rho, Grown(r.tab, F), Logical(F, rho, c), Logical(F, rho, t),
             Logical(F, rho, e)
      PROVE  /\ Logical(F, rho, r.term)
             /\ Truth(F, rho, r.term) =
                  IF Truth(F, rho, c) THEN Truth(F, rho, t) ELSE Truth(F, rho, e)
  <2>1. /\ Truth(F, rho, c) \in BOOLEAN /\ Logical(F, rho, opposite_term(c))
        /\ Truth(F, rho, opposite_term(c)) = ~Truth(F, rho, c)
    BY <1>1, <1>7, TruthOfOpposite
  <2>2. Truth(F, rho, t) \in BOOLEAN /\ Truth(F, rho, e) \in BOOLEAN
    BY <1>7, BoolIsTerm, TruthOfOpposite
  <2>3. /\ Logical(F, rho, p)
        /\ Truth(F, rho, p) = IF is_negated(c) THEN ~Truth(F, rho, c) ELSE Truth(F, rho, c)
    BY <1>2, <1>7, <2>1
  <2>4. Logical(F, rho, q) /\ Truth(F, rho, q) = ~Truth(F, rho, p)
    BY <1>4, <2>3, TruthOfOpposite DEF q
  <2>5. Logical(F, rho, u) /\ Logical(F, rho, v) BY <1>7
  <2>6. /\ Logical(F, rho, r.term)
        /\ Truth(F, rho, r.term) = /\ Truth(F, rho, p) => Truth(F, rho, u)
                                   /\ Truth(F, rho, q) => Truth(F, rho, v)
    BY <1>6, <1>7, <2>3, <2>4, <2>5 DEF SaysPair
  <2>7. CASE is_negated(c) BY <2>1, <2>2, <2>3, <2>4, <2>6, <2>7
  <2>8. CASE ~is_negated(c) BY <2>1, <2>2, <2>3, <2>4, <2>6, <2>8
  <2>9. QED BY <2>7, <2>8
<1>8. QED BY <1>6, <1>7 DEF r, SaysIte

\* Every row of the table of mk_bool_ite.
LEMMA IteSays ==
  ASSUME NEW T, WellBuilt(T), NEW c \in BoolOf(T), NEW t \in BoolOf(T), NEW e \in BoolOf(T)
  PROVE  Formula(T, mk_bool_ite(T, c, t, e)) /\ SaysIte(mk_bool_ite(T, c, t, e), c, t, e)
<1> DEFINE r == mk_bool_ite(T, c, t, e)
           nc == opposite_term(c)
           nt == opposite_term(t)
           ne == opposite_term(e)
           Holds == Formula(T, r) /\ SaysIte(r, c, t, e)
           Right(F, rho) ==
             /\ Logical(F, rho, r.term)
             /\ Truth(F, rho, r.term) =
                  IF Truth(F, rho, c) THEN Truth(F, rho, t) ELSE Truth(F, rho, e)
           Given(F, rho) ==
             /\ Grown(r.tab, F)
             /\ Logical(F, rho, c) /\ Logical(F, rho, t) /\ Logical(F, rho, e)
           Branch(F, rho) ==
             IF Truth(F, rho, c) THEN Truth(F, rho, t) ELSE Truth(F, rho, e)
           Either(F, rho, x, y) ==
             /\ Logical(F, rho, x) /\ Logical(F, rho, y)
             /\ (Truth(F, rho, x) \/ Truth(F, rho, y)) = Branch(F, rho)
           Both(F, rho, x, y) ==
             /\ Logical(F, rho, x) /\ Logical(F, rho, y)
             /\ (Truth(F, rho, x) /\ Truth(F, rho, y)) = Branch(F, rho)
<1>1. /\ nc \in BoolOf(T) /\ nt \in BoolOf(T) /\ ne \in BoolOf(T)
      /\ c \in Nat /\ t \in Nat /\ e \in Nat
  BY BoolIsTerm
<1>2. ASSUME NEW F, NEW rho, Given(F, rho)
      PROVE  /\ Truth(F, rho, c) \in BOOLEAN /\ Truth(F, rho, t) \in BOOLEAN
             /\ Truth(F, rho, e) \in BOOLEAN
             /\ Logical(F, rho, nc) /\ Truth(F, rho, nc) = ~Truth(F, rho, c)
             /\ Logical(F, rho, nt) /\ Truth(F, rho, nt) = ~Truth(F, rho, t)
             /\ Logical(F, rho, ne) /\ Truth(F, rho, ne) = ~Truth(F, rho, e)
             /\ Logical(F, rho, true_term) /\ Truth(F, rho, true_term) = TRUE
             /\ Logical(F, rho, false_term) /\ Truth(F, rho, false_term) = FALSE
  BY <1>1, <1>2, TruthOfOpposite, TruthOfConstants DEF Grown
<1>3. ASSUME Formula(T, r), \A F, rho : Given(F, rho) => Right(F, rho)
      PROVE  Holds
  BY <1>3 DEF SaysIte
<1>4. CASE t = e \/ c = true_term
  <2>1. r = Kept(T, t) BY <1>4 DEF mk_bool_ite
  <2> HIDE DEF r, nc, nt, ne
  <2>2. Formula(T, r) /\ r.term = t
    <3>1. r.term = t BY <2>1 DEF Kept
    <3>2. QED BY <2>1, <3>1, SingleSays
  <2>3. ASSUME NEW F, NEW rho, Given(F, rho)
        PROVE  Right(F, rho)
    BY <1>2, <1>4, <2>2, <2>3
  <2> HIDE DEF Given, Right, Holds
  <2>4. Holds BY <1>3, <2>2, <2>3
  <2>5. QED BY <2>4 DEF Holds, r
<1>5. CASE ~ (t = e \/ c = true_term) /\ c = false_term
  <2>1. r = Kept(T, e) BY <1>5 DEF mk_bool_ite
  <2> HIDE DEF r, nc, nt, ne
  <2>2. Formula(T, r) /\ r.term = e
    <3>1. r.term = e BY <2>1 DEF Kept
    <3>2. QED BY <2>1, <3>1, SingleSays
  <2>3. ASSUME NEW F, NEW rho, Given(F, rho)
        PROVE  Right(F, rho)
    BY <1>2, <1>5, <2>2, <2>3
  <2> HIDE DEF Given, Right, Holds
  <2>4. Holds BY <1>3, <2>2, <2>3
  <2>5. QED BY <2>4 DEF Holds, r
<1> DEFINE Constant == t = e \/ c = true_term \/ c = false_term
<1>6. CASE ~Constant /\ t = ne
  <2>1. r = mk_iff(T, c, t) BY <1>6 DEF mk_bool_ite
  <2> HIDE DEF r, nc, nt, ne
  <2>2. /\ Formula(T, r)
        /\ \A F, rho :
             Grown(r.tab, F) /\ Logical(F, rho, c) /\ Logical(F, rho, t)
               => /\ Logical(F, rho, r.term)
                  /\ Truth(F, rho, r.term) = (Truth(F, rho, c) = Truth(F, rho, t))
    BY <2>1, IffSays
  <2>3. ASSUME NEW F, NEW rho, Given(F, rho)
        PROVE  Right(F, rho)
    <3>1. Logical(F, rho, r.term)
          /\ Truth(F, rho, r.term) = (Truth(F, rho, c) = Truth(F, rho, t))
      BY <2>2, <2>3
    <3>2. Truth(F, rho, t) = ~Truth(F, rho, e) BY <1>2, <1>6, <2>3
    <3>3. QED BY <1>2, <2>3, <3>1, <3>2
  <2> HIDE DEF Given, Right, Holds
  <2>4. Holds BY <1>3, <2>2, <2>3
  <2>5. QED BY <2>4 DEF Holds, r
<1> DEFINE Opposed == Constant \/ t = ne
<1>7. ASSUME NEW x \in BoolOf(T), NEW y \in BoolOf(T), r = mk_binary_or(T, x, y),
             \A F, rho : Given(F, rho) => Either(F, rho, x, y)
      PROVE  Holds
  <2> HIDE DEF r, nc, nt, ne
  <2>1. /\ Formula(T, r)
        /\ \A F, rho :
             Grown(r.tab, F) /\ Logical(F, rho, x) /\ Logical(F, rho, y)
               => /\ Logical(F, rho, r.term)
                  /\ Truth(F, rho, r.term) = (Truth(F, rho, x) \/ Truth(F, rho, y))
    BY <1>7, OrSays
  <2>2. ASSUME NEW F, NEW rho, Given(F, rho)
        PROVE  Right(F, rho)
    <3>1. /\ Logical(F, rho, x) /\ Logical(F, rho, y)
          /\ (Truth(F, rho, x) \/ Truth(F, rho, y)) =
               IF Truth(F, rho, c) THEN Truth(F, rho, t) ELSE Truth(F, rho, e)
      BY <1>7, <2>2
    <3>2. /\ Logical(F, rho, r.term)
          /\ Truth(F, rho, r.term) = (Truth(F, rho, x) \/ Truth(F, rho, y))
      BY <2>1, <2>2, <3>1
    <3>3. QED BY <3>1, <3>2
  <2>3. QED BY <1>3, <2>1, <2>2
<1>8. ASSUME NEW x \in BoolOf(T), NEW y \in BoolOf(T), r = mk_binary_and(T, x, y),
             \A F, rho : Given(F, rho) => Both(F, rho, x, y)
      PROVE  Holds
  <2> HIDE DEF r, nc, nt, ne
  <2>1. /\ Formula(T, r)
        /\ \A F, rho :
             Grown(r.tab, F) /\ Logical(F, rho, x) /\ Logical(F, rho, y)
               => /\ Logical(F, rho, r.term)
                  /\ Truth(F, rho, r.term) = (Truth(F, rho, x) /\ Truth(F, rho, y))
    BY <1>8, AndSays
  <2>2. ASSUME NEW F, NEW rho, Given(F, rho)
        PROVE  Right(F, rho)
    <3>1. /\ Logical(F, rho, x) /\ Logical(F, rho, y)
          /\ (Truth(F, rho, x) /\ Truth(F, rho, y)) =
               IF Truth(F, rho, c) THEN Truth(F, rho, t) ELSE Truth(F, rho, e)
      BY <1>8, <2>2
    <3>2. /\ Logical(F, rho, r.term)
          /\ Truth(F, rho, r.term) = (Truth(F, rho, x) /\ Truth(F, rho, y))
      BY <2>1, <2>2, <3>1
    <3>3. QED BY <3>1, <3>2
  <2>3. QED BY <1>3, <2>1, <2>2
<1>9. CASE ~Opposed /\ c = t
  <2>1. r = mk_binary_or(T, t, e) BY <1>9 DEF mk_bool_ite
  <2> HIDE DEF r, nc, nt, ne, Holds
  <2>2. ASSUME NEW F, NEW rho, Given(F, rho)
        PROVE  Either(F, rho, t, e)
    BY <1>2, <1>9, <2>2
  <2> HIDE DEF Given, Either
  <2>3. Holds BY <1>1, <1>7, <2>1, <2>2
  <2>4. QED BY <2>3 DEF Holds, r
<1>10. CASE ~Opposed /\ c # t /\ c = e
  <2>1. r = mk_binary_and(T, e, t) BY <1>10 DEF mk_bool_ite
  <2> HIDE DEF r, nc, nt, ne, Holds
  <2>2. ASSUME NEW F, NEW rho, Given(F, rho)
        PROVE  Both(F, rho, e, t)
    BY <1>2, <1>10, <2>2
  <2> HIDE DEF Given, Both
  <2>3. Holds BY <1>1, <1>8, <2>1, <2>2
  <2>4. QED BY <2>3 DEF Holds, r
<1> DEFINE Equal == Opposed \/ c = t \/ c = e
<1>11. CASE ~Equal /\ c = nt
  <2>1. r = mk_binary_and(T, t, e) BY <1>11 DEF mk_bool_ite
  <2> HIDE DEF r, nc, nt, ne, Holds
  <2>2. ASSUME NEW F, NEW rho, Given(F, rho)
        PROVE  Both(F, rho, t, e)
    BY <1>2, <1>11, <2>2
  <2> HIDE DEF Given, Both
  <2>3. Holds BY <1>1, <1>8, <2>1, <2>2
  <2>4. QED BY <2>3 DEF Holds, r
<1>12. CASE ~Equal /\ c # nt /\ c = ne
  <2>1. r = mk_binary_or(T, e, t) BY <1>12 DEF mk_bool_ite
  <2> HIDE DEF r, nc, nt, ne, Holds
  <2>2. ASSUME NEW F, NEW rho, Given(F, rho)
        PROVE  Either(F, rho, e, t)
    BY <1>2, <1>12, <2>2
  <2> HIDE DEF Given, Either
  <2>3. Holds BY <1>1, <1>7, <2>1, <2>2
  <2>4. QED BY <2>3 DEF Holds, r
<1> DEFINE Tied == Equal \/ c = nt \/ c = ne
<1>13. CASE ~Tied /\ t = true_term
  <2>1. r = mk_binary_or(T, c, e) BY <1>13 DEF mk_bool_ite
  <2> HIDE DEF r, nc, nt, ne, Holds
  <2>2. ASSUME NEW F, NEW rho, Given(F, rho)
        PROVE  Either(F, rho, c, e)
    BY <1>2, <1>13, <2>2
  <2> HIDE DEF Given, Either
  <2>3. Holds BY <1>1, <1>7, <2>1, <2>2
  <2>4. QED BY <2>3 DEF Holds, r
<1>14. CASE ~Tied /\ t # true_term /\ t = false_term
  <2>1. r = mk_binary_and(T, nc, e) BY <1>14 DEF mk_bool_ite
  <2> HIDE DEF r, nc, nt, ne, Holds
  <2>2. ASSUME NEW F, NEW rho, Given(F, rho)
        PROVE  Both(F, rho, nc, e)
    BY <1>2, <1>14, <2>2
  <2> HIDE DEF Given, Both
  <2>3. Holds BY <1>1, <1>8, <2>1, <2>2
  <2>4. QED BY <2>3 DEF Holds, r
<1> DEFINE Decided == Tied \/ t = true_term \/ t = false_term
<1>15. CASE ~Decided /\ e = false_term
  <2>1. r = mk_binary_and(T, c, t) BY <1>15 DEF mk_bool_ite
  <2> HIDE DEF r, nc, nt, ne, Holds
  <2>2. ASSUME NEW F, NEW rho, Given(F, rho)
        PROVE  Both(F, rho, c, t)
    BY <1>2, <1>15, <2>2
  <2> HIDE DEF Given, Both
  <2>3. Holds BY <1>1, <1>8, <2>1, <2>2
  <2>4. QED BY <2>3 DEF Holds, r
<1>16. CASE ~Decided /\ e # false_term /\ e = true_term
  <2>1. r = mk_binary_or(T, nc, t) BY <1>16 DEF mk_bool_ite
  <2> HIDE DEF r, nc, nt, ne, Holds
  <2>2. ASSUME NEW F, NEW rho, Given(F, rho)
        PROVE  Either(F, rho, nc, t)
    BY <1>2, <1>16, <2>2
  <2> HIDE DEF Given, Either
  <2>3. Holds BY <1>1, <1>7, <2>1, <2>2
  <2>4. QED BY <2>3 DEF Holds, r
<1>17. CASE ~Decided /\ e # false_term /\ e # true_term
  <2>1. r = GeneralIte(T, c, t, e) BY <1>17 DEF mk_bool_ite
  <2>2. QED BY <2>1, GeneralIteSays
<1>18. QED BY <1>4, <1>5, <1>6, <1>9, <1>10, <1>11, <1>12, <1>13, <1>14, <1>15, <1>16, <1>17

LEMMA ManyAndSays ==
  ASSUME NEW T, WellBuilt(T), NEW x \in BoolOf(T), NEW y \in BoolOf(T), NEW z \in BoolOf(T)
  PROVE  LET r == mk_and(T, <<x, y, z>>)
         IN /\ Formula(T, r)
            /\ \A F, rho :
                 /\ Grown(r.tab, F)
                 /\ Logical(F, rho, x) /\ Logical(F, rho, y) /\ Logical(F, rho, z)
                 => /\ Logical(F, rho, r.term)
                    /\ Truth(F, rho, r.term) =
                         (Truth(F, rho, x) /\ Truth(F, rho, y) /\ Truth(F, rho, z))
<1> DEFINE u == opposite_term(x)
           v == opposite_term(y)
           w == opposite_term(z)
           a == <<u, v, w>>
           s == mk_or(T, a)
           r == mk_and(T, <<x, y, z>>)
<1>1. /\ u \in BoolOf(T) /\ v \in BoolOf(T) /\ w \in BoolOf(T)
      /\ x \in Nat /\ y \in Nat /\ z \in Nat
  BY BoolIsTerm
<1>2. r = Negated(s)
  <2>1. [k \in DOMAIN <<x, y, z>> |-> opposite_term(<<x, y, z>>[k])] = a
    OBVIOUS
  <2>2. QED BY <2>1 DEF mk_and
<1>3. \A F, rho, t : t \in Nat /\ Logical(F, rho, t)
        => /\ Logical(F, rho, opposite_term(t)) /\ Truth(F, rho, t) \in BOOLEAN
           /\ Truth(F, rho, opposite_term(t)) = ~Truth(F, rho, t)
  BY TruthOfOpposite
<1>4. \A F, rho :
        /\ Logical(F, rho, x) => Logical(F, rho, u) /\ Truth(F, rho, x) \in BOOLEAN
                                 /\ Truth(F, rho, u) = ~Truth(F, rho, x)
        /\ Logical(F, rho, y) => Logical(F, rho, v) /\ Truth(F, rho, y) \in BOOLEAN
                                 /\ Truth(F, rho, v) = ~Truth(F, rho, y)
        /\ Logical(F, rho, z) => Logical(F, rho, w) /\ Truth(F, rho, z) \in BOOLEAN
                                 /\ Truth(F, rho, w) = ~Truth(F, rho, z)
  BY <1>1, <1>3
<1> HIDE DEF u, v, w
<1>5. a \in Seq(BoolOf(T)) /\ ToSet(a) = {u, v, w}
  <2>1. a \in Seq(BoolOf(T)) /\ DOMAIN a = 1..3 /\ a[1] = u /\ a[2] = v /\ a[3] = w
    BY <1>1
  <2>2. QED BY <2>1 DEF ToSet
<1> HIDE DEF a
<1>6. Formula(T, s) /\ SaysSome(s, {u, v, w}) BY <1>5, OrIs
<1>7. s = Kept(s.tab, s.term) BY DEF mk_or, Kept, or_term, Intern
<1> HIDE DEF s, r
<1>8. /\ Formula(T, r) /\ r.tab = s.tab
      /\ \A F, rho : Logical(F, rho, s.term)
           => /\ Logical(F, rho, r.term)
              /\ Truth(F, rho, r.term) = ~Truth(F, rho, s.term)
  BY <1>2, <1>6, <1>7, NegatedIs
<1>9. ASSUME NEW F, NEW rho, Grown(r.tab, F), Logical(F, rho, x), Logical(F, rho, y),
             Logical(F, rho, z)
      PROVE  /\ Logical(F, rho, r.term)
             /\ Truth(F, rho, r.term) =
                  (Truth(F, rho, x) /\ Truth(F, rho, y) /\ Truth(F, rho, z))
  <2>1. /\ Truth(F, rho, x) \in BOOLEAN /\ Truth(F, rho, u) = ~Truth(F, rho, x)
        /\ Truth(F, rho, y) \in BOOLEAN /\ Truth(F, rho, v) = ~Truth(F, rho, y)
        /\ Truth(F, rho, z) \in BOOLEAN /\ Truth(F, rho, w) = ~Truth(F, rho, z)
        /\ \A t \in {u, v, w} : Logical(F, rho, t)
    BY <1>4, <1>9
  <2>2. /\ Logical(F, rho, s.term)
        /\ Truth(F, rho, s.term) = \E t \in {u, v, w} : Truth(F, rho, t)
    BY <1>6, <1>8, <1>9, <2>1 DEF SaysSome
  <2>3. Logical(F, rho, r.term) /\ Truth(F, rho, r.term) = ~Truth(F, rho, s.term)
    BY <1>8, <2>2
  <2>4. QED BY <2>1, <2>2, <2>3
<1>10. QED BY <1>8, <1>9 DEF r

-----------------------------------------------------------------------------
(* The connectives mean what they should.                                  *)

\* rho gives the boolean constants of T truth values.
IsValuation(T, rho) ==
  \A i \in DOMAIN T : T[i].kind = "uninterpreted" /\ T[i].type = "bool" => rho[2 * i] \in BOOLEAN

LEMMA PiecedIs ==
  ASSUME NEW set, NEW part, NEW inner, NEW outer, NEW rho \in Pieced(set, part, inner, outer)
  PROVE  /\ \A t \in set \ part : rho[t] \in outer
         /\ \A t \in set \cap part : rho[t] \in inner
BY SMT DEF Pieced

LEMMA ValuationsAre ==
  ASSUME NEW T, WellBuilt(T), NEW points, NEW rho \in ValuationsOf(T, points)
  PROVE  IsValuation(T, rho)
<1> DEFINE S == SymbolsOf(T)
           R == {t \in S : get_type(T, t) = "real"}
<1>1. rho \in Pieced(S, R, points, BOOLEAN) BY DEF ValuationsOf
<1>2. ASSUME NEW i \in DOMAIN T, T[i].kind = "uninterpreted", T[i].type = "bool"
      PROVE  rho[2 * i] \in BOOLEAN
  <2>1. i \in Nat BY TableFacts
  <2>2. 2 * i \in S BY <1>2 DEF SymbolsOf
  <2>3. get_type(T, 2 * i) = "bool" BY <1>2, <2>1, HandleOf DEF get_type
  <2>4. 2 * i \in S \ R BY <2>2, <2>3
  <2> HIDE DEF S, R
  <2>5. QED BY <1>1, <2>4, PiecedIs
<1>3. QED BY <1>2 DEF IsValuation

\* Formulas of T have truth values in every larger table.
LEMMA FormulasAreLogical ==
  ASSUME NEW T, WellBuilt(T), NEW rho, IsValuation(T, rho), NEW F, Grown(T, F),
         NEW x \in BoolOf(T)
  PROVE  Logical(F, rho, x)
<1> DEFINE i == index_of(x)
           e == T[i]
           val == ValuesIn(F, rho)
<1>1. i \in DOMAIN T /\ e \in Entry /\ Shape(T, e) /\ e.type = "bool" /\ x \in TermOf(T)
  BY TableFacts DEF BoolOf, TermOf, get_type
<1>2. i \in DOMAIN F /\ F[i] = e /\ WellBuilt(F)
  <2>1. T \in Seq(Entry) /\ F \in Seq(Entry) /\ Extends(T, F) /\ WellBuilt(F)
    BY DEF Grown, WellBuilt
  <2>2. QED BY <1>1, <2>1, TermsStay DEF TermOf
<1>3. val[i] = Worth(e, rho[2 * i], val) BY <1>2, ValuesAre
<1>4. e.kind \in {"true", "uninterpreted", "or", "geq", "eq", "bineq"}
  BY <1>1 DEF Shape, Entry, Kinds, ProductShape, PolyShape, IteShape
<1>5. e.kind = "uninterpreted" => rho[2 * i] \in BOOLEAN
  BY <1>1 DEF IsValuation
<1> HIDE DEF e, val, i
<1>6. Worth(e, rho[2 * i], val) \in BOOLEAN
  <2>1. CASE e.kind \in {"true", "uninterpreted"}
    BY <1>5, <2>1, WorthOfLeaf
  <2>2. CASE e.kind = "or" BY <2>2, WorthOfOr
  <2>3. CASE e.kind \in {"geq", "eq", "bineq"}
    <3>1. AtLeast(val[index_of(e.args[1])], Zero) \in BOOLEAN
      BY DEF AtLeast
    <3>2. CASE e.kind = "geq" BY <3>1, <3>2, WorthOfAtom
    <3>3. CASE e.kind = "eq" BY <3>3, WorthOfAtom
    <3>4. CASE e.kind = "bineq" BY <3>4, WorthOfAtom
    <3>5. QED BY <2>3, <3>2, <3>3, <3>4
  <2>4. QED BY <1>4, <2>1, <2>2, <2>3
<1>7. QED BY <1>3, <1>6 DEF Logical, i, val

\* What the properties ask of the term r: Means, for one valuation.
LEMMA ConnectivesMean ==
  ASSUME NEW T, WellBuilt(T), NEW rho, IsValuation(T, rho), NEW r, Formula(T, r),
         NEW x \in BoolOf(T)
  PROVE  Grown(r.tab, r.tab) /\ Logical(r.tab, rho, x) /\ Truth(r.tab, rho, x) \in BOOLEAN
<1>1. Grown(T, r.tab) /\ WellBuilt(r.tab) BY DEF Formula, Grown
<1>2. Grown(r.tab, r.tab) BY <1>1, GrownReflexive
<1>3. Logical(r.tab, rho, x) BY <1>1, FormulasAreLogical
<1>4. QED BY <1>2, <1>3, BoolIsTerm, TruthOfOpposite

\* A property of TermManager, for a table that is well built.
LEMMA ConnectivesKeep ==
  ASSUME WellBuilt(table)
  PROVE  ConnectivesKeepMeaning
<1> DEFINE Rho == ValuationsOf(table, Points)
<1>1. Bools \subseteq BoolOf(table)
  <2>1. ASSUME NEW t \in Bools
        PROVE  t \in BoolOf(table)
    <3>1. t \in 2..(2 * Len(table) + 1) /\ get_type(table, t) = "bool"
      BY DEF Bools, Handles
    <3>2. Len(table) \in Nat /\ DOMAIN table = 1..Len(table)
      BY TableFacts
    <3>3. t \in Nat /\ index_of(t) \in 1..Len(table)
      BY <3>1, <3>2 DEF index_of
    <3>4. QED BY <3>1, <3>2, <3>3 DEF BoolOf, TermOf
  <2>2. QED BY <2>1
<1>2. \A rho \in Rho : IsValuation(table, rho) BY ValuationsAre
<1> HIDE DEF Rho
<1>3. ASSUME NEW x \in BoolOf(table), NEW y \in BoolOf(table), NEW rho \in Rho
      PROVE  /\ LET r == mk_implies(table, x, y)
                IN Truth(r.tab, rho, r.term) = (Truth(r.tab, rho, x) => Truth(r.tab, rho, y))
             /\ LET r == mk_iff(table, x, y)
                IN Truth(r.tab, rho, r.term) = (Truth(r.tab, rho, x) = Truth(r.tab, rho, y))
             /\ LET r == mk_xor(table, x, y)
                IN Truth(r.tab, rho, r.term) = (Truth(r.tab, rho, x) # Truth(r.tab, rho, y))
  <2>1. LET r == mk_implies(table, x, y)
        IN Truth(r.tab, rho, r.term) = (Truth(r.tab, rho, x) => Truth(r.tab, rho, y))
    <3> DEFINE r == mk_implies(table, x, y)
    <3>1. /\ Formula(table, r)
          /\ \A F, rh :
               Grown(r.tab, F) /\ Logical(F, rh, x) /\ Logical(F, rh, y)
                 => /\ Logical(F, rh, r.term)
                    /\ Truth(F, rh, r.term) = (Truth(F, rh, x) => Truth(F, rh, y))
      BY ImpliesSays
    <3> HIDE DEF r
    <3>2. Grown(r.tab, r.tab) /\ Logical(r.tab, rho, x) /\ Logical(r.tab, rho, y)
      BY <1>2, <3>1, ConnectivesMean
    <3>3. Truth(r.tab, rho, r.term) = (Truth(r.tab, rho, x) => Truth(r.tab, rho, y))
      BY <3>1, <3>2
    <3>4. QED BY <3>3 DEF r
  <2>2. LET r == mk_iff(table, x, y)
        IN Truth(r.tab, rho, r.term) = (Truth(r.tab, rho, x) = Truth(r.tab, rho, y))
    <3> DEFINE r == mk_iff(table, x, y)
    <3>1. /\ Formula(table, r)
          /\ \A F, rh :
               Grown(r.tab, F) /\ Logical(F, rh, x) /\ Logical(F, rh, y)
                 => /\ Logical(F, rh, r.term)
                    /\ Truth(F, rh, r.term) = (Truth(F, rh, x) = Truth(F, rh, y))
      BY IffSays
    <3> HIDE DEF r
    <3>2. Grown(r.tab, r.tab) /\ Logical(r.tab, rho, x) /\ Logical(r.tab, rho, y)
      BY <1>2, <3>1, ConnectivesMean
    <3>3. Truth(r.tab, rho, r.term) = (Truth(r.tab, rho, x) = Truth(r.tab, rho, y))
      BY <3>1, <3>2
    <3>4. QED BY <3>3 DEF r
  <2>3. LET r == mk_xor(table, x, y)
        IN Truth(r.tab, rho, r.term) = (Truth(r.tab, rho, x) # Truth(r.tab, rho, y))
    <3> DEFINE r == mk_xor(table, x, y)
    <3>1. /\ Formula(table, r)
          /\ \A F, rh :
               Grown(r.tab, F) /\ Logical(F, rh, x) /\ Logical(F, rh, y)
                 => /\ Logical(F, rh, r.term)
                    /\ Truth(F, rh, r.term) = (Truth(F, rh, x) # Truth(F, rh, y))
      BY XorSays
    <3> HIDE DEF r
    <3>2. Grown(r.tab, r.tab) /\ Logical(r.tab, rho, x) /\ Logical(r.tab, rho, y)
      BY <1>2, <3>1, ConnectivesMean
    <3>3. Truth(r.tab, rho, r.term) = (Truth(r.tab, rho, x) # Truth(r.tab, rho, y))
      BY <3>1, <3>2
    <3>4. QED BY <3>3 DEF r
  <2>4. QED BY <2>1, <2>2, <2>3
<1>4. ASSUME NEW x \in BoolOf(table), NEW y \in BoolOf(table), NEW z \in BoolOf(table),
             NEW rho \in Rho
      PROVE  /\ LET r == mk_or(table, <<x, y, z>>)
                IN Truth(r.tab, rho, r.term) =
                     (Truth(r.tab, rho, x) \/ Truth(r.tab, rho, y) \/ Truth(r.tab, rho, z))
             /\ LET r == mk_and(table, <<x, y, z>>)
                IN Truth(r.tab, rho, r.term) =
                     (Truth(r.tab, rho, x) /\ Truth(r.tab, rho, y) /\ Truth(r.tab, rho, z))
             /\ LET r == mk_bool_ite(table, x, y, z)
                IN Truth(r.tab, rho, r.term) =
                     IF Truth(r.tab, rho, x) THEN Truth(r.tab, rho, y) ELSE Truth(r.tab, rho, z)
  <2>1. LET r == mk_or(table, <<x, y, z>>)
        IN Truth(r.tab, rho, r.term) =
             (Truth(r.tab, rho, x) \/ Truth(r.tab, rho, y) \/ Truth(r.tab, rho, z))
    <3> DEFINE a == <<x, y, z>>
               r == mk_or(table, a)
    <3>1. a \in Seq(BoolOf(table)) /\ ToSet(a) = {x, y, z}
      <4>1. a \in Seq(BoolOf(table)) /\ DOMAIN a = 1..3 /\ a[1] = x /\ a[2] = y /\ a[3] = z
        OBVIOUS
      <4>2. QED BY <4>1 DEF ToSet
    <3> HIDE DEF a
    <3>2. Formula(table, r) /\ SaysSome(r, {x, y, z}) BY <3>1, OrIs
    <3> HIDE DEF r
    <3>3. /\ Grown(r.tab, r.tab)
          /\ Logical(r.tab, rho, x) /\ Logical(r.tab, rho, y) /\ Logical(r.tab, rho, z)
      BY <1>2, <3>2, ConnectivesMean
    <3>4. Truth(r.tab, rho, r.term) = \E t \in {x, y, z} : Truth(r.tab, rho, t)
      BY <3>2, <3>3 DEF SaysSome
    <3>5. Truth(r.tab, rho, r.term) =
            (Truth(r.tab, rho, x) \/ Truth(r.tab, rho, y) \/ Truth(r.tab, rho, z))
      BY <3>4
    <3>6. QED BY <3>5 DEF r, a
  <2>2. LET r == mk_and(table, <<x, y, z>>)
        IN Truth(r.tab, rho, r.term) =
             (Truth(r.tab, rho, x) /\ Truth(r.tab, rho, y) /\ Truth(r.tab, rho, z))
    <3> DEFINE r == mk_and(table, <<x, y, z>>)
    <3>1. /\ Formula(table, r)
          /\ \A F, rh :
               /\ Grown(r.tab, F)
               /\ Logical(F, rh, x) /\ Logical(F, rh, y) /\ Logical(F, rh, z)
               => /\ Logical(F, rh, r.term)
                  /\ Truth(F, rh, r.term) =
                       (Truth(F, rh, x) /\ Truth(F, rh, y) /\ Truth(F, rh, z))
      BY ManyAndSays
    <3> HIDE DEF r
    <3>2. /\ Grown(r.tab, r.tab)
          /\ Logical(r.tab, rho, x) /\ Logical(r.tab, rho, y) /\ Logical(r.tab, rho, z)
      BY <1>2, <3>1, ConnectivesMean
    <3>3. Truth(r.tab, rho, r.term) =
            (Truth(r.tab, rho, x) /\ Truth(r.tab, rho, y) /\ Truth(r.tab, rho, z))
      BY <3>1, <3>2
    <3>4. QED BY <3>3 DEF r
  <2>3. LET r == mk_bool_ite(table, x, y, z)
        IN Truth(r.tab, rho, r.term) =
             IF Truth(r.tab, rho, x) THEN Truth(r.tab, rho, y) ELSE Truth(r.tab, rho, z)
    <3> DEFINE r == mk_bool_ite(table, x, y, z)
    <3>1. Formula(table, r) /\ SaysIte(r, x, y, z) BY IteSays
    <3> HIDE DEF r
    <3>2. /\ Grown(r.tab, r.tab)
          /\ Logical(r.tab, rho, x) /\ Logical(r.tab, rho, y) /\ Logical(r.tab, rho, z)
      BY <1>2, <3>1, ConnectivesMean
    <3>3. Truth(r.tab, rho, r.term) =
            IF Truth(r.tab, rho, x) THEN Truth(r.tab, rho, y) ELSE Truth(r.tab, rho, z)
      BY <3>1, <3>2 DEF SaysIte
    <3>4. QED BY <3>3 DEF r
  <2>4. QED BY <2>1, <2>2, <2>3
<1>5. ASSUME NEW x \in BoolOf(table), NEW y \in BoolOf(table)
      PROVE  /\ Means(mk_implies(table, x, y), <<x, y>>, LAMBDA v : v[1] => v[2])
             /\ Means(mk_iff(table, x, y), <<x, y>>, LAMBDA v : v[1] = v[2])
             /\ Means(mk_xor(table, x, y), <<x, y>>, LAMBDA v : v[1] # v[2])
  <2>1. DOMAIN <<x, y>> = 1..2 /\ <<x, y>>[1] = x /\ <<x, y>>[2] = y
    OBVIOUS
  <2>2. \A val : LET v == [k \in DOMAIN <<x, y>> |-> Value(val, <<x, y>>[k])]
                 IN v[1] = Value(val, x) /\ v[2] = Value(val, y)
    BY <2>1
  <2>3. Means(mk_implies(table, x, y), <<x, y>>, LAMBDA v : v[1] => v[2])
    BY <1>3, <2>2 DEF Means, Truth, Rho
  <2>4. Means(mk_iff(table, x, y), <<x, y>>, LAMBDA v : v[1] = v[2])
    BY <1>3, <2>2 DEF Means, Truth, Rho
  <2>5. Means(mk_xor(table, x, y), <<x, y>>, LAMBDA v : v[1] # v[2])
    BY <1>3, <2>2 DEF Means, Truth, Rho
  <2>6. QED BY <2>3, <2>4, <2>5
<1>6. ASSUME NEW x \in BoolOf(table), NEW y \in BoolOf(table), NEW z \in BoolOf(table)
      PROVE  /\ Means(mk_or(table, <<x, y, z>>), <<x, y, z>>, LAMBDA v : v[1] \/ v[2] \/ v[3])
             /\ Means(mk_and(table, <<x, y, z>>), <<x, y, z>>, LAMBDA v : v[1] /\ v[2] /\ v[3])
             /\ Means(mk_bool_ite(table, x, y, z), <<x, y, z>>,
                      LAMBDA v : IF v[1] THEN v[2] ELSE v[3])
  <2>1. /\ DOMAIN <<x, y, z>> = 1..3
        /\ <<x, y, z>>[1] = x /\ <<x, y, z>>[2] = y /\ <<x, y, z>>[3] = z
    OBVIOUS
  <2>2. \A val : LET v == [k \in DOMAIN <<x, y, z>> |-> Value(val, <<x, y, z>>[k])]
                 IN v[1] = Value(val, x) /\ v[2] = Value(val, y) /\ v[3] = Value(val, z)
    BY <2>1
  <2>3. Means(mk_or(table, <<x, y, z>>), <<x, y, z>>, LAMBDA v : v[1] \/ v[2] \/ v[3])
    BY <1>4, <2>2 DEF Means, Truth, Rho
  <2>4. Means(mk_and(table, <<x, y, z>>), <<x, y, z>>, LAMBDA v : v[1] /\ v[2] /\ v[3])
    BY <1>4, <2>2 DEF Means, Truth, Rho
  <2>5. Means(mk_bool_ite(table, x, y, z), <<x, y, z>>, LAMBDA v : IF v[1] THEN v[2] ELSE v[3])
    BY <1>4, <2>2 DEF Means, Truth, Rho
  <2>6. QED BY <2>3, <2>4, <2>5
<1>7. QED BY <1>1, <1>5, <1>6 DEF ConnectivesKeepMeaning

-----------------------------------------------------------------------------
(* Folds over lists.                                                       *)

\* The greatest element of a set of positions.
LEMMA MaxIs ==
  ASSUME NEW n \in Nat, NEW s \in SUBSET (1..n), s # {}
  PROVE  Max(s) \in s /\ \A y \in s : Max(s) >= y
<1> DEFINE R == {n - x : x \in s}
<1>1. R \in SUBSET Nat /\ R # {}
  <2>1. \A x \in s : n - x \in Nat OBVIOUS
  <2>2. PICK x \in s : TRUE OBVIOUS
  <2>3. n - x \in R OBVIOUS
  <2>4. QED BY <2>1, <2>3
<1>2. PICK r \in R : \A y \in R : r <= y BY <1>1, LeastNatural
<1>3. PICK x \in s : r = n - x BY <1>2
<1>4. \A y \in s : x >= y
  <2>1. TAKE y \in s
  <2>2. n - x <= n - y BY <1>2, <1>3
  <2>3. QED BY <2>2
<1>5. QED BY <1>4 DEF Max

LEMMA MaxOfPrefix ==
  ASSUME NEW k \in Nat, k # 0
  PROVE  Max(1..k) = k /\ (1..k) \ {k} = 1..(k - 1)
<1>1. 1..k # {} /\ k \in 1..k OBVIOUS
<1>2. Max(1..k) \in 1..k /\ \A y \in 1..k : Max(1..k) >= y
  BY <1>1, MaxIs
<1>3. Max(1..k) >= k BY <1>1, <1>2
<1>4. Max(1..k) = k BY <1>2, <1>3
<1>5. QED BY <1>4

\* g folds a step over the positions up to n and stays in S.
IsRun(g, n, S, base, step) ==
  /\ g \in [SUBSET (1..n) -> S]
  /\ \A s \in SUBSET (1..n) :
       g[s] = IF s = {} THEN base ELSE step[Max(s)][g[s \ {Max(s)}]]

\* A step that stays in a set can be repeated.
LEMMA StepsExist ==
  ASSUME NEW n \in Nat, NEW S, NEW base \in S, NEW step \in [1..n -> [S -> S]]
  PROVE  \E g : IsRun(g, n, S, base, step)
<1> DEFINE pick == [s \in SUBSET (1..n) |-> Max(s)]
           steps == [s \in SUBSET (1..n) |-> step[Max(s)]]
<1>1. IsFiniteSet(1..n) BY FS_Interval
<1>2. \A s \in SUBSET (1..n) : s # {} => pick[s] \in s BY MaxIs
<1>3. PICK g : IsFold(g, base, pick, steps, SUBSET (1..n))
  <2> HIDE DEF pick, steps
  <2>1. QED BY <1>1, <1>2, FoldExists
<1>4. g = [s \in SUBSET (1..n) |-> IF s = {} THEN base ELSE steps[s][g[s \ {pick[s]}]]]
  BY <1>3, Zenon DEF IsFold
<1>5. \A s \in SUBSET (1..n) :
        g[s] = IF s = {} THEN base ELSE steps[s][g[s \ {pick[s]}]]
  <2> HIDE DEF pick, steps
  <2>1. QED BY <1>4, Zenon
<1>6. \A s \in SUBSET (1..n) :
        g[s] = IF s = {} THEN base ELSE step[Max(s)][g[s \ {Max(s)}]]
  BY <1>5
<1> HIDE DEF pick, steps
<1>7. \A s \in SUBSET (1..n) : g[s] \in S
  <2> DEFINE Q == {s \in SUBSET (1..n) : g[s] \in S}
  <2>1. {} \in Q BY <1>6
  <2>2. ASSUME NEW s \in SUBSET (1..n), s # {}, s \ {pick[s]} \in Q
        PROVE  s \in Q
    <3>1. pick[s] \in s /\ pick[s] = Max(s) BY <1>2, <2>2 DEF pick
    <3>2. g[s \ {Max(s)}] \in S /\ step[Max(s)] \in [S -> S]
      BY <2>2, <3>1
    <3>3. g[s] = step[Max(s)][g[s \ {Max(s)}]] BY <1>6, <2>2
    <3>4. QED BY <3>2, <3>3
  <2> HIDE DEF Q
  <2>3. \A s \in SUBSET (1..n) : s # {} /\ s \ {pick[s]} \in Q => s \in Q
    BY <2>2
  <2> DEFINE N == 1..n
  <2>4. /\ IsFiniteSet(N) /\ \A s \in SUBSET N : s # {} => pick[s] \in s
        /\ \A s \in SUBSET N : s # {} /\ s \ {pick[s]} \in Q => s \in Q
    BY <1>1, <1>2, <2>3
  <2> HIDE DEF N
  <2>5. \A s \in SUBSET N : s \in Q BY <2>1, <2>4, EveryPicked
  <2>6. QED BY <2>5 DEF N, Q
<1>8. DOMAIN g = SUBSET (1..n) /\ g = [s \in SUBSET (1..n) |-> g[s]]
  BY <1>4
<1>9. g \in [SUBSET (1..n) -> S] BY <1>7, <1>8
<1>10. QED BY <1>6, <1>9, Zenon DEF IsRun

\* The polynomials a merge goes through.
LEMMA MergeAllSteps ==
  ASSUME NEW S, NoTerms \in S, \A p, q \in S : Merge(p, q, One) \in S, NEW ps \in Seq(S)
  PROVE  \E f : /\ f[0] = NoTerms
                /\ \A k \in 0..Len(ps) : f[k] \in S
                /\ \A k \in 1..Len(ps) : f[k] = Merge(f[k - 1], ps[k], One)
                /\ MergeAll(ps) = f[Len(ps)]
<1> DEFINE n == Len(ps)
           step == [i \in 1..n |-> [p \in S |-> Merge(p, ps[i], One)]]
           IsFolded(g) ==
             g = [s \in SUBSET (1..n) |->
                    IF s = {} THEN NoTerms ELSE Merge(g[s \ {Max(s)}], ps[Max(s)], One)]
<1>1. n \in Nat /\ DOMAIN ps = 1..n /\ \A i \in 1..n : ps[i] \in S
  OBVIOUS
<1>2. step \in [1..n -> [S -> S]] BY <1>1
<1>3a. PICK g : IsRun(g, n, S, NoTerms, step)
  <2> HIDE DEF step, n
  <2>1. QED BY <1>1, <1>2, StepsExist
<1> HIDE DEF n
<1>3. /\ g \in [SUBSET (1..n) -> S]
      /\ \A s \in SUBSET (1..n) :
           g[s] = IF s = {} THEN NoTerms ELSE step[Max(s)][g[s \ {Max(s)}]]
  BY <1>3a, Zenon DEF IsRun
<1>4. \A s \in SUBSET (1..n) :
        g[s] = IF s = {} THEN NoTerms ELSE Merge(g[s \ {Max(s)}], ps[Max(s)], One)
  <2>1. TAKE s \in SUBSET (1..n)
  <2>2. CASE s = {} BY <1>3, <2>2
  <2>3. CASE s # {}
    <3>1. Max(s) \in 1..n /\ s \ {Max(s)} \in SUBSET (1..n)
      BY <1>1, <2>3, MaxIs
    <3>2. g[s \ {Max(s)}] \in S BY <1>3, <3>1
    <3>3. step[Max(s)][g[s \ {Max(s)}]] = Merge(g[s \ {Max(s)}], ps[Max(s)], One)
      BY <3>1, <3>2
    <3> HIDE DEF step
    <3>4. QED BY <1>3, <2>3, <3>3
  <2>4. QED BY <2>2, <2>3
<1>5. IsFolded(g)
  <2>1. g = [s \in SUBSET (1..n) |-> g[s]] BY <1>3
  <2>2. [s \in SUBSET (1..n) |-> g[s]]
          = [s \in SUBSET (1..n) |->
               IF s = {} THEN NoTerms ELSE Merge(g[s \ {Max(s)}], ps[Max(s)], One)]
    BY <1>4, Zenon
  <2>3. QED BY <2>1, <2>2, Zenon
<1> DEFINE h == CHOOSE h : IsFolded(h)
<1>6. IsFolded(h) BY <1>5
<1>7. MergeAll(ps) = h[1..n]
  BY <1>1 DEF MergeAll, FoldLeft, MapThenFoldSet
<1> HIDE DEF h
<1>8. \A s \in SUBSET (1..n) :
        h[s] = IF s = {} THEN NoTerms ELSE Merge(h[s \ {Max(s)}], ps[Max(s)], One)
  BY <1>6, Zenon
<1> DEFINE f == [k \in 0..n |-> h[1..k]]
<1>9. f[0] = NoTerms
  <2>1. 1..0 = {} /\ 0 \in 0..n BY <1>1
  <2>2. h[{}] = NoTerms BY <1>8
  <2>3. QED BY <2>1, <2>2
<1>10. ASSUME NEW k \in 1..n
       PROVE  f[k] = Merge(f[k - 1], ps[k], One)
  <2>0. k \in 0..n /\ k - 1 \in 0..n /\ k \in Nat /\ k # 0 BY <1>1
  <2>1. 1..k # {} /\ 1..k \in SUBSET (1..n)
    <3>1. k \in 1..k BY <2>0
    <3>2. \A j \in 1..k : j \in 1..n BY <1>1, <2>0
    <3>3. QED BY <3>1, <3>2
  <2>2. Max(1..k) = k /\ (1..k) \ {k} = 1..(k - 1) BY <2>0, MaxOfPrefix
  <2>3. h[1..k] = Merge(h[1..(k - 1)], ps[k], One) BY <1>8, <2>1, <2>2
  <2>4. f[k] = h[1..k] /\ f[k - 1] = h[1..(k - 1)] BY <2>0
  <2>5. QED BY <2>3, <2>4
<1>11. f[n] = h[1..n] BY <1>1
<1> HIDE DEF f
<1>12. \A k \in 0..n : f[k] \in S
  <2>1. \A k \in 1..n : f[k - 1] \in S => f[k] \in S
    <3>1. TAKE k \in 1..n
    <3>2. HAVE f[k - 1] \in S
    <3>3. ps[k] \in S BY <1>1
    <3>4. QED BY <1>10, <3>2, <3>3
  <2>2. QED BY <1>1, <1>9, <2>1, StaysIn
<1>13. QED BY <1>7, <1>9, <1>10, <1>11, <1>12 DEF n

-----------------------------------------------------------------------------
(* Polynomials.                                                            *)

\* What coefficients belong to.
Variables(T) == {Undef} \cup VarLike(T)

PolyVars(T) == {D \in SUBSET Variables(T) : IsFiniteSet(D)}

PolysOf(T) == UNION {[D -> Rat \ {Zero}] : D \in PolyVars(T)}

LEMMA PolyIs ==
  ASSUME NEW T, NEW p \in PolysOf(T)
  PROVE  /\ p = [v \in DOMAIN p |-> p[v]]
         /\ DOMAIN p \subseteq Variables(T)
         /\ IsFiniteSet(DOMAIN p)
         /\ \A v \in DOMAIN p : p[v] \in Rat /\ p[v] # Zero
         /\ \A v : At(p, v) \in Rat
<1>1. PICK D \in PolyVars(T) : p \in [D -> Rat \ {Zero}] BY DEF PolysOf
<1>2. DOMAIN p = D /\ p = [v \in D |-> p[v]] /\ \A v \in D : p[v] \in Rat /\ p[v] # Zero
  BY <1>1
<1>3. \A v : At(p, v) \in Rat BY <1>2, ZeroIsRat DEF At
<1>4. QED BY <1>1, <1>2, <1>3 DEF PolyVars

LEMMA IsPoly ==
  ASSUME NEW T, NEW D, D \subseteq Variables(T), IsFiniteSet(D),
         NEW p \in [D -> Rat \ {Zero}]
  PROVE  p \in PolysOf(T)
<1>1. D \in PolyVars(T) BY DEF PolyVars
<1>2. QED BY <1>1 DEF PolysOf

LEMMA NoTermsIsPoly ==
  ASSUME NEW T
  PROVE  NoTerms \in PolysOf(T) /\ DOMAIN NoTerms = {}
<1>1. NoTerms \in [{} -> Rat \ {Zero}] /\ DOMAIN NoTerms = {}
  BY DEF NoTerms
<1>2. IsFiniteSet({}) BY FS_EmptySet
<1>3. QED BY <1>1, <1>2, IsPoly

\* The coefficients of p + c * q.
LEMMA MergeIs ==
  ASSUME NEW p, NEW q, NEW c
  PROVE  LET sum(v) == Plus(At(p, v), Times(c, At(q, v)))
             D == {v \in DOMAIN p \cup DOMAIN q : sum(v) # Zero}
         IN Merge(p, q, c) = [v \in D |-> sum(v)]
BY DEF Merge, RestrictValues, Restrict

LEMMA MergeIsPoly ==
  ASSUME NEW T, NEW p \in PolysOf(T), NEW q \in PolysOf(T), NEW c \in Rat
  PROVE  /\ Merge(p, q, c) \in PolysOf(T)
         /\ DOMAIN Merge(p, q, c) \subseteq DOMAIN p \cup DOMAIN q
         /\ \A v \in DOMAIN p \cup DOMAIN q :
              At(Merge(p, q, c), v) = Plus(At(p, v), Times(c, At(q, v)))
<1> DEFINE sum(v) == Plus(At(p, v), Times(c, At(q, v)))
           D == {v \in DOMAIN p \cup DOMAIN q : sum(v) # Zero}
           m == [v \in D |-> sum(v)]
<1>1. Merge(p, q, c) = m BY MergeIs
<1>2. D \subseteq Variables(T) BY PolyIs
<1>3. IsFiniteSet(D)
  <2>1. IsFiniteSet(DOMAIN p \cup DOMAIN q) /\ D \subseteq DOMAIN p \cup DOMAIN q
    BY PolyIs, FS_Union
  <2>2. QED BY <2>1, FS_Subset
<1>4. \A v : sum(v) \in Rat
  <2>1. TAKE v
  <2>2. At(p, v) \in Rat /\ At(q, v) \in Rat BY PolyIs
  <2>3. QED BY <2>2, TimesIsRat, PlusIsRat
<1>5. m \in [D -> Rat \ {Zero}]
  <2> HIDE DEF sum
  <2>1. \A v \in D : sum(v) \in Rat \ {Zero} BY <1>4
  <2> HIDE DEF D
  <2>2. QED BY <2>1
<1>6. m \in PolysOf(T) BY <1>2, <1>3, <1>5, IsPoly
<1>7. ASSUME NEW v \in DOMAIN p \cup DOMAIN q
      PROVE  At(m, v) = sum(v)
  BY <1>7 DEF At
<1>8. QED BY <1>1, <1>6, <1>7

LEMMA ScaledIsPoly ==
  ASSUME NEW T, NEW p \in PolysOf(T), NEW c \in Rat, c # Zero
  PROVE  Scaled(p, c) \in PolysOf(T) /\ DOMAIN Scaled(p, c) = DOMAIN p
<1>1. ASSUME NEW v \in DOMAIN p
      PROVE  Times(c, p[v]) \in Rat \ {Zero}
  <2>1. p[v] \in Rat /\ p[v] # Zero BY PolyIs
  <2>2. QED BY <2>1, TimesIsRat, TimesIsZero
<1>2. Scaled(p, c) \in [DOMAIN p -> Rat \ {Zero}] /\ DOMAIN Scaled(p, c) = DOMAIN p
  BY <1>1 DEF Scaled
<1>3. QED BY <1>2, PolyIs, IsPoly

-----------------------------------------------------------------------------
(* The polynomials of terms.                                               *)

CoeffOf(T, t) ==
  IF get_kind(T, t) = "constant" THEN arithmetic_constant_value(T, t)
  ELSE IF get_kind(T, t) = "product" THEN coeff_of_product(T, t) ELSE One

LEMMA RealIs ==
  ASSUME NEW T, WellBuilt(T), NEW t \in RealOf(T)
  PROVE  /\ t \in TermOf(T) /\ t \in Nat /\ t # Undef
         /\ get_kind(T, t) \in {"constant", "uninterpreted", "ite", "product", "poly"}
         /\ get_kind(T, t) \in {"uninterpreted", "ite"} => t \in VarLike(T)
         /\ get_kind(T, t) = "constant" => arithmetic_constant_value(T, t) \in Rat
         /\ get_kind(T, t) = "product" =>
              /\ var_of_product(T, t) \in VarLike(T)
              /\ coeff_of_product(T, t) \in Rat /\ coeff_of_product(T, t) # Zero
         /\ get_kind(T, t) = "poly" => PolyShape(T, T[index_of(t)])
<1> DEFINE e == T[index_of(t)]
<1>1. t \in TermOf(T) /\ t \in Nat /\ t # Undef /\ Shape(T, e) /\ e \in Entry /\ e.type = "real"
      /\ ~is_negated(t)
  <2>1. t \in TermOf(T) /\ get_type(T, t) = "real" /\ ~is_negated(t)
    BY DEF RealOf
  <2>2. t \in Nat /\ Shape(T, e) /\ e \in Entry BY <2>1, TableFacts
  <2>3. t # Undef BY <2>2 DEF Undef
  <2>4. QED BY <2>1, <2>2, <2>3 DEF get_type
<1>2. e.kind \in {"constant", "uninterpreted", "ite", "product", "poly"}
  <2>1. e.kind = "true" => e.type = "bool"
    BY <1>1 DEF Shape, PrimitiveTerms, Composite
  <2>2. e.kind \in {"or", "geq", "eq", "bineq"} => e.type = "bool"
    BY <1>1 DEF Shape, OrShape, AtomShape, EquationShape
  <2>3. QED BY <1>1, <2>1, <2>2 DEF Entry, Kinds
<1>3. get_kind(T, t) = e.kind /\ get_args(T, t) = e.args /\ arithmetic_constant_value(T, t) = e.value
  BY DEF get_kind, get_args, arithmetic_constant_value
<1>4. e.kind \in {"uninterpreted", "ite"} => t \in VarLike(T)
  BY <1>3 DEF VarLike, is_var_like
<1>5. e.value \in Rat BY <1>1 DEF Entry
<1>6. ASSUME e.kind = "product"
      PROVE  /\ var_of_product(T, t) \in VarLike(T)
             /\ coeff_of_product(T, t) \in Rat /\ coeff_of_product(T, t) # Zero
  <2>1. ProductShape(T, e) BY <1>1, <1>6 DEF Shape
  <2>2. /\ var_of_product(T, t) = e.args[2]
        /\ coeff_of_product(T, t) = arithmetic_constant_value(T, e.args[1])
    BY <1>3 DEF var_of_product, coeff_of_product
  <2>3. /\ e.args[1] \in RealOf(T) /\ arithmetic_constant_value(T, e.args[1]) # Zero
        /\ e.args[2] \in VarLike(T)
    BY <2>1 DEF ProductShape
  <2>4. arithmetic_constant_value(T, e.args[1]) \in Rat
    BY <2>3, TableFacts DEF RealOf, arithmetic_constant_value, Entry
  <2>5. QED BY <2>2, <2>3, <2>4
<1>7. e.kind = "poly" => PolyShape(T, e) BY <1>1 DEF Shape
<1>8. QED BY <1>1, <1>2, <1>3, <1>4, <1>5, <1>6, <1>7

LEMMA MonomialIs ==
  ASSUME NEW T, WellBuilt(T), NEW t \in Monomials(T)
  PROVE  /\ MonomialPoly(T, t) = Monomial(VarOf(T, t), CoeffOf(T, t))
         /\ VarOf(T, t) \in Variables(T)
         /\ CoeffOf(T, t) \in Rat /\ CoeffOf(T, t) # Zero
<1>1. /\ t \in RealOf(T)
      /\ get_kind(T, t) \in {"constant", "uninterpreted", "ite", "product"}
      /\ get_kind(T, t) = "constant" => arithmetic_constant_value(T, t) # Zero
  BY DEF Monomials
<1>2. /\ get_kind(T, zero_term) = "constant" /\ arithmetic_constant_value(T, zero_term) = Zero
  BY PrimitivesAre
<1>3. t # zero_term BY <1>1, <1>2
<1>4. CASE get_kind(T, t) = "constant"
  <2>1. VarOf(T, t) = Undef /\ CoeffOf(T, t) = arithmetic_constant_value(T, t)
    BY <1>4 DEF VarOf, CoeffOf
  <2>2. is_arithmetic_constant(T, t) /\ ~is_var_like(T, t)
    BY <1>4 DEF is_arithmetic_constant, is_var_like
  <2>3. MonomialPoly(T, t) = Monomial(Undef, arithmetic_constant_value(T, t))
    BY <1>3, <1>4, <2>2 DEF MonomialPoly
  <2>4. QED BY <1>1, <1>4, <2>1, <2>3, RealIs DEF Variables
<1>5. CASE get_kind(T, t) \in {"uninterpreted", "ite"}
  <2>1. VarOf(T, t) = t /\ CoeffOf(T, t) = One
    BY <1>5 DEF VarOf, CoeffOf
  <2>2. ~is_arithmetic_constant(T, t) /\ is_var_like(T, t)
    BY <1>5 DEF is_arithmetic_constant, is_var_like
  <2>3. MonomialPoly(T, t) = Monomial(t, One)
    BY <1>3, <1>5, <2>2 DEF MonomialPoly
  <2>4. QED BY <1>1, <1>5, <2>1, <2>3, RealIs, UnitsAreRat DEF Variables
<1>6. CASE get_kind(T, t) = "product"
  <2>1. VarOf(T, t) = var_of_product(T, t) /\ CoeffOf(T, t) = coeff_of_product(T, t)
    BY <1>6 DEF VarOf, CoeffOf
  <2>2. ~is_arithmetic_constant(T, t) /\ ~is_var_like(T, t)
    BY <1>6 DEF is_arithmetic_constant, is_var_like
  <2>3. MonomialPoly(T, t) = Monomial(var_of_product(T, t), coeff_of_product(T, t))
    BY <1>3, <1>6, <2>2 DEF MonomialPoly
  <2>4. QED BY <1>1, <1>6, <2>1, <2>3, RealIs DEF Variables
<1>7. QED BY <1>1, <1>4, <1>5, <1>6

LEMMA MonomialIsPoly ==
  ASSUME NEW T, NEW v \in Variables(T), NEW c \in Rat, c # Zero
  PROVE  /\ Monomial(v, c) \in PolysOf(T)
         /\ DOMAIN Monomial(v, c) = {v} /\ Monomial(v, c)[v] = c
<1>1. IsFiniteSet({v}) /\ {v} \subseteq Variables(T) BY FS_Singleton
<1>2. Monomial(v, c) \in [{v} -> Rat \ {Zero}] BY DEF Monomial
<1>3. QED BY <1>1, <1>2, IsPoly DEF Monomial

LEMMA MonomialPolyIsPoly ==
  ASSUME NEW T, WellBuilt(T), NEW t \in RealOf(T), get_kind(T, t) # "poly"
  PROVE  MonomialPoly(T, t) \in PolysOf(T)
<1>1. CASE t = zero_term
  <2>1. get_kind(T, t) = "constant" BY <1>1, PrimitivesAre
  <2>2. MonomialPoly(T, t) = NoTerms
    BY <1>1, <2>1 DEF MonomialPoly, is_var_like
  <2>3. QED BY <2>2, NoTermsIsPoly
<1>2. CASE t # zero_term
  <2>1. t \in Monomials(T) BY <1>2, RealIs, PrimitivesAre DEF Monomials
  <2> DEFINE v == VarOf(T, t)
             c == CoeffOf(T, t)
  <2>2. MonomialPoly(T, t) = Monomial(v, c) /\ v \in Variables(T) /\ c \in Rat /\ c # Zero
    BY <2>1, MonomialIs
  <2> HIDE DEF v, c
  <2>3. Monomial(v, c) \in PolysOf(T) BY <2>2, MonomialIsPoly
  <2>4. QED BY <2>2, <2>3
<1>3. QED BY <1>1, <1>2

\* A variable that is new.
LEMMA MergeNew ==
  ASSUME NEW T, NEW p \in PolysOf(T), NEW v, v \notin DOMAIN p, NEW c \in Rat, c # Zero
  PROVE  LET m == Merge(p, Monomial(v, c), One)
         IN DOMAIN m = DOMAIN p \cup {v} /\ m[v] = c /\ \A w \in DOMAIN p : m[w] = p[w]
<1> DEFINE q == Monomial(v, c)
           sum(w) == Plus(At(p, w), Times(One, At(q, w)))
           D == {w \in DOMAIN p \cup DOMAIN q : sum(w) # Zero}
<1>1. Merge(p, q, One) = [w \in D |-> sum(w)] BY MergeIs
<1>2. DOMAIN q = {v} /\ At(q, v) = c /\ \A w : w # v => At(q, w) = Zero
  BY DEF Monomial, At
<1>3. At(p, v) = Zero /\ \A w \in DOMAIN p : At(p, w) = p[w] /\ p[w] \in Rat /\ p[w] # Zero
  BY PolyIs DEF At
<1> HIDE DEF q
<1>4. sum(v) = c BY <1>2, <1>3, RatUnits
<1>5. ASSUME NEW w \in DOMAIN p
      PROVE  sum(w) = p[w] /\ p[w] # Zero /\ w # v
  <2>1. w # v OBVIOUS
  <2>2. At(q, w) = Zero /\ At(p, w) = p[w] /\ p[w] \in Rat /\ p[w] # Zero
    BY <1>2, <1>3, <2>1
  <2>3. Times(One, Zero) = Zero BY RatUnits, UnitsAreRat
  <2>4. QED BY <2>1, <2>2, <2>3, RatUnits
<1> HIDE DEF sum
<1>6. D = DOMAIN p \cup {v} BY <1>2, <1>4, <1>5
<1> HIDE DEF D
<1> DEFINE m == Merge(p, q, One)
<1>7. DOMAIN m = DOMAIN p \cup {v} /\ m[v] = c /\ \A w \in DOMAIN p : m[w] = p[w]
  BY <1>1, <1>4, <1>5, <1>6
<1>8. QED BY <1>7 DEF q

\* The polynomial of a sum has the monomials of its arguments.
LEMMA SumPolyIs ==
  ASSUME NEW T, WellBuilt(T), NEW t \in RealOf(T), get_kind(T, t) = "poly"
  PROVE  LET a == get_args(T, t)
             p == term_to_poly(T, t)
         IN /\ a \in Seq(Monomials(T)) /\ Len(a) >= 2
            /\ \A j, k \in 1..Len(a) : j < k => VarOf(T, a[j]) < VarOf(T, a[k])
            /\ p \in PolysOf(T)
            /\ \A v : v \in DOMAIN p <=> \E j \in 1..Len(a) : v = VarOf(T, a[j])
            /\ \A j \in 1..Len(a) : p[VarOf(T, a[j])] = CoeffOf(T, a[j])
<1> DEFINE a == get_args(T, t)
           n == Len(a)
           ps == [k \in DOMAIN a |-> MonomialPoly(T, a[k])]
           S == PolysOf(T)
           v(j) == VarOf(T, a[j])
           c(j) == CoeffOf(T, a[j])
<1>1. /\ a \in Seq(Monomials(T)) /\ n \in Nat /\ n >= 2 /\ DOMAIN a = 1..n
      /\ \A k \in 1..n : a[k] \in Monomials(T)
      /\ \A j, k \in 1..n : j < k => v(j) < v(k)
  <2> DEFINE e == T[index_of(t)]
  <2>1. PolyShape(T, e) /\ e \in Entry BY RealIs, TableFacts
  <2>2. a = e.args BY DEF get_args
  <2>3. a \in Seq(Nat) BY <2>1, <2>2 DEF Entry
  <2> HIDE DEF a, e
  <2>4. n \in Nat /\ DOMAIN a = 1..n /\ a = [k \in 1..n |-> a[k]]
    BY <2>3
  <2>5. n >= 2 /\ (\A k \in 1..n : a[k] \in Monomials(T)) /\ \A j, k \in 1..n : j < k => v(j) < v(k)
    BY <2>1, <2>2, <2>4 DEF PolyShape
  <2>6. a \in Seq(Monomials(T))
    <3>1. a \in [1..n -> Monomials(T)] BY <2>4, <2>5
    <3> HIDE DEF n
    <3>2. QED BY <2>4, <3>1, FunctionIsSeq
  <2>7. QED BY <2>4, <2>5, <2>6
<1>2. term_to_poly(T, t) = MergeAll(ps) BY DEF term_to_poly
<1> HIDE DEF a, n
<1>3. \A k \in 1..n : /\ MonomialPoly(T, a[k]) = Monomial(v(k), c(k))
                      /\ v(k) \in Variables(T) /\ c(k) \in Rat /\ c(k) # Zero
                      /\ v(k) \in Int
  <2>1. TAKE k \in 1..n
  <2>2. a[k] \in Monomials(T) BY <1>1
  <2>3. \A w \in Variables(T) : w \in Int
    <3>1. Undef \in Int /\ \A w \in VarLike(T) : w \in Nat
      BY DEF Undef, VarLike, RealOf, TermOf
    <3>2. QED BY <3>1 DEF Variables
  <2>4. QED BY <2>2, <2>3, MonomialIs
<1>4. ps \in Seq(S) /\ Len(ps) = n /\ \A k \in 1..n : ps[k] = Monomial(v(k), c(k))
  <2>1. \A k \in 1..n : MonomialPoly(T, a[k]) \in S
    <3>1. TAKE k \in 1..n
    <3> DEFINE w == v(k)
               d == c(k)
    <3>2. MonomialPoly(T, a[k]) = Monomial(w, d) /\ w \in Variables(T) /\ d \in Rat /\ d # Zero
      BY <1>3
    <3> HIDE DEF w, d
    <3>3. Monomial(w, d) \in PolysOf(T) BY <3>2, MonomialIsPoly
    <3>4. QED BY <3>2, <3>3
  <2>2. ps \in [1..n -> S] /\ \A k \in 1..n : ps[k] = MonomialPoly(T, a[k])
    BY <1>1, <2>1
  <2> HIDE DEF ps
  <2>3. ps \in Seq(S) /\ Len(ps) = n BY <1>1, <2>2, FunctionIsSeq
  <2>4. QED BY <1>3, <2>2, <2>3
<1> HIDE DEF ps
<1>5. NoTerms \in S /\ \A p, q \in S : Merge(p, q, One) \in S
  BY NoTermsIsPoly, MergeIsPoly, UnitsAreRat
<1>6. PICK f : /\ f[0] = NoTerms
               /\ \A k \in 0..n : f[k] \in S
               /\ \A k \in 1..n : f[k] = Merge(f[k - 1], ps[k], One)
               /\ MergeAll(ps) = f[n]
  <2> HIDE DEF S
  <2>1. QED BY <1>4, <1>5, MergeAllSteps
<1> DEFINE Built(k) == /\ DOMAIN f[k] = {v(j) : j \in 1..k}
                       /\ \A j \in 1..k : f[k][v(j)] = c(j)
           Q == {k \in 0..n : Built(k)}
<1>7. 0 \in Q
  <2>1. DOMAIN f[0] = {} BY <1>6, NoTermsIsPoly
  <2>2. 1..0 = {} /\ 0 \in 0..n BY <1>1
  <2>3. QED BY <2>1, <2>2
<1>8. ASSUME NEW k \in 1..n, k - 1 \in Q
      PROVE  k \in Q
  <2>1. k \in Nat /\ k - 1 \in 0..n /\ k \in 0..n /\ 1..k = (1..(k - 1)) \cup {k}
    BY <1>1
  <2>2. /\ f[k - 1] \in S /\ DOMAIN f[k - 1] = {v(j) : j \in 1..(k - 1)}
        /\ \A j \in 1..(k - 1) : f[k - 1][v(j)] = c(j)
    BY <1>6, <1>8, <2>1
  <2>3. \A j \in 1..(k - 1) : v(j) < v(k) /\ v(j) \in Int /\ v(k) \in Int
    <3>1. \A j \in 1..(k - 1) : j \in 1..n /\ j < k BY <1>1
    <3>2. QED BY <1>1, <1>3, <3>1
  <2>4. \A j \in 1..(k - 1) : v(j) # v(k)
    <3>1. TAKE j \in 1..(k - 1)
    <3> DEFINE x == v(j)
               y == v(k)
    <3>2. x < y /\ x \in Int /\ y \in Int BY <2>3
    <3> HIDE DEF x, y
    <3>3. x # y BY <3>2
    <3>4. QED BY <3>3 DEF x, y
  <2>5. v(k) \notin DOMAIN f[k - 1] /\ c(k) \in Rat /\ c(k) # Zero
    BY <1>3, <2>2, <2>4
  <2>6. /\ DOMAIN f[k] = DOMAIN f[k - 1] \cup {v(k)}
        /\ f[k][v(k)] = c(k) /\ \A w \in DOMAIN f[k - 1] : f[k][w] = f[k - 1][w]
    <3> DEFINE x == v(k)
               d == c(k)
               g == f[k - 1]
               m == Merge(g, Monomial(x, d), One)
    <3>1. f[k] = m BY <1>4, <1>6
    <3>2. g \in PolysOf(T) /\ x \notin DOMAIN g /\ d \in Rat /\ d # Zero
      BY <2>2, <2>5
    <3> HIDE DEF x, d, g
    <3>3. DOMAIN m = DOMAIN g \cup {x} /\ m[x] = d /\ \A w \in DOMAIN g : m[w] = g[w]
      BY <3>2, MergeNew
    <3> HIDE DEF m
    <3>4. QED BY <3>1, <3>3 DEF x, d, g
  <2> HIDE DEF v, c
  <2>7. DOMAIN f[k] = {v(j) : j \in 1..k} BY <2>1, <2>2, <2>6
  <2>8. \A j \in 1..k : f[k][v(j)] = c(j) BY <2>1, <2>2, <2>4, <2>6
  <2>9. QED BY <2>1, <2>7, <2>8
<1>9. n \in Q
  <2> HIDE DEF Q
  <2>1. QED BY <1>1, <1>7, <1>8, UpTo
<1>10. \A w : w \in DOMAIN f[n] <=> \E j \in 1..n : w = v(j) BY <1>9
<1>11. QED BY <1>1, <1>2, <1>6, <1>9, <1>10 DEF a, n

LEMMA TermPolyIs ==
  ASSUME NEW T, WellBuilt(T), NEW t \in RealOf(T)
  PROVE  term_to_poly(T, t) \in PolysOf(T)
<1>1. CASE get_kind(T, t) = "poly" BY <1>1, SumPolyIs
<1>2. CASE get_kind(T, t) # "poly"
  BY <1>2, MonomialPolyIsPoly DEF term_to_poly
<1>3. QED BY <1>1, <1>2

-----------------------------------------------------------------------------
(* Constants, products and monomials.                                      *)

\* r is a number, of a table that T grew into.
Number(T, r) == Grown(T, r.tab) /\ r.term \in RealOf(r.tab)

LEMMA GrownTables ==
  ASSUME NEW T, WellBuilt(T), NEW F, Grown(T, F)
  PROVE  T \in Seq(Entry) /\ F \in Seq(Entry) /\ Extends(T, F) /\ WellBuilt(F)
BY DEF Grown, WellBuilt

LEMMA ConstantIs ==
  ASSUME NEW T, WellBuilt(T), NEW q \in Rat
  PROVE  LET r == arithmetic_constant(T, q)
         IN /\ Number(T, r)
            /\ get_kind(r.tab, r.term) = "constant"
            /\ arithmetic_constant_value(r.tab, r.term) = q
<1> DEFINE e == [kind |-> "constant", type |-> "real", args |-> << >>, value |-> q]
           r == Intern(T, e)
<1>1. e \in Entry /\ e.kind = "constant" /\ e.type = "real" /\ e.args = << >> /\ e.value = q
      /\ DOMAIN e.args = {}
  BY DEF Entry, Kinds
<1> HIDE DEF e
<1>2. Shape(T, e) BY <1>1 DEF Shape
<1>3. /\ Grown(T, r.tab)
      /\ r.term \in TermOf(r.tab) /\ ~is_negated(r.term)
      /\ r.tab[index_of(r.term)] = e
  BY <1>1, <1>2, InternGrows
<1> HIDE DEF r
<1>4. /\ r.term \in RealOf(r.tab) /\ get_kind(r.tab, r.term) = "constant"
      /\ arithmetic_constant_value(r.tab, r.term) = q
  BY <1>1, <1>3 DEF RealOf, get_type, get_kind, arithmetic_constant_value
<1>5. arithmetic_constant(T, q) = r BY DEF arithmetic_constant, r, e
<1>6. QED BY <1>3, <1>4, <1>5 DEF Number

LEMMA ProductIs ==
  ASSUME NEW T, WellBuilt(T), NEW c \in Rat, c # Zero, NEW v \in VarLike(T)
  PROVE  LET r == arithmetic_product(T, c, v)
         IN /\ Number(T, r)
            /\ get_kind(r.tab, r.term) = "product"
            /\ var_of_product(r.tab, r.term) = v
            /\ coeff_of_product(r.tab, r.term) = c
<1> DEFINE k == arithmetic_constant(T, c)
           e == Composite("product", "real", <<k.term, v>>)
           r == Intern(k.tab, e)
<1>1. /\ Number(T, k) /\ get_kind(k.tab, k.term) = "constant"
      /\ arithmetic_constant_value(k.tab, k.term) = c
  BY ConstantIs
<1>2. /\ Grown(T, k.tab) /\ WellBuilt(k.tab) /\ k.term \in RealOf(k.tab)
      /\ k.term \in Nat /\ k.term \in TermOf(k.tab)
  <2>1. Grown(T, k.tab) /\ k.term \in RealOf(k.tab) BY <1>1 DEF Number
  <2>2. WellBuilt(k.tab) BY <2>1 DEF Grown
  <2> HIDE DEF k
  <2>3. QED BY <2>1, <2>2, RealIs
<1>3. v \in VarLike(k.tab) /\ v \in RealOf(k.tab) /\ v \in Nat /\ v \in TermOf(k.tab)
  <2> HIDE DEF k
  <2>1. v \in VarLike(k.tab) BY <1>2, GrownTables, SetsGrow
  <2>2. v \in RealOf(k.tab) BY <2>1 DEF VarLike
  <2>3. QED BY <1>2, <2>1, <2>2, RealIs
<1> HIDE DEF k
<1>4. /\ e.kind = "product" /\ e.type = "real" /\ e.args = <<k.term, v>> /\ e.value = Zero
      /\ e \in Entry
  BY <1>2, <1>3, UnitsAreRat DEF Composite, Entry, Kinds
<1>5. /\ e.args[1] = k.term /\ e.args[2] = v /\ Len(e.args) = 2 /\ DOMAIN e.args = 1..2
  BY <1>4
<1> HIDE DEF e
<1>6. ProductShape(k.tab, e)
  BY <1>1, <1>2, <1>3, <1>4, <1>5 DEF ProductShape
<1>7. Shape(k.tab, e)
  <2>1. \A i \in DOMAIN e.args : e.args[i] \in TermOf(k.tab)
    BY <1>2, <1>3, <1>5
  <2>2. QED BY <1>4, <1>6, <2>1 DEF Shape
<1>8. /\ Grown(k.tab, r.tab)
      /\ r.term \in TermOf(r.tab) /\ ~is_negated(r.term)
      /\ r.tab[index_of(r.term)] = e
  BY <1>2, <1>4, <1>7, InternGrows
<1>9. arithmetic_product(T, c, v) = r BY DEF arithmetic_product, r, e, k
<1> HIDE DEF r
<1>10. Grown(T, r.tab) BY <1>2, <1>8, GrownTransitive
<1>11. /\ r.term \in RealOf(r.tab) /\ get_kind(r.tab, r.term) = "product"
       /\ get_args(r.tab, r.term) = e.args
  BY <1>4, <1>8 DEF RealOf, get_type, get_kind, get_args
<1>12. arithmetic_constant_value(r.tab, k.term) = c
  BY <1>1, <1>2, <1>8, GrownTables, TermsStay
<1>13. var_of_product(r.tab, r.term) = v /\ coeff_of_product(r.tab, r.term) = c
  BY <1>5, <1>11, <1>12 DEF var_of_product, coeff_of_product
<1>14. QED BY <1>9, <1>10, <1>11, <1>13 DEF Number

\* Coefficients stay what they are.
LEMMA CoeffStays ==
  ASSUME NEW T, WellBuilt(T), NEW F, Grown(T, F), NEW t \in Monomials(T)
  PROVE  t \in Monomials(F) /\ VarOf(F, t) = VarOf(T, t) /\ CoeffOf(F, t) = CoeffOf(T, t)
<1>1. T \in Seq(Entry) /\ F \in Seq(Entry) /\ Extends(T, F)
  BY GrownTables
<1>2. t \in Monomials(F) BY <1>1, SetsGrow
<1>3. t \in RealOf(T) /\ t \in TermOf(T) BY DEF Monomials, RealOf
<1>4. /\ get_kind(F, t) = get_kind(T, t) /\ get_args(F, t) = get_args(T, t)
      /\ arithmetic_constant_value(F, t) = arithmetic_constant_value(T, t)
      /\ VarOf(F, t) = VarOf(T, t)
  BY <1>1, <1>3, TermsStay
<1>5. ASSUME get_kind(T, t) = "product"
      PROVE  coeff_of_product(F, t) = coeff_of_product(T, t)
  <2> DEFINE e == T[index_of(t)]
  <2>1. Shape(T, e) /\ e.kind = "product" /\ get_args(T, t) = e.args
    BY <1>3, <1>5, TableFacts DEF get_kind, get_args
  <2>2. e.args[1] \in RealOf(T) BY <2>1 DEF Shape, ProductShape
  <2> HIDE DEF e
  <2>3. e.args[1] \in TermOf(T) BY <2>2 DEF RealOf
  <2>4. arithmetic_constant_value(F, e.args[1]) = arithmetic_constant_value(T, e.args[1])
    BY <1>1, <2>3, TermsStay
  <2>5. QED BY <1>4, <2>1, <2>4 DEF coeff_of_product
<1>6. QED BY <1>2, <1>4, <1>5 DEF CoeffOf

\* The term of one monomial of a polynomial over the variables of T.
LEMMA MonomialTermIs ==
  ASSUME NEW T, WellBuilt(T), NEW p \in PolysOf(T), NEW v \in DOMAIN p, NEW G, Grown(T, G)
  PROVE  LET m == MonomialTerm(G, p, v)
         IN /\ Grown(G, m.tab)
            /\ m.term \in Monomials(m.tab)
            /\ VarOf(m.tab, m.term) = v
            /\ CoeffOf(m.tab, m.term) = p[v]
<1> DEFINE c == p[v]
<1>1. v \in Variables(T) /\ c \in Rat /\ c # Zero BY PolyIs
<1>2. T \in Seq(Entry) /\ G \in Seq(Entry) /\ Extends(T, G) /\ WellBuilt(G)
  BY GrownTables
<1>3. CASE v = Undef
  <2> DEFINE m == arithmetic_constant(G, c)
  <2>1. MonomialTerm(G, p, v) = m BY <1>3 DEF MonomialTerm
  <2> HIDE DEF c
  <2>2. /\ Number(G, m) /\ get_kind(m.tab, m.term) = "constant"
        /\ arithmetic_constant_value(m.tab, m.term) = c
    BY <1>1, <1>2, ConstantIs
  <2> HIDE DEF m
  <2>3. QED BY <1>1, <1>3, <2>1, <2>2 DEF Number, Monomials, VarOf, CoeffOf, c
<1>4. CASE v # Undef /\ c = One
  <2>1. MonomialTerm(G, p, v) = [tab |-> G, term |-> v]
    BY <1>4 DEF MonomialTerm, Kept
  <2>2. v \in VarLike(T) BY <1>1, <1>4 DEF Variables
  <2>3. v \in VarLike(G) BY <1>2, <2>2, SetsGrow
  <2>4. v \in RealOf(G) /\ get_kind(G, v) \in {"uninterpreted", "ite"}
    BY <2>3 DEF VarLike, is_var_like
  <2>5. v \in Monomials(G) /\ VarOf(G, v) = v /\ CoeffOf(G, v) = One
    BY <2>4 DEF Monomials, VarOf, CoeffOf
  <2>6. Grown(G, G) BY <1>2, GrownReflexive
  <2>7. QED BY <1>4, <2>1, <2>5, <2>6
<1>5. CASE v # Undef /\ c # One
  <2> DEFINE m == arithmetic_product(G, c, v)
  <2>1. MonomialTerm(G, p, v) = m BY <1>5 DEF MonomialTerm
  <2>2. v \in VarLike(T) BY <1>1, <1>5 DEF Variables
  <2>3. v \in VarLike(G) BY <1>2, <2>2, SetsGrow
  <2> HIDE DEF c
  <2>4. /\ Number(G, m) /\ get_kind(m.tab, m.term) = "product"
        /\ var_of_product(m.tab, m.term) = v /\ coeff_of_product(m.tab, m.term) = c
    BY <1>1, <1>2, <2>3, ProductIs
  <2> HIDE DEF m
  <2>5. QED BY <2>1, <2>4 DEF Number, Monomials, VarOf, CoeffOf, c
<1>6. QED BY <1>3, <1>4, <1>5

-----------------------------------------------------------------------------
(* The terms of polynomials.                                               *)

\* One step of MonomialTerms.
AddMonomial(r, p, v) ==
  LET m == MonomialTerm(r.tab, p, v)
  IN [tab |-> m.tab, terms |-> Append(r.terms, m.term)]

\* The tables and terms MonomialTerms goes through.
LEMMA MonomialTermsSteps ==
  ASSUME NEW T, NEW p, NEW V, Ascending(DOMAIN p) \in Seq(V),
         NEW S, [tab |-> T, terms |-> << >>] \in S, \A r \in S, v \in V : AddMonomial(r, p, v) \in S
  PROVE  LET vs == Ascending(DOMAIN p)
         IN \E f : /\ f[0] = [tab |-> T, terms |-> << >>]
                   /\ \A k \in 0..Len(vs) : f[k] \in S
                   /\ \A k \in 1..Len(vs) : f[k] = AddMonomial(f[k - 1], p, vs[k])
                   /\ MonomialTerms(T, p) = f[Len(vs)]
<1> DEFINE vs == SortedList(DOMAIN p, <)
           base == [tab |-> T, terms |-> << >>]
           n == Len(vs)
           step == [i \in 1..n |-> [r \in S |-> AddMonomial(r, p, vs[i])]]
           IsFolded(g) ==
             g = [s \in SUBSET (1..n) |->
                    IF s = {} THEN base ELSE AddMonomial(g[s \ {Max(s)}], p, vs[Max(s)])]
<1>0. vs \in Seq(V) /\ base \in S BY DEF Ascending
<1>1. n \in Nat /\ DOMAIN vs = 1..n /\ \A i \in 1..n : vs[i] \in V
  <2> HIDE DEF vs
  <2>1. QED BY <1>0
<1>2. step \in [1..n -> [S -> S]]
  <2> HIDE DEF vs, n
  <2>1. QED BY <1>1
<1>3a. PICK g : IsRun(g, n, S, base, step)
  <2> HIDE DEF step, n, base
  <2>1. QED BY <1>0, <1>1, <1>2, StepsExist
<1> HIDE DEF n, vs, base
<1>3. /\ g \in [SUBSET (1..n) -> S]
      /\ \A s \in SUBSET (1..n) :
           g[s] = IF s = {} THEN base ELSE step[Max(s)][g[s \ {Max(s)}]]
  BY <1>3a, Zenon DEF IsRun
<1>4. \A s \in SUBSET (1..n) :
        g[s] = IF s = {} THEN base ELSE AddMonomial(g[s \ {Max(s)}], p, vs[Max(s)])
  <2>1. TAKE s \in SUBSET (1..n)
  <2>2. CASE s = {} BY <1>3, <2>2
  <2>3. CASE s # {}
    <3>1. Max(s) \in 1..n /\ s \ {Max(s)} \in SUBSET (1..n)
      BY <1>1, <2>3, MaxIs
    <3>2. g[s \ {Max(s)}] \in S BY <1>3, <3>1
    <3>3. step[Max(s)][g[s \ {Max(s)}]] = AddMonomial(g[s \ {Max(s)}], p, vs[Max(s)])
      BY <3>1, <3>2
    <3> HIDE DEF step
    <3>4. QED BY <1>3, <2>3, <3>3
  <2>4. QED BY <2>2, <2>3
<1>5. IsFolded(g)
  <2>1. g = [s \in SUBSET (1..n) |-> g[s]] BY <1>3
  <2>2. [s \in SUBSET (1..n) |-> g[s]]
          = [s \in SUBSET (1..n) |->
               IF s = {} THEN base ELSE AddMonomial(g[s \ {Max(s)}], p, vs[Max(s)])]
    BY <1>4, Zenon
  <2>3. QED BY <2>1, <2>2, Zenon
<1> DEFINE h == CHOOSE h : IsFolded(h)
<1>6. IsFolded(h) BY <1>5
<1>7. MonomialTerms(T, p) = h[1..n]
  BY <1>1 DEF MonomialTerms, FoldLeft, MapThenFoldSet, AddMonomial, vs, base
<1> HIDE DEF h
<1>8. \A s \in SUBSET (1..n) :
        h[s] = IF s = {} THEN base ELSE AddMonomial(h[s \ {Max(s)}], p, vs[Max(s)])
  BY <1>6, Zenon
<1> DEFINE f == [k \in 0..n |-> h[1..k]]
<1>9. f[0] = base
  <2>1. 1..0 = {} /\ 0 \in 0..n BY <1>1
  <2>2. h[{}] = base BY <1>8
  <2>3. QED BY <2>1, <2>2
<1>10. ASSUME NEW k \in 1..n
       PROVE  f[k] = AddMonomial(f[k - 1], p, vs[k])
  <2>0. k \in 0..n /\ k - 1 \in 0..n /\ k \in Nat /\ k # 0 BY <1>1
  <2>1. 1..k # {} /\ 1..k \in SUBSET (1..n)
    <3>1. k \in 1..k BY <2>0
    <3>2. \A j \in 1..k : j \in 1..n BY <1>1, <2>0
    <3>3. QED BY <3>1, <3>2
  <2>2. Max(1..k) = k /\ (1..k) \ {k} = 1..(k - 1) BY <2>0, MaxOfPrefix
  <2>3. h[1..k] = AddMonomial(h[1..(k - 1)], p, vs[k])
    BY <1>8, <2>1, <2>2
  <2>4. f[k] = h[1..k] /\ f[k - 1] = h[1..(k - 1)] BY <2>0
  <2>5. QED BY <2>3, <2>4
<1>11. f[n] = h[1..n] BY <1>1
<1> HIDE DEF f
<1>12. \A k \in 0..n : f[k] \in S
  <2>1. \A k \in 1..n : f[k - 1] \in S => f[k] \in S
    <3>1. TAKE k \in 1..n
    <3>2. HAVE f[k - 1] \in S
    <3>3. vs[k] \in V BY <1>1
    <3>4. QED BY <1>10, <3>2, <3>3
  <2>2. QED BY <1>0, <1>1, <1>9, <2>1, StaysIn
<1>13. QED BY <1>7, <1>9, <1>10, <1>11, <1>12 DEF n, vs, base, Ascending

\* The sums a total goes through.
LEMMA TotalSteps ==
  ASSUME NEW ps \in Seq(Rat)
  PROVE  \E f : /\ f[0] = Zero
                /\ \A k \in 0..Len(ps) : f[k] \in Rat
                /\ \A k \in 1..Len(ps) : f[k] = Plus(f[k - 1], ps[k])
                /\ Total(ps) = f[Len(ps)]
<1> DEFINE n == Len(ps)
           step == [i \in 1..n |-> [p \in Rat |-> Plus(p, ps[i])]]
           IsFolded(g) ==
             g = [s \in SUBSET (1..n) |->
                    IF s = {} THEN Zero ELSE Plus(g[s \ {Max(s)}], ps[Max(s)])]
<1>1. n \in Nat /\ DOMAIN ps = 1..n /\ \A i \in 1..n : ps[i] \in Rat
  OBVIOUS
<1>2. step \in [1..n -> [Rat -> Rat]] BY <1>1, PlusIsRat
<1>3a. PICK g : IsRun(g, n, Rat, Zero, step)
  <2> HIDE DEF step, n
  <2>1. QED BY <1>1, <1>2, UnitsAreRat, StepsExist
<1> HIDE DEF n
<1>3. /\ g \in [SUBSET (1..n) -> Rat]
      /\ \A s \in SUBSET (1..n) :
           g[s] = IF s = {} THEN Zero ELSE step[Max(s)][g[s \ {Max(s)}]]
  BY <1>3a, Zenon DEF IsRun
<1>4. \A s \in SUBSET (1..n) :
        g[s] = IF s = {} THEN Zero ELSE Plus(g[s \ {Max(s)}], ps[Max(s)])
  <2>1. TAKE s \in SUBSET (1..n)
  <2>2. CASE s = {} BY <1>3, <2>2
  <2>3. CASE s # {}
    <3>1. Max(s) \in 1..n /\ s \ {Max(s)} \in SUBSET (1..n)
      BY <1>1, <2>3, MaxIs
    <3>2. g[s \ {Max(s)}] \in Rat BY <1>3, <3>1
    <3>3. step[Max(s)][g[s \ {Max(s)}]] = Plus(g[s \ {Max(s)}], ps[Max(s)])
      BY <3>1, <3>2
    <3> HIDE DEF step
    <3>4. QED BY <1>3, <2>3, <3>3
  <2>4. QED BY <2>2, <2>3
<1>5. IsFolded(g)
  <2>1. g = [s \in SUBSET (1..n) |-> g[s]] BY <1>3
  <2>2. [s \in SUBSET (1..n) |-> g[s]]
          = [s \in SUBSET (1..n) |->
               IF s = {} THEN Zero ELSE Plus(g[s \ {Max(s)}], ps[Max(s)])]
    BY <1>4, Zenon
  <2>3. QED BY <2>1, <2>2, Zenon
<1> DEFINE h == CHOOSE h : IsFolded(h)
<1>6. IsFolded(h) BY <1>5
<1>7. Total(ps) = h[1..n] BY <1>1 DEF Total, FoldLeft, MapThenFoldSet
<1> HIDE DEF h
<1>8. \A s \in SUBSET (1..n) :
        h[s] = IF s = {} THEN Zero ELSE Plus(h[s \ {Max(s)}], ps[Max(s)])
  BY <1>6, Zenon
<1> DEFINE f == [k \in 0..n |-> h[1..k]]
<1>9. f[0] = Zero
  <2>1. 1..0 = {} /\ 0 \in 0..n BY <1>1
  <2>2. h[{}] = Zero BY <1>8
  <2>3. QED BY <2>1, <2>2
<1>10. ASSUME NEW k \in 1..n
       PROVE  f[k] = Plus(f[k - 1], ps[k])
  <2>0. k \in 0..n /\ k - 1 \in 0..n /\ k \in Nat /\ k # 0 BY <1>1
  <2>1. 1..k # {} /\ 1..k \in SUBSET (1..n)
    <3>1. k \in 1..k BY <2>0
    <3>2. \A j \in 1..k : j \in 1..n BY <1>1, <2>0
    <3>3. QED BY <3>1, <3>2
  <2>2. Max(1..k) = k /\ (1..k) \ {k} = 1..(k - 1) BY <2>0, MaxOfPrefix
  <2>3. h[1..k] = Plus(h[1..(k - 1)], ps[k]) BY <1>8, <2>1, <2>2
  <2>4. f[k] = h[1..k] /\ f[k - 1] = h[1..(k - 1)] BY <2>0
  <2>5. QED BY <2>3, <2>4
<1>11. f[n] = h[1..n] BY <1>1
<1> HIDE DEF f
<1>12. \A k \in 0..n : f[k] \in Rat
  <2>1. \A k \in 1..n : f[k - 1] \in Rat => f[k] \in Rat
    <3>1. TAKE k \in 1..n
    <3>2. HAVE f[k - 1] \in Rat
    <3>3. ps[k] \in Rat BY <1>1
    <3>4. QED BY <1>10, <3>2, <3>3, PlusIsRat
  <2>2. QED BY <1>1, <1>9, <2>1, UnitsAreRat, StaysIn
<1>13. QED BY <1>7, <1>9, <1>10, <1>11, <1>12 DEF n

\* s holds the terms of the first k monomials of p.
BuiltUpTo(T, p, s, k) ==
  /\ Grown(T, s.tab)
  /\ s.terms \in Seq(Monomials(s.tab))
  /\ Len(s.terms) = k
  /\ \A j \in 1..k : /\ VarOf(s.tab, s.terms[j]) = Ascending(DOMAIN p)[j]
                     /\ CoeffOf(s.tab, s.terms[j]) = p[Ascending(DOMAIN p)[j]]

LEMMA VariablesAre ==
  ASSUME NEW T, WellBuilt(T), NEW p \in PolysOf(T)
  PROVE  LET vs == Ascending(DOMAIN p)
         IN /\ vs \in Seq(DOMAIN p) /\ Len(vs) = Cardinality(DOMAIN p) /\ Len(vs) \in Nat
            /\ \A k \in 1..Len(vs) : vs[k] \in DOMAIN p
            /\ \A v \in DOMAIN p : \E k \in 1..Len(vs) : vs[k] = v
            /\ \A j, k \in 1..Len(vs) : j < k => vs[j] < vs[k]
            /\ \A v \in DOMAIN p : v \in Int /\ (v # Undef => v \in VarLike(T) /\ v \in Nat)
<1>1. DOMAIN p \subseteq Variables(T) /\ IsFiniteSet(DOMAIN p) BY PolyIs
<1>2. \A v \in Variables(T) : v \in Int /\ (v # Undef => v \in VarLike(T) /\ v \in Nat)
  BY DEF Variables, VarLike, RealOf, TermOf, Undef
<1>3. DOMAIN p \in SUBSET Int BY <1>1, <1>2
<1> DEFINE S == DOMAIN p
           vs == Ascending(S)
<1>4. /\ vs \in Seq(S) /\ Len(vs) = Cardinality(S) /\ Cardinality(S) \in Nat
      /\ \A x \in S : \E k \in 1..Len(vs) : vs[k] = x
      /\ \A i, j \in 1..Len(vs) : i < j => vs[i] < vs[j]
  <2> HIDE DEF S
  <2>1. S \in SUBSET Int /\ IsFiniteSet(S) BY <1>1, <1>3 DEF S
  <2>2. QED BY <2>1, AscendingSorts
<1> HIDE DEF S, vs
<1>5. \A k \in 1..Len(vs) : vs[k] \in S BY <1>4
<1>6. \A v \in S : v \in Int /\ (v # Undef => v \in VarLike(T) /\ v \in Nat)
  BY <1>1, <1>2 DEF S
<1>7. QED BY <1>4, <1>5, <1>6 DEF vs, S

LEMMA PrefixGrows ==
  ASSUME NEW T, WellBuilt(T), NEW p \in PolysOf(T), NEW k \in 1..Cardinality(DOMAIN p),
         NEW s, BuiltUpTo(T, p, s, k - 1)
  PROVE  BuiltUpTo(T, p, AddMonomial(s, p, Ascending(DOMAIN p)[k]), k)
<1> DEFINE vs == Ascending(DOMAIN p)
           v == vs[k]
           m == MonomialTerm(s.tab, p, v)
           r == AddMonomial(s, p, v)
           a == s.terms
           G == s.tab
<1>1. /\ Grown(T, G) /\ a \in Seq(Monomials(G)) /\ Len(a) = k - 1
      /\ \A j \in 1..(k - 1) : VarOf(G, a[j]) = vs[j] /\ CoeffOf(G, a[j]) = p[vs[j]]
  BY DEF BuiltUpTo
<1>2. v \in DOMAIN p BY VariablesAre
<1>3. /\ Grown(G, m.tab) /\ m.term \in Monomials(m.tab)
      /\ VarOf(m.tab, m.term) = v /\ CoeffOf(m.tab, m.term) = p[v]
  <2> HIDE DEF v, G
  <2>1. QED BY <1>1, <1>2, MonomialTermIs DEF G
<1>4. r = [tab |-> m.tab, terms |-> Append(a, m.term)]
  BY DEF AddMonomial
<1> HIDE DEF r, m, a, G, vs
<1>5. WellBuilt(G) /\ Grown(T, m.tab)
  <2>1. WellBuilt(G) BY <1>1, GrownTables
  <2>2. QED BY <1>1, <1>3, <2>1, GrownTransitive
<1>6. \A j \in 1..(k - 1) :
        /\ a[j] \in Monomials(m.tab)
        /\ VarOf(m.tab, a[j]) = vs[j] /\ CoeffOf(m.tab, a[j]) = p[vs[j]]
  <2>1. TAKE j \in 1..(k - 1)
  <2> DEFINE t == a[j]
  <2>2. t \in Monomials(G) /\ VarOf(G, t) = vs[j] /\ CoeffOf(G, t) = p[vs[j]]
    BY <1>1
  <2> HIDE DEF t
  <2>3. t \in Monomials(m.tab) /\ VarOf(m.tab, t) = VarOf(G, t) /\ CoeffOf(m.tab, t) = CoeffOf(G, t)
    BY <1>3, <1>5, <2>2, CoeffStays
  <2>4. QED BY <2>2, <2>3 DEF t
<1> DEFINE b == Append(a, m.term)
<1>7. /\ Len(b) = k /\ b[k] = m.term /\ \A j \in 1..(k - 1) : b[j] = a[j]
      /\ b = [j \in 1..k |-> b[j]]
  <2>1. k \in Nat /\ k - 1 \in Nat /\ (k - 1) + 1 = k
    <3>1. Cardinality(DOMAIN p) \in Nat BY VariablesAre
    <3>2. QED BY <3>1
  <2>2. QED BY <1>1, <2>1
<1> HIDE DEF b
<1>8. \A j \in 1..k : j \in 1..(k - 1) \/ j = k
  <2>1. Cardinality(DOMAIN p) \in Nat BY VariablesAre
  <2>2. QED BY <2>1
<1>9. \A j \in 1..k : /\ b[j] \in Monomials(m.tab)
                      /\ VarOf(m.tab, b[j]) = vs[j] /\ CoeffOf(m.tab, b[j]) = p[vs[j]]
  BY <1>3, <1>6, <1>7, <1>8
<1>10. b \in Seq(Monomials(m.tab))
  <2>1. k \in Nat
    <3>1. Cardinality(DOMAIN p) \in Nat BY VariablesAre
    <3>2. QED BY <3>1
  <2>2. b \in [1..k -> Monomials(m.tab)] BY <1>7, <1>9
  <2>3. QED BY <2>1, <2>2, FunctionIsSeq
<1>11. r.tab = m.tab /\ r.terms = b BY <1>4 DEF b
<1>12. BuiltUpTo(T, p, r, k)
  BY <1>5, <1>7, <1>9, <1>10, <1>11 DEF BuiltUpTo, vs
<1>13. QED BY <1>12 DEF r, vs

\* The monomials of a polynomial get terms, in the order of their variables.
LEMMA MonomialTermsAre ==
  ASSUME NEW T, WellBuilt(T), NEW p \in PolysOf(T)
  PROVE  BuiltUpTo(T, p, MonomialTerms(T, p), Cardinality(DOMAIN p))
<1> DEFINE vs == Ascending(DOMAIN p)
           n == Cardinality(DOMAIN p)
           S == {r \in [tab : Seq(Entry), terms : Seq(Nat)] : Grown(T, r.tab)}
           base == [tab |-> T, terms |-> << >>]
<1>1. /\ vs \in Seq(DOMAIN p) /\ Len(vs) = n /\ n \in Nat
      /\ \A k \in 1..n : vs[k] \in DOMAIN p
  BY VariablesAre
<1>2. base \in S /\ Grown(T, T)
  <2>1. Grown(T, T) /\ T \in Seq(Entry) BY GrownReflexive, TableFacts
  <2>2. QED BY <2>1
<1>3. ASSUME NEW r \in S, NEW v \in DOMAIN p
      PROVE  AddMonomial(r, p, v) \in S
  <2> DEFINE m == MonomialTerm(r.tab, p, v)
  <2>1. Grown(T, r.tab) /\ r.terms \in Seq(Nat) OBVIOUS
  <2>2. Grown(r.tab, m.tab) /\ m.term \in Monomials(m.tab)
    BY <2>1, MonomialTermIs
  <2>3. m.term \in Nat BY <2>2 DEF Monomials, RealOf, TermOf
  <2>4. AddMonomial(r, p, v) = [tab |-> m.tab, terms |-> Append(r.terms, m.term)]
    BY DEF AddMonomial
  <2> HIDE DEF m
  <2>5. Grown(T, m.tab) /\ m.tab \in Seq(Entry)
    <3>1. WellBuilt(r.tab) BY <2>1, GrownTables
    <3>2. Grown(T, m.tab) BY <2>1, <2>2, <3>1, GrownTransitive
    <3>3. QED BY <3>2, GrownTables
  <2>6. Append(r.terms, m.term) \in Seq(Nat) BY <2>1, <2>3
  <2>7. QED BY <2>4, <2>5, <2>6
<1> HIDE DEF S
<1>4. PICK f : /\ f[0] = base
               /\ \A k \in 0..n : f[k] \in S
               /\ \A k \in 1..n : f[k] = AddMonomial(f[k - 1], p, vs[k])
               /\ MonomialTerms(T, p) = f[n]
  <2>1. base \in S /\ \A r \in S, v \in DOMAIN p : AddMonomial(r, p, v) \in S
    BY <1>2, <1>3
  <2>2. QED BY <1>1, <2>1, MonomialTermsSteps
<1> DEFINE Q == {k \in 0..n : BuiltUpTo(T, p, f[k], k)}
<1>5. 0 \in Q
  <2>1. f[0].tab = T /\ f[0].terms = << >> BY <1>4
  <2>2. << >> \in Seq(Monomials(T)) /\ Len(<< >>) = 0 /\ 1..0 = {}
    OBVIOUS
  <2>3. BuiltUpTo(T, p, f[0], 0) BY <1>2, <2>1, <2>2 DEF BuiltUpTo
  <2>4. 0 \in 0..n BY <1>1
  <2>5. QED BY <2>3, <2>4
<1>6. ASSUME NEW k \in 1..n, k - 1 \in Q
      PROVE  k \in Q
  <2>1. k \in 0..n BY <1>1
  <2>2. BuiltUpTo(T, p, f[k - 1], k - 1) BY <1>6
  <2> DEFINE s == f[k - 1]
  <2>3. f[k] = AddMonomial(s, p, Ascending(DOMAIN p)[k]) BY <1>4
  <2>4. BuiltUpTo(T, p, s, k - 1) BY <2>2
  <2> HIDE DEF s
  <2>5. BuiltUpTo(T, p, AddMonomial(s, p, Ascending(DOMAIN p)[k]), k)
    BY <2>4, PrefixGrows
  <2>6. QED BY <2>1, <2>3, <2>5
<1>7. n \in Q
  <2> HIDE DEF Q, n
  <2>1. n \in 0..n BY <1>1
  <2>2. QED BY <1>1, <1>5, <1>6, <2>1, UpTo
<1>8. QED BY <1>4, <1>7

\* The term of a polynomial.
LEMMA PolyTermIs ==
  ASSUME NEW T, WellBuilt(T), NEW p \in PolysOf(T)
  PROVE  LET r == poly_to_term(T, p)
             n == Cardinality(DOMAIN p)
             vs == Ascending(DOMAIN p)
             a == get_args(r.tab, r.term)
         IN /\ Number(T, r)
            /\ n = 0 => r.term = zero_term
            /\ n = 1 => /\ r.term \in Monomials(r.tab)
                        /\ VarOf(r.tab, r.term) = vs[1]
                        /\ CoeffOf(r.tab, r.term) = p[vs[1]]
            /\ n >= 2 => /\ get_kind(r.tab, r.term) = "poly"
                         /\ a \in Seq(Monomials(r.tab)) /\ Len(a) = n
                         /\ \A k \in 1..n : /\ VarOf(r.tab, a[k]) = vs[k]
                                            /\ CoeffOf(r.tab, a[k]) = p[vs[k]]
<1> DEFINE r == poly_to_term(T, p)
           n == Cardinality(DOMAIN p)
           vs == Ascending(DOMAIN p)
           s == MonomialTerms(T, p)
           G == s.tab
           a == s.terms
<1>1. /\ Grown(T, G) /\ a \in Seq(Monomials(G)) /\ Len(a) = n
      /\ \A k \in 1..n : VarOf(G, a[k]) = vs[k] /\ CoeffOf(G, a[k]) = p[vs[k]]
  BY MonomialTermsAre DEF BuiltUpTo
<1>2. /\ n \in Nat /\ Len(vs) = n
      /\ \A k \in 1..n : vs[k] \in DOMAIN p
      /\ \A j, k \in 1..n : j < k => vs[j] < vs[k]
  BY VariablesAre
<1>3. r = CASE a = << >>    -> Kept(T, zero_term)
            [] Len(a) = 1 -> Kept(G, a[1])
            [] OTHER      -> Intern(G, Composite("poly", "real", a))
  BY DEF poly_to_term
<1>4. WellBuilt(G) BY <1>1, GrownTables
<1> HIDE DEF r, n, vs, G, a
<1>5. CASE n = 0
  <2>1. a = << >> BY <1>1, <1>5
  <2>2. r = [tab |-> T, term |-> zero_term] BY <1>3, <2>1 DEF Kept
  <2>3. Grown(T, T) /\ zero_term \in RealOf(T)
    BY GrownReflexive, PrimitivesAre
  <2>4. Number(T, r) /\ r.term = zero_term BY <2>2, <2>3 DEF Number
  <2>5. QED BY <1>5, <2>4 DEF r, n
<1>6. CASE n = 1
  <2>1. a # << >> /\ Len(a) = 1 /\ a[1] \in Monomials(G) BY <1>1, <1>6
  <2>2. r = [tab |-> G, term |-> a[1]] BY <1>3, <2>1 DEF Kept
  <2>3. r.tab = G /\ r.term = a[1] BY <2>2
  <2>4. Number(T, r) BY <1>1, <2>1, <2>3 DEF Number, Monomials
  <2>5. /\ r.term \in Monomials(r.tab)
        /\ VarOf(r.tab, r.term) = vs[1] /\ CoeffOf(r.tab, r.term) = p[vs[1]]
    BY <1>1, <1>6, <2>1, <2>3
  <2>6. QED BY <1>6, <2>4, <2>5 DEF r, n, vs
<1>7. CASE n >= 2
  <2> DEFINE e == Composite("poly", "real", a)
             i == Intern(G, e)
  <2>1. a # << >> /\ Len(a) # 1 BY <1>1, <1>7
  <2>2. r = i BY <1>3, <2>1
  <2>3. \A k \in 1..n : a[k] \in Monomials(G) /\ a[k] \in Nat /\ a[k] \in TermOf(G)
    BY <1>1 DEF Monomials, RealOf, TermOf
  <2>4. a \in Seq(Nat) /\ DOMAIN a = 1..n
    <3>1. a \in [1..n -> Nat] BY <1>1, <2>3
    <3>2. QED BY <1>1, <1>2, <3>1, FunctionIsSeq
  <2>5. e.kind = "poly" /\ e.type = "real" /\ e.args = a /\ e.value = Zero /\ e \in Entry
    BY <2>4, UnitsAreRat DEF Composite, Entry, Kinds
  <2> HIDE DEF e
  <2>6. PolyShape(G, e)
    <3>1. Len(e.args) >= 2 /\ \A k \in DOMAIN e.args : e.args[k] \in Monomials(G)
      BY <1>1, <1>7, <2>3, <2>4, <2>5
    <3>2. \A j, k \in DOMAIN e.args : j < k => VarOf(G, e.args[j]) < VarOf(G, e.args[k])
      BY <1>1, <1>2, <2>4, <2>5
    <3>3. QED BY <2>5, <3>1, <3>2 DEF PolyShape
  <2>7. Shape(G, e)
    <3>1. \A k \in DOMAIN e.args : e.args[k] \in TermOf(G)
      BY <2>3, <2>4, <2>5
    <3>2. QED BY <2>5, <2>6, <3>1 DEF Shape
  <2>8. /\ Grown(G, i.tab) /\ i.term \in TermOf(i.tab) /\ ~is_negated(i.term)
        /\ i.tab[index_of(i.term)] = e
    BY <1>4, <2>5, <2>7, InternGrows
  <2> HIDE DEF i
  <2>9. Grown(T, i.tab) BY <1>1, <1>4, <2>8, GrownTransitive
  <2>10. /\ i.term \in RealOf(i.tab) /\ get_kind(i.tab, i.term) = "poly"
         /\ get_args(i.tab, i.term) = a
    BY <2>5, <2>8 DEF RealOf, get_type, get_kind, get_args
  <2>11. \A k \in 1..n : /\ a[k] \in Monomials(i.tab)
                         /\ VarOf(i.tab, a[k]) = vs[k] /\ CoeffOf(i.tab, a[k]) = p[vs[k]]
    <3>1. TAKE k \in 1..n
    <3> DEFINE t == a[k]
    <3>2. t \in Monomials(G) /\ VarOf(G, t) = vs[k] /\ CoeffOf(G, t) = p[vs[k]]
      BY <1>1, <2>3
    <3> HIDE DEF t
    <3>3. t \in Monomials(i.tab) /\ VarOf(i.tab, t) = VarOf(G, t) /\ CoeffOf(i.tab, t) = CoeffOf(G, t)
      BY <1>4, <2>8, <3>2, CoeffStays
    <3>4. QED BY <3>2, <3>3 DEF t
  <2>12. a \in Seq(Monomials(i.tab))
    <3>1. a \in [1..n -> Monomials(i.tab)] BY <1>1, <2>11, <2>4
    <3>2. QED BY <1>2, <3>1, FunctionIsSeq
  <2>13. Number(T, r) /\ get_kind(r.tab, r.term) = "poly" /\ get_args(r.tab, r.term) = a
    BY <2>2, <2>9, <2>10 DEF Number
  <2>14. /\ a \in Seq(Monomials(r.tab)) /\ Len(a) = n
         /\ \A k \in 1..n : VarOf(r.tab, a[k]) = vs[k] /\ CoeffOf(r.tab, a[k]) = p[vs[k]]
    BY <1>1, <2>2, <2>11, <2>12
  <2>15. /\ Number(T, r) /\ get_kind(r.tab, r.term) = "poly"
         /\ get_args(r.tab, r.term) \in Seq(Monomials(r.tab)) /\ Len(get_args(r.tab, r.term)) = n
         /\ \A k \in 1..n : /\ VarOf(r.tab, get_args(r.tab, r.term)[k]) = vs[k]
                            /\ CoeffOf(r.tab, get_args(r.tab, r.term)[k]) = p[vs[k]]
    BY <2>13, <2>14
  <2>16. n # 0 /\ n # 1 BY <1>7
  <2>17. QED BY <2>15, <2>16 DEF r, n, vs
<1>8. QED BY <1>2, <1>5, <1>6, <1>7

\* vs lists the elements of a set, each once.
Enumerates(vs, n, set) ==
  /\ \A k \in 1..n : vs[k] \in set
  /\ \A x \in set : \E k \in 1..n : vs[k] = x
  /\ \A j, k \in 1..n : j # k => vs[j] # vs[k]

Lists(s, n, term, vs) == \A k \in 1..n : s[k] = term[vs[k]]

\* The total of a list is the sum over what it lists.
LEMMA TotalIsSum ==
  ASSUME NEW set, IsFiniteSet(set), NEW term \in [set -> Rat],
         NEW vs, NEW n \in Nat, Enumerates(vs, n, set),
         NEW s \in [1..n -> Rat], Lists(s, n, term, vs)
  PROVE  Total(s) = RatSum(term, set)
<1> USE DEF Enumerates, Lists
<1>1. s \in Seq(Rat) /\ Len(s) = n BY FunctionIsSeq
<1>2. PICK f : /\ f[0] = Zero
               /\ \A k \in 0..n : f[k] \in Rat
               /\ \A k \in 1..n : f[k] = Plus(f[k - 1], s[k])
               /\ Total(s) = f[n]
  BY <1>1, TotalSteps
<1>3. PICK g : g[{}] = Zero /\ RatTakesOut(g, term, set) /\ RatSum(term, set) = g[set]
  BY RatSumIs
<1> DEFINE Seen(k) == {vs[j] : j \in 1..k}
           Q == {k \in 0..n : f[k] = g[Seen(k)]}
<1>4. 0 \in Q
  <2>1. Seen(0) = {} /\ 0 \in 0..n OBVIOUS
  <2>2. QED BY <1>2, <1>3, <2>1
<1>5. ASSUME NEW k \in 1..n, k - 1 \in Q
      PROVE  k \in Q
  <2>1. k \in 0..n /\ k - 1 \in 0..n /\ 1..k = (1..(k - 1)) \cup {k}
        /\ \A j \in 1..(k - 1) : j \in 1..n /\ j # k
    OBVIOUS
  <2>2. Seen(k) \in SUBSET set /\ vs[k] \in Seen(k) /\ Seen(k) \ {vs[k]} = Seen(k - 1)
    <3>1. Seen(k) = Seen(k - 1) \cup {vs[k]} BY <2>1
    <3>2. vs[k] \notin Seen(k - 1) BY <2>1
    <3>3. Seen(k - 1) \in SUBSET set BY <2>1
    <3> HIDE DEF Seen
    <3>4. QED BY <3>1, <3>2, <3>3
  <2> HIDE DEF Seen
  <2>3. g[Seen(k)] = Plus(term[vs[k]], g[Seen(k - 1)])
    BY <1>3, <2>2 DEF RatTakesOut
  <2>4. f[k] = Plus(f[k - 1], term[vs[k]]) /\ f[k - 1] = g[Seen(k - 1)] /\ f[k - 1] \in Rat
        /\ term[vs[k]] \in Rat
    BY <1>2, <1>5, <2>1
  <2>5. f[k] = g[Seen(k)] BY <2>3, <2>4, RatCommutes
  <2>6. QED BY <2>1, <2>5
<1>6. n \in Q
  <2> HIDE DEF Q
  <2>1. n \in 0..n OBVIOUS
  <2>2. QED BY <1>4, <1>5, <2>1, UpTo
<1>7. Seen(n) = set OBVIOUS
<1> HIDE DEF Seen
<1>8. f[n] = g[set] BY <1>6, <1>7
<1>9. QED BY <1>2, <1>3, <1>8

-----------------------------------------------------------------------------
(* The values of numbers.                                                  *)

NumberIn(F, rho, t) == ValuesIn(F, rho)[index_of(t)]

\* What a coefficient is multiplied by.
Amount(F, rho, v) == IF v = Undef THEN One ELSE NumberIn(F, rho, v)

Parts(F, rho, p) == [v \in DOMAIN p |-> Times(p[v], Amount(F, rho, v))]

PolyValue(F, rho, p) == RatSum(Parts(F, rho, p), DOMAIN p)

Numeric(F, rho, set) == \A v \in set : Amount(F, rho, v) \in Rat

\* rho gives the real constants of T rational values too.
IsAssignment(T, rho) ==
  /\ IsValuation(T, rho)
  /\ \A i \in DOMAIN T : T[i].kind = "uninterpreted" /\ T[i].type = "real" => rho[2 * i] \in Rat

LEMMA PartsAre ==
  ASSUME NEW T, NEW p \in PolysOf(T), NEW F, NEW rho, Numeric(F, rho, DOMAIN p)
  PROVE  /\ Parts(F, rho, p) \in [DOMAIN p -> Rat]
         /\ \A v \in DOMAIN p : Parts(F, rho, p)[v] = Times(p[v], Amount(F, rho, v))
         /\ IsFiniteSet(DOMAIN p)
         /\ PolyValue(F, rho, p) \in Rat
<1>1. \A v \in DOMAIN p : p[v] \in Rat /\ Amount(F, rho, v) \in Rat
  BY PolyIs DEF Numeric
<1>2. \A v \in DOMAIN p : Times(p[v], Amount(F, rho, v)) \in Rat
  BY <1>1, TimesIsRat
<1>3. /\ Parts(F, rho, p) \in [DOMAIN p -> Rat]
      /\ \A v \in DOMAIN p : Parts(F, rho, p)[v] = Times(p[v], Amount(F, rho, v))
  BY <1>2 DEF Parts
<1>4. IsFiniteSet(DOMAIN p) BY PolyIs
<1>5. QED BY <1>3, <1>4, RatSumIs DEF PolyValue

LEMMA NoTermsValue ==
  ASSUME NEW F, NEW rho
  PROVE  PolyValue(F, rho, NoTerms) = Zero
<1>1. DOMAIN NoTerms = {} /\ Parts(F, rho, NoTerms) \in [{} -> Rat]
  BY DEF NoTerms, Parts
<1>2. QED BY <1>1, RatSumOfNone DEF PolyValue

\* A polynomial, with zeros for other variables.
LEMMA PolyValueWithin ==
  ASSUME NEW T, NEW p \in PolysOf(T), NEW F, NEW rho,
         NEW set, IsFiniteSet(set), DOMAIN p \subseteq set, Numeric(F, rho, set),
         NEW f, f = [v \in set |-> Times(At(p, v), Amount(F, rho, v))]
  PROVE  f \in [set -> Rat] /\ RatSum(f, set) = PolyValue(F, rho, p)
<1> DEFINE part == DOMAIN p
           g == Parts(F, rho, p)
<1>1. g \in [part -> Rat] /\ \A v \in part : g[v] = Times(p[v], Amount(F, rho, v))
  <2>1. Numeric(F, rho, DOMAIN p) BY DEF Numeric
  <2>2. QED BY <2>1, PartsAre
<1>2. \A v \in set : At(p, v) \in Rat /\ Amount(F, rho, v) \in Rat
  BY PolyIs DEF Numeric
<1>3. \A v \in set : Times(At(p, v), Amount(F, rho, v)) \in Rat
  BY <1>2, TimesIsRat
<1>4. f \in [set -> Rat] /\ \A v \in set : f[v] = Times(At(p, v), Amount(F, rho, v))
  BY <1>3
<1>5. \A v \in part : g[v] = f[v] BY <1>1, <1>4 DEF At
<1>6. \A v \in set \ part : f[v] = Zero
  <2>1. TAKE v \in set \ part
  <2>2. f[v] = Times(Zero, Amount(F, rho, v)) /\ Amount(F, rho, v) \in Rat
    BY <1>2, <1>4 DEF At
  <2>3. QED BY <2>2, RatUnits
<1>7. PolyValue(F, rho, p) = RatSum(g, part) BY DEF PolyValue
<1>8. part \in SUBSET set OBVIOUS
<1> HIDE DEF part, g
<1>9. RatSum(f, set) = RatSum(g, part)
  BY <1>1, <1>4, <1>5, <1>6, <1>8, RatSumOfNonzero
<1>10. QED BY <1>4, <1>7, <1>9

LEMMA MergeValue ==
  ASSUME NEW T, NEW p \in PolysOf(T), NEW q \in PolysOf(T), NEW c \in Rat, NEW F, NEW rho,
         Numeric(F, rho, DOMAIN p), Numeric(F, rho, DOMAIN q)
  PROVE  /\ Numeric(F, rho, DOMAIN Merge(p, q, c))
         /\ PolyValue(F, rho, Merge(p, q, c))
              = Plus(PolyValue(F, rho, p), Times(c, PolyValue(F, rho, q)))
<1>0. /\ Merge(p, q, c) \in PolysOf(T)
      /\ DOMAIN Merge(p, q, c) \subseteq DOMAIN p \cup DOMAIN q
      /\ \A v \in DOMAIN p \cup DOMAIN q :
           At(Merge(p, q, c), v) = Plus(At(p, v), Times(c, At(q, v)))
  BY MergeIsPoly, Zenon
<1> DEFINE m == Merge(p, q, c)
           set == DOMAIN p \cup DOMAIN q
           f(r) == [v \in set |-> Times(At(r, v), Amount(F, rho, v))]
<1>1. /\ m \in PolysOf(T) /\ DOMAIN m \subseteq set
      /\ \A v \in set : At(m, v) = Plus(At(p, v), Times(c, At(q, v)))
  BY <1>0
<1>2. IsFiniteSet(set) BY PolyIs, FS_Union
<1>3. Numeric(F, rho, set) /\ Numeric(F, rho, DOMAIN m)
  BY <1>1 DEF Numeric
<1> HIDE DEF m
<1>4. /\ f(m) \in [set -> Rat] /\ RatSum(f(m), set) = PolyValue(F, rho, m)
      /\ f(p) \in [set -> Rat] /\ RatSum(f(p), set) = PolyValue(F, rho, p)
      /\ f(q) \in [set -> Rat] /\ RatSum(f(q), set) = PolyValue(F, rho, q)
  <2>1. DOMAIN p \subseteq set /\ DOMAIN q \subseteq set OBVIOUS
  <2> HIDE DEF set
  <2>2. QED BY <1>1, <1>2, <1>3, <2>1, PolyValueWithin
<1>5. \A v \in set : f(m)[v] = Plus(f(p)[v], Times(c, f(q)[v]))
  <2>1. TAKE v \in set
  <2> DEFINE x == At(p, v)
             y == At(q, v)
             w == Amount(F, rho, v)
  <2>2. x \in Rat /\ y \in Rat /\ w \in Rat BY <1>3, PolyIs DEF Numeric
  <2>3. /\ f(m)[v] = Times(Plus(x, Times(c, y)), w)
        /\ f(p)[v] = Times(x, w) /\ f(q)[v] = Times(y, w)
    BY <1>1
  <2> HIDE DEF x, y, w, f
  <2>4. Times(Plus(x, Times(c, y)), w) = Plus(Times(x, w), Times(c, Times(y, w)))
    <3> DEFINE z == Times(c, y)
    <3>1. z \in Rat BY <2>2, TimesIsRat
    <3>2. Times(z, w) = Times(c, Times(y, w)) BY <2>2, TimesAssociates
    <3> HIDE DEF z
    <3>3. Plus(x, z) \in Rat BY <2>2, <3>1, PlusIsRat
    <3>4. Times(Plus(x, z), w) = Times(w, Plus(x, z))
      BY <2>2, <3>3, RatCommutes
    <3>5. Times(w, Plus(x, z)) = Plus(Times(w, x), Times(w, z))
      BY <2>2, <3>1, TimesDistributes
    <3>6. Times(w, x) = Times(x, w) /\ Times(w, z) = Times(z, w)
      BY <2>2, <3>1, RatCommutes
    <3>7. QED BY <3>2, <3>4, <3>5, <3>6 DEF z
  <2>5. QED BY <2>3, <2>4
<1>6. RatSum(f(m), set) = Plus(RatSum(f(p), set), Times(c, RatSum(f(q), set)))
  <2> HIDE DEF f, set
  <2>1. QED BY <1>2, <1>4, <1>5, RatSumOfBoth
<1>7. PolyValue(F, rho, m) = Plus(PolyValue(F, rho, p), Times(c, PolyValue(F, rho, q)))
  <2> HIDE DEF f, set
  <2>1. QED BY <1>4, <1>6
<1>8. QED BY <1>3, <1>7 DEF m

LEMMA ScaledValue ==
  ASSUME NEW T, NEW p \in PolysOf(T), NEW c \in Rat, c # Zero, NEW F, NEW rho,
         Numeric(F, rho, DOMAIN p)
  PROVE  /\ Numeric(F, rho, DOMAIN Scaled(p, c))
         /\ PolyValue(F, rho, Scaled(p, c)) = Times(c, PolyValue(F, rho, p))
<1> DEFINE s == Scaled(p, c)
           set == DOMAIN p
           g == Parts(F, rho, p)
           h == Parts(F, rho, s)
           z == [v \in set |-> Zero]
<1>1. s \in PolysOf(T) /\ DOMAIN s = set /\ \A v \in set : s[v] = Times(c, p[v])
  BY ScaledIsPoly DEF Scaled
<1>2. Numeric(F, rho, DOMAIN s) BY <1>1
<1>3. /\ g \in [set -> Rat] /\ h \in [set -> Rat] /\ IsFiniteSet(set)
      /\ \A v \in set : /\ g[v] = Times(p[v], Amount(F, rho, v))
                        /\ h[v] = Times(s[v], Amount(F, rho, v))
  <2>1. /\ g \in [set -> Rat] /\ IsFiniteSet(set)
        /\ \A v \in set : g[v] = Times(p[v], Amount(F, rho, v))
    BY PartsAre
  <2>2. h \in [DOMAIN s -> Rat] /\ \A v \in DOMAIN s : h[v] = Times(s[v], Amount(F, rho, v))
    <3> HIDE DEF s
    <3>1. QED BY <1>1, <1>2, PartsAre
  <2>3. QED BY <1>1, <2>1, <2>2
<1>4. z \in [set -> Rat] /\ RatSum(z, set) = Zero
  <2>1. z \in [set -> Rat] /\ \A v \in set \ {} : z[v] = Zero
    BY UnitsAreRat
  <2> DEFINE y == [v \in {} |-> Zero]
  <2>2. y \in [{} -> Rat] /\ {} \in SUBSET set /\ \A v \in {} : y[v] = z[v]
    OBVIOUS
  <2>6. IsFiniteSet(set) BY <1>3
  <2> HIDE DEF y, z, set
  <2>3. RatSum(z, set) = RatSum(y, {})
    <3> DEFINE part == {}
    <3>1. /\ part \in SUBSET set /\ y \in [part -> Rat]
          /\ \A v \in part : y[v] = z[v]
          /\ \A v \in set \ part : z[v] = Zero
      BY <2>1, <2>2
    <3> HIDE DEF part
    <3>2. RatSum(z, set) = RatSum(y, part)
      BY <2>1, <2>6, <3>1, RatSumOfNonzero
    <3>3. QED BY <3>2 DEF part
  <2>4. RatSum(y, {}) = Zero BY <2>2, RatSumOfNone
  <2>5. QED BY <2>1, <2>3, <2>4
<1>5. \A v \in set : h[v] = Plus(z[v], Times(c, g[v]))
  <2>1. TAKE v \in set
  <2>2. p[v] \in Rat /\ Amount(F, rho, v) \in Rat BY PolyIs DEF Numeric
  <2>3. h[v] = Times(Times(c, p[v]), Amount(F, rho, v)) /\ z[v] = Zero
    BY <1>1, <1>3
  <2>4. h[v] = Times(c, g[v]) /\ Times(c, g[v]) \in Rat
    BY <1>3, <2>2, <2>3, TimesAssociates, TimesIsRat
  <2>5. QED BY <2>3, <2>4, RatUnits
<1> HIDE DEF z
<1>6. RatSum(h, set) = Plus(RatSum(z, set), Times(c, RatSum(g, set)))
  <2> HIDE DEF g, h, set
  <2>1. QED BY <1>3, <1>4, <1>5, RatSumOfBoth
<1>7. RatSum(g, set) \in Rat
  <2> HIDE DEF g, h, set
  <2>1. QED BY <1>3, RatSumIs
<1>8. RatSum(h, set) = Times(c, RatSum(g, set))
  <2> DEFINE x == RatSum(g, set)
  <2>1. x \in Rat BY <1>7
  <2> HIDE DEF x
  <2>2. Times(c, x) \in Rat BY <2>1, TimesIsRat
  <2>3. Plus(Zero, Times(c, x)) = Times(c, x) BY <2>2, RatUnits
  <2>4. QED BY <1>4, <1>6, <2>3 DEF x
<1>9. PolyValue(F, rho, s) = RatSum(h, set) /\ PolyValue(F, rho, p) = RatSum(g, set)
  BY <1>1 DEF PolyValue
<1>10. QED BY <1>2, <1>8, <1>9

LEMMA MonomialValue ==
  ASSUME NEW T, NEW v \in Variables(T), NEW c \in Rat, c # Zero, NEW F, NEW rho,
         Amount(F, rho, v) \in Rat
  PROVE  /\ Numeric(F, rho, DOMAIN Monomial(v, c))
         /\ PolyValue(F, rho, Monomial(v, c)) = Times(c, Amount(F, rho, v))
<1> DEFINE p == Monomial(v, c)
           g == Parts(F, rho, p)
<1>1. p \in PolysOf(T) /\ DOMAIN p = {v} /\ p[v] = c BY MonomialIsPoly
<1> HIDE DEF p
<1>2. Numeric(F, rho, DOMAIN p) BY <1>1 DEF Numeric
<1>3. g \in [{v} -> Rat] /\ g[v] = Times(c, Amount(F, rho, v)) /\ IsFiniteSet({v})
  <2>1. /\ g \in [DOMAIN p -> Rat] /\ IsFiniteSet(DOMAIN p)
        /\ \A w \in DOMAIN p : g[w] = Times(p[w], Amount(F, rho, w))
    BY <1>1, <1>2, PartsAre
  <2>2. QED BY <1>1, <2>1
<1>4. PolyValue(F, rho, p) = RatSum(g, {v}) BY <1>1 DEF PolyValue
<1> HIDE DEF g
<1>5. PICK h : h[{}] = Zero /\ RatTakesOut(h, g, {v}) /\ RatSum(g, {v}) = h[{v}]
  BY <1>3, RatSumIs
<1>6. h[{v}] = Plus(g[v], h[{v} \ {v}]) BY <1>5 DEF RatTakesOut
<1>7. {v} \ {v} = {} OBVIOUS
<1>8. Plus(g[v], Zero) = g[v]
  <2>1. g[v] \in Rat BY <1>3
  <2>2. QED BY <2>1, RatUnits
<1>9. QED BY <1>2, <1>3, <1>4, <1>5, <1>6, <1>7, <1>8 DEF p

\* The value of a term, by its entry.
LEMMA EntryValue ==
  ASSUME NEW G, WellBuilt(G), NEW F, Grown(G, F), NEW rho, NEW t \in TermOf(G)
  PROVE  LET e == G[index_of(t)]
         IN /\ ValuesIn(F, rho)[index_of(t)] = Worth(e, rho[2 * index_of(t)], ValuesIn(F, rho))
            /\ Shape(G, e) /\ e \in Entry
            /\ \A k \in DOMAIN e.args : e.args[k] \in TermOf(G)
<1> DEFINE i == index_of(t)
<1>1. i \in DOMAIN G /\ Shape(G, G[i]) /\ G[i] \in Entry
  BY TableFacts DEF TermOf
<1>2. i \in DOMAIN F /\ F[i] = G[i] /\ WellBuilt(F)
  BY GrownTables, TermsStay DEF TermOf
<1>3. ValuesIn(F, rho)[i] = Worth(F[i], rho[2 * i], ValuesIn(F, rho))
  BY <1>2, ValuesAre
<1>4. \A k \in DOMAIN G[i].args : G[i].args[k] \in TermOf(G)
  BY <1>1 DEF Shape
<1>5. QED BY <1>1, <1>2, <1>3, <1>4

\* Numbers have rational values, in every larger table.
LEMMA NumbersAre ==
  ASSUME NEW T, WellBuilt(T), NEW rho, IsAssignment(T, rho), NEW F, Grown(T, F)
  PROVE  \A t \in RealOf(T) : NumberIn(F, rho, t) \in Rat
<1> DEFINE val == ValuesIn(F, rho)
           Bad == {i \in Nat : i \in DOMAIN T /\ T[i].type = "real" /\ val[i] \notin Rat}
<1>1. ASSUME Bad # {}
      PROVE  FALSE
  <2>1. PICK i \in Bad : \A j \in Bad : i <= j
    <3>1. Bad \in SUBSET Nat OBVIOUS
    <3> HIDE DEF Bad
    <3>2. QED BY <1>1, <3>1, LeastNatural
  <2> DEFINE e == T[i]
             t == 2 * i
  <2>2. i \in Nat /\ i \in DOMAIN T /\ e.type = "real" /\ val[i] \notin Rat
    BY <2>1
  <2>3. t \in TermOf(T) /\ index_of(t) = i /\ t \in RealOf(T)
    <3>1. t \in Nat /\ index_of(t) = i /\ ~is_negated(t)
      BY <2>2, HandleOf
    <3>2. QED BY <2>2, <3>1 DEF TermOf, RealOf, get_type
  <2>4. /\ val[i] = Worth(e, rho[2 * i], val)
        /\ Shape(T, e) /\ e \in Entry
        /\ \A k \in DOMAIN e.args : e.args[k] \in TermOf(T)
    <3> HIDE DEF t, e
    <3>1. val[index_of(t)] = Worth(T[index_of(t)], rho[2 * index_of(t)], val)
      BY <2>3, EntryValue
    <3>2. QED BY <2>3, <3>1, EntryValue DEF e
  <2>5. \A k \in DOMAIN e.args : e.args[k] \in RealOf(T) => val[index_of(e.args[k])] \in Rat
    <3>1. TAKE k \in DOMAIN e.args
    <3> DEFINE j == index_of(e.args[k])
    <3>2. j \in Nat /\ j < i /\ j \in DOMAIN T BY <2>2, ArgumentsOf
    <3>3. HAVE e.args[k] \in RealOf(T)
    <3>4. T[j].type = "real" BY <3>3 DEF RealOf, get_type
    <3>5. ~ (i <= j) BY <2>2, <3>2
    <3> HIDE DEF j
    <3>6. QED BY <2>1, <3>2, <3>4, <3>5 DEF j
  <2>6. e.kind \in {"constant", "uninterpreted", "ite", "product", "poly"}
    <3>1. get_kind(T, t) = e.kind BY <2>3 DEF get_kind
    <3>2. QED BY <2>3, <3>1, RealIs
  <2>7. e.kind = "ite" \/ e.kind = "product" =>
          1 \in DOMAIN e.args /\ 2 \in DOMAIN e.args /\ (e.kind = "ite" => 3 \in DOMAIN e.args)
    BY <2>2, ArgumentsOf
  <2> HIDE DEF t, val
  <2>8. CASE e.kind = "constant"
    <3>1. e.value \in Rat BY <2>4 DEF Entry
    <3> HIDE DEF e
    <3>2. Worth(e, rho[2 * i], val) = e.value BY <2>8, WorthOfLeaf
    <3>3. QED BY <2>2, <2>4, <3>1, <3>2
  <2>9. CASE e.kind = "uninterpreted"
    <3>1. rho[2 * i] \in Rat BY <2>2, <2>9 DEF IsAssignment
    <3> HIDE DEF e
    <3>2. Worth(e, rho[2 * i], val) = rho[2 * i] BY <2>9, WorthOfLeaf
    <3>3. QED BY <2>2, <2>4, <3>1, <3>2
  <2>10. CASE e.kind = "product"
    <3>1. ProductShape(T, e) BY <2>4, <2>10 DEF Shape
    <3>2. e.args[1] \in RealOf(T) /\ e.args[2] \in RealOf(T)
      BY <3>1 DEF ProductShape, VarLike
    <3>3. val[index_of(e.args[1])] \in Rat /\ val[index_of(e.args[2])] \in Rat
      BY <2>5, <2>7, <2>10, <3>2
    <3>4. val[i] = Times(val[index_of(e.args[1])], val[index_of(e.args[2])])
      BY <2>4, <2>10, WorthOfProduct
    <3>5. val[i] \in Rat BY <3>3, <3>4, TimesIsRat
    <3>6. QED BY <2>2, <3>5
  <2>11. CASE e.kind = "ite"
    <3>1. IteShape(T, e) BY <2>4, <2>11 DEF Shape
    <3>2. e.args[2] \in RealOf(T) /\ e.args[3] \in RealOf(T)
      BY <3>1 DEF IteShape
    <3>3. val[index_of(e.args[2])] \in Rat /\ val[index_of(e.args[3])] \in Rat
      BY <2>5, <2>7, <2>11, <3>2
    <3>4. val[i] = IF val[index_of(e.args[1])] THEN val[index_of(e.args[2])]
                   ELSE val[index_of(e.args[3])]
      BY <2>4, <2>11, WorthOfIte
    <3>5. val[i] \in Rat BY <3>3, <3>4
    <3>6. QED BY <2>2, <3>5
  <2>12. CASE e.kind = "poly"
    <3> DEFINE s == [k \in DOMAIN e.args |-> val[index_of(e.args[k])]]
    <3>1. PolyShape(T, e) BY <2>4, <2>12 DEF Shape
    <3>2. \A k \in DOMAIN e.args : val[index_of(e.args[k])] \in Rat
      BY <2>5, <3>1 DEF PolyShape, Monomials
    <3>3. DOMAIN e.args = 1..Len(e.args) /\ Len(e.args) \in Nat
      BY <2>4 DEF Entry
    <3>4. s \in [1..Len(e.args) -> Rat] BY <3>2, <3>3
    <3>5. val[i] = Total(s) BY <2>4, <2>12, WorthOfPoly
    <3> HIDE DEF s
    <3>6. s \in Seq(Rat) /\ Len(s) \in Nat BY <3>3, <3>4, FunctionIsSeq
    <3>7. PICK f : /\ f[0] = Zero
                   /\ \A k \in 0..Len(s) : f[k] \in Rat
                   /\ \A k \in 1..Len(s) : f[k] = Plus(f[k - 1], s[k])
                   /\ Total(s) = f[Len(s)]
      BY <3>6, TotalSteps
    <3>8. Len(s) \in 0..Len(s) BY <3>6
    <3>9. val[i] \in Rat BY <3>5, <3>7, <3>8
    <3>10. QED BY <2>2, <3>9
  <2>13. QED BY <2>6, <2>8, <2>9, <2>10, <2>11, <2>12
<1>2. ASSUME NEW t \in RealOf(T)
      PROVE  NumberIn(F, rho, t) \in Rat
  <2>1. index_of(t) \in Nat /\ index_of(t) \in DOMAIN T /\ T[index_of(t)].type = "real"
    BY TableFacts DEF RealOf, TermOf, get_type
  <2>2. index_of(t) \notin Bad BY <1>1
  <2>3. QED BY <2>1, <2>2 DEF NumberIn
<1>3. QED BY <1>2

LEMMA AmountsAre ==
  ASSUME NEW T, WellBuilt(T), NEW rho, IsAssignment(T, rho), NEW F, Grown(T, F)
  PROVE  /\ \A v \in Variables(T) : Amount(F, rho, v) \in Rat
         /\ \A p \in PolysOf(T) : Numeric(F, rho, DOMAIN p)
<1>1. ASSUME NEW v \in Variables(T)
      PROVE  Amount(F, rho, v) \in Rat
  <2>1. CASE v = Undef BY <2>1, UnitsAreRat DEF Amount
  <2>2. CASE v # Undef
    <3>1. v \in RealOf(T) BY <2>2 DEF Variables, VarLike
    <3>2. QED BY <2>2, <3>1, NumbersAre DEF Amount
  <2>3. QED BY <2>1, <2>2
<1>2. \A p \in PolysOf(T) : DOMAIN p \subseteq Variables(T) BY PolyIs
<1>3. QED BY <1>1, <1>2 DEF Numeric

LEMMA ConstantNumber ==
  ASSUME NEW G, WellBuilt(G), NEW F, Grown(G, F), NEW rho, NEW t \in RealOf(G),
         get_kind(G, t) = "constant"
  PROVE  NumberIn(F, rho, t) = arithmetic_constant_value(G, t)
<1> DEFINE e == G[index_of(t)]
<1>1. t \in TermOf(G) BY DEF RealOf
<1>2. NumberIn(F, rho, t) = Worth(e, rho[2 * index_of(t)], ValuesIn(F, rho))
  BY <1>1, EntryValue DEF NumberIn
<1>3. e.kind = "constant" /\ arithmetic_constant_value(G, t) = e.value
  BY DEF get_kind, arithmetic_constant_value
<1> HIDE DEF e
<1>4. Worth(e, rho[2 * index_of(t)], ValuesIn(F, rho)) = e.value
  BY <1>3, WorthOfLeaf
<1>5. QED BY <1>2, <1>3, <1>4

LEMMA MonomialNumber ==
  ASSUME NEW G, WellBuilt(G), NEW F, Grown(G, F), NEW rho, NEW t \in Monomials(G),
         Amount(F, rho, VarOf(G, t)) \in Rat
  PROVE  NumberIn(F, rho, t) = Times(CoeffOf(G, t), Amount(F, rho, VarOf(G, t)))
<1>1. /\ t \in RealOf(G) /\ t \in TermOf(G) /\ t # Undef
      /\ get_kind(G, t) \in {"constant", "uninterpreted", "ite", "product"}
  BY RealIs DEF Monomials
<1>2. CASE get_kind(G, t) = "constant"
  <2> DEFINE c == arithmetic_constant_value(G, t)
  <2>1. VarOf(G, t) = Undef /\ CoeffOf(G, t) = c
    BY <1>2 DEF VarOf, CoeffOf
  <2>2. NumberIn(F, rho, t) = c /\ c \in Rat
    BY <1>1, <1>2, ConstantNumber, RealIs
  <2> HIDE DEF c
  <2>3. Amount(F, rho, Undef) = One BY DEF Amount
  <2>4. QED BY <2>1, <2>2, <2>3, RatUnits
<1>3. CASE get_kind(G, t) \in {"uninterpreted", "ite"}
  <2>1. VarOf(G, t) = t /\ CoeffOf(G, t) = One
    BY <1>3 DEF VarOf, CoeffOf
  <2>2. Amount(F, rho, t) = NumberIn(F, rho, t) BY <1>1 DEF Amount
  <2>3. QED BY <2>1, <2>2, RatUnits
<1>4. CASE get_kind(G, t) = "product"
  <2> DEFINE e == G[index_of(t)]
             k == e.args[1]
             v == e.args[2]
             val == ValuesIn(F, rho)
  <2>1. /\ val[index_of(t)] = Worth(e, rho[2 * index_of(t)], val)
        /\ Shape(G, e) /\ e \in Entry
    BY <1>1, EntryValue
  <2>2. e.kind = "product" /\ get_args(G, t) = e.args
    BY <1>4 DEF get_kind, get_args
  <2>3. ProductShape(G, e) BY <2>1, <2>2 DEF Shape
  <2>4. k \in RealOf(G) /\ get_kind(G, k) = "constant" /\ v \in VarLike(G) /\ v \in RealOf(G)
    BY <2>3 DEF ProductShape, VarLike
  <2>5. NumberIn(F, rho, t) = Times(NumberIn(F, rho, k), NumberIn(F, rho, v))
    BY <2>1, <2>2, WorthOfProduct DEF NumberIn
  <2> HIDE DEF e
  <2>6. VarOf(G, t) = v /\ CoeffOf(G, t) = arithmetic_constant_value(G, k)
    BY <1>4, <2>2 DEF VarOf, CoeffOf, var_of_product, coeff_of_product
  <2> HIDE DEF k, v
  <2>7. NumberIn(F, rho, k) = arithmetic_constant_value(G, k)
    BY <2>4, ConstantNumber
  <2>8. v # Undef BY <2>4, RealIs
  <2>9. Amount(F, rho, v) = NumberIn(F, rho, v) BY <2>8 DEF Amount
  <2>10. QED BY <2>5, <2>6, <2>7, <2>9
<1>5. QED BY <1>1, <1>2, <1>3, <1>4

\* A sum has the value of the polynomial with its monomials.
LEMMA SumNumber ==
  ASSUME NEW G, WellBuilt(G), NEW F, Grown(G, F), NEW rho, NEW t \in RealOf(G),
         get_kind(G, t) = "poly",
         NEW a, a = get_args(G, t), NEW n \in Nat, a \in Seq(Monomials(G)), Len(a) = n,
         NEW T, NEW p \in PolysOf(T), Numeric(F, rho, DOMAIN p),
         NEW vs, Enumerates(vs, n, DOMAIN p),
         \A k \in 1..n : VarOf(G, a[k]) = vs[k] /\ CoeffOf(G, a[k]) = p[vs[k]]
  PROVE  NumberIn(F, rho, t) = PolyValue(F, rho, p)
<1> DEFINE e == G[index_of(t)]
           val == ValuesIn(F, rho)
           s == [k \in DOMAIN e.args |-> val[index_of(e.args[k])]]
           term == Parts(F, rho, p)
           set == DOMAIN p
<1>1. t \in TermOf(G) /\ e.kind = "poly" /\ e.args = a /\ DOMAIN a = 1..n
      /\ \A k \in 1..n : a[k] \in Monomials(G)
  BY DEF RealOf, get_kind, get_args
<1>2. NumberIn(F, rho, t) = Total(s)
  <2>1. val[index_of(t)] = Worth(e, rho[2 * index_of(t)], val)
    BY <1>1, EntryValue
  <2>2. Worth(e, rho[2 * index_of(t)], val) = Total(s)
    BY <1>1, WorthOfPoly
  <2>3. QED BY <2>1, <2>2 DEF NumberIn
<1>3. /\ term \in [set -> Rat] /\ IsFiniteSet(set)
      /\ \A v \in set : term[v] = Times(p[v], Amount(F, rho, v))
  BY PartsAre
<1>4. DOMAIN s = 1..n /\ \A k \in 1..n : s[k] = NumberIn(F, rho, a[k])
  BY <1>1 DEF NumberIn
<1>5. s = [k \in 1..n |-> s[k]] BY <1>4
<1> HIDE DEF e, val, s, term
<1>6. \A k \in 1..n : s[k] = term[vs[k]] /\ s[k] \in Rat
  <2>1. TAKE k \in 1..n
  <2> DEFINE m == a[k]
             v == vs[k]
  <2>2. m \in Monomials(G) /\ v \in set /\ VarOf(G, m) = v /\ CoeffOf(G, m) = p[v]
    BY <1>1 DEF Enumerates
  <2>3. Amount(F, rho, v) \in Rat BY <2>2 DEF Numeric
  <2> HIDE DEF m, v
  <2>4. NumberIn(F, rho, m) = Times(CoeffOf(G, m), Amount(F, rho, VarOf(G, m)))
    BY <2>2, <2>3, MonomialNumber
  <2>5. s[k] = term[v] BY <1>3, <1>4, <2>2, <2>4 DEF m
  <2>6. term[v] \in Rat BY <1>3, <2>2
  <2>7. QED BY <2>5, <2>6 DEF v
<1>7. s \in [1..n -> Rat] BY <1>5, <1>6
<1>8. Lists(s, n, term, vs) BY <1>6 DEF Lists
<1>9. Enumerates(vs, n, set) OBVIOUS
<1>10. RatSum(term, set) = PolyValue(F, rho, p) BY DEF PolyValue, term
<1> HIDE DEF set
<1>13. term \in [set -> Rat] /\ IsFiniteSet(set) BY <1>3
<1>11. Total(s) = RatSum(term, set)
  BY <1>7, <1>8, <1>9, <1>13, TotalIsSum
<1>12. QED BY <1>2, <1>10, <1>11

\* The polynomial of a term has its value.
LEMMA TermPolyValue ==
  ASSUME NEW T, WellBuilt(T), NEW F, Grown(T, F), NEW rho, IsAssignment(T, rho),
         NEW t \in RealOf(T)
  PROVE  LET p == term_to_poly(T, t)
         IN /\ p \in PolysOf(T) /\ Numeric(F, rho, DOMAIN p)
            /\ PolyValue(F, rho, p) = NumberIn(F, rho, t)
            /\ NumberIn(F, rho, t) \in Rat
<1> DEFINE p == term_to_poly(T, t)
<1>1. p \in PolysOf(T) BY TermPolyIs
<1> HIDE DEF p
<1>2. Numeric(F, rho, DOMAIN p) BY <1>1, AmountsAre
<1>3. NumberIn(F, rho, t) \in Rat BY NumbersAre
<1>4. CASE t = zero_term
  <2>1. get_kind(T, t) = "constant" /\ arithmetic_constant_value(T, t) = Zero
    BY <1>4, PrimitivesAre
  <2>2. NumberIn(F, rho, t) = Zero BY <2>1, ConstantNumber
  <2>3. p = NoTerms
    BY <1>4, <2>1 DEF p, term_to_poly, MonomialPoly, is_var_like
  <2>4. QED BY <1>1, <1>2, <1>3, <2>2, <2>3, NoTermsValue DEF p
<1>5. CASE t # zero_term /\ get_kind(T, t) # "poly"
  <2> DEFINE v == VarOf(T, t)
             c == CoeffOf(T, t)
  <2>1. t \in Monomials(T) BY <1>5, RealIs, PrimitivesAre DEF Monomials
  <2>2. MonomialPoly(T, t) = Monomial(v, c) /\ v \in Variables(T) /\ c \in Rat /\ c # Zero
    BY <2>1, MonomialIs
  <2>3. p = Monomial(v, c) BY <1>5, <2>2 DEF p, term_to_poly
  <2>4. Amount(F, rho, v) \in Rat BY <2>2, AmountsAre
  <2>5. NumberIn(F, rho, t) = Times(c, Amount(F, rho, v))
    BY <2>1, <2>4, MonomialNumber
  <2> HIDE DEF v, c
  <2>6. PolyValue(F, rho, Monomial(v, c)) = Times(c, Amount(F, rho, v))
    BY <2>2, <2>4, MonomialValue
  <2>7. QED BY <1>1, <1>2, <1>3, <2>3, <2>5, <2>6 DEF p
<1>6. CASE get_kind(T, t) = "poly"
  <2> DEFINE a == get_args(T, t)
             n == Len(a)
             vs == [k \in 1..n |-> VarOf(T, a[k])]
  <2>1. /\ a \in Seq(Monomials(T)) /\ n \in Nat
        /\ \A j, k \in 1..n : j < k => VarOf(T, a[j]) < VarOf(T, a[k])
        /\ \A v : v \in DOMAIN p <=> \E j \in 1..n : v = VarOf(T, a[j])
        /\ \A j \in 1..n : p[VarOf(T, a[j])] = CoeffOf(T, a[j])
    <3>1. a \in Seq(Monomials(T)) BY <1>6, SumPolyIs
    <3>2. n \in Nat BY <3>1
    <3>3. \A j, k \in 1..n : j < k => VarOf(T, a[j]) < VarOf(T, a[k])
      BY <1>6, SumPolyIs
    <3>4. \A v : v \in DOMAIN p <=> \E j \in 1..n : v = VarOf(T, a[j])
      BY <1>6, SumPolyIs DEF p
    <3>5. \A j \in 1..n : p[VarOf(T, a[j])] = CoeffOf(T, a[j])
      BY <1>6, SumPolyIs DEF p
    <3> HIDE DEF a, n
    <3>6. QED BY <3>1, <3>2, <3>3, <3>4, <3>5
  <2>2. \A k \in 1..n : vs[k] = VarOf(T, a[k]) OBVIOUS
  <2> HIDE DEF vs
  <2>3. Enumerates(vs, n, DOMAIN p)
    <3>1. \A k \in 1..n : vs[k] \in DOMAIN p /\ vs[k] \in Int
      <4>1. \A v \in DOMAIN p : v \in Int BY <1>1, VariablesAre
      <4>2. QED BY <2>1, <2>2, <4>1
    <3>2. \A x \in DOMAIN p : \E k \in 1..n : vs[k] = x BY <2>1, <2>2
    <3>3. \A j, k \in 1..n : j < k => vs[j] < vs[k] BY <2>1, <2>2
    <3>4. \A j, k \in 1..n : j # k => vs[j] # vs[k]
      <4>1. TAKE j, k \in 1..n
      <4>2. HAVE j # k
      <4>3. j < k \/ k < j BY <4>2
      <4>4. vs[j] \in Int /\ vs[k] \in Int BY <3>1
      <4>5. CASE j < k BY <3>3, <4>4, <4>5
      <4>6. CASE k < j BY <3>3, <4>4, <4>6
      <4>7. QED BY <4>3, <4>5, <4>6
    <3>5. QED BY <3>1, <3>2, <3>4 DEF Enumerates
  <2>4. \A k \in 1..n : VarOf(T, a[k]) = vs[k] /\ CoeffOf(T, a[k]) = p[vs[k]]
    BY <2>1, <2>2
  <2> DEFINE b == a
  <2>5. b = get_args(T, t) /\ n = Len(b) OBVIOUS
  <2> HIDE DEF a, n
  <2>6. NumberIn(F, rho, t) = PolyValue(F, rho, p)
    BY <1>1, <1>2, <1>6, <2>1, <2>3, <2>4, <2>5, SumNumber
  <2>7. QED BY <1>1, <1>2, <1>3, <2>6 DEF p
<1>7. QED BY <1>4, <1>5, <1>6, PrimitivesAre

\* The term r has the value of p, in this table and in every larger one.
SaysPoly(r, p) ==
  \A F, rho :
    Grown(r.tab, F) /\ Numeric(F, rho, DOMAIN p)
      => NumberIn(F, rho, r.term) = PolyValue(F, rho, p)

LEMMA PolyTermSays ==
  ASSUME NEW T, WellBuilt(T), NEW p \in PolysOf(T)
  PROVE  LET r == poly_to_term(T, p)
         IN Number(T, r) /\ SaysPoly(r, p)
<1> DEFINE r == poly_to_term(T, p)
           n == Cardinality(DOMAIN p)
           vs == Ascending(DOMAIN p)
           a == get_args(r.tab, r.term)
<1>1. /\ Number(T, r)
      /\ n = 0 => r.term = zero_term
      /\ n = 1 => /\ r.term \in Monomials(r.tab)
                  /\ VarOf(r.tab, r.term) = vs[1]
                  /\ CoeffOf(r.tab, r.term) = p[vs[1]]
      /\ n >= 2 => /\ get_kind(r.tab, r.term) = "poly"
                   /\ a \in Seq(Monomials(r.tab)) /\ Len(a) = n
                   /\ \A k \in 1..n : /\ VarOf(r.tab, a[k]) = vs[k]
                                      /\ CoeffOf(r.tab, a[k]) = p[vs[k]]
  BY PolyTermIs
<1>2. /\ n \in Nat
      /\ \A k \in 1..n : vs[k] \in DOMAIN p
      /\ \A v \in DOMAIN p : \E k \in 1..n : vs[k] = v
      /\ \A j, k \in 1..n : j < k => vs[j] < vs[k]
      /\ \A v \in DOMAIN p : v \in Int
  BY VariablesAre
<1>3. r.term \in RealOf(r.tab) /\ WellBuilt(r.tab)
  BY <1>1 DEF Number, Grown
<1>4. a = get_args(r.tab, r.term) OBVIOUS
<1> HIDE DEF r, n, vs, a
<1>5. ASSUME NEW F, NEW rho, Grown(r.tab, F), Numeric(F, rho, DOMAIN p)
      PROVE  NumberIn(F, rho, r.term) = PolyValue(F, rho, p)
  <2>1. CASE n = 0
    <3>1. DOMAIN p = {}
      <4>1. 1..n = {} BY <2>1
      <4>2. QED BY <1>2, <4>1
    <3>2. PolyValue(F, rho, p) = Zero
      <4>1. Parts(F, rho, p) \in [{} -> Rat] BY <3>1 DEF Parts
      <4>2. QED BY <3>1, <4>1, RatSumOfNone DEF PolyValue
    <3>3. get_kind(r.tab, zero_term) = "constant" /\ arithmetic_constant_value(r.tab, zero_term) = Zero
      BY <1>3, PrimitivesAre
    <3>4. NumberIn(F, rho, r.term) = Zero
      BY <1>1, <1>3, <1>5, <2>1, <3>3, ConstantNumber
    <3>5. QED BY <3>2, <3>4
  <2>2. CASE n = 1
    <3> DEFINE v == vs[1]
               c == p[v]
    <3>1. 1 \in 1..n /\ \A k \in 1..n : k = 1 BY <2>2
    <3>2. v \in DOMAIN p /\ DOMAIN p = {v} BY <1>2, <3>1
    <3>3. v \in Variables(T) /\ c \in Rat /\ c # Zero BY <3>2, PolyIs
    <3>4. p = Monomial(v, c)
      <4>1. p = [w \in DOMAIN p |-> p[w]] BY PolyIs
      <4>2. [w \in {v} |-> p[w]] = [w \in {v} |-> c] OBVIOUS
      <4> HIDE DEF v, c
      <4>3. QED BY <3>2, <4>1, <4>2 DEF Monomial
    <3>5. Amount(F, rho, v) \in Rat BY <1>5, <3>2 DEF Numeric
    <3>6. r.term \in Monomials(r.tab) /\ VarOf(r.tab, r.term) = v /\ CoeffOf(r.tab, r.term) = c
      BY <1>1, <2>2
    <3> HIDE DEF v, c
    <3>7. NumberIn(F, rho, r.term) = Times(c, Amount(F, rho, v))
      <4>1. NumberIn(F, rho, r.term)
              = Times(CoeffOf(r.tab, r.term), Amount(F, rho, VarOf(r.tab, r.term)))
        BY <1>3, <1>5, <3>5, <3>6, MonomialNumber
      <4>2. QED BY <3>6, <4>1
    <3>8. PolyValue(F, rho, Monomial(v, c)) = Times(c, Amount(F, rho, v))
      BY <3>3, <3>5, MonomialValue
    <3>9. QED BY <3>4, <3>7, <3>8
  <2>3. CASE n >= 2
    <3>1. Enumerates(vs, n, DOMAIN p)
      <4>1. \A j, k \in 1..n : j # k => vs[j] # vs[k]
        <5>1. TAKE j, k \in 1..n
        <5>2. HAVE j # k
        <5>3. j < k \/ k < j BY <1>2, <5>2
        <5>4. vs[j] \in Int /\ vs[k] \in Int BY <1>2
        <5>5. CASE j < k BY <1>2, <5>4, <5>5
        <5>6. CASE k < j BY <1>2, <5>4, <5>6
        <5>7. QED BY <5>3, <5>5, <5>6
      <4>2. QED BY <1>2, <4>1 DEF Enumerates
    <3>2. /\ get_kind(r.tab, r.term) = "poly"
          /\ a \in Seq(Monomials(r.tab)) /\ Len(a) = n
          /\ \A k \in 1..n : VarOf(r.tab, a[k]) = vs[k] /\ CoeffOf(r.tab, a[k]) = p[vs[k]]
      BY <1>1, <2>3
    <3> DEFINE G == r.tab
               t == r.term
    <3>3. /\ WellBuilt(G) /\ Grown(G, F) /\ t \in RealOf(G) /\ get_kind(G, t) = "poly"
          /\ a = get_args(G, t) /\ a \in Seq(Monomials(G)) /\ Len(a) = n /\ n \in Nat
          /\ \A k \in 1..n : VarOf(G, a[k]) = vs[k] /\ CoeffOf(G, a[k]) = p[vs[k]]
      BY <1>2, <1>3, <1>4, <1>5, <3>2
    <3> HIDE DEF G, t
    <3>4. NumberIn(F, rho, t) = PolyValue(F, rho, p)
      BY <1>5, <3>1, <3>3, SumNumber
    <3>5. QED BY <3>4 DEF t
  <2>4. QED BY <1>2, <2>1, <2>2, <2>3
<1>6. SaysPoly(r, p) BY <1>5 DEF SaysPoly
<1>7. QED BY <1>1, <1>6 DEF r

-----------------------------------------------------------------------------
(* What the arithmetic constructors build, and what it means.              *)

LEMMA NumberGrows ==
  ASSUME NEW T, WellBuilt(T), NEW r, Number(T, r)
  PROVE  /\ WellBuilt(r.tab)
         /\ \A t \in RealOf(T) : t \in RealOf(r.tab) /\ get_kind(r.tab, t) = get_kind(T, t)
         /\ \A F : Grown(r.tab, F) => Grown(T, F)
<1>1. Grown(T, r.tab) BY DEF Number
<1>2. /\ T \in Seq(Entry) /\ r.tab \in Seq(Entry) /\ Extends(T, r.tab) /\ WellBuilt(r.tab)
  BY <1>1, GrownTables
<1>3. \A t \in RealOf(T) : t \in TermOf(T) BY DEF RealOf
<1>4. QED BY <1>1, <1>2, <1>3, SetsGrow, TermsStay, GrownTransitive

LEMMA PolyTermMeans ==
  ASSUME NEW T, WellBuilt(T), NEW p \in PolysOf(T), NEW F, NEW rho, IsAssignment(T, rho),
         Grown(poly_to_term(T, p).tab, F)
  PROVE  /\ Grown(T, F) /\ Numeric(F, rho, DOMAIN p)
         /\ NumberIn(F, rho, poly_to_term(T, p).term) = PolyValue(F, rho, p)
<1> DEFINE r == poly_to_term(T, p)
<1>1. Number(T, r) /\ SaysPoly(r, p) BY PolyTermSays
<1>2. Grown(r.tab, F) OBVIOUS
<1> HIDE DEF r
<1>3. Grown(T, F) BY <1>1, <1>2, NumberGrows
<1>4. Numeric(F, rho, DOMAIN p) BY <1>3, AmountsAre
<1>5. QED BY <1>1, <1>2, <1>3, <1>4 DEF SaysPoly, r

LEMMA SumOfTwo ==
  ASSUME NEW T, NEW p \in PolysOf(T), NEW q \in PolysOf(T)
  PROVE  /\ MergeAll(<<p, q>>) = Merge(Merge(NoTerms, p, One), q, One)
         /\ Merge(NoTerms, p, One) \in PolysOf(T)
         /\ MergeAll(<<p, q>>) \in PolysOf(T)
<1> DEFINE S == PolysOf(T)
           ps == <<p, q>>
<1>1. NoTerms \in S /\ \A a, b \in S : Merge(a, b, One) \in S
  BY NoTermsIsPoly, MergeIsPoly, UnitsAreRat
<1>2. ps \in Seq(S) /\ Len(ps) = 2 /\ ps[1] = p /\ ps[2] = q OBVIOUS
<1> HIDE DEF S, ps
<1>3. PICK f : /\ f[0] = NoTerms
               /\ \A k \in 0..Len(ps) : f[k] \in S
               /\ \A k \in 1..Len(ps) : f[k] = Merge(f[k - 1], ps[k], One)
               /\ MergeAll(ps) = f[Len(ps)]
  BY <1>1, <1>2, MergeAllSteps
<1>4. f[1] = Merge(f[0], ps[1], One) /\ f[2] = Merge(f[1], ps[2], One)
  <2>1. 1 \in 1..Len(ps) /\ 2 \in 1..Len(ps) /\ 1 - 1 = 0 /\ 2 - 1 = 1
    BY <1>2
  <2>2. f[1] = Merge(f[1 - 1], ps[1], One) /\ f[2] = Merge(f[2 - 1], ps[2], One)
    BY <1>3, <2>1
  <2>3. QED BY <2>1, <2>2
<1>5. 1 \in 0..Len(ps) /\ 2 \in 0..Len(ps) BY <1>2
<1>6. MergeAll(ps) = Merge(Merge(NoTerms, p, One), q, One)
  BY <1>2, <1>3, <1>4
<1>7. Merge(NoTerms, p, One) \in S /\ MergeAll(ps) \in S
  BY <1>2, <1>3, <1>4, <1>5
<1>8. QED BY <1>6, <1>7 DEF S, ps

LEMMA PlusSays ==
  ASSUME NEW T, WellBuilt(T), NEW x \in RealOf(T), NEW y \in RealOf(T)
  PROVE  LET r == mk_arithmetic_plus(T, <<x, y>>)
         IN /\ Number(T, r)
            /\ \A F, rho :
                 Grown(r.tab, F) /\ IsAssignment(T, rho)
                   => NumberIn(F, rho, r.term) = Plus(NumberIn(F, rho, x), NumberIn(F, rho, y))
<1> DEFINE p == term_to_poly(T, x)
           q == term_to_poly(T, y)
           s == Merge(NoTerms, p, One)
           m == Merge(s, q, One)
           r == mk_arithmetic_plus(T, <<x, y>>)
<1>1. p \in PolysOf(T) /\ q \in PolysOf(T) BY TermPolyIs
<1>2. r = poly_to_term(T, MergeAll(<<p, q>>))
  <2> DEFINE args == <<x, y>>
             ps == [k \in DOMAIN args |-> term_to_poly(T, args[k])]
  <2>1. ps = <<p, q>> OBVIOUS
  <2>2. r = poly_to_term(T, MergeAll(ps)) BY DEF mk_arithmetic_plus
  <2>3. QED BY <2>1, <2>2
<1> HIDE DEF p, q, r
<1>3. s \in PolysOf(T) /\ m \in PolysOf(T) /\ r = poly_to_term(T, m)
  BY <1>1, <1>2, SumOfTwo
<1>4. Number(T, r) BY <1>3, PolyTermSays
<1>5. ASSUME NEW F, NEW rho, Grown(r.tab, F), IsAssignment(T, rho)
      PROVE  NumberIn(F, rho, r.term) = Plus(NumberIn(F, rho, x), NumberIn(F, rho, y))
  <2> DEFINE a == NumberIn(F, rho, x)
             b == NumberIn(F, rho, y)
  <2>1. Grown(T, F) /\ NumberIn(F, rho, r.term) = PolyValue(F, rho, m)
    <3> HIDE DEF m
    <3>1. QED BY <1>3, <1>5, PolyTermMeans
  <2>2. /\ Numeric(F, rho, DOMAIN p) /\ PolyValue(F, rho, p) = a /\ a \in Rat
        /\ Numeric(F, rho, DOMAIN q) /\ PolyValue(F, rho, q) = b /\ b \in Rat
    BY <1>5, <2>1, TermPolyValue DEF p, q
  <2> HIDE DEF a, b
  <2>3. NoTerms \in PolysOf(T) /\ Numeric(F, rho, DOMAIN NoTerms) /\ PolyValue(F, rho, NoTerms) = Zero
    BY NoTermsIsPoly, NoTermsValue DEF Numeric
  <2>4. Numeric(F, rho, DOMAIN s) /\ PolyValue(F, rho, s) = Plus(Zero, Times(One, a))
    BY <1>1, <2>2, <2>3, MergeValue, UnitsAreRat
  <2>5. PolyValue(F, rho, s) = a BY <2>2, <2>4, RatUnits
  <2> HIDE DEF s
  <2>6. PolyValue(F, rho, m) = Plus(a, Times(One, b))
    BY <1>1, <1>3, <2>2, <2>4, <2>5, MergeValue, UnitsAreRat
  <2>7. Times(One, b) = b BY <2>2, RatUnits
  <2>8. QED BY <2>1, <2>6, <2>7 DEF a, b
<1>6. QED BY <1>4, <1>5 DEF r

\* The polynomial of a difference.
LEMMA DifferenceSays ==
  ASSUME NEW T, WellBuilt(T), NEW x \in RealOf(T), NEW y \in RealOf(T)
  PROVE  /\ Difference(T, x, y) \in PolysOf(T)
         /\ \A F, rho :
              Grown(T, F) /\ IsAssignment(T, rho)
                => /\ Numeric(F, rho, DOMAIN Difference(T, x, y))
                   /\ PolyValue(F, rho, Difference(T, x, y))
                        = Minus(NumberIn(F, rho, x), NumberIn(F, rho, y))
<1> DEFINE p == term_to_poly(T, x)
           q == term_to_poly(T, y)
           m == Merge(p, q, MinusOne)
<1>1. p \in PolysOf(T) /\ q \in PolysOf(T) BY TermPolyIs
<1>2. Difference(T, x, y) = m BY DEF Difference
<1> HIDE DEF p, q
<1>3. m \in PolysOf(T) BY <1>1, MergeIsPoly, UnitsAreRat
<1>4. ASSUME NEW F, NEW rho, Grown(T, F), IsAssignment(T, rho)
      PROVE  /\ Numeric(F, rho, DOMAIN m)
             /\ PolyValue(F, rho, m) = Minus(NumberIn(F, rho, x), NumberIn(F, rho, y))
  <2> DEFINE a == NumberIn(F, rho, x)
             b == NumberIn(F, rho, y)
  <2>1. /\ Numeric(F, rho, DOMAIN p) /\ PolyValue(F, rho, p) = a
        /\ Numeric(F, rho, DOMAIN q) /\ PolyValue(F, rho, q) = b
    BY <1>4, TermPolyValue DEF p, q
  <2> HIDE DEF a, b
  <2>2. Numeric(F, rho, DOMAIN m) /\ PolyValue(F, rho, m) = Plus(a, Times(MinusOne, b))
    BY <1>1, <2>1, MergeValue, UnitsAreRat
  <2>3. QED BY <2>2 DEF a, b, Minus
<1> HIDE DEF m
<1>5. QED BY <1>2, <1>3, <1>4

LEMMA MinusSays ==
  ASSUME NEW T, WellBuilt(T), NEW x \in RealOf(T), NEW y \in RealOf(T)
  PROVE  LET r == mk_arithmetic_minus(T, x, y)
         IN /\ Number(T, r)
            /\ \A F, rho :
                 Grown(r.tab, F) /\ IsAssignment(T, rho)
                   => NumberIn(F, rho, r.term) = Minus(NumberIn(F, rho, x), NumberIn(F, rho, y))
<1> DEFINE m == Difference(T, x, y)
           r == mk_arithmetic_minus(T, x, y)
<1>1. r = poly_to_term(T, m) BY DEF mk_arithmetic_minus, Difference
<1>2. m \in PolysOf(T) BY DifferenceSays
<1> HIDE DEF m, r
<1>3. Number(T, r) BY <1>1, <1>2, PolyTermSays
<1>4. ASSUME NEW F, NEW rho, Grown(r.tab, F), IsAssignment(T, rho)
      PROVE  NumberIn(F, rho, r.term) = Minus(NumberIn(F, rho, x), NumberIn(F, rho, y))
  <2>1. Grown(T, F) /\ NumberIn(F, rho, r.term) = PolyValue(F, rho, m)
    BY <1>1, <1>2, <1>4, PolyTermMeans
  <2>2. QED BY <1>4, <2>1, DifferenceSays DEF m
<1>5. QED BY <1>3, <1>4 DEF r

\* A polynomial times a constant.
LEMMA ScaledSays ==
  ASSUME NEW T, WellBuilt(T), NEW x \in RealOf(T), NEW c \in Rat, c # Zero
  PROVE  LET r == poly_to_term(T, Scaled(term_to_poly(T, x), c))
         IN /\ Number(T, r)
            /\ \A F, rho :
                 Grown(r.tab, F) /\ IsAssignment(T, rho)
                   => NumberIn(F, rho, r.term) = Times(c, NumberIn(F, rho, x))
<1> DEFINE p == term_to_poly(T, x)
           m == Scaled(p, c)
           r == poly_to_term(T, m)
<1>1. p \in PolysOf(T) BY TermPolyIs
<1> HIDE DEF p
<1>2. m \in PolysOf(T) BY <1>1, ScaledIsPoly
<1>3. Number(T, r) BY <1>2, PolyTermSays
<1>4. ASSUME NEW F, NEW rho, Grown(r.tab, F), IsAssignment(T, rho)
      PROVE  NumberIn(F, rho, r.term) = Times(c, NumberIn(F, rho, x))
  <2>1. Grown(T, F) /\ NumberIn(F, rho, r.term) = PolyValue(F, rho, m)
    <3> HIDE DEF m
    <3>1. QED BY <1>2, <1>4, PolyTermMeans
  <2>2. Numeric(F, rho, DOMAIN p) /\ PolyValue(F, rho, p) = NumberIn(F, rho, x)
    BY <1>4, <2>1, TermPolyValue DEF p
  <2>3. PolyValue(F, rho, m) = Times(c, PolyValue(F, rho, p))
    BY <1>1, <2>2, ScaledValue
  <2>4. QED BY <2>1, <2>2, <2>3
<1>5. QED BY <1>3, <1>4 DEF p

LEMMA UnaryMinusSays ==
  ASSUME NEW T, WellBuilt(T), NEW x \in RealOf(T)
  PROVE  LET r == mk_unary_minus(T, x)
         IN /\ Number(T, r)
            /\ \A F, rho :
                 Grown(r.tab, F) /\ IsAssignment(T, rho)
                   => NumberIn(F, rho, r.term) = Times(MinusOne, NumberIn(F, rho, x))
<1>1. mk_unary_minus(T, x) = poly_to_term(T, Scaled(term_to_poly(T, x), MinusOne))
  BY DEF mk_unary_minus
<1>2. MinusOne \in Rat /\ MinusOne # Zero BY UnitsAreRat
<1> DEFINE r == mk_unary_minus(T, x)
           c == MinusOne
<1>3. r = poly_to_term(T, Scaled(term_to_poly(T, x), c)) /\ c \in Rat /\ c # Zero
  BY <1>1, <1>2
<1> HIDE DEF r, c
<1>4. /\ Number(T, r)
      /\ \A F, rho :
           Grown(r.tab, F) /\ IsAssignment(T, rho)
             => NumberIn(F, rho, r.term) = Times(c, NumberIn(F, rho, x))
  BY <1>3, ScaledSays
<1>5. QED BY <1>4 DEF r, c

LEMMA KeptNumber ==
  ASSUME NEW T, WellBuilt(T), NEW x \in RealOf(T)
  PROVE  Number(T, Kept(T, x)) /\ Kept(T, x).tab = T /\ Kept(T, x).term = x
<1>1. Kept(T, x).tab = T /\ Kept(T, x).term = x BY DEF Kept
<1>2. QED BY <1>1, GrownReflexive DEF Number

LEMMA ConstantMeans ==
  ASSUME NEW T, WellBuilt(T), NEW q \in Rat
  PROVE  LET r == arithmetic_constant(T, q)
         IN Number(T, r) /\ \A F, rho : Grown(r.tab, F) => NumberIn(F, rho, r.term) = q
<1> DEFINE r == arithmetic_constant(T, q)
           G == r.tab
           t == r.term
<1>1. Number(T, r) /\ get_kind(G, t) = "constant" /\ arithmetic_constant_value(G, t) = q
  BY ConstantIs
<1>2. WellBuilt(G) /\ t \in RealOf(G) BY <1>1 DEF Number, Grown
<1> HIDE DEF G, t
<1>3. \A F, rho : Grown(G, F) => NumberIn(F, rho, t) = q
  BY <1>1, <1>2, ConstantNumber
<1>4. QED BY <1>1, <1>3 DEF G, t

LEMMA ProductSays ==
  ASSUME NEW T, WellBuilt(T), NEW c \in Rat, c # Zero, NEW v \in VarLike(T)
  PROVE  LET r == arithmetic_product(T, c, v)
         IN /\ Number(T, r)
            /\ \A F, rho :
                 Grown(r.tab, F) /\ IsAssignment(T, rho)
                   => NumberIn(F, rho, r.term) = Times(c, NumberIn(F, rho, v))
<1> DEFINE r == arithmetic_product(T, c, v)
           G == r.tab
           t == r.term
<1>1. /\ Number(T, r) /\ get_kind(G, t) = "product"
      /\ var_of_product(G, t) = v /\ coeff_of_product(G, t) = c
  BY ProductIs
<1>2. WellBuilt(G) /\ t \in RealOf(G) /\ Grown(T, G)
  BY <1>1 DEF Number, Grown
<1>3. v \in RealOf(T) /\ v # Undef
  <2>1. v \in RealOf(T) BY DEF VarLike
  <2>2. QED BY <2>1, RealIs
<1> HIDE DEF r, G, t
<1>4. t \in Monomials(G) /\ VarOf(G, t) = v /\ CoeffOf(G, t) = c
  BY <1>1, <1>2 DEF Monomials, VarOf, CoeffOf
<1>5. ASSUME NEW F, NEW rho, Grown(G, F), IsAssignment(T, rho)
      PROVE  NumberIn(F, rho, t) = Times(c, NumberIn(F, rho, v))
  <2>1. Grown(T, F) BY <1>2, <1>5, GrownTransitive
  <2>2. Amount(F, rho, v) = NumberIn(F, rho, v) /\ NumberIn(F, rho, v) \in Rat
    BY <1>3, <1>5, <2>1, NumbersAre DEF Amount
  <2>3. NumberIn(F, rho, t) = Times(CoeffOf(G, t), Amount(F, rho, VarOf(G, t)))
    BY <1>2, <1>4, <1>5, <2>2, MonomialNumber
  <2>4. QED BY <1>4, <2>2, <2>3
<1>6. QED BY <1>1, <1>5 DEF r, G, t

LEMMA MultipliedSays ==
  ASSUME NEW T, WellBuilt(T), NEW c \in Rat, c # Zero, NEW x \in RealOf(T),
         ~is_arithmetic_constant(T, x)
  PROVE  LET r == Multiplied(T, c, x)
         IN /\ Number(T, r)
            /\ \A F, rho :
                 Grown(r.tab, F) /\ IsAssignment(T, rho)
                   => NumberIn(F, rho, r.term) = Times(c, NumberIn(F, rho, x))
<1>1. get_kind(T, x) \in {"uninterpreted", "ite", "product", "poly"}
  BY RealIs DEF is_arithmetic_constant
<1> DEFINE r == Multiplied(T, c, x)
<1>2. CASE get_kind(T, x) \in {"uninterpreted", "ite"}
  <2>1. r = arithmetic_product(T, c, x)
    BY <1>2 DEF Multiplied, is_var_like
  <2>2. x \in VarLike(T) BY <1>2, RealIs
  <2> HIDE DEF r
  <2>3. QED BY <2>1, <2>2, ProductSays DEF r
<1>3. CASE get_kind(T, x) = "product"
  <2> DEFINE v == var_of_product(T, x)
             d == coeff_of_product(T, x)
             e == Times(d, c)
  <2>1. r = arithmetic_product(T, e, v)
    BY <1>3 DEF Multiplied, is_var_like
  <2>2. v \in VarLike(T) /\ d \in Rat /\ d # Zero BY <1>3, RealIs
  <2>3. x \in Monomials(T) /\ VarOf(T, x) = v /\ CoeffOf(T, x) = d
    BY <1>3 DEF Monomials, VarOf, CoeffOf
  <2>4. v \in RealOf(T) /\ v # Undef
    <3>1. v \in RealOf(T) BY <2>2 DEF VarLike
    <3>2. QED BY <3>1, RealIs
  <2> HIDE DEF v, d, r
  <2>5. e \in Rat /\ e # Zero BY <2>2, TimesIsRat, TimesIsZero
  <2>6. /\ Number(T, r)
        /\ \A F, rho :
             Grown(r.tab, F) /\ IsAssignment(T, rho)
               => NumberIn(F, rho, r.term) = Times(e, NumberIn(F, rho, v))
    <3> HIDE DEF e
    <3>1. QED BY <2>1, <2>2, <2>5, ProductSays
  <2>7. ASSUME NEW F, NEW rho, Grown(r.tab, F), IsAssignment(T, rho)
        PROVE  NumberIn(F, rho, r.term) = Times(c, NumberIn(F, rho, x))
    <3> DEFINE n == NumberIn(F, rho, v)
    <3>1. Grown(T, F) BY <2>6, <2>7, NumberGrows
    <3>2. n \in Rat /\ Amount(F, rho, v) = n
      BY <2>4, <2>7, <3>1, NumbersAre DEF Amount
    <3>3. NumberIn(F, rho, x) = Times(d, n)
      <4>1. NumberIn(F, rho, x) = Times(CoeffOf(T, x), Amount(F, rho, VarOf(T, x)))
        BY <2>3, <3>1, <3>2, MonomialNumber
      <4>2. QED BY <2>3, <3>2, <4>1
    <3>4. NumberIn(F, rho, r.term) = Times(e, n) BY <2>6, <2>7
    <3> HIDE DEF n
    <3>5. Times(d, c) = Times(c, d) BY <2>2, RatCommutes
    <3>6. Times(Times(c, d), n) = Times(c, Times(d, n))
      BY <2>2, <3>2, TimesAssociates
    <3>7. QED BY <3>3, <3>4, <3>5, <3>6
  <2>8. QED BY <2>6, <2>7 DEF r
<1>4. CASE get_kind(T, x) = "poly"
  <2>1. r = poly_to_term(T, Scaled(term_to_poly(T, x), c))
    BY <1>4 DEF Multiplied, is_var_like
  <2> HIDE DEF r
  <2>2. /\ Number(T, r)
        /\ \A F, rho :
             Grown(r.tab, F) /\ IsAssignment(T, rho)
               => NumberIn(F, rho, r.term) = Times(c, NumberIn(F, rho, x))
    BY <2>1, ScaledSays
  <2>3. QED BY <2>2 DEF r
<1>5. QED BY <1>1, <1>2, <1>3, <1>4

\* The value of a product with a constant.
TimesMeans(T, r, x, y) ==
  \A F, rho :
    Grown(r.tab, F) /\ IsAssignment(T, rho)
      => NumberIn(F, rho, r.term) = Times(NumberIn(F, rho, x), NumberIn(F, rho, y))

LEMMA TimesByConstant ==
  ASSUME NEW T, WellBuilt(T), NEW k \in RealOf(T), is_arithmetic_constant(T, k),
         NEW x \in RealOf(T)
  PROVE  /\ Number(T, mk_arithmetic_times(T, k, x))
         /\ TimesMeans(T, mk_arithmetic_times(T, k, x), k, x)
<1> DEFINE c == arithmetic_constant_value(T, k)
           val == Times(Factor(T, k), Factor(T, x))
           rest == {t \in {k, x} : ~is_arithmetic_constant(T, t)}
           r == mk_arithmetic_times(T, k, x)
<1>1. get_kind(T, k) = "constant" /\ c \in Rat /\ Factor(T, k) = c
  BY RealIs DEF is_arithmetic_constant, Factor
<1>2. \A F, rho : Grown(T, F) => NumberIn(F, rho, k) = c
  BY <1>1, ConstantNumber
<1>3. r = CASE val = Zero -> Kept(T, zero_term)
            [] val # Zero /\ rest = {} -> arithmetic_constant(T, val)
            [] val = One /\ rest # {} -> Kept(T, CHOOSE t \in rest : TRUE)
            [] OTHER -> Multiplied(T, val, CHOOSE t \in rest : TRUE)
  BY DEF mk_arithmetic_times
<1> HIDE DEF c
<1>4. CASE is_arithmetic_constant(T, x)
  <2> DEFINE d == arithmetic_constant_value(T, x)
  <2>1. get_kind(T, x) = "constant" /\ d \in Rat /\ Factor(T, x) = d
    BY <1>4, RealIs DEF is_arithmetic_constant, Factor
  <2>2. \A F, rho : Grown(T, F) => NumberIn(F, rho, x) = d
    BY <2>1, ConstantNumber
  <2>3. rest = {} BY <1>4
  <2>4. val = Times(c, d) /\ val \in Rat BY <1>1, <2>1, TimesIsRat
  <2> HIDE DEF rest, d, val, r
  <2>5. /\ Number(T, r)
        /\ \A F, rho : Grown(r.tab, F) /\ IsAssignment(T, rho) => NumberIn(F, rho, r.term) = val
    <3>1. CASE val = Zero
      <4>1. r = Kept(T, zero_term) BY <1>3, <3>1, UnitsAreRat
      <4>2. /\ zero_term \in RealOf(T) /\ get_kind(T, zero_term) = "constant"
            /\ arithmetic_constant_value(T, zero_term) = Zero
        BY PrimitivesAre
      <4>3. Number(T, r) /\ r.tab = T /\ r.term = zero_term
        BY <4>1, <4>2, KeptNumber
      <4>4. \A F, rho : Grown(T, F) => NumberIn(F, rho, zero_term) = Zero
        BY <4>2, ConstantNumber
      <4>5. QED BY <3>1, <4>3, <4>4
    <3>2. CASE val # Zero
      <4>1. r = arithmetic_constant(T, val) BY <1>3, <2>3, <3>2
      <4>2. QED BY <2>4, <4>1, ConstantMeans
    <3>3. QED BY <3>1, <3>2
  <2>6. TimesMeans(T, r, k, x)
    <3>1. ASSUME NEW F, NEW rho, Grown(r.tab, F), IsAssignment(T, rho)
          PROVE  NumberIn(F, rho, r.term) = Times(NumberIn(F, rho, k), NumberIn(F, rho, x))
      <4>1. Grown(T, F) BY <2>5, <3>1, NumberGrows
      <4>2. QED BY <1>2, <2>2, <2>4, <2>5, <3>1, <4>1
    <3>2. QED BY <3>1 DEF TimesMeans
  <2>7. QED BY <2>5, <2>6 DEF r
<1>5. CASE ~is_arithmetic_constant(T, x)
  <2>1. Factor(T, x) = One BY <1>5 DEF Factor
  <2>2. val = c BY <1>1, <2>1, RatUnits
  <2>3. rest = {x} BY <1>5
  <2>4. (CHOOSE t \in rest : TRUE) = x /\ rest # {} BY <2>3
  <2> HIDE DEF rest, val, r
  <2>5. /\ Number(T, r)
        /\ \A F, rho :
             Grown(r.tab, F) /\ IsAssignment(T, rho)
               => NumberIn(F, rho, r.term) = Times(c, NumberIn(F, rho, x))
    <3>1. CASE val = Zero
      <4>1. r = Kept(T, zero_term) BY <1>3, <3>1, UnitsAreRat
      <4>2. /\ zero_term \in RealOf(T) /\ get_kind(T, zero_term) = "constant"
            /\ arithmetic_constant_value(T, zero_term) = Zero
        BY PrimitivesAre
      <4>3. Number(T, r) /\ r.tab = T /\ r.term = zero_term
        BY <4>1, <4>2, KeptNumber
      <4>4. \A F, rho : Grown(T, F) => NumberIn(F, rho, zero_term) = Zero
        BY <4>2, ConstantNumber
      <4>5. \A F, rho : Grown(T, F) /\ IsAssignment(T, rho)
                          => Times(Zero, NumberIn(F, rho, x)) = Zero
        BY NumbersAre, RatUnits
      <4>6. QED BY <2>2, <3>1, <4>3, <4>4, <4>5
    <3>2. CASE val # Zero /\ val = One
      <4>1. r = Kept(T, x) BY <1>3, <2>4, <3>2
      <4>2. Number(T, r) /\ r.tab = T /\ r.term = x BY <4>1, KeptNumber
      <4>3. \A F, rho : Grown(T, F) /\ IsAssignment(T, rho)
                          => Times(One, NumberIn(F, rho, x)) = NumberIn(F, rho, x)
        BY NumbersAre, RatUnits
      <4>4. QED BY <2>2, <3>2, <4>2, <4>3
    <3>3. CASE val # Zero /\ val # One
      <4>1. r = Multiplied(T, c, x) BY <1>3, <2>2, <2>4, <3>3
      <4>2. QED BY <1>1, <1>5, <2>2, <3>3, <4>1, MultipliedSays
    <3>4. QED BY <3>1, <3>2, <3>3
  <2>6. TimesMeans(T, r, k, x)
    <3>1. ASSUME NEW F, NEW rho, Grown(r.tab, F), IsAssignment(T, rho)
          PROVE  NumberIn(F, rho, r.term) = Times(NumberIn(F, rho, k), NumberIn(F, rho, x))
      <4>1. Grown(T, F) BY <2>5, <3>1, NumberGrows
      <4>2. QED BY <1>2, <2>5, <3>1, <4>1
    <3>2. QED BY <3>1 DEF TimesMeans
  <2>7. QED BY <2>5, <2>6 DEF r
<1>6. QED BY <1>4, <1>5

LEMMA TimesSays ==
  ASSUME NEW T, WellBuilt(T), NEW k \in RealOf(T), is_arithmetic_constant(T, k),
         NEW x \in RealOf(T)
  PROVE  /\ Number(T, mk_arithmetic_times(T, k, x))
         /\ TimesMeans(T, mk_arithmetic_times(T, k, x), x, k)
         /\ Number(T, mk_arithmetic_times(T, x, k))
         /\ TimesMeans(T, mk_arithmetic_times(T, x, k), x, k)
<1>1. Factor(T, k) \in Rat /\ Factor(T, x) \in Rat
  BY RealIs, UnitsAreRat DEF is_arithmetic_constant, Factor
<1>2. mk_arithmetic_times(T, x, k) = mk_arithmetic_times(T, k, x)
  <2>1. Times(Factor(T, x), Factor(T, k)) = Times(Factor(T, k), Factor(T, x))
    BY <1>1, RatCommutes
  <2>2. {t \in {x, k} : ~is_arithmetic_constant(T, t)}
          = {t \in {k, x} : ~is_arithmetic_constant(T, t)}
    OBVIOUS
  <2>3. QED BY <2>1, <2>2, Zenon DEF mk_arithmetic_times
<1> DEFINE r == mk_arithmetic_times(T, k, x)
<1>3. Number(T, r) /\ TimesMeans(T, r, k, x) BY TimesByConstant
<1> HIDE DEF r
<1>4. ASSUME NEW F, NEW rho, Grown(r.tab, F), IsAssignment(T, rho)
      PROVE  NumberIn(F, rho, r.term) = Times(NumberIn(F, rho, x), NumberIn(F, rho, k))
  <2>1. Grown(T, F) BY <1>3, <1>4, NumberGrows
  <2>2. NumberIn(F, rho, x) \in Rat /\ NumberIn(F, rho, k) \in Rat
    BY <1>4, <2>1, NumbersAre
  <2>3. QED BY <1>3, <1>4, <2>2, RatCommutes DEF TimesMeans
<1>5. TimesMeans(T, r, x, k) BY <1>4 DEF TimesMeans
<1>6. QED BY <1>2, <1>3, <1>5 DEF r

LEMMA AssignmentStays ==
  ASSUME NEW T, WellBuilt(T), NEW q \in Rat, NEW rho, IsAssignment(T, rho)
  PROVE  IsAssignment(arithmetic_constant(T, q).tab, rho)
<1> DEFINE e == [kind |-> "constant", type |-> "real", args |-> << >>, value |-> q]
           G == arithmetic_constant(T, q).tab
<1>1. G = IF \E i \in DOMAIN T : T[i] = e THEN T ELSE Append(T, e)
  BY DEF arithmetic_constant, Intern, Kept
<1>2. /\ e.kind = "constant" /\ e \in Entry
      /\ T \in Seq(Entry) /\ Len(T) \in Nat /\ DOMAIN T = 1..Len(T)
  <2>1. e.kind = "constant" /\ e \in Entry BY DEF Entry, Kinds
  <2>2. QED BY <2>1, TableFacts
<1> HIDE DEF e
<1>3. \A i \in DOMAIN G : (i \in DOMAIN T /\ G[i] = T[i]) \/ G[i] = e
  BY <1>1, <1>2
<1> HIDE DEF G
<1>4. QED BY <1>2, <1>3 DEF IsAssignment, IsValuation, G

\* The casts change no value that fits the other type.
LEMMA CastsKeep ==
  /\ \A v \in Word : word(v) = v
  /\ \A v \in UWord : uword(v) = v
<1>1. W \in Nat /\ W >= 1 BY WidthAssumption
<1>2. ASSUME NEW v \in Word
      PROVE  word(v) = v
  BY <1>1 DEF Word, word
<1>3. ASSUME NEW v \in UWord
      PROVE  uword(v) = v
  BY <1>1 DEF UWord, uword
<1>4. QED BY <1>2, <1>3

\* The constructor leaves two words that have nothing in common alone.
LEMMA OfWordsIs ==
  ASSUME NEW m \in Word, NEW l \in UWord, l # 0, Coprime(m, l), m # 0
  PROVE  OfWords(word(m), uword(l)) = <<m, l>>
<1>1. m \in Int /\ l \in Int /\ Abs(l) = l
  BY WidthAssumption DEF Word, UWord, Abs
<1>2. gcd(Abs(m), l) = 1
  <2>1. gcd(Abs(m), Abs(l)) = 1 BY <1>1, GcdOfCoprime
  <2>2. QED BY <1>1, <2>1
<1>3. word(m) = m /\ uword(l) = l BY CastsKeep
<1>4. QED BY <1>2, <1>3 DEF OfWords

\* Where inv() returns the reciprocal.
LEMMA InvIsReciprocal ==
  ASSUME NEW q \in Rat, q # Zero, FitsWord(q), SignedDenominator(q) \in Word
  PROVE  InvOfWords(q) = Over(One, q)
<1>1. PICK a \in Int, b \in Nat \ {0} : q = <<a, b>> /\ Coprime(a, b)
  BY RatIs
<1>2. q[1] = a /\ q[2] = b /\ a # 0 BY <1>1, ZeroIsRat
<1>3. W \in Nat /\ -W <= a /\ a <= W - 1
  BY <1>2, WidthAssumption DEF FitsWord, Word
<1>4. Coprime(b, a) /\ b \in Int BY <1>1, CoprimeSymmetric
<1>5. Over(One, q) = Frac(b, a) BY <1>2 DEF Over, One
<1>6. CASE a > 0
  <2>1. b \in Word BY <1>2, <1>6 DEF SignedDenominator
  <2>2. a \in UWord /\ a # 0 BY <1>3, <1>6 DEF UWord
  <2>3. OfWords(word(b), uword(a)) = <<b, a>>
    BY <1>1, <1>4, <2>1, <2>2, OfWordsIs
  <2>4. Frac(b, a) = <<b, a>>
    <3>1. PICK l \in Nat \ {0} : l = a BY <1>6
    <3>2. b * l = b * l /\ l \in Int /\ l # 0 /\ Coprime(b, l) BY <1>4, <3>1
    <3>3. Frac(b, l) = <<b, l>> BY <1>4, <3>2, FracIs
    <3>4. QED BY <3>1, <3>3
  <2>5. QED BY <1>2, <1>5, <1>6, <2>3, <2>4 DEF InvOfWords
<1>7. CASE a < 0
  <2>1. PICK n \in Int, l \in Nat \ {0} : n = -b /\ l = -a BY <1>7
  <2>2. Coprime(n, l)
    <3>1. Coprime(n, a) BY <1>4, <2>1, CoprimeNegated
    <3>2. Coprime(a, n) BY <3>1, CoprimeSymmetric
    <3>3. Coprime(l, n) BY <2>1, <3>2, CoprimeNegated
    <3>4. QED BY <3>3, CoprimeSymmetric
  <2>3. n * a = b * l
    <3>1. (-b) * a = b * (-a) OBVIOUS
    <3>2. QED BY <2>1, <3>1
  <2>4. Frac(b, a) = <<n, l>> BY <1>2, <1>4, <2>2, <2>3, FracIs
  <2>5. n \in Word /\ n # 0 BY <1>2, <1>7, <2>1 DEF SignedDenominator
  <2>6. l \in UWord /\ l # 0
    <3>1. 0 <= l /\ l <= 2 * W - 1 BY <1>3, <2>1, WidthAssumption
    <3>2. QED BY <1>3, <2>1, <3>1 DEF UWord
  <2>7. OfWords(word(n), uword(l)) = <<n, l>>
    BY <2>2, <2>5, <2>6, OfWordsIs
  <2>8. QED BY <1>2, <1>5, <1>7, <2>1, <2>4, <2>7 DEF InvOfWords
<1>8. QED BY <1>2, <1>6, <1>7

LEMMA DividesSays ==
  ASSUME NEW T, WellBuilt(T), NEW x \in RealOf(T), NEW y \in RealOf(T),
         is_arithmetic_constant(T, y), y # zero_term, HasQuotient(T, x, y)
  PROVE  LET r == mk_divides(T, x, y)
         IN /\ Number(T, r)
            /\ \A F, rho :
                 Grown(r.tab, F) /\ IsAssignment(T, rho)
                   => NumberIn(F, rho, r.term) = Over(NumberIn(F, rho, x), NumberIn(F, rho, y))
<1> DEFINE r == mk_divides(T, x, y)
           d == arithmetic_constant_value(T, y)
<1>1. d \in Rat /\ d # Zero /\ get_kind(T, y) = "constant"
  BY RealIs, PrimitivesAre DEF is_arithmetic_constant
<1>2. \A F, rho : Grown(T, F) => NumberIn(F, rho, y) = d
  BY <1>1, ConstantNumber
<1>3. CASE is_arithmetic_constant(T, x)
  <2> DEFINE c == arithmetic_constant_value(T, x)
  <2>1. c \in Rat /\ get_kind(T, x) = "constant"
    BY <1>3, RealIs DEF is_arithmetic_constant
  <2>2. \A F, rho : Grown(T, F) => NumberIn(F, rho, x) = c
    BY <2>1, ConstantNumber
  <2>3. r = arithmetic_constant(T, Over(c, d)) BY <1>3 DEF mk_divides
  <2> HIDE DEF r, c, d
  <2>4. Over(c, d) \in Rat BY <1>1, <2>1, OverIsRat
  <2>5. Number(T, r) /\ \A F, rho : Grown(r.tab, F) => NumberIn(F, rho, r.term) = Over(c, d)
    BY <2>3, <2>4, ConstantMeans
  <2>6. \A F : Grown(r.tab, F) => Grown(T, F) BY <2>5, NumberGrows
  <2>7. QED BY <1>2, <2>2, <2>5, <2>6 DEF r
<1>4. CASE ~is_arithmetic_constant(T, x)
  <2> DEFINE q == Over(One, d)
             k == arithmetic_constant(T, q)
             G == k.tab
             t == k.term
  <2>0. InvOfWords(d) = q BY <1>1, <1>4, InvIsReciprocal DEF HasQuotient
  <2>1. r = mk_arithmetic_times(G, x, t) BY <1>4, <2>0 DEF mk_divides
  <2> HIDE DEF r, d
  <2>2. q \in Rat BY <1>1, OverIsZero
  <2> HIDE DEF q
  <2>3. Number(T, k) /\ get_kind(G, t) = "constant" /\ arithmetic_constant_value(G, t) = q
    BY <2>2, ConstantIs
  <2>4. \A rho : IsAssignment(T, rho) => IsAssignment(G, rho)
    BY <2>2, AssignmentStays
  <2> HIDE DEF k
  <2>5. WellBuilt(G) /\ t \in RealOf(G) /\ x \in RealOf(G) /\ Grown(T, G)
    BY <2>3, NumberGrows DEF Number
  <2> HIDE DEF G, t
  <2>6. is_arithmetic_constant(G, t) BY <2>3 DEF is_arithmetic_constant
  <2>7. Number(G, r) /\ TimesMeans(G, r, x, t)
    BY <2>1, <2>5, <2>6, TimesSays
  <2>8. ASSUME NEW F, NEW rho, Grown(r.tab, F), IsAssignment(T, rho)
        PROVE  NumberIn(F, rho, r.term) = Over(NumberIn(F, rho, x), NumberIn(F, rho, y))
    <3>1. Grown(G, F) BY <2>5, <2>7, <2>8, NumberGrows
    <3>2. Grown(T, F) BY <2>5, <3>1, GrownTransitive
    <3>3. NumberIn(F, rho, r.term) = Times(NumberIn(F, rho, x), NumberIn(F, rho, t))
      BY <2>4, <2>7, <2>8 DEF TimesMeans
    <3>4. NumberIn(F, rho, t) = q BY <2>3, <2>5, <3>1, ConstantNumber
    <3>5. NumberIn(F, rho, x) \in Rat BY <2>8, <3>2, NumbersAre
    <3>6. QED BY <1>1, <1>2, <3>2, <3>3, <3>4, <3>5, OverIs DEF q
  <2>9. Number(T, r) BY <2>5, <2>7, GrownTransitive DEF Number
  <2>10. QED BY <2>8, <2>9 DEF r
<1>5. QED BY <1>3, <1>4

\* A term that is looked up or added.
LEMMA InternedValue ==
  ASSUME NEW T, WellBuilt(T), NEW e, Shape(T, e), e.kind # "uninterpreted"
  PROVE  LET r == Intern(T, e)
             n == index_of(r.term)
         IN /\ Grown(T, r.tab)
            /\ r.term \in TermOf(r.tab) /\ ~is_negated(r.term)
            /\ get_kind(r.tab, r.term) = e.kind /\ get_type(r.tab, r.term) = e.type
            /\ \A F, rho :
                 Grown(r.tab, F)
                   => ValuesIn(F, rho)[n] = Worth(e, rho[2 * n], ValuesIn(F, rho))
<1> DEFINE r == Intern(T, e)
           G == r.tab
           t == r.term
<1>1. Grown(T, G) /\ t \in TermOf(G) /\ ~is_negated(t) /\ G[index_of(t)] = e
  BY InternGrows
<1>2. WellBuilt(G) BY <1>1 DEF Grown
<1> HIDE DEF G, t
<1>3. ASSUME NEW F, NEW rho, Grown(G, F)
      PROVE  ValuesIn(F, rho)[index_of(t)]
               = Worth(e, rho[2 * index_of(t)], ValuesIn(F, rho))
  BY <1>1, <1>2, <1>3, EntryValue
<1>4. get_kind(G, t) = e.kind /\ get_type(G, t) = e.type
  BY <1>1 DEF get_kind, get_type
<1>5. QED BY <1>1, <1>3, <1>4 DEF G, t

LEMMA RealIteSays ==
  ASSUME NEW T, WellBuilt(T), NEW c \in BoolOf(T), NEW x \in RealOf(T), NEW y \in RealOf(T)
  PROVE  LET r == mk_arithmetic_ite(T, c, x, y)
         IN /\ Number(T, r)
            /\ \A F, rho :
                 Grown(r.tab, F) /\ IsAssignment(T, rho)
                   => NumberIn(F, rho, r.term)
                        = IF Truth(F, rho, c) THEN NumberIn(F, rho, x) ELSE NumberIn(F, rho, y)
<1> DEFINE r == mk_arithmetic_ite(T, c, x, y)
<1>1. CASE c = true_term
  <2>1. r = Kept(T, x)
    BY <1>1 DEF mk_arithmetic_ite, true_term, false_term
  <2> HIDE DEF r
  <2>2. Number(T, r) /\ r.tab = T /\ r.term = x BY <2>1, KeptNumber
  <2>3. \A F, rho : Grown(T, F) => Truth(F, rho, c) = TRUE
    BY <1>1, TruthOfConstants DEF Grown
  <2>4. QED BY <2>2, <2>3 DEF r
<1>2. CASE c = false_term
  <2>1. r = Kept(T, y)
    BY <1>2 DEF mk_arithmetic_ite, true_term, false_term
  <2> HIDE DEF r
  <2>2. Number(T, r) /\ r.tab = T /\ r.term = y BY <2>1, KeptNumber
  <2>3. \A F, rho : Grown(T, F) => Truth(F, rho, c) = FALSE
    BY <1>2, TruthOfConstants DEF Grown
  <2>4. QED BY <2>2, <2>3 DEF r
<1>3. CASE c \notin {true_term, false_term} /\ x = y
  <2>1. r = Kept(T, x) BY <1>3 DEF mk_arithmetic_ite
  <2> HIDE DEF r
  <2>2. Number(T, r) /\ r.tab = T /\ r.term = x BY <2>1, KeptNumber
  <2>3. QED BY <1>3, <2>2 DEF r
<1>4. CASE c \notin {true_term, false_term} /\ x # y
  <2> DEFINE p == positive_term(c)
             s == IF is_negated(c) THEN y ELSE x
             t == IF is_negated(c) THEN x ELSE y
             e == Composite("ite", "real", <<p, s, t>>)
             n == index_of(r.term)
  <2>1. r = Intern(T, e) BY <1>4 DEF mk_arithmetic_ite
  <2>2. /\ c \in TermOf(T) /\ c \in Nat /\ p \in Nat /\ ~is_negated(p)
        /\ index_of(p) = index_of(c)
    <3>1. c \in Nat /\ c \in TermOf(T) BY BoolIsTerm
    <3>2. QED BY <3>1, HandleFacts
  <2>3. p \in BoolOf(T) /\ get_kind(T, p) # "true"
    <3>1. get_kind(T, c) # "true" BY <1>4, NotConstant
    <3>2. QED BY <2>2, <3>1 DEF BoolOf, TermOf, get_type, get_kind
  <2>4. s \in RealOf(T) /\ t \in RealOf(T) OBVIOUS
  <2> HIDE DEF s, t, p
  <2>5. p \in TermOf(T) /\ s \in TermOf(T) /\ t \in TermOf(T) /\ s \in Nat /\ t \in Nat
    BY <2>3, <2>4, RealIs DEF BoolOf
  <2>6. /\ e.kind = "ite" /\ e.type = "real" /\ e.args = <<p, s, t>> /\ e.value = Zero
        /\ e \in Entry
    BY <2>2, <2>5, UnitsAreRat DEF Composite, Entry, Kinds
  <2>7. /\ e.args[1] = p /\ e.args[2] = s /\ e.args[3] = t /\ Len(e.args) = 3
        /\ DOMAIN e.args = 1..3
    BY <2>6
  <2> HIDE DEF e, r
  <2>8. IteShape(T, e) BY <2>2, <2>3, <2>4, <2>6, <2>7 DEF IteShape
  <2>9. Shape(T, e)
    <3>1. \A k \in DOMAIN e.args : e.args[k] \in TermOf(T) BY <2>5, <2>7
    <3>2. QED BY <2>6, <2>8, <3>1 DEF Shape
  <2>10. /\ Grown(T, r.tab)
         /\ r.term \in TermOf(r.tab) /\ ~is_negated(r.term)
         /\ get_kind(r.tab, r.term) = e.kind /\ get_type(r.tab, r.term) = e.type
         /\ \A F, rho :
              Grown(r.tab, F) => ValuesIn(F, rho)[n] = Worth(e, rho[2 * n], ValuesIn(F, rho))
    BY <2>1, <2>6, <2>9, InternedValue
  <2>11. Number(T, r) BY <2>6, <2>10 DEF Number, RealOf
  <2>12. ASSUME NEW F, NEW rho, Grown(r.tab, F), IsAssignment(T, rho)
         PROVE  NumberIn(F, rho, r.term)
                  = IF Truth(F, rho, c) THEN NumberIn(F, rho, x) ELSE NumberIn(F, rho, y)
    <3> DEFINE val == ValuesIn(F, rho)
    <3>1. Grown(T, F) /\ Logical(F, rho, c)
      <4>1. Grown(T, F) BY <2>11, <2>12, NumberGrows
      <4>2. QED BY <2>12, <4>1, FormulasAreLogical DEF IsAssignment
    <3>2. NumberIn(F, rho, r.term) = Worth(e, rho[2 * n], val)
      BY <2>10, <2>12 DEF NumberIn
    <3>3. Worth(e, rho[2 * n], val)
            = IF val[index_of(p)] THEN val[index_of(s)] ELSE val[index_of(t)]
      BY <2>6, <2>7, WorthOfIte
    <3>4. Truth(F, rho, c) = IF is_negated(c) THEN ~val[index_of(p)] ELSE val[index_of(p)]
      BY <2>2 DEF Truth, Value
    <3>5. val[index_of(p)] \in BOOLEAN BY <2>2, <3>1 DEF Logical
    <3> HIDE DEF val
    <3>6. (IF val[index_of(p)] THEN val[index_of(s)] ELSE val[index_of(t)])
            = IF Truth(F, rho, c) THEN val[index_of(x)] ELSE val[index_of(y)]
      BY <3>4, <3>5 DEF s, t
    <3>7. QED BY <3>2, <3>3, <3>6 DEF NumberIn, val
  <2>13. QED BY <2>11, <2>12 DEF r
<1>5. QED BY <1>1, <1>2, <1>3, <1>4

-----------------------------------------------------------------------------
(* Atoms.                                                                  *)

\* x >= 0 or x = 0 about a term that is not a constant.
LEMMA AtomSays ==
  ASSUME NEW T, WellBuilt(T), NEW x \in RealOf(T), get_kind(T, x) # "constant",
         NEW kind \in {"geq", "eq"}
  PROVE  LET r == Intern(T, Composite(kind, "bool", <<x>>))
         IN /\ Formula(T, r) /\ ~is_negated(r.term)
            /\ \A F, rho :
                 Grown(r.tab, F)
                   => /\ Logical(F, rho, r.term)
                      /\ Truth(F, rho, r.term)
                           = IF kind = "geq" THEN AtLeast(NumberIn(F, rho, x), Zero)
                             ELSE NumberIn(F, rho, x) = Zero
<1> DEFINE e == Composite(kind, "bool", <<x>>)
           r == Intern(T, e)
           n == index_of(r.term)
<1>1. x \in TermOf(T) /\ x \in Nat BY RealIs
<1>2. /\ e.kind = kind /\ e.type = "bool" /\ e.args = <<x>> /\ e.value = Zero
      /\ e \in Entry
  BY <1>1, UnitsAreRat DEF Composite, Entry, Kinds
<1>3. e.args[1] = x /\ Len(e.args) = 1 /\ DOMAIN e.args = 1..1 BY <1>2
<1> HIDE DEF e, r
<1>4. AtomShape(T, e) BY <1>2, <1>3 DEF AtomShape
<1>5. Shape(T, e)
  <2>1. \A k \in DOMAIN e.args : e.args[k] \in TermOf(T) BY <1>1, <1>3
  <2>2. QED BY <1>2, <1>4, <2>1 DEF Shape
<1>6. /\ Grown(T, r.tab)
      /\ r.term \in TermOf(r.tab) /\ ~is_negated(r.term)
      /\ get_type(r.tab, r.term) = e.type
      /\ \A F, rho :
           Grown(r.tab, F) => ValuesIn(F, rho)[n] = Worth(e, rho[2 * n], ValuesIn(F, rho))
  BY <1>2, <1>5, InternedValue DEF r
<1>7. Formula(T, r) BY <1>2, <1>6 DEF Formula, BoolOf
<1>8. ASSUME NEW F, NEW rho, Grown(r.tab, F)
      PROVE  /\ Logical(F, rho, r.term)
             /\ Truth(F, rho, r.term)
                  = IF kind = "geq" THEN AtLeast(NumberIn(F, rho, x), Zero)
                    ELSE NumberIn(F, rho, x) = Zero
  <2> DEFINE val == ValuesIn(F, rho)
  <2>1. val[n] = Worth(e, rho[2 * n], val) BY <1>6, <1>8
  <2>2. Truth(F, rho, r.term) = val[n] BY <1>6 DEF Truth, Value
  <2>3. val[index_of(x)] = NumberIn(F, rho, x) BY DEF NumberIn
  <2> HIDE DEF val
  <2>4. CASE kind = "geq"
    <3>1. Worth(e, rho[2 * n], val) = AtLeast(val[index_of(x)], Zero)
      BY <1>2, <1>3, <2>4, WorthOfAtom
    <3>2. AtLeast(val[index_of(x)], Zero) \in BOOLEAN BY DEF AtLeast
    <3>3. QED BY <2>1, <2>2, <2>3, <2>4, <3>1, <3>2 DEF Logical, val
  <2>5. CASE kind = "eq"
    <3>1. Worth(e, rho[2 * n], val) = (val[index_of(x)] = Zero)
      BY <1>2, <1>3, <2>5, WorthOfAtom
    <3>2. QED BY <2>1, <2>2, <2>3, <2>5, <3>1 DEF Logical, val
  <2>6. QED BY <2>4, <2>5
<1>9. QED BY <1>6, <1>7, <1>8 DEF r, e

LEMMA EquationSays ==
  ASSUME NEW T, WellBuilt(T), NEW x \in VarLike(T), NEW y \in RealOf(T),
         get_kind(T, y) \in {"uninterpreted", "ite", "constant"}, x # y
  PROVE  LET r == arithmetic_binary_eq(T, x, y)
         IN /\ Formula(T, r)
            /\ \A F, rho :
                 Grown(r.tab, F)
                   => /\ Logical(F, rho, r.term)
                      /\ Truth(F, rho, r.term) = (NumberIn(F, rho, x) = NumberIn(F, rho, y))
<1> DEFINE e == Composite("bineq", "bool", <<x, y>>)
           r == Intern(T, e)
           n == index_of(r.term)
<1>1. x \in TermOf(T) /\ x \in Nat /\ y \in TermOf(T) /\ y \in Nat
  <2>1. x \in RealOf(T) BY DEF VarLike
  <2>2. QED BY <2>1, RealIs
<1>2. /\ e.kind = "bineq" /\ e.type = "bool" /\ e.args = <<x, y>> /\ e.value = Zero
      /\ e \in Entry
  BY <1>1, UnitsAreRat DEF Composite, Entry, Kinds
<1>3. e.args[1] = x /\ e.args[2] = y /\ Len(e.args) = 2 /\ DOMAIN e.args = 1..2
  BY <1>2
<1>4. arithmetic_binary_eq(T, x, y) = r BY DEF arithmetic_binary_eq
<1> HIDE DEF e, r
<1>5. EquationShape(T, e) BY <1>2, <1>3 DEF EquationShape
<1>6. Shape(T, e)
  <2>1. \A k \in DOMAIN e.args : e.args[k] \in TermOf(T) BY <1>1, <1>3
  <2>2. QED BY <1>2, <1>5, <2>1 DEF Shape
<1>7. /\ Grown(T, r.tab)
      /\ r.term \in TermOf(r.tab) /\ ~is_negated(r.term)
      /\ get_type(r.tab, r.term) = e.type
      /\ \A F, rho :
           Grown(r.tab, F) => ValuesIn(F, rho)[n] = Worth(e, rho[2 * n], ValuesIn(F, rho))
  BY <1>2, <1>6, InternedValue DEF r
<1>8. Formula(T, r) BY <1>2, <1>7 DEF Formula, BoolOf
<1>9. ASSUME NEW F, NEW rho, Grown(r.tab, F)
      PROVE  /\ Logical(F, rho, r.term)
             /\ Truth(F, rho, r.term) = (NumberIn(F, rho, x) = NumberIn(F, rho, y))
  <2> DEFINE val == ValuesIn(F, rho)
  <2>1. val[n] = Worth(e, rho[2 * n], val) BY <1>7, <1>9
  <2>2. Truth(F, rho, r.term) = val[n] BY <1>7 DEF Truth, Value
  <2>3. val[index_of(x)] = NumberIn(F, rho, x) /\ val[index_of(y)] = NumberIn(F, rho, y)
    BY DEF NumberIn
  <2> HIDE DEF val
  <2>4. Worth(e, rho[2 * n], val) = (val[index_of(x)] = val[index_of(y)])
    BY <1>2, <1>3, WorthOfAtom
  <2>5. QED BY <2>1, <2>2, <2>3, <2>4 DEF Logical, val
<1>10. QED BY <1>4, <1>8, <1>9

\* Whichever side comes first.
LEMMA DirectEquationSays ==
  ASSUME NEW T, WellBuilt(T), NEW x \in VarLike(T), NEW y \in RealOf(T),
         get_kind(T, y) \in {"uninterpreted", "ite", "constant"}, x # y
  PROVE  LET r == direct_arithmetic_binary_equality(T, x, y)
         IN /\ Formula(T, r)
            /\ \A F, rho :
                 Grown(r.tab, F)
                   => /\ Logical(F, rho, r.term)
                      /\ Truth(F, rho, r.term) = (NumberIn(F, rho, x) = NumberIn(F, rho, y))
<1> DEFINE r == direct_arithmetic_binary_equality(T, x, y)
<1>1. is_var_like(T, x) /\ x \in RealOf(T) BY DEF VarLike
<1>2. CASE is_var_like(T, y) /\ y < x
  <2>1. r = arithmetic_binary_eq(T, y, x)
    BY <1>2 DEF direct_arithmetic_binary_equality
  <2>2. y \in VarLike(T) /\ get_kind(T, x) \in {"uninterpreted", "ite"}
    BY <1>1, <1>2 DEF VarLike, is_var_like
  <2> HIDE DEF r
  <2>3. /\ Formula(T, r)
        /\ \A F, rho :
             Grown(r.tab, F)
               => /\ Logical(F, rho, r.term)
                  /\ Truth(F, rho, r.term) = (NumberIn(F, rho, y) = NumberIn(F, rho, x))
    BY <1>1, <2>1, <2>2, EquationSays
  <2>4. QED BY <2>3 DEF r
<1>3. CASE ~ (is_var_like(T, y) /\ y < x)
  <2>1. r = arithmetic_binary_eq(T, x, y)
    BY <1>1, <1>3 DEF direct_arithmetic_binary_equality
  <2> HIDE DEF r
  <2>2. QED BY <2>1, EquationSays DEF r
<1>4. QED BY <1>2, <1>3

\* The atom r compares x and y.
ComparesAtLeast(T, r, x, y) ==
  \A F, rho :
    Grown(r.tab, F) /\ IsAssignment(T, rho)
      => /\ Logical(F, rho, r.term)
         /\ Truth(F, rho, r.term) = AtLeast(NumberIn(F, rho, x), NumberIn(F, rho, y))

LEMMA GeqSays ==
  ASSUME NEW T, WellBuilt(T), NEW x \in RealOf(T), NEW y \in RealOf(T)
  PROVE  /\ Formula(T, mk_arithmetic_geq(T, x, y))
         /\ ComparesAtLeast(T, mk_arithmetic_geq(T, x, y), x, y)
<1> DEFINE diff == mk_arithmetic_minus(T, x, y)
           G == diff.tab
           t == diff.term
           r == mk_arithmetic_geq(T, x, y)
<1>1. /\ Number(T, diff)
      /\ \A F, rho :
           Grown(G, F) /\ IsAssignment(T, rho)
             => NumberIn(F, rho, t) = Minus(NumberIn(F, rho, x), NumberIn(F, rho, y))
  BY MinusSays
<1>2. WellBuilt(G) /\ Grown(T, G) /\ t \in RealOf(G)
  BY <1>1, NumberGrows DEF Number
<1>3. r = IF is_arithmetic_constant(G, t)
            THEN Kept(G, IF AtLeast(arithmetic_constant_value(G, t), Zero)
                           THEN true_term ELSE false_term)
            ELSE arithmetic_geq_zero(G, t)
  BY DEF mk_arithmetic_geq
<1> HIDE DEF diff, G, t, r
<1>4. ASSUME NEW F, NEW rho, Grown(G, F), IsAssignment(T, rho)
      PROVE  AtLeast(NumberIn(F, rho, t), Zero) = AtLeast(NumberIn(F, rho, x), NumberIn(F, rho, y))
  <2> DEFINE a == NumberIn(F, rho, x)
             b == NumberIn(F, rho, y)
  <2>1. Grown(T, F) BY <1>2, <1>4, GrownTransitive
  <2>2. a \in Rat /\ b \in Rat BY <1>4, <2>1, NumbersAre
  <2>3. NumberIn(F, rho, t) = Minus(a, b) BY <1>1, <1>4
  <2> HIDE DEF a, b
  <2>4. AtLeast(Minus(a, b), Zero) <=> AtLeast(a, b) BY <2>2, AtLeastIs
  <2>5. AtLeast(Minus(a, b), Zero) \in BOOLEAN /\ AtLeast(a, b) \in BOOLEAN
    BY DEF AtLeast
  <2>6. QED BY <2>3, <2>4, <2>5 DEF a, b
<1>5. CASE is_arithmetic_constant(G, t)
  <2> DEFINE c == arithmetic_constant_value(G, t)
             b == IF AtLeast(c, Zero) THEN true_term ELSE false_term
  <2>1. get_kind(G, t) = "constant" BY <1>5 DEF is_arithmetic_constant
  <2>2. \A F, rho : Grown(G, F) => NumberIn(F, rho, t) = c
    BY <1>2, <2>1, ConstantNumber
  <2>3. b \in BoolOf(G) BY <1>2, PrimitivesAre
  <2>4. r = Kept(G, b) BY <1>3, <1>5
  <2>5. r.tab = G /\ r.term = b BY <2>4 DEF Kept
  <2>6. Formula(T, r) BY <1>2, <2>3, <2>5 DEF Formula
  <2> HIDE DEF c
  <2>7. ASSUME NEW F, NEW rho, Grown(r.tab, F), IsAssignment(T, rho)
        PROVE  /\ Logical(F, rho, r.term)
               /\ Truth(F, rho, r.term) = AtLeast(NumberIn(F, rho, x), NumberIn(F, rho, y))
    <3>1. WellBuilt(F) /\ Grown(G, F) BY <2>5, <2>7 DEF Grown
    <3>2. AtLeast(c, Zero) = AtLeast(NumberIn(F, rho, x), NumberIn(F, rho, y))
      BY <1>4, <2>2, <2>7, <3>1
    <3>3. AtLeast(c, Zero) \in BOOLEAN BY DEF AtLeast
    <3>4. Logical(F, rho, b) /\ Truth(F, rho, b) = AtLeast(c, Zero)
      BY <3>1, <3>3, TruthOfConstants
    <3>5. QED BY <2>5, <3>2, <3>4
  <2>8. QED BY <2>6, <2>7 DEF ComparesAtLeast, r
<1>6. CASE ~is_arithmetic_constant(G, t)
  <2> DEFINE kind == "geq"
  <2>1. get_kind(G, t) # "constant" BY <1>6 DEF is_arithmetic_constant
  <2>2. r = Intern(G, Composite(kind, "bool", <<t>>)) /\ kind \in {"geq", "eq"} /\ kind = "geq"
    BY <1>3, <1>6 DEF arithmetic_geq_zero
  <2> HIDE DEF kind
  <2>3. /\ Formula(G, r)
        /\ \A F, rho :
             Grown(r.tab, F)
               => /\ Logical(F, rho, r.term)
                  /\ Truth(F, rho, r.term)
                       = IF kind = "geq" THEN AtLeast(NumberIn(F, rho, t), Zero)
                         ELSE NumberIn(F, rho, t) = Zero
    BY <1>2, <2>1, <2>2, AtomSays
  <2>4. Formula(T, r) /\ Grown(G, r.tab)
    BY <1>2, <2>3, GrownTransitive DEF Formula
  <2>5. ASSUME NEW F, NEW rho, Grown(r.tab, F), IsAssignment(T, rho)
        PROVE  /\ Logical(F, rho, r.term)
               /\ Truth(F, rho, r.term) = AtLeast(NumberIn(F, rho, x), NumberIn(F, rho, y))
    <3>1. Grown(G, F) BY <1>2, <2>4, <2>5, GrownTransitive
    <3>2. QED BY <1>4, <2>2, <2>3, <2>5, <3>1
  <2>6. QED BY <2>4, <2>5 DEF ComparesAtLeast, r
<1>7. QED BY <1>5, <1>6

LEMMA GtSays ==
  ASSUME NEW T, WellBuilt(T), NEW x \in RealOf(T), NEW y \in RealOf(T)
  PROVE  LET r == mk_arithmetic_gt(T, x, y)
         IN /\ Formula(T, r)
            /\ \A F, rho :
                 Grown(r.tab, F) /\ IsAssignment(T, rho)
                   => /\ Logical(F, rho, r.term)
                      /\ Truth(F, rho, r.term)
                           = ~AtLeast(NumberIn(F, rho, y), NumberIn(F, rho, x))
<1> DEFINE s == mk_arithmetic_geq(T, y, x)
           r == mk_arithmetic_gt(T, x, y)
<1>1. r = Negated(s) BY DEF mk_arithmetic_gt, mk_arithmetic_lt
<1>2. Formula(T, s) /\ ComparesAtLeast(T, s, y, x) BY GeqSays
<1>3. s = Kept(s.tab, s.term)
  BY DEF mk_arithmetic_geq, arithmetic_geq_zero, Intern, Kept
<1> HIDE DEF s, r
<1>4. /\ Formula(T, r) /\ r.tab = s.tab
      /\ \A F, rho : Logical(F, rho, s.term)
           => /\ Logical(F, rho, r.term)
              /\ Truth(F, rho, r.term) = ~Truth(F, rho, s.term)
  BY <1>1, <1>2, <1>3, NegatedIs
<1>5. QED BY <1>2, <1>4 DEF ComparesAtLeast, r

LEMMA PairValue ==
  ASSUME NEW T, NEW p \in PolysOf(T), NEW v, NEW w, v # w, DOMAIN p = {v, w},
         NEW F, NEW rho, Numeric(F, rho, DOMAIN p)
  PROVE  PolyValue(F, rho, p)
           = Plus(Times(p[v], Amount(F, rho, v)), Times(p[w], Amount(F, rho, w)))
<1> DEFINE g == Parts(F, rho, p)
           set == {v, w}
<1>1. /\ g \in [set -> Rat] /\ IsFiniteSet(set)
      /\ g[v] = Times(p[v], Amount(F, rho, v)) /\ g[w] = Times(p[w], Amount(F, rho, w))
  <2>1. /\ g \in [DOMAIN p -> Rat] /\ IsFiniteSet(DOMAIN p)
        /\ \A u \in DOMAIN p : g[u] = Times(p[u], Amount(F, rho, u))
    BY PartsAre
  <2>2. QED BY <2>1
<1>2. PolyValue(F, rho, p) = RatSum(g, set) BY DEF PolyValue
<1>3. set \ {v} = {w} /\ {w} \ {w} = {} /\ v \in set /\ {w} \in SUBSET set /\ set \in SUBSET set
  OBVIOUS
<1>4. g[w] \in Rat BY <1>1
<1> HIDE DEF g, set
<1>5. PICK h : h[{}] = Zero /\ RatTakesOut(h, g, set) /\ RatSum(g, set) = h[set]
  BY <1>1, RatSumIs
<1>6. h[set] = Plus(g[v], h[{w}]) BY <1>3, <1>5 DEF RatTakesOut
<1>7. h[{w}] = Plus(g[w], h[{}]) BY <1>3, <1>5 DEF RatTakesOut
<1>8. Plus(g[w], Zero) = g[w] BY <1>4, RatUnits
<1>9. QED BY <1>1, <1>2, <1>5, <1>6, <1>7, <1>8

\* What the first variables of a polynomial say of all of them.
LEMMA FirstVariables ==
  ASSUME NEW T, WellBuilt(T), NEW p \in PolysOf(T), p # NoTerms,
         NEW vs, vs = Ascending(DOMAIN p)
  PROVE  /\ Len(vs) \in Nat /\ Len(vs) = Cardinality(DOMAIN p) /\ Len(vs) >= 1
         /\ Len(vs) = 1 => DOMAIN p = {vs[1]}
         /\ Len(vs) = 2 => DOMAIN p = {vs[1], vs[2]} /\ vs[1] # vs[2] /\ vs[2] # Undef
         /\ \A v \in DOMAIN p : /\ p[v] \in Rat /\ p[v] # Zero
                                /\ v # Undef => v \in VarLike(T)
<1> DEFINE n == Len(vs)
<1>1. /\ n = Cardinality(DOMAIN p) /\ n \in Nat
      /\ \A k \in 1..n : vs[k] \in DOMAIN p
      /\ \A v \in DOMAIN p : \E k \in 1..n : vs[k] = v
      /\ \A j, k \in 1..n : j < k => vs[j] < vs[k]
      /\ \A v \in DOMAIN p : v \in Int /\ (v # Undef => v \in VarLike(T) /\ v \in Nat)
  BY VariablesAre
<1>2. \A v \in DOMAIN p : p[v] \in Rat /\ p[v] # Zero BY PolyIs
<1> HIDE DEF n
<1>3. n # 0
  <2>1. SUFFICES ASSUME n = 0
                 PROVE  FALSE
    OBVIOUS
  <2>2. 1..n = {} BY <2>1
  <2>3. DOMAIN p = {} BY <1>1, <2>2
  <2>4. p = [v \in DOMAIN p |-> p[v]] BY PolyIs
  <2>5. [v \in {} |-> p[v]] = [v \in {} |-> Zero] OBVIOUS
  <2>6. p = NoTerms BY <2>3, <2>4, <2>5 DEF NoTerms
  <2>7. QED BY <2>6
<1>4. ASSUME n = 1
      PROVE  DOMAIN p = {vs[1]}
  <2>1. \A k \in 1..n : k = 1 BY <1>4
  <2>2. 1 \in 1..n BY <1>4
  <2>3. QED BY <1>1, <2>1, <2>2
<1>5. ASSUME n = 2
      PROVE  DOMAIN p = {vs[1], vs[2]} /\ vs[1] # vs[2] /\ vs[2] # Undef
  <2>1. \A k \in 1..n : k = 1 \/ k = 2 BY <1>5
  <2>2. 1 \in 1..n /\ 2 \in 1..n /\ 1 < 2 BY <1>5
  <2> DEFINE v == vs[1]
             w == vs[2]
  <2>3. v \in DOMAIN p /\ w \in DOMAIN p /\ v < w BY <1>1, <2>2
  <2>4. DOMAIN p = {v, w} BY <1>1, <2>1, <2>3
  <2>5. v \in Int /\ w \in Int /\ (v # Undef => v \in Nat) BY <1>1, <2>3
  <2> HIDE DEF v, w
  <2>6. v # w /\ w # Undef BY <2>3, <2>5 DEF Undef
  <2>7. QED BY <2>4, <2>6 DEF v, w
<1>6. n >= 1 BY <1>1, <1>3
<1>7. QED BY <1>1, <1>2, <1>4, <1>5, <1>6 DEF n

LEMMA EqualsZeroIs ==
  ASSUME NEW T, NEW p, NEW vs, vs = Ascending(DOMAIN p)
  PROVE  EqualsZero(T, p) =
           LET solved == arithmetic_constant(T, Root(p, vs[2]))
               whole == poly_to_term(T, p)
           IN CASE Len(vs) = 1 /\ vs[1] = Undef -> Kept(T, false_term)
                [] Len(vs) = 1 /\ vs[1] # Undef -> arithmetic_eq_zero(T, vs[1])
                [] Len(vs) = 2 /\ vs[1] = Undef ->
                     direct_arithmetic_binary_equality(solved.tab, vs[2], solved.term)
                [] Len(vs) = 2 /\ vs[1] # Undef /\ Plus(p[vs[1]], p[vs[2]]) = Zero ->
                     direct_arithmetic_binary_equality(T, vs[1], vs[2])
                [] OTHER -> arithmetic_eq_zero(whole.tab, whole.term)
  BY Zenon DEF EqualsZero, Ascending

\* The atom r says that p is zero.
SaysZero(T, r, p) ==
  \A F, rho :
    Grown(r.tab, F) /\ IsAssignment(T, rho)
      => /\ Logical(F, rho, r.term)
         /\ Truth(F, rho, r.term) = (PolyValue(F, rho, p) = Zero)

\* One variable or a constant.
LEMMA EqualsZeroOfOne ==
  ASSUME NEW T, WellBuilt(T), NEW p \in PolysOf(T), p # NoTerms,
         Len(Ascending(DOMAIN p)) = 1
  PROVE  Formula(T, EqualsZero(T, p)) /\ SaysZero(T, EqualsZero(T, p), p)
<1> DEFINE vs == Ascending(DOMAIN p)
           v == vs[1]
           c == p[v]
           r == EqualsZero(T, p)
<1>1. /\ DOMAIN p = {v} /\ v \in DOMAIN p /\ c \in Rat /\ c # Zero
      /\ v # Undef => v \in VarLike(T)
  BY FirstVariables
<1>2. /\ v = Undef => r = Kept(T, false_term)
      /\ v # Undef => r = arithmetic_eq_zero(T, v)
  BY EqualsZeroIs
<1>3. p = Monomial(v, c) /\ v \in Variables(T)
  <2>1. p = [w \in DOMAIN p |-> p[w]] /\ DOMAIN p \subseteq Variables(T)
    BY PolyIs
  <2>2. [w \in {v} |-> p[w]] = [w \in {v} |-> c] OBVIOUS
  <2> HIDE DEF v, c
  <2>3. QED BY <1>1, <2>1, <2>2 DEF Monomial
<1> HIDE DEF vs, v, c, r
<1>4. ASSUME NEW F, NEW rho, Grown(T, F), IsAssignment(T, rho)
      PROVE  Amount(F, rho, v) \in Rat /\ PolyValue(F, rho, p) = Times(c, Amount(F, rho, v))
  <2>1. Amount(F, rho, v) \in Rat BY <1>3, <1>4, AmountsAre
  <2>2. QED BY <1>1, <1>3, <2>1, MonomialValue
<1>5. CASE v = Undef
  <2>1. r.tab = T /\ r.term = false_term BY <1>2, <1>5 DEF Kept
  <2>2. Formula(T, r) BY <2>1, GrownReflexive, PrimitivesAre DEF Formula
  <2>3. ASSUME NEW F, NEW rho, Grown(r.tab, F), IsAssignment(T, rho)
        PROVE  /\ Logical(F, rho, r.term)
               /\ Truth(F, rho, r.term) = (PolyValue(F, rho, p) = Zero)
    <3>1. Grown(T, F) /\ WellBuilt(F) BY <2>1, <2>3 DEF Grown
    <3>2. Amount(F, rho, v) = One BY <1>5 DEF Amount
    <3>3. PolyValue(F, rho, p) = c
      BY <1>1, <1>4, <2>3, <3>1, <3>2, RatUnits
    <3>4. Logical(F, rho, false_term) /\ Truth(F, rho, false_term) = FALSE
      BY <3>1, TruthOfConstants
    <3>5. QED BY <1>1, <2>1, <3>3, <3>4
  <2>4. QED BY <2>2, <2>3 DEF SaysZero, r
<1>6. CASE v # Undef
  <2> DEFINE kind == "eq"
  <2>1. v \in RealOf(T) /\ get_kind(T, v) # "constant"
    BY <1>1, <1>6 DEF VarLike, is_var_like
  <2>2. r = Intern(T, Composite(kind, "bool", <<v>>)) /\ kind \in {"geq", "eq"} /\ kind # "geq"
    BY <1>2, <1>6 DEF arithmetic_eq_zero
  <2> HIDE DEF kind
  <2>3. /\ Formula(T, r)
        /\ \A F, rho :
             Grown(r.tab, F)
               => /\ Logical(F, rho, r.term)
                  /\ Truth(F, rho, r.term)
                       = IF kind = "geq" THEN AtLeast(NumberIn(F, rho, v), Zero)
                         ELSE NumberIn(F, rho, v) = Zero
    BY <2>1, <2>2, AtomSays
  <2>4. ASSUME NEW F, NEW rho, Grown(r.tab, F), IsAssignment(T, rho)
        PROVE  /\ Logical(F, rho, r.term)
               /\ Truth(F, rho, r.term) = (PolyValue(F, rho, p) = Zero)
    <3> DEFINE n == NumberIn(F, rho, v)
    <3>1. Grown(T, F) BY <2>3, <2>4, GrownTransitive DEF Formula
    <3>2. Amount(F, rho, v) = n BY <1>6 DEF Amount
    <3>3. n \in Rat /\ PolyValue(F, rho, p) = Times(c, n)
      BY <1>4, <2>4, <3>1, <3>2
    <3> HIDE DEF n
    <3>4. Times(c, n) = Zero <=> n = Zero
      BY <1>1, <3>3, RatUnits, TimesIsZero
    <3>5. QED BY <2>2, <2>3, <2>4, <3>3, <3>4 DEF n
  <2>5. QED BY <2>3, <2>4 DEF SaysZero, r
<1>7. QED BY <1>5, <1>6

\* The equation of a variable with the number it must be.
LEMMA EqualsZeroSolved ==
  ASSUME NEW T, WellBuilt(T), NEW p \in PolysOf(T), p # NoTerms,
         Len(Ascending(DOMAIN p)) = 2, Ascending(DOMAIN p)[1] = Undef
  PROVE  Formula(T, EqualsZero(T, p)) /\ SaysZero(T, EqualsZero(T, p), p)
<1> DEFINE vs == Ascending(DOMAIN p)
           v == vs[2]
           a == p[Undef]
           c == p[v]
           q == Root(p, v)
           k == arithmetic_constant(T, q)
           G == k.tab
           t == k.term
           r == EqualsZero(T, p)
<1>1. /\ DOMAIN p = {Undef, v} /\ v # Undef /\ v \in VarLike(T)
      /\ a \in Rat /\ a # Zero /\ c \in Rat /\ c # Zero
  BY FirstVariables
<1>2. r = direct_arithmetic_binary_equality(G, v, t) BY EqualsZeroIs
<1>3. q = Over(Times(MinusOne, a), c) BY DEF Root
<1> HIDE DEF vs, v, a, c, q, r
<1>4. q \in Rat
  <2>1. Times(MinusOne, a) \in Rat BY <1>1, UnitsAreRat, TimesIsRat
  <2>2. QED BY <1>1, <1>3, <2>1, OverIsRat
<1>5. Number(T, k) /\ get_kind(G, t) = "constant" /\ arithmetic_constant_value(G, t) = q
  BY <1>4, ConstantIs
<1> HIDE DEF k
<1>6. WellBuilt(G) /\ Grown(T, G) /\ t \in RealOf(G)
  BY <1>5, NumberGrows DEF Number
<1> HIDE DEF G, t
<1>7. v \in VarLike(G) /\ v # t
  <2>1. v \in VarLike(G) BY <1>1, <1>6, GrownTables, SetsGrow
  <2>2. QED BY <1>5, <2>1 DEF VarLike, is_var_like
<1>8. /\ Formula(G, r)
      /\ \A F, rho :
           Grown(r.tab, F)
             => /\ Logical(F, rho, r.term)
                /\ Truth(F, rho, r.term) = (NumberIn(F, rho, v) = NumberIn(F, rho, t))
  BY <1>2, <1>5, <1>6, <1>7, DirectEquationSays
<1>9. Formula(T, r) /\ Grown(G, r.tab)
  BY <1>6, <1>8, GrownTransitive DEF Formula
<1>10. ASSUME NEW F, NEW rho, Grown(r.tab, F), IsAssignment(T, rho)
       PROVE  /\ Logical(F, rho, r.term)
              /\ Truth(F, rho, r.term) = (PolyValue(F, rho, p) = Zero)
  <2> DEFINE n == NumberIn(F, rho, v)
  <2>1. Grown(G, F) /\ Grown(T, F) BY <1>6, <1>9, <1>10, GrownTransitive
  <2>2. NumberIn(F, rho, t) = q BY <1>5, <1>6, <2>1, ConstantNumber
  <2>3. v \in RealOf(T) BY <1>1 DEF VarLike
  <2>4. n \in Rat /\ Amount(F, rho, v) = n /\ Amount(F, rho, Undef) = One
    BY <1>1, <1>10, <2>1, <2>3, NumbersAre DEF Amount
  <2>5. Numeric(F, rho, DOMAIN p) BY <1>10, <2>1, AmountsAre
  <2>6. PolyValue(F, rho, p) = Plus(Times(a, One), Times(c, n))
    <3>1. PolyValue(F, rho, p)
            = Plus(Times(p[Undef], Amount(F, rho, Undef)), Times(p[v], Amount(F, rho, v)))
      BY <1>1, <2>5, PairValue
    <3>2. QED BY <2>4, <3>1 DEF a, c
  <2> HIDE DEF n
  <2>7. Times(a, One) = a BY <1>1, RatUnits
  <2>8. Plus(a, Times(c, n)) = Zero <=> n = q
    BY <1>1, <1>3, <2>4, RootIs
  <2>9. QED BY <1>8, <1>10, <2>2, <2>6, <2>7, <2>8 DEF n
<1>11. QED BY <1>9, <1>10 DEF SaysZero, r

\* The equation of two variables.
LEMMA EqualsZeroOfTwo ==
  ASSUME NEW T, WellBuilt(T), NEW p \in PolysOf(T), p # NoTerms,
         NEW vs, vs = Ascending(DOMAIN p), Len(vs) = 2, vs[1] # Undef,
         Plus(p[vs[1]], p[vs[2]]) = Zero
  PROVE  Formula(T, EqualsZero(T, p)) /\ SaysZero(T, EqualsZero(T, p), p)
<1> DEFINE v == vs[1]
           w == vs[2]
           a == p[v]
           b == p[w]
           r == EqualsZero(T, p)
<1>1. /\ DOMAIN p = {v, w} /\ v # w /\ v # Undef /\ w # Undef
      /\ v \in VarLike(T) /\ w \in VarLike(T)
      /\ a \in Rat /\ a # Zero /\ b \in Rat /\ Plus(a, b) = Zero
  BY FirstVariables
<1>2. r = direct_arithmetic_binary_equality(T, v, w) BY EqualsZeroIs
<1> HIDE DEF v, w, a, b, r
<1>3. /\ v \in RealOf(T) /\ w \in RealOf(T)
      /\ get_kind(T, w) \in {"uninterpreted", "ite", "constant"}
  BY <1>1 DEF VarLike, is_var_like
<1>4. /\ Formula(T, r)
      /\ \A F, rho :
           Grown(r.tab, F)
             => /\ Logical(F, rho, r.term)
                /\ Truth(F, rho, r.term) = (NumberIn(F, rho, v) = NumberIn(F, rho, w))
  BY <1>1, <1>2, <1>3, DirectEquationSays
<1>5. ASSUME NEW F, NEW rho, Grown(r.tab, F), IsAssignment(T, rho)
      PROVE  /\ Logical(F, rho, r.term)
             /\ Truth(F, rho, r.term) = (PolyValue(F, rho, p) = Zero)
  <2> DEFINE x == NumberIn(F, rho, v)
             y == NumberIn(F, rho, w)
  <2>1. Grown(T, F) BY <1>4, <1>5, GrownTransitive DEF Formula
  <2>2. x \in Rat /\ y \in Rat /\ Amount(F, rho, v) = x /\ Amount(F, rho, w) = y
    BY <1>1, <1>3, <1>5, <2>1, NumbersAre DEF Amount
  <2>3. Numeric(F, rho, DOMAIN p) BY <1>5, <2>1, AmountsAre
  <2>4. PolyValue(F, rho, p) = Plus(Times(a, x), Times(b, y))
    <3>1. PolyValue(F, rho, p)
            = Plus(Times(p[v], Amount(F, rho, v)), Times(p[w], Amount(F, rho, w)))
      BY <1>1, <2>3, PairValue
    <3>2. QED BY <2>2, <3>1 DEF a, b
  <2> HIDE DEF x, y
  <2>5. Plus(Times(a, x), Times(b, y)) = Zero <=> x = y
    BY <1>1, <2>2, OppositeMultiples
  <2>6. QED BY <1>4, <1>5, <2>4, <2>5 DEF x, y
<1>6. QED BY <1>4, <1>5 DEF SaysZero, r

\* A sum.
LEMMA EqualsZeroOfMore ==
  ASSUME NEW T, WellBuilt(T), NEW p \in PolysOf(T), p # NoTerms,
         NEW vs, vs = Ascending(DOMAIN p), Len(vs) # 1,
         Len(vs) = 2 => vs[1] # Undef /\ Plus(p[vs[1]], p[vs[2]]) # Zero
  PROVE  Formula(T, EqualsZero(T, p)) /\ SaysZero(T, EqualsZero(T, p), p)
<1> DEFINE whole == poly_to_term(T, p)
           G == whole.tab
           t == whole.term
           r == EqualsZero(T, p)
           kind == "eq"
<1>1. Cardinality(DOMAIN p) >= 2
  <2>1. Len(vs) \in Nat /\ Len(vs) = Cardinality(DOMAIN p) /\ Len(vs) >= 1
    BY FirstVariables
  <2> DEFINE n == Len(vs)
  <2>2. n \in Nat /\ n = Cardinality(DOMAIN p) /\ n >= 1 /\ n # 1
    BY <2>1
  <2> HIDE DEF n
  <2>3. n >= 2 BY <2>2
  <2>4. QED BY <2>2, <2>3
<1>2. r = arithmetic_eq_zero(G, t) BY EqualsZeroIs
<1>3. Number(T, whole) /\ SaysPoly(whole, p) BY PolyTermSays
<1>4. get_kind(G, t) = "poly" BY <1>1, PolyTermIs
<1>5. r = Intern(G, Composite(kind, "bool", <<t>>)) /\ kind \in {"geq", "eq"} /\ kind # "geq"
  BY <1>2 DEF arithmetic_eq_zero
<1> HIDE DEF whole, kind, r
<1>6. WellBuilt(G) /\ Grown(T, G) /\ t \in RealOf(G)
  BY <1>3, NumberGrows DEF Number
<1>7. \A F, rho : Grown(G, F) /\ Numeric(F, rho, DOMAIN p)
                    => NumberIn(F, rho, t) = PolyValue(F, rho, p)
  BY <1>3 DEF SaysPoly
<1> HIDE DEF G, t
<1>8. /\ Formula(G, r)
      /\ \A F, rho :
           Grown(r.tab, F)
             => /\ Logical(F, rho, r.term)
                /\ Truth(F, rho, r.term)
                     = IF kind = "geq" THEN AtLeast(NumberIn(F, rho, t), Zero)
                       ELSE NumberIn(F, rho, t) = Zero
  <2>1. get_kind(G, t) # "constant" BY <1>4
  <2>2. QED BY <1>5, <1>6, <2>1, AtomSays
<1>9. Formula(T, r) /\ Grown(G, r.tab)
  BY <1>6, <1>8, GrownTransitive DEF Formula
<1>10. ASSUME NEW F, NEW rho, Grown(r.tab, F), IsAssignment(T, rho)
       PROVE  /\ Logical(F, rho, r.term)
              /\ Truth(F, rho, r.term) = (PolyValue(F, rho, p) = Zero)
  <2>1. Grown(G, F) /\ Grown(T, F) BY <1>6, <1>9, <1>10, GrownTransitive
  <2>2. Numeric(F, rho, DOMAIN p) BY <1>10, <2>1, AmountsAre
  <2>3. QED BY <1>5, <1>7, <1>8, <1>10, <2>1, <2>2
<1>11. QED BY <1>9, <1>10 DEF SaysZero, r

LEMMA EqualsZeroSays ==
  ASSUME NEW T, WellBuilt(T), NEW p \in PolysOf(T), p # NoTerms
  PROVE  Formula(T, EqualsZero(T, p)) /\ SaysZero(T, EqualsZero(T, p), p)
<1> DEFINE vs == Ascending(DOMAIN p)
<1>1. CASE Len(vs) = 1 BY <1>1, EqualsZeroOfOne
<1>2. CASE Len(vs) = 2 /\ vs[1] = Undef BY <1>2, EqualsZeroSolved
<1>3. CASE Len(vs) = 2 /\ vs[1] # Undef /\ Plus(p[vs[1]], p[vs[2]]) = Zero
  BY <1>3, EqualsZeroOfTwo
<1>4. CASE Len(vs) # 1 /\ (Len(vs) = 2 => vs[1] # Undef /\ Plus(p[vs[1]], p[vs[2]]) # Zero)
  BY <1>4, EqualsZeroOfMore
<1>5. QED BY <1>1, <1>2, <1>3, <1>4

LEMMA EqSays ==
  ASSUME NEW T, WellBuilt(T), NEW x \in RealOf(T), NEW y \in RealOf(T), HasDifference(T, x, y)
  PROVE  LET r == mk_arithmetic_eq(T, x, y)
         IN /\ Formula(T, r)
            /\ \A F, rho :
                 Grown(r.tab, F) /\ IsAssignment(T, rho)
                   => /\ Logical(F, rho, r.term)
                      /\ Truth(F, rho, r.term) = (NumberIn(F, rho, x) = NumberIn(F, rho, y))
<1> DEFINE r == mk_arithmetic_eq(T, x, y)
<1>1. CASE x = y
  <2>1. r = Kept(T, true_term) BY <1>1 DEF mk_arithmetic_eq
  <2>2. r.tab = T /\ r.term = true_term BY <2>1 DEF Kept
  <2> HIDE DEF r
  <2>3. Formula(T, r) BY <2>2, GrownReflexive, PrimitivesAre DEF Formula
  <2>4. \A F, rho : Grown(T, F) => /\ Logical(F, rho, true_term)
                                   /\ Truth(F, rho, true_term) = TRUE
    BY TruthOfConstants DEF Grown
  <2>5. QED BY <1>1, <2>2, <2>3, <2>4 DEF r
<1>2. CASE x # y
  <2> DEFINE p == Difference(T, x, y)
  <2>1. p # NoTerms BY <1>2 DEF HasDifference
  <2>2. r = EqualsZero(T, p) BY <1>2 DEF mk_arithmetic_eq
  <2>3. p \in PolysOf(T) BY DifferenceSays
  <2> HIDE DEF r, p
  <2>4. Formula(T, r) /\ SaysZero(T, r, p)
    BY <2>1, <2>2, <2>3, EqualsZeroSays
  <2>5. ASSUME NEW F, NEW rho, Grown(r.tab, F), IsAssignment(T, rho)
        PROVE  /\ Logical(F, rho, r.term)
               /\ Truth(F, rho, r.term) = (NumberIn(F, rho, x) = NumberIn(F, rho, y))
    <3> DEFINE a == NumberIn(F, rho, x)
               b == NumberIn(F, rho, y)
    <3>1. Grown(T, F) BY <2>4, <2>5, GrownTransitive DEF Formula
    <3>2. a \in Rat /\ b \in Rat BY <2>5, <3>1, NumbersAre
    <3>3. PolyValue(F, rho, p) = Minus(a, b)
      BY <2>5, <3>1, DifferenceSays DEF p
    <3> HIDE DEF a, b
    <3>4. Minus(a, b) = Zero <=> a = b BY <3>2, MinusIsZero
    <3>5. QED BY <2>4, <2>5, <3>3, <3>4 DEF SaysZero, a, b
  <2>6. QED BY <2>4, <2>5 DEF r
<1>3. QED BY <1>1, <1>2

-----------------------------------------------------------------------------
(* Counting, and the invariant of the table.                               *)

LEMMA ImageCount ==
  ASSUME NEW S, IsFiniteSet(S), NEW f, f = [x \in S |-> f[x]],
         \A x, y \in S : f[x] = f[y] => x = y
  PROVE  Cardinality({f[x] : x \in S}) = Cardinality(S)
<1> DEFINE R == {f[x] : x \in S}
<1>1. f \in [S -> R] OBVIOUS
<1>2. f \in Injection(S, R) BY <1>1 DEF Injection, IsInjective
<1>3. f \in Surjection(S, R) BY <1>1 DEF Surjection
<1> HIDE DEF R
<1>4. ExistsBijection(S, R) BY <1>2, <1>3 DEF ExistsBijection, Bijection
<1>5. Cardinality(R) = Cardinality(S) BY <1>4, FS_Bijection
<1>6. QED BY <1>5 DEF R

\* A sum has as many monomials as its polynomial has variables.
LEMMA SumPolyCount ==
  ASSUME NEW T, WellBuilt(T), NEW t \in RealOf(T), get_kind(T, t) = "poly"
  PROVE  Cardinality(DOMAIN term_to_poly(T, t)) = Len(get_args(T, t))
<1> DEFINE a == get_args(T, t)
           n == Len(a)
           D == DOMAIN term_to_poly(T, t)
           S == 1..n
           f == [k \in S |-> VarOf(T, a[k])]
<1>1. a \in Seq(Monomials(T)) BY SumPolyIs
<1>2. n \in Nat /\ \A k \in S : a[k] \in Monomials(T) BY <1>1
<1>3. \A j, k \in S : j < k => f[j] < f[k] BY SumPolyIs
<1>4. \A v : v \in D <=> \E j \in S : v = f[j]
  <2>1. \A v : v \in D <=> \E j \in S : v = VarOf(T, a[j]) BY SumPolyIs
  <2>2. \A j \in S : f[j] = VarOf(T, a[j]) OBVIOUS
  <2> HIDE DEF D, f
  <2>3. QED BY <2>1, <2>2
<1>5. \A k \in S : f[k] \in Int
  <2>1. TAKE k \in S
  <2>2. VarOf(T, a[k]) \in Variables(T) BY <1>2, MonomialIs
  <2>3. \A v \in Variables(T) : v \in Int
    BY DEF Variables, VarLike, RealOf, TermOf, Undef
  <2>4. QED BY <2>2, <2>3
<1>6. f = [k \in S |-> f[k]] OBVIOUS
<1> HIDE DEF f, D, a, n
<1>7. \A j, k \in S : f[j] = f[k] => j = k
  <2>1. SUFFICES ASSUME NEW j \in S, NEW k \in S, j # k
                 PROVE  f[j] # f[k]
    OBVIOUS
  <2>2. j < k \/ k < j BY <1>2, <2>1
  <2> DEFINE x == f[j]
             y == f[k]
  <2>3. x \in Int /\ y \in Int /\ (x < y \/ y < x) BY <1>3, <1>5, <2>2
  <2> HIDE DEF x, y
  <2>4. x # y BY <2>3
  <2>5. QED BY <2>4 DEF x, y
<1>8. D = {f[k] : k \in S} BY <1>4
<1>9. IsFiniteSet(S) /\ Cardinality(S) = n BY <1>2, FS_Interval
<1> HIDE DEF S
<1>10. Cardinality({f[k] : k \in S}) = Cardinality(S)
  BY <1>6, <1>7, <1>9, ImageCount
<1>11. QED BY <1>8, <1>9, <1>10 DEF D, a, n

\* An entry that is well built is in normal form.
LEMMA NormalEntry ==
  ASSUME NEW T, WellBuilt(T), NEW i \in DOMAIN T
  PROVE  LET args == T[i].args
             kind(k) == get_kind(T, args[k])
         IN /\ T[i].kind = "or" =>
                 /\ Len(args) >= 2
                 /\ \A j, k \in DOMAIN args :
                      j < k => positive_term(args[j]) < positive_term(args[k])
                 /\ \A k \in DOMAIN args : kind(k) # "true"
            /\ T[i].kind = "poly" =>
                 /\ Len(args) >= 2
                 /\ \A k \in DOMAIN args :
                      kind(k) \in {"uninterpreted", "ite", "product"}
                        \/ (k = 1 /\ kind(k) = "constant")
                 /\ Cardinality(DOMAIN term_to_poly(T, 2 * i)) = Len(args)
            /\ T[i].kind = "ite" => ~is_negated(args[1]) /\ kind(1) # "true"
            /\ T[i].kind \in {"geq", "eq"} => kind(1) # "constant"
            /\ T[i].kind = "bineq" =>
                 /\ args[1] # args[2]
                 /\ kind(1) \in {"uninterpreted", "ite"}
                 /\ kind(2) \in {"uninterpreted", "ite", "constant"}
<1> DEFINE e == T[i]
           args == e.args
           kind(k) == get_kind(T, args[k])
<1>1. Shape(T, e) /\ e \in Entry /\ i \in Nat
  BY ArgumentsOf, TableFacts DEF WellBuilt, Shape
<1>2. ASSUME e.kind = "or"
      PROVE  /\ Len(args) >= 2
             /\ \A j, k \in DOMAIN args :
                  j < k => positive_term(args[j]) < positive_term(args[k])
             /\ \A k \in DOMAIN args : kind(k) # "true"
  <2>1. OrShape(T, e) BY <1>1, <1>2 DEF Shape
  <2> HIDE DEF e
  <2>2. QED BY <2>1 DEF OrShape
<1>3. ASSUME e.kind = "poly"
      PROVE  /\ Len(args) >= 2
             /\ \A k \in DOMAIN args :
                  kind(k) \in {"uninterpreted", "ite", "product"} \/ (k = 1 /\ kind(k) = "constant")
             /\ Cardinality(DOMAIN term_to_poly(T, 2 * i)) = Len(args)
  <2>1. PolyShape(T, e) BY <1>1, <1>3 DEF Shape
  <2> DEFINE t == 2 * i
  <2>2. t \in Nat /\ index_of(t) = i /\ ~is_negated(t) BY <1>1, HandleOf
  <2>3. e.type = "real" BY <2>1 DEF PolyShape
  <2>4. t \in RealOf(T) /\ get_kind(T, t) = "poly" /\ get_args(T, t) = args
    BY <1>3, <2>2, <2>3 DEF RealOf, TermOf, get_type, get_kind, get_args
  <2>5. Cardinality(DOMAIN term_to_poly(T, t)) = Len(args)
    <3> HIDE DEF t, e
    <3>1. QED BY <2>4, SumPolyCount
  <2>6. DOMAIN args = 1..Len(args) /\ Len(args) \in Nat
    <3>1. args \in Seq(Nat) BY <1>1 DEF Entry
    <3> HIDE DEF e
    <3>2. QED BY <3>1
  <2> HIDE DEF e
  <2>7. Len(args) >= 2 /\ \A k \in DOMAIN args : args[k] \in Monomials(T)
    BY <2>1 DEF PolyShape
  <2>8. ASSUME NEW k \in DOMAIN args
        PROVE  kind(k) \in {"uninterpreted", "ite", "product"} \/ (k = 1 /\ kind(k) = "constant")
    <3>1. kind(k) \in {"constant", "uninterpreted", "ite", "product"}
      BY <2>7, <2>8 DEF Monomials
    <3>2. ASSUME kind(k) = "constant", k # 1
          PROVE  FALSE
      <4>1. 1 \in DOMAIN args /\ 1 < k BY <2>6, <2>8, <3>2
      <4>2. VarOf(T, args[1]) < VarOf(T, args[k])
        BY <2>1, <4>1 DEF PolyShape
      <4>3. VarOf(T, args[k]) = -1 BY <3>2 DEF VarOf, Undef
      <4>4. VarOf(T, args[1]) \in Variables(T) BY <2>7, <4>1, MonomialIs
      <4>5. \A v \in Variables(T) : v \in Int /\ v >= -1
        BY DEF Variables, VarLike, RealOf, TermOf, Undef
      <4>6. QED BY <4>2, <4>3, <4>4, <4>5
    <3>3. QED BY <3>1, <3>2
  <2>9. QED BY <2>5, <2>7, <2>8
<1>4. ASSUME e.kind = "ite"
      PROVE  ~is_negated(args[1]) /\ kind(1) # "true"
  <2>1. IteShape(T, e) BY <1>1, <1>4 DEF Shape
  <2> HIDE DEF e
  <2>2. QED BY <2>1 DEF IteShape
<1>5. ASSUME e.kind \in {"geq", "eq"}
      PROVE  kind(1) # "constant"
  <2>1. AtomShape(T, e) BY <1>1, <1>5 DEF Shape
  <2> HIDE DEF e
  <2>2. QED BY <2>1 DEF AtomShape
<1>6. ASSUME e.kind = "bineq"
      PROVE  /\ args[1] # args[2]
             /\ kind(1) \in {"uninterpreted", "ite"}
             /\ kind(2) \in {"uninterpreted", "ite", "constant"}
  <2>1. EquationShape(T, e) BY <1>1, <1>6 DEF Shape
  <2> HIDE DEF e
  <2>2. QED BY <2>1 DEF EquationShape, VarLike, is_var_like
<1>7. QED BY <1>2, <1>3, <1>4, <1>5, <1>6

LEMMA NormalTable ==
  ASSUME WellBuilt(table)
  PROVE  NormalForm
<1>1. SUFFICES ASSUME NEW i \in DOMAIN table
               PROVE  LET args == table[i].args
                          kind(k) == get_kind(table, args[k])
                      IN CASE table[i].kind = "or" ->
                                /\ Len(args) >= 2
                                /\ \A j, k \in DOMAIN args :
                                     j < k => positive_term(args[j]) < positive_term(args[k])
                                /\ \A k \in DOMAIN args : kind(k) # "true"
                           [] table[i].kind = "poly" ->
                                /\ Len(args) >= 2
                                /\ \A k \in DOMAIN args :
                                     kind(k) \in {"uninterpreted", "ite", "product"}
                                       \/ (k = 1 /\ kind(k) = "constant")
                                /\ Cardinality(DOMAIN term_to_poly(table, 2 * i)) = Len(args)
                           [] table[i].kind = "ite" -> ~is_negated(args[1]) /\ kind(1) # "true"
                           [] table[i].kind \in {"geq", "eq"} -> kind(1) # "constant"
                           [] table[i].kind = "bineq" ->
                                /\ args[1] # args[2]
                                /\ kind(1) \in {"uninterpreted", "ite"}
                                /\ kind(2) \in {"uninterpreted", "ite", "constant"}
                           [] OTHER -> TRUE
  BY DEF NormalForm
<1> DEFINE args == table[i].args
           kind(k) == get_kind(table, args[k])
           kn == table[i].kind
           Or == /\ Len(args) >= 2
                 /\ \A j, k \in DOMAIN args :
                      j < k => positive_term(args[j]) < positive_term(args[k])
                 /\ \A k \in DOMAIN args : kind(k) # "true"
           Sum == /\ Len(args) >= 2
                  /\ \A k \in DOMAIN args :
                       kind(k) \in {"uninterpreted", "ite", "product"}
                         \/ (k = 1 /\ kind(k) = "constant")
                  /\ Cardinality(DOMAIN term_to_poly(table, 2 * i)) = Len(args)
           Ite == ~is_negated(args[1]) /\ kind(1) # "true"
           Atom == kind(1) # "constant"
           Equation == /\ args[1] # args[2]
                       /\ kind(1) \in {"uninterpreted", "ite"}
                       /\ kind(2) \in {"uninterpreted", "ite", "constant"}
<1>2. /\ kn = "or" => Or
      /\ kn = "poly" => Sum
      /\ kn = "ite" => Ite
      /\ kn \in {"geq", "eq"} => Atom
      /\ kn = "bineq" => Equation
  BY NormalEntry
<1> DEFINE Normal == CASE kn = "or" -> Or
                       [] kn = "poly" -> Sum
                       [] kn = "ite" -> Ite
                       [] kn \in {"geq", "eq"} -> Atom
                       [] kn = "bineq" -> Equation
                       [] OTHER -> TRUE
<1>3. Normal
  <2> HIDE DEF kn, Or, Sum, Ite, Atom, Equation
  <2>1. QED BY <1>2
<1>4. QED BY <1>3

LEMMA TypedTable ==
  ASSUME WellBuilt(table), calls \in 0..problem.calls
  PROVE  TermsTypeOK
<1> DEFINE known == {i \in DOMAIN table : table[i].kind # "uninterpreted"}
           f == [i \in known |-> table[i]]
<1>1. /\ DOMAIN table = 1..Len(table) /\ Len(table) \in Nat
      /\ \A i \in DOMAIN table :
           /\ Shape(table, table[i]) /\ table[i] \in Entry
           /\ \A k \in DOMAIN table[i].args : index_of(table[i].args[k]) \in 1..(i - 1)
      /\ \A i, j \in DOMAIN table :
           table[i] = table[j] /\ table[i].kind # "uninterpreted" => i = j
  BY TableFacts DEF WellBuilt, Shape
<1>2. ASSUME NEW i \in DOMAIN table
      PROVE  /\ table[i].kind \in {"true", "constant", "uninterpreted", "product", "poly", "ite",
                                   "or", "geq", "eq", "bineq"}
             /\ table[i].type = IF table[i].kind \in {"constant", "product", "poly", "ite"}
                                  THEN "real"
                                ELSE IF table[i].kind = "uninterpreted" THEN table[i].type
                                ELSE "bool"
  <2> DEFINE e == table[i]
  <2>1. Shape(table, e) /\ e \in Entry BY <1>1
  <2>2. e.kind \in Kinds BY <2>1 DEF Entry
  <2>3. PrimitiveTerms[1].type = "bool" BY DEF PrimitiveTerms, Composite
  <2> HIDE DEF e
  <2>4. /\ e.kind \in {"constant", "product", "poly", "ite"} => e.type = "real"
        /\ e.kind \in {"true", "or", "geq", "eq", "bineq"} => e.type = "bool"
    BY <2>1, <2>3 DEF Shape, ProductShape, PolyShape, IteShape, OrShape, AtomShape, EquationShape
  <2>5. QED BY <2>2, <2>4 DEF Kinds, e
<1>3. IsFiniteSet(DOMAIN table) BY <1>1, FS_Interval
<1>4. IsFiniteSet(known)
  <2>1. known \subseteq DOMAIN table OBVIOUS
  <2>2. QED BY <1>3, <2>1, FS_Subset
<1>5. f = [i \in known |-> f[i]] /\ \A i, j \in known : f[i] = f[j] => i = j
  BY <1>1
<1>6. {f[i] : i \in known} = {table[i] : i \in known} OBVIOUS
<1>7. Cardinality({f[i] : i \in known}) = Cardinality(known)
  <2> HIDE DEF known, f
  <2>1. QED BY <1>4, <1>5, ImageCount
<1>8. Cardinality({table[i] : i \in known}) = Cardinality(known)
  BY <1>6, <1>7
<1>9. QED BY <1>1, <1>2, <1>8 DEF TermsTypeOK

-----------------------------------------------------------------------------
(* The table of terms is well built in every state.                        *)

TableInv ==
  /\ problem \in Problems
  /\ calls \in 0..problem.calls
  /\ WellBuilt(table)

LEMMA Joined ==
  ASSUME NEW S, NEW s \in Seq(S), NEW t \in Seq(S)
  PROVE  /\ s \o t \in Seq(S) /\ Len(s \o t) = Len(s) + Len(t)
         /\ DOMAIN (s \o t) = 1..(Len(s) + Len(t))
         /\ \A i \in 1..Len(s) : (s \o t)[i] = s[i]
         /\ \A i \in (Len(s) + 1)..(Len(s) + Len(t)) : (s \o t)[i] = t[i - Len(s)]
OBVIOUS

\* The table with the terms every table has and the declared constants.
LEMMA FirstTable ==
  ASSUME NEW sorts \in Seq({"bool", "real"})
  PROVE  WellBuilt(PrimitiveTerms \o [k \in DOMAIN sorts |-> Declared(sorts[k])])
<1> DEFINE D == [k \in DOMAIN sorts |-> Declared(sorts[k])]
           n == Len(sorts)
           T == PrimitiveTerms \o D
<1>1. Zero \in Rat BY ZeroIsRat
<1>2. /\ n \in Nat /\ DOMAIN sorts = 1..n
      /\ \A k \in 1..n : sorts[k] \in {"bool", "real"}
  OBVIOUS
<1>3. \A s \in {"bool", "real"} : /\ Declared(s) \in Entry
                                  /\ Declared(s).kind = "uninterpreted"
                                  /\ Declared(s).args = << >>
  BY <1>1 DEF Declared, Composite, Entry, Kinds
<1>4. /\ PrimitiveTerms \in Seq(Entry) /\ Len(PrimitiveTerms) = 2
      /\ PrimitiveTerms[1].kind = "true" /\ PrimitiveTerms[1].args = << >>
      /\ PrimitiveTerms[2].kind = "constant" /\ PrimitiveTerms[2].args = << >>
      /\ PrimitiveTerms[2].type = "real"
      /\ PrimitiveTerms[1] \in Entry /\ PrimitiveTerms[2] \in Entry
  BY <1>1 DEF PrimitiveTerms, Composite, Entry, Kinds
<1>5. D \in Seq(Entry) /\ Len(D) = n /\ \A k \in 1..n : D[k] = Declared(sorts[k])
  <2>1. D \in [1..n -> Entry] BY <1>2, <1>3
  <2>2. DOMAIN D = 1..n BY <1>2
  <2> HIDE DEF n
  <2>3. QED BY <1>2, <2>1, <2>2, SMT
<1>6. T = PrimitiveTerms \o D OBVIOUS
<1> HIDE DEF D, n, T
<1>7. /\ T \in Seq(Entry) /\ Len(T) = n + 2 /\ DOMAIN T = 1..(n + 2)
      /\ T[1] = PrimitiveTerms[1] /\ T[2] = PrimitiveTerms[2]
      /\ \A i \in 3..(n + 2) : T[i] = Declared(sorts[i - 2])
  <2>1. /\ T \in Seq(Entry) /\ Len(T) = n + 2 /\ DOMAIN T = 1..(n + 2)
        /\ \A i \in 1..2 : T[i] = PrimitiveTerms[i]
        /\ \A i \in 3..(n + 2) : T[i] = D[i - 2]
    <3> DEFINE P == PrimitiveTerms
    <3>1. P \in Seq(Entry) /\ D \in Seq(Entry) /\ Len(P) = 2 /\ Len(D) = n
      BY <1>4, <1>5
    <3> HIDE DEF P
    <3>2. /\ P \o D \in Seq(Entry) /\ Len(P \o D) = Len(P) + Len(D)
          /\ DOMAIN (P \o D) = 1..(Len(P) + Len(D))
          /\ \A i \in 1..Len(P) : (P \o D)[i] = P[i]
          /\ \A i \in (Len(P) + 1)..(Len(P) + Len(D)) : (P \o D)[i] = D[i - Len(P)]
      BY <3>1, Joined
    <3>3. /\ P \o D \in Seq(Entry) /\ Len(P \o D) = 2 + n /\ DOMAIN (P \o D) = 1..(2 + n)
          /\ \A i \in 1..2 : (P \o D)[i] = P[i]
          /\ \A i \in (2 + 1)..(2 + n) : (P \o D)[i] = D[i - 2]
      BY <3>1, <3>2
    <3>4. 2 + n = n + 2 /\ 2 + 1 = 3 BY <1>2
    <3>5. QED BY <1>6, <3>3, <3>4 DEF P
  <2>2. \A i \in 3..(n + 2) : i - 2 \in 1..n BY <1>2
  <2>3. 1 \in 1..2 /\ 2 \in 1..2 OBVIOUS
  <2>4. \A i \in 3..(n + 2) : T[i] = Declared(sorts[i - 2])
    BY <1>5, <2>1, <2>2
  <2>5. QED BY <2>1, <2>3, <2>4
<1>8. \A i \in 3..(n + 2) : T[i] \in Entry /\ T[i].kind = "uninterpreted" /\ T[i].args = << >>
  <2>1. \A i \in 3..(n + 2) : i - 2 \in 1..n BY <1>2
  <2>2. QED BY <1>2, <1>3, <1>7, <2>1
<1>9. \A i \in DOMAIN T : i = 1 \/ i = 2 \/ i \in 3..(n + 2)
  BY <1>2, <1>7
<1>10. ASSUME NEW i \in DOMAIN T
       PROVE  T[i].args = << >> /\ Shape(T, T[i])
  <2>1. T[i].args = << >> /\ T[i] \in Entry BY <1>4, <1>7, <1>8, <1>9
  <2>2. \/ T[i].kind = "true" /\ T[i] = PrimitiveTerms[1]
        \/ T[i].kind = "constant" /\ T[i].type = "real"
        \/ T[i].kind = "uninterpreted"
    BY <1>4, <1>7, <1>8, <1>9
  <2>3. DOMAIN T[i].args = {} BY <2>1
  <2>4. QED BY <2>1, <2>2, <2>3 DEF Shape
<1>11. ASSUME NEW i \in DOMAIN T
       PROVE  DOMAIN T[i].args = {}
  <2>1. T[i].args = << >> BY <1>10
  <2>2. QED BY <2>1
<1>12. ASSUME NEW i \in DOMAIN T, NEW j \in DOMAIN T, T[i] = T[j], T[i].kind # "uninterpreted"
       PROVE  i = j
  <2>1. T[i].kind = T[j].kind BY <1>12
  <2>2. T[1].kind = "true" /\ T[2].kind = "constant" BY <1>4, <1>7
  <2>3. i = 1 \/ i = 2 BY <1>8, <1>9, <1>12
  <2>4. j = 1 \/ j = 2 BY <1>8, <1>9, <1>12, <2>1
  <2>5. QED BY <2>1, <2>2, <2>3, <2>4
<1>13. Len(T) >= 2 BY <1>2, <1>7
<1>14. WellBuilt(T)
  <2>1. \A i \in DOMAIN T :
          Shape(T, T[i]) /\ \A k \in DOMAIN T[i].args : index_of(T[i].args[k]) \in 1..(i - 1)
    BY <1>10, <1>11
  <2>2. QED BY <1>7, <1>12, <1>13, <2>1 DEF WellBuilt
<1>15. QED BY <1>14 DEF T, D

LEMMA TermsAre ==
  ASSUME WellBuilt(table)
  PROVE  /\ Bools \subseteq BoolOf(table)
         /\ Reals \subseteq RealOf(table)
         /\ \A c \in Constants : c \in RealOf(table) /\ is_arithmetic_constant(table, c)
<1>1. \A t \in Handles : t \in TermOf(table)
  <2>1. Len(table) \in Nat /\ DOMAIN table = 1..Len(table) BY TableFacts
  <2>2. \A t \in 2..(2 * Len(table) + 1) : t \in Nat /\ t \div 2 \in 1..Len(table)
    BY <2>1
  <2>3. QED BY <2>1, <2>2 DEF Handles, TermOf, index_of
<1>2. QED BY <1>1 DEF Bools, Reals, Constants, BoolOf, RealOf

LEMMA CallKeeps ==
  ASSUME TableInv, MayCall, NEW r, Call(r), Grown(table, r.tab)
  PROVE  TableInv'
<1>1. calls + 1 \in 0..problem.calls
  BY TermManagerAssumption DEF TableInv, MayCall
<1>2. problem' = problem /\ calls' = calls + 1 /\ table' = r.tab
  BY DEF Call
<1>3. WellBuilt(r.tab) BY DEF Grown
<1>4. QED BY <1>1, <1>2, <1>3 DEF TableInv

LEMMA TableStarts ==
  ASSUME Init
  PROVE  TableInv
<1>1. problem \in Problems /\ problem.sorts \in Seq({"bool", "real"}) /\ problem.calls \in Nat
  BY TermManagerAssumption DEF Init
<1>2. WellBuilt(table) BY <1>1, FirstTable DEF Init
<1>3. QED BY <1>1, <1>2 DEF Init, TableInv

LEMMA TableStays ==
  ASSUME TableInv, [Next]_vars
  PROVE  TableInv'
<1>1. /\ WellBuilt(table)
      /\ \A x \in Bools : x \in BoolOf(table)
      /\ \A x \in Reals : x \in RealOf(table)
      /\ \A x \in Constants : x \in RealOf(table) /\ is_arithmetic_constant(table, x)
  BY TermsAre DEF TableInv
<1>2. CASE MkConstant
  <2>1. PICK q \in problem.literals : Call(arithmetic_constant(table, q))
    BY <1>2 DEF MkConstant
  <2>2. q \in Rat
    <3>1. q \in Int \X (Nat \ {0}) /\ q = Frac(q[1], q[2])
      BY <2>1, TermManagerAssumption DEF TableInv
    <3>2. QED BY <3>1, FracIsRat
  <2>3. Grown(table, arithmetic_constant(table, q).tab)
    BY <1>1, <2>2, ConstantIs DEF Number
  <2>4. QED BY <1>2, <2>1, <2>3, CallKeeps DEF MkConstant
<1>3. CASE MkOr
  <2>1. PICK x, y, z \in Bools : Call(mk_or(table, <<x, y, z>>))
    BY <1>3 DEF MkOr
  <2>2. <<x, y, z>> \in Seq(BoolOf(table)) BY <1>1, <2>1
  <2>3. Grown(table, mk_or(table, <<x, y, z>>).tab)
    BY <1>1, <2>2, OrIs DEF Formula
  <2>4. QED BY <1>3, <2>1, <2>3, CallKeeps DEF MkOr
<1>4. CASE MkAnd
  <2>1. PICK x, y, z \in Bools : Call(mk_and(table, <<x, y, z>>))
    BY <1>4 DEF MkAnd
  <2>2. Grown(table, mk_and(table, <<x, y, z>>).tab)
    BY <1>1, ManyAndSays DEF Formula
  <2>3. QED BY <1>4, <2>1, <2>2, CallKeeps DEF MkAnd
<1>5. CASE MkImplies
  <2>1. PICK x, y \in Bools : Call(mk_implies(table, x, y))
    BY <1>5 DEF MkImplies
  <2>2. Grown(table, mk_implies(table, x, y).tab)
    BY <1>1, ImpliesSays DEF Formula
  <2>3. QED BY <1>5, <2>1, <2>2, CallKeeps DEF MkImplies
<1>6. CASE MkIff
  <2>1. PICK x, y \in Bools : Call(mk_iff(table, x, y))
    BY <1>6 DEF MkIff
  <2>2. Grown(table, mk_iff(table, x, y).tab)
    BY <1>1, IffSays DEF Formula
  <2>3. QED BY <1>6, <2>1, <2>2, CallKeeps DEF MkIff
<1>7. CASE MkXor
  <2>1. PICK x, y \in Bools : Call(mk_xor(table, x, y))
    BY <1>7 DEF MkXor
  <2>2. Grown(table, mk_xor(table, x, y).tab)
    BY <1>1, XorSays DEF Formula
  <2>3. QED BY <1>7, <2>1, <2>2, CallKeeps DEF MkXor
<1>8. CASE MkBoolIte
  <2>1. PICK c, t, e \in Bools : Call(mk_bool_ite(table, c, t, e))
    BY <1>8 DEF MkBoolIte
  <2>2. Grown(table, mk_bool_ite(table, c, t, e).tab)
    BY <1>1, IteSays DEF Formula
  <2>3. QED BY <1>8, <2>1, <2>2, CallKeeps DEF MkBoolIte
<1>9. CASE MkRealIte
  <2>1. PICK c \in Bools, t \in Reals, e \in Reals : Call(mk_arithmetic_ite(table, c, t, e))
    BY <1>9 DEF MkRealIte
  <2>2. Grown(table, mk_arithmetic_ite(table, c, t, e).tab)
    BY <1>1, RealIteSays DEF Number
  <2>3. QED BY <1>9, <2>1, <2>2, CallKeeps DEF MkRealIte
<1>10. CASE MkPlus
  <2>1. PICK x, y \in Reals : Call(mk_arithmetic_plus(table, <<x, y>>))
    BY <1>10 DEF MkPlus
  <2>2. Grown(table, mk_arithmetic_plus(table, <<x, y>>).tab)
    BY <1>1, PlusSays DEF Number
  <2>3. QED BY <1>10, <2>1, <2>2, CallKeeps DEF MkPlus
<1>11. CASE MkMinus
  <2>1. PICK x, y \in Reals : Call(mk_arithmetic_minus(table, x, y))
    BY <1>11 DEF MkMinus
  <2>2. Grown(table, mk_arithmetic_minus(table, x, y).tab)
    BY <1>1, MinusSays DEF Number
  <2>3. QED BY <1>11, <2>1, <2>2, CallKeeps DEF MkMinus
<1>12. CASE MkUnaryMinus
  <2>1. PICK x \in Reals : Call(mk_unary_minus(table, x))
    BY <1>12 DEF MkUnaryMinus
  <2>2. Grown(table, mk_unary_minus(table, x).tab)
    BY <1>1, UnaryMinusSays DEF Number
  <2>3. QED BY <1>12, <2>1, <2>2, CallKeeps DEF MkUnaryMinus
<1>13. CASE MkTimes
  <2>1. PICK c \in Constants, x \in Reals : Call(mk_arithmetic_times(table, c, x))
    BY <1>13 DEF MkTimes
  <2>2. Grown(table, mk_arithmetic_times(table, c, x).tab)
    BY <1>1, TimesSays DEF Number
  <2>3. QED BY <1>13, <2>1, <2>2, CallKeeps DEF MkTimes
<1>14. CASE MkDivides
  <2>1. PICK x \in Reals, c \in Constants \ {zero_term} :
          HasQuotient(table, x, c) /\ Call(mk_divides(table, x, c))
    BY <1>14 DEF MkDivides
  <2>2. Grown(table, mk_divides(table, x, c).tab)
    BY <1>1, <2>1, DividesSays DEF Number
  <2>3. QED BY <1>14, <2>1, <2>2, CallKeeps DEF MkDivides
<1>15. CASE MkGeq
  <2>1. PICK x, y \in Reals : Call(mk_arithmetic_geq(table, x, y))
    BY <1>15 DEF MkGeq
  <2>2. Grown(table, mk_arithmetic_geq(table, x, y).tab)
    BY <1>1, GeqSays DEF Formula
  <2>3. QED BY <1>15, <2>1, <2>2, CallKeeps DEF MkGeq
<1>16. CASE MkEq
  <2>1. PICK x, y \in Reals : HasDifference(table, x, y) /\ Call(mk_arithmetic_eq(table, x, y))
    BY <1>16 DEF MkEq
  <2>2. Grown(table, mk_arithmetic_eq(table, x, y).tab)
    BY <1>1, <2>1, EqSays DEF Formula
  <2>3. QED BY <1>16, <2>1, <2>2, CallKeeps DEF MkEq
<1>17. CASE UNCHANGED vars BY <1>17 DEF vars, TableInv
<1>18. QED BY <1>2, <1>3, <1>4, <1>5, <1>6, <1>7, <1>8, <1>9, <1>10, <1>11, <1>12, <1>13, <1>14, <1>15,
     <1>16, <1>17 DEF Next

\* In every state the table of terms is well built.
THEOREM TablesAreWellBuilt == Spec => []TableInv
<1>1. Init => TableInv BY TableStarts
<1>2. TableInv /\ [Next]_vars => TableInv' BY TableStays
<1>3. QED BY <1>1, <1>2, PTL DEF Spec

\* Sharing of terms is complete, every entry is built from older ones of the
\* types its kind asks for, and every entry is in the normal form that the
\* translation to clauses asserts: for every problem, after any calls.
THEOREM TermsAreNormal == Spec => []TermsInv
<1>1. TableInv => TermsInv
  BY TypedTable, NormalTable DEF TableInv, TermsInv
<1>2. QED BY <1>1, TablesAreWellBuilt, PTL

\* The simplifications of the boolean constructors keep the meaning of the
\* connective, in every table of terms the constructors can build.
THEOREM ConnectivesMeanWhatTheySay == Spec => []ConnectivesKeepMeaning
<1>1. TableInv => ConnectivesKeepMeaning BY ConnectivesKeep DEF TableInv
<1>2. QED BY <1>1, TablesAreWellBuilt, PTL

-----------------------------------------------------------------------------
(* The constructors of arithmetic mean what they should.                   *)

LEMMA AssignmentsAre ==
  ASSUME NEW T, WellBuilt(T), NEW points, points \subseteq Rat, NEW rho \in ValuationsOf(T, points)
  PROVE  IsAssignment(T, rho)
<1> DEFINE S == SymbolsOf(T)
           R == {t \in S : get_type(T, t) = "real"}
<1>1. rho \in Pieced(S, R, points, BOOLEAN) BY DEF ValuationsOf
<1>2. ASSUME NEW i \in DOMAIN T, T[i].kind = "uninterpreted", T[i].type = "real"
      PROVE  rho[2 * i] \in Rat
  <2>1. i \in Nat BY TableFacts
  <2>2. 2 * i \in S BY <1>2 DEF SymbolsOf
  <2>3. get_type(T, 2 * i) = "real" BY <1>2, <2>1, HandleOf DEF get_type
  <2>4. 2 * i \in S \cap R BY <2>2, <2>3
  <2> HIDE DEF S, R
  <2>5. QED BY <1>1, <2>4, PiecedIs
<1>3. QED BY <1>2, ValuationsAre DEF IsAssignment

\* The value of a positive term, and what a constructed term means in its own
\* table.
LEMMA PositiveValue ==
  ASSUME NEW F, NEW rho, NEW t, ~is_negated(t)
  PROVE  Value(ValuesIn(F, rho), t) = NumberIn(F, rho, t)
BY DEF Value, NumberIn

LEMMA NumberMeans ==
  ASSUME NEW T, WellBuilt(T), NEW r, Number(T, r)
  PROVE  /\ Grown(r.tab, r.tab)
         /\ \A rho, x : x = r.term \/ x \in RealOf(T)
              => Value(ValuesIn(r.tab, rho), x) = NumberIn(r.tab, rho, x)
<1>1. WellBuilt(r.tab) /\ ~is_negated(r.term)
  BY DEF Number, Grown, RealOf
<1>2. \A x \in RealOf(T) : ~is_negated(x) BY DEF RealOf
<1>3. QED BY <1>1, <1>2, PositiveValue, GrownReflexive

LEMMA FormulaMeans ==
  ASSUME NEW T, WellBuilt(T), NEW r, Formula(T, r)
  PROVE  /\ Grown(r.tab, r.tab)
         /\ \A rho : Value(ValuesIn(r.tab, rho), r.term) = Truth(r.tab, rho, r.term)
         /\ \A rho, x : x \in RealOf(T)
              => Value(ValuesIn(r.tab, rho), x) = NumberIn(r.tab, rho, x)
<1>1. WellBuilt(r.tab) BY DEF Formula, Grown
<1>2. \A x \in RealOf(T) : ~is_negated(x) BY DEF RealOf
<1>3. QED BY <1>1, <1>2, PositiveValue, GrownReflexive DEF Truth

LEMMA NumbersKeep ==
  ASSUME WellBuilt(table), NEW rho, IsAssignment(table, rho),
         NEW x \in RealOf(table), NEW y \in RealOf(table)
  PROVE  /\ LET r == mk_arithmetic_plus(table, <<x, y>>)
                val == ValuesIn(r.tab, rho)
            IN Value(val, r.term) = Plus(Value(val, x), Value(val, y))
         /\ LET r == mk_arithmetic_minus(table, x, y)
                val == ValuesIn(r.tab, rho)
            IN Value(val, r.term) = Minus(Value(val, x), Value(val, y))
         /\ LET r == mk_unary_minus(table, x)
                val == ValuesIn(r.tab, rho)
            IN Value(val, r.term) = Times(MinusOne, Value(val, x))
<1>1. LET r == mk_arithmetic_plus(table, <<x, y>>)
          val == ValuesIn(r.tab, rho)
      IN Value(val, r.term) = Plus(Value(val, x), Value(val, y))
  <2> DEFINE r == mk_arithmetic_plus(table, <<x, y>>)
  <2>1. /\ Number(table, r)
        /\ \A F, rh :
             Grown(r.tab, F) /\ IsAssignment(table, rh)
               => NumberIn(F, rh, r.term) = Plus(NumberIn(F, rh, x), NumberIn(F, rh, y))
    BY PlusSays
  <2> HIDE DEF r
  <2>2. /\ Grown(r.tab, r.tab)
        /\ Value(ValuesIn(r.tab, rho), r.term) = NumberIn(r.tab, rho, r.term)
        /\ Value(ValuesIn(r.tab, rho), x) = NumberIn(r.tab, rho, x)
        /\ Value(ValuesIn(r.tab, rho), y) = NumberIn(r.tab, rho, y)
    BY <2>1, NumberMeans
  <2>3. NumberIn(r.tab, rho, r.term) = Plus(NumberIn(r.tab, rho, x), NumberIn(r.tab, rho, y))
    BY <2>1, <2>2
  <2>4. QED BY <2>2, <2>3 DEF r
<1>2. LET r == mk_arithmetic_minus(table, x, y)
          val == ValuesIn(r.tab, rho)
      IN Value(val, r.term) = Minus(Value(val, x), Value(val, y))
  <2> DEFINE r == mk_arithmetic_minus(table, x, y)
  <2>1. /\ Number(table, r)
        /\ \A F, rh :
             Grown(r.tab, F) /\ IsAssignment(table, rh)
               => NumberIn(F, rh, r.term) = Minus(NumberIn(F, rh, x), NumberIn(F, rh, y))
    BY MinusSays
  <2> HIDE DEF r
  <2>2. /\ Grown(r.tab, r.tab)
        /\ Value(ValuesIn(r.tab, rho), r.term) = NumberIn(r.tab, rho, r.term)
        /\ Value(ValuesIn(r.tab, rho), x) = NumberIn(r.tab, rho, x)
        /\ Value(ValuesIn(r.tab, rho), y) = NumberIn(r.tab, rho, y)
    BY <2>1, NumberMeans
  <2>3. NumberIn(r.tab, rho, r.term) = Minus(NumberIn(r.tab, rho, x), NumberIn(r.tab, rho, y))
    BY <2>1, <2>2
  <2>4. QED BY <2>2, <2>3 DEF r
<1>3. LET r == mk_unary_minus(table, x)
          val == ValuesIn(r.tab, rho)
      IN Value(val, r.term) = Times(MinusOne, Value(val, x))
  <2> DEFINE r == mk_unary_minus(table, x)
  <2>1. /\ Number(table, r)
        /\ \A F, rh :
             Grown(r.tab, F) /\ IsAssignment(table, rh)
               => NumberIn(F, rh, r.term) = Times(MinusOne, NumberIn(F, rh, x))
    BY UnaryMinusSays
  <2> HIDE DEF r
  <2>2. /\ Grown(r.tab, r.tab)
        /\ Value(ValuesIn(r.tab, rho), r.term) = NumberIn(r.tab, rho, r.term)
        /\ Value(ValuesIn(r.tab, rho), x) = NumberIn(r.tab, rho, x)
    BY <2>1, NumberMeans
  <2>3. NumberIn(r.tab, rho, r.term) = Times(MinusOne, NumberIn(r.tab, rho, x))
    BY <2>1, <2>2
  <2>4. QED BY <2>2, <2>3 DEF r
<1>4. QED BY <1>1, <1>2, <1>3

LEMMA ScalingsKeep ==
  ASSUME WellBuilt(table), NEW rho, IsAssignment(table, rho),
         NEW x \in RealOf(table), NEW y \in RealOf(table), is_arithmetic_constant(table, y)
  PROVE  /\ LET r == mk_arithmetic_times(table, y, x)
                val == ValuesIn(r.tab, rho)
            IN Value(val, r.term) = Times(Value(val, x), Value(val, y))
         /\ y # zero_term /\ HasQuotient(table, x, y) =>
              LET r == mk_divides(table, x, y)
                  val == ValuesIn(r.tab, rho)
              IN Value(val, r.term) = Over(Value(val, x), Value(val, y))
<1>1. LET r == mk_arithmetic_times(table, y, x)
          val == ValuesIn(r.tab, rho)
      IN Value(val, r.term) = Times(Value(val, x), Value(val, y))
  <2> DEFINE r == mk_arithmetic_times(table, y, x)
  <2>1. Number(table, r) /\ TimesMeans(table, r, x, y) BY TimesSays
  <2> HIDE DEF r
  <2>2. /\ Grown(r.tab, r.tab)
        /\ Value(ValuesIn(r.tab, rho), r.term) = NumberIn(r.tab, rho, r.term)
        /\ Value(ValuesIn(r.tab, rho), x) = NumberIn(r.tab, rho, x)
        /\ Value(ValuesIn(r.tab, rho), y) = NumberIn(r.tab, rho, y)
    BY <2>1, NumberMeans
  <2>3. NumberIn(r.tab, rho, r.term) = Times(NumberIn(r.tab, rho, x), NumberIn(r.tab, rho, y))
    BY <2>1, <2>2 DEF TimesMeans
  <2>4. QED BY <2>2, <2>3 DEF r
<1>2. ASSUME y # zero_term, HasQuotient(table, x, y)
      PROVE  LET r == mk_divides(table, x, y)
                 val == ValuesIn(r.tab, rho)
             IN Value(val, r.term) = Over(Value(val, x), Value(val, y))
  <2> DEFINE r == mk_divides(table, x, y)
  <2>1. /\ Number(table, r)
        /\ \A F, rh :
             Grown(r.tab, F) /\ IsAssignment(table, rh)
               => NumberIn(F, rh, r.term) = Over(NumberIn(F, rh, x), NumberIn(F, rh, y))
    BY <1>2, DividesSays
  <2> HIDE DEF r
  <2>2. /\ Grown(r.tab, r.tab)
        /\ Value(ValuesIn(r.tab, rho), r.term) = NumberIn(r.tab, rho, r.term)
        /\ Value(ValuesIn(r.tab, rho), x) = NumberIn(r.tab, rho, x)
        /\ Value(ValuesIn(r.tab, rho), y) = NumberIn(r.tab, rho, y)
    BY <2>1, NumberMeans
  <2>3. NumberIn(r.tab, rho, r.term) = Over(NumberIn(r.tab, rho, x), NumberIn(r.tab, rho, y))
    BY <2>1, <2>2
  <2>4. QED BY <2>2, <2>3 DEF r
<1>3. QED BY <1>1, <1>2

LEMMA AtomsKeep ==
  ASSUME WellBuilt(table), NEW rho, IsAssignment(table, rho),
         NEW x \in RealOf(table), NEW y \in RealOf(table)
  PROVE  /\ LET r == mk_arithmetic_geq(table, x, y)
                val == ValuesIn(r.tab, rho)
            IN Value(val, r.term) = AtLeast(Value(val, x), Value(val, y))
         /\ LET r == mk_arithmetic_gt(table, x, y)
                val == ValuesIn(r.tab, rho)
            IN Value(val, r.term) = ~AtLeast(Value(val, y), Value(val, x))
         /\ HasDifference(table, x, y) =>
              LET r == mk_arithmetic_eq(table, x, y)
                  val == ValuesIn(r.tab, rho)
              IN Value(val, r.term) = (Value(val, x) = Value(val, y))
<1>1. LET r == mk_arithmetic_geq(table, x, y)
          val == ValuesIn(r.tab, rho)
      IN Value(val, r.term) = AtLeast(Value(val, x), Value(val, y))
  <2> DEFINE r == mk_arithmetic_geq(table, x, y)
  <2>1. Formula(table, r) /\ ComparesAtLeast(table, r, x, y) BY GeqSays
  <2> HIDE DEF r
  <2>2. /\ Grown(r.tab, r.tab)
        /\ Value(ValuesIn(r.tab, rho), r.term) = Truth(r.tab, rho, r.term)
        /\ Value(ValuesIn(r.tab, rho), x) = NumberIn(r.tab, rho, x)
        /\ Value(ValuesIn(r.tab, rho), y) = NumberIn(r.tab, rho, y)
    BY <2>1, FormulaMeans
  <2>3. Truth(r.tab, rho, r.term) = AtLeast(NumberIn(r.tab, rho, x), NumberIn(r.tab, rho, y))
    BY <2>1, <2>2 DEF ComparesAtLeast
  <2>4. QED BY <2>2, <2>3 DEF r
<1>2. LET r == mk_arithmetic_gt(table, x, y)
          val == ValuesIn(r.tab, rho)
      IN Value(val, r.term) = ~AtLeast(Value(val, y), Value(val, x))
  <2> DEFINE r == mk_arithmetic_gt(table, x, y)
  <2>1. /\ Formula(table, r)
        /\ \A F, rh :
             Grown(r.tab, F) /\ IsAssignment(table, rh)
               => /\ Logical(F, rh, r.term)
                  /\ Truth(F, rh, r.term) = ~AtLeast(NumberIn(F, rh, y), NumberIn(F, rh, x))
    BY GtSays
  <2> HIDE DEF r
  <2>2. /\ Grown(r.tab, r.tab)
        /\ Value(ValuesIn(r.tab, rho), r.term) = Truth(r.tab, rho, r.term)
        /\ Value(ValuesIn(r.tab, rho), x) = NumberIn(r.tab, rho, x)
        /\ Value(ValuesIn(r.tab, rho), y) = NumberIn(r.tab, rho, y)
    BY <2>1, FormulaMeans
  <2>3. Truth(r.tab, rho, r.term) = ~AtLeast(NumberIn(r.tab, rho, y), NumberIn(r.tab, rho, x))
    BY <2>1, <2>2
  <2>4. QED BY <2>2, <2>3 DEF r
<1>3. ASSUME HasDifference(table, x, y)
      PROVE  LET r == mk_arithmetic_eq(table, x, y)
                 val == ValuesIn(r.tab, rho)
             IN Value(val, r.term) = (Value(val, x) = Value(val, y))
  <2> DEFINE r == mk_arithmetic_eq(table, x, y)
  <2>1. /\ Formula(table, r)
        /\ \A F, rh :
             Grown(r.tab, F) /\ IsAssignment(table, rh)
               => /\ Logical(F, rh, r.term)
                  /\ Truth(F, rh, r.term) = (NumberIn(F, rh, x) = NumberIn(F, rh, y))
    BY <1>3, EqSays
  <2> HIDE DEF r
  <2>2. /\ Grown(r.tab, r.tab)
        /\ Value(ValuesIn(r.tab, rho), r.term) = Truth(r.tab, rho, r.term)
        /\ Value(ValuesIn(r.tab, rho), x) = NumberIn(r.tab, rho, x)
        /\ Value(ValuesIn(r.tab, rho), y) = NumberIn(r.tab, rho, y)
    BY <2>1, FormulaMeans
  <2>3. Truth(r.tab, rho, r.term) = (NumberIn(r.tab, rho, x) = NumberIn(r.tab, rho, y))
    BY <2>1, <2>2
  <2>4. QED BY <2>2, <2>3 DEF r
<1>4. QED BY <1>1, <1>2, <1>3

LEMMA RealIteKeeps ==
  ASSUME WellBuilt(table), NEW rho, IsAssignment(table, rho), NEW c \in BoolOf(table),
         NEW x \in RealOf(table), NEW y \in RealOf(table)
  PROVE  LET r == mk_arithmetic_ite(table, c, x, y)
             val == ValuesIn(r.tab, rho)
         IN Value(val, r.term) = IF Value(val, c) THEN Value(val, x) ELSE Value(val, y)
<1> DEFINE r == mk_arithmetic_ite(table, c, x, y)
<1>1. /\ Number(table, r)
      /\ \A F, rh :
           Grown(r.tab, F) /\ IsAssignment(table, rh)
             => NumberIn(F, rh, r.term)
                  = IF Truth(F, rh, c) THEN NumberIn(F, rh, x) ELSE NumberIn(F, rh, y)
  BY RealIteSays
<1> HIDE DEF r
<1>2. /\ Grown(r.tab, r.tab)
      /\ Value(ValuesIn(r.tab, rho), r.term) = NumberIn(r.tab, rho, r.term)
      /\ Value(ValuesIn(r.tab, rho), x) = NumberIn(r.tab, rho, x)
      /\ Value(ValuesIn(r.tab, rho), y) = NumberIn(r.tab, rho, y)
  BY <1>1, NumberMeans
<1>3. NumberIn(r.tab, rho, r.term)
        = IF Truth(r.tab, rho, c) THEN NumberIn(r.tab, rho, x) ELSE NumberIn(r.tab, rho, y)
  BY <1>1, <1>2
<1>4. QED BY <1>2, <1>3 DEF r, Truth

LEMMA ArithmeticKeeps ==
  ASSUME WellBuilt(table)
  PROVE  ArithmeticKeepsMeaning
<1> DEFINE Rho == ValuationsOf(table, Points)
<1>1. Points \subseteq Rat
  <2>1. \A q \in Points : q \in Int \X (Nat \ {0}) /\ q = Frac(q[1], q[2])
    BY TermManagerAssumption
  <2>2. QED BY <2>1, FracIsRat
<1>2. \A rho \in Rho : IsAssignment(table, rho) BY <1>1, AssignmentsAre
<1> HIDE DEF Rho
<1>3. ASSUME NEW x \in RealOf(table), NEW y \in RealOf(table)
      PROVE  /\ Means(mk_arithmetic_plus(table, <<x, y>>), <<x, y>>, LAMBDA v : Plus(v[1], v[2]))
             /\ Means(mk_arithmetic_minus(table, x, y), <<x, y>>, LAMBDA v : Minus(v[1], v[2]))
             /\ Means(mk_unary_minus(table, x), <<x>>, LAMBDA v : Times(MinusOne, v[1]))
             /\ Means(mk_arithmetic_geq(table, x, y), <<x, y>>, LAMBDA v : AtLeast(v[1], v[2]))
             /\ Means(mk_arithmetic_gt(table, x, y), <<x, y>>, LAMBDA v : ~AtLeast(v[2], v[1]))
             /\ HasDifference(table, x, y) =>
                  Means(mk_arithmetic_eq(table, x, y), <<x, y>>, LAMBDA v : v[1] = v[2])
  <2>1. \A val : LET v == [k \in DOMAIN <<x, y>> |-> Value(val, <<x, y>>[k])]
                 IN v[1] = Value(val, x) /\ v[2] = Value(val, y)
    OBVIOUS
  <2>2. \A val : LET v == [k \in DOMAIN <<x>> |-> Value(val, <<x>>[k])] IN v[1] = Value(val, x)
    OBVIOUS
  <2>3. Means(mk_arithmetic_plus(table, <<x, y>>), <<x, y>>, LAMBDA v : Plus(v[1], v[2]))
    BY <1>2, <2>1, NumbersKeep DEF Means, Rho
  <2>4. Means(mk_arithmetic_minus(table, x, y), <<x, y>>, LAMBDA v : Minus(v[1], v[2]))
    BY <1>2, <2>1, NumbersKeep DEF Means, Rho
  <2>5. Means(mk_unary_minus(table, x), <<x>>, LAMBDA v : Times(MinusOne, v[1]))
    <3>1. \A rho \in Rho : LET r == mk_unary_minus(table, x)
                               val == ValuesIn(r.tab, rho)
                           IN Value(val, r.term) = Times(MinusOne, Value(val, x))
      BY <1>2, NumbersKeep
    <3>2. QED BY <2>2, <3>1 DEF Means, Rho
  <2>6. Means(mk_arithmetic_geq(table, x, y), <<x, y>>, LAMBDA v : AtLeast(v[1], v[2]))
    BY <1>2, <2>1, AtomsKeep DEF Means, Rho
  <2>7. Means(mk_arithmetic_gt(table, x, y), <<x, y>>, LAMBDA v : ~AtLeast(v[2], v[1]))
    BY <1>2, <2>1, AtomsKeep DEF Means, Rho
  <2>8. HasDifference(table, x, y) =>
          Means(mk_arithmetic_eq(table, x, y), <<x, y>>, LAMBDA v : v[1] = v[2])
    BY <1>2, <2>1, AtomsKeep DEF Means, Rho
  <2>9. QED BY <2>3, <2>4, <2>5, <2>6, <2>7, <2>8
<1>4. ASSUME NEW x \in RealOf(table), NEW y \in RealOf(table), is_arithmetic_constant(table, y)
      PROVE  /\ Means(mk_arithmetic_times(table, y, x), <<x, y>>, LAMBDA v : Times(v[1], v[2]))
             /\ y # zero_term /\ HasQuotient(table, x, y) =>
                  Means(mk_divides(table, x, y), <<x, y>>, LAMBDA v : Over(v[1], v[2]))
  <2>1. \A val : LET v == [k \in DOMAIN <<x, y>> |-> Value(val, <<x, y>>[k])]
                 IN v[1] = Value(val, x) /\ v[2] = Value(val, y)
    OBVIOUS
  <2>2. Means(mk_arithmetic_times(table, y, x), <<x, y>>, LAMBDA v : Times(v[1], v[2]))
    BY <1>2, <1>4, <2>1, ScalingsKeep DEF Means, Rho
  <2>3. ASSUME y # zero_term, HasQuotient(table, x, y)
        PROVE  Means(mk_divides(table, x, y), <<x, y>>, LAMBDA v : Over(v[1], v[2]))
    BY <1>2, <1>4, <2>1, <2>3, ScalingsKeep DEF Means, Rho
  <2>4. QED BY <2>2, <2>3
<1>5. ASSUME NEW x \in RealOf(table), NEW y \in RealOf(table), NEW c \in BoolOf(table)
      PROVE  Means(mk_arithmetic_ite(table, c, x, y), <<c, x, y>>,
                   LAMBDA v : IF v[1] THEN v[2] ELSE v[3])
  <2>1. \A val : LET v == [k \in DOMAIN <<c, x, y>> |-> Value(val, <<c, x, y>>[k])]
                 IN v[1] = Value(val, c) /\ v[2] = Value(val, x) /\ v[3] = Value(val, y)
    OBVIOUS
  <2>2. QED BY <1>2, <2>1, RealIteKeeps DEF Means, Rho
<1>6. /\ \A t \in Bools : t \in BoolOf(table)
      /\ \A t \in Reals : t \in RealOf(table)
      /\ \A c \in Constants : c \in RealOf(table) /\ is_arithmetic_constant(table, c)
  BY TermsAre
<1>7. QED BY <1>3, <1>4, <1>5, <1>6 DEF ArithmeticKeepsMeaning

\* The normal forms of the arithmetic constructors (sums as polynomials,
\* differences compared with zero, equations solved for a variable, conditional
\* terms with a positive condition) have the value of the operator, in every
\* table of terms the constructors can build and for all rational values.  For
\* a quotient of a term that is not a constant, this holds of the divisors of
\* which inv() returns the reciprocal, and the calls are limited to those.
THEOREM ArithmeticMeansWhatItSays == Spec => []ArithmeticKeepsMeaning
<1>1. TableInv => ArithmeticKeepsMeaning BY ArithmeticKeeps DEF TableInv
<1>2. QED BY <1>1, TablesAreWellBuilt, PTL
=============================================================================
