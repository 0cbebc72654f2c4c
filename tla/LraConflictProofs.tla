------------------------- MODULE LraConflictProofs -------------------------
(***************************************************************************)
(* Proofs about the conflicts of LraPlugin, for any rational variables and *)
(* any constraints with coefficients 1 and -1: resolving two constraints   *)
(* is sound, bounds that leave no room resolve to a constraint that is     *)
(* false, and so every conflict that is reported is a lemma; and where no  *)
(* conflict is reported there is room, and a value is found in it.         *)
(***************************************************************************)
EXTENDS LraPluginProofs

-----------------------------------------------------------------------------
(* Polynomials.                                                            *)

Valuations == [RealVars -> Int]

\* The value of a polynomial, and what it says of it.
PolyValue(p, rho) == WeightedSum(p.coef, DOMAIN p.coef, rho) + p.const

PolyHolds(p, rho) == Holds(p.pred, PolyValue(p, rho), 0)

PolyForm(p) ==
  /\ DOMAIN p.coef \in SUBSET RealVars /\ p.coef \in [DOMAIN p.coef -> Int]
  /\ p.const \in Int /\ p.pred \in {"eq", "lt", "leq"}

LEMMA PolyValueInt ==
  ASSUME NEW p, PolyForm(p), NEW rho \in Valuations
  PROVE  PolyValue(p, rho) \in Int
<1>1. IsFiniteSet(DOMAIN p.coef)
  BY RealVarsAssumption, FS_Subset DEF PolyForm
<1>2. \A r \in DOMAIN p.coef : p.coef[r] \in Int /\ rho[r] \in Int
  BY DEF PolyForm, Valuations
<1>3. WeightedSum(p.coef, DOMAIN p.coef, rho) \in Int
  BY <1>1, <1>2, SumType
<1>4. QED BY <1>3 DEF PolyValue, PolyForm

\* A sum is multiplied term by term.
LEMMA SumScaled ==
  ASSUME NEW D, IsFiniteSet(D), NEW coef, NEW rho, \A r \in D : coef[r] \in Int /\ rho[r] \in Int,
         NEW m \in {1, -1}, NEW scaled, \A r \in D : scaled[r] = m * coef[r]
  PROVE  /\ WeightedSum(coef, D, rho) \in Int
         /\ WeightedSum(scaled, D, rho) = m * WeightedSum(coef, D, rho)
<1> DEFINE f == [r \in D |-> coef[r] * rho[r]]
           h == [r \in D |-> (m * coef[r]) * rho[r]]
           z == [r \in D |-> 0]
<1>1. f \in [D -> Int] /\ h \in [D -> Int] /\ z \in [D -> Int]
  <2>1. \A r \in D : coef[r] * rho[r] \in Int /\ (m * coef[r]) * rho[r] \in Int
    OBVIOUS
  <2>2. QED BY <2>1
<1>2. \A r \in D : h[r] = m * f[r] + 1 * z[r]
  <2> SUFFICES ASSUME NEW r \in D
               PROVE  (m * coef[r]) * rho[r] = m * (coef[r] * rho[r])
    OBVIOUS
  <2>1. CASE m = 1 BY <2>1
  <2>2. CASE m = -1 BY <2>2
  <2>3. QED BY <2>1, <2>2
<1>3. SumOf(z, D) = 0
  <2>1. PICK part : part = {} OBVIOUS
  <2>2. PICK none : none = [r \in part |-> 0] OBVIOUS
  <2>3. /\ part \in SUBSET D /\ none \in [part -> Int]
        /\ \A r \in part : none[r] = z[r]
        /\ \A r \in D \ part : z[r] = 0
    BY <2>1, <2>2
  <2> HIDE DEF z
  <2>4. SumOf(z, D) = SumOf(none, part) BY <1>1, <2>3, SumOfNonzero
  <2>5. QED BY <2>1, <2>4, SumOfNone
<1>4. WeightedSum(coef, D, rho) = SumOf(f, D) BY SumIsFold
<1>5. WeightedSum(scaled, D, rho) = SumOf(h, D)
  <2>1. WeightedSum(scaled, D, rho) = SumOf([r \in D |-> scaled[r] * rho[r]], D)
    BY SumIsFold
  <2>2. [r \in D |-> scaled[r] * rho[r]] = h OBVIOUS
  <2>3. QED BY <2>1, <2>2
<1> HIDE DEF f, h, z
<1>6. 1 \in {1, -1} OBVIOUS
<1>7. SumOf(f, D) \in Int /\ SumOf(h, D) = m * SumOf(f, D) + 1 * SumOf(z, D)
  BY <1>1, <1>2, <1>6, SumOfBoth
<1>8. m * SumOf(f, D) \in Int BY <1>7
<1>9. QED BY <1>3, <1>4, <1>5, <1>7, <1>8

LEMMA Distributes ==
  ASSUME NEW a \in {1, -1}, NEW b \in {1, -1}, NEW c \in Int, NEW d \in Int, NEW x \in Int
  PROVE  (a * c + b * d) * x = a * (c * x) + b * (d * x)
<1>1. CASE a = 1 /\ b = 1 BY <1>1
<1>2. CASE a = 1 /\ b = -1 BY <1>2
<1>3. CASE a = -1 /\ b = 1 BY <1>3
<1>4. CASE a = -1 /\ b = -1 BY <1>4
<1>5. QED BY <1>1, <1>2, <1>3, <1>4

\* The value of a combination is the combination of the values.
LEMMA CombinedValue ==
  ASSUME NEW p, NEW q, PolyForm(p), PolyForm(q), NEW rho \in Valuations,
         NEW a \in {1, -1}, NEW b \in {1, -1}
  PROVE  PolyValue(Combination(p, a, q, b), rho) = a * PolyValue(p, rho) + b * PolyValue(q, rho)
<1> DEFINE D == DOMAIN p.coef \cup DOMAIN q.coef
           c(r) == a * Coefficient(p, r) + b * Coefficient(q, r)
           E == {r \in D : c(r) # 0}
           f == [r \in D |-> Coefficient(p, r) * rho[r]]
           g == [r \in D |-> Coefficient(q, r) * rho[r]]
           h == [r \in D |-> c(r) * rho[r]]
           t == Combination(p, a, q, b)
<1>1. /\ IsFiniteSet(D) /\ E \in SUBSET D
      /\ DOMAIN p.coef \in SUBSET D /\ DOMAIN q.coef \in SUBSET D
  <2>1. D \in SUBSET RealVars BY DEF PolyForm
  <2>2. QED BY <2>1, RealVarsAssumption, FS_Subset
<1>2. \A r \in D : Coefficient(p, r) \in Int /\ Coefficient(q, r) \in Int /\ rho[r] \in Int
  BY DEF PolyForm, Coefficient, Valuations
<1>3. \A r \in D :
        /\ c(r) \in Int
        /\ c(r) * rho[r] = a * (Coefficient(p, r) * rho[r]) + b * (Coefficient(q, r) * rho[r])
  BY <1>2, Distributes
<1>4. f \in [D -> Int] /\ g \in [D -> Int] /\ h \in [D -> Int]
  <2>1. \A r \in D : /\ Coefficient(p, r) * rho[r] \in Int /\ Coefficient(q, r) * rho[r] \in Int
                     /\ c(r) * rho[r] \in Int
    BY <1>2, <1>3
  <2>2. QED BY <2>1
<1>5. \A r \in D : h[r] = a * f[r] + b * g[r] BY <1>3
<1>6. t.coef = [r \in E |-> c(r)] /\ DOMAIN t.coef = E /\ t.const = a * p.const + b * q.const
  BY DEF Combination
<1>7. SumOf(f, D) = WeightedSum(p.coef, DOMAIN p.coef, rho)
  <2> DEFINE k == [r \in DOMAIN p.coef |-> p.coef[r] * rho[r]]
  <2>1. \A r \in DOMAIN p.coef : k[r] = f[r] /\ f[r] \in Int
    BY <1>1, <1>4 DEF Coefficient
  <2>2. k \in [DOMAIN p.coef -> Int] BY <2>1
  <2>3. \A r \in D \ DOMAIN p.coef : f[r] = 0 BY <1>2 DEF Coefficient
  <2>4. WeightedSum(p.coef, DOMAIN p.coef, rho) = SumOf(k, DOMAIN p.coef)
    BY SumIsFold
  <2> HIDE DEF f, k, D
  <2>5. SumOf(f, D) = SumOf(k, DOMAIN p.coef)
    BY <1>1, <1>4, <2>1, <2>2, <2>3, SumOfNonzero
  <2>6. QED BY <2>4, <2>5
<1>8. SumOf(g, D) = WeightedSum(q.coef, DOMAIN q.coef, rho)
  <2> DEFINE k == [r \in DOMAIN q.coef |-> q.coef[r] * rho[r]]
  <2>1. \A r \in DOMAIN q.coef : k[r] = g[r] /\ g[r] \in Int
    BY <1>1, <1>4 DEF Coefficient
  <2>2. k \in [DOMAIN q.coef -> Int] BY <2>1
  <2>3. \A r \in D \ DOMAIN q.coef : g[r] = 0 BY <1>2 DEF Coefficient
  <2>4. WeightedSum(q.coef, DOMAIN q.coef, rho) = SumOf(k, DOMAIN q.coef)
    BY SumIsFold
  <2> HIDE DEF g, k, D
  <2>5. SumOf(g, D) = SumOf(k, DOMAIN q.coef)
    BY <1>1, <1>4, <2>1, <2>2, <2>3, SumOfNonzero
  <2>6. QED BY <2>4, <2>5
<1>9. SumOf(h, D) = WeightedSum(t.coef, E, rho)
  <2> DEFINE k == [r \in E |-> t.coef[r] * rho[r]]
  <2>1. \A r \in E : k[r] = h[r] /\ h[r] \in Int BY <1>1, <1>4, <1>6
  <2>2. k \in [E -> Int] BY <2>1
  <2>3. \A r \in D \ E : h[r] = 0 BY <1>2
  <2>4. WeightedSum(t.coef, E, rho) = SumOf(k, E) BY SumIsFold
  <2> HIDE DEF h, k, D, E
  <2>5. SumOf(h, D) = SumOf(k, E)
    BY <1>1, <1>4, <2>1, <2>2, <2>3, SumOfNonzero
  <2>6. QED BY <2>4, <2>5
<1> HIDE DEF f, g, h, D, E, t
<1>10. SumOf(f, D) \in Int /\ SumOf(g, D) \in Int /\ SumOf(h, D) = a * SumOf(f, D) + b * SumOf(g, D)
  BY <1>1, <1>4, <1>5, SumOfBoth
<1>11. PICK F, G : F = SumOf(f, D) /\ G = SumOf(g, D) OBVIOUS
<1>12. PICK m, n : m = p.const /\ n = q.const OBVIOUS
<1>13. m \in Int /\ n \in Int BY <1>12 DEF PolyForm
<1>14. (a * F + b * G) + (a * m + b * n) = a * (F + m) + b * (G + n)
  BY <1>10, <1>11, <1>13
<1>15. /\ PolyValue(t, rho) = (a * F + b * G) + (a * m + b * n)
       /\ PolyValue(p, rho) = F + m /\ PolyValue(q, rho) = G + n
  BY <1>6, <1>7, <1>8, <1>9, <1>10, <1>11, <1>12 DEF PolyValue
<1>16. QED BY <1>14, <1>15 DEF t

-----------------------------------------------------------------------------
(* Resolution.                                                             *)

\* p bounds r from one side or is an equation, q bounds it from the other one.
Facing(p, q, r, d) ==
  /\ r \in DOMAIN p.coef /\ r \in DOMAIN q.coef
  /\ p.coef[r] \in {1, -1} /\ q.coef[r] \in {1, -1} /\ d \in {1, -1}
  /\ p.pred # "eq" => p.coef[r] = -d
  /\ q.pred # "eq" => q.coef[r] = d

\* What Resolve multiplies them by: only an equation changes its sign.
LEMMA ResolvedBy ==
  ASSUME NEW p, NEW q, NEW r, NEW d, Facing(p, q, r, d)
  PROVE  \E a, b \in {1, -1} :
           /\ Resolve(p, q, r) = Combination(p, a, q, b)
           /\ a * p.coef[r] = -(b * q.coef[r])
           /\ a = -1 => p.pred = "eq"
           /\ b = -1 => q.pred = "eq"
           /\ p.pred # "eq" \/ q.pred # "eq" => b * q.coef[r] = d
<1>1. PICK x, y, m : x = p.coef[r] /\ y = q.coef[r] /\ m = -x * y
  OBVIOUS
<1>2. x \in {1, -1} /\ y \in {1, -1} /\ d \in {1, -1} BY <1>1 DEF Facing
<1>3. m \in {1, -1} /\ (m = 1 <=> x = -y) BY <1>1, <1>2
<1>4. (p.pred # "eq" => x = -d) /\ (q.pred # "eq" => y = d)
  BY <1>1 DEF Facing
<1>5. CASE m < 0 /\ q.pred # "eq"
  <2>1. Resolve(p, q, r) = Combination(p, -1, q, 1)
    <3>1. Resolve(p, q, r) = Combination(p, -1, q, -m)
      BY <1>1, <1>5 DEF Resolve
    <3>2. -m = 1 BY <1>3, <1>5
    <3>3. QED BY <3>1, <3>2
  <2>2. x = y /\ y = d /\ p.pred = "eq" BY <1>2, <1>3, <1>4, <1>5
  <2>3. -1 * x = -(1 * y) /\ 1 * y = d BY <1>2, <2>2
  <2>4. PICK a, b \in {1, -1} : a = -1 /\ b = 1 OBVIOUS
  <2>5. Resolve(p, q, r) = Combination(p, a, q, b) BY <2>1, <2>4
  <2>6. a * x = -(b * y) /\ b * y = d /\ b # -1 BY <1>2, <2>2, <2>4
  <2>7. QED BY <1>1, <2>2, <2>5, <2>6
<1>6. CASE ~(m < 0 /\ q.pred # "eq")
  <2>1. Resolve(p, q, r) = Combination(p, 1, q, m)
    BY <1>1, <1>6 DEF Resolve
  <2>2. 1 * x = -(m * y) BY <1>2, <1>3
  <2>3. m = -1 => q.pred = "eq" BY <1>3, <1>6
  <2>4. p.pred # "eq" \/ q.pred # "eq" => m * y = d
    BY <1>2, <1>3, <1>4, <2>3
  <2>5. PICK a, b \in {1, -1} : a = 1 /\ b = m BY <1>3
  <2>6. /\ Resolve(p, q, r) = Combination(p, a, q, b) /\ a * x = -(b * y) /\ a # -1
        /\ b = -1 => q.pred = "eq"
        /\ p.pred # "eq" \/ q.pred # "eq" => b * y = d
    BY <2>1, <2>2, <2>3, <2>4, <2>5
  <2>7. QED BY <1>1, <2>6
<1>7. QED BY <1>5, <1>6

LEMMA CombinedPred ==
  ASSUME NEW p, NEW q, NEW a, NEW b
  PROVE  Combination(p, a, q, b).pred = Combine(p.pred, q.pred)
BY DEF Combination

LEMMA HoldsEither ==
  ASSUME NEW x, NEW y
  PROVE  /\ Holds("eq", x, y) <=> x = y
         /\ Holds("lt", x, y) <=> x < y
         /\ Holds("leq", x, y) <=> x <= y
BY DEF Holds

\* Whatever makes both hold makes the resolvent hold.
LEMMA ResolveSound ==
  ASSUME NEW p, NEW q, PolyForm(p), PolyForm(q), NEW r, NEW d, Facing(p, q, r, d),
         NEW rho \in Valuations, PolyHolds(p, rho), PolyHolds(q, rho)
  PROVE  PolyHolds(Resolve(p, q, r), rho)
<1>1. PICK a, b \in {1, -1} :
        /\ Resolve(p, q, r) = Combination(p, a, q, b)
        /\ a = -1 => p.pred = "eq"
        /\ b = -1 => q.pred = "eq"
  BY ResolvedBy
<1>2. PICK P, Q : P = PolyValue(p, rho) /\ Q = PolyValue(q, rho) OBVIOUS
<1>3. P \in Int /\ Q \in Int BY <1>2, PolyValueInt
<1>4. PolyValue(Resolve(p, q, r), rho) = a * P + b * Q
  BY <1>1, <1>2, CombinedValue
<1>5. Resolve(p, q, r).pred = Combine(p.pred, q.pred)
  BY <1>1, CombinedPred
<1>6. Holds(p.pred, P, 0) /\ Holds(q.pred, Q, 0) BY <1>2 DEF PolyHolds
<1>7. p.pred \in {"eq", "lt", "leq"} /\ q.pred \in {"eq", "lt", "leq"}
  BY DEF PolyForm
<1>8. /\ p.pred = "eq" => P = 0
      /\ p.pred = "lt" => P < 0
      /\ p.pred = "leq" => P <= 0
      /\ q.pred = "eq" => Q = 0
      /\ q.pred = "lt" => Q < 0
      /\ q.pred = "leq" => Q <= 0
  BY <1>6, HoldsEither
<1>9. a * P = P \/ (a * P = 0 /\ P = 0) BY <1>1, <1>3, <1>8
<1>10. b * Q = Q \/ (b * Q = 0 /\ Q = 0) BY <1>1, <1>3, <1>8
<1>11. a * P + b * Q = P + Q BY <1>3, <1>9, <1>10
<1>12. CASE p.pred = "eq" /\ q.pred = "eq"
  <2>1. P + Q = 0 /\ Combine(p.pred, q.pred) = "eq"
    BY <1>3, <1>8, <1>12 DEF Combine
  <2>2. QED BY <1>4, <1>5, <1>11, <2>1, HoldsEither DEF PolyHolds
<1>13. CASE p.pred = "lt" \/ q.pred = "lt"
  <2>1. P + Q < 0 /\ Combine(p.pred, q.pred) = "lt"
    BY <1>3, <1>7, <1>8, <1>13 DEF Combine
  <2>2. QED BY <1>4, <1>5, <1>11, <2>1, HoldsEither DEF PolyHolds
<1>14. CASE ~(p.pred = "eq" /\ q.pred = "eq") /\ p.pred # "lt" /\ q.pred # "lt"
  <2>1. P + Q <= 0 /\ Combine(p.pred, q.pred) = "leq"
    BY <1>3, <1>7, <1>8, <1>14 DEF Combine
  <2>2. QED BY <1>4, <1>5, <1>11, <2>1, HoldsEither DEF PolyHolds
<1>15. QED BY <1>12, <1>13, <1>14

\* The value at which p and q would be tight are v - w apart, or meet where one of them is strict.
Apart(p, q, v, w, d) ==
  /\ v \in Int /\ w \in Int
  /\ d * (w - v) > 0 \/ (w = v /\ "lt" \in {p.pred, q.pred})

\* A resolvent is false where the two leave no room for r.
LEMMA ResolveFalse ==
  ASSUME NEW p, NEW q, PolyForm(p), PolyForm(q), NEW r, NEW d, Facing(p, q, r, d),
         NEW v, NEW w, Apart(p, q, v, w, d),
         NEW rho \in Valuations, PolyValue(p, rho) = p.coef[r] * (v - w), PolyValue(q, rho) = 0
  PROVE  ~PolyHolds(Resolve(p, q, r), rho)
<1>1. PICK a, b \in {1, -1} :
        /\ Resolve(p, q, r) = Combination(p, a, q, b)
        /\ a * p.coef[r] = -(b * q.coef[r])
        /\ p.pred # "eq" \/ q.pred # "eq" => b * q.coef[r] = d
  BY ResolvedBy
<1>2. PICK x, y : x = p.coef[r] /\ y = q.coef[r] OBVIOUS
<1>3. x \in {1, -1} /\ y \in {1, -1} /\ d \in {1, -1} /\ v \in Int /\ w \in Int
  BY <1>2 DEF Facing, Apart
<1>4. PICK P : P = x * (v - w) OBVIOUS
<1>5. P \in Int BY <1>3, <1>4
<1>6. PolyValue(Resolve(p, q, r), rho) = a * P + b * 0
  BY <1>1, <1>2, <1>4, CombinedValue
<1>7. PICK e : e = b * y OBVIOUS
<1>8. e \in {1, -1} /\ a * x = -e BY <1>1, <1>2, <1>3, <1>7
<1>9. a * P + b * 0 = e * (w - v)
  <2>1. CASE x = 1 BY <1>3, <1>4, <1>8, <2>1
  <2>2. CASE x = -1 BY <1>3, <1>4, <1>8, <2>2
  <2>3. QED BY <1>3, <2>1, <2>2
<1>10. Resolve(p, q, r).pred = Combine(p.pred, q.pred)
  BY <1>1, CombinedPred
<1>11. p.pred \in {"eq", "lt", "leq"} /\ q.pred \in {"eq", "lt", "leq"}
  BY DEF PolyForm
<1>12. d * (w - v) > 0 \/ (w = v /\ "lt" \in {p.pred, q.pred})
  BY DEF Apart
<1>13. CASE p.pred = "eq" /\ q.pred = "eq"
  <2>1. w - v # 0 /\ Combine(p.pred, q.pred) = "eq"
    BY <1>3, <1>12, <1>13 DEF Combine
  <2>2. e * (w - v) # 0 BY <1>3, <1>8, <2>1
  <2>3. QED BY <1>6, <1>9, <1>10, <2>1, <2>2, HoldsEither DEF PolyHolds
<1>14. CASE ~(p.pred = "eq" /\ q.pred = "eq")
  <2>1. e = d BY <1>1, <1>2, <1>7, <1>14
  <2>2. CASE d * (w - v) > 0
    <3>1. ~(e * (w - v) < 0) /\ ~(e * (w - v) <= 0) BY <1>3, <2>1, <2>2
    <3>2. Combine(p.pred, q.pred) \in {"lt", "leq"} BY <1>14 DEF Combine
    <3>3. QED BY <1>6, <1>9, <1>10, <3>1, <3>2, HoldsEither DEF PolyHolds
  <2>3. CASE w = v /\ "lt" \in {p.pred, q.pred}
    <3>1. ~(e * (w - v) < 0) BY <1>3, <1>8, <2>3
    <3>2. Combine(p.pred, q.pred) = "lt" BY <2>3 DEF Combine
    <3>3. QED BY <1>6, <1>9, <1>10, <3>1, <3>2, HoldsEither DEF PolyHolds
  <2>4. QED BY <1>12, <2>2, <2>3
<1>15. QED BY <1>13, <1>14

\* The variable that is resolved upon is gone, and no other has come.
LEMMA ResolveDomain ==
  ASSUME NEW p, NEW q, PolyForm(p), PolyForm(q), NEW r, NEW d, Facing(p, q, r, d)
  PROVE  DOMAIN Resolve(p, q, r).coef \subseteq (DOMAIN p.coef \cup DOMAIN q.coef) \ {r}
<1>1. PICK a, b \in {1, -1} :
        /\ Resolve(p, q, r) = Combination(p, a, q, b)
        /\ a * p.coef[r] = -(b * q.coef[r])
  BY ResolvedBy
<1>2. PICK x, y : x = p.coef[r] /\ y = q.coef[r] OBVIOUS
<1>3. x \in {1, -1} /\ y \in {1, -1} BY <1>2 DEF Facing
<1>4. a * x + b * y = 0 BY <1>1, <1>2, <1>3
<1>5. Coefficient(p, r) = x /\ Coefficient(q, r) = y
  BY <1>2 DEF Facing, Coefficient
<1>6. DOMAIN Combination(p, a, q, b).coef =
        {s \in DOMAIN p.coef \cup DOMAIN q.coef : a * Coefficient(p, s) + b * Coefficient(q, s) # 0}
  BY DEF Combination
<1>7. QED BY <1>1, <1>4, <1>5, <1>6

-----------------------------------------------------------------------------
(* Literals as polynomials.                                                *)

\* A literal of a constraint.
LitOf(lit) == lit \in Int /\ lit # 0 /\ AtomOf(lit) \in DOMAIN constraints

LEMMA PolyIsForm ==
  ASSUME FormsOK, NEW lit, AtomOf(lit) \in DOMAIN constraints, NEW p, PolyAbout(p, lit)
  PROVE  PolyForm(p)
<1>1. VarsOf(lit) \in SUBSET RealVars
  BY Forms DEF FormOf, VarsOf, Constraint
<1>2. p.coef \in [VarsOf(lit) -> Int] BY DEF PolyAbout
<1>3. QED BY <1>1, <1>2 DEF PolyAbout, PolyForm

LEMMA PolySays ==
  ASSUME FormsOK, NEW lit, LitOf(lit), NEW rho \in Valuations, NEW c, c = Constraint(lit),
         NEW sum, sum = WeightedSum(c.coef, DOMAIN c.coef, rho)
  PROVE  /\ sum \in Int /\ c.rhs \in Int /\ c.pred \in {"eq", "lt", "leq"}
         /\ \A m \in {1, -1} : \A pred :
              /\ PolyValue(Poly(lit, pred, m), rho) = m * (sum - c.rhs)
              /\ Poly(lit, pred, m).pred = pred
         /\ Satisfied(c, rho) <=> Holds(c.pred, sum, c.rhs)
<1>1. FormOf(c) /\ VarsOf(lit) = DOMAIN c.coef
  BY Forms DEF LitOf, Constraint, VarsOf
<1> DEFINE D == DOMAIN c.coef
<1>2. IsFiniteSet(D) /\ \A r \in D : c.coef[r] \in Int /\ rho[r] \in Int
  BY <1>1 DEF FormOf, Valuations
<1>3. c.rhs \in Int /\ c.pred \in {"eq", "lt", "leq"} BY <1>1 DEF FormOf
<1>4. ASSUME NEW m \in {1, -1}, NEW pred
      PROVE  /\ sum \in Int
             /\ PolyValue(Poly(lit, pred, m), rho) = m * (sum - c.rhs)
             /\ Poly(lit, pred, m).pred = pred
  <2> DEFINE coef == [r \in D |-> m * c.coef[r]]
  <2>1. Poly(lit, pred, m) = [coef |-> coef, const |-> -m * c.rhs, pred |-> pred]
    BY <1>1 DEF Poly
  <2>2. DOMAIN coef = D OBVIOUS
  <2>3. sum \in Int /\ WeightedSum(coef, D, rho) = m * sum
    <3>1. PICK k : k = c.coef OBVIOUS
    <3>2. PICK E : E = D OBVIOUS
    <3>3. IsFiniteSet(E) /\ \A r \in E : k[r] \in Int /\ rho[r] \in Int
      BY <1>2, <3>1, <3>2
    <3>4. \A r \in E : coef[r] = m * k[r] BY <3>1, <3>2
    <3> HIDE DEF coef, D
    <3>5. WeightedSum(k, E, rho) \in Int /\ WeightedSum(coef, E, rho) = m * WeightedSum(k, E, rho)
      BY <3>3, <3>4, SumScaled
    <3>6. QED BY <3>1, <3>2, <3>5 DEF D
  <2> HIDE DEF coef, D
  <2>4. PolyValue(Poly(lit, pred, m), rho) = m * sum + (-m * c.rhs)
    BY <2>1, <2>2, <2>3 DEF PolyValue
  <2>5. m * sum + (-m * c.rhs) = m * (sum - c.rhs)
    <3>1. CASE m = 1 BY <1>3, <2>3, <3>1
    <3>2. CASE m = -1 BY <1>3, <2>3, <3>2
    <3>3. QED BY <3>1, <3>2
  <2>6. QED BY <2>1, <2>3, <2>4, <2>5
<1>5. Satisfied(c, rho) <=> Holds(c.pred, sum, c.rhs) BY DEF Satisfied
<1>6. sum \in Int BY <1>4
<1>7. QED BY <1>3, <1>4, <1>5, <1>6

LEMMA PredSays ==
  ASSUME NEW pred \in {"eq", "lt", "leq"}, NEW x \in Int, NEW y \in Int
  PROVE  /\ Holds(pred, 1 * (x - y), 0) <=> Holds(pred, x, y)
         /\ pred = "eq" => (Holds(pred, -1 * (x - y), 0) <=> Holds(pred, x, y))
         /\ pred # "eq" => (Holds(Flipped(pred), -1 * (x - y), 0) <=> ~Holds(pred, x, y))
<1>1. CASE pred = "eq" BY <1>1, HoldsEither
<1>2. CASE pred = "lt"
  <2>1. Flipped(pred) = "leq" BY <1>2 DEF Flipped
  <2>2. QED BY <1>2, <2>1, HoldsEither
<1>3. CASE pred = "leq"
  <2>1. Flipped(pred) = "lt" BY <1>3 DEF Flipped
  <2>2. QED BY <1>3, <2>1, HoldsEither
<1>4. QED BY <1>1, <1>2, <1>3

\* Whether a constraint is satisfied is a truth value.
LEMMA SatisfiedIs ==
  ASSUME NEW c, c.pred \in {"eq", "lt", "leq"}, NEW rho
  PROVE  Satisfied(c, rho) \in BOOLEAN
<1>1. PICK x, y : Satisfied(c, rho) = Holds(c.pred, x, y)
  BY DEF Satisfied
<1>2. CASE c.pred = "eq" BY <1>1, <1>2 DEF Holds
<1>3. CASE c.pred = "lt" BY <1>1, <1>3 DEF Holds
<1>4. CASE c.pred = "leq" BY <1>1, <1>4 DEF Holds
<1>5. QED BY <1>2, <1>3, <1>4

LEMMA LitSays ==
  ASSUME FormsOK, NEW lit, LitOf(lit), NEW rho
  PROVE  /\ lit > 0 => (HoldsIn(lit, rho) <=> Satisfied(Constraint(lit), rho))
         /\ lit < 0 => (HoldsIn(lit, rho) <=> ~Satisfied(Constraint(lit), rho))
<1>1. Satisfied(Constraint(lit), rho) \in BOOLEAN
  BY Forms, SatisfiedIs DEF LitOf, FormOf, Constraint
<1>2. lit \in Int /\ lit # 0 BY DEF LitOf
<1>3. HoldsIn(lit, rho) <=> Satisfied(Constraint(lit), rho) = (lit > 0)
  BY DEF HoldsIn
<1>4. CASE lit > 0
  <2>1. (lit > 0) = TRUE /\ ~(lit < 0) BY <1>2, <1>4
  <2>2. QED BY <1>1, <1>3, <2>1
<1>5. CASE lit < 0
  <2>1. (lit > 0) = FALSE BY <1>2, <1>5
  <2>2. QED BY <1>1, <1>3, <2>1
<1>6. QED BY <1>2, <1>4, <1>5

\* One of a literal and its negation holds.
LEMMA NegationSays ==
  ASSUME FormsOK, NEW lit, LitOf(lit), NEW rho
  PROVE  /\ LitOf(-lit) /\ Constraint(-lit) = Constraint(lit) /\ AtomOf(-lit) = AtomOf(lit)
         /\ HoldsIn(-lit, rho) <=> ~HoldsIn(lit, rho)
<1>1. lit \in Int /\ lit # 0 /\ -lit \in Int /\ -lit # 0 /\ (-lit > 0 <=> lit < 0) /\ (-lit < 0 <=> lit > 0)
  BY DEF LitOf
<1>2. AtomOf(-lit) = AtomOf(lit) BY <1>1 DEF AtomOf
<1>3. LitOf(-lit) /\ Constraint(-lit) = Constraint(lit)
  BY <1>1, <1>2 DEF LitOf, Constraint
<1>4. QED BY <1>1, <1>2, <1>3, LitSays

\* A bound as a polynomial says what the bound says.
LEMMA PolyOfSays ==
  ASSUME FormsOK, NEW lit, LitOf(lit), ~IsInequality(lit), NEW rho \in Valuations
  PROVE  PolyHolds(PolyOf(lit), rho) <=> HoldsIn(lit, rho)
<1>1. PICK c : c = Constraint(lit) OBVIOUS
<1>2. PICK sum : sum = WeightedSum(c.coef, DOMAIN c.coef, rho) OBVIOUS
<1>3. /\ sum \in Int /\ c.rhs \in Int /\ c.pred \in {"eq", "lt", "leq"}
      /\ \A m \in {1, -1} : \A pred :
           /\ PolyValue(Poly(lit, pred, m), rho) = m * (sum - c.rhs)
           /\ Poly(lit, pred, m).pred = pred
      /\ Satisfied(c, rho) <=> Holds(c.pred, sum, c.rhs)
  BY <1>1, <1>2, PolySays
<1>4. CASE lit > 0
  <2>1. PolyOf(lit) = Poly(lit, c.pred, 1) BY <1>1, <1>4 DEF PolyOf
  <2>2. PolyHolds(PolyOf(lit), rho) <=> Holds(c.pred, 1 * (sum - c.rhs), 0)
    BY <1>3, <2>1 DEF PolyHolds
  <2>3. QED BY <1>1, <1>3, <1>4, <2>2, LitSays, PredSays
<1>5. CASE lit < 0
  <2>1. PolyOf(lit) = Poly(lit, Flipped(c.pred), -1)
    BY <1>1, <1>5 DEF PolyOf, LitOf
  <2>2. PolyHolds(PolyOf(lit), rho) <=> Holds(Flipped(c.pred), -1 * (sum - c.rhs), 0)
    BY <1>3, <2>1 DEF PolyHolds
  <2>3. c.pred # "eq" BY <1>1, <1>5 DEF IsInequality
  <2>4. QED BY <1>1, <1>3, <1>5, <2>2, <2>3, LitSays, PredSays
<1>6. QED BY <1>4, <1>5 DEF LitOf

\* A disequality says that one side is less than the other.
LEMMA InequalitySays ==
  ASSUME FormsOK, NEW lit, LitOf(lit), IsInequality(lit), NEW rho \in Valuations, HoldsIn(lit, rho),
         NEW m \in {1, -1}
  PROVE  PolyHolds(Poly(lit, "lt", m), rho) \/ PolyHolds(Poly(lit, "lt", -m), rho)
<1>1. PICK c : c = Constraint(lit) OBVIOUS
<1>2. PICK sum : sum = WeightedSum(c.coef, DOMAIN c.coef, rho) OBVIOUS
<1>3. /\ sum \in Int /\ c.rhs \in Int
      /\ \A n \in {1, -1} : \A pred :
           /\ PolyValue(Poly(lit, pred, n), rho) = n * (sum - c.rhs)
           /\ Poly(lit, pred, n).pred = pred
      /\ Satisfied(c, rho) <=> Holds(c.pred, sum, c.rhs)
  BY <1>1, <1>2, PolySays
<1>4. lit < 0 /\ c.pred = "eq" BY <1>1 DEF IsInequality
<1>5. sum # c.rhs BY <1>1, <1>3, <1>4, LitSays, HoldsEither
<1>6. -m \in {1, -1} OBVIOUS
<1>7. m * (sum - c.rhs) < 0 \/ (-m) * (sum - c.rhs) < 0
  <2>1. CASE m = 1 BY <1>3, <1>5, <2>1
  <2>2. CASE m = -1 BY <1>3, <1>5, <2>2
  <2>3. QED BY <2>1, <2>2
<1>8. QED BY <1>3, <1>6, <1>7, HoldsEither DEF PolyHolds

\* The side from which the polynomial of a bound bounds r, and whether it is strict.
LEMMA BoundPoly ==
  ASSUME FormsOK, NEW lit, LitOf(lit), NEW r \in VarsOf(lit)
  PROVE  /\ BoundsFromAbove(lit, r) \/ BoundsFromBelow(lit, r) => ~IsInequality(lit)
         /\ BoundsFromBelow(lit, r) => (PolyOf(lit).pred # "eq" => PolyOf(lit).coef[r] = -1)
         /\ BoundsFromAbove(lit, r) => (PolyOf(lit).pred # "eq" => PolyOf(lit).coef[r] = 1)
         /\ ~IsInequality(lit) => (IsStrict(lit) <=> PolyOf(lit).pred = "lt")
         /\ BoundsFromAbove(lit, r) /\ BoundsFromBelow(lit, r) => ~IsStrict(lit)
<1>1. PICK c : c = Constraint(lit) OBVIOUS
<1>2. FormOf(c) /\ VarsOf(lit) = DOMAIN c.coef
  BY <1>1, Forms DEF LitOf, Constraint, VarsOf
<1>3. c.coef[r] \in {1, -1} /\ c.pred \in {"eq", "lt", "leq"} /\ lit \in Int /\ lit # 0
  BY <1>2 DEF FormOf, LitOf
<1>4. /\ lit > 0 => PolyOf(lit).pred = c.pred /\ PolyOf(lit).coef[r] = 1 * c.coef[r]
      /\ lit < 0 => PolyOf(lit).pred = Flipped(c.pred) /\ PolyOf(lit).coef[r] = -1 * c.coef[r]
  BY <1>1, <1>3 DEF PolyOf, Poly
<1>5. Flipped("eq") = "eq" /\ Flipped("lt") = "leq" /\ Flipped("leq") = "lt"
  BY DEF Flipped
<1>6. /\ IsEquality(lit) <=> lit > 0 /\ c.pred = "eq"
      /\ IsInequality(lit) <=> lit < 0 /\ c.pred = "eq"
      /\ lit > 0 => (IsStrict(lit) <=> c.pred = "lt")
      /\ lit < 0 => (IsStrict(lit) <=> c.pred \in {"leq", "eq"})
  BY <1>1, <1>3 DEF IsEquality, IsInequality, IsStrict
<1>7. BoundsFromBelow(lit, r) <=> IsEquality(lit) \/ (c.pred # "eq" /\ (c.coef[r] > 0) = (lit < 0))
  BY <1>1 DEF BoundsFromBelow
<1>8. BoundsFromAbove(lit, r) <=> IsEquality(lit) \/ (c.pred # "eq" /\ (c.coef[r] > 0) = (lit > 0))
  BY <1>1 DEF BoundsFromAbove
<1>9. CASE lit > 0 BY <1>3, <1>4, <1>6, <1>7, <1>8, <1>9
<1>10. CASE lit < 0 BY <1>3, <1>4, <1>5, <1>6, <1>7, <1>8, <1>10
<1>11. QED BY <1>3, <1>9, <1>10

\* A polynomial of lit is tight where r has the value lit implies for it.
LEMMA TightAt ==
  ASSUME LraI, NEW lit, LitOf(lit), NEW r \in RealVars, LitMembers(lit, r), NEW rho \in Valuations,
         \A s \in Others(lit, r) : rho[s] = model[s], NEW m \in {1, -1}, NEW pred
  PROVE  /\ Poly(lit, pred, m).coef[r] = m * Constraint(lit).coef[r]
         /\ PolyValue(Poly(lit, pred, m), rho) = Poly(lit, pred, m).coef[r] * (rho[r] - ValueFor(lit, r))
<1>1. PICK c : c = Constraint(lit) OBVIOUS
<1>2. PICK sum : sum = WeightedSum(c.coef, DOMAIN c.coef, rho) OBVIOUS
<1>3. PICK x, V : x = rho[r] /\ V = ValueFor(lit, r) OBVIOUS
<1>4. x \in Int /\ V \in Int BY <1>3, ValueIsInt DEF Valuations
<1>5. /\ sum \in Int /\ c.rhs \in Int /\ c.coef[r] \in {1, -1}
      /\ c.coef[r] = 1 => sum - c.rhs = x - V
      /\ c.coef[r] = -1 => sum - c.rhs = V - x
  BY <1>1, <1>2, <1>3, <1>4, SumOff
<1>6. PolyValue(Poly(lit, pred, m), rho) = m * (sum - c.rhs)
  BY <1>1, <1>2, PolySays DEF LraI
<1>7. Poly(lit, pred, m).coef[r] = m * c.coef[r]
  BY <1>1 DEF Poly, LitMembers
<1>8. m * (sum - c.rhs) = (m * c.coef[r]) * (x - V)
  <2>1. CASE c.coef[r] = 1 /\ m = 1 BY <1>4, <1>5, <2>1
  <2>2. CASE c.coef[r] = 1 /\ m = -1 BY <1>4, <1>5, <2>2
  <2>3. CASE c.coef[r] = -1 /\ m = 1 BY <1>4, <1>5, <2>3
  <2>4. CASE c.coef[r] = -1 /\ m = -1 BY <1>4, <1>5, <2>4
  <2>5. QED BY <1>5, <2>1, <2>2, <2>3, <2>4
<1>9. QED BY <1>1, <1>3, <1>6, <1>7, <1>8

-----------------------------------------------------------------------------
(* Conflict clauses.                                                       *)

Refuted(lit) == LitOf(lit) /\ is_defined(AtomOf(lit)) /\ ~True(lit)

\* A clause that is being built: its literals and the polynomials that are
\* left to be expressed by literals are false, and one of them holds whatever
\* the variables are.
Blames(lits, polys) ==
  /\ \A lit \in lits : Refuted(lit)
  /\ IsFiniteSet(lits) /\ \E lit, other \in lits : lit # other
  /\ \A k \in DOMAIN polys : ~PolyHolds(polys[k], model)
  /\ \A rho \in Valuations :
       (\E lit \in lits : HoldsIn(lit, rho)) \/ \E k \in DOMAIN polys : PolyHolds(polys[k], rho)

ConflictInv ==
  /\ ValuesInv
  /\ conflicts \in Seq(SUBSET Int)
  /\ blame # NoBlame => Blames(blame.lits, blame.polys)
  /\ conflicts # << >> => pc \in {"check", "conflict"}
  /\ \A k \in DOMAIN conflicts : Blames(conflicts[k], << >>)

\* What is known of an entry in force.
Sound(e, r) ==
  /\ EntryOK(e, r) /\ LitOf(e.lit) /\ is_defined(AtomOf(e.lit)) /\ LitMembers(e.lit, r)
  /\ e.value \in Int /\ e.value = ValueFor(e.lit, r)

LEMMA EntrySound ==
  ASSUME ValuesInv, NEW r \in RealVars, NEW e \in Entries(r), ~IsObsolete(e, r)
  PROVE  Sound(e, r)
<1>1. LraI /\ EntryOK(e, r) BY LiveEntry DEF ValuesInv
<1>2. PICK lit, a : lit = e.lit /\ a = AtomOf(lit) OBVIOUS
<1>3. a \in DOMAIN constraints /\ r \in VarsOf(lit)
  BY <1>1, <1>2 DEF EntryOK
<1>4. \A m \in Members(lit, r) : m \in Vars /\ is_defined(m) /\ var_level[m] \in 0..decision_level
  BY <1>1, <1>2, MembersDefined
<1>5. LitMembers(lit, r) /\ is_defined(a)
  BY <1>2, <1>3, <1>4 DEF LitMembers, Members
<1>6. e \in Implieds
  <2>1. PICK I : I = Implieds OBVIOUS
  <2>2. bounds[r].ub \in Seq(I) /\ bounds[r].lb \in Seq(I) /\ bounds[r].disallowed \in Seq(I)
    BY <1>1, <2>1 DEF LraI, StacksOK
  <2>3. PICK list \in Seq(I) : e \in ToSet(list) BY <2>2 DEF Entries
  <2>4. PICK k \in DOMAIN list : e = list[k] BY <2>3 DEF ToSet
  <2>5. e \in I BY <2>4
  <2>6. QED BY <2>1, <2>5
<1>7. lit \in Int /\ lit # 0
  <2>1. MaxAtoms \in Nat BY PluginAssumption
  <2>2. QED BY <1>2, <1>6, <2>1 DEF Implieds
<1>8. e.value \in Int BY <1>6 DEF Implieds
<1>9. e.value = ValueFor(lit, r) BY <1>2 DEF ValuesInv, EntriesRight
<1>10. QED BY <1>1, <1>2, <1>3, <1>5, <1>7, <1>8, <1>9 DEF Sound, LitOf

\* What finish() reads.
LEMMA ReadSound ==
  ASSUME ValuesInv, NEW r \in RealVars
  PROVE  /\ lower_bound(r) # << >> =>
              Sound(Last(lower_bound(r)), r) /\ BoundsFromBelow(Last(lower_bound(r)).lit, r)
         /\ upper_bound(r) # << >> =>
              Sound(Last(upper_bound(r)), r) /\ BoundsFromAbove(Last(upper_bound(r)).lit, r)
         /\ \A x : inequality(r, x) # << >> =>
              /\ Sound(inequality(r, x)[1], r) /\ IsInequality(inequality(r, x)[1].lit)
              /\ inequality(r, x)[1].value = x
<1>1. StacksOK /\ EntriesAbout BY DEF ValuesInv, LraI
<1>2. \A e : LiveIn(e, bounds[r].lb, r) \/ LiveIn(e, bounds[r].ub, r) \/ LiveIn(e, bounds[r].disallowed, r)
         => e \in Entries(r) /\ ~IsObsolete(e, r)
  BY DEF LiveIn, Entries
<1>3. \A e : e \in Entries(r) /\ ~IsObsolete(e, r) => Sound(e, r)
  BY EntrySound
<1>4. /\ \A e : LiveIn(e, bounds[r].lb, r) => BoundsFromBelow(e.lit, r)
      /\ \A e : LiveIn(e, bounds[r].ub, r) => BoundsFromAbove(e.lit, r)
      /\ \A e : LiveIn(e, bounds[r].disallowed, r) => IsInequality(e.lit)
  BY <1>1 DEF EntriesAbout, LiveIn
<1>5. QED BY <1>1, <1>2, <1>3, <1>4, ReadLive

\* The literals of sound entries, negated, are refuted.
LEMMA SoundRefuted ==
  ASSUME LraI, NEW r, NEW e, Sound(e, r)
  PROVE  Refuted(-e.lit)
<1>1. PICK lit : lit = e.lit OBVIOUS
<1>2. LitOf(lit) /\ is_defined(AtomOf(lit)) /\ True(lit)
  BY <1>1 DEF Sound, EntryOK
<1>3. LitOf(-lit) /\ AtomOf(-lit) = AtomOf(lit)
  BY <1>2, NegationSays DEF LraI
<1>4. ~True(-lit)
  <2>1. lit \in Int /\ lit # 0 BY <1>2 DEF LitOf
  <2>2. (lit > 0) # (-lit > 0) BY <2>1
  <2>3. QED BY <1>2, <1>3, <2>2 DEF True, Truth
<1>5. QED BY <1>1, <1>2, <1>3, <1>4 DEF Refuted

\* The model with a value for r, and with numbers where nothing is assigned.
With(r, x) == [s \in RealVars |-> IF s = r THEN x ELSE IF is_defined(s) THEN model[s] ELSE 0]

LEMMA WithIs ==
  ASSUME LraI, NEW r \in RealVars, NEW x \in Int
  PROVE  /\ With(r, x) \in Valuations /\ With(r, x)[r] = x
         /\ \A s \in RealVars \ {r} : is_defined(s) => With(r, x)[s] = model[s]
<1>1. \A s \in RealVars : is_defined(s) => model[s] \in Int
  BY PluginAssumption, ValuesAreInt
<1>2. \A s \in RealVars : (IF s = r THEN x ELSE IF is_defined(s) THEN model[s] ELSE 0) \in Int
  BY <1>1
<1>3. QED BY <1>2 DEF With, Valuations

\* A polynomial depends on the values of its variables alone.
LEMMA PolySame ==
  ASSUME NEW p, NEW rho, NEW other, \A r \in DOMAIN p.coef : rho[r] = other[r]
  PROVE  PolyHolds(p, rho) <=> PolyHolds(p, other)
BY SumSame DEF PolyHolds, PolyValue

\* Two entries that leave no room: the constraint derived from the polynomials of
\* the two is false.
LEMMA ResolventFalse ==
  ASSUME LraI, NEW r \in RealVars, NEW e, NEW f, Sound(e, r), Sound(f, r), NEW d,
         NEW m \in {1, -1}, NEW n \in {1, -1}, NEW k, NEW l, NEW p, NEW q,
         p = Poly(e.lit, k, m), q = Poly(f.lit, l, n), PolyAbout(p, e.lit), PolyAbout(q, f.lit),
         Facing(p, q, r, d), Apart(p, q, f.value, e.value, d)
  PROVE  ~PolyHolds(Resolve(p, q, r), model)
<1>1. /\ LitOf(e.lit) /\ LitMembers(e.lit, r) /\ e.value = ValueFor(e.lit, r)
      /\ LitOf(f.lit) /\ LitMembers(f.lit, r) /\ f.value = ValueFor(f.lit, r)
      /\ \A s \in Others(e.lit, r) \cup Others(f.lit, r) : is_defined(s)
  BY DEF Sound, EntryOK
<1>2. PICK rho : rho = With(r, f.value) OBVIOUS
<1>3. /\ rho \in Valuations /\ rho[r] = f.value
      /\ \A s \in RealVars \ {r} : is_defined(s) => rho[s] = model[s]
  BY <1>2, WithIs DEF Sound
<1>4. DOMAIN p.coef = VarsOf(e.lit) /\ DOMAIN q.coef = VarsOf(f.lit) /\ PolyForm(p) /\ PolyForm(q)
  BY <1>1, PolyIsForm DEF PolyAbout, LraI, LitOf
<1>5. DOMAIN p.coef \in SUBSET RealVars /\ DOMAIN q.coef \in SUBSET RealVars
  BY <1>4 DEF PolyForm
<1>6. \A s \in (DOMAIN p.coef \cup DOMAIN q.coef) \ {r} : rho[s] = model[s]
  BY <1>1, <1>3, <1>4, <1>5 DEF Others
<1>7. PolyValue(p, rho) = p.coef[r] * (f.value - e.value)
  <2>1. \A s \in Others(e.lit, r) : rho[s] = model[s]
    BY <1>4, <1>6 DEF Others
  <2>2. QED BY <1>1, <1>3, <2>1, TightAt
<1>8. PolyValue(q, rho) = 0
  <2>1. \A s \in Others(f.lit, r) : rho[s] = model[s]
    BY <1>4, <1>6 DEF Others
  <2>2. PolyValue(q, rho) = q.coef[r] * (f.value - f.value)
    BY <1>1, <1>3, <2>1, TightAt
  <2>3. f.value \in Int /\ q.coef[r] \in {1, -1} BY DEF Sound, Facing
  <2>4. QED BY <2>2, <2>3
<1>9. ~PolyHolds(Resolve(p, q, r), rho)
  BY <1>3, <1>4, <1>7, <1>8, ResolveFalse
<1>10. \A s \in DOMAIN Resolve(p, q, r).coef : rho[s] = model[s]
  BY <1>4, <1>6, ResolveDomain
<1>11. QED BY <1>9, <1>10, PolySame

-----------------------------------------------------------------------------
(* The clauses that finish() starts.                                       *)

LEMMA FewAreFinite ==
  \A a, b, c : IsFiniteSet({a, b}) /\ IsFiniteSet({a, b, c})
<1> SUFFICES ASSUME NEW a, NEW b, NEW c
             PROVE  IsFiniteSet({a, b}) /\ IsFiniteSet({a, b, c})
  OBVIOUS
<1>1. IsFiniteSet({a}) BY FS_Singleton
<1>2. {a, b} = {a} \cup {b} /\ {a, b, c} = {a, b} \cup {c} OBVIOUS
<1>3. IsFiniteSet({a, b}) BY <1>1, <1>2, FS_AddElement
<1>4. QED BY <1>2, <1>3, FS_AddElement

LEMMA PolyOfIs ==
  ASSUME NEW lit
  PROVE  \E m \in {1, -1} : \E k : PolyOf(lit) = Poly(lit, k, m)
BY DEF PolyOf

\* A sound entry and its polynomial.
LEMMA SoundPoly ==
  ASSUME LraI, NEW r \in RealVars, NEW e, Sound(e, r), NEW p, NEW m \in {1, -1}, NEW k,
         p = Poly(e.lit, k, m), PolyAbout(p, e.lit)
  PROVE  /\ PolyForm(p) /\ r \in DOMAIN p.coef
         /\ p.coef[r] = m * Constraint(e.lit).coef[r] /\ p.coef[r] \in {1, -1}
<1>1. PolyForm(p) BY PolyIsForm DEF LraI, Sound, LitOf
<1>2. r \in VarsOf(e.lit) BY DEF Sound, EntryOK
<1>3. QED BY <1>1, <1>2 DEF PolyAbout, Poly

\* p and q are made from two entries that leave no room for r.
PolyFrom(p, lit) == PolyAbout(p, lit) /\ \E m \in {1, -1} : \E k : p = Poly(lit, k, m)

Excludes(p, q, e, f, r, d) ==
  /\ Sound(e, r) /\ Sound(f, r) /\ PolyFrom(p, e.lit) /\ PolyFrom(q, f.lit) /\ d \in {1, -1}
  /\ p.pred # "eq" => p.coef[r] = -d
  /\ q.pred # "eq" => q.coef[r] = d
  /\ d * (e.value - f.value) > 0 \/ (e.value = f.value /\ "lt" \in {p.pred, q.pred})

\* Their resolvent is false and follows from the two.
LEMMA Excluded ==
  ASSUME LraI, NEW r \in RealVars, NEW e, NEW f, NEW d, NEW p, NEW q, Excludes(p, q, e, f, r, d)
  PROVE  /\ ~PolyHolds(Resolve(p, q, r), model)
         /\ \A rho \in Valuations : PolyHolds(p, rho) /\ PolyHolds(q, rho) => PolyHolds(Resolve(p, q, r), rho)
<1>1. PICK m \in {1, -1} : \E k : p = Poly(e.lit, k, m)
  BY DEF Excludes, PolyFrom
<1>2. PICK n \in {1, -1} : \E k : q = Poly(f.lit, k, n)
  BY DEF Excludes, PolyFrom
<1>3. Sound(e, r) /\ Sound(f, r) /\ PolyAbout(p, e.lit) /\ PolyAbout(q, f.lit)
  BY DEF Excludes, PolyFrom
<1>4. PolyForm(p) /\ r \in DOMAIN p.coef /\ p.coef[r] \in {1, -1}
  BY <1>1, <1>3, SoundPoly
<1>5. PolyForm(q) /\ r \in DOMAIN q.coef /\ q.coef[r] \in {1, -1}
  BY <1>2, <1>3, SoundPoly
<1>6. Facing(p, q, r, d) BY <1>4, <1>5 DEF Facing, Excludes
<1>7. Apart(p, q, f.value, e.value, d)
  BY <1>3 DEF Apart, Sound, Excludes
<1>8. ~PolyHolds(Resolve(p, q, r), model)
  BY <1>1, <1>2, <1>3, <1>6, <1>7, ResolventFalse
<1>9. QED BY <1>4, <1>5, <1>6, <1>8, ResolveSound

\* A lower and an upper bound that exclude each other.
LEMMA BoundsBlamed ==
  ASSUME ValuesInv, changed # {}, BoundConflict
  PROVE  Blames(BoundBlame.lits, BoundBlame.polys)
<1>1. PICK r, e, f : r = Checked /\ e = Lower /\ f = Upper OBVIOUS
<1>2. LraI /\ FormsOK /\ r \in RealVars
  BY <1>1, CheckedReal DEF ValuesInv, LraI
<1>3. Sound(e, r) /\ BoundsFromBelow(e.lit, r) /\ Sound(f, r) /\ BoundsFromAbove(f.lit, r)
  BY <1>1, <1>2, ReadSound DEF BoundConflict, Bounded, Lower, Upper
<1>4. f.value < e.value \/ (f.value = e.value /\ (IsStrict(e.lit) \/ IsStrict(f.lit)))
  BY <1>1 DEF BoundConflict
<1>5. LitOf(e.lit) /\ LitOf(f.lit) /\ e.value \in Int /\ f.value \in Int
      /\ r \in VarsOf(e.lit) /\ r \in VarsOf(f.lit)
  BY <1>3 DEF Sound, EntryOK
<1>6. PICK p, q : p = PolyOf(e.lit) /\ q = PolyOf(f.lit) OBVIOUS
<1>7. /\ ~IsInequality(e.lit) /\ ~IsInequality(f.lit)
      /\ p.pred # "eq" => p.coef[r] = -1
      /\ q.pred # "eq" => q.coef[r] = 1
      /\ IsStrict(e.lit) <=> p.pred = "lt"
      /\ IsStrict(f.lit) <=> q.pred = "lt"
  BY <1>2, <1>3, <1>5, <1>6, BoundPoly
<1>8. PolyAbout(p, e.lit) /\ PolyAbout(q, f.lit)
  BY <1>2, <1>5, <1>6, PolyIsAbout DEF LitOf
<1>9. PolyFrom(p, e.lit) /\ PolyFrom(q, f.lit)
  BY <1>6, <1>8, PolyOfIs DEF PolyFrom
<1>10. 1 * (e.value - f.value) > 0 \/ (e.value = f.value /\ "lt" \in {p.pred, q.pred})
  BY <1>4, <1>5, <1>7
<1>11. 1 \in {1, -1} OBVIOUS
<1>12. Excludes(p, q, e, f, r, 1)
  BY <1>3, <1>7, <1>9, <1>10, <1>11 DEF Excludes
<1>13. /\ ~PolyHolds(Resolve(p, q, r), model)
       /\ \A rho \in Valuations : PolyHolds(p, rho) /\ PolyHolds(q, rho) => PolyHolds(Resolve(p, q, r), rho)
  BY <1>2, <1>12, Excluded
<1>14. BoundBlame.lits = {-e.lit, -f.lit} /\ BoundBlame.polys = <<Resolve(p, q, r)>>
  BY <1>1, <1>6 DEF BoundBlame
<1>15. Refuted(-e.lit) /\ Refuted(-f.lit) BY <1>2, <1>3, SoundRefuted
<1>16. -e.lit # -f.lit
  <2>1. SUFFICES ASSUME -e.lit = -f.lit
                 PROVE  FALSE
    OBVIOUS
  <2>2. e.lit = f.lit BY <1>5, <2>1 DEF LitOf
  <2>3. e.value = f.value BY <1>3, <2>2 DEF Sound
  <2>4. IsStrict(e.lit) BY <1>4, <1>5, <2>2, <2>3
  <2>5. QED BY <1>2, <1>3, <1>5, <2>2, <2>4, BoundPoly
<1>17. ASSUME NEW rho \in Valuations
       PROVE  HoldsIn(-e.lit, rho) \/ HoldsIn(-f.lit, rho) \/ PolyHolds(Resolve(p, q, r), rho)
  BY <1>2, <1>5, <1>6, <1>7, <1>13, NegationSays, PolyOfSays
<1>18. IsFiniteSet({-e.lit, -f.lit}) BY FewAreFinite
<1>19. QED
  <2>1. PICK res : res = Resolve(p, q, r) OBVIOUS
  <2>2. DOMAIN <<res>> = {1} /\ <<res>>[1] = res OBVIOUS
  <2>3. Blames({-e.lit, -f.lit}, <<res>>)
    BY <1>13, <1>15, <1>16, <1>17, <1>18, <2>1, <2>2 DEF Blames
  <2>4. QED BY <1>14, <2>1, <2>3

\* Bounds that meet in a value that is disallowed.
LEMMA InequalityBlamed ==
  ASSUME ValuesInv, changed # {}, InequalityConflict
  PROVE  Blames(InequalityBlame.lits, InequalityBlame.polys)
<1>1. PICK r, e, f, g : r = Checked /\ e = Lower /\ f = Upper /\ g = inequality(Checked, Lower.value)[1]
  OBVIOUS
<1>2. LraI /\ FormsOK /\ r \in RealVars
  BY <1>1, CheckedReal DEF ValuesInv, LraI
<1>3. Sound(e, r) /\ BoundsFromBelow(e.lit, r) /\ Sound(f, r) /\ BoundsFromAbove(f.lit, r)
  BY <1>1, <1>2, ReadSound DEF InequalityConflict, Bounded, Lower, Upper
<1>4. Sound(g, r) /\ IsInequality(g.lit) /\ g.value = e.value
  BY <1>1, <1>2, ReadSound DEF InequalityConflict
<1>5. f.value = e.value BY <1>1 DEF InequalityConflict
<1>6. LitOf(e.lit) /\ LitOf(f.lit) /\ LitOf(g.lit) /\ e.value \in Int
      /\ r \in VarsOf(e.lit) /\ r \in VarsOf(f.lit) /\ r \in VarsOf(g.lit)
  BY <1>3, <1>4 DEF Sound, EntryOK
<1>7. PICK mult : mult = Constraint(g.lit).coef[r] OBVIOUS
<1>8. mult \in {1, -1} /\ -mult \in {1, -1}
  <2>1. FormOf(Constraint(g.lit)) /\ r \in DOMAIN Constraint(g.lit).coef
    BY <1>2, <1>6, Forms DEF LitOf, Constraint, VarsOf
  <2>2. mult \in {1, -1} BY <1>7, <2>1 DEF FormOf
  <2>3. QED BY <2>2
<1>9. PICK p, q : p = PolyOf(e.lit) /\ q = PolyOf(f.lit) OBVIOUS
<1>10. PICK s, t : s = Poly(g.lit, "lt", mult) /\ t = Poly(g.lit, "lt", -mult)
  OBVIOUS
<1>11. /\ ~IsInequality(e.lit) /\ ~IsInequality(f.lit)
       /\ p.pred # "eq" => p.coef[r] = -1
       /\ q.pred # "eq" => q.coef[r] = 1
  BY <1>2, <1>3, <1>6, <1>9, BoundPoly
<1>12. PolyAbout(p, e.lit) /\ PolyAbout(q, f.lit) /\ PolyAbout(s, g.lit) /\ PolyAbout(t, g.lit)
  BY <1>2, <1>6, <1>8, <1>9, <1>10, PolyIsAbout DEF LitOf
<1>13. PolyFrom(p, e.lit) /\ PolyFrom(q, f.lit)
  BY <1>9, <1>12, PolyOfIs DEF PolyFrom
<1>14. PolyFrom(s, g.lit) /\ PolyFrom(t, g.lit)
  BY <1>8, <1>10, <1>12 DEF PolyFrom
<1>15. /\ s.pred = "lt" /\ s.coef[r] = 1
       /\ t.pred = "lt" /\ t.coef[r] = -1
  <2>1. s.coef[r] = mult * mult /\ t.coef[r] = (-mult) * mult
    BY <1>2, <1>4, <1>7, <1>8, <1>10, <1>12, SoundPoly
  <2>2. mult * mult = 1 /\ (-mult) * mult = -1 BY <1>8
  <2>3. s.pred = "lt" /\ t.pred = "lt" BY <1>10 DEF Poly
  <2>4. QED BY <2>1, <2>2, <2>3
<1>16. /\ ~PolyHolds(Resolve(p, s, r), model)
       /\ \A rho \in Valuations : PolyHolds(p, rho) /\ PolyHolds(s, rho) => PolyHolds(Resolve(p, s, r), rho)
  <2>1. Excludes(p, s, e, g, r, 1)
    BY <1>3, <1>4, <1>11, <1>13, <1>14, <1>15 DEF Excludes
  <2>2. QED BY <1>2, <2>1, Excluded
<1>17. /\ ~PolyHolds(Resolve(q, t, r), model)
       /\ \A rho \in Valuations : PolyHolds(q, rho) /\ PolyHolds(t, rho) => PolyHolds(Resolve(q, t, r), rho)
  <2>1. Excludes(q, t, f, g, r, -1)
    BY <1>3, <1>4, <1>5, <1>11, <1>13, <1>14, <1>15 DEF Excludes
  <2>2. QED BY <1>2, <2>1, Excluded
<1>18. /\ InequalityBlame.lits = {-g.lit, -e.lit, -f.lit}
       /\ InequalityBlame.polys = <<Resolve(p, s, r), Resolve(q, t, r)>>
  BY <1>1, <1>7, <1>9, <1>10 DEF InequalityBlame
<1>19. Refuted(-e.lit) /\ Refuted(-f.lit) /\ Refuted(-g.lit)
  BY <1>2, <1>3, <1>4, SoundRefuted
<1>20. -g.lit # -e.lit
  <2>1. g.lit # e.lit BY <1>4, <1>11
  <2>2. QED BY <1>6, <2>1 DEF LitOf
<1>21. ASSUME NEW rho \in Valuations
       PROVE  \/ HoldsIn(-g.lit, rho) \/ HoldsIn(-e.lit, rho) \/ HoldsIn(-f.lit, rho)
              \/ PolyHolds(Resolve(p, s, r), rho) \/ PolyHolds(Resolve(q, t, r), rho)
  <2>1. SUFFICES ASSUME ~HoldsIn(-g.lit, rho), ~HoldsIn(-e.lit, rho), ~HoldsIn(-f.lit, rho)
                 PROVE  PolyHolds(Resolve(p, s, r), rho) \/ PolyHolds(Resolve(q, t, r), rho)
    OBVIOUS
  <2>2. HoldsIn(g.lit, rho) /\ HoldsIn(e.lit, rho) /\ HoldsIn(f.lit, rho)
    BY <1>2, <1>6, <2>1, NegationSays
  <2>3. PolyHolds(p, rho) /\ PolyHolds(q, rho)
    BY <1>2, <1>6, <1>9, <1>11, <2>2, PolyOfSays
  <2>4. PolyHolds(s, rho) \/ PolyHolds(t, rho)
    BY <1>2, <1>4, <1>6, <1>8, <1>10, <2>2, InequalitySays
  <2>5. QED BY <1>16, <1>17, <2>3, <2>4
<1>22. IsFiniteSet({-g.lit, -e.lit, -f.lit}) BY FewAreFinite
<1>23. QED
  <2>1. PICK x, y : x = Resolve(p, s, r) /\ y = Resolve(q, t, r) OBVIOUS
  <2>2. DOMAIN <<x, y>> = {1, 2} /\ <<x, y>>[1] = x /\ <<x, y>>[2] = y
    OBVIOUS
  <2>3. Blames({-g.lit, -e.lit, -f.lit}, <<x, y>>)
    BY <1>16, <1>17, <1>19, <1>20, <1>21, <1>22, <2>1, <2>2 DEF Blames
  <2>4. QED BY <1>18, <2>1, <2>3

-----------------------------------------------------------------------------
(* Derived constraints.                                                    *)

\* The normal form of a polynomial says what the polynomial says, or the opposite.
LEMMA NormalSays ==
  ASSUME NEW p, PolyForm(p), Representable(p), DOMAIN p.coef # {},
         NEW rho, \A r \in DOMAIN p.coef : rho[r] \in Int
  PROVE  LET turned == Leading(p.coef) < 0 /\ p.pred # "eq" IN
         /\ ~turned => (Satisfied(Normalized(p), rho) <=> PolyHolds(p, rho))
         /\ turned => (Satisfied(Normalized(p), rho) <=> ~PolyHolds(p, rho))
<1> DEFINE D == DOMAIN p.coef
           least == CHOOSE r \in D : \A s \in D : r <= s
           mult == Leading(p.coef)
           c == Normalized(p)
<1>1. least \in D
  <2>1. D \in SUBSET Nat /\ D # {} BY RealVarsAssumption DEF PolyForm
  <2>2. \E r \in D : \A s \in D : r <= s BY <2>1, LeastNatural
  <2>3. QED BY <2>2
<1>2. mult = p.coef[least] BY DEF Leading
<1>3. /\ c.coef = [r \in D |-> mult * p.coef[r]]
      /\ c.pred = IF mult < 0 THEN Flipped(p.pred) ELSE p.pred
      /\ c.rhs = -mult * p.const
  BY DEF Normalized
<1>4. \A r \in D : p.coef[r] \in {1, -1} BY DEF Representable
<1>5. DOMAIN c.coef = D BY <1>3
<1>6. IsFiniteSet(D) BY RealVarsAssumption, FS_Subset DEF PolyForm
<1> HIDE DEF c, least, mult, D
<1>7. mult \in {1, -1} BY <1>1, <1>2, <1>4
<1>8. PICK sum, k : sum = WeightedSum(p.coef, D, rho) /\ k = p.const
  OBVIOUS
<1>9. \A r \in D : p.coef[r] \in Int /\ rho[r] \in Int BY <1>4 DEF D
<1>10. \A r \in D : c.coef[r] = mult * p.coef[r] BY <1>3
<1>11. sum \in Int /\ WeightedSum(c.coef, D, rho) = mult * sum
  BY <1>6, <1>7, <1>8, <1>9, <1>10, SumScaled
<1>12. PICK turned : turned = (mult < 0 /\ p.pred # "eq") OBVIOUS
<1>13. k \in Int /\ p.pred \in {"eq", "lt", "leq"} BY <1>8 DEF PolyForm
<1>14. PolyHolds(p, rho) <=> Holds(p.pred, sum + k, 0)
  BY <1>8 DEF PolyHolds, PolyValue, D
<1>15. Satisfied(c, rho) <=> Holds(c.pred, mult * sum, -mult * k)
  BY <1>3, <1>5, <1>8, <1>11 DEF Satisfied
<1>16. CASE mult = 1
  <2>1. c.pred = p.pred /\ mult * sum = sum /\ -mult * k = -k /\ ~(mult < 0)
    BY <1>3, <1>11, <1>13, <1>16
  <2>2. Holds(p.pred, sum, -k) <=> Holds(p.pred, sum + k, 0)
    BY <1>11, <1>13, HoldsEither
  <2>3. QED BY <1>14, <1>15, <2>1, <2>2 DEF c, mult
<1>17. CASE mult = -1
  <2>1. c.pred = Flipped(p.pred) /\ mult * sum = -sum /\ -mult * k = k /\ mult < 0
    BY <1>3, <1>11, <1>13, <1>17
  <2>2. p.pred = "eq" => Flipped(p.pred) = "eq" /\ (Holds("eq", -sum, k) <=> Holds(p.pred, sum + k, 0))
    BY <1>11, <1>13, HoldsEither DEF Flipped
  <2>3. p.pred = "lt" => Flipped(p.pred) = "leq" /\ (Holds("leq", -sum, k) <=> ~Holds(p.pred, sum + k, 0))
    BY <1>11, <1>13, HoldsEither DEF Flipped
  <2>4. p.pred = "leq" => Flipped(p.pred) = "lt" /\ (Holds("lt", -sum, k) <=> ~Holds(p.pred, sum + k, 0))
    BY <1>11, <1>13, HoldsEither DEF Flipped
  <2>5. QED BY <1>13, <1>14, <1>15, <2>1, <2>2, <2>3, <2>4 DEF c, mult
<1>18. QED BY <1>7, <1>16, <1>17

\* A literal whose variables have values is true if they make it hold.
LEMMA TruthSays ==
  ValuesInv => \A lit : LitOf(lit) /\ is_defined(AtomOf(lit)) /\ AllDefined(AtomOf(lit))
                          => (True(lit) <=> HoldsIn(lit, model))
<1> SUFFICES ASSUME ValuesInv, NEW lit, LitOf(lit), is_defined(AtomOf(lit)), AllDefined(AtomOf(lit))
             PROVE  True(lit) <=> HoldsIn(lit, model)
  OBVIOUS
<1>1. PICK a : a = AtomOf(lit) OBVIOUS
<1>2. a \in DOMAIN constraints /\ lit \in Int /\ lit # 0
  BY <1>1 DEF LitOf
<1>3. AtomFact(a) /\ FormsOK BY <1>2, AtomFacts DEF ValuesInv, LraI
<1>4. True(a) = HoldsIn(a, model) /\ model[a] \in {Truth(TRUE), Truth(FALSE)}
  BY <1>1, <1>2 DEF ValuesInv, ValuesAgree, TruthsOK
<1>5. /\ True(a) <=> model[a] = Truth(TRUE)
      /\ HoldsIn(a, model) <=> Satisfied(constraints[a], model)
      /\ model[a] = Truth(TRUE) <=> Satisfied(constraints[a], model)
  BY <1>2, <1>3, <1>4, AgreesIs DEF Agrees
<1>6. CASE lit > 0
  <2>1. a = lit BY <1>1, <1>2, <1>6 DEF AtomOf
  <2>2. QED BY <1>5, <2>1
<1>7. CASE lit < 0
  <2>1. True(lit) <=> model[a] = Truth(FALSE)
    <3>1. (lit > 0) = FALSE BY <1>2, <1>7
    <3>2. QED BY <1>1, <3>1 DEF True
  <2>2. HoldsIn(lit, model) <=> ~Satisfied(constraints[a], model)
    BY <1>1, <1>3, <1>7, LitSays DEF Constraint
  <2>3. (model[a] = Truth(FALSE) <=> ~(model[a] = Truth(TRUE)))
    BY <1>4 DEF Truth
  <2>4. QED BY <1>5, <2>1, <2>2, <2>3, Zenon
<1>8. QED BY <1>2, <1>6, <1>7

LEMMA TruthSaysNext ==
  ValuesInv' => \A lit : LitOf(lit)' /\ is_defined(AtomOf(lit))' /\ AllDefined(AtomOf(lit))'
                          => (True(lit)' <=> HoldsIn(lit, model)')
<1>1. (ValuesInv => \A lit : LitOf(lit) /\ is_defined(AtomOf(lit)) /\ AllDefined(AtomOf(lit))
                          => (True(lit) <=> HoldsIn(lit, model)))'
  BY TruthSays, PTL
<1>2. QED BY <1>1

-----------------------------------------------------------------------------
(* What a clause that is being built says stays so.                        *)

LEMMA KeptNext ==
  ASSUME LraI, [Next]_vars
  PROVE  Kept
BY NextOK DEF Good, LraI

LEMMA RefutedStays ==
  ASSUME LraI, [Next]_vars, ~BacktrackToLevel, ~Restart, NEW lit, Refuted(lit)
  PROVE  Refuted(lit)'
<1>1. PICK a : a = AtomOf(lit) OBVIOUS
<1>2. a \in DOMAIN constraints /\ is_defined(a) /\ ~True(lit) /\ lit \in Int /\ lit # 0
  BY <1>1 DEF Refuted, LitOf
<1>3. a \in Vars BY <1>2, AtomFacts DEF AtomFact, LraI
<1>4. is_defined(a)' BY <1>2, <1>3, DefinedStays
<1>5. model'[a] = model[a] BY <1>2, <1>3, <1>4, NextTrail, StepSame
<1>6. a \in DOMAIN constraints' BY <1>2, KeptNext DEF Kept
<1>7. ~True(lit)' BY <1>1, <1>2, <1>5 DEF True
<1>8. QED BY <1>1, <1>2, <1>4, <1>6, <1>7 DEF Refuted, LitOf

LEMMA HoldsStays ==
  ASSUME Kept, NEW lit, LitOf(lit), NEW rho
  PROVE  HoldsIn(lit, rho)' <=> HoldsIn(lit, rho)
<1>1. Constraint(lit)' = Constraint(lit) BY DEF Kept, LitOf, Constraint
<1>2. QED BY <1>1 DEF HoldsIn

LEMMA PolyStaysFalse ==
  ASSUME LraI, [Next]_vars, ~BacktrackToLevel, ~Restart, NEW p, PolyOK(p), DOMAIN p.coef \subseteq RealVars
  PROVE  PolyHolds(p, model') <=> PolyHolds(p, model)
<1>1. \A s \in DOMAIN p.coef : s \in Vars /\ is_defined(s)
  BY PluginAssumption DEF PolyOK
<1>2. \A s \in DOMAIN p.coef : model'[s] = model[s]
  BY <1>1, DefinedStays, NextTrail, StepSame
<1>3. QED BY <1>2, PolySame

LEMMA BlamesStays ==
  ASSUME LraI, [Next]_vars, ~BacktrackToLevel, ~Restart, NEW lits, NEW polys, Blames(lits, polys),
         \A k \in DOMAIN polys : PolyOK(polys[k]) /\ DOMAIN polys[k].coef \subseteq RealVars
  PROVE  Blames(lits, polys)'
<1>1. \A lit \in lits : Refuted(lit)' BY RefutedStays DEF Blames
<1>2. \A k \in DOMAIN polys : ~PolyHolds(polys[k], model')
  BY PolyStaysFalse DEF Blames
<1>3. ASSUME NEW rho \in Valuations
      PROVE  (\E lit \in lits : HoldsIn(lit, rho)') \/ \E k \in DOMAIN polys : PolyHolds(polys[k], rho)
  <2>1. CASE \E lit \in lits : HoldsIn(lit, rho)
    BY <2>1, KeptNext, HoldsStays DEF Blames, Refuted
  <2>2. QED BY <2>1 DEF Blames
<1>4. QED BY <1>1, <1>2, <1>3 DEF Blames

LEMMA TailIs ==
  ASSUME NEW P, NEW list \in Seq(P), list # << >>
  PROVE  /\ 1 \in DOMAIN list /\ Head(list) = list[1]
         /\ \A k \in DOMAIN Tail(list) : k + 1 \in DOMAIN list /\ Tail(list)[k] = list[k + 1]
         /\ \A k \in DOMAIN list : k # 1 => k - 1 \in DOMAIN Tail(list) /\ Tail(list)[k - 1] = list[k]
OBVIOUS

\* Literals that are false and hold where the first polynomial does.
Explained(lits, polys, more) ==
  /\ Blames(lits, polys)
  /\ polys # << >> /\ \E P : polys \in Seq(P)
  /\ IsFiniteSet(more) /\ \A lit \in more : Refuted(lit)
  /\ \A rho \in Valuations : PolyHolds(Head(polys), rho) => \E lit \in more : HoldsIn(lit, rho)

LEMMA HeadExplained ==
  \A lits, polys, more : Explained(lits, polys, more) => Blames(lits \cup more, Tail(polys))
<1> SUFFICES ASSUME NEW lits, NEW polys, NEW more, Explained(lits, polys, more)
             PROVE  Blames(lits \cup more, Tail(polys))
  OBVIOUS
<1>1. PICK P : polys \in Seq(P) BY DEF Explained
<1>2. /\ 1 \in DOMAIN polys /\ Head(polys) = polys[1]
      /\ \A k \in DOMAIN Tail(polys) : k + 1 \in DOMAIN polys /\ Tail(polys)[k] = polys[k + 1]
      /\ \A k \in DOMAIN polys : k # 1 => k - 1 \in DOMAIN Tail(polys) /\ Tail(polys)[k - 1] = polys[k]
  BY <1>1, TailIs DEF Explained
<1>3. \A lit \in lits \cup more : Refuted(lit) BY DEF Explained, Blames
<1>4. IsFiniteSet(lits \cup more) BY FS_Union DEF Explained, Blames
<1>5. \E lit, other \in lits \cup more : lit # other
  BY DEF Explained, Blames
<1>6. \A k \in DOMAIN Tail(polys) : ~PolyHolds(Tail(polys)[k], model)
  BY <1>2 DEF Explained, Blames
<1>7. ASSUME NEW rho \in Valuations
      PROVE  \/ \E lit \in lits \cup more : HoldsIn(lit, rho)
             \/ \E k \in DOMAIN Tail(polys) : PolyHolds(Tail(polys)[k], rho)
  <2>1. CASE \E lit \in lits : HoldsIn(lit, rho) BY <2>1
  <2>2. CASE \E k \in DOMAIN polys : PolyHolds(polys[k], rho)
    <3>1. PICK k \in DOMAIN polys : PolyHolds(polys[k], rho) BY <2>2
    <3>2. CASE k = 1
      <4>1. PolyHolds(Head(polys), rho) BY <1>2, <3>1, <3>2
      <4>2. QED BY <4>1 DEF Explained
    <3>3. CASE k # 1 BY <1>2, <3>1, <3>3
    <3>4. QED BY <3>2, <3>3
  <2>3. QED BY <2>1, <2>2 DEF Explained, Blames
<1>8. QED BY <1>3, <1>4, <1>5, <1>6, <1>7 DEF Blames

LEMMA HeadExplainedNext ==
  \A lits, polys, more : Explained(lits, polys, more)' => Blames(lits \cup more, Tail(polys))'
<1>1. (\A lits, polys, more : Explained(lits, polys, more) => Blames(lits \cup more, Tail(polys)))'
  BY HeadExplained, PTL
<1>2. QED BY <1>1

\* What an explaining step starts from.
LEMMA Explaining ==
  ASSUME ConflictInv, explaining, NEW lits, NEW polys, lits = blame.lits, polys = blame.polys
  PROVE  /\ Blames(lits, polys) /\ polys # << >> /\ \E P : polys \in Seq(P)
         /\ \A k \in DOMAIN polys : PolyOK(polys[k]) /\ DOMAIN polys[k].coef \subseteq RealVars
         /\ 1 \in DOMAIN polys /\ Head(polys) = polys[1]
<1>1. polys # << >> /\ blame # NoBlame BY DEF explaining, NoBlame
<1>2. LraI /\ BlameKnown /\ PolysOK
  BY DEF ConflictInv, ValuesInv, LraI, PluginInv
<1>3. \E P : polys \in Seq(P) BY <1>2 DEF BlameKnown
<1>4. 1 \in DOMAIN polys /\ Head(polys) = polys[1] BY <1>1, <1>3, TailIs
<1>5. QED BY <1>1, <1>2, <1>3, <1>4 DEF ConflictInv, PolysOK, BlameKnown

LEMMA DropTrivialBlames ==
  ASSUME ConflictInv, [Next]_vars, DropTrivial, ~BacktrackToLevel, ~Restart,
         NEW lits, NEW polys, lits = blame.lits, polys = blame.polys
  PROVE  Blames(lits, Tail(polys))'
<1>1. /\ Blames(lits, polys) /\ polys # << >> /\ \E P : polys \in Seq(P)
      /\ \A k \in DOMAIN polys : PolyOK(polys[k]) /\ DOMAIN polys[k].coef \subseteq RealVars
      /\ 1 \in DOMAIN polys /\ Head(polys) = polys[1]
  BY Explaining DEF DropTrivial
<1>2. Blames(lits, polys)'
  BY <1>1, BlamesStays DEF ConflictInv, ValuesInv
<1>3. DOMAIN Head(polys).coef = {} BY DEF DropTrivial, Trivial
<1>4. \A rho \in Valuations : ~PolyHolds(Head(polys), rho)
  BY <1>1, <1>3, PolySame DEF Blames
<1>5. Explained(lits, polys, {})'
  BY <1>1, <1>2, <1>4, FS_EmptySet DEF Explained
<1>6. Blames(lits \cup {}, Tail(polys))' BY <1>5, HeadExplainedNext
<1>7. lits \cup {} = lits OBVIOUS
<1>8. QED BY <1>6, <1>7

\* A constraint c is negated by a negative literal.
LEMMA SignSays ==
  ASSUME NEW c, c.pred \in {"eq", "lt", "leq"}, NEW rho, NEW lit \in Int, lit # 0
  PROVE  /\ lit > 0 => (Satisfied(c, rho) = (lit > 0) <=> Satisfied(c, rho))
         /\ lit < 0 => (Satisfied(c, rho) = (lit > 0) <=> ~Satisfied(c, rho))
<1>1. Satisfied(c, rho) \in BOOLEAN BY SatisfiedIs
<1>2. CASE lit > 0
  <2>1. (lit > 0) = TRUE /\ ~(lit < 0) BY <1>2
  <2>2. QED BY <1>1, <2>1
<1>3. CASE lit < 0
  <2>1. (lit > 0) = FALSE BY <1>3
  <2>2. QED BY <1>1, <2>1
<1>4. QED BY <1>2, <1>3

\* The literal of a derived constraint says what the polynomial said.
LEMMA LiteralSays ==
  ASSUME NEW p, PolyForm(p), Representable(p), DOMAIN p.coef # {}, NEW a \in Nat \ {0}, NEW lit,
         lit = (IF Leading(p.coef) < 0 /\ p.pred # "eq" THEN -a ELSE a),
         Normalized(p) \in Given,
         NEW rho, \A r \in DOMAIN p.coef : rho[r] \in Int
  PROVE  Satisfied(Normalized(p), rho) = (lit > 0) <=> PolyHolds(p, rho)
<1>1. PICK c : c = Normalized(p) OBVIOUS
<1>2. c.pred \in {"eq", "lt", "leq"} BY <1>1 DEF Given
<1>3. CASE Leading(p.coef) < 0 /\ p.pred # "eq"
  <2>1. Satisfied(c, rho) <=> ~PolyHolds(p, rho)
    BY <1>1, <1>3, NormalSays
  <2>2. lit \in Int /\ lit # 0 /\ lit < 0 BY <1>3
  <2>3. Satisfied(c, rho) = (lit > 0) <=> ~Satisfied(c, rho)
    BY <1>2, <2>2, SignSays
  <2>4. QED BY <1>1, <2>1, <2>3
<1>4. CASE ~(Leading(p.coef) < 0 /\ p.pred # "eq")
  <2>1. Satisfied(c, rho) <=> PolyHolds(p, rho)
    BY <1>1, <1>4, NormalSays
  <2>2. lit \in Int /\ lit # 0 /\ lit > 0 BY <1>4
  <2>3. Satisfied(c, rho) = (lit > 0) <=> Satisfied(c, rho)
    BY <1>2, <2>2, SignSays
  <2>4. QED BY <1>1, <2>1, <2>3
<1>5. QED BY <1>3, <1>4

LEMMA DeriveBlames ==
  ASSUME ConflictInv, [Next]_vars, ValuesInv', Derive, ~BacktrackToLevel, ~Restart,
         NEW lits, NEW polys, lits = blame.lits, polys = blame.polys, NEW lit, lit = LiteralFor(Head(polys))
  PROVE  Blames(lits \cup {lit}, Tail(polys))'
<1>1. /\ Blames(lits, polys) /\ polys # << >> /\ \E P : polys \in Seq(P)
      /\ \A k \in DOMAIN polys : PolyOK(polys[k]) /\ DOMAIN polys[k].coef \subseteq RealVars
      /\ 1 \in DOMAIN polys /\ Head(polys) = polys[1]
  BY Explaining DEF Derive
<1>2. Blames(lits, polys)'
  BY <1>1, BlamesStays DEF ConflictInv, ValuesInv
<1>3. LraI /\ LraI' BY DEF ConflictInv, ValuesInv
<1>4. PICK p, a : p = Head(polys) /\ a = AtomFor(p) OBVIOUS
<1>5. PICK c : c = Normalized(p) OBVIOUS
<1>6. NewValues(a, c) /\ DOMAIN p.coef \in (SUBSET RealVars) \ {{}} /\ Representable(p) /\ PolyOK(p)
  BY <1>3, <1>4, <1>5, DeriveGets
<1>7. PolyForm(p) BY <1>6 DEF PolyForm, PolyOK
<1>8. c \in Given BY <1>5, <1>6, NormalForm
<1>9. a \in DOMAIN constraints' /\ constraints'[a] = c /\ \A r \in DOMAIN c.coef : is_defined(r)
  BY <1>6 DEF NewValues
<1>10. AtomFact(a)' BY <1>3, <1>9, AtomFactsNext DEF LraI
<1>11. a \in Nat \ {0} /\ AtomOf(a) = a /\ AtomOf(-a) = a /\ a \in Vars
  BY <1>10 DEF AtomFact
<1>12. lit = IF Leading(p.coef) < 0 /\ p.pred # "eq" THEN -a ELSE a
  BY <1>4 DEF LiteralFor
<1>13. lit \in Int /\ lit # 0 /\ AtomOf(lit) = a BY <1>11, <1>12
<1>14. LitOf(lit)' /\ Constraint(lit)' = c
  BY <1>9, <1>13 DEF LitOf, Constraint
<1>15. \A rho : (\A r \in DOMAIN p.coef : rho[r] \in Int) => (HoldsIn(lit, rho)' <=> PolyHolds(p, rho))
  <2>1. SUFFICES ASSUME NEW rho, \A r \in DOMAIN p.coef : rho[r] \in Int
                 PROVE  HoldsIn(lit, rho)' <=> PolyHolds(p, rho)
    OBVIOUS
  <2>2. Satisfied(c, rho) = (lit > 0) <=> PolyHolds(p, rho)
    BY <1>5, <1>6, <1>7, <1>8, <1>11, <1>12, <2>1, LiteralSays
  <2>3. QED BY <1>14, <2>2 DEF HoldsIn
<1>16. DOMAIN c.coef = DOMAIN p.coef BY <1>5 DEF Normalized
<1>17. \A r \in DOMAIN p.coef : r \in Vars /\ is_defined(r) /\ is_defined(r)' /\ model'[r] \in Int
  <2>1. \A r \in DOMAIN p.coef : r \in Vars /\ is_defined(r)
    BY <1>6, <1>9, <1>16, PluginAssumption
  <2>2. \A r \in DOMAIN p.coef : is_defined(r)'
    BY <1>3, <2>1, DefinedStays
  <2>3. \A r \in DOMAIN p.coef : model'[r] = model[r]
    BY <1>3, <2>1, <2>2, NextTrail, StepSame
  <2>4. \A r \in DOMAIN p.coef : model[r] \in Int
    BY <1>3, <2>1, ValuesAreInt
  <2>5. QED BY <2>1, <2>2, <2>3, <2>4
<1>18. is_defined(a)'
  <2>1. CASE SameTrail /\ is_defined(a)
    BY <2>1 DEF SameTrail, is_defined
  <2>2. CASE AtomGets(a, Truth(Satisfied(c, model)), LevelOf(DOMAIN c.coef))
    <3>1. NewLevels(a, LevelOf(DOMAIN c.coef))
      BY <1>3, <2>2, GetsModel DEF AtomGets
    <3>2. QED BY <1>11, <3>1 DEF NewLevels
  <2>3. QED BY <1>6, <2>1, <2>2 DEF NewValues
<1>19. AllDefined(a)'
  <2>1. VarsOf(a)' = DOMAIN c.coef BY <1>9, <1>11 DEF VarsOf, Constraint
  <2>2. QED BY <1>16, <1>17, <2>1 DEF AllDefined
<1>20. Refuted(lit)'
  <2>1. ~PolyHolds(p, model')
    BY <1>1, <1>3, <1>4, PolyStaysFalse DEF Blames
  <2>2. ~HoldsIn(lit, model)'
    <3>1. HoldsIn(lit, model)' <=> Satisfied(c, model') = (lit > 0)
      BY <1>14 DEF HoldsIn
    <3>2. Satisfied(c, model') = (lit > 0) <=> PolyHolds(p, model')
      BY <1>5, <1>6, <1>7, <1>8, <1>11, <1>12, <1>17, LiteralSays
    <3>3. QED BY <2>1, <3>1, <3>2
  <2>3. ~True(lit)' BY <1>13, <1>14, <1>18, <1>19, <2>2, TruthSaysNext
  <2>4. QED BY <1>13, <1>14, <1>18, <2>3 DEF Refuted
<1>21. \A rho \in Valuations : PolyHolds(Head(polys), rho) => HoldsIn(lit, rho)'
  BY <1>4, <1>6, <1>15 DEF Valuations
<1>22. Explained(lits, polys, {lit})'
  BY <1>1, <1>2, <1>20, <1>21, FS_Singleton DEF Explained
<1>23. QED BY <1>22, HeadExplainedNext

-----------------------------------------------------------------------------
(* The invariant.                                                          *)

\* The clause that is being built, after a step.
LEMMA BlameNext ==
  ASSUME ConflictInv, [Next]_vars, ValuesInv', ~BacktrackToLevel, ~Restart,
         NEW lits, NEW polys, lits = blame'.lits, polys = blame'.polys, blame' # NoBlame
  PROVE  Blames(lits, polys)'
<1> USE DEF trailVars, boundVars, watchVars, walkVars, conflictVars
<1>1. LraI /\ BlameKnown /\ PolysOK
  BY DEF ConflictInv, ValuesInv, LraI, PluginInv
<1>2. CASE UNCHANGED blame
  <2>1. Blames(lits, polys) BY <1>2 DEF ConflictInv
  <2>2. \A k \in DOMAIN polys : PolyOK(polys[k]) /\ DOMAIN polys[k].coef \subseteq RealVars
    BY <1>1, <1>2 DEF PolysOK, BlameKnown
  <2>3. QED BY <1>1, <2>1, <2>2, BlamesStays
<1>3. CASE Derive
  <2>1. PICK before, list, lit : before = blame.lits /\ list = blame.polys /\ lit = LiteralFor(Head(list))
    OBVIOUS
  <2>2. lits = before \cup {lit} /\ polys = Tail(list)
    BY <1>3, <2>1 DEF Derive
  <2>3. Blames(before \cup {lit}, Tail(list))'
    BY <1>3, <2>1, DeriveBlames
  <2>4. QED BY <2>2, <2>3
<1>4. CASE DropTrivial
  <2>1. PICK before, list : before = blame.lits /\ list = blame.polys
    OBVIOUS
  <2>2. lits = before /\ polys = Tail(list)
    <3>1. blame' = [blame EXCEPT !.polys = Tail(@)]
      BY <1>4 DEF DropTrivial
    <3>2. blame \in [lits : {before}, polys : {list}]
      BY <1>1, <2>1 DEF BlameKnown
    <3>3. QED BY <3>1, <3>2
  <2>3. Blames(before, Tail(list))' BY <1>4, <2>1, DropTrivialBlames
  <2>4. QED BY <2>2, <2>3
<1>5. CASE CheckBounds
  <2>1. \A k \in DOMAIN polys : PolyOK(polys[k]) BY <1>1, <1>5, BlamedOK
  <2>2. \A k \in DOMAIN polys : DOMAIN polys[k].coef \subseteq RealVars
    BY <1>1, NextLevels DEF PluginInv, BlameKnown
  <2>3. /\ changed # {}
        /\ blame' = IF BoundConflict THEN BoundBlame
                    ELSE IF InequalityConflict THEN InequalityBlame ELSE NoBlame
    BY <1>5 DEF CheckBounds
  <2>4. Blames(lits, polys)
    <3>1. CASE BoundConflict BY <2>3, <3>1, BoundsBlamed DEF ConflictInv
    <3>2. CASE ~BoundConflict /\ InequalityConflict
      BY <2>3, <3>2, InequalityBlamed DEF ConflictInv
    <3>3. QED BY <2>3, <3>1, <3>2
  <2>5. QED BY <1>1, <2>1, <2>2, <2>4, BlamesStays
<1>6. CASE Report BY <1>6 DEF Report
<1>7. VisitAssigned \/ DecideReal \/ DecideAtom \/ BcpAssign \/ BcpConflict \/ StartPropagate \/ SeeAtom
        \/ SeeReal \/ WalkDone \/ MoveWatch \/ VisitUnit \/ ReadDone \/ CheckDone \/ UNCHANGED vars
        => UNCHANGED blame
  BY DEF VisitAssigned, DecideReal, DecideAtom, BcpAssign, BcpConflict, StartPropagate, SeeAtom,
         SeeReal, WalkDone, MoveWatch, VisitUnit, ReadDone, CheckDone, LoopUnchanged, vars
<1>8. QED BY <1>2, <1>3, <1>4, <1>5, <1>6, <1>7, NextCases DEF Looking

\* The clauses that have been reported, after a step.
LEMMA ConflictsNext ==
  ASSUME ConflictInv, [Next]_vars, ~BacktrackToLevel, ~Restart
  PROVE  /\ conflicts' \in Seq(SUBSET Int)
         /\ conflicts' # << >> => pc' \in {"check", "conflict"}
         /\ \A k \in DOMAIN conflicts' : \A lits : lits = conflicts'[k] => Blames(lits, << >>)'
<1> USE DEF trailVars, boundVars, watchVars, walkVars, conflictVars
<1>1. LraI /\ conflicts \in Seq(SUBSET Int) /\ (conflicts # << >> => pc \in {"check", "conflict"})
  BY DEF ConflictInv, ValuesInv
<1>2. PICK none : none = << >> /\ DOMAIN none = {} OBVIOUS
<1>3. \A lits : Blames(lits, none) => Blames(lits, none)'
  BY <1>1, <1>2, BlamesStays
<1>4. \A k \in DOMAIN conflicts : \A lits : lits = conflicts[k] => Blames(lits, none)'
  BY <1>2, <1>3 DEF ConflictInv
<1>5. CASE UNCHANGED conflicts
  <2>1. \A k \in DOMAIN conflicts' : \A lits : lits = conflicts'[k] => Blames(lits, none)'
    BY <1>4, <1>5
  <2>2. conflicts # << >> => pc' \in {"check", "conflict"}
    <3>1. SUFFICES ASSUME conflicts # << >>
                   PROVE  pc' \in {"check", "conflict"}
      OBVIOUS
    <3>2. pc \in {"check", "conflict"} BY <1>1, <3>1
    <3>3. CASE UNCHANGED pc BY <3>2, <3>3
    <3>4. CASE CheckDone BY <3>1, <3>4 DEF CheckDone
    <3>5. CASE VisitAssigned \/ DecideReal \/ DecideAtom \/ BcpAssign \/ BcpConflict \/ StartPropagate
                 \/ SeeAtom \/ SeeReal \/ WalkDone \/ MoveWatch \/ VisitUnit \/ ReadDone
      BY <3>2, <3>5 DEF VisitAssigned, DecideReal, DecideAtom, BcpAssign, BcpConflict, StartPropagate,
                        SeeAtom, SeeReal, WalkDone, MoveWatch, VisitUnit, ReadDone, AtWatch, EndOfWalk, walking
    <3>6. CheckBounds \/ DropTrivial \/ Derive \/ Report \/ UNCHANGED vars => UNCHANGED pc
      BY DEF CheckBounds, DropTrivial, Derive, Report, vars
    <3>7. QED BY <3>3, <3>4, <3>5, <3>6, NextCases DEF Looking
  <2>3. QED BY <1>1, <1>2, <1>5, <2>1, <2>2
<1>6. CASE Report
  <2>1. PICK lits : lits = blame.lits OBVIOUS
  <2>2. /\ conflicts' = Append(conflicts, lits) /\ pc = "check" /\ UNCHANGED pc
        /\ blame # NoBlame /\ blame.polys = none
    BY <1>2, <1>6, <2>1 DEF Report
  <2>3. Blames(lits, none) BY <2>1, <2>2 DEF ConflictInv
  <2>4. lits \in SUBSET Int BY <2>3 DEF Blames, Refuted, LitOf
  <2>5. /\ conflicts' \in Seq(SUBSET Int)
        /\ \A k \in DOMAIN conflicts' :
             conflicts'[k] = lits \/ (k \in DOMAIN conflicts /\ conflicts'[k] = conflicts[k])
    BY <1>1, <2>2, <2>4
  <2>6. Blames(lits, none)' BY <1>3, <2>3
  <2>7. \A k \in DOMAIN conflicts' : \A other : other = conflicts'[k] => Blames(other, none)'
    BY <1>4, <2>5, <2>6
  <2>8. QED BY <1>2, <2>2, <2>5, <2>7
<1>7. VisitAssigned \/ DecideReal \/ DecideAtom \/ BcpAssign \/ BcpConflict \/ StartPropagate \/ SeeAtom
        \/ SeeReal \/ WalkDone \/ MoveWatch \/ VisitUnit \/ ReadDone \/ CheckDone \/ CheckBounds
        \/ DropTrivial \/ Derive \/ UNCHANGED vars
        => UNCHANGED conflicts
  BY DEF VisitAssigned, DecideReal, DecideAtom, BcpAssign, BcpConflict, StartPropagate, SeeAtom,
         SeeReal, WalkDone, MoveWatch, VisitUnit, ReadDone, CheckDone, CheckBounds, DropTrivial, Derive,
         LoopUnchanged, vars
<1>8. QED BY <1>5, <1>6, <1>7, NextCases DEF Looking

LEMMA ConflictInvNext ==
  ASSUME ConflictInv, [Next]_vars
  PROVE  ConflictInv'
<1>1. ValuesInv' BY ValuesNext DEF ConflictInv
<1>2. CASE BacktrackToLevel \/ Restart
  <2>1. conflicts' = << >> /\ blame' = blame /\ pc = "conflict"
    BY <1>2 DEF BacktrackToLevel, Restart, LoopUnchanged
  <2>2. blame' = NoBlame
    BY <2>1 DEF ConflictInv, ValuesInv, LraI, PlacesOK
  <2>3. conflicts' \in Seq(SUBSET Int) /\ DOMAIN conflicts' = {} BY <2>1
  <2>4. NoBlame' = NoBlame BY DEF NoBlame
  <2>5. QED BY <1>1, <2>1, <2>2, <2>3, <2>4 DEF ConflictInv
<1>3. CASE ~BacktrackToLevel /\ ~Restart
  <2>1. blame' # NoBlame => Blames(blame.lits, blame.polys)'
    <3>1. PICK lits, polys : lits = blame'.lits /\ polys = blame'.polys
      OBVIOUS
    <3>2. blame' # NoBlame => Blames(lits, polys)'
      BY <1>1, <1>3, <3>1, BlameNext
    <3>3. QED BY <3>1, <3>2 DEF Blames
  <2>2. /\ conflicts' \in Seq(SUBSET Int)
        /\ conflicts' # << >> => pc' \in {"check", "conflict"}
        /\ \A k \in DOMAIN conflicts' : \A lits : lits = conflicts'[k] => Blames(lits, << >>)'
    BY <1>3, ConflictsNext
  <2>3. \A k \in DOMAIN conflicts' : Blames(conflicts[k], << >>)'
    BY <2>2 DEF Blames
  <2>4. NoBlame' = NoBlame BY DEF NoBlame
  <2>5. QED BY <1>1, <2>1, <2>2, <2>3, <2>4 DEF ConflictInv
<1>4. QED BY <1>2, <1>3

LEMMA ConflictInvInit ==
  ASSUME Init
  PROVE  ConflictInv
<1>1. conflicts = << >> /\ blame = NoBlame BY DEF Init
<1>2. conflicts \in Seq(SUBSET Int) /\ DOMAIN conflicts = {} BY <1>1
<1>3. QED BY <1>1, <1>2, ValuesInit DEF ConflictInv

LEMMA TwoAtLeast ==
  ASSUME NEW set, IsFiniteSet(set), NEW a \in set, NEW b \in set, a # b
  PROVE  Cardinality(set) >= 2
<1>1. IsFiniteSet({a}) /\ Cardinality({a}) = 1 BY FS_Singleton
<1>2. {a, b} = {a} \cup {b} /\ {a, b} \in SUBSET set /\ b \notin {a}
  OBVIOUS
<1>3. Cardinality({a, b}) = 2 BY <1>1, <1>2, FS_AddElement
<1>4. Cardinality({a, b}) <= Cardinality(set) /\ Cardinality(set) \in Nat
  BY <1>2, FS_Subset, FS_CardinalityType
<1>5. QED BY <1>3, <1>4

LEMMA InvLemmas ==
  ASSUME ConflictInv
  PROVE  ConflictsAreLemmas
<1> SUFFICES ASSUME NEW k \in DOMAIN conflicts, NEW lits, lits = conflicts[k]
             PROVE  /\ Cardinality(lits) >= 2
                    /\ \A lit \in lits : is_defined(AtomOf(lit)) /\ ~True(lit)
                    /\ \A rho \in [UNION {VarsOf(lit) : lit \in lits} -> Grid] :
                         \E lit \in lits : HoldsIn(lit, rho)
  BY DEF ConflictsAreLemmas
<1>1. Blames(lits, << >>) /\ FormsOK BY DEF ConflictInv, ValuesInv, LraI
<1>2. Cardinality(lits) >= 2 BY <1>1, TwoAtLeast DEF Blames
<1>3. \A lit \in lits : LitOf(lit) /\ is_defined(AtomOf(lit)) /\ ~True(lit)
  BY <1>1 DEF Blames, Refuted
<1>4. ASSUME NEW rho \in [UNION {VarsOf(lit) : lit \in lits} -> Grid]
      PROVE  \E lit \in lits : HoldsIn(lit, rho)
  <2>1. PICK D : D = UNION {VarsOf(lit) : lit \in lits} OBVIOUS
  <2>2. PICK full : full = [r \in RealVars |-> IF r \in D THEN rho[r] ELSE 0]
    OBVIOUS
  <2>3. \A r \in D : rho[r] \in Int BY <2>1 DEF Grid
  <2>4. full \in Valuations BY <2>2, <2>3 DEF Valuations
  <2>5. PICK lit \in lits : HoldsIn(lit, full)
    <3>1. DOMAIN << >> = {} OBVIOUS
    <3>2. QED BY <1>1, <2>4, <3>1 DEF Blames
  <2>6. FormOf(Constraint(lit)) /\ VarsOf(lit) = DOMAIN Constraint(lit).coef
    BY <1>1, <1>3, Forms DEF LitOf, Constraint, VarsOf
  <2>7. \A r \in DOMAIN Constraint(lit).coef : full[r] = rho[r]
    BY <2>1, <2>2, <2>6 DEF FormOf
  <2>8. Satisfied(Constraint(lit), full) <=> Satisfied(Constraint(lit), rho)
    BY <2>7, SatisfiedSame
  <2>9. HoldsIn(lit, rho) BY <1>1, <1>3, <2>5, <2>8, LitSays DEF LitOf
  <2>10. QED BY <2>9
<1>5. QED BY <1>2, <1>3, <1>4

\* Every conflict that is reported consists of literals that are false, is true under
\* every assignment of numbers to its variables, and has two literals at least: the
\* derived constraints, their normal forms and signs, and the values given to them
\* while the clause is being built are right (Lra_conflict_analysis).
THEOREM ConflictsHold == Spec => []ConflictsAreLemmas
<1>1. Init => ConflictInv BY ConflictInvInit
<1>2. ConflictInv /\ [Next]_vars => ConflictInv' BY ConflictInvNext
<1>3. ConflictInv => ConflictsAreLemmas BY InvLemmas
<1>4. QED BY <1>1, <1>2, <1>3, PTL DEF Spec

\* A conflict holds for all numbers, not only for those of the grid that the runs try.
THEOREM ConflictsHoldForAll ==
  Spec => [](\A k \in DOMAIN conflicts : \A rho \in Valuations :
               \E lit \in conflicts[k] : HoldsIn(lit, rho))
<1> DEFINE HoldForAll == \A k \in DOMAIN conflicts : \A rho \in Valuations :
                           \E lit \in conflicts[k] : HoldsIn(lit, rho)
<1>1. Init => ConflictInv BY ConflictInvInit
<1>2. ConflictInv /\ [Next]_vars => ConflictInv' BY ConflictInvNext
<1>3. ConflictInv => HoldForAll
  <2>1. DOMAIN << >> = {} OBVIOUS
  <2>2. QED BY <2>1 DEF ConflictInv, Blames
<1> HIDE DEF HoldForAll
<1>4. Spec => []HoldForAll BY <1>1, <1>2, <1>3, PTL DEF Spec
<1>5. QED BY <1>4 DEF HoldForAll

-----------------------------------------------------------------------------
(* Where there is no conflict there is room: what the plugin must report,  *)
(* it does.                                                                *)

\* The entries of a list in force that depend on nothing above a level.
UpToLevel(list, r, level) ==
  {e \in ToSet(list) : ~IsObsolete(e, r) /\ \A m \in Members(e.lit, r) : var_level[m] <= level}

\* No two bounds of r up to a level exclude each other, nor do they leave one
\* value only that is disallowed.
Room(r, level) ==
  \A e \in UpToLevel(bounds[r].lb, r, level), f \in UpToLevel(bounds[r].ub, r, level) :
    \/ e.value < f.value
    \/ /\ e.value = f.value /\ ~IsStrict(e.lit) /\ ~IsStrict(f.lit)
       /\ \A d \in UpToLevel(bounds[r].disallowed, r, level) : d.value # e.value

\* There is room on the levels below the top at any time, and on all levels
\* for a variable that need not be checked.
RoomBelow == \A r \in RealVars : \A l \in Int : l < decision_level => Room(r, l)

RoomChecked ==
  blame = NoBlame /\ conflicts = << >> => \A r \in RealVars \ changed : \A l \in Int : Room(r, l)

NoneChanged == pc \notin {"read", "check"} => changed = {}

RoomInv == ConflictInv /\ RoomBelow /\ RoomChecked /\ NoneChanged

\* Nothing is added for r.
Fewer(r) ==
  /\ ToSet(bounds'[r].ub) \subseteq ToSet(bounds[r].ub)
  /\ ToSet(bounds'[r].lb) \subseteq ToSet(bounds[r].lb)
  /\ ToSet(bounds'[r].disallowed) \subseteq ToSet(bounds[r].disallowed)

\* An entry that is being made.
Fresh(e, r) ==
  /\ SameTrail /\ UNCHANGED constraints
  /\ \E m \in Members(e.lit, r) : var_level[m] = decision_level

LEMMA StacksOf ==
  ASSUME LraI, NEW r \in RealVars
  PROVE  /\ bounds[r].ub \in Seq(Implieds) /\ bounds[r].lb \in Seq(Implieds)
         /\ bounds[r].disallowed \in Seq(Implieds)
         /\ bounds[r] = [ub |-> bounds[r].ub, lb |-> bounds[r].lb, disallowed |-> bounds[r].disallowed]
BY DEF LraI, StacksOK

\* Restacking one variable: what is pruned is less, the others are left alone.
LEMMA RestackFewer ==
  ASSUME LraI, NEW q \in RealVars, NEW r \in RealVars, NEW ub, NEW lb, NEW disallowed,
         bounds' = [bounds EXCEPT ![q] = [ub |-> ub, lb |-> lb, disallowed |-> disallowed]],
         q = r => /\ ToSet(ub) \subseteq ToSet(bounds[r].ub)
                  /\ ToSet(lb) \subseteq ToSet(bounds[r].lb)
                  /\ ToSet(disallowed) \subseteq ToSet(bounds[r].disallowed)
  PROVE  Fewer(r)
<1>1. bounds'[r] = IF q = r THEN [ub |-> ub, lb |-> lb, disallowed |-> disallowed] ELSE bounds[r]
  BY DEF LraI, StacksOK
<1>2. QED BY <1>1 DEF Fewer

LEMMA UpdateFewer ==
  ASSUME LraI, NEW lit, NEW q \in RealVars, update(lit, q), NEW r \in RealVars, r \notin changed'
  PROVE  Fewer(r)
<1>1. PICK e, old, ub, lb : e = Implied(lit, q) /\ old = bounds[q] /\ ub = upper_bound(q) /\ lb = lower_bound(q)
  OBVIOUS
<1>2. /\ old.ub \in Seq(Implieds) /\ old.lb \in Seq(Implieds) /\ old.disallowed \in Seq(Implieds)
      /\ old = [ub |-> old.ub, lb |-> old.lb, disallowed |-> old.disallowed]
  BY <1>1, StacksOf
<1>3. ToSet(ub) \subseteq ToSet(old.ub) /\ ToSet(lb) \subseteq ToSet(old.lb)
  BY <1>1, <1>2, PrunedElements DEF upper_bound, lower_bound
<1>4. CASE IsInequality(lit)
  <2>1. PICK list : bounds' = [bounds EXCEPT ![q].disallowed = list] /\ changed' = changed \cup {q}
    BY <1>4 DEF update, AddInequality
  <2>2. bounds' = [bounds EXCEPT ![q] = [ub |-> old.ub, lb |-> old.lb, disallowed |-> list]]
    <3>1. [old EXCEPT !.disallowed = list] = [ub |-> old.ub, lb |-> old.lb, disallowed |-> list]
      BY <1>2
    <3>2. bounds' = [bounds EXCEPT ![q] = [bounds[q] EXCEPT !.disallowed = list]]
      BY <2>1
    <3>3. QED BY <1>1, <3>1, <3>2
  <2>3. q # r BY <2>1
  <2>4. QED BY <2>2, <2>3, RestackFewer
<1>5. CASE ~IsInequality(lit)
  <2>1. AddBounds(e, q) BY <1>1, <1>5 DEF update
  <2> DEFINE above == BoundsFromAbove(e.lit, q)
             below == BoundsFromBelow(e.lit, q)
             newUb == IF above THEN Push(ub, TRUE, e) ELSE old.ub
             newLb == IF below THEN Push(lb, FALSE, e) ELSE old.lb
  <2>2. bounds' = [bounds EXCEPT ![q] = [ub |-> newUb, lb |-> newLb, disallowed |-> old.disallowed]]
    BY <1>1, <2>1 DEF AddBounds
  <2>3. q = r => ~(above /\ Beats(e, ub, TRUE)) /\ ~(below /\ Beats(e, lb, FALSE))
    BY <1>1, <2>1 DEF AddBounds
  <2>4. q = r => ToSet(newUb) \subseteq ToSet(old.ub) /\ ToSet(newLb) \subseteq ToSet(old.lb)
    BY <1>3, <2>3 DEF Push
  <2> HIDE DEF newUb, newLb
  <2>5. QED BY <1>1, <2>2, <2>4, RestackFewer
<1>6. QED BY <1>4, <1>5

\* Only a variable that is to be checked gets new entries.
LEMMA NextFewer ==
  ASSUME LraI, [Next]_vars, NEW r \in RealVars, r \notin changed'
  PROVE  Fewer(r)
<1> USE DEF trailVars, boundVars, watchVars, walkVars, conflictVars
<1>1. UNCHANGED bounds => Fewer(r) BY DEF Fewer
<1>2. CASE SeeAtom
  <2>1. PICK a : a = Head(seen) OBVIOUS
  <2>2. IF is_unit(a) THEN update(TrueLit(a), order[a][1]) ELSE UNCHANGED <<bounds, changed>>
    BY <1>2, <2>1 DEF SeeAtom
  <2>3. is_unit(a) => order[a][1] \in RealVars
    BY <1>2, <2>1, SeeAtomUnit DEF UnitFor
  <2>4. QED BY <1>1, <2>2, <2>3, UpdateFewer
<1>3. CASE VisitUnit
  <2>1. PICK a, q : a = TheWatch.atom /\ q = Reordered(a)[1] OBVIOUS
  <2>2. IF is_defined(a) THEN update(TrueLit(a), q) ELSE UNCHANGED <<bounds, changed>>
    BY <1>3, <2>1 DEF VisitUnit
  <2>3. is_defined(a) => q \in RealVars
    BY <1>3, <2>1, VisitUnitUnit DEF UnitFor
  <2>4. QED BY <1>1, <2>2, <2>3, UpdateFewer
<1>4. ASSUME NEW q \in RealVars, NEW d, d = bounds[q].disallowed \/ d = InForce(bounds[q].disallowed, q),
             bounds' = [bounds EXCEPT ![q] = [ub |-> upper_bound(q), lb |-> lower_bound(q), disallowed |-> d]]
      PROVE  Fewer(r)
  <2>1. /\ ToSet(upper_bound(q)) \subseteq ToSet(bounds[q].ub)
        /\ ToSet(lower_bound(q)) \subseteq ToSet(bounds[q].lb)
    BY StacksOf, PrunedElements DEF upper_bound, lower_bound
  <2>2. ToSet(d) \subseteq ToSet(bounds[q].disallowed)
    BY <1>4, StacksOf, InForceElements
  <2>3. QED BY <1>4, <2>1, <2>2, RestackFewer
<1>5. CASE CheckBounds
  <2>1. PICK q : q = Checked OBVIOUS
  <2>2. q \in RealVars BY <1>5, <2>1, CheckedReal DEF CheckBounds
  <2>3. PICK d : /\ d = bounds[q].disallowed \/ d = InForce(bounds[q].disallowed, q)
                 /\ bounds' = [bounds EXCEPT ![q] =
                      [ub |-> upper_bound(q), lb |-> lower_bound(q), disallowed |-> d]]
    BY <1>5, <2>1 DEF CheckBounds, AskBounds
  <2>4. QED BY <1>4, <2>2, <2>3
<1>6. CASE DecideReal
  <2>1. PICK q \in InUse, x \in RealValues : RealGets(q, x) /\ AskAll(q)
    BY <1>6, DecideRealGets
  <2>2. q \in RealVars BY <2>1 DEF RealGets
  <2>3. QED BY <1>4, <2>1, <2>2 DEF AskAll
<1>7. VisitAssigned \/ Derive \/ DecideAtom \/ BcpAssign \/ BcpConflict \/ StartPropagate \/ BacktrackToLevel
        \/ Restart \/ SeeReal \/ WalkDone \/ MoveWatch \/ ReadDone \/ CheckDone \/ Report \/ DropTrivial
        \/ UNCHANGED vars => UNCHANGED bounds
  BY DEF VisitAssigned, Derive, DecideAtom, BcpAssign, BcpConflict, StartPropagate, BacktrackToLevel,
         Restart, SeeReal, WalkDone, MoveWatch, ReadDone, CheckDone, Report, DropTrivial, LoopUnchanged, vars
<1>8. QED BY <1>1, <1>2, <1>3, <1>5, <1>6, <1>7, NextCases DEF Looking

\* What is added rests on the top level.
LEMMA NextFresh ==
  ASSUME LraI, [Next]_vars, NEW r \in RealVars
  PROVE  /\ \A e \in ToSet(bounds'[r].ub) : e \in ToSet(bounds[r].ub) \/ Fresh(e, r)
         /\ \A e \in ToSet(bounds'[r].lb) : e \in ToSet(bounds[r].lb) \/ Fresh(e, r)
         /\ \A e \in ToSet(bounds'[r].disallowed) : e \in ToSet(bounds[r].disallowed) \/ Fresh(e, r)
<1>1. CASE UNCHANGED bounds BY <1>1
<1>2. CASE BoundsStep
  <2>1. PICK q, ub, lb, disallowed : Restacks(q, ub, lb, disallowed)
    BY <1>2 DEF BoundsStep
  <2>2. PICK old : old = bounds[q] OBVIOUS
  <2>3. /\ q \in RealVars /\ NewStack(ub, old.ub, TRUE, q) /\ NewStack(lb, old.lb, FALSE, q)
        /\ NewList(disallowed, old.disallowed, q)
        /\ bounds' = [bounds EXCEPT ![q] = [ub |-> ub, lb |-> lb, disallowed |-> disallowed]]
    BY <2>1, <2>2 DEF Restacks
  <2>4. old.ub \in Seq(Implieds) /\ old.lb \in Seq(Implieds) /\ old.disallowed \in Seq(Implieds)
    BY <2>2, <2>3, StacksOf
  <2>5. ASSUME NEW lit, UnitFor(lit, q), SameTrail, UNCHANGED constraints
        PROVE  Fresh(Implied(lit, q), q) /\ Implied(lit, q) \in Implieds
    <3>1. Implied(lit, q).lit = lit BY DEF Implied
    <3>2. QED BY <2>5, <3>1, ImpliedOK DEF Fresh, UnitFor
  <2>6. ASSUME NEW stack \in Seq(Implieds), NEW list, NEW less, NewStack(list, stack, less, q)
        PROVE  \A e \in ToSet(list) : e \in ToSet(stack) \/ Fresh(e, q)
    <3>1. Pruned(stack, q) \in Seq(Implieds) /\ ToSet(Pruned(stack, q)) \subseteq ToSet(stack)
      BY PrunedElements
    <3>2. CASE list = stack \/ list = Pruned(stack, q) BY <3>1, <3>2
    <3>3. ASSUME NEW lit, UnitFor(lit, q), SameTrail, UNCHANGED constraints, list = Append(Pruned(stack, q), Implied(lit, q))
          PROVE  \A e \in ToSet(list) : e \in ToSet(stack) \/ Fresh(e, q)
      <4>1. PICK e : e = Implied(lit, q) OBVIOUS
      <4>2. Fresh(e, q) /\ e \in Implieds BY <2>5, <3>3, <4>1
      <4>3. ToSet(list) \subseteq ToSet(Pruned(stack, q)) \cup {e}
        BY <3>1, <3>3, <4>1, <4>2, AppendElements
      <4>4. QED BY <3>1, <4>2, <4>3
    <3>4. QED BY <2>6, <3>2, <3>3 DEF NewStack
  <2>7. \A e \in ToSet(disallowed) : e \in ToSet(old.disallowed) \/ Fresh(e, q)
    <3>1. PICK part : part = InForce(old.disallowed, q) OBVIOUS
    <3>2. part \in Seq(Implieds) /\ ToSet(part) \subseteq ToSet(old.disallowed)
      BY <2>4, <3>1, InForceElements
    <3>3. CASE disallowed = old.disallowed \/ disallowed = part
      BY <3>2, <3>3
    <3>4. ASSUME NEW lit, UnitFor(lit, q), SameTrail, UNCHANGED constraints, disallowed = Append(part, Implied(lit, q))
          PROVE  \A e \in ToSet(disallowed) : e \in ToSet(old.disallowed) \/ Fresh(e, q)
      <4>1. PICK e : e = Implied(lit, q) OBVIOUS
      <4>2. Fresh(e, q) /\ e \in Implieds BY <2>5, <3>4, <4>1
      <4>3. ToSet(disallowed) \subseteq ToSet(part) \cup {e}
        BY <3>2, <3>4, <4>1, <4>2, AppendElements
      <4>4. QED BY <3>2, <4>2, <4>3
    <3>5. QED BY <2>3, <3>1, <3>3, <3>4 DEF NewList
  <2>8. bounds'[r] = IF q = r THEN [ub |-> ub, lb |-> lb, disallowed |-> disallowed] ELSE bounds[r]
    BY <2>3 DEF LraI, StacksOK
  <2>9. CASE q # r BY <2>8, <2>9
  <2>10. CASE q = r
    <3>1. \A e \in ToSet(ub) : e \in ToSet(old.ub) \/ Fresh(e, r)
      BY <2>3, <2>4, <2>6, <2>10
    <3>2. \A e \in ToSet(lb) : e \in ToSet(old.lb) \/ Fresh(e, r)
      BY <2>3, <2>4, <2>6, <2>10
    <3>3. bounds[r] = old /\ bounds'[r].ub = ub /\ bounds'[r].lb = lb /\ bounds'[r].disallowed = disallowed
      BY <2>2, <2>8, <2>10
    <3>4. QED BY <2>7, <2>10, <3>1, <3>2, <3>3
  <2>11. QED BY <2>9, <2>10
<1>3. QED BY <1>1, <1>2, NextBounds

\* An entry that is in force after a step was so before, and what it depends
\* on has not moved.
LEMMA InForceBefore ==
  ASSUME LraI, [Next]_vars, NEW r \in RealVars, NEW e \in Entries(r), ~IsObsolete(e, r)'
  PROVE  /\ ~IsObsolete(e, r) /\ IsStrict(e.lit)' = IsStrict(e.lit)
         /\ Members(e.lit, r)' = Members(e.lit, r)
         /\ \A m \in Members(e.lit, r) :
              /\ m \in Vars /\ is_defined(m)' /\ var_level'[m] = var_level[m]
              /\ var_level[m] \in 0..decision_level
<1>1. TrailStep /\ Kept BY NextLevels
<1>2. ~IsObsolete(e, r) BY StepKeepsObsolete DEF LraI
<1>3. EntryOK(e, r) BY <1>2, LiveEntry
<1>4. PICK M : M = Members(e.lit, r) OBVIOUS
<1>5. Members(e.lit, r)' = M /\ \A m \in M : m \in Vars /\ is_defined(m) /\ var_level[m] \in 0..decision_level
  BY <1>1, <1>3, <1>4, MembersDefined
<1>6. Others(e.lit, r)' = Others(e.lit, r)
  BY <1>1, <1>3, OthersStay DEF EntryOK
<1>7. \A m \in Others(e.lit, r) : is_defined(m)' BY <1>6 DEF IsObsolete
<1>8. is_defined(AtomOf(e.lit))'
  <2>1. model'[AtomOf(e.lit)] = Truth(e.lit > 0) BY DEF IsObsolete, True
  <2>2. Truth(e.lit > 0) \in Values BY TruthIsValue
  <2>3. QED BY <2>1, <2>2, UndefAssumption DEF is_defined
<1>9. \A m \in M : is_defined(m)' BY <1>4, <1>7, <1>8 DEF Members
<1>10. \A m \in M : var_level'[m] = var_level[m]
  BY <1>1, <1>5, <1>9, StepSame
<1>11. IsStrict(e.lit)' = IsStrict(e.lit)
  BY <1>1, <1>3 DEF Kept, IsStrict, Constraint, EntryOK
<1>12. QED BY <1>2, <1>4, <1>5, <1>9, <1>10, <1>11

\* Where the entries that count are fewer, there is no less room.
LEMMA RoomStays ==
  ASSUME LraI, [Next]_vars, NEW r \in RealVars, NEW l, NEW m, Room(r, l),
         NEW ub, NEW lb, NEW disallowed,
         ub = bounds[r].ub, lb = bounds[r].lb, disallowed = bounds[r].disallowed,
         UpToLevel(bounds[r].ub, r, m)' \subseteq UpToLevel(ub, r, l),
         UpToLevel(bounds[r].lb, r, m)' \subseteq UpToLevel(lb, r, l),
         UpToLevel(bounds[r].disallowed, r, m)' \subseteq UpToLevel(disallowed, r, l)
  PROVE  Room(r, m)'
<1>1. ASSUME NEW list, NEW e \in UpToLevel(list, r, m)', e \in Entries(r)
      PROVE  IsStrict(e.lit)' = IsStrict(e.lit)
  <2>1. ~IsObsolete(e, r)' BY DEF UpToLevel
  <2>2. QED BY <1>1, <2>1, InForceBefore
<1>2. ASSUME NEW e \in UpToLevel(bounds[r].lb, r, m)', NEW f \in UpToLevel(bounds[r].ub, r, m)'
      PROVE  \/ e.value < f.value
             \/ /\ e.value = f.value /\ ~IsStrict(e.lit)' /\ ~IsStrict(f.lit)'
                /\ \A d \in UpToLevel(bounds[r].disallowed, r, m)' : d.value # e.value
  <2>1. e \in UpToLevel(lb, r, l) /\ f \in UpToLevel(ub, r, l) OBVIOUS
  <2>2. \/ e.value < f.value
        \/ /\ e.value = f.value /\ ~IsStrict(e.lit) /\ ~IsStrict(f.lit)
           /\ \A d \in UpToLevel(disallowed, r, l) : d.value # e.value
    BY <2>1 DEF Room
  <2>3. e \in Entries(r) /\ f \in Entries(r)
    BY <2>1 DEF UpToLevel, Entries
  <2>4. ~IsObsolete(e, r)' /\ ~IsObsolete(f, r)' BY DEF UpToLevel
  <2>5. IsStrict(e.lit)' = IsStrict(e.lit) /\ IsStrict(f.lit)' = IsStrict(f.lit)
    BY <2>3, <2>4, InForceBefore
  <2>6. QED BY <2>2, <2>5
<1>3. QED BY <1>2 DEF Room

\* What counts after a step counted before, unless it is new.
LEMMA UpToBefore ==
  ASSUME LraI, [Next]_vars, NEW r \in RealVars, NEW l \in Int, NEW list, NEW new,
         ToSet(list) \subseteq Entries(r),
         \A e \in ToSet(new) : e \in ToSet(list) \/ (Fresh(e, r) /\ l < decision_level)
  PROVE  UpToLevel(new, r, l)' \subseteq UpToLevel(list, r, l)
<1>1. LevelsOK /\ decision_level \in Int
  BY TrailLists DEF LraI, PluginInv, TrailShape
<1> SUFFICES ASSUME NEW e \in UpToLevel(new, r, l)'
             PROVE  e \in UpToLevel(list, r, l)
  OBVIOUS
<1>2. e \in ToSet(new) /\ ~IsObsolete(e, r)' /\ \A m \in Members(e.lit, r)' : var_level'[m] <= l
  BY DEF UpToLevel, ToSet
<1>3. CASE e \in ToSet(list)
  <2>1. e \in Entries(r) BY <1>3
  <2>2. /\ ~IsObsolete(e, r) /\ Members(e.lit, r)' = Members(e.lit, r)
        /\ \A m \in Members(e.lit, r) : var_level'[m] = var_level[m]
    BY <1>2, <2>1, InForceBefore
  <2>3. QED BY <1>2, <1>3, <2>2 DEF UpToLevel
<1>4. CASE Fresh(e, r) /\ l < decision_level /\ e \notin ToSet(list)
  <2>1. PICK m \in Members(e.lit, r) : var_level[m] = decision_level
    BY <1>4 DEF Fresh
  <2>2. Members(e.lit, r)' = Members(e.lit, r)
    BY <1>4 DEF Fresh, Members, Others, VarsOf, Constraint
  <2>3. var_level'[m] = var_level[m] BY <1>4 DEF Fresh, SameTrail
  <2>4. decision_level <= l BY <1>2, <2>1, <2>2, <2>3
  <2>5. QED BY <1>1, <1>4, <2>4
<1>5. QED BY <1>2, <1>3, <1>4

\* What is read is the best of what is in force.
LEMMA TopMost ==
  ASSUME LraI, NEW r \in RealVars, NEW less \in BOOLEAN, NEW stack, stack = StackOf(r, less),
         NEW e \in ToSet(stack), ~IsObsolete(e, r), NEW part, part = Pruned(stack, r)
  PROVE  /\ part # << >> /\ LiveIn(Last(part), stack, r) /\ Last(part) \in Implieds /\ e \in Implieds
         /\ e = Last(part) \/ Better(less, Last(part), e)
<1>2. stack \in Seq(Implieds) /\ NestedStack(stack, less, r)
  BY DEF LraI, StacksOK, StackOf, Nested
<1>3. PICK m : PrunedTo(part, stack, r, m) BY <1>2, PrunedIs
<1>4. PICK k \in DOMAIN stack : e = stack[k] BY DEF ToSet
<1>5. k \in 1..m /\ m \in 1..Len(stack) BY <1>3, <1>4 DEF PrunedTo
<1>6. part # << >> /\ Last(part) = stack[m] /\ m \in DOMAIN stack /\ ~IsObsolete(stack[m], r)
  BY <1>3, <1>5 DEF PrunedTo, Last
<1>7. LiveIn(Last(part), stack, r) BY <1>6 DEF LiveIn, ToSet
<1>8. stack[m] \in Implieds /\ e \in Implieds BY <1>2, <1>4, <1>6
<1>9. e = stack[m] \/ Better(less, stack[m], e)
  <2>1. CASE k = m BY <1>4, <2>1
  <2>2. CASE k # m
    <3>1. k < m BY <1>5, <2>2
    <3>2. QED BY <1>2, <1>4, <1>6, <3>1 DEF NestedStack
  <2>3. QED BY <2>1, <2>2
<1>10. QED BY <1>6, <1>7, <1>8, <1>9

\* A disallowed value is found.
LEMMA DisallowedFound ==
  ASSUME StacksOK, NEW r \in RealVars, NEW d \in ToSet(bounds[r].disallowed), ~IsObsolete(d, r)
  PROVE  inequality(r, d.value) # << >>
<1> DEFINE kept == InForce(bounds[r].disallowed, r)
           at == {k \in DOMAIN kept : kept[k].value = d.value}
           same == Chosen(kept, at)
<1>1. kept \in Seq(Implieds) /\ d \in ToSet(kept)
  <2>1. bounds[r].disallowed \in Seq(Implieds) BY DEF StacksOK
  <2>2. QED BY <2>1, InForceIs
<1>2. inequality(r, d.value) = IF same = << >> THEN << >> ELSE <<Head(same)>>
  BY DEF inequality
<1>3. \A i \in 1..Len(kept) : kept[i] = d => i \in at
  <2>1. DOMAIN kept = 1..Len(kept) BY <1>1
  <2>2. QED BY <2>1
<1>4. PICK i \in 1..Len(kept) : kept[i] = d BY <1>1 DEF ToSet
<1> HIDE DEF kept, at
<1>5. /\ same \in Seq(Implieds)
      /\ \A j \in 1..Len(kept) : j \in at => \E k \in 1..Len(same) : same[k] = kept[j]
  BY <1>1, ChosenElements
<1>6. PICK k \in 1..Len(same) : same[k] = kept[i] BY <1>3, <1>4, <1>5
<1> HIDE DEF same
<1>7. same # << >> BY <1>6
<1>8. QED BY <1>2, <1>7

\* Checking a variable without a conflict shows that there is room for it.
LEMMA NoConflictRoom ==
  ASSUME LraI, changed # {}, ~BoundConflict, ~InequalityConflict, NEW l
  PROVE  Room(Checked, l)
<1>1. PICK r : r = Checked OBVIOUS
<1>2. r \in RealVars BY <1>1, CheckedReal
<1>3. PICK lb, ub : lb = lower_bound(r) /\ ub = upper_bound(r) OBVIOUS
<1>4. PICK low, high : low = bounds[r].lb /\ high = bounds[r].ub OBVIOUS
<1>5. low = StackOf(r, FALSE) /\ high = StackOf(r, TRUE)
  BY <1>4 DEF StackOf
<1>6. lb = Pruned(low, r) /\ ub = Pruned(high, r)
  BY <1>3, <1>4 DEF lower_bound, upper_bound
<1>7. ASSUME NEW e \in UpToLevel(low, r, l), NEW f \in UpToLevel(high, r, l)
      PROVE  \/ e.value < f.value
             \/ /\ e.value = f.value /\ ~IsStrict(e.lit) /\ ~IsStrict(f.lit)
                /\ \A d \in UpToLevel(bounds[r].disallowed, r, l) : d.value # e.value
  <2>1. e \in ToSet(low) /\ ~IsObsolete(e, r) /\ f \in ToSet(high) /\ ~IsObsolete(f, r)
    BY DEF UpToLevel
  <2>2. PICK L, U : L = Last(lb) /\ U = Last(ub) OBVIOUS
  <2>3. lb # << >> /\ L \in Implieds /\ e \in Implieds /\ (e = L \/ Better(FALSE, L, e))
    BY <1>2, <1>5, <1>6, <2>1, <2>2, TopMost
  <2>4. ub # << >> /\ U \in Implieds /\ f \in Implieds /\ (f = U \/ Better(TRUE, U, f))
    BY <1>2, <1>5, <1>6, <2>1, <2>2, TopMost
  <2>5. Bounded /\ Lower = L /\ Upper = U
    BY <1>1, <1>3, <2>2, <2>3, <2>4 DEF Bounded, Lower, Upper
  <2>6. L.value \in Int /\ U.value \in Int /\ e.value \in Int /\ f.value \in Int
    BY <2>3, <2>4 DEF Implieds
  <2>7. \/ L.value < U.value
        \/ L.value = U.value /\ ~IsStrict(L.lit) /\ ~IsStrict(U.lit)
    BY <2>5, <2>6 DEF BoundConflict
  <2>8. e.value <= L.value /\ U.value <= f.value
    BY <2>3, <2>4, <2>6 DEF Better
  <2>9. CASE e.value < f.value BY <2>9
  <2>10. CASE ~(e.value < f.value)
    <3>1. e.value = L.value /\ L.value = U.value /\ f.value = U.value
      BY <2>6, <2>7, <2>8, <2>10
    <3>2. ~IsStrict(L.lit) /\ ~IsStrict(U.lit) BY <2>6, <2>7, <3>1
    <3>3. ~IsStrict(e.lit) /\ ~IsStrict(f.lit)
      BY <2>3, <2>4, <2>6, <3>1, <3>2 DEF Better
    <3>4. inequality(r, L.value) = << >>
      BY <1>1, <2>5, <3>1, <3>2 DEF InequalityConflict
    <3>5. \A d \in UpToLevel(bounds[r].disallowed, r, l) : d.value # e.value
      <4>1. ASSUME NEW d \in UpToLevel(bounds[r].disallowed, r, l), d.value = e.value
            PROVE  FALSE
        <5>1. d \in ToSet(bounds[r].disallowed) /\ ~IsObsolete(d, r)
          BY DEF UpToLevel
        <5>2. inequality(r, d.value) # << >>
          BY <1>2, <5>1, DisallowedFound DEF LraI
        <5>3. QED BY <3>1, <3>4, <4>1, <5>2
      <4>2. QED BY <4>1
    <3>6. QED BY <3>1, <3>3, <3>5
  <2>11. QED BY <2>9, <2>10
<1>8. QED BY <1>1, <1>4, <1>7 DEF Room

-----------------------------------------------------------------------------
(* Room is kept.                                                           *)

\* What is in force of r after a step is what was up to a level, and more
\* only where the level says so.
LEMMA RoomStep ==
  ASSUME LraI, [Next]_vars, NEW r \in RealVars, NEW l \in Int, Room(r, l),
         r \notin changed' \/ l < decision_level
  PROVE  Room(r, l)'
<1>1. PICK ub, lb, disallowed : ub = bounds[r].ub /\ lb = bounds[r].lb /\ disallowed = bounds[r].disallowed
  OBVIOUS
<1>2. PICK newUb, newLb, newDis : newUb = bounds'[r].ub /\ newLb = bounds'[r].lb /\ newDis = bounds'[r].disallowed
  OBVIOUS
<1>3. ToSet(ub) \subseteq Entries(r) /\ ToSet(lb) \subseteq Entries(r) /\ ToSet(disallowed) \subseteq Entries(r)
  BY <1>1 DEF Entries
<1>4. /\ \A e \in ToSet(newUb) : e \in ToSet(ub) \/ Fresh(e, r)
      /\ \A e \in ToSet(newLb) : e \in ToSet(lb) \/ Fresh(e, r)
      /\ \A e \in ToSet(newDis) : e \in ToSet(disallowed) \/ Fresh(e, r)
  BY <1>1, <1>2, NextFresh
<1>5. r \notin changed' => /\ ToSet(newUb) \subseteq ToSet(ub) /\ ToSet(newLb) \subseteq ToSet(lb)
                           /\ ToSet(newDis) \subseteq ToSet(disallowed)
  BY <1>1, <1>2, NextFewer DEF Fewer
<1>6. /\ \A e \in ToSet(newUb) : e \in ToSet(ub) \/ (Fresh(e, r) /\ l < decision_level)
      /\ \A e \in ToSet(newLb) : e \in ToSet(lb) \/ (Fresh(e, r) /\ l < decision_level)
      /\ \A e \in ToSet(newDis) : e \in ToSet(disallowed) \/ (Fresh(e, r) /\ l < decision_level)
  BY <1>4, <1>5
<1>7. /\ UpToLevel(newUb, r, l)' \subseteq UpToLevel(ub, r, l)
      /\ UpToLevel(newLb, r, l)' \subseteq UpToLevel(lb, r, l)
      /\ UpToLevel(newDis, r, l)' \subseteq UpToLevel(disallowed, r, l)
  BY <1>3, <1>6, UpToBefore
<1>8. /\ UpToLevel(bounds[r].ub, r, l)' = UpToLevel(newUb, r, l)'
      /\ UpToLevel(bounds[r].lb, r, l)' = UpToLevel(newLb, r, l)'
      /\ UpToLevel(bounds[r].disallowed, r, l)' = UpToLevel(newDis, r, l)'
  BY <1>2 DEF UpToLevel, ToSet
<1>9. QED BY <1>1, <1>7, <1>8, RoomStays

\* What is in force after a backtrack was so on the levels that are left.
LEMMA RoomBack ==
  ASSUME LraI, RoomBelow, [Next]_vars, LraI', BacktrackToLevel \/ Restart, NEW r \in RealVars, NEW l \in Int
  PROVE  Room(r, l)'
<1>1. PICK d : d = decision_level' OBVIOUS
<1>2. d \in Int /\ d < decision_level
  <2>1. decision_level \in Nat
    BY TrailLists DEF LraI, PluginInv, TrailShape
  <2>2. UNCHANGED <<stamp, clock, constraints>>
    BY DEF BacktrackToLevel, Restart, LoopUnchanged
  <2>3. CASE Restart
    <3>1. trail' = << << >> >> BY <2>3 DEF Restart, Clear
    <3>2. d = 0 BY <1>1, <3>1 DEF decision_level
    <3>3. QED BY <2>1, <2>3, <3>2 DEF Restart
  <2>4. CASE BacktrackToLevel
    <3>1. PICK k \in 0..(decision_level - 1) : Cuts(k)
      BY <2>2, <2>4, BacktrackCuts DEF BacktrackToLevel
    <3>2. QED BY <1>1, <2>1, <3>1 DEF Cuts
  <2>5. QED BY <2>3, <2>4
<1>3. UNCHANGED bounds BY DEF BacktrackToLevel, Restart, LoopUnchanged
<1>4. Room(r, d) BY <1>2 DEF RoomBelow
<1>5. PICK ub, lb, disallowed : ub = bounds[r].ub /\ lb = bounds[r].lb /\ disallowed = bounds[r].disallowed
  OBVIOUS
<1>6. \A v \in Vars : is_defined(v)' => var_level'[v] <= d
  <2>1. LevelsOK' BY DEF LraI
  <2>2. \A v \in Vars : is_defined(v)' => var_level'[v] \in 0..d
    BY <1>1, <2>1 DEF LevelsOK
  <2>3. QED BY <1>2, <2>2
<1>7. ASSUME NEW list, ToSet(list) \subseteq Entries(r)
      PROVE  UpToLevel(list, r, l)' \subseteq UpToLevel(list, r, d)
  <2>1. ASSUME NEW e \in UpToLevel(list, r, l)'
        PROVE  e \in UpToLevel(list, r, d)
    <3>1. e \in ToSet(list) /\ ~IsObsolete(e, r)'
      BY DEF UpToLevel, ToSet
    <3>2. e \in Entries(r) BY <1>7, <3>1
    <3>3. /\ ~IsObsolete(e, r)
          /\ \A m \in Members(e.lit, r) : m \in Vars /\ is_defined(m)' /\ var_level'[m] = var_level[m]
      BY <3>1, <3>2, InForceBefore
    <3>4. \A m \in Members(e.lit, r) : var_level[m] <= d BY <1>6, <3>3
    <3>5. QED BY <3>1, <3>3, <3>4 DEF UpToLevel
  <2>2. QED BY <2>1
<1>8. ToSet(ub) \subseteq Entries(r) /\ ToSet(lb) \subseteq Entries(r) /\ ToSet(disallowed) \subseteq Entries(r)
  BY <1>5 DEF Entries
<1>9. /\ UpToLevel(ub, r, l)' \subseteq UpToLevel(ub, r, d)
      /\ UpToLevel(lb, r, l)' \subseteq UpToLevel(lb, r, d)
      /\ UpToLevel(disallowed, r, l)' \subseteq UpToLevel(disallowed, r, d)
  BY <1>7, <1>8
<1>10. /\ UpToLevel(bounds[r].ub, r, l)' = UpToLevel(ub, r, l)'
       /\ UpToLevel(bounds[r].lb, r, l)' = UpToLevel(lb, r, l)'
       /\ UpToLevel(bounds[r].disallowed, r, l)' = UpToLevel(disallowed, r, l)'
  BY <1>3, <1>5 DEF UpToLevel, ToSet
<1>11. QED BY <1>4, <1>5, <1>9, <1>10, RoomStays

-----------------------------------------------------------------------------
(* The invariant.                                                          *)

\* Only a decision opens a level.
LEMMA LevelOpened ==
  ASSUME LraI, [Next]_vars, NEW l \in Int, ~(l < decision_level), l < decision_level'
  PROVE  DecideReal \/ DecideAtom
<1> USE DEF trailVars, boundVars, watchVars, walkVars, conflictVars
<1>1. decision_level \in Nat /\ Len(trail) \in Nat
  BY TrailLists DEF LraI, PluginInv, TrailShape
<1>2. CASE Looking
  <2>1. trail' = trail BY <1>2, LookingSame DEF SameTrail
  <2>2. QED BY <2>1 DEF decision_level
<1>3. CASE VisitAssigned \/ Derive
  <2>1. \/ trail' = trail
        \/ \E a, c : PropagateConstraint(a, c)
    BY <1>3 DEF VisitAssigned, Derive
  <2>2. ASSUME NEW a, NEW c, PropagateConstraint(a, c)
        PROVE  Len(trail') = Len(trail)
    <3>1. PICK level : level = LevelOf(DOMAIN c.coef) OBVIOUS
    <3>2. PICK e : e = [var |-> a, reason |-> NoReason] OBVIOUS
    <3>3. trail' = [i \in 1..Len(trail) |-> IF i > level THEN Append(trail[i], e) ELSE trail[i]]
      BY <2>2, <3>1, <3>2 DEF PropagateConstraint, Propagate
    <3>4. QED BY <1>1, <3>3
  <2>3. QED BY <2>1, <2>2 DEF decision_level
<1>4. CASE BcpAssign BY <1>4, BcpAssignGets
<1>5. CASE BacktrackToLevel
  <2>1. PICK k \in 0..(decision_level - 1) : Cuts(k)
    BY <1>5, BacktrackCuts DEF BacktrackToLevel, LoopUnchanged
  <2>2. QED BY <1>1, <2>1 DEF Cuts
<1>6. CASE Restart
  <2>1. trail' = << << >> >> /\ decision_level > 0
    BY <1>6 DEF Restart, Clear
  <2>2. decision_level' = 0 BY <2>1 DEF decision_level
  <2>3. QED BY <1>1, <2>1, <2>2
<1>7. QED BY <1>2, <1>3, <1>4, <1>5, <1>6, NextCases

LEMMA RoomBelowNext ==
  ASSUME RoomInv, [Next]_vars
  PROVE  RoomBelow'
<1>1. LraI /\ PlacesOK /\ decision_level \in Int
  BY TrailLists DEF RoomInv, ConflictInv, ValuesInv, LraI, PluginInv, TrailShape
<1>2. ASSUME NEW r \in RealVars, NEW l \in Int, l < decision_level'
      PROVE  Room(r, l)'
  <2>1. CASE l < decision_level
    BY <1>1, <2>1, RoomStep DEF RoomInv, RoomBelow
  <2>2. CASE ~(l < decision_level)
    <3>1. DecideReal \/ DecideAtom BY <1>1, <1>2, <2>2, LevelOpened
    <3>2. pc \in {"decide", "learn"} /\ changed' = changed
      BY <3>1 DEF DecideReal, DecideAtom, LoopUnchanged
    <3>3. changed = {} /\ blame = NoBlame /\ conflicts = << >>
      BY <1>1, <3>2 DEF RoomInv, NoneChanged, PlacesOK, ConflictInv
    <3>4. Room(r, l) /\ r \notin changed'
      BY <3>2, <3>3 DEF RoomInv, RoomChecked
    <3>5. QED BY <1>1, <3>4, RoomStep
  <2>3. QED BY <2>1, <2>2
<1>3. QED BY <1>2 DEF RoomBelow

\* A variable is taken off the list of those to be checked by its check alone.
LEMMA TakenOff ==
  ASSUME [Next]_vars, NEW r, r \in changed, r \notin changed'
  PROVE  CheckBounds /\ r = Checked
<1> USE DEF trailVars, boundVars, watchVars, walkVars, conflictVars
<1>1. ASSUME NEW lit, NEW q, update(lit, q)
      PROVE  changed \subseteq changed'
  <2>1. CASE IsInequality(lit) BY <1>1, <2>1 DEF update, AddInequality
  <2>2. CASE ~IsInequality(lit) BY <1>1, <2>2 DEF update, AddBounds
  <2>3. QED BY <2>1, <2>2
<1>2. SeeAtom => changed \subseteq changed'
  <2> SUFFICES ASSUME SeeAtom
               PROVE  changed \subseteq changed'
    OBVIOUS
  <2>1. changed' = changed \/ \E lit, q : update(lit, q) BY DEF SeeAtom
  <2>2. QED BY <1>1, <2>1
<1>3. VisitUnit => changed \subseteq changed'
  <2> SUFFICES ASSUME VisitUnit
               PROVE  changed \subseteq changed'
    OBVIOUS
  <2>1. changed' = changed \/ \E lit, q : update(lit, q)
    BY DEF VisitUnit
  <2>2. QED BY <1>1, <2>1
<1>4. CheckBounds => r = Checked BY DEF CheckBounds
<1>5. StartPropagate \/ SeeReal \/ WalkDone \/ MoveWatch \/ VisitAssigned \/ ReadDone \/ DropTrivial
        => changed' = changed
  BY DEF StartPropagate, SeeReal, WalkDone, MoveWatch, VisitAssigned, ReadDone, DropTrivial
<1>6. Derive \/ Report \/ CheckDone => changed' = changed
  BY DEF Derive, Report, CheckDone
<1>7. DecideReal \/ DecideAtom \/ BcpAssign \/ BcpConflict \/ BacktrackToLevel \/ Restart
        \/ UNCHANGED vars => changed' = changed
  BY DEF DecideReal, DecideAtom, BcpAssign, BcpConflict, BacktrackToLevel, Restart, LoopUnchanged, vars
<1>8. QED BY <1>2, <1>3, <1>4, <1>5, <1>6, <1>7, NextCases DEF Looking

\* Where nothing is blamed and no conflict kept after a step that is no
\* backtrack, it was so before.
LEMMA NoneBefore ==
  ASSUME ConflictInv, [Next]_vars, ~BacktrackToLevel, ~Restart, blame' = NoBlame, conflicts' = << >>
  PROVE  /\ blame = NoBlame /\ conflicts = << >>
         /\ CheckBounds => ~BoundConflict /\ ~InequalityConflict
<1> USE DEF trailVars, boundVars, watchVars, walkVars, conflictVars
<1>1. NoBlame.lits = {} BY DEF NoBlame
<1>2. conflicts \in Seq(SUBSET Int) BY DEF ConflictInv
<1>3. ~Report
  <2> SUFFICES ASSUME Report
               PROVE  FALSE
    OBVIOUS
  <2>1. conflicts' = Append(conflicts, blame.lits) /\ blame # NoBlame
    BY DEF Report
  <2>2. Len(conflicts') = Len(conflicts) + 1 /\ Len(conflicts) \in Nat
    BY <1>2, <2>1
  <2>3. QED BY <2>2
<1>4. blame # NoBlame => \E lit : lit \in blame.lits
  BY DEF ConflictInv, Blames
<1>5. ~DropTrivial
  <2> SUFFICES ASSUME DropTrivial
               PROVE  FALSE
    OBVIOUS
  <2>1. blame' = [blame EXCEPT !.polys = Tail(@)] /\ blame.polys # << >>
    BY DEF DropTrivial, explaining
  <2>2. blame # NoBlame BY <2>1 DEF NoBlame
  <2>3. PICK P, L : blame \in [lits : L, polys : Seq(P)]
    BY DEF ConflictInv, ValuesInv, LraI, PluginInv, BlameKnown
  <2>4. blame'.lits = blame.lits
    <3>1. PICK b : b = blame OBVIOUS
    <3>2. b \in [lits : L, polys : Seq(P)] BY <2>3, <3>1
    <3>3. [b EXCEPT !.polys = Tail(@)].lits = b.lits BY <3>2
    <3>4. QED BY <2>1, <3>1, <3>3
  <2>5. QED BY <1>1, <1>4, <2>2, <2>4
<1>6. ~Derive BY <1>1 DEF Derive
<1>7. CheckBounds => blame = NoBlame BY DEF CheckBounds, checking
<1>8. CheckBounds => conflicts' = conflicts BY DEF CheckBounds
<1>9. StartPropagate \/ SeeAtom \/ SeeReal \/ WalkDone \/ MoveWatch \/ VisitUnit \/ VisitAssigned
        \/ ReadDone \/ CheckDone \/ DecideReal \/ DecideAtom \/ BcpAssign \/ BcpConflict
        \/ UNCHANGED vars => blame' = blame /\ conflicts' = conflicts
  BY DEF StartPropagate, SeeAtom, SeeReal, WalkDone, MoveWatch, VisitUnit, VisitAssigned, ReadDone,
         CheckDone, DecideReal, DecideAtom, BcpAssign, BcpConflict, LoopUnchanged, vars
<1>10. CheckBounds => ~BoundConflict /\ ~InequalityConflict
  <2>1. BoundBlame.lits # {} /\ InequalityBlame.lits # {}
    BY DEF BoundBlame, InequalityBlame
  <2>2. QED BY <1>1, <2>1 DEF CheckBounds
<1>11. CheckBounds \/ (blame' = blame /\ conflicts' = conflicts)
  BY <1>3, <1>5, <1>6, <1>9, NextCases DEF Looking
<1>12. QED
  <2>1. CASE CheckBounds BY <1>7, <1>8, <1>10, <2>1
  <2>2. CASE ~CheckBounds BY <1>11, <2>2
  <2>3. QED BY <2>1, <2>2

LEMMA RoomCheckedNext ==
  ASSUME RoomInv, [Next]_vars
  PROVE  RoomChecked'
<1>1. ConflictInv /\ LraI BY DEF RoomInv, ConflictInv, ValuesInv
<1>2. LraI' BY <1>1, LraNext
<1>3. ASSUME blame' = NoBlame, conflicts' = << >>, NEW r \in RealVars \ changed', NEW l \in Int
      PROVE  Room(r, l)'
  <2>1. CASE BacktrackToLevel \/ Restart
    BY <1>1, <1>2, <1>3, <2>1, RoomBack DEF RoomInv
  <2>2. CASE ~BacktrackToLevel /\ ~Restart
    <3>1. /\ blame = NoBlame /\ conflicts = << >>
          /\ CheckBounds => ~BoundConflict /\ ~InequalityConflict
      BY <1>1, <1>3, <2>2, NoneBefore
    <3>2. CASE r \notin changed
      <4>1. Room(r, l) BY <1>3, <3>1, <3>2 DEF RoomInv, RoomChecked
      <4>2. QED BY <1>1, <1>3, <4>1, RoomStep
    <3>3. CASE r \in changed
      <4>1. CheckBounds /\ r = Checked BY <1>3, <3>3, TakenOff
      <4>2. Room(r, l) BY <1>1, <3>1, <3>3, <4>1, NoConflictRoom
      <4>3. QED BY <1>1, <1>3, <4>2, RoomStep
    <3>4. QED BY <3>2, <3>3
  <2>3. QED BY <2>1, <2>2
<1>4. NoBlame' = NoBlame BY DEF NoBlame
<1>5. QED BY <1>3, <1>4 DEF RoomChecked

LEMMA NoneChangedNext ==
  ASSUME NoneChanged, [Next]_vars
  PROVE  NoneChanged'
<1> USE DEF trailVars, boundVars, watchVars, walkVars, conflictVars, NoneChanged
<1>1. StartPropagate \/ SeeAtom \/ SeeReal \/ WalkDone \/ MoveWatch \/ VisitUnit \/ VisitAssigned \/ ReadDone
        => pc' \in {"read", "check"}
  BY DEF StartPropagate, SeeAtom, SeeReal, WalkDone, MoveWatch, VisitUnit, VisitAssigned, ReadDone,
         AtWatch, EndOfWalk, walking
<1>2. CheckBounds \/ DropTrivial \/ Derive \/ Report => pc' = "check"
  BY DEF CheckBounds, DropTrivial, Derive, Report, checking, explaining
<1>3. CheckDone => changed' = {} BY DEF CheckDone
<1>4. DecideReal \/ DecideAtom \/ BcpAssign \/ BcpConflict \/ BacktrackToLevel \/ Restart => changed' = {}
  BY DEF DecideReal, DecideAtom, BcpAssign, BcpConflict, BacktrackToLevel, Restart, LoopUnchanged
<1>5. UNCHANGED vars => changed' = changed /\ pc' = pc BY DEF vars
<1>6. QED BY <1>1, <1>2, <1>3, <1>4, <1>5, NextCases DEF Looking

LEMMA RoomInvNext ==
  ASSUME RoomInv, [Next]_vars
  PROVE  RoomInv'
BY ConflictInvNext, RoomBelowNext, RoomCheckedNext, NoneChangedNext DEF RoomInv

LEMMA RoomInvInit ==
  ASSUME Init
  PROVE  RoomInv
<1>1. bounds = [r \in RealVars |-> [ub |-> << >>, lb |-> << >>, disallowed |-> << >>]] /\ changed = {}
  BY DEF Init, BoundsInit
<1>2. ASSUME NEW r \in RealVars, NEW l
      PROVE  Room(r, l)
  <2>1. bounds[r].ub = << >> BY <1>1
  <2>2. ToSet(bounds[r].ub) = {} BY <2>1 DEF ToSet
  <2>3. UpToLevel(bounds[r].ub, r, l) = {} BY <2>2 DEF UpToLevel
  <2>4. QED BY <2>3 DEF Room
<1>3. QED BY <1>1, <1>2, ConflictInvInit DEF RoomInv, RoomBelow, RoomChecked, NoneChanged

-----------------------------------------------------------------------------
(* The search for a value.                                                 *)

LEMMA AbsIs ==
  ASSUME NEW x \in Int
  PROVE  AbsOf(x) \in Nat /\ (x >= 0 => AbsOf(x) = x) /\ (x < 0 => AbsOf(x) = -x)
BY DEF AbsOf

LEMMA Halved ==
  ASSUME NEW k \in Int
  PROVE  \E a \in Int : k \div 2 = a /\ (k % 2 = 1 => k = 2 * a + 1) /\ (k % 2 # 1 => k = 2 * a)
OBVIOUS

LEMMA DoubleHalved ==
  ASSUME NEW a \in Int
  PROVE  /\ (2 * a + 1) % 2 = 1 /\ (2 * a + 1) \div 2 = a
         /\ (2 * a) % 2 = 0 /\ (2 * a) \div 2 = a
OBVIOUS

\* A number and its negation, closest to zero first.
LEMMA AroundZeroIs ==
  ASSUME NEW length \in Int, NEW list, list = AroundZero(length)
  PROVE  /\ list \in Seq(Int)
         /\ \A x \in Int : AbsOf(x) <= length => \E k \in DOMAIN list : list[k] = x
         /\ \A k \in DOMAIN list : \A x \in Int : AbsOf(x) < AbsOf(list[k]) =>
              \E j \in DOMAIN list : j < k /\ list[j] = x
<1> DEFINE n == 2 * length + 2
           At(k) == IF k % 2 = 1 THEN k \div 2 ELSE 1 - k \div 2
           Place(x) == IF x >= 0 THEN 2 * x + 1 ELSE 2 - 2 * x
<1>1. list = [k \in 1..n |-> At(k)] BY DEF AroundZero
<1>2. \A k \in Int : At(k) \in Int BY Halved
<1>3. \A x \in Int : Place(x) \in Int /\ Place(x) >= 1 /\ At(Place(x)) = x
  <2>1. TAKE x \in Int
  <2>2. CASE x >= 0 BY <2>2, DoubleHalved
  <2>3. CASE x < 0
    <3>1. 1 - x \in Int /\ 2 - 2 * x = 2 * (1 - x) /\ 1 - (1 - x) = x
      OBVIOUS
    <3>2. QED BY <2>3, <3>1, DoubleHalved
  <2>4. QED BY <2>2, <2>3
<1>4. \A x \in Int : AbsOf(x) <= length => Place(x) <= n BY AbsIs
<1>5. \A k \in Int : k >= 1 => \A x \in Int : AbsOf(x) < AbsOf(At(k)) => Place(x) < k
  <2>1. TAKE k \in Int
  <2>2. HAVE k >= 1
  <2>3. TAKE x \in Int
  <2>4. HAVE AbsOf(x) < AbsOf(At(k))
  <2>5. PICK a \in Int : k \div 2 = a /\ (k % 2 = 1 => k = 2 * a + 1) /\ (k % 2 # 1 => k = 2 * a)
    BY Halved
  <2>6. CASE k % 2 = 1
    <3>1. At(k) = a /\ k = 2 * a + 1 /\ a >= 0 BY <2>2, <2>5, <2>6
    <3>2. AbsOf(x) < a BY <2>4, <3>1, AbsIs
    <3>3. QED BY <3>1, <3>2, AbsIs
  <2>7. CASE k % 2 # 1
    <3>1. At(k) = 1 - a /\ k = 2 * a /\ a >= 1 BY <2>2, <2>5, <2>7
    <3>2. AbsOf(1 - a) = a - 1 BY <3>1 DEF AbsOf
    <3>3. AbsOf(x) < a - 1 BY <2>4, <3>1, <3>2
    <3>4. QED BY <3>1, <3>3, AbsIs
  <2>8. QED BY <2>6, <2>7
<1> HIDE DEF At, Place
<1>6. list \in Seq(Int) /\ DOMAIN list = 1..n /\ \A k \in 1..n : list[k] = At(k)
  <2>1. n \in Int OBVIOUS
  <2> HIDE DEF n
  <2>2. list \in [1..n -> Int] BY <1>1, <1>2, <2>1
  <2>3. PICK m \in Nat : 1..n = 1..m
    <3>1. CASE n >= 0 BY <2>1, <3>1
    <3>2. CASE n < 0
      <4>1. 1..n = {} /\ 1..0 = {} BY <2>1, <3>2
      <4>2. QED BY <4>1
    <3>3. QED BY <2>1, <3>1, <3>2
  <2>4. list \in [1..m -> Int] BY <2>2, <2>3
  <2>5. QED BY <1>1, <2>4, FunctionIsSeq
<1>7. n \in Int OBVIOUS
<1> HIDE DEF n
<1>8. \A x \in Int : AbsOf(x) <= length => \E k \in DOMAIN list : list[k] = x
  BY <1>3, <1>4, <1>6, <1>7
<1>9. \A k \in DOMAIN list : \A x \in Int : AbsOf(x) < AbsOf(list[k]) =>
        \E j \in DOMAIN list : j < k /\ list[j] = x
  <2>1. TAKE k \in DOMAIN list
  <2>2. TAKE x \in Int
  <2>3. HAVE AbsOf(x) < AbsOf(list[k])
  <2>4. k \in Int /\ k >= 1 /\ k <= n /\ list[k] = At(k) BY <1>6, <1>7
  <2>5. Place(x) < k /\ Place(x) \in 1..n
    BY <1>3, <1>5, <1>7, <2>3, <2>4
  <2>6. QED BY <1>3, <1>6, <2>5
<1>10. QED BY <1>6, <1>8, <1>9

\* A list counts from a number on.
Counts(list, first, step, turns) ==
  /\ list \in Seq(Int) /\ DOMAIN list = 1..turns
  /\ \A k \in 1..turns : list[k] = first + step * (k - 1)

LEMMA CountingIs ==
  ASSUME NEW first \in Int, NEW step \in {1, -1}, NEW turns \in Nat, NEW list,
         list = Counting(first, step, turns)
  PROVE  Counts(list, first, step, turns)
<1>1. list = [k \in 1..turns |-> first + step * (k - 1)] BY DEF Counting
<1>2. list \in [1..turns -> Int] BY <1>1
<1>3. list \in Seq(Int) BY <1>2, FunctionIsSeq
<1>4. QED BY <1>1, <1>3 DEF Counts

\* More numbers in a row than are listed: one is not.
LEMMA OneNotListed ==
  ASSUME NEW list \in Seq(Implieds), NEW first \in Int, NEW step \in {1, -1}
  PROVE  \E i \in 0..Len(list) : \A e \in ToSet(list) : e.value # first + step * i
<1> DEFINE n == Len(list)
           At(i) == first + step * i
<1>1. SUFFICES ASSUME \A i \in 0..n : \E e \in ToSet(list) : e.value = At(i)
               PROVE  FALSE
  OBVIOUS
<1>2. n \in Nat OBVIOUS
<1>3. \A i, j \in 0..n : At(i) = At(j) => i = j OBVIOUS
<1> DEFINE f == [i \in 0..n |-> CHOOSE k \in 1..n : list[k].value = At(i)]
<1>4. \A i \in 0..n : f[i] \in 1..n /\ list[f[i]].value = At(i)
  <2>1. TAKE i \in 0..n
  <2>2. PICK e \in ToSet(list) : e.value = At(i) BY <1>1
  <2>3. \E k \in 1..n : list[k].value = At(i) BY <2>2 DEF ToSet
  <2>4. QED BY <2>3
<1>5. IsFiniteSet(0..n) /\ Cardinality(0..n) = n + 1 /\ IsFiniteSet(1..n) /\ Cardinality(1..n) = n
  <2>1. PICK m \in Nat : m = n BY <1>2
  <2>2. \A a, b \in Int : IsFiniteSet(a..b) /\ Cardinality(a..b) = IF a > b THEN 0 ELSE b - a + 1
    BY FS_Interval
  <2>3. /\ IsFiniteSet(0..m) /\ Cardinality(0..m) = IF 0 > m THEN 0 ELSE m - 0 + 1
        /\ IsFiniteSet(1..m) /\ Cardinality(1..m) = IF 1 > m THEN 0 ELSE m - 1 + 1
    BY <2>2
  <2>4. Cardinality(0..m) = m + 1 /\ Cardinality(1..m) = m BY <2>3
  <2>5. QED BY <2>1, <2>3, <2>4
<1>6. f \in [0..n -> 1..n] BY <1>4
<1> HIDE DEF f, n, At
<1>7. PICK i, j \in 0..n : i # j /\ f[i] = f[j]
  <2>1. Cardinality(1..n) < Cardinality(0..n) BY <1>2, <1>5
  <2>2. QED BY <1>5, <1>6, <2>1, FS_PigeonHole
<1>8. QED BY <1>3, <1>4, <1>7

\* Whatever allowed number is closer to zero comes before.
ClosestFirst(list, r) ==
  \A k \in DOMAIN list : \A x \in Int :
    AbsOf(x) < AbsOf(list[k]) /\ is_allowed(r, x) => \E j \in DOMAIN list : j < k /\ list[j] = x

\* The first of the numbers tried that is allowed is the closest one.
LEMMA FoundIs ==
  ASSUME NEW r, NEW tried \in Seq(Int), tried = Tried(r), ClosestFirst(tried, r), NEW found, found = FindInteger(r)
  PROVE  /\ found # << >> => \A x \in -(AbsOf(Head(found)) - 1)..(AbsOf(Head(found)) - 1) : ~is_allowed(r, x)
         /\ found = << >> => \A k \in DOMAIN tried : ~is_allowed(r, tried[k])
<1> DEFINE allowed == {k \in DOMAIN tried : is_allowed(r, tried[k])}
<1>1. found = IF allowed = {} THEN << >> ELSE <<tried[Min(allowed)]>>
  BY DEF FindInteger
<1>2. ASSUME found = << >>, NEW k \in DOMAIN tried
      PROVE  ~is_allowed(r, tried[k])
  <2>1. allowed = {} BY <1>1, <1>2
  <2>2. QED BY <2>1
<1>3. ASSUME found # << >>
      PROVE  \A x \in -(AbsOf(Head(found)) - 1)..(AbsOf(Head(found)) - 1) : ~is_allowed(r, x)
  <2>1. allowed # {} /\ allowed \in SUBSET Nat BY <1>1, <1>3
  <2>2. PICK m \in allowed : m = Min(allowed) /\ \A j \in allowed : m <= j
    <3>1. PICK k \in allowed : \A j \in allowed : k <= j
      BY <2>1, LeastNatural
    <3>2. PICK m : m = Min(allowed) OBVIOUS
    <3>3. m \in allowed /\ \A j \in allowed : m <= j
      BY <3>1, <3>2 DEF Min
    <3>4. QED BY <3>2, <3>3
  <2>3. found = <<tried[m]>> BY <1>1, <2>1, <2>2
  <2>4. PICK h \in Int : h = tried[m] /\ Head(found) = h
    <3>1. tried[m] \in Int BY <2>2
    <3>2. Head(<<tried[m]>>) = tried[m] OBVIOUS
    <3>3. QED BY <2>3, <3>1, <3>2
  <2>5. ASSUME NEW x \in -(AbsOf(h) - 1)..(AbsOf(h) - 1), is_allowed(r, x)
        PROVE  FALSE
    <3>1. x \in Int /\ AbsOf(x) < AbsOf(h) BY AbsIs
    <3>2. PICK j \in DOMAIN tried : j < m /\ tried[j] = x
      BY <2>2, <2>4, <2>5, <3>1 DEF ClosestFirst
    <3>3. j \in allowed BY <2>5, <3>2
    <3>4. m \in Nat /\ j \in Nat BY <2>1, <3>3
    <3>5. m <= j BY <2>2, <3>3
    <3>6. QED BY <3>2, <3>4, <3>5
  <2>6. QED BY <2>4, <2>5
<1>4. QED BY <1>2, <1>3

NotListed(r, x) == \A e \in ToSet(bounds[r].disallowed) : e.value # x

\* What is allowed lies between the bounds; what lies between and is not
\* listed is allowed.
LEMMA AllowedIs ==
  ASSUME LraI, NEW r \in RealVars, NEW low, low = Last(lower_bound(r)).value,
         NEW high, high = Last(upper_bound(r)).value
  PROVE  /\ lower_bound(r) # << >> => low \in Int /\ \A x \in Int : is_allowed(r, x) => low <= x
         /\ upper_bound(r) # << >> => high \in Int /\ \A x \in Int : is_allowed(r, x) => x <= high
         /\ \A x \in Int :
              /\ NotListed(r, x)
              /\ lower_bound(r) # << >> => low < x
              /\ upper_bound(r) # << >> => x < high
              => is_allowed(r, x)
<1>1. PICK I : I = Implieds OBVIOUS
<1>2. bounds[r].lb \in Seq(I) /\ bounds[r].ub \in Seq(I)
  BY <1>1 DEF LraI, StacksOK
<1>3. /\ lower_bound(r) # << >> => LiveIn(Last(lower_bound(r)), bounds[r].lb, r)
      /\ upper_bound(r) # << >> => LiveIn(Last(upper_bound(r)), bounds[r].ub, r)
  BY ReadLive DEF LraI
<1>4. \A e : LiveIn(e, bounds[r].lb, r) \/ LiveIn(e, bounds[r].ub, r) => e \in I
  BY <1>2 DEF LiveIn, ToSet
<1>5. \A e \in I : e.value \in Int BY <1>1 DEF Implieds
<1>6. /\ lower_bound(r) # << >> => low \in Int
      /\ upper_bound(r) # << >> => high \in Int
  BY <1>3, <1>4, <1>5
<1>7. ASSUME NEW x \in Int, is_allowed(r, x)
      PROVE  /\ lower_bound(r) # << >> => low <= x
             /\ upper_bound(r) # << >> => x <= high
  BY <1>6, <1>7 DEF is_allowed, AboveLower, BelowUpper
<1>8. ASSUME NEW x \in Int, NotListed(r, x), lower_bound(r) # << >> => low < x,
             upper_bound(r) # << >> => x < high
      PROVE  is_allowed(r, x)
  <2>1. \A e \in ToSet(bounds[r].disallowed) : e.value = x => IsObsolete(e, r)
    BY <1>8 DEF NotListed
  <2>2. AboveLower(r, x) BY <1>8 DEF AboveLower
  <2>3. BelowUpper(r, x) BY <1>8 DEF BelowUpper
  <2>4. QED BY <2>1, <2>2, <2>3 DEF is_allowed
<1>9. QED BY <1>6, <1>7, <1>8

\* Between the bounds that are read there is room, or their common value is
\* allowed.
LEMMA RoomBetween ==
  ASSUME RoomInv, pc = "decide", NEW r \in RealVars, NEW low, low = Last(lower_bound(r)).value,
         NEW high, high = Last(upper_bound(r)).value, lower_bound(r) # << >>, upper_bound(r) # << >>
  PROVE  low < high \/ (low = high /\ is_allowed(r, low))
<1>1. LraI /\ PlacesOK /\ decision_level \in Int
  BY TrailLists DEF RoomInv, ConflictInv, ValuesInv, LraI, PluginInv, TrailShape
<1>2. PICK l : l = decision_level OBVIOUS
<1>3. Room(r, l)
  <2>1. changed = {} /\ blame = NoBlame /\ conflicts = << >>
    BY <1>1 DEF RoomInv, NoneChanged, PlacesOK, ConflictInv
  <2>2. QED BY <1>1, <1>2, <2>1 DEF RoomInv, RoomChecked
<1>4. ASSUME NEW list, ToSet(list) \subseteq Entries(r), NEW e \in ToSet(list), ~IsObsolete(e, r)
      PROVE  e \in UpToLevel(list, r, l)
  <2>1. EntryOK(e, r) BY <1>1, <1>4, LiveEntry
  <2>2. \A m \in Members(e.lit, r) : var_level[m] \in 0..l
    BY <1>1, <1>2, <2>1, MembersDefined
  <2>3. \A m \in Members(e.lit, r) : var_level[m] <= l
    BY <1>1, <1>2, <2>2
  <2>4. QED BY <1>4, <2>3 DEF UpToLevel
<1>5. PICK L, U : L = Last(lower_bound(r)) /\ U = Last(upper_bound(r))
  OBVIOUS
<1>6. LiveIn(L, bounds[r].lb, r) /\ LiveIn(U, bounds[r].ub, r)
  BY <1>1, <1>5, ReadLive DEF LraI
<1>7. L \in UpToLevel(bounds[r].lb, r, l) /\ U \in UpToLevel(bounds[r].ub, r, l)
  BY <1>4, <1>6 DEF LiveIn, Entries
<1>8. \/ L.value < U.value
      \/ /\ L.value = U.value /\ ~IsStrict(L.lit) /\ ~IsStrict(U.lit)
         /\ \A d \in UpToLevel(bounds[r].disallowed, r, l) : d.value # L.value
  BY <1>3, <1>7 DEF Room
<1>9. ASSUME L.value = U.value, ~IsStrict(L.lit), ~IsStrict(U.lit),
             \A d \in UpToLevel(bounds[r].disallowed, r, l) : d.value # L.value
      PROVE  is_allowed(r, low)
  <2>1. \A e \in ToSet(bounds[r].disallowed) : e.value = low => IsObsolete(e, r)
    <3>1. ASSUME NEW e \in ToSet(bounds[r].disallowed), e.value = low, ~IsObsolete(e, r)
          PROVE  FALSE
      <4>1. e \in UpToLevel(bounds[r].disallowed, r, l)
        BY <1>4, <3>1 DEF Entries
      <4>2. QED BY <1>5, <1>9, <3>1, <4>1
    <3>2. QED BY <3>1
  <2>2. AboveLower(r, low) BY <1>5, <1>9 DEF AboveLower
  <2>3. BelowUpper(r, low) BY <1>5, <1>9 DEF BelowUpper
  <2>4. QED BY <2>1, <2>2, <2>3 DEF is_allowed
<1>10. QED BY <1>5, <1>8, <1>9

-----------------------------------------------------------------------------
(* What is tried.                                                          *)

LEMMA Joined ==
  ASSUME NEW s \in Seq(Int), NEW t \in Seq(Int), NEW m \in Nat, NEW n \in Nat, m = Len(s), n = Len(t),
         NEW list, list = s \o t
  PROVE  /\ DOMAIN s = 1..m /\ DOMAIN t = 1..n
         /\ list \in Seq(Int) /\ DOMAIN list = 1..(m + n)
         /\ \A k \in 1..m : k \in DOMAIN list /\ list[k] = s[k]
         /\ \A k \in 1..n : m + k \in DOMAIN list /\ list[m + k] = t[k]
<1>1. DOMAIN s = 1..m /\ DOMAIN t = 1..n OBVIOUS
<1>2. list \in Seq(Int) /\ Len(list) = m + n OBVIOUS
<1>3. DOMAIN list = 1..(m + n) BY <1>2
<1>4. ASSUME NEW k \in 1..m
      PROVE  k \in DOMAIN list /\ list[k] = s[k]
  BY <1>3
<1>5. ASSUME NEW k \in 1..n
      PROVE  m + k \in DOMAIN list /\ list[m + k] = t[k]
  <2>1. m + k \in 1..(m + n) /\ ~(m + k <= m) /\ (m + k) - m = k OBVIOUS
  <2>2. m + k \in DOMAIN list BY <1>3, <2>1
  <2>3. QED BY <2>1, <2>2
<1>6. QED BY <1>1, <1>2, <1>3, <1>4, <1>5

\* Beyond a distance from zero, whatever allowed number is closer comes before.
ClosestBeyond(list, length, r) ==
  \A k \in DOMAIN list : \A x \in Int :
    AbsOf(x) < AbsOf(list[k]) /\ is_allowed(r, x) /\ ~(AbsOf(x) <= length)
      => \E j \in DOMAIN list : j < k /\ list[j] = x

\* All numbers of a list are in another one.
Includes(list, part) == \A k \in DOMAIN part : \E j \in DOMAIN list : list[j] = part[k]

\* The numbers around zero and others beyond them.
LEMMA BeyondZero ==
  ASSUME NEW length \in Int, NEW around, around = AroundZero(length), NEW rest \in Seq(Int), NEW r,
         ClosestBeyond(rest, length, r), NEW list, list = around \o rest
  PROVE  list \in Seq(Int) /\ ClosestFirst(list, r) /\ Includes(list, rest)
<1>1. /\ around \in Seq(Int)
      /\ \A x \in Int : AbsOf(x) <= length => \E k \in DOMAIN around : around[k] = x
      /\ \A k \in DOMAIN around : \A x \in Int : AbsOf(x) < AbsOf(around[k]) =>
           \E j \in DOMAIN around : j < k /\ around[j] = x
  <2>1. around \in Seq(Int) BY AroundZeroIs
  <2>2. \A x \in Int : AbsOf(x) <= length => \E k \in DOMAIN around : around[k] = x
    BY AroundZeroIs
  <2>3. \A k \in DOMAIN around : \A x \in Int : AbsOf(x) < AbsOf(around[k]) =>
          \E j \in DOMAIN around : j < k /\ around[j] = x
    BY AroundZeroIs
  <2>4. QED BY <2>1, <2>2, <2>3
<1>2. PICK m, n \in Nat : m = Len(around) /\ n = Len(rest) BY <1>1
<1>3. /\ DOMAIN around = 1..m /\ DOMAIN rest = 1..n
      /\ list \in Seq(Int) /\ DOMAIN list = 1..(m + n)
      /\ \A k \in 1..m : k \in DOMAIN list /\ list[k] = around[k]
      /\ \A k \in 1..n : m + k \in DOMAIN list /\ list[m + k] = rest[k]
  <2>1. around \in Seq(Int) /\ rest \in Seq(Int) BY <1>1
  <2>2. m \in Nat /\ n \in Nat OBVIOUS
  <2>3. QED BY <1>2, <2>1, <2>2, Joined
<1>5. ASSUME NEW k \in DOMAIN list, NEW x \in Int, AbsOf(x) < AbsOf(list[k]), is_allowed(r, x)
      PROVE  \E j \in DOMAIN list : j < k /\ list[j] = x
  <2>1. CASE k <= m
    <3>1. k \in 1..m /\ AbsOf(x) < AbsOf(around[k]) BY <1>3, <1>5, <2>1
    <3>2. PICK j \in 1..m : j < k /\ around[j] = x BY <1>1, <1>3, <3>1
    <3>3. j \in DOMAIN list /\ list[j] = x BY <1>3, <3>2
    <3>4. QED BY <3>2, <3>3
  <2>2. CASE ~(k <= m)
    <3>1. PICK i \in 1..n : k = m + i
      <4>1. k \in 1..(m + n) BY <1>3
      <4>2. k - m \in 1..n /\ k = m + (k - m) BY <2>2, <4>1
      <4>3. QED BY <4>2
    <3>2. AbsOf(x) < AbsOf(rest[i]) BY <1>3, <1>5, <3>1
    <3>3. CASE AbsOf(x) <= length
      <4>1. PICK j \in 1..m : around[j] = x BY <1>1, <1>3, <3>3
      <4>2. j \in DOMAIN list /\ list[j] = x /\ j < k
        BY <1>3, <3>1, <4>1
      <4>3. QED BY <4>2
    <3>4. CASE ~(AbsOf(x) <= length)
      <4>1. PICK j \in 1..n : j < i /\ rest[j] = x
        BY <1>3, <1>5, <3>2, <3>4 DEF ClosestBeyond
      <4>2. m + j \in DOMAIN list /\ list[m + j] = x /\ m + j < k
        BY <1>3, <3>1, <4>1
      <4>3. QED BY <4>2
    <3>5. QED BY <3>3, <3>4
  <2>3. QED BY <2>1, <2>2
<1>6. QED BY <1>3, <1>5 DEF ClosestFirst, Includes

Tries(r) == \E k \in DOMAIN Tried(r) : is_allowed(r, Tried(r)[k])

\* Enough turns of one of the loops without a last value reach an allowed one.
LEMMA EnoughTurns ==
  ASSUME LraI, NEW r \in RealVars, NEW first \in Int, NEW step \in {1, -1}
  PROVE  \E i \in 0..Len(bounds[r].disallowed) : NotListed(r, first + step * i)
<1>1. PICK list : list = bounds[r].disallowed OBVIOUS
<1>2. list \in Seq(Implieds) BY <1>1 DEF LraI, StacksOK
<1>3. PICK i \in 0..Len(list) : \A e \in ToSet(list) : e.value # first + step * i
  BY <1>2, OneNotListed
<1>4. QED BY <1>1, <1>3 DEF NotListed

LEMMA TurnsAre ==
  ASSUME LraI, NEW r \in RealVars
  PROVE  \E n \in Nat : n = Len(bounds[r].disallowed) /\ Turns(r) = n + 2
<1>1. bounds[r].disallowed \in Seq(Implieds) BY DEF LraI, StacksOK
<1>2. QED BY <1>1 DEF Turns

LEMMA TriedUnbounded ==
  ASSUME LraI, NEW r \in RealVars, lower_bound(r) = << >>, upper_bound(r) = << >>
  PROVE  Tried(r) \in Seq(Int) /\ ClosestFirst(Tried(r), r) /\ Tries(r)
<1>1. PICK n \in Nat : n = Len(bounds[r].disallowed) /\ Turns(r) = n + 2
  BY TurnsAre
<1>2. PICK list : list = AroundZero(n + 2) OBVIOUS
<1>3. Tried(r) = list BY <1>1, <1>2 DEF Tried
<1>4. /\ list \in Seq(Int)
      /\ \A x \in Int : AbsOf(x) <= n + 2 => \E k \in DOMAIN list : list[k] = x
      /\ \A k \in DOMAIN list : \A x \in Int : AbsOf(x) < AbsOf(list[k]) =>
           \E j \in DOMAIN list : j < k /\ list[j] = x
  <2>1. n + 2 \in Int OBVIOUS
  <2>2. QED BY <1>2, <2>1, AroundZeroIs
<1>5. PICK i \in 0..n : NotListed(r, 0 + 1 * i)
  <2>1. \E i \in 0..Len(bounds[r].disallowed) : NotListed(r, 0 + 1 * i)
    <3>1. 0 \in Int /\ 1 \in {1, -1} OBVIOUS
    <3>2. QED BY <3>1, EnoughTurns
  <2>2. QED BY <1>1, <2>1
<1>6. NotListed(r, i) /\ i \in Int /\ AbsOf(i) <= n + 2
  <2>1. 0 + 1 * i = i OBVIOUS
  <2>2. QED BY <1>5, <2>1 DEF AbsOf
<1>7. is_allowed(r, i) BY <1>6, AllowedIs
<1>8. QED BY <1>3, <1>4, <1>6, <1>7 DEF ClosestFirst, Tries

\* Seen in one direction, no number before b is allowed.
AllowedFrom(r, step, b) == \A x \in Int : is_allowed(r, x) => step * b <= step * x

\* Seen in one direction, only a listed number after b is not allowed.
FreeAfter(r, step, b) == \A x \in Int : NotListed(r, x) /\ step * b < step * x => is_allowed(r, x)

Reaches(list, S) == \A x \in S : \E k \in DOMAIN list : list[k] = x

ReachesAllowed(list, r) == \E k \in DOMAIN list : is_allowed(r, list[k])

LEMMA StepsOn ==
  ASSUME NEW step \in {1, -1}, NEW a \in Int, NEW i \in Int, NEW x, x = (step * a + step) + step * i
  PROVE  /\ step * x = a + 1 + i
         /\ \A b \in Int : (a = b \/ a = -b) /\ a >= 0 => step * b <= a
<1>1. CASE step = 1 BY <1>1
<1>2. CASE step = -1 BY <1>2
<1>3. QED BY <1>1, <1>2

\* One bound: around zero as far as it goes, and on from there.
LEMMA TriedOneSided ==
  ASSUME LraI, NEW r \in RealVars, NEW b \in Int, NEW step \in {1, -1},
         AllowedFrom(r, step, b), FreeAfter(r, step, b),
         NEW length \in Int, length = -(step * b), NEW first \in Int, first = step * AbsOf(b),
         NEW list, list = AroundZero(length) \o Counting(first, step, Turns(r))
  PROVE  list \in Seq(Int) /\ ClosestFirst(list, r) /\ ReachesAllowed(list, r)
<1>1. PICK n \in Nat : n = Len(bounds[r].disallowed) /\ Turns(r) = n + 2
  BY TurnsAre
<1>2. PICK a \in Nat : a = AbsOf(b) /\ (a = b \/ a = -b)
  BY AbsIs DEF AbsOf
<1>3. first = step * a BY <1>2
<1>4. PICK rest : rest = Counting(first, step, n + 2) OBVIOUS
<1>5. /\ rest \in Seq(Int) /\ DOMAIN rest = 1..(n + 2)
      /\ \A k \in 1..(n + 2) : rest[k] = first + step * (k - 1)
  <2>1. PICK turns \in Nat : turns = n + 2 OBVIOUS
  <2>2. rest = Counting(first, step, turns) BY <1>4, <2>1
  <2>3. Counts(rest, first, step, turns) BY <2>2, CountingIs
  <2>4. QED BY <2>1, <2>3 DEF Counts
<1>7. PICK around : around = AroundZero(length) OBVIOUS
<1>8. list = around \o rest BY <1>1, <1>4, <1>7
<1>9. ASSUME NEW k \in 1..(n + 2), NEW x \in Int, AbsOf(x) < AbsOf(rest[k]), is_allowed(r, x),
             ~(AbsOf(x) <= length)
      PROVE  \E j \in 1..(n + 2) : j < k /\ rest[j] = x
  <2>1. step * b <= step * x BY <1>9 DEF AllowedFrom
  <2>2. AbsOf(rest[k]) = a + (k - 1)
    <3>1. rest[k] = step * a + step * (k - 1) BY <1>3, <1>5
    <3>2. CASE step = 1 BY <3>1, <3>2 DEF AbsOf
    <3>3. CASE step = -1 BY <3>1, <3>3 DEF AbsOf
    <3>4. QED BY <3>2, <3>3
  <2>3. AbsOf(x) = step * x /\ step * x >= a
    <3>1. CASE step = 1 BY <1>2, <1>9, <2>1, <3>1 DEF AbsOf
    <3>2. CASE step = -1 BY <1>2, <1>9, <2>1, <3>2 DEF AbsOf
    <3>3. QED BY <3>1, <3>2
  <2>4. PICK j \in Int : j = step * x - a + 1 OBVIOUS
  <2>5. j \in 1..(n + 2) /\ j < k BY <1>9, <2>2, <2>3, <2>4
  <2>6. first + step * (j - 1) = x
    <3>1. CASE step = 1 BY <1>3, <2>4, <3>1
    <3>2. CASE step = -1 BY <1>3, <2>4, <3>2
    <3>3. QED BY <3>1, <3>2
  <2>7. QED BY <1>5, <2>5, <2>6
<1>10. list \in Seq(Int) /\ ClosestFirst(list, r) /\ Includes(list, rest)
  <2>1. ClosestBeyond(rest, length, r) BY <1>5, <1>9 DEF ClosestBeyond
  <2>2. rest \in Seq(Int) BY <1>5
  <2>3. QED BY <1>7, <1>8, <2>1, <2>2, BeyondZero
<1>11. PICK i \in 0..n : NotListed(r, (first + step) + step * i)
  <2>1. first + step \in Int OBVIOUS
  <2>2. \E i \in 0..Len(bounds[r].disallowed) : NotListed(r, (first + step) + step * i)
    BY <2>1, EnoughTurns
  <2>3. QED BY <1>1, <2>2
<1>12. PICK x \in Int : x = (first + step) + step * i OBVIOUS
<1>13. i + 2 \in 1..(n + 2) /\ rest[i + 2] = x
  <2>1. i + 2 \in 1..(n + 2) /\ (i + 2) - 1 = i + 1 OBVIOUS
  <2>2. rest[i + 2] = first + step * (i + 1) BY <1>5, <2>1
  <2>3. CASE step = 1 BY <1>12, <2>1, <2>2, <2>3
  <2>4. CASE step = -1 BY <1>12, <2>1, <2>2, <2>4
  <2>5. QED BY <2>3, <2>4
<1>14. step * b < step * x
  <2>1. a + 1 + i \in Int /\ a \in Int /\ i \in Int OBVIOUS
  <2>2. x = (step * a + step) + step * i BY <1>3, <1>12
  <2>3. step * x = a + 1 + i BY <2>1, <2>2, StepsOn
  <2>4. step * b <= a
    <3>1. CASE step = 1 BY <1>2, <3>1
    <3>2. CASE step = -1 BY <1>2, <3>2
    <3>3. QED BY <3>1, <3>2
  <2>5. step * b < step * x
    <3>1. PICK u \in Int : u = step * b OBVIOUS
    <3>2. u <= a /\ a < a + 1 + i BY <1>11, <2>4, <3>1
    <3>3. QED BY <2>3, <3>1, <3>2
  <2>6. QED BY <2>5
<1>15. is_allowed(r, x) BY <1>11, <1>12, <1>14 DEF FreeAfter
<1>16. QED BY <1>5, <1>10, <1>13, <1>15 DEF ReachesAllowed, Includes

\* Both bounds on one side of zero: from the closer one to the other.
LEMMA TriedOneWay ==
  ASSUME NEW r, NEW first \in Int, NEW step \in {1, -1}, 0 <= step * first,
         AllowedFrom(r, step, first),
         NEW turns \in Nat, NEW list, list = Counting(first, step, turns)
  PROVE  /\ list \in Seq(Int) /\ ClosestFirst(list, r)
         /\ Reaches(list, {x \in Int : step * first <= step * x /\ step * x < step * first + turns})
<1>1. /\ list \in Seq(Int) /\ DOMAIN list = 1..turns
      /\ \A k \in 1..turns : list[k] = first + step * (k - 1)
  BY CountingIs DEF Counts
<1>2. ASSUME NEW x \in Int, step * first <= step * x, NEW k \in Int, k <= turns,
             step * x < step * first + k
      PROVE  \E j \in 1..turns : j <= k /\ list[j] = x
  <2>1. PICK j \in Int : j = step * x - step * first + 1 OBVIOUS
  <2>2. j \in 1..turns /\ j <= k BY <1>2, <2>1
  <2>3. first + step * (j - 1) = x
    <3>1. CASE step = 1 BY <2>1, <3>1
    <3>2. CASE step = -1 BY <2>1, <3>2
    <3>3. QED BY <3>1, <3>2
  <2>4. QED BY <1>1, <2>2, <2>3
<1>3. ASSUME NEW k \in 1..turns, NEW x \in Int, AbsOf(x) < AbsOf(list[k]), is_allowed(r, x)
      PROVE  \E j \in 1..turns : j < k /\ list[j] = x
  <2>1. list[k] = first + step * (k - 1) BY <1>1
  <2>2. AbsOf(list[k]) = step * first + (k - 1)
    <3>1. CASE step = 1 BY <2>1, <3>1 DEF AbsOf
    <3>2. CASE step = -1 BY <2>1, <3>2 DEF AbsOf
    <3>3. QED BY <3>1, <3>2
  <2>3. step * first <= step * x BY <1>3 DEF AllowedFrom
  <2>4. AbsOf(x) = step * x
    <3>1. CASE step = 1 BY <2>3, <3>1 DEF AbsOf
    <3>2. CASE step = -1 BY <2>3, <3>2 DEF AbsOf
    <3>3. QED BY <3>1, <3>2
  <2>5. step * x < step * first + (k - 1) /\ k - 1 \in Int /\ k - 1 <= turns
    BY <1>3, <2>2, <2>4
  <2>6. PICK j \in 1..turns : j <= k - 1 /\ list[j] = x
    BY <1>2, <2>3, <2>5
  <2>7. QED BY <2>6
<1>4. ASSUME NEW x \in Int, step * first <= step * x, step * x < step * first + turns
      PROVE  \E k \in DOMAIN list : list[k] = x
  <2>1. turns \in Int /\ turns <= turns OBVIOUS
  <2>2. PICK j \in 1..turns : list[j] = x BY <1>2, <1>4, <2>1
  <2>3. QED BY <1>1, <2>2
<1>5. ClosestFirst(list, r) BY <1>1, <1>3 DEF ClosestFirst
<1>6. QED BY <1>1, <1>4, <1>5 DEF Reaches

\* Two bounds: every number between them is tried.
LEMMA TriedBetween ==
  ASSUME LraI, NEW r \in RealVars, lower_bound(r) # << >>, upper_bound(r) # << >>,
         NEW low, low = Last(lower_bound(r)).value, NEW high, high = Last(upper_bound(r)).value,
         low <= high, NEW list, list = Tried(r)
  PROVE  /\ low \in Int /\ high \in Int /\ list \in Seq(Int) /\ ClosestFirst(list, r)
         /\ Reaches(list, low..high)
<1>1. /\ low \in Int /\ high \in Int
      /\ \A x \in Int : is_allowed(r, x) => low <= x /\ x <= high
  BY AllowedIs
<1>2. list = IF low >= 0 THEN Counting(low, 1, high - low + 1)
             ELSE IF high <= 0 THEN Counting(high, -1, high - low + 1)
             ELSE AroundZero(IF high > -low THEN high ELSE -low)
  BY DEF Tried
<1>3. PICK turns \in Nat : turns = high - low + 1 BY <1>1
<1>4. CASE low >= 0
  <2>1. PICK step \in {1, -1} : step = 1 /\ \A x \in Int : step * x = x
    OBVIOUS
  <2>2. list = Counting(low, step, turns) BY <1>2, <1>3, <1>4, <2>1
  <2>3. 0 <= step * low /\ AllowedFrom(r, step, low)
    BY <1>1, <1>4, <2>1 DEF AllowedFrom
  <2>4. PICK S : S = {x \in Int : step * low <= step * x /\ step * x < step * low + turns}
    OBVIOUS
  <2>5. list \in Seq(Int) BY <1>1, <2>1, <2>2, <2>3, TriedOneWay
  <2>6. ClosestFirst(list, r) BY <1>1, <2>1, <2>2, <2>3, TriedOneWay
  <2>7. Reaches(list, S) BY <1>1, <2>1, <2>2, <2>3, <2>4, TriedOneWay
  <2>8. \A x \in low..high : x \in S BY <1>1, <1>3, <2>1, <2>4
  <2>9. QED BY <1>1, <2>5, <2>6, <2>7, <2>8 DEF Reaches
<1>5. CASE ~(low >= 0) /\ high <= 0
  <2>1. PICK step \in {1, -1} : step = -1 /\ \A x \in Int : step * x = -x
    OBVIOUS
  <2>2. list = Counting(high, step, turns) BY <1>2, <1>3, <1>5, <2>1
  <2>3. 0 <= step * high /\ AllowedFrom(r, step, high)
    BY <1>1, <1>5, <2>1 DEF AllowedFrom
  <2>4. PICK S : S = {x \in Int : step * high <= step * x /\ step * x < step * high + turns}
    OBVIOUS
  <2>5. list \in Seq(Int) BY <1>1, <2>1, <2>2, <2>3, TriedOneWay
  <2>6. ClosestFirst(list, r) BY <1>1, <2>1, <2>2, <2>3, TriedOneWay
  <2>7. Reaches(list, S) BY <1>1, <2>1, <2>2, <2>3, <2>4, TriedOneWay
  <2>8. \A x \in low..high : x \in S BY <1>1, <1>3, <2>1, <2>4
  <2>9. QED BY <1>1, <2>5, <2>6, <2>7, <2>8 DEF Reaches
<1>6. CASE ~(low >= 0) /\ ~(high <= 0)
  <2>1. PICK length \in Int : length = IF high > -low THEN high ELSE -low
    BY <1>1
  <2>2. list = AroundZero(length) BY <1>2, <1>6, <2>1
  <2>3. list \in Seq(Int) BY <2>2, AroundZeroIs
  <2>4. \A x \in Int : AbsOf(x) <= length => \E k \in DOMAIN list : list[k] = x
    BY <2>2, AroundZeroIs
  <2>5. \A k \in DOMAIN list : \A x \in Int : AbsOf(x) < AbsOf(list[k]) =>
          \E j \in DOMAIN list : j < k /\ list[j] = x
    BY <2>2, AroundZeroIs
  <2>6. \A x \in low..high : x \in Int /\ AbsOf(x) <= length
    BY <1>1, <1>6, <2>1 DEF AbsOf
  <2>7. QED BY <1>1, <2>3, <2>4, <2>5, <2>6 DEF ClosestFirst, Reaches
<1>7. QED BY <1>4, <1>5, <1>6

LEMMA InvFinds ==
  ASSUME RoomInv
  PROVE  DecideFindsValue
<1> SUFFICES ASSUME pc = "decide", NEW r \in RealVars, NEW found, found = FindInteger(r),
                    NEW lb, lb = lower_bound(r), NEW ub, ub = upper_bound(r)
             PROVE  IF found # << >>
                      THEN \A x \in -(AbsOf(Head(found)) - 1)..(AbsOf(Head(found)) - 1) : ~is_allowed(r, x)
                      ELSE /\ lb # << >> /\ ub # << >> /\ Last(lb).value < Last(ub).value
                           /\ \A x \in Last(lb).value..Last(ub).value : ~is_allowed(r, x)
  BY DEF DecideFindsValue
<1>1. LraI BY DEF RoomInv, ConflictInv, ValuesInv
<1>2. PICK low, high : low = Last(lb).value /\ high = Last(ub).value
  OBVIOUS
<1>3. PICK list : list = Tried(r) OBVIOUS
<1>4. ASSUME list \in Seq(Int), ClosestFirst(list, r), ReachesAllowed(list, r)
      PROVE  /\ found # << >>
             /\ \A x \in -(AbsOf(Head(found)) - 1)..(AbsOf(Head(found)) - 1) : ~is_allowed(r, x)
  BY <1>3, <1>4, FoundIs DEF ReachesAllowed
<1>5. CASE lb = << >> /\ ub = << >>
  <2>1. list \in Seq(Int) /\ ClosestFirst(list, r) /\ ReachesAllowed(list, r)
    BY <1>1, <1>3, <1>5, TriedUnbounded DEF Tries, ReachesAllowed
  <2>2. QED BY <1>4, <2>1
<1>6. CASE lb = << >> /\ ub # << >>
  <2>1. list = AroundZero(high) \o Counting(-AbsOf(high), -1, Turns(r))
    BY <1>2, <1>3, <1>6 DEF Tried
  <2>2. /\ high \in Int
        /\ \A x \in Int : is_allowed(r, x) => x <= high
        /\ \A x \in Int : NotListed(r, x) /\ x < high => is_allowed(r, x)
    BY <1>1, <1>2, <1>6, AllowedIs
  <2>3. PICK step \in {1, -1} : step = -1 /\ \A x \in Int : step * x = -x
    OBVIOUS
  <2>4. AllowedFrom(r, step, high) /\ FreeAfter(r, step, high)
    BY <2>2, <2>3 DEF AllowedFrom, FreeAfter
  <2>5. PICK length, first \in Int : length = -(step * high) /\ first = step * AbsOf(high)
    BY <2>2, AbsIs
  <2>6. list \in Seq(Int) /\ ClosestFirst(list, r) /\ ReachesAllowed(list, r)
    <3>1. length = high /\ first = -AbsOf(high)
      BY <2>2, <2>3, <2>5, AbsIs
    <3>2. list = AroundZero(length) \o Counting(first, step, Turns(r))
      BY <2>1, <2>3, <3>1
    <3>3. QED BY <1>1, <2>2, <2>4, <2>5, <3>2, TriedOneSided
  <2>7. QED BY <1>4, <2>6
<1>7. CASE lb # << >> /\ ub = << >>
  <2>1. list = AroundZero(-low) \o Counting(AbsOf(low), 1, Turns(r))
    BY <1>2, <1>3, <1>7 DEF Tried
  <2>2. /\ low \in Int
        /\ \A x \in Int : is_allowed(r, x) => low <= x
        /\ \A x \in Int : NotListed(r, x) /\ low < x => is_allowed(r, x)
    BY <1>1, <1>2, <1>7, AllowedIs
  <2>3. PICK step \in {1, -1} : step = 1 /\ \A x \in Int : step * x = x
    OBVIOUS
  <2>4. AllowedFrom(r, step, low) /\ FreeAfter(r, step, low)
    BY <2>2, <2>3 DEF AllowedFrom, FreeAfter
  <2>5. PICK length, first \in Int : length = -(step * low) /\ first = step * AbsOf(low)
    BY <2>2, AbsIs
  <2>6. list \in Seq(Int) /\ ClosestFirst(list, r) /\ ReachesAllowed(list, r)
    <3>1. length = -low /\ first = AbsOf(low) BY <2>2, <2>3, <2>5, AbsIs
    <3>2. list = AroundZero(length) \o Counting(first, step, Turns(r))
      BY <2>1, <2>3, <3>1
    <3>3. QED BY <1>1, <2>2, <2>4, <2>5, <3>2, TriedOneSided
  <2>7. QED BY <1>4, <2>6
<1>8. CASE lb # << >> /\ ub # << >>
  <2>1. low < high \/ (low = high /\ is_allowed(r, low))
    BY <1>2, <1>8, RoomBetween
  <2>2. low \in Int /\ high \in Int BY <1>1, <1>2, <1>8, AllowedIs
  <2>3. low <= high BY <2>1, <2>2
  <2>4. list \in Seq(Int) /\ ClosestFirst(list, r) /\ Reaches(list, low..high)
    BY <1>1, <1>2, <1>3, <1>8, <2>3, TriedBetween
  <2>5. CASE found # << >> BY <1>3, <2>4, <2>5, FoundIs
  <2>6. CASE found = << >>
    <3>1. \A k \in DOMAIN list : ~is_allowed(r, list[k])
      BY <1>3, <2>4, <2>6, FoundIs
    <3>2. \A x \in low..high : ~is_allowed(r, x)
      BY <2>4, <3>1 DEF Reaches
    <3>3. low < high
      <4>1. low = high => low \in low..high BY <2>2
      <4>2. QED BY <2>1, <3>2, <4>1
    <3>4. QED BY <1>2, <1>8, <2>6, <3>2, <3>3
  <2>7. QED BY <2>5, <2>6
<1>9. QED BY <1>5, <1>6, <1>7, <1>8

\* Wherever the plugin may be asked for a value it finds one: the search ends at the
\* allowed integer closest to zero, whatever the bounds and however many values are
\* disallowed, and where no integer is allowed there is room between two bounds.  A
\* variable is never decided into a corner: bounds that exclude each other, or all
\* values, are reported before (decide, find_integer).
THEOREM ValuesAreFound == Spec => []DecideFindsValue
<1>1. Init => RoomInv BY RoomInvInit
<1>2. RoomInv /\ [Next]_vars => RoomInv' BY RoomInvNext
<1>3. RoomInv => DecideFindsValue BY InvFinds
<1>4. QED BY <1>1, <1>2, <1>3, PTL DEF Spec
=============================================================================
