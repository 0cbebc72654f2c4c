---------------------------- MODULE CommonLemmas ----------------------------
(***************************************************************************)
(* Facts about lists, natural numbers, sums and fractions that the proofs  *)
(* share.                                                                  *)
(***************************************************************************)
EXTENDS Integers, Lists, Fractions, FiniteSetTheorems, WellFoundedInduction, TLAPS

\* A function on 1..n is a sequence of length n.
LEMMA FunctionIsSeq ==
  ASSUME NEW S, NEW n \in Nat, NEW f \in [1..n -> S]
  PROVE  f \in Seq(S) /\ Len(f) = n
OBVIOUS

\* A set of natural numbers that is not empty has a least element.
LEMMA LeastNatural ==
  ASSUME NEW T \in SUBSET Nat, T # {}
  PROVE  \E x \in T : \A y \in T : x <= y
<1> DEFINE R == {ss \in Nat \X Nat : ss[1] < ss[2]}
<1>1. IsWellFoundedOn(R, Nat) BY NatLessThanWellFounded DEF OpToRel
<1>2. \A i, j \in Nat : i < j => <<i, j>> \in R OBVIOUS
<1> HIDE DEF R
<1>3. PICK x \in T : \A y \in T : ~ (<<y, x>> \in R) BY <1>1, WFMin
<1>4. \A y \in T : x <= y
  <2>1. \A y \in T : ~ (y < x) BY <1>2, <1>3
  <2>2. QED BY <2>1
<1>5. QED BY <1>4

-----------------------------------------------------------------------------
(* Chosen.                                                                 *)

\* The function of the definition of Chosen.
IsChosen(f, s, keep, last) ==
  f = [n \in 0..last |->
         IF n = 0 THEN << >>
         ELSE IF n \in keep THEN Append(f[n - 1], s[n]) ELSE f[n - 1]]

\* It exists: a shortest prefix without one has one less an element.
LEMMA ChosenExists ==
  ASSUME NEW s, NEW keep, NEW last \in Nat
  PROVE  \E f : IsChosen(f, s, keep, last)
<1> DEFINE Bad == {n \in Nat : ~ \E f : IsChosen(f, s, keep, n)}
<1>1. ASSUME Bad # {}
      PROVE  FALSE
  <2>1. PICK m \in Bad : \A n \in Bad : m <= n BY <1>1, LeastNatural
  <2>2. CASE m = 0
    <3> DEFINE f == [n \in 0..0 |-> << >>]
    <3>1. IsChosen(f, s, keep, 0) BY DEF IsChosen
    <3>2. QED BY <2>1, <2>2, <3>1
  <2>3. CASE m # 0
    <3>1. m - 1 \in Nat /\ m - 1 \notin Bad BY <2>1, <2>3
    <3>2. PICK g : IsChosen(g, s, keep, m - 1) BY <3>1
    <3> DEFINE f == [n \in 0..m |->
                       IF n < m THEN g[n]
                       ELSE IF m \in keep THEN Append(g[m - 1], s[m]) ELSE g[m - 1]]
    <3>3. \A n \in 0..(m - 1) : f[n] = g[n] BY <3>1
    <3>4. f[m] = IF m \in keep THEN Append(g[m - 1], s[m]) ELSE g[m - 1]
      BY <2>1
    <3>5. IsChosen(f, s, keep, m)
      <4>1. \A n \in 0..m : f[n] =
               IF n = 0 THEN << >>
               ELSE IF n \in keep THEN Append(f[n - 1], s[n]) ELSE f[n - 1]
        <5>1. TAKE n \in 0..m
        <5>2. CASE n = m
          <6>1. f[m - 1] = g[m - 1] BY <3>1, <3>3
          <6> HIDE DEF f
          <6>2. QED BY <2>3, <3>4, <5>2, <6>1
        <5>3. CASE n < m
          <6>1. n \in 0..(m - 1) /\ (n # 0 => n - 1 \in 0..(m - 1))
            BY <3>1, <5>3
          <6>2. f[n] = g[n] /\ (n # 0 => f[n - 1] = g[n - 1])
            BY <3>3, <6>1
          <6> HIDE DEF f
          <6>3. g[n] = IF n = 0 THEN << >>
                       ELSE IF n \in keep THEN Append(g[n - 1], s[n]) ELSE g[n - 1]
            BY <3>2, <6>1, Zenon DEF IsChosen
          <6>4. QED BY <6>2, <6>3
        <5>4. QED BY <2>1, <5>2, <5>3
      <4>2. QED BY <4>1, Zenon DEF IsChosen
    <3>6. QED BY <2>1, <3>5
  <2>4. QED BY <2>2, <2>3
<1>2. QED BY <1>1

\* What Chosen is, one element at a time.
LEMMA ChosenIsFunction ==
  ASSUME NEW s, Len(s) \in Nat, NEW keep
  PROVE  \E f : IsChosen(f, s, keep, Len(s)) /\ Chosen(s, keep) = f[Len(s)]
<1>1. PICK g : IsChosen(g, s, keep, Len(s)) BY ChosenExists
<1> DEFINE f == CHOOSE f : IsChosen(f, s, keep, Len(s))
<1>2. IsChosen(f, s, keep, Len(s)) BY <1>1
<1>3. Chosen(s, keep) = f[Len(s)] BY DEF Chosen, IsChosen
<1>4. QED BY <1>2, <1>3

\* Chosen keeps the elements at the positions in keep, and no others.
LEMMA ChosenElements ==
  ASSUME NEW S, NEW s \in Seq(S), NEW keep
  PROVE  /\ Chosen(s, keep) \in Seq(S)
         /\ Len(Chosen(s, keep)) <= Len(s)
         /\ \A k \in 1..Len(Chosen(s, keep)) :
              \E i \in 1..Len(s) : i \in keep /\ Chosen(s, keep)[k] = s[i]
         /\ \A i \in 1..Len(s) : i \in keep =>
              \E k \in 1..Len(Chosen(s, keep)) : Chosen(s, keep)[k] = s[i]
<1>1. PICK f : IsChosen(f, s, keep, Len(s)) /\ Chosen(s, keep) = f[Len(s)]
  BY ChosenIsFunction
<1> DEFINE Right(n) ==
      /\ f[n] \in Seq(S)
      /\ Len(f[n]) <= n
      /\ \A k \in 1..Len(f[n]) : \E i \in 1..n : i \in keep /\ f[n][k] = s[i]
      /\ \A i \in 1..n : i \in keep => \E k \in 1..Len(f[n]) : f[n][k] = s[i]
<1> DEFINE Bad == {n \in 0..Len(s) : ~ Right(n)}
<1>2. ASSUME Bad # {}
      PROVE  FALSE
  <2>1. PICK m \in Bad : \A n \in Bad : m <= n
    <3> Bad \in SUBSET Nat
      OBVIOUS
    <3> QED
      BY <1>2, LeastNatural
  <2>2. m \in 0..Len(s) /\ ~ Right(m) BY <2>1
  <2>3. f[m] = IF m = 0 THEN << >>
               ELSE IF m \in keep THEN Append(f[m - 1], s[m]) ELSE f[m - 1]
    BY <1>1, <2>2, Zenon DEF IsChosen
  <2>4. CASE m = 0
    <3>1. f[0] = << >> BY <2>3, <2>4
    <3>2. Right(0) BY <3>1
    <3>3. QED BY <2>2, <2>4, <3>2
  <2>5. CASE m # 0
    <3>1. m - 1 \in 0..Len(s) /\ m \in 1..Len(s) /\ s[m] \in S
      BY <2>2, <2>5
    <3>2. Right(m - 1)
      <4>1. m - 1 \notin Bad
        <5> HIDE DEF Bad
        <5>1. QED BY <2>1, <2>2, <3>1
      <4>2. QED BY <3>1, <4>1
    <3>3. CASE m \notin keep
      <4>1. f[m] = f[m - 1] BY <2>3, <2>5, <3>3
      <4>2. \A i \in 1..m : i \in keep => i \in 1..(m - 1) BY <3>1, <3>3
      <4>3. 1..(m - 1) \subseteq 1..m /\ Len(f[m]) <= m
        BY <3>1, <3>2, <4>1
      <4>4. Right(m) BY <3>2, <4>1, <4>2, <4>3
      <4>5. QED BY <2>2, <4>4
    <3>4. CASE m \in keep
      <4> DEFINE g == f[m - 1]
      <4>1. f[m] = Append(g, s[m]) BY <2>3, <2>5, <3>4
      <4>2. g \in Seq(S) /\ Len(g) \in Nat BY <3>2
      <4>3. f[m] \in Seq(S) /\ Len(f[m]) = Len(g) + 1
        BY <3>1, <4>1, <4>2
      <4>4. (\A k \in 1..Len(g) : f[m][k] = g[k]) /\ f[m][Len(g) + 1] = s[m]
        BY <3>1, <4>1, <4>2
      <4>5. \A k \in 1..Len(f[m]) : k \in 1..Len(g) \/ k = Len(g) + 1
        BY <4>2, <4>3
      <4>6. \A i \in 1..m : i \in 1..(m - 1) \/ i = m BY <3>1
      <4>7. Len(f[m]) <= m BY <3>1, <3>2, <4>2, <4>3
      <4>8. \A k \in 1..Len(f[m]) : \E i \in 1..m : i \in keep /\ f[m][k] = s[i]
        <5>1. TAKE k \in 1..Len(f[m])
        <5>2. CASE k \in 1..Len(g)
          <6>1. PICK i \in 1..(m - 1) : i \in keep /\ g[k] = s[i]
            BY <3>2, <5>2
          <6>2. i \in 1..m /\ f[m][k] = s[i] BY <3>1, <4>4, <5>2, <6>1
          <6>3. QED BY <6>1, <6>2
        <5>3. CASE k = Len(g) + 1 BY <3>1, <3>4, <4>4, <5>3
        <5>4. QED BY <4>5, <5>2, <5>3
      <4>9. \A i \in 1..m : i \in keep => \E k \in 1..Len(f[m]) : f[m][k] = s[i]
        <5>1. TAKE i \in 1..m
        <5>2. HAVE i \in keep
        <5>3. CASE i \in 1..(m - 1)
          <6>1. PICK k \in 1..Len(g) : g[k] = s[i] BY <3>2, <5>2, <5>3
          <6>2. k \in 1..Len(f[m]) /\ f[m][k] = s[i]
            BY <4>2, <4>3, <4>4, <6>1
          <6>3. QED BY <6>2
        <5>4. CASE i = m
          <6>1. Len(g) + 1 \in 1..Len(f[m]) BY <4>2, <4>3
          <6>2. QED BY <4>4, <5>4, <6>1
        <5>5. QED BY <4>6, <5>3, <5>4
      <4>10. QED BY <2>2, <4>3, <4>7, <4>8, <4>9
    <3>5. QED BY <3>3, <3>4
  <2>6. QED BY <2>4, <2>5
<1>3. Right(Len(s))
  <2>1. Len(s) \in 0..Len(s) OBVIOUS
  <2>2. QED BY <1>2, <2>1
<1>4. QED BY <1>1, <1>3

\* Sequences that agree where they are kept give the same result.
LEMMA ChosenAgree ==
  ASSUME NEW s, NEW t, Len(s) \in Nat, Len(s) = Len(t), NEW keep,
         \A i \in 1..Len(s) : i \in keep => s[i] = t[i]
  PROVE  Chosen(s, keep) = Chosen(t, keep)
<1>1. PICK f : IsChosen(f, s, keep, Len(s)) /\ Chosen(s, keep) = f[Len(s)]
  BY ChosenIsFunction
<1>2. PICK g : IsChosen(g, t, keep, Len(s)) /\ Chosen(t, keep) = g[Len(s)]
  BY ChosenIsFunction
<1> DEFINE Bad == {n \in 0..Len(s) : f[n] # g[n]}
<1>3. ASSUME Bad # {}
      PROVE  FALSE
  <2>1. PICK m \in Bad : \A n \in Bad : m <= n
    <3> Bad \in SUBSET Nat
      OBVIOUS
    <3> QED
      BY <1>3, LeastNatural
  <2>2. m \in 0..Len(s) /\ f[m] # g[m] BY <2>1
  <2>3. f[m] = IF m = 0 THEN << >>
               ELSE IF m \in keep THEN Append(f[m - 1], s[m]) ELSE f[m - 1]
    BY <1>1, <2>2, Zenon DEF IsChosen
  <2>4. g[m] = IF m = 0 THEN << >>
               ELSE IF m \in keep THEN Append(g[m - 1], t[m]) ELSE g[m - 1]
    BY <1>2, <2>2, Zenon DEF IsChosen
  <2>5. m # 0 BY <2>2, <2>3, <2>4
  <2>6. m - 1 \in 0..Len(s) /\ m \in 1..Len(s) BY <2>2, <2>5
  <2>7. f[m - 1] = g[m - 1] BY <2>1, <2>6
  <2>8. m \in keep => s[m] = t[m] BY <2>6
  <2>9. QED BY <2>2, <2>3, <2>4, <2>7, <2>8
<1>4. Len(s) \in 0..Len(s) OBVIOUS
<1>5. QED BY <1>1, <1>2, <1>3, <1>4

\* Positions, chosen by a set of them, are that set.
LEMMA ChosenPositions ==
  ASSUME NEW n \in Nat, NEW keep \in SUBSET (1..n)
  PROVE  LET list == Chosen([i \in 1..n |-> i], keep)
         IN list \in Seq(1..n) /\ Range(list) = keep
<1> DEFINE all == [i \in 1..n |-> i]
           list == Chosen(all, keep)
           Positions == 1..n
<1>1. all \in Seq(Positions) /\ Len(all) = n /\ \A i \in 1..n : all[i] = i
  <2>1. all \in [1..n -> 1..n] OBVIOUS
  <2>2. QED BY <2>1, FunctionIsSeq
<1> HIDE DEF all, Positions
<1>2. /\ list \in Seq(Positions)
      /\ \A k \in 1..Len(list) : \E i \in 1..Len(all) : i \in keep /\ list[k] = all[i]
      /\ \A i \in 1..Len(all) : i \in keep => \E k \in 1..Len(list) : list[k] = all[i]
  <2>1. all \in Seq(Positions) BY <1>1
  <2>2. list \in Seq(Positions) BY <2>1, ChosenElements
  <2>3. \A k \in 1..Len(list) : \E i \in 1..Len(all) : i \in keep /\ list[k] = all[i]
    BY <2>1, ChosenElements
  <2>4. \A i \in 1..Len(all) : i \in keep => \E k \in 1..Len(list) : list[k] = all[i]
    BY <2>1, ChosenElements
  <2>5. QED BY <2>2, <2>3, <2>4
<1> HIDE DEF list
<1>3. \A k \in 1..Len(list) : list[k] \in keep BY <1>1, <1>2
<1>4. \A i \in keep : \E k \in 1..Len(list) : list[k] = i BY <1>1, <1>2
<1>5. Range(list) = {list[k] : k \in 1..Len(list)} BY <1>2 DEF Range
<1>6. Range(list) = keep BY <1>3, <1>4, <1>5
<1>7. QED BY <1>2, <1>6 DEF list, all, Positions

-----------------------------------------------------------------------------
(* Sorting.                                                                *)

\* Ranked sorts a finite set under a strict total order.
LEMMA RankedSorts ==
  ASSUME NEW S, IsFiniteSet(S), NEW order,
         \A x \in S : <<x, x>> \notin order,
         \A x, y, z \in S : <<x, y>> \in order /\ <<y, z>> \in order => <<x, z>> \in order,
         \A x, y \in S : x # y => <<x, y>> \in order \/ <<y, x>> \in order
  PROVE  /\ Ranked(S, order) \in Seq(S)
         /\ Len(Ranked(S, order)) = Cardinality(S)
         /\ \A x \in S : \E k \in 1..Len(Ranked(S, order)) : Ranked(S, order)[k] = x
         /\ \A i, j \in 1..Len(Ranked(S, order)) :
              i < j => <<Ranked(S, order)[i], Ranked(S, order)[j]>> \in order
<1> DEFINE Below(x) == {y \in S : <<y, x>> \in order}
           n == Cardinality(S)
           rank == [x \in S |-> Cardinality(Below(x)) + 1]
           list == [k \in 1..n |-> CHOOSE x \in S : Cardinality(Below(x)) = k - 1]
<1>1. n \in Nat BY FS_CardinalityType
<1>2. ASSUME NEW x \in S
      PROVE  IsFiniteSet(Below(x)) /\ Cardinality(Below(x)) \in 0..(n - 1)
  <2>1. IsFiniteSet(S \ {x}) /\ Cardinality(S \ {x}) = n - 1
    BY FS_RemoveElement
  <2>2. Below(x) \in SUBSET (S \ {x}) OBVIOUS
  <2> HIDE DEF Below
  <2>3. IsFiniteSet(Below(x)) /\ Cardinality(Below(x)) <= n - 1
    BY <2>1, <2>2, FS_Subset
  <2>4. QED BY <1>1, <2>3, FS_CardinalityType
<1>3. ASSUME NEW x \in S, NEW z \in S, <<x, z>> \in order
      PROVE  Cardinality(Below(x)) < Cardinality(Below(z))
  <2>1. /\ IsFiniteSet(Below(z) \ {x})
        /\ Cardinality(Below(z) \ {x}) = Cardinality(Below(z)) - 1
    <3>1. x \in Below(z) BY <1>3
    <3>2. QED BY <1>2, <3>1, FS_RemoveElement
  <2>2. Below(x) \in SUBSET (Below(z) \ {x}) BY <1>3
  <2> HIDE DEF Below
  <2>3. Cardinality(Below(x)) <= Cardinality(Below(z)) - 1
    BY <2>1, <2>2, FS_Subset
  <2>4. Cardinality(Below(x)) \in Int /\ Cardinality(Below(z)) \in Int
    BY <1>2
  <2>5. QED BY <2>3, <2>4
<1> HIDE DEF Below
<1>4. ASSUME NEW x \in S, NEW z \in S, Cardinality(Below(x)) = Cardinality(Below(z))
      PROVE  x = z
  <2>1. Cardinality(Below(x)) \in Int /\ Cardinality(Below(z)) \in Int
    BY <1>2
  <2>2. <<x, z>> \notin order /\ <<z, x>> \notin order
    BY <1>3, <1>4, <2>1
  <2>3. QED BY <2>2
<1>5. ASSUME NEW k \in 1..n
      PROVE  \E x \in S : Cardinality(Below(x)) = k - 1
  <2>1. rank \in [S -> 1..n] BY <1>1, <1>2
  <2>2. \A x, z \in S : rank[x] = rank[z] => x = z
    <3>1. \A x \in S : rank[x] = Cardinality(Below(x)) + 1 /\ Cardinality(Below(x)) \in Int
      BY <1>2
    <3>2. QED BY <1>4, <3>1
  <2>3. rank \in Injection(S, 1..n)
    BY <2>1, <2>2 DEF Injection, IsInjective
  <2>4. IsFiniteSet(1..n) /\ Cardinality(1..n) = n BY <1>1, FS_Interval
  <2>5. rank \in Surjection(S, 1..n) BY <2>3, <2>4, FS_Injection
  <2>6. PICK x \in S : rank[x] = k BY <2>5 DEF Surjection
  <2>7. Cardinality(Below(x)) + 1 = k BY <2>6
  <2>8. QED BY <1>2, <2>7
<1>6. \A k \in 1..n : list[k] \in S /\ Cardinality(Below(list[k])) = k - 1
  BY <1>5
<1>7. list \in Seq(S) /\ Len(list) = n
  <2>1. list \in [1..n -> S] BY <1>6
  <2>2. QED BY <1>1, <2>1, FunctionIsSeq
<1>8. Ranked(S, order) = SubSeq(list, 1, n) BY DEF Ranked, Below
<1> HIDE DEF list
<1>9. /\ Ranked(S, order) \in Seq(S)
      /\ Len(Ranked(S, order)) = n
      /\ \A k \in 1..n : Ranked(S, order)[k] = list[k]
  <2>1. SubSeq(list, 1, n) = list BY <1>1, <1>7
  <2>2. QED BY <1>7, <1>8, <2>1
<1>10. ASSUME NEW x \in S
       PROVE  \E k \in 1..n : list[k] = x
  <2>1. Cardinality(Below(x)) + 1 \in 1..n BY <1>1, <1>2
  <2>2. Cardinality(Below(list[Cardinality(Below(x)) + 1])) = Cardinality(Below(x))
    BY <1>2, <1>6, <2>1
  <2>3. QED BY <1>4, <1>6, <2>1, <2>2
<1>11. ASSUME NEW i \in 1..n, NEW j \in 1..n, i < j
       PROVE  <<list[i], list[j]>> \in order
  <2>1. list[i] \in S /\ list[j] \in S BY <1>6
  <2>2. Cardinality(Below(list[i])) = i - 1 /\ Cardinality(Below(list[j])) = j - 1
    BY <1>6
  <2>3. list[i] # list[j] BY <1>1, <1>11, <2>2
  <2>4. ~ (<<list[j], list[i]>> \in order)
    BY <1>1, <1>3, <1>11, <2>1, <2>2
  <2>5. QED BY <2>1, <2>3, <2>4
<1>12. QED BY <1>9, <1>10, <1>11

\* A property of 0 that each number up to n hands on to the next holds of n.
LEMMA UpTo ==
  ASSUME NEW n \in Nat, NEW P, 0 \in P, \A k \in 1..n : k - 1 \in P => k \in P
  PROVE  \A k \in 0..n : k \in P
<1> DEFINE Bad == {k \in 0..n : k \notin P}
<1>1. SUFFICES ASSUME Bad # {}
               PROVE  FALSE
  OBVIOUS
<1>2. PICK m \in Bad : \A k \in Bad : m <= k
  <2>1. Bad \in SUBSET Nat OBVIOUS
  <2> HIDE DEF Bad
  <2>2. QED BY <1>1, <2>1, LeastNatural
<1>3. m \in 1..n /\ m - 1 \in 0..n /\ m - 1 \notin Bad BY <1>2
<1>4. QED BY <1>2, <1>3

\* Values that each step keeps in S are all in S.
LEMMA StaysIn ==
  ASSUME NEW n \in Nat, NEW S, NEW f, f[0] \in S, \A k \in 1..n : f[k - 1] \in S => f[k] \in S
  PROVE  \A k \in 0..n : f[k] \in S
<1> DEFINE P == {k \in 0..n : f[k] \in S}
<1>1. 0 \in P /\ \A k \in 1..n : k - 1 \in P => k \in P OBVIOUS
<1> HIDE DEF P
<1>2. \A k \in 0..n : k \in P BY <1>1, UpTo
<1>3. QED BY <1>2 DEF P

\* f repeats a step from x on: step[k] maps the value before k to the one at k.
IsIterated(f, x, step, n) ==
  f = [k \in 0..n |-> IF k = 0 THEN x ELSE step[k][f[k - 1]]]

\* What repeats a step exists: a shortest one that does not has a step less.
LEMMA IterateExists ==
  ASSUME NEW n \in Nat, NEW x, NEW step
  PROVE  \E f : IsIterated(f, x, step, n)
<1> DEFINE P == {m \in Nat : \E f : IsIterated(f, x, step, m)}
<1>1. 0 \in P
  <2> DEFINE f == [k \in 0..0 |-> x]
  <2>1. IsIterated(f, x, step, 0) BY DEF IsIterated
  <2>2. QED BY <2>1
<1> HIDE DEF P
<1>2. ASSUME NEW m \in 1..n, m - 1 \in P
      PROVE  m \in P
  <2>0. m \in Nat /\ m # 0 /\ m - 1 \in Nat OBVIOUS
  <2>1. PICK g : IsIterated(g, x, step, m - 1) BY <1>2 DEF P
  <2> DEFINE f == [k \in 0..m |-> IF k < m THEN g[k] ELSE step[m][g[m - 1]]]
  <2>2. \A k \in 0..(m - 1) : f[k] = g[k] BY <2>0
  <2>3. f[m] = step[m][g[m - 1]] BY <2>0
  <2>4. ASSUME NEW k \in 0..m
        PROVE  f[k] = IF k = 0 THEN x ELSE step[k][f[k - 1]]
    <3>1. CASE k = m
      <4>1. f[m - 1] = g[m - 1] BY <2>0, <2>2
      <4> HIDE DEF f
      <4>2. QED BY <2>0, <2>3, <3>1, <4>1
    <3>2. CASE k < m
      <4>1. k \in 0..(m - 1) /\ (k # 0 => k - 1 \in 0..(m - 1))
        BY <2>0, <3>2
      <4>2. f[k] = g[k] /\ (k # 0 => f[k - 1] = g[k - 1]) BY <2>2, <4>1
      <4> HIDE DEF f
      <4>3. g[k] = IF k = 0 THEN x ELSE step[k][g[k - 1]]
        BY <2>1, <4>1, Zenon DEF IsIterated
      <4>4. QED BY <4>2, <4>3
    <3>3. QED BY <2>0, <3>1, <3>2
  <2>5. IsIterated(f, x, step, m) BY <2>4, Zenon DEF IsIterated
  <2>6. QED BY <2>0, <2>5 DEF P
<1>3. n \in P BY <1>1, <1>2, UpTo
<1>4. QED BY <1>3 DEF P

-----------------------------------------------------------------------------
(* Sums over finite sets, by the function that folds them.                 *)

\* The subsets of up to n elements.
SmallSets(set, n) == {s \in SUBSET set : Cardinality(s) <= n}

\* The function that a fold adds the terms by.
IsSum(g, term, sets) ==
  g = [s \in sets |->
         IF s = {} THEN 0
         ELSE LET x == CHOOSE x \in s : TRUE IN term[x] + g[s \ {x}]]

\* The sum of the terms of a set.
SumOf(term, set) == (CHOOSE g : IsSum(g, term, SUBSET set))[set]

\* Any element of a set may be taken out first.
TakesOut(g, term, set) ==
  \A s \in SUBSET set : g[s] \in Int /\ \A r \in s : g[s] = term[r] + g[s \ {r}]

SameTerms(less, term, part) == \A r \in part : less[r] = term[r]

SameSum(g, h, part) == g[part] = h[part]

\* A set without one of its elements.
LEMMA OneLess ==
  ASSUME NEW set, IsFiniteSet(set), NEW s \in SUBSET set, NEW x \in s
  PROVE  /\ Cardinality(s) \in Nat \ {0} /\ s \ {x} \in SUBSET set
         /\ Cardinality(s \ {x}) = Cardinality(s) - 1
<1>1. IsFiniteSet(s) BY FS_Subset
<1>2. Cardinality(s) \in Nat /\ Cardinality(s \ {x}) = Cardinality(s) - 1
  BY <1>1, FS_CardinalityType, FS_RemoveElement
<1>3. Cardinality(s \ {x}) \in Nat
  BY <1>1, FS_CardinalityType, FS_RemoveElement
<1>4. QED BY <1>2, <1>3

\* The function exists: the sets of at most m elements need those of less.
LEMMA SumExists ==
  ASSUME NEW set, IsFiniteSet(set), NEW term
  PROVE  \E g : IsSum(g, term, SUBSET set)
<1> DEFINE n == Cardinality(set)
           P == {m \in Nat : \E g : IsSum(g, term, SmallSets(set, m))}
<1>1. n \in Nat BY FS_CardinalityType
<1>2. \A s \in SUBSET set : Cardinality(s) \in Nat /\ Cardinality(s) <= n /\ IsFiniteSet(s)
  BY FS_Subset, FS_CardinalityType
<1>3. 0 \in P
  <2> DEFINE g == [s \in SmallSets(set, 0) |-> 0]
  <2>1. \A s \in SmallSets(set, 0) : s = {}
    BY <1>2, FS_EmptySet DEF SmallSets
  <2>2. IsSum(g, term, SmallSets(set, 0)) BY <2>1 DEF IsSum
  <2>3. QED BY <2>2
<1>4. ASSUME NEW m \in 1..n, m - 1 \in P
      PROVE  m \in P
  <2> DEFINE A == SmallSets(set, m)
             B == SmallSets(set, m - 1)
  <2>1. m \in Nat /\ m - 1 \in Nat BY <1>1
  <2>2. PICK g : IsSum(g, term, B) BY <1>4
  <2> DEFINE f == [s \in A |-> IF s \in B THEN g[s]
                               ELSE LET x == CHOOSE x \in s : TRUE IN term[x] + g[s \ {x}]]
  <2>3. B \subseteq A /\ {} \in B
    BY <1>2, <2>1, FS_EmptySet DEF SmallSets
  <2>4. ASSUME NEW s \in A, s # {}
        PROVE  s \ {CHOOSE x \in s : TRUE} \in B
    <3> DEFINE x == CHOOSE x \in s : TRUE
    <3>1. x \in s BY <2>4
    <3> HIDE DEF x
    <3>2. s \in SUBSET set /\ Cardinality(s) <= m BY DEF SmallSets
    <3>3. Cardinality(s) \in Nat \ {0} /\ s \ {x} \in SUBSET set
          /\ Cardinality(s \ {x}) = Cardinality(s) - 1
      BY <3>1, <3>2, OneLess
    <3>4. Cardinality(s \ {x}) <= m - 1 BY <2>1, <3>2, <3>3
    <3>5. QED BY <3>3, <3>4 DEF SmallSets, x
  <2>5. ASSUME NEW s \in A
        PROVE  f[s] = IF s = {} THEN 0 ELSE LET x == CHOOSE x \in s : TRUE IN term[x] + f[s \ {x}]
    <3> DEFINE x == CHOOSE x \in s : TRUE
    <3>1. CASE s = {}
      <4>1. g[{}] = 0 BY <2>2, <2>3 DEF IsSum
      <4>2. QED BY <2>3, <3>1, <4>1
    <3>2. CASE s # {}
      <4>1. s \ {x} \in B BY <2>4, <3>2
      <4>2. f[s \ {x}] = g[s \ {x}] BY <2>3, <4>1
      <4>3. s \in B => g[s] = term[x] + g[s \ {x}]
        BY <2>2, <3>2 DEF IsSum
      <4>4. f[s] = term[x] + g[s \ {x}] BY <4>3
      <4> HIDE DEF f, x
      <4>5. f[s] = term[x] + f[s \ {x}] BY <4>2, <4>4
      <4>6. QED BY <3>2, <4>5 DEF x
    <3>3. QED BY <3>1, <3>2
  <2>6. IsSum(f, term, A)
    <3> HIDE DEF B
    <3>1. f = [s \in A |-> f[s]] OBVIOUS
    <3> HIDE DEF f
    <3>2. QED BY <2>5, <3>1, ZenonT(60) DEF IsSum
  <2>7. QED BY <2>1, <2>6
<1>5. n \in P
  <2> HIDE DEF P, n
  <2>1. QED BY <1>1, <1>3, <1>4, UpTo
<1>6. SmallSets(set, n) = SUBSET set BY <1>2 DEF SmallSets
<1>7. QED BY <1>5, <1>6

\* So a sum is what the function gives.
LEMMA SumIs ==
  ASSUME NEW set, IsFiniteSet(set), NEW term
  PROVE  \E g : IsSum(g, term, SUBSET set) /\ SumOf(term, set) = g[set]
<1>1. PICK h : IsSum(h, term, SUBSET set) BY SumExists
<1> DEFINE g == CHOOSE g : IsSum(g, term, SUBSET set)
<1>2. IsSum(g, term, SUBSET set) BY <1>1
<1>3. QED BY <1>2 DEF SumOf

\* Any element may be taken out of a set first, and the sum is an integer.
LEMMA SumTakesOut ==
  ASSUME NEW set, IsFiniteSet(set), NEW term \in [set -> Int],
         NEW g, IsSum(g, term, SUBSET set)
  PROVE  TakesOut(g, term, set)
<1> DEFINE n == Cardinality(set)
           Ok(s) == g[s] \in Int /\ \A r \in s : g[s] = term[r] + g[s \ {r}]
           P == {m \in 0..n : \A s \in SmallSets(set, m) : Ok(s)}
<1>1. n \in Nat BY FS_CardinalityType
<1>2. \A s \in SUBSET set : Cardinality(s) \in Nat /\ Cardinality(s) <= n /\ IsFiniteSet(s)
  BY FS_Subset, FS_CardinalityType
<1>3. g[{}] = 0 BY DEF IsSum
<1>4. 0 \in P
  <2>1. \A s \in SmallSets(set, 0) : s = {}
    BY <1>2, FS_EmptySet DEF SmallSets
  <2>2. Ok({}) /\ 0 \in 0..n BY <1>1, <1>3
  <2> HIDE DEF Ok
  <2>3. QED BY <2>1, <2>2
<1>5. ASSUME NEW m \in 1..n, m - 1 \in P
      PROVE  m \in P
  <2>1. m \in Nat /\ m - 1 \in Nat /\ m \in 0..n BY <1>1
  <2>2. ASSUME NEW s \in SmallSets(set, m)
        PROVE  Ok(s)
    <3>1. CASE s = {} BY <1>3, <3>1
    <3>2. CASE s # {}
      <4> DEFINE x == CHOOSE x \in s : TRUE
      <4>1. x \in s BY <3>2
      <4>2. s \in SUBSET set /\ Cardinality(s) <= m BY DEF SmallSets
      <4>3. g[s] = term[x] + g[s \ {x}] BY <3>2, <4>2 DEF IsSum
      <4> HIDE DEF x
      <4>4. ASSUME NEW r \in s
            PROVE  s \ {r} \in SmallSets(set, m - 1)
        <5>1. Cardinality(s) \in Nat \ {0} /\ s \ {r} \in SUBSET set
              /\ Cardinality(s \ {r}) = Cardinality(s) - 1
          BY <4>2, OneLess
        <5>2. Cardinality(s \ {r}) <= m - 1 BY <2>1, <4>2, <5>1
        <5>3. QED BY <5>1, <5>2 DEF SmallSets
      <4>5. \A r \in s : Ok(s \ {r}) BY <1>5, <4>4
      <4>6. \A r \in s : term[r] \in Int /\ g[s \ {r}] \in Int
        BY <4>2, <4>5
      <4>7. ASSUME NEW r \in s, r # x
            PROVE  g[s] = term[r] + g[s \ {r}]
        <5>1. g[s \ {r}] = term[x] + g[(s \ {r}) \ {x}]
          BY <4>1, <4>5, <4>7
        <5>2. g[s \ {x}] = term[r] + g[(s \ {x}) \ {r}]
          BY <4>1, <4>5, <4>7
        <5>3. (s \ {r}) \ {x} = (s \ {x}) \ {r} OBVIOUS
        <5>4. g[(s \ {x}) \ {r}] \in Int
          <6>1. (s \ {x}) \ {r} \in SmallSets(set, m - 1)
            <7>1. Cardinality(s \ {x}) \in Nat \ {0}
                  /\ (s \ {x}) \ {r} \in SUBSET set
                  /\ Cardinality((s \ {x}) \ {r}) = Cardinality(s \ {x}) - 1
              BY <4>1, <4>2, <4>7, OneLess
            <7>2. Cardinality(s \ {x}) <= m - 1
              BY <4>1, <4>4 DEF SmallSets
            <7>3. QED BY <2>1, <7>1, <7>2 DEF SmallSets
          <6>2. QED BY <1>5, <6>1
        <5> DEFINE u == (s \ {x}) \ {r}
        <5>5. g[s] = term[x] + (term[r] + g[u]) /\ g[s \ {r}] = term[x] + g[u] /\ g[u] \in Int
          BY <4>3, <5>1, <5>2, <5>3, <5>4
        <5> HIDE DEF u
        <5>6. term[x] \in Int /\ term[r] \in Int BY <4>1, <4>6
        <5>7. \A a, b, c \in Int : a + (b + c) = b + (a + c) OBVIOUS
        <5>8. term[x] + (term[r] + g[u]) = term[r] + (term[x] + g[u])
          BY <5>5, <5>6, <5>7
        <5>9. g[s] = term[r] + (term[x] + g[u])
          BY <5>5, <5>8, ZenonT(60)
        <5>10. QED BY <5>5, <5>9, ZenonT(60)
      <4>8. g[s] \in Int BY <4>1, <4>3, <4>6
      <4>9. QED BY <4>3, <4>7, <4>8
    <3>3. QED BY <3>1, <3>2
  <2> HIDE DEF Ok
  <2>3. QED BY <2>1, <2>2
<1>6. n \in P
  <2> HIDE DEF P, n
  <2>1. QED BY <1>1, <1>4, <1>5, UpTo
<1>7. SmallSets(set, n) = SUBSET set BY <1>2 DEF SmallSets
<1>8. QED BY <1>6, <1>7 DEF TakesOut

\* A sum over a part of the variables is the same whatever else there is.
LEMMA SumOfPart ==
  ASSUME NEW set, IsFiniteSet(set), NEW part \in SUBSET set,
         NEW term, NEW less, SameTerms(less, term, part),
         NEW g, IsSum(g, term, SUBSET set), NEW h, IsSum(h, less, SUBSET part)
  PROVE  SameSum(g, h, part)
<1> DEFINE n == Cardinality(part)
           P == {m \in 0..n : \A s \in SmallSets(part, m) : g[s] = h[s]}
<1>1. IsFiniteSet(part) /\ n \in Nat BY FS_Subset, FS_CardinalityType
<1>2. \A s \in SUBSET part : Cardinality(s) \in Nat /\ Cardinality(s) <= n /\ IsFiniteSet(s)
  BY <1>1, FS_Subset, FS_CardinalityType
<1>3. g[{}] = 0 /\ h[{}] = 0 BY DEF IsSum
<1>4. 0 \in P
  <2>1. \A s \in SmallSets(part, 0) : s = {}
    BY <1>2, FS_EmptySet DEF SmallSets
  <2>2. 0 \in 0..n BY <1>1
  <2>3. QED BY <1>3, <2>1, <2>2, ZenonT(60)
<1>5. ASSUME NEW m \in 1..n, m - 1 \in P
      PROVE  m \in P
  <2>1. m \in Nat /\ m - 1 \in Nat /\ m \in 0..n BY <1>1
  <2>2. ASSUME NEW s \in SmallSets(part, m)
        PROVE  g[s] = h[s]
    <3>1. CASE s = {} BY <1>3, <3>1
    <3>2. CASE s # {}
      <4> DEFINE x == CHOOSE x \in s : TRUE
      <4>1. x \in s BY <3>2
      <4>2. s \in SUBSET part /\ s \in SUBSET set /\ Cardinality(s) <= m
        BY DEF SmallSets
      <4>3. g[s] = term[x] + g[s \ {x}] /\ h[s] = less[x] + h[s \ {x}]
        BY <3>2, <4>2 DEF IsSum
      <4> HIDE DEF x
      <4>6. less[x] = term[x] BY <4>1, <4>2 DEF SameTerms
      <4>4. s \ {x} \in SmallSets(part, m - 1)
        <5>1. Cardinality(s) \in Nat \ {0} /\ s \ {x} \in SUBSET part
              /\ Cardinality(s \ {x}) = Cardinality(s) - 1
          BY <1>1, <4>1, <4>2, OneLess
        <5>2. Cardinality(s \ {x}) <= m - 1 BY <2>1, <4>2, <5>1
        <5>3. QED BY <5>1, <5>2 DEF SmallSets
      <4>5. QED BY <1>5, <4>3, <4>4, <4>6
    <3>3. QED BY <3>1, <3>2
  <2>3. QED BY <2>1, <2>2
<1>6. n \in P
  <2> HIDE DEF P, n
  <2>1. QED BY <1>1, <1>4, <1>5, UpTo
<1>7. part \in SmallSets(part, n) BY <1>2 DEF SmallSets
<1>8. QED BY <1>6, <1>7 DEF SameSum

\* One of the variables may be added last.
LEMMA SumOfSplit ==
  ASSUME NEW set, IsFiniteSet(set), NEW term \in [set -> Int], NEW last \in set,
         NEW less, \A r \in set \ {last} : less[r] = term[r]
  PROVE  SumOf(term, set) = term[last] + SumOf(less, set \ {last})
<1> DEFINE part == set \ {last}
<1>1. IsFiniteSet(part) /\ part \in SUBSET set BY FS_Subset
<1>2. PICK g : IsSum(g, term, SUBSET set) /\ SumOf(term, set) = g[set]
  BY SumIs
<1> HIDE DEF part
<1>3. PICK h : IsSum(h, less, SUBSET part) /\ SumOf(less, part) = h[part]
  BY <1>1, SumIs
<1>4. SameSum(g, h, part)
  <2>1. SameTerms(less, term, part) BY DEF part, SameTerms
  <2>2. QED BY <1>1, <1>2, <1>3, <2>1, SumOfPart
<1>5. TakesOut(g, term, set) BY <1>2, SumTakesOut
<1>6. g[set] = term[last] + g[set \ {last}] BY <1>5 DEF TakesOut
<1>7. QED BY <1>2, <1>3, <1>4, <1>6 DEF part, SameSum

\* What holds of the empty set, and of a set if it holds of it without one of its
\* elements, holds of every subset of a finite set.
LEMMA EverySubset ==
  ASSUME NEW set, IsFiniteSet(set), NEW Q, {} \in Q,
         \A s \in SUBSET set : \A x \in s : s \ {x} \in Q => s \in Q
  PROVE  \A s \in SUBSET set : s \in Q
<1> DEFINE n == Cardinality(set)
           P == {m \in 0..n : \A s \in SmallSets(set, m) : s \in Q}
<1>1. n \in Nat BY FS_CardinalityType
<1>2. \A s \in SUBSET set : Cardinality(s) \in Nat /\ Cardinality(s) <= n /\ IsFiniteSet(s)
  BY FS_Subset, FS_CardinalityType
<1>3. 0 \in P
  <2>1. \A s \in SmallSets(set, 0) : s = {}
    BY <1>2, FS_EmptySet DEF SmallSets
  <2>2. 0 \in 0..n BY <1>1
  <2>3. QED BY <2>1, <2>2, Zenon
<1>4. ASSUME NEW m \in 1..n, m - 1 \in P
      PROVE  m \in P
  <2>1. m \in Nat /\ m - 1 \in Nat /\ m \in 0..n BY <1>1
  <2>2. ASSUME NEW s \in SmallSets(set, m), s # {}
        PROVE  s \in Q
    <3>1. PICK x \in s : TRUE BY <2>2
    <3>2. s \in SUBSET set /\ Cardinality(s) <= m BY DEF SmallSets
    <3>3. Cardinality(s) \in Nat \ {0} /\ s \ {x} \in SUBSET set /\ Cardinality(s \ {x}) = Cardinality(s) - 1
      BY <3>2, OneLess
    <3>4. Cardinality(s \ {x}) <= m - 1 BY <2>1, <3>2, <3>3
    <3>5. s \ {x} \in SmallSets(set, m - 1) BY <3>3, <3>4 DEF SmallSets
    <3>6. QED BY <1>4, <3>2, <3>5
  <2>3. QED BY <2>1, <2>2
<1>5. n \in P
  <2> HIDE DEF P, n
  <2>1. QED BY <1>1, <1>3, <1>4, UpTo
<1>6. \A s \in SUBSET set : s \in SmallSets(set, n)
  BY <1>2 DEF SmallSets
<1>7. QED BY <1>5, <1>6

\* Sums are added, and subtracted, term by term.
LEMMA SumOfBoth ==
  ASSUME NEW set, IsFiniteSet(set), NEW f \in [set -> Int], NEW g \in [set -> Int], NEW h \in [set -> Int],
         NEW a \in {1, -1}, NEW b \in {1, -1}, \A r \in set : h[r] = a * f[r] + b * g[r]
  PROVE  /\ SumOf(f, set) \in Int /\ SumOf(g, set) \in Int
         /\ SumOf(h, set) = a * SumOf(f, set) + b * SumOf(g, set)
<1>1. PICK F : IsSum(F, f, SUBSET set) /\ SumOf(f, set) = F[set]
  BY SumIs
<1>2. PICK G : IsSum(G, g, SUBSET set) /\ SumOf(g, set) = G[set]
  BY SumIs
<1>3. PICK H : IsSum(H, h, SUBSET set) /\ SumOf(h, set) = H[set]
  BY SumIs
<1>4. TakesOut(F, f, set) /\ TakesOut(G, g, set) /\ TakesOut(H, h, set)
  BY <1>1, <1>2, <1>3, SumTakesOut
<1> DEFINE Q == {s \in SUBSET set : H[s] = a * F[s] + b * G[s]}
<1>5. {} \in Q
  <2>1. F[{}] = 0 /\ G[{}] = 0 /\ H[{}] = 0
    BY <1>1, <1>2, <1>3 DEF IsSum
  <2>2. QED BY <2>1
<1>6. ASSUME NEW s \in SUBSET set, NEW x \in s, s \ {x} \in Q
      PROVE  s \in Q
  <2>1. /\ F[s] = f[x] + F[s \ {x}] /\ G[s] = g[x] + G[s \ {x}] /\ H[s] = h[x] + H[s \ {x}]
        /\ F[s \ {x}] \in Int /\ G[s \ {x}] \in Int
    BY <1>4 DEF TakesOut
  <2>2. H[s \ {x}] = a * F[s \ {x}] + b * G[s \ {x}] BY <1>6
  <2>3. h[x] = a * f[x] + b * g[x] /\ f[x] \in Int /\ g[x] \in Int
    OBVIOUS
  <2>4. H[s] = a * F[s] + b * G[s] BY <2>1, <2>2, <2>3
  <2>5. QED BY <2>4
<1>7. set \in Q
  <2> HIDE DEF Q
  <2>1. QED BY <1>5, <1>6, EverySubset
<1>8. F[set] \in Int /\ G[set] \in Int BY <1>4 DEF TakesOut
<1>9. QED BY <1>1, <1>2, <1>3, <1>7, <1>8

\* Terms that are zero may be left out.
LEMMA SumOfNonzero ==
  ASSUME NEW set, IsFiniteSet(set), NEW part \in SUBSET set, NEW f \in [set -> Int], NEW g \in [part -> Int],
         \A r \in part : g[r] = f[r], \A r \in set \ part : f[r] = 0
  PROVE  SumOf(f, set) = SumOf(g, part)
<1>1. PICK F : IsSum(F, f, SUBSET set) /\ SumOf(f, set) = F[set]
  BY SumIs
<1>2. IsFiniteSet(part) BY FS_Subset
<1>3. PICK G : IsSum(G, g, SUBSET part) /\ SumOf(g, part) = G[part]
  BY <1>2, SumIs
<1>4. TakesOut(F, f, set) /\ TakesOut(G, g, part)
  BY <1>1, <1>2, <1>3, SumTakesOut
<1> DEFINE Q == {s \in SUBSET set : F[s] = G[s \cap part]}
<1>5. {} \in Q
  <2>1. F[{}] = 0 /\ G[{}] = 0 BY <1>1, <1>3 DEF IsSum
  <2>2. {} \cap part = {} OBVIOUS
  <2>3. QED BY <2>1, <2>2
<1>6. ASSUME NEW s \in SUBSET set, NEW x \in s, s \ {x} \in Q
      PROVE  s \in Q
  <2>1. F[s] = f[x] + F[s \ {x}] /\ F[s \ {x}] = G[(s \ {x}) \cap part] /\ G[(s \ {x}) \cap part] \in Int
    BY <1>4, <1>6 DEF TakesOut
  <2>2. CASE x \in part
    <3>1. (s \ {x}) \cap part = (s \cap part) \ {x} /\ x \in s \cap part /\ s \cap part \in SUBSET part
      BY <2>2
    <3>2. G[s \cap part] = g[x] + G[(s \cap part) \ {x}]
      BY <1>4, <3>1 DEF TakesOut
    <3>3. F[s] = G[s \cap part] BY <2>1, <2>2, <3>1, <3>2
    <3>4. QED BY <3>3
  <2>3. CASE x \notin part
    <3>1. (s \ {x}) \cap part = s \cap part BY <2>3
    <3>2. f[x] = 0 BY <2>3
    <3>3. f[x] + F[s \ {x}] = F[s \ {x}] /\ F[s \ {x}] = G[s \cap part]
      BY <2>1, <3>1, <3>2
    <3>4. F[s] = G[s \cap part] BY <2>1, <3>3
    <3>5. QED BY <3>4
  <2>4. QED BY <2>2, <2>3
<1>7. set \in Q
  <2> HIDE DEF Q
  <2>1. set \in SUBSET set OBVIOUS
  <2>2. QED BY <1>5, <1>6, <2>1, EverySubset
<1>8. set \cap part = part OBVIOUS
<1>9. QED BY <1>1, <1>3, <1>7, <1>8

LEMMA SumOfNone ==
  ASSUME NEW f
  PROVE  SumOf(f, {}) = 0
<1>1. PICK g : IsSum(g, f, SUBSET {}) /\ SumOf(f, {}) = g[{}]
  BY FS_EmptySet, SumIs
<1>2. QED BY <1>1 DEF IsSum

-----------------------------------------------------------------------------
(* The greatest common divisor.                                            *)

\* d divides n.
Divides(d, n) == \E k \in Int : n = d * k

\* The recursion of Euclid's algorithm.
IsEuclid(f) ==
  f = [p \in Nat \X Nat |-> IF p[2] = 0 THEN p[1] ELSE f[<<p[2], p[1] % p[2]>>]]

CommonDivisors(p) == {d \in Nat : Divides(d, p[1]) /\ Divides(d, p[2])}

\* What the recursion computes, said without it.
Largest(D) == CHOOSE d \in D : \A c \in D : c <= d

GreatestOf(p) == IF p = <<0, 0>> THEN 0 ELSE Largest(CommonDivisors(p))

LEMMA DivisorIsSmaller ==
  ASSUME NEW d \in Nat, NEW n \in Nat \ {0}, Divides(d, n)
  PROVE  d <= n /\ d # 0
<1>1. PICK k \in Int : n = d * k BY DEF Divides
<1>2. d # 0 BY <1>1
<1>3. k >= 1 BY <1>1, <1>2
<1>4. d * k >= d * 1 BY <1>3
<1>5. QED BY <1>1, <1>2, <1>4

LEMMA DividesSelf ==
  ASSUME NEW n \in Int
  PROVE  Divides(n, n) /\ Divides(n, 0) /\ Divides(1, n)
<1>1. n = n * 1 /\ 0 = n * 0 /\ n = 1 * n OBVIOUS
<1>2. QED BY <1>1 DEF Divides

LEMMA QuotientAndRest ==
  ASSUME NEW a \in Nat, NEW b \in Nat \ {0}
  PROVE  \E q \in Nat : a = b * q + (a % b) /\ a % b \in 0..(b - 1)
<1>1. PICK q \in Nat : q = a \div b OBVIOUS
<1>2. a = b * q + (a % b) /\ a % b \in 0..(b - 1) BY <1>1
<1>3. QED BY <1>2

LEMMA SameDivisors ==
  ASSUME NEW a \in Nat, NEW b \in Nat \ {0}
  PROVE  CommonDivisors(<<a, b>>) = CommonDivisors(<<b, a % b>>)
<1>1. PICK q \in Nat : a = b * q + (a % b) /\ a % b \in 0..(b - 1)
  BY QuotientAndRest
<1>2. PICK r \in Nat : r = a % b BY <1>1
<1>3. ASSUME NEW d \in Nat, Divides(d, b)
      PROVE  Divides(d, a) <=> Divides(d, r)
  <2>1. PICK k \in Int : b = d * k BY <1>3 DEF Divides
  <2>2. ASSUME NEW m \in Int, a = d * m
        PROVE  Divides(d, r)
    <3>1. m - k * q \in Int /\ d * (m - k * q) = d * m - (d * k) * q
      OBVIOUS
    <3>2. r = d * (m - k * q) BY <1>1, <1>2, <2>1, <2>2, <3>1
    <3>3. QED BY <3>1, <3>2 DEF Divides
  <2>3. ASSUME NEW m \in Int, r = d * m
        PROVE  Divides(d, a)
    <3>1. m + k * q \in Int /\ d * (m + k * q) = d * m + (d * k) * q
      OBVIOUS
    <3>2. a = d * (m + k * q) BY <1>1, <1>2, <2>1, <2>3, <3>1
    <3>3. QED BY <3>1, <3>2 DEF Divides
  <2>4. QED BY <2>2, <2>3 DEF Divides
<1>4. QED BY <1>2, <1>3 DEF CommonDivisors

LEMMA LargestOfSelf ==
  ASSUME NEW a \in Nat
  PROVE  GreatestOf(<<a, 0>>) = a
<1>1. CASE a = 0 BY <1>1 DEF GreatestOf
<1>2. CASE a # 0
  <2> DEFINE D == CommonDivisors(<<a, 0>>)
  <2>1. a \in D /\ \A c \in D : c \in Nat /\ c <= a
    BY <1>2, DividesSelf, DivisorIsSmaller DEF CommonDivisors
  <2>2. \A d \in D : (\A c \in D : c <= d) => d = a BY <2>1
  <2> HIDE DEF D
  <2>3. Largest(D) = a BY <2>1, <2>2 DEF Largest
  <2>4. <<a, 0>> # <<0, 0>> BY <1>2
  <2>5. QED BY <2>3, <2>4 DEF D, GreatestOf
<1>3. QED BY <1>1, <1>2

LEMMA EuclidExists == \E f : IsEuclid(f)
<1> DEFINE f == [p \in Nat \X Nat |-> GreatestOf(p)]
<1>1. ASSUME NEW p \in Nat \X Nat
      PROVE  f[p] = IF p[2] = 0 THEN p[1] ELSE f[<<p[2], p[1] % p[2]>>]
  <2>1. PICK a \in Nat, b \in Nat : p = <<a, b>> OBVIOUS
  <2>2. CASE b = 0 BY <2>1, <2>2, LargestOfSelf
  <2>3. CASE b # 0
    <3>1. a % b \in Nat BY <2>3
    <3>2. f[p] = GreatestOf(<<a, b>>) /\ f[<<b, a % b>>] = GreatestOf(<<b, a % b>>)
      BY <2>1, <3>1
    <3>3. <<a, b>> # <<0, 0>> /\ <<b, a % b>> # <<0, 0>> BY <2>3
    <3>4. CommonDivisors(<<a, b>>) = CommonDivisors(<<b, a % b>>)
      BY <2>3, SameDivisors
    <3>5. GreatestOf(<<a, b>>) = GreatestOf(<<b, a % b>>)
      BY <3>3, <3>4 DEF GreatestOf
    <3> HIDE DEF f
    <3>6. QED BY <2>1, <2>3, <3>2, <3>5
  <2>4. QED BY <2>2, <2>3
<1>2. f = [p \in Nat \X Nat |-> IF p[2] = 0 THEN p[1] ELSE f[<<p[2], p[1] % p[2]>>]]
  <2>1. \A p \in Nat \X Nat : f[p] = IF p[2] = 0 THEN p[1] ELSE f[<<p[2], p[1] % p[2]>>]
    BY <1>1
  <2>2. f = [p \in Nat \X Nat |-> f[p]] OBVIOUS
  <2> HIDE DEF f
  <2>3. QED BY <2>1, <2>2
<1> HIDE DEF f
<1>3. QED BY <1>2 DEF IsEuclid

LEMMA EuclidStep ==
  ASSUME NEW a \in Nat, NEW b \in Nat
  PROVE  gcd(a, b) = IF b = 0 THEN a ELSE gcd(b, a % b)
<1>1. Euclid = CHOOSE f : IsEuclid(f) BY DEF Euclid, IsEuclid
<1>2. IsEuclid(Euclid) BY <1>1, EuclidExists
<1>3. PICK e : e = Euclid OBVIOUS
<1>4. e = [p \in Nat \X Nat |-> IF p[2] = 0 THEN p[1] ELSE e[<<p[2], p[1] % p[2]>>]]
  BY <1>2, <1>3 DEF IsEuclid
<1>5. e[<<a, b>>] = IF b = 0 THEN a ELSE e[<<b, a % b>>] BY <1>4
<1>6. QED BY <1>3, <1>5 DEF gcd

\* A common divisor that is a sum of multiples, and so the greatest.
IsGcd(g, a, b) ==
  \E i, j, x, y \in Int : a = g * i /\ b = g * j /\ g = a * x + b * y

LEMMA GcdStep ==
  ASSUME NEW a \in Nat, NEW b \in Nat, NEW q \in Nat, NEW r \in Nat, a = b * q + r,
         NEW g \in Nat, IsGcd(g, b, r)
  PROVE  IsGcd(g, a, b)
<1>1. PICK i \in Int, j \in Int, x \in Int, y \in Int : b = g * i /\ r = g * j /\ g = b * x + r * y
  BY DEF IsGcd
<1>2. i * q + j \in Int /\ x - q * y \in Int OBVIOUS
<1>3. a = g * (i * q + j)
  <2>1. g * (i * q + j) = (g * i) * q + g * j OBVIOUS
  <2>2. QED BY <1>1, <2>1
<1>4. g = a * y + b * (x - q * y)
  <2>1. a * y + b * (x - q * y) = (b * q + r) * y + b * (x - q * y)
    OBVIOUS
  <2>2. (b * q + r) * y + b * (x - q * y) = b * x + r * y OBVIOUS
  <2>3. QED BY <1>1, <2>1, <2>2
<1>5. PICK k \in Int, l \in Int : k = i * q + j /\ l = x - q * y BY <1>2
<1>6. a = g * k /\ b = g * i /\ g = a * y + b * l
  BY <1>1, <1>3, <1>4, <1>5
<1>7. QED BY <1>6, Zenon DEF IsGcd

\* By the least second argument for which gcd were something else.
LEMMA GcdIs ==
  ASSUME NEW a \in Nat, NEW b \in Nat
  PROVE  gcd(a, b) \in Nat /\ IsGcd(gcd(a, b), a, b)
<1> DEFINE Right(n) == \A m \in Nat : gcd(m, n) \in Nat /\ IsGcd(gcd(m, n), m, n)
           Bad == {n \in Nat : ~ Right(n)}
<1>1. ASSUME Bad # {}
      PROVE  FALSE
  <2>1. PICK n \in Bad : \A k \in Bad : n <= k
    <3>1. Bad \in SUBSET Nat OBVIOUS
    <3>2. QED BY <1>1, <3>1, LeastNatural
  <2>2. n \in Nat /\ ~ Right(n) BY <2>1
  <2>3. PICK m \in Nat : ~ (gcd(m, n) \in Nat /\ IsGcd(gcd(m, n), m, n))
    BY <2>2
  <2>4. CASE n = 0
    <3>1. gcd(m, n) = m BY <2>4, EuclidStep
    <3>2. m = m * 1 /\ 0 = m * 0 /\ m = m * 1 + 0 * 0 OBVIOUS
    <3>3. IsGcd(m, m, 0) BY <3>2 DEF IsGcd
    <3>4. QED BY <2>3, <2>4, <3>1, <3>3
  <2>5. CASE n # 0
    <3>1. PICK q \in Nat : m = n * q + (m % n) /\ m % n \in 0..(n - 1)
      BY <2>2, <2>5, QuotientAndRest
    <3>2. PICK r \in 0..(n - 1) : r = m % n BY <3>1
    <3>3. r \in Nat /\ ~ (n <= r) BY <2>2, <3>2
    <3>4. Right(r)
      <4>1. r \notin Bad
        <5> HIDE DEF Bad
        <5>1. QED BY <2>1, <3>3
      <4>2. QED BY <3>3, <4>1
    <3>5. gcd(m, n) = gcd(n, r) BY <2>2, <2>5, <3>2, EuclidStep
    <3>6. PICK g \in Nat : g = gcd(n, r) /\ IsGcd(g, n, r) BY <2>2, <3>4
    <3>7. IsGcd(g, m, n) BY <2>2, <3>1, <3>2, <3>3, <3>6, GcdStep
    <3>8. QED BY <2>3, <3>5, <3>6, <3>7
  <2>6. QED BY <2>4, <2>5
<1>2. b \notin Bad BY <1>1
<1>3. QED BY <1>2

-----------------------------------------------------------------------------
(* Numbers without a common divisor.                                       *)

Coprime(a, b) == \E x, y \in Int : a * x + b * y = 1

LEMMA AbsIsSigned ==
  ASSUME NEW n \in Int
  PROVE  Abs(n) \in Nat /\ (Abs(n) = n \/ Abs(n) = -n) /\ (n # 0 => Abs(n) # 0)
BY DEF Abs

LEMMA CoprimeSymmetric ==
  ASSUME NEW a \in Int, NEW b \in Int, Coprime(a, b)
  PROVE  Coprime(b, a)
<1>1. PICK x \in Int, y \in Int : a * x + b * y = 1 BY DEF Coprime
<1>2. b * y + a * x = 1 BY <1>1
<1>3. QED BY <1>2 DEF Coprime

LEMMA CoprimeNegated ==
  ASSUME NEW a \in Int, NEW b \in Int, Coprime(a, b)
  PROVE  Coprime(-a, b)
<1>1. PICK x \in Int, y \in Int : a * x + b * y = 1 BY DEF Coprime
<1>2. (-a) * (-x) = a * x OBVIOUS
<1>3. -x \in Int /\ (-a) * (-x) + b * y = 1 BY <1>1, <1>2
<1>4. QED BY <1>1, <1>3 DEF Coprime

LEMMA CoprimeFactor ==
  ASSUME NEW a \in Int, NEW b \in Int, NEW c \in Int, Coprime(a * c, b)
  PROVE  Coprime(a, b)
<1>1. PICK x \in Int, y \in Int : (a * c) * x + b * y = 1 BY DEF Coprime
<1>2. c * x \in Int /\ a * (c * x) = (a * c) * x OBVIOUS
<1>3. a * (c * x) + b * y = 1 BY <1>1, <1>2
<1>4. QED BY <1>1, <1>2, <1>3 DEF Coprime

LEMMA CoprimeProduct ==
  ASSUME NEW a \in Int, NEW b \in Int, NEW c \in Int, Coprime(a, c), Coprime(b, c)
  PROVE  Coprime(a * b, c)
<1>1. PICK x \in Int, y \in Int : a * x + c * y = 1 BY DEF Coprime
<1>2. PICK u \in Int, v \in Int : b * u + c * v = 1 BY DEF Coprime
<1>3. (a * b) * (x * u) + c * (a * x * v + y * b * u + c * y * v) = (a * x + c * y) * (b * u + c * v)
  OBVIOUS
<1>4. (a * b) * (x * u) + c * (a * x * v + y * b * u + c * y * v) = 1
  BY <1>1, <1>2, <1>3
<1>5. x * u \in Int /\ a * x * v + y * b * u + c * y * v \in Int OBVIOUS
<1>6. QED BY <1>4, <1>5 DEF Coprime

\* What divides a product and has nothing in common with one factor divides
\* the other.
LEMMA CoprimeDivides ==
  ASSUME NEW d \in Int, NEW a \in Int, NEW b \in Int, Coprime(d, a), Divides(d, a * b)
  PROVE  Divides(d, b)
<1>1. PICK x \in Int, y \in Int : d * x + a * y = 1 BY DEF Coprime
<1>2. PICK k \in Int : a * b = d * k BY DEF Divides
<1>3. b * (d * x + a * y) = d * (b * x) + (a * b) * y OBVIOUS
<1>4. b = d * (b * x) + (d * k) * y BY <1>1, <1>2, <1>3
<1>5. d * (b * x) + (d * k) * y = d * (b * x + k * y) OBVIOUS
<1>6. b * x + k * y \in Int OBVIOUS
<1>7. QED BY <1>4, <1>5, <1>6 DEF Divides

\* What gcd divides out leaves nothing in common.
LEMMA GcdPartsAny ==
  ASSUME NEW a \in Int, NEW b \in Int, a # 0 \/ b # 0
  PROVE  \E g \in Nat \ {0}, i, j \in Int :
           g = gcd(Abs(a), Abs(b)) /\ a = g * i /\ b = g * j /\ Coprime(i, j)
<1>1. PICK g \in Nat : g = gcd(Abs(a), Abs(b)) /\ IsGcd(g, Abs(a), Abs(b))
  BY AbsIsSigned, GcdIs
<1>2. PICK i \in Int, j \in Int, x \in Int, y \in Int :
        Abs(a) = g * i /\ Abs(b) = g * j /\ g = Abs(a) * x + Abs(b) * y
  BY <1>1 DEF IsGcd
<1>3. g # 0
  <2>1. Abs(a) # 0 \/ Abs(b) # 0 BY AbsIsSigned
  <2>2. 0 * i = 0 /\ 0 * j = 0 OBVIOUS
  <2>3. QED BY <1>2, <2>1, <2>2
<1>4. Coprime(i, j)
  <2>1. (g * i) * x + (g * j) * y = g * (i * x + j * y) OBVIOUS
  <2>2. g = g * (i * x + j * y) BY <1>2, <2>1
  <2>3. i * x + j * y = 1
    <3>1. PICK s \in Int : s = i * x + j * y OBVIOUS
    <3>2. g = g * s BY <2>2, <3>1
    <3>3. s = 1 BY <1>3, <3>2
    <3>4. QED BY <3>1, <3>3
  <2>4. QED BY <2>3 DEF Coprime
<1>5. PICK k \in Int : (k = i \/ k = -i) /\ a = g * k
  <2>1. CASE Abs(a) = a BY <1>2, <2>1
  <2>2. CASE Abs(a) = -a
    <3>1. g * (-i) = -(g * i) OBVIOUS
    <3>2. a = g * (-i) BY <1>2, <2>2, <3>1
    <3>3. QED BY <3>2
  <2>3. QED BY <2>1, <2>2, AbsIsSigned
<1>6. PICK l \in Int : (l = j \/ l = -j) /\ b = g * l
  <2>1. CASE Abs(b) = b BY <1>2, <2>1
  <2>2. CASE Abs(b) = -b
    <3>1. g * (-j) = -(g * j) OBVIOUS
    <3>2. b = g * (-j) BY <1>2, <2>2, <3>1
    <3>3. QED BY <3>2
  <2>3. QED BY <2>1, <2>2, AbsIsSigned
<1>7. Coprime(k, l)
  <2>1. Coprime(k, j) BY <1>4, <1>5, CoprimeNegated
  <2>2. Coprime(j, k) /\ Coprime(l, k)
    BY <1>6, <2>1, CoprimeSymmetric, CoprimeNegated
  <2>3. QED BY <2>2, CoprimeSymmetric
<1>8. QED BY <1>1, <1>3, <1>5, <1>6, <1>7

LEMMA GcdParts ==
  ASSUME NEW a \in Int, NEW b \in Int, b # 0
  PROVE  \E g \in Nat \ {0}, i, j \in Int :
           g = gcd(Abs(a), Abs(b)) /\ a = g * i /\ b = g * j /\ Coprime(i, j)
BY GcdPartsAny, Zenon

\* Numbers that have nothing in common have the divisor one.
LEMMA GcdOfCoprime ==
  ASSUME NEW a \in Int, NEW b \in Int, b # 0, Coprime(a, b)
  PROVE  gcd(Abs(a), Abs(b)) = 1
<1>1. PICK g \in Nat \ {0}, i \in Int, j \in Int :
        g = gcd(Abs(a), Abs(b)) /\ a = g * i /\ b = g * j /\ Coprime(i, j)
  BY GcdParts, Zenon
<1>2. PICK x \in Int, y \in Int : a * x + b * y = 1 BY DEF Coprime
<1>3. (g * i) * x + (g * j) * y = g * (i * x + j * y) OBVIOUS
<1>4. g * (i * x + j * y) = 1 BY <1>1, <1>2, <1>3
<1>5. Divides(g, 1)
  <2>1. PICK k \in Int : k = i * x + j * y OBVIOUS
  <2>2. 1 = g * k BY <1>4, <2>1
  <2>3. QED BY <2>2 DEF Divides
<1>6. g <= 1 BY <1>5, DivisorIsSmaller
<1>7. QED BY <1>1, <1>6

-----------------------------------------------------------------------------
(* Fractions in lowest terms.                                              *)

Rat == {p \in Int \X (Nat \ {0}) : Coprime(p[1], p[2])}

LEMMA RatIs ==
  ASSUME NEW p \in Rat
  PROVE  p = <<p[1], p[2]>> /\ p[1] \in Int /\ p[2] \in Nat \ {0} /\ Coprime(p[1], p[2])
BY DEF Rat

LEMMA IsRat ==
  ASSUME NEW a \in Int, NEW b \in Nat \ {0}, Coprime(a, b)
  PROVE  <<a, b>> \in Rat
BY DEF Rat

LEMMA ExactQuotient ==
  ASSUME NEW g \in Nat \ {0}, NEW i \in Int
  PROVE  (g * i) \div g = i
OBVIOUS

\* An integer is a fraction.
LEMMA IntegerIsRat ==
  ASSUME NEW n \in Int
  PROVE  Coprime(n, 1) /\ <<n, 1>> \in Rat
<1>1. n * 0 + 1 * 1 = 1 OBVIOUS
<1>2. Coprime(n, 1) BY <1>1 DEF Coprime
<1>3. QED BY <1>2, IsRat

\* The numerator zero has the denominator one, only.
LEMMA ZeroIsRat ==
  /\ Zero \in Rat /\ One \in Rat
  /\ \A p \in Rat : p[1] = 0 => p = Zero
<1>1. Zero \in Rat /\ One \in Rat BY IntegerIsRat DEF Zero, One
<1>2. ASSUME NEW p \in Rat, p[1] = 0
      PROVE  p = Zero
  <2>1. PICK b \in Nat \ {0} : p = <<0, b>> /\ Coprime(0, b)
    BY <1>2, RatIs
  <2>2. PICK x \in Int, y \in Int : 0 * x + b * y = 1
    BY <2>1 DEF Coprime
  <2>3. 1 = b * y BY <2>2
  <2>4. Divides(b, 1) BY <2>3 DEF Divides
  <2>5. b <= 1 BY <2>4, DivisorIsSmaller
  <2>6. QED BY <2>1, <2>5 DEF Zero
<1>3. QED BY <1>1, <1>2

LEMMA FracParts ==
  ASSUME NEW n \in Int, NEW d \in Int, d # 0
  PROVE  \E h, i \in Int, j \in Nat \ {0} :
           h # 0 /\ n = h * i /\ d = h * j /\ Coprime(i, j) /\ Frac(n, d) = <<i, j>>
<1>1. PICK g \in Nat \ {0}, i \in Int, j \in Int :
        g = gcd(Abs(n), Abs(d)) /\ n = g * i /\ d = g * j /\ Coprime(i, j)
  BY GcdParts, Zenon
<1>2. CASE d > 0
  <2>1. j > 0 BY <1>1, <1>2
  <2>2. (1 * n) \div g = i /\ (1 * d) \div g = j BY <1>1, ExactQuotient
  <2>3. Frac(n, d) = <<i, j>> BY <1>1, <1>2, <2>2 DEF Frac
  <2>4. g \in Int /\ g # 0 /\ j \in Nat \ {0} BY <2>1
  <2>5. QED BY <1>1, <2>3, <2>4, Zenon
<1>3. CASE d < 0
  <2>1. j < 0 BY <1>1, <1>3
  <2>2. PICK k \in Int, l \in Nat \ {0}, h \in Int : k = -i /\ l = -j /\ h = -g
    BY <2>1
  <2>3. -1 * n = g * k /\ -1 * d = g * l
    <3>1. g * (-i) = -(g * i) /\ g * (-j) = -(g * j) OBVIOUS
    <3>2. QED BY <1>1, <2>2, <3>1
  <2>4. (-1 * n) \div g = k /\ (-1 * d) \div g = l
    BY <2>3, ExactQuotient
  <2>5. Frac(n, d) = <<k, l>> BY <1>1, <1>3, <2>4 DEF Frac
  <2>6. n = h * k /\ d = h * l
    <3>1. (-g) * (-i) = g * i /\ (-g) * (-j) = g * j OBVIOUS
    <3>2. QED BY <1>1, <2>2, <3>1
  <2>7. Coprime(k, l)
    <3>1. Coprime(j, k) BY <1>1, <2>2, CoprimeNegated, CoprimeSymmetric
    <3>2. Coprime(l, k) BY <2>2, <3>1, CoprimeNegated
    <3>3. QED BY <3>2, CoprimeSymmetric
  <2>8. h # 0 BY <2>2
  <2>9. QED BY <2>5, <2>6, <2>7, <2>8, Zenon
<1>4. QED BY <1>2, <1>3

LEMMA FracIsRat ==
  ASSUME NEW n \in Int, NEW d \in Int, d # 0
  PROVE  Frac(n, d) \in Rat
<1>1. PICK h \in Int, i \in Int, j \in Nat \ {0} :
        h # 0 /\ n = h * i /\ d = h * j /\ Coprime(i, j) /\ Frac(n, d) = <<i, j>>
  BY FracParts, Zenon
<1>2. QED BY <1>1, IsRat

\* Two fractions in lowest terms that are the same number are the same.
LEMMA SameFraction ==
  ASSUME NEW a \in Int, NEW b \in Nat \ {0}, Coprime(a, b),
         NEW i \in Int, NEW j \in Nat \ {0}, Coprime(i, j), a * j = i * b
  PROVE  a = i /\ b = j
<1>1. Divides(b, j)
  <2>1. a * j = b * i OBVIOUS
  <2>2. Divides(b, a * j) BY <2>1 DEF Divides
  <2>3. QED BY <2>2, CoprimeSymmetric, CoprimeDivides
<1>2. Divides(j, b)
  <2>1. i * b = j * a OBVIOUS
  <2>2. Divides(j, i * b) BY <2>1 DEF Divides
  <2>3. QED BY <2>2, CoprimeSymmetric, CoprimeDivides
<1>3. b = j
  <2>1. b <= j /\ j <= b BY <1>1, <1>2, DivisorIsSmaller
  <2>2. QED BY <2>1
<1>4. a = i BY <1>3
<1>5. QED BY <1>3, <1>4

\* How a fraction is recognized as the one in lowest terms of n / d.
LEMMA FracIs ==
  ASSUME NEW n \in Int, NEW d \in Int, d # 0,
         NEW a \in Int, NEW b \in Nat \ {0}, Coprime(a, b), a * d = n * b
  PROVE  Frac(n, d) = <<a, b>>
<1>1. PICK h \in Int, i \in Int, j \in Nat \ {0} :
        h # 0 /\ n = h * i /\ d = h * j /\ Coprime(i, j) /\ Frac(n, d) = <<i, j>>
  BY FracParts, Zenon
<1>2. a * (h * j) = (h * i) * b BY <1>1
<1>3. h * (a * j) = h * (i * b)
  <2>1. h * (a * j) = a * (h * j) /\ h * (i * b) = (h * i) * b OBVIOUS
  <2>2. QED BY <1>2, <2>1
<1>4. a * j = i * b
  <2>1. PICK s \in Int, t \in Int : s = a * j /\ t = i * b OBVIOUS
  <2>2. h * s = h * t BY <1>3, <2>1
  <2>3. s = t BY <1>1, <2>2
  <2>4. QED BY <2>1, <2>3
<1>5. a = i /\ b = j BY <1>1, <1>4, SameFraction
<1>6. QED BY <1>1, <1>5

\* The results are in lowest terms.
LEMMA PlusIsRat ==
  ASSUME NEW p \in Rat, NEW q \in Rat
  PROVE  /\ p[2] * q[2] \in Nat \ {0} /\ p[1] * q[2] + q[1] * p[2] \in Int
         /\ Plus(p, q) \in Rat
<1>1. PICK a \in Int, b \in Nat \ {0} : p = <<a, b>> BY RatIs
<1>2. PICK c \in Int, d \in Nat \ {0} : q = <<c, d>> BY RatIs
<1>3. b * d \in Nat \ {0} /\ a * d + c * b \in Int OBVIOUS
<1>4. Frac(a * d + c * b, b * d) \in Rat BY <1>3, FracIsRat
<1>5. QED BY <1>1, <1>2, <1>3, <1>4 DEF Plus

LEMMA TimesIsRat ==
  ASSUME NEW p \in Rat, NEW q \in Rat
  PROVE  Times(p, q) \in Rat
<1>1. PICK a \in Int, b \in Nat \ {0} : p = <<a, b>> BY RatIs
<1>2. PICK c \in Int, d \in Nat \ {0} : q = <<c, d>> BY RatIs
<1>3. b * d \in Nat \ {0} /\ a * c \in Int OBVIOUS
<1>4. Frac(a * c, b * d) \in Rat BY <1>3, FracIsRat
<1>5. QED BY <1>1, <1>2, <1>4 DEF Times

LEMMA OverIsRat ==
  ASSUME NEW p \in Rat, NEW q \in Rat, q # Zero
  PROVE  Over(p, q) \in Rat
<1>1. PICK a \in Int, b \in Nat \ {0} : p = <<a, b>> BY RatIs
<1>2. PICK c \in Int, d \in Nat \ {0} : q = <<c, d>> BY RatIs
<1>3. c # 0 BY <1>2, ZeroIsRat
<1>4. b * c \in Int /\ b * c # 0 /\ a * d \in Int BY <1>3
<1>5. Frac(a * d, b * c) \in Rat BY <1>4, FracIsRat
<1>6. QED BY <1>1, <1>2, <1>5 DEF Over

LEMMA OppositeIs ==
  ASSUME NEW q \in Rat
  PROVE  Times(MinusOne, q) = <<-q[1], q[2]>> /\ <<-q[1], q[2]>> \in Rat
<1>1. PICK a \in Int, b \in Nat \ {0} : q = <<a, b>> /\ Coprime(a, b)
  BY RatIs
<1>2. Coprime(-a, b) /\ -a \in Int BY <1>1, CoprimeNegated
<1>3. (-a) * (1 * b) = (-1 * a) * b /\ -1 * a \in Int /\ 1 * b \in Int /\ 1 * b # 0
  OBVIOUS
<1>4. Frac(-1 * a, 1 * b) = <<-a, b>> BY <1>2, <1>3, FracIs
<1>5. QED BY <1>1, <1>2, <1>4, IsRat DEF Times, MinusOne

LEMMA MinusIs ==
  ASSUME NEW p \in Rat, NEW q \in Rat
  PROVE  /\ Minus(p, q) = Frac(p[1] * q[2] - q[1] * p[2], p[2] * q[2])
         /\ p[1] * q[2] - q[1] * p[2] \in Int
         /\ Minus(p, q) \in Rat
<1>1. PICK a \in Int, b \in Nat \ {0} : p = <<a, b>> BY RatIs
<1>2. PICK c \in Int, d \in Nat \ {0} : q = <<c, d>> BY RatIs
<1>3. Minus(p, q) = Plus(p, <<-c, d>>) /\ <<-c, d>> \in Rat
  BY <1>2, OppositeIs DEF Minus
<1>4. a * d + (-c) * b = a * d - c * b /\ a * d - c * b \in Int OBVIOUS
<1>5. Plus(p, <<-c, d>>) = Frac(a * d - c * b, b * d)
  BY <1>1, <1>4 DEF Plus
<1>6. Plus(p, <<-c, d>>) \in Rat BY <1>3, PlusIsRat
<1>7. QED BY <1>1, <1>2, <1>3, <1>4, <1>5, <1>6

\* Nothing changes when both sides are multiplied.
LEMMA FracScaled ==
  ASSUME NEW n \in Int, NEW d \in Int, d # 0, NEW c \in Int, c # 0
  PROVE  Frac(n * c, d * c) = Frac(n, d)
<1>1. PICK h \in Int, i \in Int, j \in Nat \ {0} :
        h # 0 /\ n = h * i /\ d = h * j /\ Coprime(i, j) /\ Frac(n, d) = <<i, j>>
  BY FracParts, Zenon
<1>2. i * ((h * j) * c) = ((h * i) * c) * j OBVIOUS
<1>3. i * (d * c) = (n * c) * j BY <1>1, <1>2
<1>4. d * c # 0 /\ d * c \in Int /\ n * c \in Int OBVIOUS
<1>5. Frac(n * c, d * c) = <<i, j>> BY <1>1, <1>3, <1>4, FracIs
<1>6. QED BY <1>1, <1>5

-----------------------------------------------------------------------------
(* Folds over finite sets.                                                 *)

\* g folds a step over sets: pick[s] is the element of s that is taken out last.
IsFold(g, base, pick, step, sets) ==
  g = [s \in sets |-> IF s = {} THEN base ELSE step[s][g[s \ {pick[s]}]]]

LEMMA FoldExists ==
  ASSUME NEW set, IsFiniteSet(set), NEW base, NEW step, NEW pick,
         \A s \in SUBSET set : s # {} => pick[s] \in s
  PROVE  \E g : IsFold(g, base, pick, step, SUBSET set)
<1> DEFINE n == Cardinality(set)
           P == {m \in Nat : \E g : IsFold(g, base, pick, step, SmallSets(set, m))}
<1>1. n \in Nat BY FS_CardinalityType
<1>2. \A s \in SUBSET set : Cardinality(s) \in Nat /\ Cardinality(s) <= n /\ IsFiniteSet(s)
  BY FS_Subset, FS_CardinalityType
<1>3. 0 \in P
  <2> DEFINE g == [s \in SmallSets(set, 0) |-> base]
  <2>1. \A s \in SmallSets(set, 0) : s = {}
    BY <1>2, FS_EmptySet DEF SmallSets
  <2>2. IsFold(g, base, pick, step, SmallSets(set, 0))
    BY <2>1 DEF IsFold
  <2>3. QED BY <2>2
<1>4. ASSUME NEW m \in 1..n, m - 1 \in P
      PROVE  m \in P
  <2> DEFINE A == SmallSets(set, m)
             B == SmallSets(set, m - 1)
  <2>1. m \in Nat /\ m - 1 \in Nat BY <1>1
  <2>2. PICK g : IsFold(g, base, pick, step, B) BY <1>4
  <2> DEFINE f == [s \in A |-> IF s \in B THEN g[s] ELSE step[s][g[s \ {pick[s]}]]]
  <2>3. B \subseteq A /\ {} \in B
    BY <1>2, <2>1, FS_EmptySet DEF SmallSets
  <2>4. ASSUME NEW s \in A, s # {}
        PROVE  s \ {pick[s]} \in B
    <3>1. s \in SUBSET set /\ Cardinality(s) <= m BY DEF SmallSets
    <3>2. PICK x \in s : x = pick[s] BY <2>4, <3>1
    <3>3. Cardinality(s) \in Nat \ {0} /\ s \ {x} \in SUBSET set
          /\ Cardinality(s \ {x}) = Cardinality(s) - 1
      BY <3>1, OneLess
    <3>4. Cardinality(s \ {x}) <= m - 1 BY <2>1, <3>1, <3>3
    <3>5. s \ {x} \in SmallSets(set, m - 1) BY <3>3, <3>4 DEF SmallSets
    <3>6. QED BY <3>2, <3>5
  <2>5. ASSUME NEW s \in A
        PROVE  f[s] = IF s = {} THEN base ELSE step[s][f[s \ {pick[s]}]]
    <3>1. CASE s = {}
      <4>1. g[{}] = base BY <2>2, <2>3 DEF IsFold
      <4>2. QED BY <2>3, <3>1, <4>1
    <3>2. CASE s # {}
      <4>1. s \ {pick[s]} \in B BY <2>4, <3>2
      <4>2. f[s \ {pick[s]}] = g[s \ {pick[s]}] BY <2>3, <4>1
      <4>3. s \in B => g[s] = step[s][g[s \ {pick[s]}]]
        BY <2>2, <3>2 DEF IsFold
      <4>4. f[s] = step[s][g[s \ {pick[s]}]] BY <4>3
      <4> HIDE DEF f
      <4>5. QED BY <3>2, <4>2, <4>4
    <3>3. QED BY <3>1, <3>2
  <2>6. IsFold(f, base, pick, step, A)
    <3> HIDE DEF B
    <3>1. f = [s \in A |-> f[s]] OBVIOUS
    <3> HIDE DEF f
    <3>2. QED BY <2>5, <3>1, ZenonT(60) DEF IsFold
  <2>7. QED BY <2>1, <2>6
<1>5. n \in P
  <2> HIDE DEF P, n
  <2>1. QED BY <1>1, <1>3, <1>4, UpTo
<1>6. SmallSets(set, n) = SUBSET set BY <1>2 DEF SmallSets
<1>7. PICK g : IsFold(g, base, pick, step, SmallSets(set, n)) BY <1>5
<1> HIDE DEF n
<1>8. QED BY <1>6, <1>7

\* What holds of the empty set, and of a set if it holds of it without the element
\* that is picked, holds of every subset of a finite set.
LEMMA EveryPicked ==
  ASSUME NEW set, IsFiniteSet(set), NEW pick, NEW Q, {} \in Q,
         \A s \in SUBSET set : s # {} => pick[s] \in s,
         \A s \in SUBSET set : s # {} /\ s \ {pick[s]} \in Q => s \in Q
  PROVE  \A s \in SUBSET set : s \in Q
<1> DEFINE n == Cardinality(set)
           P == {m \in 0..n : \A s \in SmallSets(set, m) : s \in Q}
<1>1. n \in Nat BY FS_CardinalityType
<1>2. \A s \in SUBSET set : Cardinality(s) \in Nat /\ Cardinality(s) <= n /\ IsFiniteSet(s)
  BY FS_Subset, FS_CardinalityType
<1>3. 0 \in P
  <2>1. \A s \in SmallSets(set, 0) : s = {}
    BY <1>2, FS_EmptySet DEF SmallSets
  <2>2. 0 \in 0..n BY <1>1
  <2>3. QED BY <2>1, <2>2, Zenon
<1>4. ASSUME NEW m \in 1..n, m - 1 \in P
      PROVE  m \in P
  <2>1. m \in Nat /\ m - 1 \in Nat /\ m \in 0..n BY <1>1
  <2>2. ASSUME NEW s \in SmallSets(set, m), s # {}
        PROVE  s \in Q
    <3>1. s \in SUBSET set /\ Cardinality(s) <= m BY DEF SmallSets
    <3>2. PICK x \in s : x = pick[s] BY <2>2, <3>1
    <3>3. Cardinality(s) \in Nat \ {0} /\ s \ {x} \in SUBSET set /\ Cardinality(s \ {x}) = Cardinality(s) - 1
      BY <3>1, OneLess
    <3>4. Cardinality(s \ {x}) <= m - 1 BY <2>1, <3>1, <3>3
    <3>5. s \ {x} \in SmallSets(set, m - 1) BY <3>3, <3>4 DEF SmallSets
    <3>6. s \ {x} \in Q BY <1>4, <3>5
    <3>7. QED BY <2>2, <3>1, <3>2, <3>6
  <2>3. QED BY <2>1, <2>2
<1>5. n \in P
  <2> HIDE DEF P, n
  <2>1. QED BY <1>1, <1>3, <1>4, UpTo
<1>6. \A s \in SUBSET set : s \in SmallSets(set, n)
  BY <1>2 DEF SmallSets
<1>7. QED BY <1>5, <1>6

-----------------------------------------------------------------------------
(* The laws of rational numbers.                                           *)

LEMMA RatUnits ==
  ASSUME NEW q \in Rat
  PROVE  /\ Plus(Zero, q) = q /\ Plus(q, Zero) = q
         /\ Times(One, q) = q /\ Times(q, One) = q
         /\ Times(q, Zero) = Zero /\ Times(Zero, q) = Zero
<1> DEFINE a == q[1]
           b == q[2]
<1>1. q = <<a, b>> /\ a \in Int /\ b \in Nat \ {0} /\ Coprime(a, b)
  BY RatIs
<1> HIDE DEF a, b
<1>2. q[1] = a /\ q[2] = b BY <1>1
<1>3. /\ Zero[1] = 0 /\ Zero[2] = 1 /\ One[1] = 1 /\ One[2] = 1
      /\ Zero = <<0, 1>> /\ Coprime(0, 1)
  <2>1. Coprime(0, 1)
    <3>1. 0 * 0 + 1 * 1 = 1 /\ 0 \in Int /\ 1 \in Int OBVIOUS
    <3>2. QED BY <3>1 DEF Coprime
  <2>2. QED BY <2>1 DEF Zero, One
<1>4. Plus(Zero, q) = Frac(0 * b + a * 1, 1 * b) /\ Plus(q, Zero) = Frac(a * 1 + 0 * b, b * 1)
  BY <1>2, <1>3 DEF Plus
<1>5. Times(One, q) = Frac(1 * a, 1 * b) /\ Times(q, One) = Frac(a * 1, b * 1)
  BY <1>2, <1>3 DEF Times
<1>6. Times(q, Zero) = Frac(a * 0, b * 1) /\ Times(Zero, q) = Frac(0 * a, 1 * b)
  BY <1>2, <1>3 DEF Times
<1>7. /\ 0 * b + a * 1 = a /\ a * 1 + 0 * b = a /\ 1 * b = b /\ b * 1 = b /\ 1 * a = a /\ a * 1 = a
      /\ a * 0 = 0 /\ 0 * a = 0
  BY <1>1
<1>8. Frac(a, b) = <<a, b>> /\ Frac(0, b) = <<0, 1>>
  <2>1. a * b = a * b /\ 0 * b = 0 * 1 /\ b # 0 /\ b \in Int BY <1>1
  <2>2. Frac(a, b) = <<a, b>> BY <1>1, <2>1, FracIs
  <2>3. Frac(0, b) = <<0, 1>> BY <1>1, <1>3, <2>1, FracIs
  <2>4. QED BY <2>2, <2>3
<1>9. QED BY <1>1, <1>3, <1>4, <1>5, <1>6, <1>7, <1>8

LEMMA TimesIsZero ==
  ASSUME NEW p \in Rat, NEW q \in Rat, p # Zero, q # Zero
  PROVE  Times(p, q) # Zero
<1>1. /\ p[1] \in Int /\ q[1] \in Int /\ p[2] \in Nat \ {0} /\ q[2] \in Nat \ {0}
      /\ p[1] # 0 /\ q[1] # 0
  BY RatIs, ZeroIsRat
<1> DEFINE n == p[1] * q[1]
           d == p[2] * q[2]
<1>2. n \in Int /\ n # 0 /\ d \in Int /\ d # 0 BY <1>1
<1>3. Times(p, q) = Frac(n, d) BY DEF Times
<1> HIDE DEF n, d
<1>4. PICK h, i \in Int, j \in Nat \ {0} :
        h # 0 /\ n = h * i /\ d = h * j /\ Coprime(i, j) /\ Frac(n, d) = <<i, j>>
  BY <1>2, FracParts
<1>5. i # 0 BY <1>2, <1>4
<1>6. QED BY <1>3, <1>4, <1>5 DEF Zero

LEMMA UnitsAreRat == MinusOne \in Rat /\ MinusOne # Zero /\ One # Zero /\ Zero \in Rat /\ One \in Rat
<1>1. <<-1, 1>> \in Rat BY IntegerIsRat
<1>2. QED BY <1>1, ZeroIsRat DEF MinusOne, Zero, One

\* One over a number other than zero is another such number.
LEMMA OverIsZero ==
  ASSUME NEW q \in Rat, q # Zero
  PROVE  Over(One, q) \in Rat /\ Over(One, q) # Zero
<1>1. q[1] \in Int /\ q[1] # 0 /\ q[2] \in Nat \ {0} BY RatIs, ZeroIsRat
<1>2. Over(One, q) \in Rat BY ZeroIsRat, OverIsRat
<1>3. Over(One, q) = Frac(q[2], q[1])
  <2>1. Over(One, q) = Frac(1 * q[2], 1 * q[1]) BY DEF Over, One
  <2>2. QED BY <1>1, <2>1
<1> DEFINE n == q[2]
           d == q[1]
<1>4. n \in Int /\ d \in Int /\ n # 0 /\ d # 0 /\ Over(One, q) = Frac(n, d)
  BY <1>1, <1>3
<1> HIDE DEF n, d
<1>5. PICK h, i \in Int, j \in Nat \ {0} :
        h # 0 /\ n = h * i /\ d = h * j /\ Coprime(i, j) /\ Frac(n, d) = <<i, j>>
  BY <1>4, FracParts
<1>6. i # 0 BY <1>4, <1>5
<1>7. QED BY <1>2, <1>4, <1>5, <1>6 DEF Zero

\* p is the fraction n / d.
IsQuotient(p, n, d) == p \in Rat /\ n \in Int /\ d \in Int /\ d # 0 /\ p[1] * d = n * p[2]

LEMMA IsItself ==
  ASSUME NEW p \in Rat
  PROVE  IsQuotient(p, p[1], p[2])
<1>1. p[1] \in Int /\ p[2] \in Int /\ p[2] # 0 BY RatIs
<1>2. QED BY <1>1 DEF IsQuotient

LEMMA IsFraction ==
  ASSUME NEW n \in Int, NEW d \in Int, d # 0
  PROVE  IsQuotient(Frac(n, d), n, d)
<1>1. PICK h, i \in Int, j \in Nat \ {0} :
        h # 0 /\ n = h * i /\ d = h * j /\ Coprime(i, j) /\ Frac(n, d) = <<i, j>>
  BY FracParts
<1>2. Frac(n, d) \in Rat BY FracIsRat
<1>3. h \in Int /\ i * (h * j) = (h * i) * j BY <1>1
<1>4. QED BY <1>1, <1>2, <1>3 DEF IsQuotient

\* A fraction is one rational number.
LEMMA SameIs ==
  ASSUME NEW p, NEW n, NEW d, IsQuotient(p, n, d), NEW q, NEW m, NEW e, IsQuotient(q, m, e), n * e = m * d
  PROVE  p = q
<1>1. /\ p \in Rat /\ q \in Rat
      /\ n \in Int /\ d \in Int /\ d # 0 /\ m \in Int /\ e \in Int /\ e # 0
      /\ p[1] * d = n * p[2] /\ q[1] * e = m * q[2]
  BY DEF IsQuotient
<1> DEFINE a == p[1]
           b == p[2]
           i == q[1]
           j == q[2]
<1>2. /\ p = <<a, b>> /\ a \in Int /\ b \in Nat \ {0} /\ Coprime(a, b)
      /\ q = <<i, j>> /\ i \in Int /\ j \in Nat \ {0} /\ Coprime(i, j)
  BY <1>1, RatIs
<1>3. a * d = n * b /\ i * e = m * j BY <1>1
<1> HIDE DEF a, b, i, j
<1>4. (a * j) * (d * e) = (i * b) * (d * e)
  <2>1. (a * j) * (d * e) = (a * d) * (j * e) BY <1>1, <1>2
  <2>2. (n * b) * (j * e) = (n * e) * (b * j) BY <1>1, <1>2
  <2>3. (m * d) * (b * j) = (m * j) * (d * b) BY <1>1, <1>2
  <2>4. (i * e) * (d * b) = (i * b) * (d * e) BY <1>1, <1>2
  <2>5. QED BY <1>3, <2>1, <2>2, <2>3, <2>4
<1>5. a * j = i * b
  <2> DEFINE x == a * j
             y == i * b
             z == d * e
  <2>1. x \in Int /\ y \in Int /\ z \in Int /\ z # 0 /\ x * z = y * z
    BY <1>1, <1>2, <1>4
  <2> HIDE DEF x, y, z
  <2>2. x = y BY <2>1
  <2>3. QED BY <2>2 DEF x, y
<1>6. a = i /\ b = j BY <1>2, <1>5, SameFraction
<1>7. QED BY <1>2, <1>6

LEMMA PlusFractions ==
  ASSUME NEW p, NEW n, NEW d, IsQuotient(p, n, d), NEW q, NEW m, NEW e, IsQuotient(q, m, e)
  PROVE  IsQuotient(Plus(p, q), n * e + m * d, d * e)
<1>1. /\ p \in Rat /\ q \in Rat
      /\ n \in Int /\ d \in Int /\ d # 0 /\ m \in Int /\ e \in Int /\ e # 0
      /\ p[1] * d = n * p[2] /\ q[1] * e = m * q[2]
  BY DEF IsQuotient
<1> DEFINE a == p[1]
           b == p[2]
           i == q[1]
           j == q[2]
           s == Plus(p, q)
           x == s[1]
           y == s[2]
<1>2. a \in Int /\ b \in Int /\ b # 0 /\ i \in Int /\ j \in Int /\ j # 0
  BY <1>1, RatIs
<1>3. a * d = n * b /\ i * e = m * j BY <1>1
<1>4. IsQuotient(s, a * j + i * b, b * j)
  <2>1. s = Frac(a * j + i * b, b * j) BY DEF Plus
  <2> HIDE DEF s, a, b, i, j
  <2>2. a * j + i * b \in Int /\ b * j \in Int /\ b * j # 0 BY <1>2
  <2>3. QED BY <2>1, <2>2, IsFraction
<1>5. s \in Rat /\ x * (b * j) = (a * j + i * b) * y
  BY <1>4 DEF IsQuotient
<1>6. x \in Int /\ y \in Int BY <1>5, RatIs
<1> HIDE DEF a, b, i, j, x, y
<1> DEFINE l == n * e + m * d
           k == d * e
           u == b * j
<1>7. l \in Int /\ k \in Int /\ k # 0 /\ u \in Int /\ u # 0
  BY <1>1, <1>2
<1>8. (x * k) * u = (l * y) * u
  <2>1. (x * (d * e)) * (b * j) = (x * (b * j)) * (d * e)
    BY <1>1, <1>2, <1>6
  <2>2. ((a * j + i * b) * y) * (d * e) = (((a * d) * (j * e)) + ((i * e) * (b * d))) * y
    BY <1>1, <1>2, <1>6
  <2>3. (((n * b) * (j * e)) + ((m * j) * (b * d))) * y = ((n * e + m * d) * y) * (b * j)
    BY <1>1, <1>2, <1>6
  <2>4. QED BY <1>3, <1>5, <2>1, <2>2, <2>3
<1>9. x * k = l * y
  <2> DEFINE f == x * k
             g == l * y
  <2>1. f \in Int /\ g \in Int /\ f * u = g * u BY <1>6, <1>7, <1>8
  <2> HIDE DEF f, g, u
  <2>2. f = g BY <1>7, <2>1
  <2>3. QED BY <2>2 DEF f, g
<1>10. IsQuotient(s, l, k)
  <2> HIDE DEF l, k, s
  <2>1. QED BY <1>5, <1>7, <1>9 DEF IsQuotient, x, y
<1>11. QED BY <1>10

LEMMA TimesFractions ==
  ASSUME NEW p, NEW n, NEW d, IsQuotient(p, n, d), NEW q, NEW m, NEW e, IsQuotient(q, m, e)
  PROVE  IsQuotient(Times(p, q), n * m, d * e)
<1>1. /\ p \in Rat /\ q \in Rat
      /\ n \in Int /\ d \in Int /\ d # 0 /\ m \in Int /\ e \in Int /\ e # 0
      /\ p[1] * d = n * p[2] /\ q[1] * e = m * q[2]
  BY DEF IsQuotient
<1> DEFINE a == p[1]
           b == p[2]
           i == q[1]
           j == q[2]
           s == Times(p, q)
           x == s[1]
           y == s[2]
<1>2. a \in Int /\ b \in Int /\ b # 0 /\ i \in Int /\ j \in Int /\ j # 0
  BY <1>1, RatIs
<1>3. a * d = n * b /\ i * e = m * j BY <1>1
<1>4. IsQuotient(s, a * i, b * j)
  <2>1. s = Frac(a * i, b * j) BY DEF Times
  <2> HIDE DEF s, a, b, i, j
  <2>2. a * i \in Int /\ b * j \in Int /\ b * j # 0 BY <1>2
  <2>3. QED BY <2>1, <2>2, IsFraction
<1>5. s \in Rat /\ x * (b * j) = (a * i) * y BY <1>4 DEF IsQuotient
<1>6. x \in Int /\ y \in Int BY <1>5, RatIs
<1> HIDE DEF a, b, i, j, x, y
<1> DEFINE l == n * m
           k == d * e
           u == b * j
<1>7. l \in Int /\ k \in Int /\ k # 0 /\ u \in Int /\ u # 0
  BY <1>1, <1>2
<1>8. (x * k) * u = (l * y) * u
  <2>1. (x * (d * e)) * (b * j) = (x * (b * j)) * (d * e)
    BY <1>1, <1>2, <1>6
  <2>2. ((a * i) * y) * (d * e) = ((a * d) * (i * e)) * y
    BY <1>1, <1>2, <1>6
  <2>3. ((n * b) * (m * j)) * y = ((n * m) * y) * (b * j)
    BY <1>1, <1>2, <1>6
  <2>4. QED BY <1>3, <1>5, <2>1, <2>2, <2>3
<1>9. x * k = l * y
  <2> DEFINE f == x * k
             g == l * y
  <2>1. f \in Int /\ g \in Int /\ f * u = g * u BY <1>6, <1>7, <1>8
  <2> HIDE DEF f, g, u
  <2>2. f = g BY <1>7, <2>1
  <2>3. QED BY <2>2 DEF f, g
<1>10. IsQuotient(s, l, k)
  <2> HIDE DEF l, k, s
  <2>1. QED BY <1>5, <1>7, <1>9 DEF IsQuotient, x, y
<1>11. QED BY <1>10

LEMMA RatCommutes ==
  ASSUME NEW p \in Rat, NEW q \in Rat
  PROVE  Plus(p, q) = Plus(q, p) /\ Times(p, q) = Times(q, p)
<1>1. p[1] \in Int /\ p[2] \in Int /\ q[1] \in Int /\ q[2] \in Int
  BY RatIs
<1>2. p[1] * q[2] + q[1] * p[2] = q[1] * p[2] + p[1] * q[2] /\ p[2] * q[2] = q[2] * p[2]
      /\ p[1] * q[1] = q[1] * p[1]
  BY <1>1
<1>3. QED BY <1>2 DEF Plus, Times

LEMMA PlusAssociates ==
  ASSUME NEW p \in Rat, NEW q \in Rat, NEW r \in Rat
  PROVE  Plus(Plus(p, q), r) = Plus(p, Plus(q, r))
<1> DEFINE a == p[1]
           b == p[2]
           i == q[1]
           j == q[2]
           x == r[1]
           y == r[2]
<1>1. IsQuotient(p, a, b) /\ IsQuotient(q, i, j) /\ IsQuotient(r, x, y)
  BY IsItself
<1>2. a \in Int /\ b \in Int /\ i \in Int /\ j \in Int /\ x \in Int /\ y \in Int
  BY RatIs
<1> HIDE DEF a, b, i, j, x, y
<1>3. IsQuotient(Plus(Plus(p, q), r), (a * j + i * b) * y + x * (b * j), (b * j) * y)
  BY <1>1, PlusFractions
<1>4. IsQuotient(Plus(p, Plus(q, r)), a * (j * y) + (i * y + x * j) * b, b * (j * y))
  BY <1>1, PlusFractions
<1>5. /\ (a * j + i * b) * y + x * (b * j) = a * (j * y) + (i * y + x * j) * b
      /\ (b * j) * y = b * (j * y)
  BY <1>2
<1> DEFINE n == a * (j * y) + (i * y + x * j) * b
           d == b * (j * y)
<1>6. IsQuotient(Plus(Plus(p, q), r), n, d) /\ IsQuotient(Plus(p, Plus(q, r)), n, d)
  BY <1>3, <1>4, <1>5
<1> HIDE DEF n, d
<1>7. QED BY <1>6, SameIs

LEMMA TimesAssociates ==
  ASSUME NEW p \in Rat, NEW q \in Rat, NEW r \in Rat
  PROVE  Times(Times(p, q), r) = Times(p, Times(q, r))
<1> DEFINE a == p[1]
           b == p[2]
           i == q[1]
           j == q[2]
           x == r[1]
           y == r[2]
<1>1. IsQuotient(p, a, b) /\ IsQuotient(q, i, j) /\ IsQuotient(r, x, y)
  BY IsItself
<1>2. a \in Int /\ b \in Int /\ i \in Int /\ j \in Int /\ x \in Int /\ y \in Int
  BY RatIs
<1> HIDE DEF a, b, i, j, x, y
<1>3. IsQuotient(Times(Times(p, q), r), (a * i) * x, (b * j) * y)
  BY <1>1, TimesFractions
<1>4. IsQuotient(Times(p, Times(q, r)), a * (i * x), b * (j * y))
  BY <1>1, TimesFractions
<1>5. (a * i) * x = a * (i * x) /\ (b * j) * y = b * (j * y) BY <1>2
<1> DEFINE n == a * (i * x)
           d == b * (j * y)
<1>6. IsQuotient(Times(Times(p, q), r), n, d) /\ IsQuotient(Times(p, Times(q, r)), n, d)
  BY <1>3, <1>4, <1>5
<1> HIDE DEF n, d
<1>7. QED BY <1>6, SameIs

LEMMA TimesDistributes ==
  ASSUME NEW p \in Rat, NEW q \in Rat, NEW r \in Rat
  PROVE  Times(p, Plus(q, r)) = Plus(Times(p, q), Times(p, r))
<1> DEFINE a == p[1]
           b == p[2]
           i == q[1]
           j == q[2]
           x == r[1]
           y == r[2]
<1>1. IsQuotient(p, a, b) /\ IsQuotient(q, i, j) /\ IsQuotient(r, x, y)
  BY IsItself
<1>2. a \in Int /\ b \in Int /\ i \in Int /\ j \in Int /\ x \in Int /\ y \in Int
  BY RatIs
<1> HIDE DEF a, b, i, j, x, y
<1> DEFINE n == a * (i * y + x * j)
           d == b * (j * y)
           m == (a * i) * (b * y) + (a * x) * (b * j)
           e == (b * j) * (b * y)
<1>3. IsQuotient(Times(p, Plus(q, r)), n, d)
  BY <1>1, PlusFractions, TimesFractions
<1>4. IsQuotient(Plus(Times(p, q), Times(p, r)), m, e)
  <2>1. IsQuotient(Times(p, q), a * i, b * j) /\ IsQuotient(Times(p, r), a * x, b * y)
    BY <1>1, TimesFractions
  <2>2. QED BY <2>1, PlusFractions
<1>5. n * e = m * d
  <2>1. m = (a * (i * y + x * j)) * b /\ e = (b * (j * y)) * b BY <1>2
  <2> DEFINE u == a * (i * y + x * j)
             w == b * (j * y)
  <2>2. u \in Int /\ w \in Int /\ m = u * b /\ e = w * b /\ n = u /\ d = w
    BY <1>2, <2>1
  <2> HIDE DEF u, w, m, e, n, d
  <2>3. u * (w * b) = (u * b) * w BY <1>2, <2>2
  <2>4. QED BY <2>2, <2>3
<1> HIDE DEF n, d, m, e
<1>6. QED BY <1>3, <1>4, <1>5, SameIs

LEMMA OppositesCancel ==
  ASSUME NEW p \in Rat
  PROVE  Plus(p, Times(MinusOne, p)) = Zero
<1> DEFINE a == p[1]
           b == p[2]
<1>1. IsQuotient(p, a, b) /\ IsQuotient(MinusOne, -1, 1) /\ IsQuotient(Zero, 0, 1)
  <2>1. MinusOne[1] = -1 /\ MinusOne[2] = 1 /\ Zero[1] = 0 /\ Zero[2] = 1
    BY DEF MinusOne, Zero
  <2>2. QED BY <2>1, IsItself, UnitsAreRat
<1>2. a \in Int /\ b \in Int BY RatIs
<1> HIDE DEF a, b
<1>3. IsQuotient(Times(MinusOne, p), (-1) * a, 1 * b)
  BY <1>1, TimesFractions
<1>4. IsQuotient(Plus(p, Times(MinusOne, p)), a * (1 * b) + ((-1) * a) * b, b * (1 * b))
  BY <1>1, <1>3, PlusFractions
<1>5. (a * (1 * b) + ((-1) * a) * b) * 1 = 0 * (b * (1 * b)) BY <1>2
<1>6. QED BY <1>1, <1>4, <1>5, SameIs

LEMMA MinusIsZero ==
  ASSUME NEW p \in Rat, NEW q \in Rat
  PROVE  Minus(p, q) = Zero <=> p = q
<1> DEFINE a == p[1]
           b == p[2]
           i == q[1]
           j == q[2]
           n == a * j - i * b
           d == b * j
<1>1. IsQuotient(p, a, b) /\ IsQuotient(q, i, j) BY IsItself
<1>2. a \in Int /\ b \in Int /\ b # 0 /\ i \in Int /\ j \in Int /\ j # 0
  BY RatIs
<1>3. Minus(p, q) = Frac(n, d) BY MinusIs
<1> HIDE DEF a, b, i, j
<1>4. n \in Int /\ d \in Int /\ d # 0 BY <1>2
<1> HIDE DEF n, d
<1>5. IsQuotient(Minus(p, q), n, d) BY <1>3, <1>4, IsFraction
<1>6. ASSUME Minus(p, q) = Zero
      PROVE  p = q
  <2>1. Zero[1] * d = n * Zero[2] BY <1>5, <1>6 DEF IsQuotient
  <2>2. n = 0 BY <1>4, <2>1 DEF Zero
  <2>3. a * j = i * b BY <1>2, <2>2 DEF n
  <2>4. QED BY <1>1, <2>3, SameIs
<1>7. ASSUME p = q
      PROVE  Minus(p, q) = Zero
  BY <1>7, OppositesCancel DEF Minus
<1>8. QED BY <1>6, <1>7

LEMMA SignOfQuotient ==
  ASSUME NEW x \in Int, NEW y \in Int, y > 0, NEW n \in Int, NEW d \in Int, d > 0, x * d = n * y
  PROVE  x >= 0 <=> n >= 0
<1>1. x >= 0 => x * d >= 0 OBVIOUS
<1>2. x < 0 => x * d < 0 OBVIOUS
<1>3. n >= 0 => n * y >= 0 OBVIOUS
<1>4. n < 0 => n * y < 0 OBVIOUS
<1>5. QED BY <1>1, <1>2, <1>3, <1>4

LEMMA AtLeastIs ==
  ASSUME NEW p \in Rat, NEW q \in Rat
  PROVE  AtLeast(Minus(p, q), Zero) <=> AtLeast(p, q)
<1> DEFINE a == p[1]
           b == p[2]
           i == q[1]
           j == q[2]
           n == a * j - i * b
           d == b * j
           s == Minus(p, q)
           x == s[1]
           y == s[2]
<1>1. a \in Int /\ b \in Int /\ b > 0 /\ i \in Int /\ j \in Int /\ j > 0
  BY RatIs
<1>2. s = Frac(n, d) BY MinusIs
<1>3. AtLeast(p, q) <=> a * j >= i * b BY DEF AtLeast
<1>4. AtLeast(s, Zero) <=> x * 1 >= 0 * y BY DEF AtLeast, Zero
<1> HIDE DEF a, b, i, j
<1>5. n \in Int /\ d \in Int /\ d > 0 BY <1>1
<1>6. n >= 0 <=> a * j >= i * b BY <1>1
<1> HIDE DEF n, d, s
<1>7. IsQuotient(s, n, d) BY <1>2, <1>5, IsFraction
<1>8. s \in Rat /\ x * d = n * y BY <1>7 DEF IsQuotient
<1>9. x \in Int /\ y \in Int /\ y > 0 BY <1>8, RatIs
<1> HIDE DEF x, y
<1>10. x >= 0 <=> n >= 0 BY <1>5, <1>8, <1>9, SignOfQuotient
<1>11. QED BY <1>3, <1>4, <1>6, <1>9, <1>10 DEF s

LEMMA OverIs ==
  ASSUME NEW p \in Rat, NEW q \in Rat, q # Zero
  PROVE  /\ Over(p, q) = Times(p, Over(One, q))
         /\ Times(q, Over(One, q)) = One
<1> DEFINE a == p[1]
           b == p[2]
           i == q[1]
           j == q[2]
<1>1. IsQuotient(p, a, b) /\ IsQuotient(q, i, j) /\ IsQuotient(One, 1, 1)
  <2>1. One[1] = 1 /\ One[2] = 1 /\ One \in Rat BY UnitsAreRat DEF One
  <2>2. IsQuotient(One, One[1], One[2]) BY <2>1, IsItself
  <2>3. QED BY <2>1, <2>2, IsItself
<1>2. a \in Int /\ b \in Int /\ b # 0 /\ i \in Int /\ j \in Int /\ j # 0
  BY RatIs
<1>3. i # 0 BY ZeroIsRat
<1>4. Over(p, q) = Frac(a * j, b * i) /\ Over(One, q) = Frac(1 * j, 1 * i)
  BY DEF Over, One
<1> HIDE DEF a, b, i, j
<1>5. a * j \in Int /\ b * i \in Int /\ b * i # 0 /\ 1 * j = j /\ 1 * i = i
  BY <1>2, <1>3
<1>6. IsQuotient(Over(p, q), a * j, b * i) /\ IsQuotient(Over(One, q), j, i)
  BY <1>2, <1>3, <1>4, <1>5, IsFraction
<1>7. IsQuotient(Times(p, Over(One, q)), a * j, b * i) /\ IsQuotient(Times(q, Over(One, q)), i * j, j * i)
  BY <1>1, <1>6, TimesFractions
<1>8. Over(p, q) = Times(p, Over(One, q)) BY <1>6, <1>7, SameIs
<1>9. Times(q, Over(One, q)) = One
  <2>1. (i * j) * 1 = 1 * (j * i) BY <1>2
  <2>2. QED BY <1>1, <1>7, <2>1, SameIs
<1>10. QED BY <1>8, <1>9

LEMMA SumIsZero ==
  ASSUME NEW p \in Rat, NEW q \in Rat
  PROVE  Plus(p, q) = Zero <=> q = Times(MinusOne, p)
<1> DEFINE m == Times(MinusOne, p)
<1>1. m \in Rat BY UnitsAreRat, TimesIsRat
<1>2. Plus(p, m) = Zero BY OppositesCancel
<1> HIDE DEF m
<1>3. ASSUME Plus(p, q) = Zero
      PROVE  q = m
  <2>1. Plus(Plus(m, p), q) = Plus(m, Plus(p, q))
    BY <1>1, PlusAssociates
  <2>2. Plus(m, p) = Zero BY <1>1, <1>2, RatCommutes
  <2>3. Plus(Zero, q) = q /\ Plus(m, Zero) = m BY <1>1, RatUnits
  <2>4. QED BY <1>3, <2>1, <2>2, <2>3
<1>4. QED BY <1>2, <1>3 DEF m

LEMMA SolvedIs ==
  ASSUME NEW c \in Rat, c # Zero, NEW x \in Rat, NEW y \in Rat
  PROVE  Times(c, x) = y <=> x = Over(y, c)
<1> DEFINE u == Over(One, c)
<1>1. u \in Rat /\ Times(c, u) = One BY OverIs, OverIsZero
<1>2. Over(y, c) = Times(y, u) BY OverIs
<1> HIDE DEF u
<1>3. ASSUME Times(c, x) = y
      PROVE  x = Times(y, u)
  <2>1. Times(Times(c, x), u) = Times(u, Times(c, x))
    <3>1. Times(c, x) \in Rat BY TimesIsRat
    <3>2. QED BY <1>1, <3>1, RatCommutes
  <2>2. Times(u, Times(c, x)) = Times(Times(u, c), x)
    BY <1>1, TimesAssociates
  <2>3. Times(u, c) = One BY <1>1, RatCommutes
  <2>4. Times(One, x) = x BY RatUnits
  <2>5. QED BY <1>3, <2>1, <2>2, <2>3, <2>4
<1>4. Times(c, Times(y, u)) = y
  <2>1. Times(y, u) = Times(u, y) BY <1>1, RatCommutes
  <2>2. Times(c, Times(u, y)) = Times(Times(c, u), y)
    BY <1>1, TimesAssociates
  <2>3. Times(One, y) = y BY RatUnits
  <2>4. QED BY <1>1, <2>1, <2>2, <2>3
<1>5. QED BY <1>2, <1>3, <1>4

\* A constant and a multiple: the root.
LEMMA RootIs ==
  ASSUME NEW a \in Rat, NEW c \in Rat, c # Zero, NEW x \in Rat
  PROVE  /\ Over(Times(MinusOne, a), c) \in Rat
         /\ Plus(a, Times(c, x)) = Zero <=> x = Over(Times(MinusOne, a), c)
<1> DEFINE m == Times(MinusOne, a)
           t == Times(c, x)
<1>1. m \in Rat /\ t \in Rat BY UnitsAreRat, TimesIsRat
<1>2. Plus(a, t) = Zero <=> t = m BY <1>1, SumIsZero
<1> HIDE DEF m
<1>3. t = m <=> x = Over(m, c) BY <1>1, SolvedIs
<1>4. Over(m, c) \in Rat BY <1>1, OverIsRat
<1>5. QED BY <1>2, <1>3, <1>4 DEF m

\* Two multiples with opposite coefficients.
LEMMA OppositeMultiples ==
  ASSUME NEW a \in Rat, a # Zero, NEW b \in Rat, Plus(a, b) = Zero,
         NEW x \in Rat, NEW y \in Rat
  PROVE  Plus(Times(a, x), Times(b, y)) = Zero <=> x = y
<1> DEFINE s == Times(a, x)
           t == Times(a, y)
<1>1. s \in Rat /\ t \in Rat BY TimesIsRat
<1>2. b = Times(MinusOne, a) BY SumIsZero
<1>3. Times(b, y) = Times(MinusOne, t)
  BY <1>2, UnitsAreRat, TimesAssociates
<1>4. s = t <=> x = y
  <2>1. s = t <=> x = Over(t, a)
    <3> HIDE DEF t
    <3>1. QED BY <1>1, SolvedIs
  <2>2. y = Over(t, a) BY <1>1, SolvedIs
  <2>3. QED BY <2>1, <2>2
<1> HIDE DEF s, t
<1>5. Plus(s, Times(MinusOne, t)) = Zero <=> s = t
  BY <1>1, MinusIsZero DEF Minus
<1>6. QED BY <1>3, <1>4, <1>5 DEF s

-----------------------------------------------------------------------------
(* Sums of rational numbers over finite sets.                              *)

\* g adds the terms of sets.
IsRatSum(g, term, sets) ==
  g = [s \in sets |->
         IF s = {} THEN Zero
         ELSE LET x == CHOOSE x \in s : TRUE IN Plus(term[x], g[s \ {x}])]

RatSum(term, set) == (CHOOSE g : IsRatSum(g, term, SUBSET set))[set]

\* Any element of a set may be taken out first.
RatTakesOut(g, term, set) ==
  \A s \in SUBSET set : g[s] \in Rat /\ \A r \in s : g[s] = Plus(term[r], g[s \ {r}])

LEMMA RatSumExists ==
  ASSUME NEW set, IsFiniteSet(set), NEW term \in [set -> Rat]
  PROVE  \E g : IsRatSum(g, term, SUBSET set)
<1> DEFINE Sets == SUBSET set
           pick == [s \in Sets |-> CHOOSE x \in s : TRUE]
           step == [s \in Sets |-> [q \in Rat |-> Plus(term[pick[s]], q)]]
<1>1. \A s \in Sets : s # {} => pick[s] \in s OBVIOUS
<1>2. PICK g : IsFold(g, Zero, pick, step, Sets)
  <2> HIDE DEF pick, step
  <2>1. QED BY <1>1, FoldExists
<1>3. \A s \in Sets : g[s] = IF s = {} THEN Zero ELSE step[s][g[s \ {pick[s]}]]
  <2> HIDE DEF pick, step, Sets
  <2>1. g = [s \in Sets |-> IF s = {} THEN Zero ELSE step[s][g[s \ {pick[s]}]]]
    BY <1>2, Zenon DEF IsFold
  <2>2. QED BY <2>1, Zenon
<1>4. g = [s \in Sets |-> g[s]]
  <2> HIDE DEF pick, step, Sets
  <2>1. g = [s \in Sets |-> IF s = {} THEN Zero ELSE step[s][g[s \ {pick[s]}]]]
    BY <1>2, Zenon DEF IsFold
  <2>2. QED BY <2>1
<1>5. \A s \in Sets : g[s] \in Rat
  <2> DEFINE Q == {s \in Sets : g[s] \in Rat}
  <2>1. {} \in Q BY <1>3, UnitsAreRat
  <2>2. ASSUME NEW s \in SUBSET set, s # {}, s \ {pick[s]} \in Q
        PROVE  s \in Q
    <3> DEFINE x == pick[s]
    <3>1. x \in set /\ term[x] \in Rat /\ g[s \ {x}] \in Rat
      BY <1>1, <2>2
    <3>2. g[s] = step[s][g[s \ {x}]] BY <1>3, <2>2
    <3>3. step[s] = [q \in Rat |-> Plus(term[x], q)] OBVIOUS
    <3> HIDE DEF step, x
    <3>4. g[s] = Plus(term[x], g[s \ {x}]) BY <3>1, <3>2, <3>3
    <3>5. QED BY <3>1, <3>4, PlusIsRat
  <2> HIDE DEF Q, pick
  <2>3. /\ \A s \in SUBSET set : s # {} => pick[s] \in s
        /\ \A s \in SUBSET set : s # {} /\ s \ {pick[s]} \in Q => s \in Q
    BY <1>1, <2>2
  <2>4. \A s \in SUBSET set : s \in Q BY <2>1, <2>3, EveryPicked
  <2>5. QED BY <2>4 DEF Q
<1>6. \A s \in Sets :
        g[s] = IF s = {} THEN Zero
               ELSE LET x == CHOOSE x \in s : TRUE IN Plus(term[x], g[s \ {x}])
  <2>1. TAKE s \in Sets
  <2>2. CASE s = {} BY <1>3, <2>2
  <2>3. CASE s # {}
    <3> DEFINE x == CHOOSE x \in s : TRUE
    <3>1. pick[s] = x OBVIOUS
    <3>2. g[s \ {x}] \in Rat BY <1>5
    <3>3. g[s] = step[s][g[s \ {x}]] BY <1>3, <2>3, <3>1
    <3>4. step[s] = [q \in Rat |-> Plus(term[x], q)] BY <3>1
    <3> HIDE DEF step, x, pick
    <3>5. g[s] = Plus(term[x], g[s \ {x}]) BY <3>2, <3>3, <3>4
    <3>6. QED BY <2>3, <3>5 DEF x
  <2>4. QED BY <2>2, <2>3
<1>7. IsRatSum(g, term, SUBSET set)
  <2> HIDE DEF pick, step
  <2>1. QED BY <1>4, <1>6, ZenonT(60) DEF IsRatSum
<1>8. QED BY <1>7

LEMMA RatSumTakesOut ==
  ASSUME NEW set, IsFiniteSet(set), NEW term \in [set -> Rat],
         NEW g, IsRatSum(g, term, SUBSET set)
  PROVE  RatTakesOut(g, term, set)
<1> DEFINE n == Cardinality(set)
           Ok(s) == g[s] \in Rat /\ \A r \in s : g[s] = Plus(term[r], g[s \ {r}])
           P == {m \in 0..n : \A s \in SmallSets(set, m) : Ok(s)}
<1>1. n \in Nat BY FS_CardinalityType
<1>2. \A s \in SUBSET set : Cardinality(s) \in Nat /\ Cardinality(s) <= n /\ IsFiniteSet(s)
  BY FS_Subset, FS_CardinalityType
<1>3. g[{}] = Zero BY DEF IsRatSum
<1>4. 0 \in P
  <2>1. \A s \in SmallSets(set, 0) : s = {}
    BY <1>2, FS_EmptySet DEF SmallSets
  <2>2. Ok({}) /\ 0 \in 0..n BY <1>1, <1>3, UnitsAreRat
  <2> HIDE DEF Ok
  <2>3. QED BY <2>1, <2>2
<1>5. ASSUME NEW m \in 1..n, m - 1 \in P
      PROVE  m \in P
  <2>1. m \in Nat /\ m - 1 \in Nat /\ m \in 0..n BY <1>1
  <2>2. ASSUME NEW s \in SmallSets(set, m)
        PROVE  Ok(s)
    <3>1. CASE s = {} BY <1>3, <3>1, UnitsAreRat
    <3>2. CASE s # {}
      <4> DEFINE x == CHOOSE x \in s : TRUE
      <4>1. x \in s BY <3>2
      <4>2. s \in SUBSET set /\ Cardinality(s) <= m BY DEF SmallSets
      <4>3. g[s] = Plus(term[x], g[s \ {x}]) BY <3>2, <4>2 DEF IsRatSum
      <4> HIDE DEF x
      <4>4. ASSUME NEW r \in s
            PROVE  s \ {r} \in SmallSets(set, m - 1)
        <5>1. Cardinality(s) \in Nat \ {0} /\ s \ {r} \in SUBSET set
              /\ Cardinality(s \ {r}) = Cardinality(s) - 1
          BY <4>2, OneLess
        <5>2. Cardinality(s \ {r}) <= m - 1 BY <2>1, <4>2, <5>1
        <5>3. QED BY <5>1, <5>2 DEF SmallSets
      <4>5. \A r \in s : Ok(s \ {r}) BY <1>5, <4>4
      <4>6. \A r \in s : term[r] \in Rat /\ g[s \ {r}] \in Rat
        BY <4>2, <4>5
      <4>7. ASSUME NEW r \in s, r # x
            PROVE  g[s] = Plus(term[r], g[s \ {r}])
        <5>1. g[s \ {r}] = Plus(term[x], g[(s \ {r}) \ {x}])
          BY <4>1, <4>5, <4>7
        <5>2. g[s \ {x}] = Plus(term[r], g[(s \ {x}) \ {r}])
          BY <4>1, <4>5, <4>7
        <5>3. (s \ {r}) \ {x} = (s \ {x}) \ {r} OBVIOUS
        <5>4. g[(s \ {x}) \ {r}] \in Rat
          <6>1. (s \ {x}) \ {r} \in SmallSets(set, m - 1)
            <7>1. Cardinality(s \ {x}) \in Nat \ {0}
                  /\ (s \ {x}) \ {r} \in SUBSET set
                  /\ Cardinality((s \ {x}) \ {r}) = Cardinality(s \ {x}) - 1
              BY <4>1, <4>2, <4>7, OneLess
            <7>2. Cardinality(s \ {x}) <= m - 1
              BY <4>1, <4>4 DEF SmallSets
            <7>3. QED BY <2>1, <7>1, <7>2 DEF SmallSets
          <6>2. QED BY <1>5, <6>1
        <5> DEFINE u == g[(s \ {x}) \ {r}]
                   a == term[x]
                   b == term[r]
        <5>5. g[s] = Plus(a, Plus(b, u)) /\ g[s \ {r}] = Plus(a, u)
          BY <4>3, <5>1, <5>2, <5>3
        <5>6. a \in Rat /\ b \in Rat /\ u \in Rat BY <4>1, <4>6, <5>4
        <5> HIDE DEF u, a, b
        <5>7. Plus(a, Plus(b, u)) = Plus(Plus(a, b), u) /\ Plus(b, Plus(a, u)) = Plus(Plus(b, a), u)
              /\ Plus(a, b) = Plus(b, a)
          BY <5>6, PlusAssociates, RatCommutes
        <5>8. g[s] = Plus(b, g[s \ {r}]) BY <5>5, <5>7
        <5>9. QED BY <5>8 DEF b
      <4>8. g[s] \in Rat BY <4>1, <4>3, <4>6, PlusIsRat
      <4>9. QED BY <4>3, <4>7, <4>8
    <3>3. QED BY <3>1, <3>2
  <2> HIDE DEF Ok
  <2>3. QED BY <2>1, <2>2
<1>6. n \in P
  <2> HIDE DEF P, n
  <2>1. QED BY <1>1, <1>4, <1>5, UpTo
<1>7. SmallSets(set, n) = SUBSET set BY <1>2 DEF SmallSets
<1>8. QED BY <1>6, <1>7 DEF RatTakesOut

LEMMA RatSumIs ==
  ASSUME NEW set, IsFiniteSet(set), NEW term \in [set -> Rat]
  PROVE  /\ RatSum(term, set) \in Rat
         /\ \E g : g[{}] = Zero /\ RatTakesOut(g, term, set) /\ RatSum(term, set) = g[set]
<1>1. PICK h : IsRatSum(h, term, SUBSET set) BY RatSumExists
<1> DEFINE g == CHOOSE g : IsRatSum(g, term, SUBSET set)
<1>2. IsRatSum(g, term, SUBSET set) BY <1>1
<1>3. RatSum(term, set) = g[set] BY DEF RatSum
<1> HIDE DEF g
<1>4. RatTakesOut(g, term, set) BY <1>2, RatSumTakesOut
<1>5. g[{}] = Zero BY <1>2 DEF IsRatSum
<1>6. g[set] \in Rat BY <1>4 DEF RatTakesOut
<1>7. QED BY <1>3, <1>4, <1>5, <1>6

\* Sums are added term by term, one of them scaled.
LEMMA RatSumOfBoth ==
  ASSUME NEW set, IsFiniteSet(set), NEW f \in [set -> Rat], NEW g \in [set -> Rat],
         NEW h \in [set -> Rat], NEW c \in Rat,
         \A r \in set : h[r] = Plus(f[r], Times(c, g[r]))
  PROVE  RatSum(h, set) = Plus(RatSum(f, set), Times(c, RatSum(g, set)))
<1>1. PICK F : F[{}] = Zero /\ RatTakesOut(F, f, set) /\ RatSum(f, set) = F[set]
  BY RatSumIs
<1>2. PICK G : G[{}] = Zero /\ RatTakesOut(G, g, set) /\ RatSum(g, set) = G[set]
  BY RatSumIs
<1>3. PICK H : H[{}] = Zero /\ RatTakesOut(H, h, set) /\ RatSum(h, set) = H[set]
  BY RatSumIs
<1> DEFINE Q == {s \in SUBSET set : H[s] = Plus(F[s], Times(c, G[s]))}
<1>4. {} \in Q BY <1>1, <1>2, <1>3, RatUnits, UnitsAreRat
<1>5. ASSUME NEW s \in SUBSET set, NEW x \in s, s \ {x} \in Q
      PROVE  s \in Q
  <2> DEFINE a == f[x]
             b == g[x]
             u == F[s \ {x}]
             w == G[s \ {x}]
  <2>1. /\ F[s] = Plus(a, u) /\ G[s] = Plus(b, w) /\ H[s] = Plus(h[x], H[s \ {x}])
        /\ u \in Rat /\ w \in Rat
    BY <1>1, <1>2, <1>3 DEF RatTakesOut
  <2>2. H[s \ {x}] = Plus(u, Times(c, w)) BY <1>5
  <2>3. h[x] = Plus(a, Times(c, b)) /\ a \in Rat /\ b \in Rat OBVIOUS
  <2> HIDE DEF a, b, u, w
  <2>4. H[s] = Plus(Plus(a, Times(c, b)), Plus(u, Times(c, w)))
    BY <2>1, <2>2, <2>3
  <2> DEFINE d == Times(c, b)
             e == Times(c, w)
  <2>5. d \in Rat /\ e \in Rat /\ Times(c, Plus(b, w)) = Plus(d, e)
    BY <2>1, <2>3, TimesIsRat, TimesDistributes
  <2> HIDE DEF d, e
  <2>6. Plus(Plus(a, d), Plus(u, e)) = Plus(Plus(a, u), Plus(d, e))
    <3>1. Plus(u, e) \in Rat /\ Plus(d, e) \in Rat
      BY <2>1, <2>5, PlusIsRat
    <3>2. Plus(Plus(a, d), Plus(u, e)) = Plus(a, Plus(d, Plus(u, e)))
      BY <2>3, <2>5, <3>1, PlusAssociates
    <3>3. Plus(d, Plus(u, e)) = Plus(Plus(d, u), e) /\ Plus(u, Plus(d, e)) = Plus(Plus(u, d), e)
          /\ Plus(d, u) = Plus(u, d)
      BY <2>1, <2>5, PlusAssociates, RatCommutes
    <3>4. Plus(Plus(a, u), Plus(d, e)) = Plus(a, Plus(u, Plus(d, e)))
      BY <2>1, <2>3, <3>1, PlusAssociates
    <3>5. QED BY <3>2, <3>3, <3>4
  <2>7. H[s] = Plus(F[s], Times(c, G[s]))
    BY <2>1, <2>4, <2>5, <2>6 DEF d, e
  <2>8. QED BY <2>7
<1>6. set \in Q
  <2> HIDE DEF Q
  <2>1. set \in SUBSET set OBVIOUS
  <2>2. QED BY <1>4, <1>5, <2>1, EverySubset
<1>7. QED BY <1>1, <1>2, <1>3, <1>6

\* Terms that are zero may be left out.
LEMMA RatSumOfNonzero ==
  ASSUME NEW set, IsFiniteSet(set), NEW part \in SUBSET set, NEW f \in [set -> Rat],
         NEW g \in [part -> Rat], \A r \in part : g[r] = f[r], \A r \in set \ part : f[r] = Zero
  PROVE  RatSum(f, set) = RatSum(g, part)
<1>1. PICK F : F[{}] = Zero /\ RatTakesOut(F, f, set) /\ RatSum(f, set) = F[set]
  BY RatSumIs
<1>2. IsFiniteSet(part) BY FS_Subset
<1>3. PICK G : G[{}] = Zero /\ RatTakesOut(G, g, part) /\ RatSum(g, part) = G[part]
  BY <1>2, RatSumIs
<1> DEFINE Q == {s \in SUBSET set : F[s] = G[s \cap part]}
<1>5. {} \in Q
  <2>1. {} \cap part = {} OBVIOUS
  <2>2. QED BY <1>1, <1>3, <2>1
<1>6. ASSUME NEW s \in SUBSET set, NEW x \in s, s \ {x} \in Q
      PROVE  s \in Q
  <2>1. F[s] = Plus(f[x], F[s \ {x}]) /\ F[s \ {x}] = G[(s \ {x}) \cap part]
        /\ F[s \ {x}] \in Rat
    BY <1>1, <1>6 DEF RatTakesOut
  <2>2. CASE x \in part
    <3>1. (s \ {x}) \cap part = (s \cap part) \ {x} /\ x \in s \cap part /\ s \cap part \in SUBSET part
      BY <2>2
    <3>2. G[s \cap part] = Plus(g[x], G[(s \cap part) \ {x}])
      BY <1>3, <3>1 DEF RatTakesOut
    <3>3. g[x] = f[x] BY <2>2
    <3>4. F[s] = G[s \cap part] BY <2>1, <3>1, <3>2, <3>3
    <3>5. QED BY <3>4
  <2>3. CASE x \notin part
    <3>1. (s \ {x}) \cap part = s \cap part BY <2>3
    <3>2. f[x] = Zero BY <2>3
    <3>3. F[s] = F[s \ {x}] BY <2>1, <3>2, RatUnits
    <3>4. F[s] = G[s \cap part] BY <2>1, <3>1, <3>3
    <3>5. QED BY <3>4
  <2>4. QED BY <2>2, <2>3
<1>7. set \in Q
  <2> HIDE DEF Q
  <2>1. set \in SUBSET set OBVIOUS
  <2>2. QED BY <1>5, <1>6, <2>1, EverySubset
<1>8. set \cap part = part OBVIOUS
<1>9. QED BY <1>1, <1>3, <1>7, <1>8

LEMMA RatSumOfNone ==
  ASSUME NEW term \in [{} -> Rat]
  PROVE  RatSum(term, {}) = Zero
BY FS_EmptySet, RatSumIs
=============================================================================
