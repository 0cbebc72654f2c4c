------------------------- MODULE PropagationProofs --------------------------
(***************************************************************************)
(* Proofs about the trail, for any variables, values and reasons and any   *)
(* number of levels (they rest on the assumptions of Trail alone), and, on *)
(* top of them, about the steps of the solving loop that propagate: each   *)
(* of them keeps LoopInv of SolverProperties.                              *)
(***************************************************************************)
EXTENDS SolverProperties, SequenceTheorems, CommonLemmas

-----------------------------------------------------------------------------
(* The lists after each operation.                                         *)

\* A decision adds one level and leaves the others as they were.
LEMMA DecideLists ==
  ASSUME TrailTypeOK, NEW v \in Vars, NEW x \in Values, Decide(v, x)
  PROVE  /\ trail' \in Seq(Seq(Assignment))
         /\ Len(trail') = Len(trail) + 1
         /\ \A i \in 1..Len(trail) : trail'[i] = trail[i]
         /\ trail'[Len(trail) + 1] = <<[var |-> v, reason |-> NoReason]>>
<1> DEFINE e == [var |-> v, reason |-> NoReason]
<1>1. e \in Assignment BY DEF Assignment
<1>2. <<e>> \in Seq(Assignment) BY <1>1
<1>3. QED BY <1>2 DEF Decide, TrailTypeOK

\* The lists of the level and of every level above it end with v, assigned by r.
Lengthened(v, r, level) ==
  /\ trail' \in Seq(Seq(Assignment))
  /\ Len(trail') = Len(trail)
  /\ \A i \in 1..Len(trail) :
       /\ i <= level => trail'[i] = trail[i]
       /\ i > level =>
            /\ Len(trail'[i]) = Len(trail[i]) + 1
            /\ \A k \in 1..Len(trail[i]) : trail'[i][k] = trail[i][k]
            /\ trail'[i][Len(trail[i]) + 1] = [var |-> v, reason |-> r]

\* A propagation at a level extends the lists of that level and of every
\* level above it by the same assignment.
LEMMA PropagateLists ==
  ASSUME TrailTypeOK, NEW v \in Vars, NEW x \in Values,
         NEW r \in Reasons \cup {NoReason}, NEW level \in 0..decision_level,
         Propagate(v, x, r, level)
  PROVE  Lengthened(v, r, level)
<1> DEFINE e == [var |-> v, reason |-> r]
<1>1. e \in Assignment BY DEF Assignment
<1>2. \A i \in 1..Len(trail) : trail[i] \in Seq(Assignment)
  BY DEF TrailTypeOK
<1>3. \A i \in 1..Len(trail) : Append(trail[i], e) \in Seq(Assignment)
  BY <1>1, <1>2
<1>4. trail' = [i \in 1..Len(trail) |->
                  IF i > level THEN Append(trail[i], e) ELSE trail[i]]
  BY DEF Propagate
<1>5. trail' \in [1..Len(trail) -> Seq(Assignment)] BY <1>2, <1>3, <1>4
<1>6. Len(trail) \in Nat BY DEF TrailTypeOK
<1>7. trail' \in Seq(Seq(Assignment)) /\ Len(trail') = Len(trail)
  BY <1>5, <1>6, FunctionIsSeq
<1>8. ASSUME NEW i \in 1..Len(trail)
      PROVE  /\ i <= level => trail'[i] = trail[i]
             /\ i > level =>
                  /\ Len(trail'[i]) = Len(trail[i]) + 1
                  /\ \A k \in 1..Len(trail[i]) : trail'[i][k] = trail[i][k]
                  /\ trail'[i][Len(trail[i]) + 1] = e
  <2>1. trail'[i] = IF i > level THEN Append(trail[i], e) ELSE trail[i]
    BY <1>4
  <2>2. level \in Int /\ i \in Int BY <1>6
  <2>3. CASE i <= level BY <2>1, <2>2, <2>3
  <2>4. CASE i > level
    <3>1. trail'[i] = Append(trail[i], e) BY <2>1, <2>4
    <3>2. QED BY <1>1, <1>2, <2>2, <2>4, <3>1
  <2>5. QED BY <2>2, <2>3, <2>4
<1>9. QED BY <1>7, <1>8 DEF Lengthened

\* Backtracking keeps a prefix of the levels.
LEMMA BacktrackLists ==
  ASSUME TrailTypeOK, NEW level \in 0..decision_level, Backtrack(level)
  PROVE  /\ trail' \in Seq(Seq(Assignment))
         /\ Len(trail') = level + 1
         /\ \A i \in 1..(level + 1) : trail'[i] = trail[i]
<1>1. trail' = SubSeq(trail, 1, level + 1) BY DEF Backtrack
<1>2. level + 1 \in 1..Len(trail) BY DEF TrailTypeOK, decision_level
<1>3. \A i \in 1..(level + 1) : trail[i] \in Seq(Assignment)
  BY <1>2 DEF TrailTypeOK
<1>4. QED BY <1>1, <1>2, <1>3, SubSeqProperties

-----------------------------------------------------------------------------
(* Types.                                                                  *)

\* Every operation keeps the types, whatever order operations come in.
LEMMA TypeStep ==
  ASSUME TrailTypeOK, [TrailNext]_trailVars
  PROVE  TrailTypeOK'
<1>1. ASSUME NEW v \in Vars, NEW x \in Values, Decide(v, x)
      PROVE  TrailTypeOK'
  <2>1. /\ trail' \in Seq(Seq(Assignment))
        /\ Len(trail') = Len(trail) + 1
    BY <1>1, DecideLists, Zenon
  <2>2. decision_level + 1 \in Int BY DEF TrailTypeOK, decision_level
  <2>3. QED BY <1>1, <2>1, <2>2 DEF TrailTypeOK, Decide
<1>2. ASSUME NEW v \in Vars, NEW x \in Values,
             NEW r \in Reasons \cup {NoReason}, NEW level \in 0..decision_level,
             Propagate(v, x, r, level)
      PROVE  TrailTypeOK'
  <2>1. /\ trail' \in Seq(Seq(Assignment))
        /\ Len(trail') = Len(trail)
    BY <1>2, PropagateLists, Zenon DEF Lengthened
  <2>2. QED BY <1>2, <2>1 DEF TrailTypeOK, Propagate
<1>3. ASSUME NEW level \in 0..decision_level, Backtrack(level)
      PROVE  TrailTypeOK'
  <2>1. /\ trail' \in Seq(Seq(Assignment))
        /\ Len(trail') = level + 1
    BY <1>3, BacktrackLists
  <2>2. /\ var_level' \in [Vars -> Int]
        /\ var_reason' \in [Vars -> Reasons \cup {NoReason}]
        /\ model' \in [Vars -> Values \cup {Undef}]
    BY <1>3 DEF TrailTypeOK, Backtrack, unassigned
  <2>3. level + 1 >= 1 BY DEF decision_level, TrailTypeOK
  <2>4. QED BY <2>1, <2>2, <2>3 DEF TrailTypeOK
<1>4. ASSUME Clear
      PROVE  TrailTypeOK'
  BY <1>4 DEF TrailTypeOK, Clear, unassigned
<1>5. CASE UNCHANGED trailVars BY <1>5 DEF TrailTypeOK, trailVars
<1>6. QED BY <1>1, <1>2, <1>3, <1>4, <1>5 DEF TrailNext

-----------------------------------------------------------------------------
(* The invariant.                                                          *)

\* A decision opens a level for a variable that no list mentions.
LEMMA DecideStep ==
  ASSUME TrailInv, NEW v \in Vars, NEW x \in Values, ~is_defined(v), Decide(v, x)
  PROVE  TrailInv'
<1> DEFINE n == Len(trail)
           e == [var |-> v, reason |-> NoReason]
<1>1. TrailTypeOK /\ TrailTypeOK' BY TypeStep DEF TrailInv, TrailNext
<1>2. /\ Len(trail') = n + 1
      /\ \A i \in 1..n : trail'[i] = trail[i]
      /\ trail'[n + 1] = <<e>>
  BY <1>1, DecideLists
<1>3. n \in Nat /\ n >= 1 BY <1>1 DEF TrailTypeOK
<1>4. /\ var_level' = [var_level EXCEPT ![v] = n]
      /\ var_reason' = [var_reason EXCEPT ![v] = NoReason]
      /\ model' = [model EXCEPT ![v] = x]
  BY <1>3 DEF Decide, decision_level
<1>5. \A i \in 1..n : \A k \in 1..Len(trail[i]) :
        trail[i][k] \in Assignment /\ trail[i][k].var # v
  <2> SUFFICES ASSUME NEW i \in 1..n, NEW k \in 1..Len(trail[i])
               PROVE  trail[i][k] \in Assignment /\ trail[i][k].var # v
    OBVIOUS
  <2>1. trail[i] \in Seq(Assignment) BY <1>1 DEF TrailTypeOK
  <2>2. i - 1 \in 0..decision_level /\ i = (i - 1) + 1
    BY <1>3 DEF decision_level
  <2>3. var_level[trail[i][k].var] \in 0..(i - 1)
    BY <2>2 DEF TrailInv, ListedBelow, assigned
  <2>4. var_level[v] = unassigned BY DEF TrailInv, DefinedIffLevel
  <2>5. QED BY <2>1, <2>3, <2>4, SMTT(30) DEF unassigned
<1>6. \A i \in 1..n : \A k \in 1..Len(trail[i]) : trail[i][k].var \in Vars
  BY <1>5 DEF Assignment
<1>7. DefinedIffLevel'
  BY <1>1, <1>2, <1>3, <1>4, UndefAssumption
     DEF TrailInv, TrailTypeOK, DefinedIffLevel, decision_level, is_defined, unassigned
<1>8. ListedBelow'
  <2> SUFFICES ASSUME NEW l \in 0..n, NEW k \in 1..Len(trail'[l + 1])
               PROVE  /\ var_level'[trail'[l + 1][k].var] \in 0..l
                      /\ trail'[l + 1][k].reason = var_reason'[trail'[l + 1][k].var]
    BY <1>2, <1>3 DEF ListedBelow, assigned, decision_level
  <2>1. CASE l = n BY <1>1, <1>2, <1>3, <1>4, <2>1 DEF TrailTypeOK
  <2>2. CASE l < n
    <3>1. trail'[l + 1] = trail[l + 1] /\ l + 1 \in 1..n
      BY <1>2, <1>3, <2>2
    <3>2. l \in 0..decision_level BY <1>3, <2>2 DEF decision_level
    <3>3. LET a == trail[l + 1][k] IN
          var_level[a.var] \in 0..l /\ a.reason = var_reason[a.var]
      BY <3>1, <3>2 DEF TrailInv, ListedBelow, assigned
    <3>4. trail[l + 1][k].var \in Vars \ {v} BY <1>5, <1>6, <3>1
    <3>5. QED BY <1>1, <1>4, <3>1, <3>3, <3>4, Zenon DEF TrailTypeOK
  <2>3. QED BY <1>3, <2>1, <2>2
<1>9. ListedAtOwnLevel'
  <2> SUFFICES ASSUME NEW w \in Vars, var_level'[w] # unassigned
               PROVE  \E k \in 1..Len(trail'[var_level'[w] + 1]) :
                        trail'[var_level'[w] + 1][k].var = w
    BY DEF ListedAtOwnLevel, assigned, VarsIn
  <2>1. CASE w = v
    <3>1. var_level'[w] = n BY <1>1, <1>4, <2>1 DEF TrailTypeOK
    <3>2. trail'[n + 1] = <<e>> BY <1>2
    <3>3. Len(<<e>>) = 1 /\ <<e>>[1].var = v OBVIOUS
    <3>4. QED BY <2>1, <3>1, <3>2, <3>3
  <2>2. CASE w # v
    <3>1. var_level'[w] = var_level[w] /\ var_level[w] \in 0..(n - 1)
      BY <1>1, <1>3, <1>4, <2>2
         DEF TrailInv, TrailTypeOK, DefinedIffLevel, decision_level, unassigned
    <3>2. \E k \in 1..Len(trail[var_level[w] + 1]) : trail[var_level[w] + 1][k].var = w
      BY <3>1 DEF TrailInv, ListedAtOwnLevel, assigned, VarsIn
    <3>3. QED BY <1>2, <1>3, <3>1, <3>2, SMTT(30)
  <2>3. QED BY <2>1, <2>2
<1>10. ListedOnce'
  <2> SUFFICES ASSUME NEW l \in 0..n, NEW j \in 1..Len(trail'[l + 1]),
                      NEW k \in 1..Len(trail'[l + 1]),
                      trail'[l + 1][j].var = trail'[l + 1][k].var
               PROVE  j = k
    BY <1>2, <1>3 DEF ListedOnce, assigned, decision_level
  <2>1. CASE l = n BY <1>2, <1>3, <2>1
  <2>2. CASE l < n
    BY <1>2, <1>3, <2>2 DEF TrailInv, ListedOnce, assigned, decision_level
  <2>3. QED BY <1>3, <2>1, <2>2
<1>11. DecisionFirst'
  <2> SUFFICES ASSUME NEW l \in 1..n
               PROVE  /\ trail'[l + 1] # << >>
                      /\ var_level'[trail'[l + 1][1].var] = l
                      /\ trail'[l + 1][1].reason = NoReason
    BY <1>2, <1>3 DEF DecisionFirst, assigned, decision_level
  <2>1. CASE l = n BY <1>1, <1>2, <1>3, <1>4, <2>1 DEF TrailTypeOK
  <2>2. CASE l < n
    <3>1. l + 1 \in 1..n /\ trail'[l + 1] = trail[l + 1]
      BY <1>2, <1>3, <2>2
    <3>2. /\ trail[l + 1] # << >>
          /\ var_level[trail[l + 1][1].var] = l
          /\ trail[l + 1][1].reason = NoReason
      <4>1. l \in 1..decision_level BY <1>3, <2>2 DEF decision_level
      <4>2. DecisionFirst BY DEF TrailInv
      <4>3. QED BY <4>1, <4>2 DEF DecisionFirst, assigned
    <3>3. 1 \in 1..Len(trail[l + 1]) BY <1>1, <3>1, <3>2 DEF TrailTypeOK
    <3>4. trail[l + 1][1].var \in Vars \ {v} BY <1>5, <1>6, <3>1, <3>3
    <3>5. QED BY <1>1, <1>4, <3>1, <3>2, <3>4, Zenon DEF TrailTypeOK
  <2>3. QED BY <1>3, <2>1, <2>2
<1>12. QED BY <1>1, <1>7, <1>8, <1>9, <1>10, <1>11 DEF TrailInv

\* A propagation at a level adds its variable to that level and to those
\* above, none of which mentioned it.
LEMMA PropagateStep ==
  ASSUME TrailInv, NEW v \in Vars, NEW x \in Values,
         NEW r \in Reasons \cup {NoReason}, NEW level \in 0..decision_level,
         ~is_defined(v), Propagate(v, x, r, level)
  PROVE  TrailInv'
<1> DEFINE n == Len(trail)
           e == [var |-> v, reason |-> r]
<1>1. TrailTypeOK /\ TrailTypeOK' BY TypeStep DEF TrailInv, TrailNext
<1>2. Len(trail') = n BY <1>1, PropagateLists, Zenon DEF Lengthened
<1>3. n \in Nat /\ n >= 1 /\ level \in 0..(n - 1)
  BY <1>1 DEF TrailTypeOK, decision_level
<1>4. \A i \in 1..n :
        /\ i <= level => trail'[i] = trail[i]
        /\ i > level =>
             /\ Len(trail'[i]) = Len(trail[i]) + 1
             /\ \A k \in 1..Len(trail[i]) : trail'[i][k] = trail[i][k]
             /\ trail'[i][Len(trail[i]) + 1] = e
  <2>1. Lengthened(v, r, level) BY <1>1, PropagateLists, Zenon
  <2>2. QED BY <2>1 DEF Lengthened
<1>5. /\ var_level' = [var_level EXCEPT ![v] = level]
      /\ var_reason' = [var_reason EXCEPT ![v] = r]
      /\ model' = [model EXCEPT ![v] = x]
  BY DEF Propagate
<1>6. \A i \in 1..n : trail[i] \in Seq(Assignment) /\ Len(trail[i]) \in Nat
  BY <1>1 DEF TrailTypeOK
<1>7. \A i \in 1..n : \A k \in 1..Len(trail[i]) :
        /\ trail[i][k].var \in Vars \ {v}
        /\ var_level[trail[i][k].var] \in 0..(i - 1)
        /\ trail[i][k].reason = var_reason[trail[i][k].var]
  <2> SUFFICES ASSUME NEW i \in 1..n, NEW k \in 1..Len(trail[i])
               PROVE  /\ trail[i][k].var \in Vars \ {v}
                      /\ var_level[trail[i][k].var] \in 0..(i - 1)
                      /\ trail[i][k].reason = var_reason[trail[i][k].var]
    OBVIOUS
  <2>1. trail[i][k].var \in Vars
    <3>1. trail[i] \in Seq(Assignment) /\ k \in 1..Len(trail[i]) BY <1>6
    <3>2. trail[i][k] \in Assignment BY <3>1, ElementOfSeq
    <3>3. QED BY <3>2 DEF Assignment
  <2>2. i - 1 \in 0..decision_level /\ i = (i - 1) + 1
    BY <1>3 DEF decision_level
  <2>3. /\ var_level[trail[i][k].var] \in 0..(i - 1)
        /\ trail[i][k].reason = var_reason[trail[i][k].var]
    BY <2>2 DEF TrailInv, ListedBelow, assigned
  <2>4. var_level[v] = unassigned BY DEF TrailInv, DefinedIffLevel
  <2>5. QED BY <2>1, <2>3, <2>4 DEF unassigned
\* What an entry of the new lists is: an old one in its place, or the new one
\* at the end of a level not below the target.
<1>8. ASSUME NEW i \in 1..n, NEW k \in 1..Len(trail'[i])
      PROVE  \/ k \in 1..Len(trail[i]) /\ trail'[i][k] = trail[i][k]
             \/ i > level /\ k = Len(trail[i]) + 1 /\ trail'[i][k] = e
  BY <1>3, <1>4, <1>6, SMTT(30)
<1>9. DefinedIffLevel'
  BY <1>1, <1>2, <1>3, <1>5, UndefAssumption
     DEF TrailInv, TrailTypeOK, DefinedIffLevel, decision_level, is_defined, unassigned
<1>10. ListedBelow'
  <2> SUFFICES ASSUME NEW i \in 1..n, NEW k \in 1..Len(trail'[i])
               PROVE  /\ var_level'[trail'[i][k].var] \in 0..(i - 1)
                      /\ trail'[i][k].reason = var_reason'[trail'[i][k].var]
    BY <1>2, <1>3, SMTT(30) DEF ListedBelow, assigned, decision_level
  <2>1. CASE k \in 1..Len(trail[i]) /\ trail'[i][k] = trail[i][k]
    <3> DEFINE a == trail[i][k]
    <3>1. /\ a.var \in Vars \ {v}
          /\ var_level[a.var] \in 0..(i - 1)
          /\ a.reason = var_reason[a.var]
      BY <1>7, <2>1, Zenon
    <3>2. var_level'[a.var] = var_level[a.var] /\ var_reason'[a.var] = var_reason[a.var]
      BY <1>1, <1>5, <3>1, Zenon DEF TrailTypeOK
    <3>3. QED BY <2>1, <3>1, <3>2
  <2>2. CASE i > level /\ k = Len(trail[i]) + 1 /\ trail'[i][k] = e
    BY <1>1, <1>3, <1>5, <2>2 DEF TrailTypeOK
  <2>3. QED BY <1>8, <2>1, <2>2
<1>11. ListedAtOwnLevel'
  <2> SUFFICES ASSUME NEW w \in Vars, var_level'[w] # unassigned
               PROVE  \E k \in 1..Len(trail'[var_level'[w] + 1]) :
                        trail'[var_level'[w] + 1][k].var = w
    BY DEF ListedAtOwnLevel, assigned, VarsIn
  <2>1. CASE w = v
    <3>1. var_level'[w] = level BY <1>1, <1>5, <2>1 DEF TrailTypeOK
    <3>2. /\ level + 1 \in 1..n /\ level + 1 > level
          /\ Len(trail'[level + 1]) = Len(trail[level + 1]) + 1
          /\ trail'[level + 1][Len(trail[level + 1]) + 1] = e
      BY <1>3, <1>4
    <3>3. Len(trail[level + 1]) + 1 \in 1..Len(trail'[level + 1])
      BY <1>6, <3>2
    <3>4. QED BY <2>1, <3>1, <3>2, <3>3
  <2>2. CASE w # v
    <3>1. var_level'[w] = var_level[w] /\ var_level[w] + 1 \in 1..n
      BY <1>1, <1>3, <1>5, <2>2, SMTT(30)
         DEF TrailInv, TrailTypeOK, DefinedIffLevel, decision_level, unassigned
    <3>2. PICK k \in 1..Len(trail[var_level[w] + 1]) : trail[var_level[w] + 1][k].var = w
      BY <3>1 DEF TrailInv, ListedAtOwnLevel, assigned, VarsIn
    <3>3. ASSUME NEW i \in 1..n, NEW j \in 1..Len(trail[i])
          PROVE  j \in 1..Len(trail'[i]) /\ trail'[i][j] = trail[i][j]
      <4>1. CASE i <= level BY <1>4, <3>3, <4>1
      <4>2. CASE i > level BY <1>4, <1>6, <3>3, <4>2
      <4>3. QED BY <1>3, <4>1, <4>2
    <3>4. QED BY <3>1, <3>2, <3>3
  <2>3. QED BY <2>1, <2>2
<1>12. ListedOnce'
  <2> SUFFICES ASSUME NEW i \in 1..n, NEW j \in 1..Len(trail'[i]),
                      NEW k \in 1..Len(trail'[i]),
                      trail'[i][j].var = trail'[i][k].var
               PROVE  j = k
    BY <1>2, <1>3, SMTT(30) DEF ListedOnce, assigned, decision_level
  <2>1. CASE /\ j \in 1..Len(trail[i]) /\ trail'[i][j] = trail[i][j]
             /\ k \in 1..Len(trail[i]) /\ trail'[i][k] = trail[i][k]
    <3>1. i - 1 \in 0..decision_level /\ i = (i - 1) + 1
      BY <1>3 DEF decision_level
    <3>2. QED BY <2>1, <3>1 DEF TrailInv, ListedOnce, assigned
  <2>2. CASE k \in 1..Len(trail[i]) /\ trail'[i][k] = trail[i][k] /\ trail'[i][j] = e
    <3>1. trail[i][k].var # v BY <1>7, <2>2
    <3>2. QED BY <2>2, <3>1
  <2>3. CASE j \in 1..Len(trail[i]) /\ trail'[i][j] = trail[i][j] /\ trail'[i][k] = e
    <3>1. trail[i][j].var # v BY <1>7, <2>3
    <3>2. QED BY <2>3, <3>1
  <2>4. QED BY <1>8, <2>1, <2>2, <2>3, Zenon
<1>13. DecisionFirst'
  <2> SUFFICES ASSUME NEW l \in 1..(n - 1)
               PROVE  /\ trail'[l + 1] # << >>
                      /\ var_level'[trail'[l + 1][1].var] = l
                      /\ trail'[l + 1][1].reason = NoReason
    BY <1>2, <1>3 DEF DecisionFirst, assigned, decision_level
  <2>1. l \in 1..decision_level /\ l + 1 \in 1..n
    BY <1>3 DEF decision_level
  <2>2. /\ trail[l + 1] # << >>
        /\ var_level[trail[l + 1][1].var] = l
        /\ trail[l + 1][1].reason = NoReason
    <3>1. DecisionFirst BY DEF TrailInv
    <3>2. QED BY <2>1, <3>1 DEF DecisionFirst, assigned
  <2>3. 1 \in 1..Len(trail[l + 1]) BY <1>6, <2>1, <2>2
  <2>4. trail'[l + 1][1] = trail[l + 1][1] /\ Len(trail'[l + 1]) >= 1
    <3>1. PICK i \in 1..n : i = l + 1 BY <2>1
    <3>2. 1 \in 1..Len(trail[i]) /\ Len(trail[i]) \in Nat /\ Len(trail[i]) >= 1
      BY <1>6, <2>3, <3>1
    <3>3. CASE i <= level BY <1>4, <3>1, <3>2, <3>3
    <3>4. CASE i > level BY <1>4, <3>1, <3>2, <3>4
    <3>5. QED BY <1>3, <3>3, <3>4
  <2>5. trail'[l + 1] # << >> BY <2>4
  <2>6. trail[l + 1][1].var \in Vars \ {v} BY <1>7, <2>1, <2>3
  <2>7. QED BY <1>1, <1>5, <2>2, <2>4, <2>5, <2>6, Zenon DEF TrailTypeOK
<1>14. QED BY <1>1, <1>9, <1>10, <1>11, <1>12, <1>13 DEF TrailInv

\* The variables unassigned by a backtrack are exactly those above the target:
\* nothing above it is missed, because each is listed on its own level, which
\* is popped.
LEMMA UnassignsExact ==
  ASSUME TrailInv, NEW level \in 0..decision_level
  PROVE  Unassigns(level) = {v \in Vars : var_level[v] > level}
<1>1. TrailTypeOK BY DEF TrailInv
<1>2. ASSUME NEW v \in Unassigns(level)
      PROVE  v \in Vars /\ var_level[v] > level
  <2>1. PICK l \in (level + 1)..decision_level : v \in VarsIn(assigned(l))
    BY <1>2 DEF Unassigns
  <2>2. l + 1 \in 1..Len(trail) BY <1>1 DEF TrailTypeOK, decision_level
  <2>3. trail[l + 1] \in Seq(Assignment) BY <1>1, <2>2 DEF TrailTypeOK
  <2>4. PICK k \in 1..Len(trail[l + 1]) : v = trail[l + 1][k].var
    BY <2>1 DEF VarsIn, assigned
  <2>5. trail[l + 1][k] \in Assignment BY <2>3, <2>4, ElementOfSeq
  <2>6. QED BY <1>2, <2>4, <2>5 DEF Assignment, Unassigns
<1>3. ASSUME NEW v \in Vars, var_level[v] > level
      PROVE  v \in Unassigns(level)
  <2>1. var_level[v] \in (level + 1)..decision_level
    BY <1>1, <1>3 DEF TrailInv, DefinedIffLevel, TrailTypeOK, decision_level, unassigned
  <2>2. v \in VarsIn(assigned(var_level[v]))
    BY <2>1 DEF TrailInv, ListedAtOwnLevel, unassigned
  <2>3. QED BY <1>3, <2>1, <2>2 DEF Unassigns
<1>4. QED BY <1>2, <1>3

\* What a backtrack does to the tables.
LEMMA BacktrackTables ==
  ASSUME TrailInv, NEW level \in 0..decision_level, Backtrack(level),
         NEW v \in Vars
  PROVE  IF var_level[v] > level
           THEN /\ var_level'[v] = unassigned
                /\ var_reason'[v] = NoReason
                /\ model'[v] = Undef
           ELSE /\ var_level'[v] = var_level[v]
                /\ var_reason'[v] = var_reason[v]
                /\ model'[v] = model[v]
<1>1. v \in Unassigns(level) <=> var_level[v] > level BY UnassignsExact
<1>2. QED BY <1>1 DEF Backtrack

LEMMA BacktrackStep ==
  ASSUME TrailInv, NEW level \in 0..decision_level, Backtrack(level)
  PROVE  TrailInv'
<1>1. TrailTypeOK /\ TrailTypeOK' BY TypeStep DEF TrailInv, TrailNext
<1>2. Len(trail') = level + 1 /\ \A i \in 1..(level + 1) : trail'[i] = trail[i]
  BY <1>1, BacktrackLists
<1>3. Len(trail) \in Nat /\ level \in 0..(Len(trail) - 1)
  BY <1>1 DEF TrailTypeOK, decision_level
\* An entry of a remaining level keeps its variable's tables.
<1>4. ASSUME NEW i \in 1..(level + 1), NEW k \in 1..Len(trail[i])
      PROVE  LET w == trail[i][k].var IN
             /\ w \in Vars
             /\ var_level[w] \in 0..(i - 1) /\ trail[i][k].reason = var_reason[w]
             /\ var_level'[w] = var_level[w] /\ var_reason'[w] = var_reason[w]
  <2>1. trail[i] \in Seq(Assignment) BY <1>1, <1>3 DEF TrailTypeOK
  <2>2. trail[i][k] \in Assignment BY <2>1, ElementOfSeq
  <2>3. i - 1 \in 0..decision_level /\ i = (i - 1) + 1
    BY <1>3 DEF decision_level
  <2>4. /\ var_level[trail[i][k].var] \in 0..(i - 1)
        /\ trail[i][k].reason = var_reason[trail[i][k].var]
    BY <2>3 DEF TrailInv, ListedBelow, assigned
  <2>5. trail[i][k].var \in Vars BY <2>2 DEF Assignment
  <2>6. ~(var_level[trail[i][k].var] > level) BY <1>3, <2>4
  <2>7. QED BY <2>4, <2>5, <2>6, BacktrackTables
<1>5. DefinedIffLevel'
  <2> SUFFICES ASSUME NEW v \in Vars
               PROVE  /\ var_level'[v] \in unassigned..level
                      /\ model'[v] # Undef <=> var_level'[v] # unassigned
                      /\ model'[v] = Undef => var_reason'[v] = NoReason
    BY <1>2, <1>3 DEF DefinedIffLevel, decision_level, is_defined
  <2>1. /\ var_level[v] \in unassigned..decision_level
        /\ model[v] # Undef <=> var_level[v] # unassigned
        /\ model[v] = Undef => var_reason[v] = NoReason
    BY DEF TrailInv, DefinedIffLevel, is_defined
  <2>2. QED BY <1>3, <2>1, BacktrackTables DEF unassigned, decision_level
<1>6. ListedBelow'
  <2> SUFFICES ASSUME NEW i \in 1..(level + 1), NEW k \in 1..Len(trail'[i])
               PROVE  /\ var_level'[trail'[i][k].var] \in 0..(i - 1)
                      /\ trail'[i][k].reason = var_reason'[trail'[i][k].var]
    BY <1>2, <1>3 DEF ListedBelow, assigned, decision_level
  <2>1. QED BY <1>2, <1>4
<1>7. ListedAtOwnLevel'
  <2> SUFFICES ASSUME NEW w \in Vars, var_level'[w] # unassigned
               PROVE  \E k \in 1..Len(trail'[var_level'[w] + 1]) :
                        trail'[var_level'[w] + 1][k].var = w
    BY DEF ListedAtOwnLevel, assigned, VarsIn
  <2>1. var_level'[w] = var_level[w] /\ ~(var_level[w] > level)
    BY BacktrackTables
  <2>2. var_level[w] \in 0..level
    BY <1>3, <2>1 DEF TrailInv, DefinedIffLevel, decision_level, unassigned
  <2>3. \E k \in 1..Len(trail[var_level[w] + 1]) : trail[var_level[w] + 1][k].var = w
    BY <2>2 DEF TrailInv, ListedAtOwnLevel, assigned, VarsIn, unassigned
  <2>4. var_level[w] + 1 \in 1..(level + 1) BY <2>2
  <2>5. QED BY <1>2, <2>1, <2>3, <2>4
<1>8. ListedOnce'
  <2> SUFFICES ASSUME NEW l \in 0..level, NEW j \in 1..Len(trail'[l + 1]),
                      NEW k \in 1..Len(trail'[l + 1]),
                      trail'[l + 1][j].var = trail'[l + 1][k].var
               PROVE  j = k
    BY <1>2, <1>3 DEF ListedOnce, assigned, decision_level
  <2>1. l \in 0..decision_level /\ trail'[l + 1] = trail[l + 1]
    BY <1>2, <1>3 DEF decision_level
  <2>2. QED BY <2>1, Zenon DEF TrailInv, ListedOnce, assigned
<1>9. DecisionFirst'
  <2> SUFFICES ASSUME NEW l \in 1..level
               PROVE  /\ trail'[l + 1] # << >>
                      /\ var_level'[trail'[l + 1][1].var] = l
                      /\ trail'[l + 1][1].reason = NoReason
    BY <1>2, <1>3 DEF DecisionFirst, assigned, decision_level
  <2>1. l \in 1..decision_level /\ l + 1 \in 1..(level + 1) /\ l + 1 \in 1..Len(trail)
    BY <1>3 DEF decision_level
  <2>2. /\ trail[l + 1] # << >>
        /\ var_level[trail[l + 1][1].var] = l
        /\ trail[l + 1][1].reason = NoReason
    <3>1. DecisionFirst BY DEF TrailInv
    <3>2. QED BY <2>1, <3>1 DEF DecisionFirst, assigned
  <2>3. 1 \in 1..Len(trail[l + 1]) BY <1>1, <2>1, <2>2 DEF TrailTypeOK
  <2>4. QED BY <1>2, <1>4, <2>1, <2>2, <2>3
<1>10. QED BY <1>1, <1>5, <1>6, <1>7, <1>8, <1>9 DEF TrailInv

\* An empty trail satisfies the invariant, at the start and after a restart.
LEMMA EmptyTrail ==
  ASSUME NEW t, t = << << >> >>
  PROVE  Len(t) = 1 /\ t[1] = << >> /\ Len(t[1]) = 0
OBVIOUS

LEMMA InitInv == TrailInit => TrailInv
<1> SUFFICES ASSUME TrailInit PROVE TrailInv
  OBVIOUS
<1>1. Len(trail) = 1 /\ trail[1] = << >> /\ Len(trail[1]) = 0
  BY EmptyTrail DEF TrailInit
<1>2. TrailTypeOK BY DEF TrailInit, TrailTypeOK, unassigned
<1>3. QED BY <1>1, <1>2 DEF TrailInit, TrailInv, DefinedIffLevel, ListedBelow,
     ListedAtOwnLevel, ListedOnce, DecisionFirst, assigned, decision_level,
     is_defined, unassigned

LEMMA ClearStep ==
  ASSUME TrailInv, Clear
  PROVE  TrailInv'
<1>1. Len(trail') = 1 /\ trail'[1] = << >> /\ Len(trail'[1]) = 0
  BY EmptyTrail DEF Clear
<1>2. TrailTypeOK' BY TypeStep DEF TrailInv, TrailNext
<1>3. QED BY <1>1, <1>2 DEF Clear, TrailInv, DefinedIffLevel, ListedBelow,
     ListedAtOwnLevel, ListedOnce, DecisionFirst, assigned, decision_level,
     is_defined, unassigned

LEMMA InvStep ==
  ASSUME TrailInv, [TrailNext]_trailVars
  PROVE  TrailInv'
<1>1. ASSUME NEW v \in Vars, NEW x \in Values, ~is_defined(v), Decide(v, x)
      PROVE  TrailInv'
  BY <1>1, DecideStep
<1>2. ASSUME NEW v \in Vars, NEW x \in Values,
             NEW r \in Reasons \cup {NoReason}, NEW level \in 0..decision_level,
             ~is_defined(v), Propagate(v, x, r, level)
      PROVE  TrailInv'
  BY <1>2, PropagateStep
<1>3. ASSUME NEW level \in 0..decision_level, Backtrack(level)
      PROVE  TrailInv'
  BY <1>3, BacktrackStep
<1>4. CASE Clear BY <1>4, ClearStep
<1>5. CASE UNCHANGED trailVars
  BY <1>5 DEF trailVars, TrailInv, TrailTypeOK, DefinedIffLevel, ListedBelow,
     ListedAtOwnLevel, ListedOnce, DecisionFirst, assigned, decision_level,
     is_defined, VarsIn
<1>6. QED BY <1>1, <1>2, <1>3, <1>4, <1>5 DEF TrailNext

\* The lists of the levels and the tables that repeat them agree in every
\* reachable state, out-of-order propagation included.
THEOREM TrailCorrect == TrailSpec => []TrailInv
<1>1. TrailInit => TrailInv BY InitInv
<1>2. TrailInv /\ [TrailNext]_trailVars => TrailInv' BY InvStep
<1>3. QED BY <1>1, <1>2, PTL DEF TrailSpec

\* Backtracking to a level unassigns exactly the variables above it and
\* leaves everything at or below it alone (Trail::backtrack).
THEOREM BacktrackExact == TrailSpec => BacktrackIsExact
<1> DEFINE A == Len(trail') < Len(trail) /\ trail' # << << >> >> =>
       /\ \A i \in 1..Len(trail') : trail'[i] = trail[i]
       /\ \A v \in Vars :
            IF var_level[v] < Len(trail')
              THEN /\ model'[v] = model[v]
                   /\ var_level'[v] = var_level[v]
                   /\ var_reason'[v] = var_reason[v]
              ELSE model'[v] = Undef /\ var_level'[v] = unassigned
<1>1. TrailInv /\ [TrailNext]_trailVars => [A]_trailVars
  <2> SUFFICES ASSUME TrailInv, [TrailNext]_trailVars,
                      Len(trail') < Len(trail), trail' # << << >> >>
               PROVE  /\ \A i \in 1..Len(trail') : trail'[i] = trail[i]
                      /\ \A v \in Vars :
                           IF var_level[v] < Len(trail')
                             THEN /\ model'[v] = model[v]
                                  /\ var_level'[v] = var_level[v]
                                  /\ var_reason'[v] = var_reason[v]
                             ELSE model'[v] = Undef /\ var_level'[v] = unassigned
    OBVIOUS
  <2>1. TrailTypeOK BY DEF TrailInv
  <2>2. ASSUME NEW v \in Vars, NEW x \in Values, Decide(v, x)
        PROVE  FALSE
    <3>1. Len(trail') = Len(trail) + 1 BY <2>1, <2>2, DecideLists, Zenon
    <3>2. QED BY <2>1, <3>1 DEF TrailTypeOK
  <2>3. ASSUME NEW v \in Vars, NEW x \in Values,
               NEW r \in Reasons \cup {NoReason}, NEW level \in 0..decision_level,
               Propagate(v, x, r, level)
        PROVE  FALSE
    <3>1. Len(trail') = Len(trail)
      BY <2>1, <2>3, PropagateLists, Zenon DEF Lengthened
    <3>2. QED BY <2>1, <3>1 DEF TrailTypeOK
  <2>4. ASSUME Clear
        PROVE  FALSE
    BY <2>4 DEF Clear
  <2>5. ASSUME UNCHANGED trailVars
        PROVE  FALSE
    BY <2>1, <2>5 DEF trailVars, TrailTypeOK
  <2>6. PICK level \in 0..decision_level : Backtrack(level)
    BY <2>2, <2>3, <2>4, <2>5, Zenon DEF TrailNext
  <2>7. Len(trail') = level + 1 /\ \A i \in 1..(level + 1) : trail'[i] = trail[i]
    BY <2>1, <2>6, BacktrackLists
  <2>8. ASSUME NEW v \in Vars
        PROVE  var_level[v] < Len(trail') <=> ~(var_level[v] > level)
    BY <2>1, <2>7 DEF TrailTypeOK, decision_level
  <2>9. QED BY <2>6, <2>7, <2>8, BacktrackTables
<1>2. QED BY <1>1, TrailCorrect, PTL DEF TrailSpec, BacktrackIsExact

-----------------------------------------------------------------------------
(* The trail implements a partial map cut by backtracking.                 *)

\* Every trail, with its lists forgotten, behaves as the abstract assignment.
THEOREM TrailImplementsAssignment == TrailSpec => ImplementsAssignment
<1> DEFINE m == [v \in Vars |-> IF is_defined(v)
                                  THEN <<model[v], var_level[v], var_reason[v]>>
                                  ELSE << >>]
<1>1. TrailInit => AbstractTrail!Init
  <2> SUFFICES ASSUME TrailInit PROVE AbstractTrail!Init
    OBVIOUS
  <2>1. decision_level = 0 BY EmptyTrail DEF TrailInit, decision_level
  <2>2. m = [v \in Vars |-> << >>] BY DEF TrailInit, is_defined
  <2>3. QED BY <2>1, <2>2 DEF AbstractTrail!Init
<1>2. TrailInv /\ [TrailNext]_trailVars => [AbstractTrail!Next]_(AbstractTrail!vars)
  <2> SUFFICES ASSUME TrailInv, [TrailNext]_trailVars
               PROVE  [AbstractTrail!Next]_(AbstractTrail!vars)
    OBVIOUS
  <2>1. TrailTypeOK BY DEF TrailInv
  <2>2. ASSUME NEW v \in Vars, NEW x \in Values, ~is_defined(v), Decide(v, x)
        PROVE  AbstractTrail!Decision(v, x)
    <3>0. Len(trail') = Len(trail) + 1 BY <2>1, <2>2, DecideLists, Zenon
    <3>1. decision_level' = decision_level + 1
      BY <2>1, <3>0 DEF decision_level, TrailTypeOK
    <3>2. m[v] = << >> BY <2>2
    <3>3. m' = [m EXCEPT ![v] = <<x, decision_level + 1, NoReason>>]
      BY <2>1, <2>2, UndefAssumption, Zenon DEF Decide, is_defined, TrailTypeOK
    <3>4. QED BY <3>1, <3>2, <3>3 DEF AbstractTrail!Decision, AbstractTrail!Free
  <2>3. ASSUME NEW v \in Vars, NEW x \in Values,
               NEW r \in Reasons \cup {NoReason}, NEW level \in 0..decision_level,
               ~is_defined(v), Propagate(v, x, r, level)
        PROVE  AbstractTrail!Propagation(v, x, r, level)
    <3>1. decision_level' = decision_level
      BY <2>1, <2>3, PropagateLists, Zenon DEF decision_level, Lengthened
    <3>2. m[v] = << >> BY <2>3
    <3>3. m' = [m EXCEPT ![v] = <<x, level, r>>]
      BY <2>1, <2>3, UndefAssumption, Zenon DEF Propagate, is_defined, TrailTypeOK
    <3>4. QED BY <3>1, <3>2, <3>3 DEF AbstractTrail!Propagation, AbstractTrail!Free
  <2>4. ASSUME NEW level \in 0..decision_level, Backtrack(level)
        PROVE  AbstractTrail!Cut(level)
    <3>1. decision_level' = level
      BY <2>1, <2>4, BacktrackLists DEF decision_level
    <3>2. ASSUME NEW v \in Vars
          PROVE  m'[v] = IF ~(m[v] = << >>) /\ m[v][2] > level THEN << >> ELSE m[v]
      <4>1. model[v] # Undef <=> var_level[v] # unassigned
        BY DEF TrailInv, DefinedIffLevel, is_defined
      <4>2. CASE var_level[v] > level
        <5>1. model'[v] = Undef /\ model[v] # Undef
          BY <2>1, <2>4, <4>1, <4>2, BacktrackTables DEF decision_level, unassigned, TrailTypeOK
        <5>2. QED BY <4>2, <5>1 DEF is_defined
      <4>3. CASE ~(var_level[v] > level)
        BY <2>4, <4>3, BacktrackTables DEF is_defined
      <4>4. QED BY <4>2, <4>3
    <3>3. m' = [v \in Vars |-> IF ~(m[v] = << >>) /\ m[v][2] > level THEN << >> ELSE m[v]]
      BY <3>2
    <3>4. QED BY <3>1, <3>3 DEF AbstractTrail!Cut, AbstractTrail!Free
  <2>5. CASE Clear
    <3>1. decision_level' = 0
      BY <2>5, EmptyTrail DEF Clear, decision_level
    <3>2. m' = [v \in Vars |-> << >>] BY <2>5 DEF Clear, is_defined
    <3>3. QED BY <3>1, <3>2 DEF AbstractTrail!Reset, AbstractTrail!Next
  <2>6. CASE UNCHANGED trailVars
    BY <2>6 DEF trailVars, AbstractTrail!vars, decision_level, is_defined
  <2>7. QED BY <2>2, <2>3, <2>4, <2>5, <2>6 DEF TrailNext, AbstractTrail!Next
<1>3. QED BY <1>1, <1>2, TrailCorrect, PTL DEF TrailSpec, ImplementsAssignment, AbstractTrail!Spec

-----------------------------------------------------------------------------
(* Literals.                                                               *)

\* A literal is a variable or the negation of one.
LEMMA LiteralTypes ==
  ASSUME NEW lit \in Literals
  PROVE  /\ lit \in Int /\ lit # 0
         /\ -lit \in Literals /\ -(-lit) = lit /\ lit # -lit
         /\ VarOf(lit) \in BoolVars /\ VarOf(lit) \in Vars
         /\ VarOf(-lit) = VarOf(lit)
         /\ VarOf(lit) \in Int /\ VarOf(lit) > 0
         /\ lit = VarOf(lit) \/ lit = -VarOf(lit)
         /\ lit > 0 <=> lit = VarOf(lit)
<1>1. BoolVars \subseteq Nat \ {0} BY BoolVarsAssumption
<1>2. PICK v \in BoolVars : lit = v \/ lit = -v BY DEF Literals
<1>3. v \in Int /\ v > 0 /\ v \in Vars BY <1>1, VarsAssumption
<1>4. VarOf(lit) = v /\ VarOf(-lit) = v BY <1>2, <1>3 DEF VarOf
<1>5. -lit \in Literals BY <1>2, <1>3 DEF Literals
<1>6. QED BY <1>2, <1>3, <1>4, <1>5

\* A boolean variable is a literal, and so is its negation.
LEMMA VariableLiterals ==
  ASSUME NEW v \in BoolVars
  PROVE  /\ v \in Literals /\ -v \in Literals
         /\ VarOf(v) = v /\ VarOf(-v) = v
         /\ v \in Int /\ v > 0 /\ v \in Vars
         /\ v > 0 /\ ~(-v > 0) /\ -v < 0 /\ ~(v < 0)
<1>1. v \in Int /\ v > 0 /\ v \in Vars
  BY BoolVarsAssumption, VarsAssumption
<1>2. QED BY <1>1 DEF Literals, VarOf

\* Two literals of one variable are equal or opposite.
LEMMA SameVariable ==
  ASSUME NEW l \in Literals, NEW k \in Literals, VarOf(l) = VarOf(k)
  PROVE  l = k \/ l = -k
<1>1. VarOf(k) \in Int BY LiteralTypes
<1>2. QED BY <1>1, LiteralTypes

\* A literal is true exactly when its negation is false, and never both.
LEMMA LiteralValues ==
  ASSUME NEW m, BoolValued(m), NEW lit \in Literals
  PROVE  /\ TrueIn(m, -lit) <=> FalseIn(m, lit)
         /\ FalseIn(m, -lit) <=> TrueIn(m, lit)
         /\ ~(TrueIn(m, lit) /\ FalseIn(m, lit))
         /\ m[VarOf(lit)] # Undef <=> TrueIn(m, lit) \/ FalseIn(m, lit)
<1> DEFINE v == VarOf(lit)
<1>1. v \in BoolVars /\ VarOf(-lit) = v /\ lit \in Int /\ lit # 0
  BY LiteralTypes
<1>2. m[v] = TRUE \/ m[v] = FALSE \/ m[v] = Undef BY <1>1 DEF BoolValued
<1>3. Undef # TRUE /\ Undef # FALSE
  BY UndefAssumption, VarsAssumption, Zenon
<1>4. TrueIn(m, lit) <=> (m[v] = (lit > 0)) BY DEF TrueIn
<1>5. FalseIn(m, lit) <=> (m[v] = (lit < 0)) BY DEF FalseIn
<1>6. TrueIn(m, -lit) <=> (m[v] = (-lit > 0)) BY <1>1 DEF TrueIn
<1>7. FalseIn(m, -lit) <=> (m[v] = (-lit < 0)) BY <1>1 DEF FalseIn
<1> HIDE DEF v
<1>8. CASE lit > 0
  <2>1. (lit > 0) = TRUE /\ (lit < 0) = FALSE /\ (-lit > 0) = FALSE /\ (-lit < 0) = TRUE
    BY <1>1, <1>8
  <2>2. QED BY <1>2, <1>3, <1>4, <1>5, <1>6, <1>7, <2>1, Zenon DEF v
<1>9. CASE lit < 0
  <2>1. (lit > 0) = FALSE /\ (lit < 0) = TRUE /\ (-lit > 0) = TRUE /\ (-lit < 0) = FALSE
    BY <1>1, <1>9
  <2>2. QED BY <1>2, <1>3, <1>4, <1>5, <1>6, <1>7, <2>1, Zenon DEF v
<1>10. QED BY <1>1, <1>8, <1>9

\* The literal of a variable that is true.
LEMMA TrueLiteral ==
  ASSUME BoolValued(model), NEW v \in BoolVars
  PROVE  /\ TrueLiteralOf(v) \in Literals /\ VarOf(TrueLiteralOf(v)) = v
         /\ is_defined(v) => True(TrueLiteralOf(v)) /\ False(-TrueLiteralOf(v))
<1>1. /\ v \in Literals /\ -v \in Literals /\ VarOf(v) = v /\ VarOf(-v) = v
      /\ v \in Int /\ v > 0
  BY VariableLiterals
<1>2. TrueLiteralOf(v) = v \/ TrueLiteralOf(v) = -v BY DEF TrueLiteralOf
<1>3. ASSUME is_defined(v)
      PROVE  True(TrueLiteralOf(v))
  <2>1. model[v] = TRUE \/ model[v] = FALSE
    BY <1>3 DEF BoolValued, is_defined
  <2>2. CASE model[v] = TRUE
    <3>1. TrueLiteralOf(v) = v /\ (v > 0) = TRUE
      BY <1>1, <2>2 DEF TrueLiteralOf
    <3>2. QED BY <1>1, <2>2, <3>1, Zenon DEF True, TrueIn
  <2>3. CASE model[v] = FALSE
    <3>1. TrueLiteralOf(v) = -v /\ (-v > 0) = FALSE
      BY <1>1, <2>3 DEF TrueLiteralOf
    <3>2. QED BY <1>1, <2>3, <3>1, Zenon DEF True, TrueIn
  <2>4. QED BY <2>1, <2>2, <2>3, Zenon
<1>4. QED BY <1>1, <1>2, <1>3, LiteralValues DEF True, False

\* A literal with a value is the true literal of its variable or its negation.
LEMMA TrueLiteralOfFalse ==
  ASSUME BoolValued(model), NEW lit \in Literals
  PROVE  /\ False(lit) => TrueLiteralOf(VarOf(lit)) = -lit
         /\ True(lit) => TrueLiteralOf(VarOf(lit)) = lit
<1>1. VarOf(lit) \in BoolVars /\ -lit \in Literals /\ VarOf(-lit) = VarOf(lit) /\ -(-lit) = lit
  BY LiteralTypes
<1>2. True(lit) \/ False(lit) => is_defined(VarOf(lit))
  BY LiteralValues DEF True, False, is_defined
<1>3. /\ TrueLiteralOf(VarOf(lit)) \in Literals
      /\ TrueLiteralOf(VarOf(lit)) = lit \/ TrueLiteralOf(VarOf(lit)) = -lit
  BY <1>1, TrueLiteral, SameVariable
<1>4. True(lit) \/ False(lit) => True(TrueLiteralOf(VarOf(lit)))
  BY <1>1, <1>2, TrueLiteral
<1>5. ~(True(lit) /\ False(lit)) /\ (True(-lit) <=> False(lit))
  BY LiteralValues DEF True, False
<1>6. QED BY <1>3, <1>4, <1>5

-----------------------------------------------------------------------------
(* What the operations of the trail do to what is already assigned.        *)

\* Everything assigned stays as it is and where it is.
Grows ==
  /\ decision_level' >= decision_level
  /\ \A v \in Vars : is_defined(v) =>
       /\ model'[v] = model[v]
       /\ var_level'[v] = var_level[v]
       /\ var_reason'[v] = var_reason[v]
  /\ \A l \in 0..decision_level :
       /\ Len(trail'[l + 1]) >= Len(trail[l + 1])
       /\ \A k \in 1..Len(trail[l + 1]) : trail'[l + 1][k] = trail[l + 1][k]

\* Exactly one variable is assigned.
AssignsVar(v, value, r, level) ==
  /\ model'[v] = value /\ var_level'[v] = level /\ var_reason'[v] = r
  /\ \A w \in Vars : w # v =>
       model'[w] = model[w] /\ var_level'[w] = var_level[w] /\ var_reason'[w] = var_reason[w]

\* Everything above a level is undone, and nothing else.
CutsTo(level) ==
  /\ decision_level' = level
  /\ \A v \in Vars :
       IF var_level[v] > level
         THEN /\ model'[v] = Undef /\ var_level'[v] = unassigned
              /\ var_reason'[v] = NoReason
         ELSE /\ model'[v] = model[v] /\ var_level'[v] = var_level[v]
              /\ var_reason'[v] = var_reason[v]
  /\ \A l \in 0..level : trail'[l + 1] = trail[l + 1]

\* The types of the lists of the trail.
LEMMA ListTypes ==
  ASSUME TrailTypeOK
  PROVE  /\ decision_level \in Nat
         /\ \A l \in 0..decision_level :
              /\ assigned(l) \in Seq(Assignment) /\ Len(assigned(l)) \in Nat
              /\ \A k \in 1..Len(assigned(l)) :
                   /\ assigned(l)[k] \in Assignment
                   /\ assigned(l)[k].var \in Vars
                   /\ assigned(l)[k].reason \in Reasons \cup {NoReason}
         /\ recent = assigned(decision_level)
<1>1. decision_level \in Nat BY DEF TrailTypeOK, decision_level
<1>2. ASSUME NEW l \in 0..decision_level
      PROVE  assigned(l) \in Seq(Assignment)
  BY <1>1 DEF TrailTypeOK, decision_level, assigned
<1>3. recent = assigned(decision_level)
  BY DEF TrailTypeOK, decision_level, assigned, recent
<1>4. \A e \in Assignment : e.var \in Vars /\ e.reason \in Reasons \cup {NoReason}
  BY DEF Assignment
<1>5. QED BY <1>1, <1>2, <1>3, <1>4

\* Trail::decide, as the solver sees it: one assignment opens a new level.
LEMMA DecideEffect ==
  ASSUME TrailInv, NEW v \in Vars, NEW x \in Values, ~is_defined(v), Decide(v, x)
  PROVE  /\ TrailNext /\ TrailInv'
         /\ Grows /\ AssignsVar(v, x, NoReason, decision_level + 1)
         /\ decision_level' = decision_level + 1
         /\ recent' = <<[var |-> v, reason |-> NoReason]>>
<1>1. TrailTypeOK BY DEF TrailInv
<1>2. /\ Len(trail') = Len(trail) + 1
      /\ \A i \in 1..Len(trail) : trail'[i] = trail[i]
      /\ trail'[Len(trail) + 1] = <<[var |-> v, reason |-> NoReason]>>
  BY <1>1, DecideLists
<1>3. Len(trail) \in Nat /\ \A i \in 1..Len(trail) : Len(trail[i]) \in Nat
  BY <1>1 DEF TrailTypeOK
<1>4. AssignsVar(v, x, NoReason, decision_level + 1)
  BY <1>1 DEF Decide, AssignsVar, TrailTypeOK
<1>5. decision_level' = decision_level + 1
  BY <1>2, <1>3 DEF decision_level
<1>6. Grows
  <2>1. \A w \in Vars : is_defined(w) => w # v OBVIOUS
  <2>2. \A l \in 0..decision_level :
          /\ Len(trail'[l + 1]) >= Len(trail[l + 1])
          /\ \A k \in 1..Len(trail[l + 1]) : trail'[l + 1][k] = trail[l + 1][k]
    BY <1>2, <1>3 DEF decision_level
  <2>3. decision_level' >= decision_level
    BY <1>3, <1>5 DEF decision_level
  <2>4. QED BY <1>4, <2>1, <2>2, <2>3 DEF Grows, AssignsVar
<1>7. TrailNext BY DEF TrailNext
<1>8. TrailInv' BY DecideStep
<1>9. recent' = <<[var |-> v, reason |-> NoReason]>> BY <1>2 DEF recent
<1>10. QED BY <1>4, <1>5, <1>6, <1>7, <1>8, <1>9

\* Trail::propagate: one assignment, behind the lists from its level upwards.
LEMMA PropagateEffect ==
  ASSUME TrailInv, NEW v \in Vars, NEW x \in Values,
         NEW r \in Reasons \cup {NoReason}, NEW level \in 0..decision_level,
         ~is_defined(v), Propagate(v, x, r, level)
  PROVE  /\ TrailNext /\ TrailInv'
         /\ Grows /\ AssignsVar(v, x, r, level)
         /\ decision_level' = decision_level
         /\ \A l \in 0..decision_level :
              /\ l < level => assigned(l)' = assigned(l)
              /\ l >= level =>
                   /\ Len(assigned(l)') = Len(assigned(l)) + 1
                   /\ assigned(l)'[Len(assigned(l)) + 1] = [var |-> v, reason |-> r]
<1>1. TrailTypeOK BY DEF TrailInv
<1>2. /\ trail' \in Seq(Seq(Assignment))
      /\ Len(trail') = Len(trail)
      /\ \A i \in 1..Len(trail) :
           /\ i <= level => trail'[i] = trail[i]
           /\ i > level =>
                /\ Len(trail'[i]) = Len(trail[i]) + 1
                /\ \A k \in 1..Len(trail[i]) : trail'[i][k] = trail[i][k]
                /\ trail'[i][Len(trail[i]) + 1] = [var |-> v, reason |-> r]
  <2>1. Lengthened(v, r, level) BY <1>1, PropagateLists, Zenon
  <2>2. QED BY <2>1 DEF Lengthened
<1>3. Len(trail) \in Nat /\ \A i \in 1..Len(trail) : Len(trail[i]) \in Nat
  BY <1>1 DEF TrailTypeOK
<1>4. AssignsVar(v, x, r, level)
  BY <1>1 DEF Propagate, AssignsVar, TrailTypeOK
<1>5. decision_level' = decision_level BY <1>2 DEF decision_level
<1>6. \A l \in 0..decision_level :
          /\ Len(trail'[l + 1]) >= Len(trail[l + 1])
          /\ \A k \in 1..Len(trail[l + 1]) : trail'[l + 1][k] = trail[l + 1][k]
  <2>1. ASSUME NEW l \in 0..decision_level
        PROVE  /\ Len(trail'[l + 1]) >= Len(trail[l + 1])
               /\ \A k \in 1..Len(trail[l + 1]) : trail'[l + 1][k] = trail[l + 1][k]
    <3>1. l + 1 \in 1..Len(trail) /\ level \in Int
      BY <1>3 DEF decision_level
    <3>2. CASE l + 1 <= level BY <1>2, <1>3, <3>1, <3>2
    <3>3. CASE l + 1 > level BY <1>2, <1>3, <3>1, <3>3
    <3>4. QED BY <3>1, <3>2, <3>3
  <2>2. QED BY <2>1
<1>7. Grows
  <2>1. \A w \in Vars : is_defined(w) => w # v OBVIOUS
  <2>2. decision_level' >= decision_level
    BY <1>3, <1>5 DEF decision_level
  <2>3. QED BY <1>4, <1>6, <2>1, <2>2, Zenon DEF Grows, AssignsVar
<1>8. TrailNext BY DEF TrailNext
<1>9. TrailInv' BY PropagateStep
<1>10. \A l \in 0..decision_level :
         /\ l < level => assigned(l)' = assigned(l)
         /\ l >= level =>
              /\ Len(assigned(l)') = Len(assigned(l)) + 1
              /\ assigned(l)'[Len(assigned(l)) + 1] = [var |-> v, reason |-> r]
  <2>1. ASSUME NEW l \in 0..decision_level
        PROVE  /\ l < level => trail'[l + 1] = trail[l + 1]
               /\ l >= level =>
                    /\ Len(trail'[l + 1]) = Len(trail[l + 1]) + 1
                    /\ trail'[l + 1][Len(trail[l + 1]) + 1] = [var |-> v, reason |-> r]
    <3>1. l + 1 \in 1..Len(trail) /\ level \in Int
      BY <1>3 DEF decision_level
    <3>2. QED BY <1>2, <3>1
  <2>2. QED BY <2>1 DEF assigned
<1>11. QED BY <1>4, <1>5, <1>7, <1>8, <1>9, <1>10

\* Trail::backtrack cuts the trail to the level.
LEMMA BacktrackEffect ==
  ASSUME TrailInv, NEW level \in 0..decision_level, Backtrack(level)
  PROVE  TrailNext /\ TrailInv' /\ CutsTo(level)
<1>1. TrailTypeOK BY DEF TrailInv
<1>2. /\ Len(trail') = level + 1
      /\ \A i \in 1..(level + 1) : trail'[i] = trail[i]
  BY <1>1, BacktrackLists
<1>3. decision_level' = level
  BY <1>2, ListTypes, <1>1 DEF decision_level
<1>4. \A l \in 0..level : trail'[l + 1] = trail[l + 1] BY <1>2
<1>5. \A v \in Vars :
        IF var_level[v] > level
          THEN /\ model'[v] = Undef /\ var_level'[v] = unassigned
               /\ var_reason'[v] = NoReason
          ELSE /\ model'[v] = model[v] /\ var_level'[v] = var_level[v]
               /\ var_reason'[v] = var_reason[v]
  BY BacktrackTables
<1>6. TrailNext BY DEF TrailNext
<1>7. QED BY <1>3, <1>4, <1>5, <1>6, BacktrackStep DEF CutsTo

\* A variable is defined exactly when it has a level.
LEMMA DefinedLevels ==
  ASSUME TrailInv, NEW v \in Vars
  PROVE  /\ is_defined(v) => var_level[v] \in 0..decision_level
         /\ ~is_defined(v) => var_level[v] = -1 /\ var_reason[v] = NoReason
         /\ decision_level \in Nat /\ var_level[v] \in Int
<1>1. decision_level \in Nat BY ListTypes DEF TrailInv
<1>2. /\ var_level[v] \in (-1)..decision_level
      /\ is_defined(v) <=> var_level[v] # -1
      /\ ~is_defined(v) => var_reason[v] = NoReason
  BY DEF TrailInv, DefinedIffLevel, unassigned
<1>3. QED BY <1>1, <1>2

\* A literal with a value is either true or false, on a level of the trail.
LEMMA FalseLiterals ==
  ASSUME TrailInv, BoolValued(model), NEW lit \in Literals
  PROVE  /\ True(lit) \/ False(lit) <=> is_defined(VarOf(lit))
         /\ ~(True(lit) /\ False(lit))
         /\ True(-lit) <=> False(lit)
         /\ False(-lit) <=> True(lit)
         /\ LevelOf(-lit) = LevelOf(lit)
         /\ LevelOf(lit) \in Int
         /\ True(lit) \/ False(lit) => LevelOf(lit) \in 0..decision_level
<1>1. VarOf(lit) \in Vars /\ VarOf(-lit) = VarOf(lit) BY LiteralTypes
<1>2. /\ True(-lit) <=> False(lit)
      /\ False(-lit) <=> True(lit)
      /\ ~(True(lit) /\ False(lit))
      /\ is_defined(VarOf(lit)) <=> True(lit) \/ False(lit)
  BY LiteralValues DEF True, False, is_defined
<1>3. QED BY <1>1, <1>2, DefinedLevels DEF LevelOf

\* Literals keep their values, levels and reasons while the trail grows.
LEMMA GrowsLiterals ==
  ASSUME TrailInv, BoolValued(model), Grows, NEW lit \in Literals
  PROVE  /\ True(lit) => True(lit)'
         /\ False(lit) => False(lit)'
         /\ True(lit) \/ False(lit) =>
              /\ LevelOf(lit)' = LevelOf(lit)
              /\ var_reason'[VarOf(lit)] = var_reason[VarOf(lit)]
<1>1. VarOf(lit) \in Vars BY LiteralTypes
<1>2. True(lit) \/ False(lit) =>
        /\ model'[VarOf(lit)] = model[VarOf(lit)]
        /\ var_level'[VarOf(lit)] = var_level[VarOf(lit)]
        /\ var_reason'[VarOf(lit)] = var_reason[VarOf(lit)]
  BY <1>1, FalseLiterals DEF Grows
<1>3. QED BY <1>2 DEF True, False, TrueIn, FalseIn, LevelOf

\* Assigning a variable makes one literal true and its negation false.
LEMMA AssignsLiterals ==
  ASSUME TrailInv, BoolValued(model), NEW x \in Literals, ~is_defined(VarOf(x)),
         NEW r, NEW level, AssignsVar(VarOf(x), x > 0, r, level)
  PROVE  /\ BoolValued(model')
         /\ (x > 0) \in Values
         /\ \A lit \in Literals :
              /\ True(lit)' <=> True(lit) \/ lit = x
              /\ False(lit)' <=> False(lit) \/ lit = -x
              /\ lit = x \/ lit = -x => LevelOf(lit)' = level
              /\ lit # x /\ lit # -x => LevelOf(lit)' = LevelOf(lit)
<1>1. VarOf(x) \in BoolVars /\ VarOf(-x) = VarOf(x) /\ x \in Int /\ x # 0 /\ -x \in Literals
  BY LiteralTypes
<1>2. (x > 0) \in BOOLEAN BY <1>1
<1>3. BoolValued(model')
  <2>1. ASSUME NEW v \in BoolVars
        PROVE  model'[v] \in BOOLEAN \cup {Undef}
    <3>1. CASE v = VarOf(x) BY <1>2, <3>1, Zenon DEF AssignsVar
    <3>2. CASE v # VarOf(x)
      <4>1. v \in Vars BY VarsAssumption
      <4>2. model'[v] = model[v] BY <3>2, <4>1 DEF AssignsVar
      <4>3. QED BY <4>2 DEF BoolValued
    <3>3. QED BY <3>1, <3>2
  <2>2. QED BY <2>1 DEF BoolValued
<1>4. TrueIn(model', x) BY DEF AssignsVar, TrueIn
<1>5. ~True(x) /\ ~False(x) BY FalseLiterals
<1>6. ASSUME NEW lit \in Literals
      PROVE  /\ True(lit)' <=> True(lit) \/ lit = x
             /\ False(lit)' <=> False(lit) \/ lit = -x
             /\ lit = x \/ lit = -x => LevelOf(lit)' = level
             /\ lit # x /\ lit # -x => LevelOf(lit)' = LevelOf(lit)
  <2>1. CASE VarOf(lit) = VarOf(x)
    <3>1. lit = x \/ lit = -x BY <2>1, SameVariable
    <3>2. LevelOf(lit)' = level BY <2>1 DEF AssignsVar, LevelOf
    <3>3. ~True(lit) /\ ~False(lit) BY <1>5, <3>1, FalseLiterals
    <3>4. x # -x BY <1>1
    <3>5. /\ FalseIn(model', -x) /\ ~FalseIn(model', x)
          /\ TrueIn(model', x) /\ ~TrueIn(model', -x)
      BY <1>1, <1>3, <1>4, LiteralValues
    <3>6. QED BY <3>1, <3>2, <3>3, <3>4, <3>5 DEF True, False
  <2>2. CASE VarOf(lit) # VarOf(x)
    <3>1. VarOf(lit) \in Vars BY LiteralTypes
    <3>2. model'[VarOf(lit)] = model[VarOf(lit)] /\ LevelOf(lit)' = LevelOf(lit)
      BY <2>2, <3>1 DEF AssignsVar, LevelOf
    <3>3. lit # x /\ lit # -x BY <1>1, <2>2
    <3>4. QED BY <3>2, <3>3 DEF True, False, TrueIn, FalseIn
  <2>3. QED BY <2>1, <2>2
<1>7. (x > 0) \in Values BY <1>2, VarsAssumption, Zenon
<1>8. QED BY <1>3, <1>6, <1>7

\* Backtracking leaves the literals of the levels it keeps, and no others.
LEMMA CutsLiterals ==
  ASSUME TrailInv, BoolValued(model), NEW level \in 0..decision_level, CutsTo(level)
  PROVE  /\ BoolValued(model')
         /\ \A lit \in Literals :
              /\ True(lit)' <=> True(lit) /\ LevelOf(lit) <= level
              /\ False(lit)' <=> False(lit) /\ LevelOf(lit) <= level
              /\ LevelOf(lit) <= level => LevelOf(lit)' = LevelOf(lit)
<1>1. \A v \in Vars : /\ var_level[v] > level => model'[v] = Undef
                      /\ ~(var_level[v] > level) =>
                           model'[v] = model[v] /\ var_level'[v] = var_level[v]
  BY DEF CutsTo
<1>2. BoolValued(model')
  <2>1. \A v \in BoolVars : v \in Vars BY VarsAssumption
  <2>2. QED BY <1>1, <2>1 DEF BoolValued
<1>3. ASSUME NEW lit \in Literals
      PROVE  /\ True(lit)' <=> True(lit) /\ LevelOf(lit) <= level
             /\ False(lit)' <=> False(lit) /\ LevelOf(lit) <= level
             /\ LevelOf(lit) <= level => LevelOf(lit)' = LevelOf(lit)
  <2>1. VarOf(lit) \in Vars /\ LevelOf(lit) \in Int /\ level \in Int
    BY LiteralTypes, FalseLiterals, DefinedLevels
  <2>2. CASE LevelOf(lit) > level
    <3>1. model'[VarOf(lit)] = Undef BY <1>1, <2>1, <2>2 DEF LevelOf
    <3>2. ~TrueIn(model', lit) /\ ~FalseIn(model', lit)
      BY <1>2, <3>1, LiteralValues
    <3>3. QED BY <2>1, <2>2, <3>2 DEF True, False
  <2>3. CASE ~(LevelOf(lit) > level)
    <3>1. model'[VarOf(lit)] = model[VarOf(lit)] /\ var_level'[VarOf(lit)] = var_level[VarOf(lit)]
      BY <1>1, <2>1, <2>3 DEF LevelOf
    <3>2. LevelOf(lit) <= level BY <2>1, <2>3
    <3>3. QED BY <3>1, <3>2 DEF True, False, TrueIn, FalseIn, LevelOf
  <2>4. QED BY <2>2, <2>3
<1>4. QED BY <1>2, <1>3

\* Trail::clear leaves every variable undefined.
LEMMA ClearEffect ==
  ASSUME TrailInv, Clear
  PROVE  /\ TrailNext /\ TrailInv' /\ decision_level' = 0 /\ empty'
         /\ BoolValued(model')
         /\ \A v \in Vars : ~is_defined(v)' /\ var_reason'[v] = NoReason
         /\ \A lit \in Literals : ~True(lit)' /\ ~False(lit)'
<1>1. TrailNext BY DEF TrailNext
<1>2. \A v \in Vars : model'[v] = Undef /\ var_reason'[v] = NoReason
  BY DEF Clear
<1>3. BoolValued(model') BY <1>2, VarsAssumption DEF BoolValued
<1>4. trail' = << << >> >> BY DEF Clear
<1>5. Len(trail') = 1 /\ trail'[1] = << >> BY <1>4, EmptyTrail
<1>6. decision_level' = 0 /\ empty' BY <1>5 DEF decision_level, empty
<1>7. \A lit \in Literals : VarOf(lit) \in Vars BY LiteralTypes
<1>8. \A lit \in Literals : ~TrueIn(model', lit) /\ ~FalseIn(model', lit)
  BY <1>2, <1>3, <1>7, LiteralValues
<1>9. QED BY <1>1, <1>2, <1>3, <1>6, <1>8, ClearStep DEF is_defined, True, False

-----------------------------------------------------------------------------
(* The order of assignments.                                               *)

\* A variable is listed once on its own level.
LEMMA OwnPosition ==
  ASSUME TrailInv, NEW v \in Vars, is_defined(v)
  PROVE  /\ var_level[v] \in 0..decision_level
         /\ Len(assigned(var_level[v])) \in Nat
         /\ \E k \in 1..Len(assigned(var_level[v])) : assigned(var_level[v])[k].var = v
         /\ \A j, k \in 1..Len(assigned(var_level[v])) :
              assigned(var_level[v])[j].var = assigned(var_level[v])[k].var => j = k
<1>1. var_level[v] \in 0..decision_level BY DefinedLevels
<1>2. Len(assigned(var_level[v])) \in Nat
  BY <1>1, ListTypes DEF TrailInv
<1>3. v \in VarsIn(assigned(var_level[v]))
  BY <1>1 DEF TrailInv, ListedAtOwnLevel, unassigned
<1>4. \A j, k \in 1..Len(assigned(var_level[v])) :
        assigned(var_level[v])[j].var = assigned(var_level[v])[k].var => j = k
  BY <1>1 DEF TrailInv, ListedOnce
<1>5. QED BY <1>1, <1>2, <1>3, <1>4 DEF VarsIn

\* Listing on a level is a strict order of its variables.
LEMMA BeforeIsOrder ==
  ASSUME TrailInv, NEW u \in Vars, NEW v \in Vars,
         is_defined(u), is_defined(v), var_level[u] = var_level[v]
  PROVE  /\ ~ListedBefore(v, v)
         /\ ~(ListedBefore(u, v) /\ ListedBefore(v, u))
         /\ u # v => ListedBefore(u, v) \/ ListedBefore(v, u)
<1> DEFINE list == assigned(var_level[v])
<1>1. Len(list) \in Nat /\ \A j, k \in 1..Len(list) : list[j].var = list[k].var => j = k
  BY OwnPosition
<1>2. PICK k \in 1..Len(list) : list[k].var = v BY OwnPosition
<1>3. PICK j \in 1..Len(list) : list[j].var = u BY OwnPosition
<1>4. ListedBefore(v, v) <=> \E i, n \in 1..Len(list) : i < n /\ list[i].var = v /\ list[n].var = v
  BY DEF ListedBefore
<1>5. ListedBefore(u, v) <=> \E i, n \in 1..Len(list) : i < n /\ list[i].var = u /\ list[n].var = v
  BY DEF ListedBefore
<1>6. ListedBefore(v, u) <=> \E i, n \in 1..Len(list) : i < n /\ list[i].var = v /\ list[n].var = u
  BY DEF ListedBefore
<1> HIDE DEF list
<1>7. ~ListedBefore(v, v) BY <1>1, <1>4
<1>8. ListedBefore(u, v) => j < k BY <1>1, <1>2, <1>3, <1>5
<1>9. ListedBefore(v, u) => k < j BY <1>1, <1>2, <1>3, <1>6
<1>10. j < k => ListedBefore(u, v) BY <1>2, <1>3, <1>5
<1>11. k < j => ListedBefore(v, u) BY <1>2, <1>3, <1>6
<1>12. j \in Int /\ k \in Int BY <1>1
<1>13. u # v => j # k BY <1>2, <1>3
<1>14. QED BY <1>7, <1>8, <1>9, <1>10, <1>11, <1>12, <1>13

\* An order on a level stays while the list of the level keeps its entries.
LEMMA BeforeStays ==
  ASSUME TrailInv, NEW u \in Vars, NEW v \in Vars, is_defined(v),
         NEW list, list = assigned(var_level[v]),
         NEW longer, longer = assigned(var_level[v])',
         var_level'[v] = var_level[v],
         Len(longer) \in Nat, Len(longer) >= Len(list),
         \A k \in 1..Len(list) : longer[k] = list[k],
         ListedBefore(u, v)
  PROVE  ListedBefore(u, v)'
<1>1. Len(list) \in Nat BY OwnPosition
<1>2. PICK j, k \in 1..Len(list) : j < k /\ list[j].var = u /\ list[k].var = v
  BY DEF ListedBefore
<1>3. j \in 1..Len(longer) /\ k \in 1..Len(longer) BY <1>1
<1>4. longer[j].var = u /\ longer[k].var = v BY <1>2
<1>5. QED BY <1>2, <1>3, <1>4 DEF ListedBefore

\* The order of assignments stays while the trail grows.
LEMMA GrowsBefore ==
  ASSUME TrailInv, TrailTypeOK', Grows, NEW u \in Vars, NEW v \in Vars, is_defined(v)
  PROVE  ListedBefore(u, v) => ListedBefore(u, v)'
<1> DEFINE l == var_level[v]
<1>1. l \in 0..decision_level BY DefinedLevels
<1>2. var_level'[v] = l BY DEF Grows
<1>3. Len(trail'[l + 1]) >= Len(trail[l + 1]) BY <1>1 DEF Grows
<1>4. \A k \in 1..Len(trail[l + 1]) : trail'[l + 1][k] = trail[l + 1][k]
  BY <1>1 DEF Grows
<1>5. assigned(l) = trail[l + 1] /\ assigned(var_level[v])' = trail'[l + 1]
  BY <1>2 DEF assigned
<1>6. Len(trail'[l + 1]) \in Nat
  <2>1. l + 1 \in 1..Len(trail')
    BY <1>1 DEF Grows, decision_level, TrailTypeOK
  <2>2. QED BY <2>1 DEF TrailTypeOK
<1>7. QED BY <1>2, <1>3, <1>4, <1>5, <1>6, BeforeStays

\* The order of assignments stays on the levels that a backtrack keeps.
LEMMA CutsBefore ==
  ASSUME TrailInv, NEW level \in 0..decision_level, CutsTo(level),
         NEW u \in Vars, NEW v \in Vars, is_defined(v), var_level[v] <= level
  PROVE  ListedBefore(u, v) => ListedBefore(u, v)'
<1> DEFINE l == var_level[v]
<1>1. l \in 0..level BY DefinedLevels
<1>2. var_level'[v] = l BY <1>1, DefinedLevels DEF CutsTo
<1>3. trail'[l + 1] = trail[l + 1] BY <1>1 DEF CutsTo
<1>4. assigned(l) = trail[l + 1] /\ assigned(var_level[v])' = trail'[l + 1]
  BY <1>2 DEF assigned
<1>5. Len(assigned(l)) \in Nat BY OwnPosition
<1>6. QED BY <1>2, <1>3, <1>4, <1>5, BeforeStays

-----------------------------------------------------------------------------
(* Reasons and assignments under the operations of the trail.              *)

\* Clauses of the database are lists of literals.
LEMMA ClauseTypes ==
  ASSUME asserted \in ClauseLists, learned \in ClauseLists
  PROVE  /\ Len(asserted) \in Nat /\ Len(learned) \in Nat
         /\ \A id \in ClauseIds :
              /\ id \in Nat \ {0} /\ Clause(id) \in Seq(Literals) /\ Len(Clause(id)) \in Nat
              /\ \A p \in 1..Len(Clause(id)) : Clause(id)[p] \in Literals
<1>1. Len(asserted) \in Nat /\ Len(learned) \in Nat BY DEF ClauseLists
<1>2. ASSUME NEW id \in ClauseIds
      PROVE  Clause(id) \in Seq(Literals)
  <2>1. id \in 1..(Len(asserted) + Len(learned)) BY DEF ClauseIds
  <2>2. CASE id <= Len(asserted)
    BY <1>1, <2>1, <2>2 DEF Clause, ClauseLists
  <2>3. CASE ~(id <= Len(asserted))
    BY <1>1, <2>1, <2>3 DEF Clause, ClauseLists
  <2>4. QED BY <2>2, <2>3
<1>3. \A id \in ClauseIds : id \in Nat \ {0} BY <1>1 DEF ClauseIds
<1>4. QED BY <1>1, <1>2, <1>3

\* A clause goes on forcing its literal while the trail grows.
LEMMA ForcedGrows ==
  ASSUME TrailInv, TrailTypeOK', BoolValued(model), Grows,
         NEW v \in BoolVars, is_defined(v),
         NEW c \in Seq(Literals), ForcedBy(v, c)
  PROVE  ForcedBy(v, c)'
<1>1. v \in Vars BY VarsAssumption
<1>2. model'[v] = model[v] /\ var_level'[v] = var_level[v]
  BY <1>1 DEF Grows
<1>3. c[1] = TrueLiteralOf(v)' BY <1>2 DEF ForcedBy, TrueLiteralOf
<1>4. ASSUME NEW p \in 2..Len(c)
      PROVE  /\ c[p] \in Literals /\ VarOf(c[p]) \in Vars
             /\ False(c[p]) /\ LevelOf(c[p]) <= var_level[v]
             /\ LevelOf(c[p]) = var_level[v] => ListedBefore(VarOf(c[p]), v)
             /\ False(c[p])' /\ LevelOf(c[p])' = LevelOf(c[p])
  <2>1. c[p] \in Literals OBVIOUS
  <2>2. VarOf(c[p]) \in Vars BY <2>1, LiteralTypes
  <2>3. False(c[p]) /\ LevelOf(c[p]) <= var_level[v] BY DEF ForcedBy
  <2>4. LevelOf(c[p]) = var_level[v] => ListedBefore(VarOf(c[p]), v)
    BY DEF ForcedBy
  <2>5. False(c[p])' /\ LevelOf(c[p])' = LevelOf(c[p])
    BY <2>1, <2>3, GrowsLiterals
  <2>6. QED BY <2>1, <2>2, <2>3, <2>4, <2>5
<1>5. ASSUME NEW p \in 2..Len(c), LevelOf(c[p])' = var_level'[v]
      PROVE  ListedBefore(VarOf(c[p]), v)'
  BY <1>1, <1>2, <1>4, <1>5, GrowsBefore
<1>6. var_level'[v] > 0 => \E p \in 2..Len(c) : LevelOf(c[p])' = var_level'[v]
  BY <1>2, <1>4 DEF ForcedBy
<1>7. \A p \in 2..Len(c) : LevelOf(c[p])' <= var_level'[v] BY <1>2, <1>4
<1>8. QED BY <1>3, <1>4, <1>5, <1>6, <1>7 DEF ForcedBy

\* A clause goes on forcing its literal on the levels that a backtrack keeps.
LEMMA ForcedCuts ==
  ASSUME TrailInv, BoolValued(model), NEW level \in 0..decision_level, CutsTo(level),
         NEW v \in BoolVars, is_defined(v), var_level[v] <= level,
         NEW c \in Seq(Literals), ForcedBy(v, c)
  PROVE  ForcedBy(v, c)'
<1>1. v \in Vars BY VarsAssumption
<1>2. var_level[v] \in Int /\ level \in Int BY <1>1, DefinedLevels
<1>3. model'[v] = model[v] /\ var_level'[v] = var_level[v]
  BY <1>1, <1>2 DEF CutsTo
<1>4. c[1] = TrueLiteralOf(v)' BY <1>3 DEF ForcedBy, TrueLiteralOf
<1>5. ASSUME NEW p \in 2..Len(c)
      PROVE  /\ c[p] \in Literals /\ VarOf(c[p]) \in Vars
             /\ False(c[p]) /\ LevelOf(c[p]) <= var_level[v]
             /\ LevelOf(c[p]) = var_level[v] => ListedBefore(VarOf(c[p]), v)
             /\ False(c[p])' /\ LevelOf(c[p])' = LevelOf(c[p])
  <2>1. c[p] \in Literals OBVIOUS
  <2>2. VarOf(c[p]) \in Vars BY <2>1, LiteralTypes
  <2>3. False(c[p]) /\ LevelOf(c[p]) <= var_level[v] BY DEF ForcedBy
  <2>4. LevelOf(c[p]) = var_level[v] => ListedBefore(VarOf(c[p]), v)
    BY DEF ForcedBy
  <2>5. LevelOf(c[p]) \in Int BY <2>1, FalseLiterals
  <2>6. LevelOf(c[p]) <= level BY <1>2, <2>3, <2>5
  <2>7. False(c[p])' /\ LevelOf(c[p])' = LevelOf(c[p])
    BY <2>1, <2>3, <2>6, CutsLiterals
  <2>8. QED BY <2>1, <2>2, <2>3, <2>4, <2>7
<1>6. ASSUME NEW p \in 2..Len(c), LevelOf(c[p])' = var_level'[v]
      PROVE  ListedBefore(VarOf(c[p]), v)'
  BY <1>1, <1>3, <1>5, <1>6, CutsBefore
<1>7. var_level'[v] > 0 => \E p \in 2..Len(c) : LevelOf(c[p])' = var_level'[v]
  BY <1>3, <1>5 DEF ForcedBy
<1>8. \A p \in 2..Len(c) : LevelOf(c[p])' <= var_level'[v] BY <1>3, <1>5
<1>9. QED BY <1>4, <1>5, <1>6, <1>7, <1>8 DEF ForcedBy

\* The decision of a level stays where it is.
LEMMA GrowsFront ==
  ASSUME TrailInv, Grows, NEW l \in 1..decision_level
  PROVE  assigned(l)'[1] = assigned(l)[1]
<1>1. decision_level \in Nat /\ l \in 0..decision_level /\ Len(assigned(l)) \in Nat
  BY ListTypes DEF TrailInv
<1>2. assigned(l) # << >> /\ assigned(l) \in Seq(Assignment)
  BY <1>1, ListTypes DEF TrailInv, DecisionFirst
<1>3. 1 \in 1..Len(assigned(l)) BY <1>1, <1>2
<1>4. \A k \in 1..Len(trail[l + 1]) : trail'[l + 1][k] = trail[l + 1][k]
  BY <1>1 DEF Grows
<1>5. QED BY <1>3, <1>4 DEF assigned

\* Boolean and rational variables are different variables.
LEMMA BoolsAndReals ==
  /\ \A v \in BoolVars : v \in Vars /\ v \notin RealVars
  /\ \A r \in RealVars : r \in Vars /\ r \notin BoolVars
  /\ \A a \in AtomVars : a \in BoolVars /\ AtomScope[a] \subseteq RealVars /\ AtomScope[a] # {}
<1>1. /\ RealVars \subseteq Vars \ BoolVars
      /\ AtomVars \subseteq BoolVars
      /\ AtomScope \in [AtomVars -> (SUBSET RealVars) \ {{}}]
  BY AtomAssumption
<1>2. BoolVars \subseteq Vars BY VarsAssumption
<1>3. \A a \in AtomVars : AtomScope[a] \subseteq RealVars /\ AtomScope[a] # {}
  BY <1>1
<1>4. QED BY <1>1, <1>2, <1>3

\* A propagated assignment has a reason, or stands for a constraint at a level that
\* opened with a rational variable.
LEMMA PropagateAssignments ==
  ASSUME TrailInv, AssignmentsOK,
         NEW x \in Literals, ~is_defined(VarOf(x)), NEW r, NEW level \in 0..decision_level,
         Grows, AssignsVar(VarOf(x), x > 0, r, level), decision_level' = decision_level,
         VarOf(x) \in Known', Known \subseteq Known',
         r = NoReason => level > 0 /\ assigned(level)[1].var \in RealVars
  PROVE  AssignmentsOK'
<1>1. BoolValued(model') BY AssignsLiterals DEF AssignmentsOK
<1>2. VarOf(x) \in BoolVars /\ decision_level \in Nat
  BY LiteralTypes, ListTypes DEF TrailInv
<1>3. \A v \in Vars : v # VarOf(x) =>
        /\ is_defined(v)' <=> is_defined(v)
        /\ var_level'[v] = var_level[v] /\ var_reason'[v] = var_reason[v]
  BY DEF AssignsVar, is_defined
<1>4. ASSUME NEW v \in BoolVars, is_defined(v)'
      PROVE  v \in Known'
  BY <1>3, <1>4, BoolsAndReals DEF AssignmentsOK
<1>5. ASSUME NEW w \in RealVars, is_defined(w)'
      PROVE  var_level'[w] > 0 /\ assigned(var_level[w])'[1].var = w
  <2>1. w \in Vars /\ w # VarOf(x) BY <1>2, BoolsAndReals
  <2>2. is_defined(w) /\ var_level'[w] = var_level[w]
    BY <1>3, <1>5, <2>1
  <2>3. var_level[w] > 0 /\ assigned(var_level[w])[1].var = w
    BY <2>2 DEF AssignmentsOK
  <2>4. var_level[w] \in 1..decision_level
    BY <2>1, <2>2, <2>3, DefinedLevels
  <2>5. assigned(var_level[w])' = trail'[var_level[w] + 1]
    BY <2>2 DEF assigned
  <2>6. trail'[var_level[w] + 1][1] = trail[var_level[w] + 1][1]
    BY <2>4, GrowsFront DEF assigned
  <2>7. QED BY <2>2, <2>3, <2>5, <2>6 DEF assigned
<1>6. ASSUME NEW v \in BoolVars, is_defined(v)', var_reason'[v] = NoReason
      PROVE  var_level'[v] > 0 /\ assigned(var_level[v])'[1].var \in {v} \cup RealVars
  <2>1. v \in Vars BY BoolsAndReals
  <2>2. \A l \in 1..decision_level :
          var_level'[v] = l => assigned(var_level[v])'[1] = assigned(l)[1]
    <3>1. ASSUME NEW l \in 1..decision_level, var_level'[v] = l
          PROVE  assigned(var_level[v])'[1] = assigned(l)[1]
      <4>1. assigned(var_level[v])' = trail'[l + 1] BY <3>1 DEF assigned
      <4>2. QED BY <3>1, <4>1, GrowsFront DEF assigned
    <3>2. QED BY <3>1
  <2>3. CASE v = VarOf(x)
    <3>1. r = NoReason /\ var_level'[v] = level
      BY <1>6, <2>3 DEF AssignsVar
    <3>2. level \in 1..decision_level BY <1>2, <3>1
    <3>3. QED BY <2>2, <3>1, <3>2
  <2>4. CASE v # VarOf(x)
    <3>1. is_defined(v) /\ var_level'[v] = var_level[v] /\ var_reason[v] = NoReason
      BY <1>3, <1>6, <2>1, <2>4
    <3>2. var_level[v] > 0 /\ assigned(var_level[v])[1].var \in {v} \cup RealVars
      BY <3>1 DEF AssignmentsOK
    <3>3. var_level[v] \in 1..decision_level
      BY <2>1, <3>1, <3>2, DefinedLevels
    <3>4. QED BY <2>2, <3>1, <3>2, <3>3
  <2>5. QED BY <2>3, <2>4
<1>7. QED BY <1>1, <1>4, <1>5, <1>6 DEF AssignmentsOK

\* A decision, of a boolean or of a rational variable.
LEMMA DecideAssignments ==
  ASSUME TrailInv, AssignmentsOK,
         NEW v \in Vars, ~is_defined(v), NEW x,
         v \in BoolVars => v \in Known /\ x \in BOOLEAN,
         Grows, AssignsVar(v, x, NoReason, decision_level + 1),
         decision_level' = decision_level + 1,
         recent' = <<[var |-> v, reason |-> NoReason]>>, TrailTypeOK',
         Known' = Known
  PROVE  AssignmentsOK'
<1>1. decision_level \in Nat BY ListTypes DEF TrailInv
<1>2. \A w \in Vars : w # v =>
        /\ model'[w] = model[w]
        /\ is_defined(w)' <=> is_defined(w)
        /\ var_level'[w] = var_level[w] /\ var_reason'[w] = var_reason[w]
  BY DEF AssignsVar, is_defined
<1>3. model'[v] = x /\ var_level'[v] = decision_level + 1 /\ var_reason'[v] = NoReason
  BY DEF AssignsVar
<1>4. BoolValued(model')
  BY <1>2, <1>3, BoolsAndReals DEF BoolValued, AssignmentsOK
<1>5. \A w \in BoolVars : is_defined(w)' => w \in Known'
  BY <1>2, BoolsAndReals DEF AssignmentsOK
<1>6. assigned(var_level[v])' = recent'
  <2>1. trail'[decision_level + 2] = trail'[Len(trail')]
    BY <1>1 DEF decision_level, TrailTypeOK
  <2>2. QED BY <1>1, <1>3, <2>1 DEF assigned, recent
<1>7. recent'[1].var = v OBVIOUS
<1>8. ASSUME NEW w \in Vars, w # v, is_defined(w), var_level[w] > 0
      PROVE  assigned(var_level[w])'[1] = assigned(var_level[w])[1]
  <2>1. var_level[w] \in 1..decision_level BY <1>8, DefinedLevels
  <2>2. assigned(var_level[w])' = trail'[var_level[w] + 1]
    BY <1>2, <1>8 DEF assigned
  <2>3. QED BY <2>1, <2>2, GrowsFront DEF assigned
<1>9. ASSUME NEW w \in RealVars, is_defined(w)'
      PROVE  var_level'[w] > 0 /\ assigned(var_level[w])'[1].var = w
  <2>1. CASE w = v BY <1>1, <1>3, <1>6, <1>7, <2>1
  <2>2. CASE w # v
    BY <1>2, <1>8, <1>9, <2>2, BoolsAndReals DEF AssignmentsOK
  <2>3. QED BY <2>1, <2>2
<1>10. ASSUME NEW w \in BoolVars, is_defined(w)', var_reason'[w] = NoReason
      PROVE  var_level'[w] > 0 /\ assigned(var_level[w])'[1].var \in {w} \cup RealVars
  <2>1. CASE w = v BY <1>1, <1>3, <1>6, <1>7, <2>1
  <2>2. CASE w # v
    BY <1>2, <1>8, <1>10, <2>2, BoolsAndReals DEF AssignmentsOK
  <2>3. QED BY <2>1, <2>2
<1>11. QED BY <1>4, <1>5, <1>9, <1>10 DEF AssignmentsOK

\* AssignmentsOK under a backtrack.
LEMMA CutAssignments ==
  ASSUME TrailInv, AssignmentsOK, NEW level \in 0..decision_level, CutsTo(level),
         Known' = Known
  PROVE  AssignmentsOK'
<1>1. BoolValued(model') BY CutsLiterals DEF AssignmentsOK
<1>2. ASSUME NEW v \in Vars, is_defined(v)'
      PROVE  /\ is_defined(v) /\ var_level[v] \in 0..level
             /\ var_level'[v] = var_level[v] /\ var_reason'[v] = var_reason[v]
             /\ assigned(var_level[v])' = assigned(var_level[v])
  <2>1. ~(var_level[v] > level) BY <1>2 DEF CutsTo, is_defined
  <2>2. /\ model'[v] = model[v] /\ var_level'[v] = var_level[v]
        /\ var_reason'[v] = var_reason[v]
    BY <2>1 DEF CutsTo
  <2>3. is_defined(v) BY <1>2, <2>2 DEF is_defined
  <2>4. var_level[v] \in 0..level BY <2>1, <2>3, DefinedLevels
  <2>5. trail'[var_level[v] + 1] = trail[var_level[v] + 1]
    BY <2>4 DEF CutsTo
  <2>6. QED BY <2>2, <2>3, <2>4, <2>5 DEF assigned
<1>3. \A v \in BoolVars : is_defined(v)' => v \in Known'
  BY <1>2, BoolsAndReals DEF AssignmentsOK
<1>4. \A w \in RealVars : is_defined(w)' =>
        var_level'[w] > 0 /\ assigned(var_level[w])'[1].var = w
  BY <1>2, BoolsAndReals DEF AssignmentsOK
<1>5. \A w \in BoolVars : is_defined(w)' /\ var_reason'[w] = NoReason =>
        var_level'[w] > 0 /\ assigned(var_level[w])'[1].var \in {w} \cup RealVars
  BY <1>2, BoolsAndReals DEF AssignmentsOK
<1>6. QED BY <1>1, <1>3, <1>4, <1>5 DEF AssignmentsOK

\* AssignmentsOK when the trail is cleared.
LEMMA ClearAssignments ==
  ASSUME TrailInv, Clear
  PROVE  AssignmentsOK'
BY ClearEffect, BoolsAndReals DEF AssignmentsOK

\* The clauses in use keep their places and their literals the order.
DbStays ==
  \A id \in ClauseIds : id \in ClauseIds' /\ Clause(id)' = Clause(id)

\* ReasonsOK under an assignment whose reason forces it.
LEMMA GrowReasons ==
  ASSUME TrailInv, TrailTypeOK', BoolValued(model), Grows, ReasonsOK, DbStays,
         asserted \in ClauseLists, learned \in ClauseLists,
         \A v \in BoolVars : ~is_defined(v) /\ var_reason'[v] # NoReason =>
           /\ var_reason'[v] \in ClauseIds
           /\ ForcedBy(v, Clause(var_reason[v]))'
  PROVE  ReasonsOK'
<1>1. ASSUME NEW v \in BoolVars, var_reason'[v] # NoReason, is_defined(v)
      PROVE  var_reason'[v] \in ClauseIds' /\ ForcedBy(v, Clause(var_reason[v]))'
  <2>1. v \in Vars BY BoolsAndReals
  <2>2. var_reason'[v] = var_reason[v] BY <1>1, <2>1 DEF Grows
  <2>3. PICK id \in ClauseIds : id = var_reason[v]
    BY <1>1, <2>2 DEF ReasonsOK
  <2>4. ForcedBy(v, Clause(id)) BY <1>1, <2>2, <2>3 DEF ReasonsOK
  <2>5. PICK c \in Seq(Literals) : c = Clause(id) BY <2>3, ClauseTypes
  <2>6. ForcedBy(v, c)' BY <1>1, <2>4, <2>5, ForcedGrows
  <2>7. Clause(id)' = c /\ id \in ClauseIds' BY <2>3, <2>5 DEF DbStays
  <2>8. Clause(var_reason[v])' = c BY <2>2, <2>3, <2>7 DEF Clause
  <2>9. ForcedBy(v, Clause(var_reason[v]))' BY <2>6, <2>8 DEF ForcedBy
  <2>10. QED BY <2>2, <2>3, <2>7, <2>9
<1>2. ASSUME NEW v \in BoolVars, var_reason'[v] # NoReason, ~is_defined(v)
      PROVE  var_reason'[v] \in ClauseIds' /\ ForcedBy(v, Clause(var_reason[v]))'
  BY <1>2 DEF DbStays
<1>3. QED BY <1>1, <1>2 DEF ReasonsOK

\* ReasonsOK under a backtrack.
LEMMA CutReasons ==
  ASSUME TrailInv, BoolValued(model), NEW level \in 0..decision_level, CutsTo(level),
         ReasonsOK, DbStays, asserted \in ClauseLists, learned \in ClauseLists
  PROVE  ReasonsOK'
<1>1. ASSUME NEW v \in BoolVars, var_reason'[v] # NoReason
      PROVE  var_reason'[v] \in ClauseIds' /\ ForcedBy(v, Clause(var_reason[v]))'
  <2>1. v \in Vars BY BoolsAndReals
  <2>2. ~(var_level[v] > level) /\ var_reason'[v] = var_reason[v]
    BY <1>1, <2>1 DEF CutsTo
  <2>3. is_defined(v) /\ var_level[v] <= level
    BY <1>1, <2>1, <2>2, DefinedLevels
  <2>4. PICK id \in ClauseIds : id = var_reason[v]
    BY <1>1, <2>2 DEF ReasonsOK
  <2>5. PICK c \in Seq(Literals) : c = Clause(id) BY <2>4, ClauseTypes
  <2>6. ForcedBy(v, c) BY <1>1, <2>2, <2>4, <2>5 DEF ReasonsOK
  <2>7. ForcedBy(v, c)' BY <2>3, <2>6, ForcedCuts
  <2>8. Clause(id)' = c /\ id \in ClauseIds' BY <2>4, <2>5 DEF DbStays
  <2>9. Clause(var_reason[v])' = c BY <2>2, <2>4, <2>8 DEF Clause
  <2>10. ForcedBy(v, Clause(var_reason[v]))' BY <2>7, <2>9 DEF ForcedBy
  <2>11. QED BY <2>2, <2>4, <2>8, <2>10
<1>2. QED BY <1>1 DEF ReasonsOK

\* ReasonsOK when the trail is cleared.
LEMMA ClearReasons ==
  ASSUME TrailInv, Clear
  PROVE  ReasonsOK'
BY ClearEffect, BoolsAndReals DEF ReasonsOK

-----------------------------------------------------------------------------
(* Lists.                                                                  *)

\* The elements of a list.
LEMMA ElementsOf ==
  ASSUME NEW S, NEW s \in Seq(S)
  PROVE  /\ ToSet(s) \subseteq S
         /\ \A x : x \in ToSet(s) <=> \E k \in 1..Len(s) : s[k] = x
         /\ Len(s) \in Nat /\ DOMAIN s = 1..Len(s)
         /\ s # << >> <=> Len(s) > 0
BY DEF ToSet

\* Exchanging two elements of a list.
LEMMA SwapEffect ==
  ASSUME NEW S, NEW s \in Seq(S), NEW i \in 1..Len(s), NEW j \in 1..Len(s)
  PROVE  /\ Swap(s, i, j) \in Seq(S) /\ Len(Swap(s, i, j)) = Len(s)
         /\ Swap(s, i, j)[i] = s[j] /\ Swap(s, i, j)[j] = s[i]
         /\ \A k \in 1..Len(s) : k # i /\ k # j => Swap(s, i, j)[k] = s[k]
         /\ ToSet(Swap(s, i, j)) = ToSet(s)
<1> DEFINE t == Swap(s, i, j)
<1>1. t \in Seq(S) /\ Len(t) = Len(s) BY DEF Swap
<1>2. t[i] = s[j] /\ t[j] = s[i] BY DEF Swap
<1>3. \A k \in 1..Len(s) : k # i /\ k # j => t[k] = s[k] BY DEF Swap
<1> HIDE DEF t
<1>4. ASSUME NEW x PROVE x \in ToSet(t) <=> x \in ToSet(s)
  <2>1. x \in ToSet(t) <=> \E k \in 1..Len(s) : t[k] = x
    BY <1>1, ElementsOf
  <2>2. x \in ToSet(s) <=> \E k \in 1..Len(s) : s[k] = x BY ElementsOf
  <2>3. QED BY <1>2, <1>3, <2>1, <2>2
<1>5. QED BY <1>1, <1>2, <1>3, <1>4, Zenon DEF t

\* A list with an element behind it.
LEMMA AppendEffect ==
  ASSUME NEW S, NEW s \in Seq(S), NEW x \in S
  PROVE  /\ Append(s, x) \in Seq(S) /\ Append(s, x) # << >>
         /\ Len(Append(s, x)) = Len(s) + 1 /\ Len(s) \in Nat
         /\ Append(s, x)[Len(s) + 1] = x
         /\ \A k \in 1..Len(s) : Append(s, x)[k] = s[k]
OBVIOUS

\* A set of levels that is not empty has a highest one.
LEMMA HighestExists ==
  ASSUME NEW n \in Nat, NEW S \in SUBSET (0..n), S # {}
  PROVE  \E m \in S : \A l \in S : l <= m
<1> DEFINE T == {k \in Nat : n - k \in S}
<1>1. T # {}
  <2>1. PICK l \in S : TRUE BY Zenon
  <2>2. l \in 0..n /\ n - l \in Nat /\ n - (n - l) = l BY <2>1
  <2>3. QED BY <2>1, <2>2
<1>2. PICK k \in T : \A j \in T : k <= j
  <2>1. T \in SUBSET Nat OBVIOUS
  <2>2. QED BY <1>1, <2>1, LeastNatural, Zenon
<1>3. \A l \in S : l <= n - k
  <2>1. SUFFICES ASSUME NEW l \in S PROVE l <= n - k OBVIOUS
  <2>2. l \in 0..n /\ n - l \in Nat /\ n - (n - l) = l OBVIOUS
  <2>3. k <= n - l BY <1>2, <2>2, Zenon
  <2>4. QED BY <1>2, <2>2, <2>3
<1>4. QED BY <1>2, <1>3

\* A watch behind the others.
LEMMA CountAppend ==
  ASSUME NEW S, NEW s \in Seq(S), NEW w \in S, NEW id
  PROVE  /\ Count(s, id) \in Nat
         /\ Count(Append(s, w), id) = Count(s, id) + (IF w.clause = id THEN 1 ELSE 0)
<1> DEFINE A == {k \in DOMAIN s : s[k].clause = id}
           t == Append(s, w)
           B == {k \in DOMAIN t : t[k].clause = id}
<1>1. /\ t \in Seq(S) /\ Len(t) = Len(s) + 1 /\ Len(s) \in Nat /\ t[Len(s) + 1] = w
      /\ \A k \in 1..Len(s) : t[k] = s[k]
  BY AppendEffect
<1>2. DOMAIN s = 1..Len(s) /\ DOMAIN t = 1..(Len(s) + 1) BY <1>1
<1>3. PICK n : n = Len(s) + 1 OBVIOUS
<1> HIDE DEF t
<1>4. /\ \A k : k \in B <=> k \in A \/ (k = n /\ w.clause = id)
      /\ n \notin A
  BY <1>1, <1>2, <1>3
<1>5. IsFiniteSet(A)
  <2>1. IsFiniteSet(1..Len(s)) BY <1>1, FS_Interval
  <2>2. A \subseteq 1..Len(s) BY <1>2
  <2>3. QED BY <2>1, <2>2, FS_Subset
<1>6. Count(s, id) = Cardinality(A) /\ Count(t, id) = Cardinality(B)
  BY DEF Count
<1> HIDE DEF A, B
<1>7. Cardinality(A) \in Nat BY <1>5, FS_CardinalityType
<1>8. CASE w.clause = id
  <2>1. B = A \cup {n} BY <1>4, <1>8
  <2>2. Cardinality(B) = Cardinality(A) + 1
    BY <1>4, <1>5, <2>1, FS_AddElement, Zenon
  <2>3. QED BY <1>6, <1>7, <1>8, <2>2 DEF t
<1>9. CASE w.clause # id
  <2>1. B = A BY <1>4, <1>9
  <2>2. QED BY <1>6, <1>7, <1>9, <2>1 DEF t
<1>10. QED BY <1>8, <1>9

\* A list without its last element.
LEMMA FrontEffect ==
  ASSUME NEW S, NEW u \in Seq(S), Len(u) # 0
  PROVE  /\ Front(u) \in Seq(S) /\ Len(Front(u)) = Len(u) - 1 /\ Len(u) \in Nat
         /\ DOMAIN Front(u) = 1..(Len(u) - 1)
         /\ \A k \in 1..(Len(u) - 1) : Front(u)[k] = u[k]
<1>1. PICK n \in Nat : n = Len(u) - 1 /\ Len(u) = n + 1
  <2>1. Len(u) \in Nat OBVIOUS
  <2>2. QED BY <2>1
<1>2. PICK t : t = SubSeq(u, 1, n) /\ t = Front(u)
  BY <1>1, Zenon DEF Front
<1>3. t \in Seq(S) BY <1>1, <1>2
<1>4. Len(t) = n BY <1>1, <1>2
<1>5. ASSUME NEW k \in 1..n PROVE t[k] = u[k] BY <1>1, <1>2
<1>6. DOMAIN t = 1..n BY <1>3, <1>4
<1>7. QED BY <1>1, <1>2, <1>3, <1>4, <1>5, <1>6

\* The last element of a list.
LEMMA LastElement ==
  ASSUME NEW S, NEW s \in Seq(S), s # << >>
  PROVE  /\ Len(s) \in Nat \ {0} /\ DOMAIN s = 1..Len(s) /\ Len(s) \in DOMAIN s
         /\ Last(s) = s[Len(s)] /\ Last(s) \in S
<1>1. Len(s) \in Nat \ {0} /\ DOMAIN s = 1..Len(s) OBVIOUS
<1>2. s[Len(s)] \in S BY <1>1
<1>3. QED BY <1>1, <1>2 DEF Last

-----------------------------------------------------------------------------
(* Reordering a clause.                                                    *)

\* One clause of the database is replaced.
LEMMA SetClauseEffect ==
  ASSUME asserted \in ClauseLists, learned \in ClauseLists,
         NEW id \in ClauseIds, NEW c \in Seq(Literals), SetClause(id, c)
  PROVE  /\ asserted' \in ClauseLists /\ learned' \in ClauseLists
         /\ Len(asserted') = Len(asserted) /\ Len(learned') = Len(learned)
         /\ ClauseIds' = ClauseIds
         /\ Clause(id)' = c
         /\ \A k \in ClauseIds : k # id => Clause(k)' = Clause(k)
<1>1. Len(asserted) \in Nat /\ Len(learned) \in Nat BY DEF ClauseLists
<1>2. CASE id <= Len(asserted)
  <2>1. id \in 1..Len(asserted) BY <1>1, <1>2 DEF ClauseIds
  <2>2. asserted' = [asserted EXCEPT ![id] = c] /\ learned' = learned
    BY <1>2 DEF SetClause
  <2>3. asserted' \in ClauseLists /\ Len(asserted') = Len(asserted)
    BY <2>1, <2>2 DEF ClauseLists
  <2>4. \A k \in 1..Len(asserted) : asserted'[k] = IF k = id THEN c ELSE asserted[k]
    BY <2>1, <2>2 DEF ClauseLists
  <2>5. QED BY <1>1, <2>1, <2>2, <2>3, <2>4 DEF ClauseIds, Clause
<1>3. CASE ~(id <= Len(asserted))
  <2>1. id \in Int /\ id - Len(asserted) \in 1..Len(learned)
    BY <1>1, <1>3 DEF ClauseIds
  <2>2. learned' = [learned EXCEPT ![id - Len(asserted)] = c] /\ asserted' = asserted
    BY <1>3 DEF SetClause
  <2>3. learned' \in ClauseLists /\ Len(learned') = Len(learned)
    BY <2>1, <2>2 DEF ClauseLists
  <2>4. \A k \in 1..Len(learned) :
          learned'[k] = IF k = id - Len(asserted) THEN c ELSE learned[k]
    BY <2>1, <2>2, SMTT(30) DEF ClauseLists
  <2>5. QED BY <1>1, <1>3, <2>1, <2>2, <2>3, <2>4 DEF ClauseIds, Clause
<1>4. QED BY <1>2, <1>3

\* The problem and the variables it mentions, through the numbers of clauses.
LEMMA ProblemClauses ==
  ASSUME asserted \in ClauseLists, learned \in ClauseLists
  PROVE  /\ \A id \in 1..Len(asserted) : id \in ClauseIds /\ Clause(id) = asserted[id]
         /\ Problem = {ToSet(Clause(id)) : id \in 1..Len(asserted)}
         /\ Mentioned = {VarOf(lit) : lit \in UNION Problem}
<1>1. Len(asserted) \in Nat /\ Len(learned) \in Nat /\ DOMAIN asserted = 1..Len(asserted)
  BY DEF ClauseLists
<1>2. \A id \in 1..Len(asserted) : id \in ClauseIds /\ Clause(id) = asserted[id]
  BY <1>1 DEF ClauseIds, Clause
<1>3. Problem = {ToSet(Clause(id)) : id \in 1..Len(asserted)}
  BY <1>1, <1>2 DEF Problem
<1>4. {ToSet(c) : c \in ToSet(asserted)} = Problem BY DEF Problem, ToSet
<1>5. QED BY <1>2, <1>3, <1>4, Zenon DEF Mentioned

\* The literals of clauses may change places, where no clause that is a reason
\* is concerned.
LEMMA PermuteClause ==
  ASSUME asserted \in ClauseLists, learned \in ClauseLists,
         NEW id \in ClauseIds, NEW c \in Seq(Literals), SetClause(id, c),
         ToSet(c) = ToSet(Clause(id)), Len(c) = Len(Clause(id)),
         UNCHANGED <<trailVars, created>>,
         AssignmentsOK, DatabaseOK, ReasonsOK,
         \A v \in BoolVars : var_reason[v] # id
  PROVE  Problem' = Problem /\ Known' = Known
         /\ AssignmentsOK' /\ DatabaseOK' /\ ReasonsOK'
<1>1. /\ asserted' \in ClauseLists /\ learned' \in ClauseLists
      /\ Len(asserted') = Len(asserted) /\ Len(learned') = Len(learned)
      /\ ClauseIds' = ClauseIds
      /\ Clause(id)' = c
      /\ \A k \in ClauseIds : k # id => Clause(k)' = Clause(k)
  BY SetClauseEffect
<1>2. \A k \in ClauseIds : ToSet(Clause(k)') = ToSet(Clause(k)) /\ Len(Clause(k)') = Len(Clause(k))
  BY <1>1
<1>3. Problem = {ToSet(Clause(k)) : k \in 1..Len(asserted)}
  BY ProblemClauses
<1>4. Problem' = {ToSet(Clause(k)') : k \in 1..Len(asserted)}
  <2>1. \A k \in 1..Len(asserted) : Clause(k)' = asserted'[k]
    BY <1>1 DEF Clause
  <2>2. DOMAIN asserted' = 1..Len(asserted) BY <1>1 DEF ClauseLists
  <2>3. Problem' = {ToSet(asserted'[k]) : k \in 1..Len(asserted)}
    BY <2>2 DEF Problem
  <2>4. QED BY <2>1, <2>3
<1>5. Problem' = Problem BY <1>2, <1>3, <1>4, ProblemClauses
<1>6. Mentioned = {VarOf(lit) : lit \in UNION Problem} BY ProblemClauses
<1>7. Mentioned' = {VarOf(lit) : lit \in UNION Problem'}
  <2>1. {ToSet(d) : d \in ToSet(asserted')} = Problem'
    BY DEF Problem, ToSet
  <2>2. QED BY <2>1, Zenon DEF Mentioned
<1>8. Mentioned' = Mentioned /\ Known' = Known
  BY <1>5, <1>6, <1>7 DEF Known
<1>9. AssignmentsOK'
  BY <1>8 DEF AssignmentsOK, trailVars, is_defined, assigned, BoolValued
<1>10. DatabaseOK'
  <2>1. ASSUME NEW k \in ClauseIds'
        PROVE  Clause(k)' # << >> /\ \A lit \in ToSet(Clause(k)') : VarOf(lit) \in Known'
    <3>1. Clause(k) # << >> /\ \A lit \in ToSet(Clause(k)) : VarOf(lit) \in Known
      BY <1>1, <2>1 DEF DatabaseOK
    <3>2. Clause(k) \in Seq(Literals) /\ Clause(k)' \in Seq(Literals)
      BY <1>1, <2>1, ClauseTypes, Zenon
    <3>3. QED BY <1>1, <1>2, <1>8, <2>1, <3>1, <3>2, ElementsOf
  <2>2. Problem' \in Problems BY <1>5 DEF DatabaseOK
  <2>3. QED BY <1>8, <2>1, <2>2 DEF DatabaseOK
<1>11. ReasonsOK'
  <2>1. ASSUME NEW v \in BoolVars, var_reason'[v] # NoReason
        PROVE  var_reason'[v] \in ClauseIds' /\ ForcedBy(v, Clause(var_reason[v]))'
    <3>1. PICK k \in ClauseIds : k = var_reason[v] /\ k # id /\ ForcedBy(v, Clause(k))
      BY <2>1 DEF ReasonsOK, trailVars
    <3>2. Clause(var_reason[v])' = Clause(k)
      BY <1>1, <3>1 DEF trailVars, Clause
    <3>3. QED BY <1>1, <3>1, <3>2
         DEF ForcedBy, trailVars, TrueLiteralOf, False, FalseIn, LevelOf, ListedBefore, assigned
  <2>2. QED BY <2>1 DEF ReasonsOK
<1>12. QED BY <1>5, <1>8, <1>9, <1>10, <1>11

-----------------------------------------------------------------------------
(* Parts of the invariant under steps that do not concern them.            *)

\* The trail, the clauses and the constraints stay as they are.
Steady == UNCHANGED <<trailVars, dbVars, created>>

\* A step that leaves trail, clauses and constraints keeps what is said of them.
LEMMA SteadyParts ==
  ASSUME Steady, TrailInv, AssignmentsOK, DatabaseOK, ReasonsOK
  PROVE  /\ TrailInv' /\ AssignmentsOK' /\ DatabaseOK' /\ ReasonsOK'
         /\ decision_level' = decision_level /\ recent' = recent /\ empty' = empty
         /\ Known' = Known /\ ClauseIds' = ClauseIds /\ Problem' = Problem
         /\ \A id : Clause(id)' = Clause(id)
<1>1. TrailInv' BY InvStep DEF Steady
<1>2. /\ decision_level' = decision_level /\ recent' = recent /\ empty' = empty
      /\ ClauseIds' = ClauseIds /\ Problem' = Problem
      /\ \A id : Clause(id)' = Clause(id)
  BY DEF Steady, trailVars, dbVars, decision_level, recent, empty, ClauseIds, Problem, Clause
<1>3. Known' = Known BY DEF Steady, dbVars, Known, Mentioned
<1>4. AssignmentsOK'
  BY <1>3 DEF Steady, trailVars, AssignmentsOK, BoolValued, is_defined, assigned
<1>5. DatabaseOK'
  BY <1>2, <1>3 DEF Steady, dbVars, DatabaseOK, Problems, Mentioned
<1>6. ReasonsOK'
  <2>1. ASSUME NEW v \in BoolVars, var_reason'[v] # NoReason
        PROVE  var_reason'[v] \in ClauseIds' /\ ForcedBy(v, Clause(var_reason[v]))'
    <3>1. var_reason[v] \in ClauseIds /\ ForcedBy(v, Clause(var_reason[v]))
      BY <2>1 DEF ReasonsOK, Steady, trailVars
    <3>2. Clause(var_reason[v])' = Clause(var_reason[v])
      BY DEF Steady, trailVars, dbVars, Clause
    <3>3. QED BY <1>2, <3>1, <3>2 DEF Steady, trailVars,
         ForcedBy, TrueLiteralOf, False, FalseIn, LevelOf, ListedBefore, assigned
  <2>2. QED BY <2>1 DEF ReasonsOK
<1>7. QED BY <1>1, <1>2, <1>3, <1>4, <1>5, <1>6

\* Such a step leaves the literals as they are.
LEMMA SteadyLiterals ==
  ASSUME Steady
  PROVE  \A lit : /\ True(lit)' = True(lit) /\ False(lit)' = False(lit)
                  /\ LevelOf(lit)' = LevelOf(lit)
BY DEF Steady, trailVars, True, TrueIn, False, FalseIn, LevelOf

\* Such a step keeps the watch lists that nobody has changed.
LEMMA SteadyWatches ==
  ASSUME Steady, UNCHANGED watched, WatchInv, WatchesLive
  PROVE  WatchInv'
<1>1. ClauseIds' = ClauseIds /\ \A id : Clause(id)' = Clause(id)
  BY DEF Steady, dbVars, ClauseIds, Clause
<1>2. QED BY <1>1 DEF WatchInv, Count

\* Such a step keeps AtomsOK where what is left to propagate still will be.
LEMMA SteadyAtoms ==
  ASSUME Steady, AtomsOK,
         Propagatable # {} =>
           \/ pc' = "theory"
           \/ pc' = "propagate" /\ decision_level > 0
              /\ \A k \in DOMAIN Unseen' : Unseen'[k].var \notin BoolVars
           \/ pc' = "bcp" /\ satisfied' = << >>
  PROVE  AtomsOK'
<1>1. \A a : /\ is_defined(a)' = is_defined(a)
             /\ is_fully_assigned(a)' = is_fully_assigned(a)
             /\ AtomValue(a)' = AtomValue(a)
  BY DEF Steady, trailVars, is_defined, is_fully_assigned, Unassigned, AtomValue, Agrees
<1>2. Propagatable' = Propagatable BY <1>1 DEF Propagatable, Steady
<1>3. decision_level' = decision_level
  BY DEF Steady, trailVars, decision_level
<1>4. \A a \in created' : is_defined(a)' /\ is_fully_assigned(a)' => model'[a] = AtomValue(a)'
  BY <1>1 DEF AtomsOK, Steady, trailVars
<1>5. \A a \in created' : \A m \in 0..(decision_level' - 1) :
       (\A r \in AtomScope[a] : is_defined(r)' /\ var_level'[r] <= m) =>
         is_defined(a)' /\ var_level'[a] <= m
  BY <1>3 DEF AtomsOK, Steady, trailVars, is_defined
<1>6. QED BY <1>2, <1>3, <1>4, <1>5 DEF AtomsOK

\* The false watches of the current level that were to be looked at still are.
StillAwaits ==
  \A id \in ClauseIds : \A i \in {1, 2} : \A lit \in Literals :
    i <= Len(Clause(id)) /\ lit = Clause(id)[i] /\ False(lit)
      /\ LevelOf(lit) = decision_level /\ Awaits(lit, id) => Awaits(lit, id)'

\* Such a step keeps FalseWatchesOK where what awaited a visit still does.
LEMMA SteadyFalseWatches ==
  ASSUME Steady, FalseWatchesOK, pc # "jump",
         asserted \in ClauseLists, learned \in ClauseLists, StillAwaits
  PROVE  FalseWatchesOK'
<1> SUFFICES ASSUME NEW id \in ClauseIds', NEW i \in {1, 2},
                    Len(Clause(id)') > 1, False(Clause(id)[i])'
             PROVE  \/ True(Clause(id)[3 - i])' /\ LevelOf(Clause(id)[3 - i])' <= LevelOf(Clause(id)[i])'
                    \/ LevelOf(Clause(id)[i])' = decision_level' /\ Awaits(Clause(id)[i], id)'
  BY DEF FalseWatchesOK
<1>1. id \in ClauseIds /\ Clause(id)' = Clause(id) /\ decision_level' = decision_level
  BY DEF Steady, trailVars, dbVars, ClauseIds, Clause, decision_level
<1>2. PICK c \in Seq(Literals) : c = Clause(id) BY <1>1, ClauseTypes
<1>3. PICK lit \in Literals : lit = c[i] BY <1>1, <1>2, ClauseTypes
<1>4. Clause(id)' = c BY <1>1, <1>2
<1>5. False(Clause(id)[i]) <=> False(Clause(id)[i])'
  BY <1>1 DEF False, FalseIn, Steady, trailVars
<1>6. \/ True(Clause(id)[3 - i]) /\ LevelOf(Clause(id)[3 - i]) <= LevelOf(Clause(id)[i])
      \/ LevelOf(Clause(id)[i]) = decision_level /\ Awaits(Clause(id)[i], id)
  BY <1>1, <1>2, <1>4, <1>5 DEF FalseWatchesOK
<1>7. CASE True(Clause(id)[3 - i]) /\ LevelOf(Clause(id)[3 - i]) <= LevelOf(Clause(id)[i])
  BY <1>1, <1>7 DEF True, TrueIn, LevelOf, Steady, trailVars
<1>8. CASE LevelOf(Clause(id)[i]) = decision_level /\ Awaits(Clause(id)[i], id)
  <2>1. LevelOf(lit) = decision_level /\ Awaits(lit, id) /\ False(lit)
    BY <1>2, <1>3, <1>5, <1>8 DEF LevelOf, Awaits, False, FalseIn
  <2>2. i <= Len(Clause(id)) BY <1>1
  <2>3. Awaits(lit, id)' BY <1>1, <1>2, <1>3, <2>1, <2>2 DEF StillAwaits
  <2>4. Awaits(Clause(id)[i], id)' BY <1>3, <1>4, <2>3 DEF Awaits
  <2>5. LevelOf(Clause(id)[i])' = decision_level'
    BY <1>1, <1>8 DEF LevelOf, Steady, trailVars
  <2>6. QED BY <2>4, <2>5
<1>9. QED BY <1>6, <1>7, <1>8

\* Every clause of one literal is true at level 0.
UnitsTrue ==
  \A id \in ClauseIds :
    Len(Clause(id)) = 1 => True(Clause(id)[1]) /\ LevelOf(Clause(id)[1]) = 0

\* Such a step keeps UnitsOK where the unit clauses are true.
LEMMA SteadyUnits ==
  ASSUME Steady, UnitsTrue
  PROVE  UnitsOK'
BY DEF UnitsTrue, UnitsOK, Steady, trailVars, dbVars, ClauseIds, Clause, True, TrueIn, LevelOf

\* Such a step keeps what is said of a false clause.
LEMMA SteadyClauses ==
  ASSUME Steady, NEW c
  PROVE  /\ AllFalse(c) <=> AllFalse(c)'
         /\ \A level : LemmaOK(c, level) <=> LemmaOK(c, level)'
BY DEF Steady, trailVars, AllFalse, LemmaOK, IsSplit, IsUip, False, FalseIn, LevelOf, assigned

\* What is about one point of the loop holds trivially at the others.
LEMMA Elsewhere ==
  /\ pc' # "explain" => ExplainOK'
  /\ pc' # "resolve" => ResolveOK'
  /\ pc' # "minimize" => MinimizeOK'
  /\ pc' # "jump" => JumpOK'
  /\ pc' # "unit" => UnitOK'
  /\ pc' # "split" => SplitOK'
  /\ pc' \notin {"bcp", "watch"} => StackOK'
  /\ pc' # "done" /\ verdict' = "none" => AnswerOK'
BY DEF ExplainOK, ResolveOK, MinimizeOK, JumpOK, UnitOK, SplitOK, StackOK, AnswerOK,
       SatModelCorrect

\* The types that LoopInv gives.
LEMMA InvTypes ==
  ASSUME LoopInv
  PROVE  /\ TrailTypeOK /\ TrailInv /\ BoolValued(model)
         /\ asserted \in ClauseLists /\ learned \in ClauseLists
         /\ decision_level \in Nat
         /\ pc # "done" => verdict = "none"
BY ListTypes DEF LoopInv, SolverTypeOK, AssignmentsOK, AnswerOK

\* The parts of LoopInv that a step which leaves trail and clauses keeps.
LEMMA SteadyMost ==
  ASSUME LoopInv, Steady
  PROVE  /\ TrailInv' /\ AssignmentsOK' /\ DatabaseOK' /\ ReasonsOK'
         /\ WatchesLive /\ UNCHANGED watched => WatchInv'
         /\ decision_level' = decision_level /\ recent' = recent
         /\ (pc # "jump" /\ StillAwaits => FalseWatchesOK')
         /\ (UnitsTrue => UnitsOK')
BY SteadyParts, SteadyWatches, SteadyFalseWatches, SteadyUnits, InvTypes DEF LoopInv

-----------------------------------------------------------------------------
(* Steps that change neither the trail nor the clauses.                    *)

\* The invariant when the stack is empty and the boolean plugin returns.
LEMMA BcpDoneStep ==
  ASSUME LoopInv, BoolStep, BcpDone
  PROVE  LoopInv'
<1>1. Steady /\ pc = "bcp" /\ pc' = "theory" /\ satisfied = << >>
      /\ UNCHANGED <<conflicts, bcpVars, phase, cursor, analysisVars, lraVars, loopVars>>
  BY DEF BcpDone, BoolStep, Steady, lraVars, loopVars
<1>2. SolverTypeOK'
  BY <1>1, SteadyParts DEF LoopInv, SolverTypeOK, ProgramPoints, Steady, trailVars, dbVars,
     bcpVars, analysisVars, lraVars, loopVars, TrailInv
<1>3. TrailInv' /\ AssignmentsOK' /\ DatabaseOK' /\ ReasonsOK'
  BY <1>1, SteadyParts DEF LoopInv
<1>4. WatchInv' BY <1>1, SteadyMost DEF WatchesLive, bcpVars
<1>5. FalseWatchesOK'
  <2>1. \A id : \A lit : ~Awaits(lit, id)
    BY <1>1 DEF Awaits, OnStack, ImpliedOnStack
  <2>2. QED BY <1>1, <2>1, SteadyMost DEF StillAwaits
<1>6. UnitsOK'
  <2>1. UnitsTrue
    BY <1>1 DEF LoopInv, UnitsOK, UnitsTrue, ImpliedOnStack
  <2>2. QED BY <1>1, <2>1, SteadyMost
<1>7. CursorOK'
  BY <1>1 DEF LoopInv, CursorOK, Steady, trailVars, loopVars, decision_level, recent
<1>8. AtomsOK' BY <1>1, SteadyAtoms DEF LoopInv
<1>9. ConflictsOK' /\ LemmasOK'
  BY <1>1 DEF LoopInv, ConflictsOK, LemmasOK, AllFalse, Steady, trailVars, False, FalseIn,
     analysisVars, decision_level, LemmaOK, IsSplit, IsUip
<1>10. QED BY <1>1, <1>2, <1>3, <1>4, <1>5, <1>6, <1>7, <1>8, <1>9, InvTypes, Elsewhere
     DEF LoopInv, loopVars

\* A clause is on the watch list of its first two literals, and on no other.
LEMMA WatchesFound ==
  ASSUME WatchInv, WatchesLive, NEW lit \in Literals,
         asserted \in ClauseLists, learned \in ClauseLists,
         watched \in [Literals -> Seq([clause : Nat, index : Nat])]
  PROVE  /\ watched[lit] \in Seq([clause : Nat, index : Nat])
         /\ \A id \in ClauseIds : \A i \in {1, 2} :
              i <= Len(Clause(id)) /\ Clause(id)[i] = lit =>
                \E k \in 1..Len(watched[lit]) : watched[lit][k].clause = id
         /\ \A k \in 1..Len(watched[lit]) :
              LET id == watched[lit][k].clause IN
              /\ id \in ClauseIds
              /\ \E i \in {1, 2} : i <= Len(Clause(id)) /\ Clause(id)[i] = lit
              /\ Len(Clause(id)) > 2 => watched[lit][k].index \in 3..Len(Clause(id))
<1> DEFINE K(id) == {k \in DOMAIN watched[lit] : watched[lit][k].clause = id}
           P(id) == {p \in DOMAIN Clause(id) : p <= 2 /\ Clause(id)[p] = lit}
<1>1. watched[lit] \in Seq([clause : Nat, index : Nat]) /\ DOMAIN watched[lit] = 1..Len(watched[lit])
  OBVIOUS
<1>2. ASSUME NEW id \in ClauseIds
      PROVE  /\ IsFiniteSet(K(id)) /\ IsFiniteSet(P(id))
             /\ Cardinality(K(id)) = Cardinality(P(id))
             /\ DOMAIN Clause(id) = 1..Len(Clause(id)) /\ Len(Clause(id)) \in Nat
  <2>1. Clause(id) \in Seq(Literals) BY ClauseTypes
  <2>2. DOMAIN Clause(id) = 1..Len(Clause(id)) /\ Len(Clause(id)) \in Nat /\ Len(watched[lit]) \in Nat
    BY <1>1, <2>1
  <2>3. IsFiniteSet(1..Len(Clause(id))) /\ IsFiniteSet(1..Len(watched[lit]))
    BY <2>2, FS_Interval
  <2>4. K(id) \subseteq 1..Len(watched[lit]) /\ P(id) \subseteq 1..Len(Clause(id))
    BY <1>1, <2>2
  <2>5. IsFiniteSet(K(id)) /\ IsFiniteSet(P(id))
    BY <2>3, <2>4, FS_Subset
  <2>6. Cardinality(K(id)) = Cardinality(P(id))
    BY Zenon DEF WatchInv, Count
  <2>7. QED BY <2>2, <2>5, <2>6
<1>3. ASSUME NEW id \in ClauseIds
      PROVE  K(id) = {} <=> P(id) = {}
  <2> HIDE DEF K, P
  <2>1. QED BY <1>2, FS_EmptySet
<1>4. ASSUME NEW id \in ClauseIds, NEW i \in {1, 2},
             i <= Len(Clause(id)) /\ Clause(id)[i] = lit
      PROVE  \E k \in 1..Len(watched[lit]) : watched[lit][k].clause = id
  <2>1. i \in P(id) BY <1>2, <1>4
  <2>2. QED BY <1>1, <1>3, <2>1
<1>5. ASSUME NEW k \in 1..Len(watched[lit]), NEW id, id = watched[lit][k].clause
      PROVE  /\ id \in ClauseIds
             /\ \E i \in {1, 2} : i <= Len(Clause(id)) /\ Clause(id)[i] = lit
             /\ Len(Clause(id)) > 2 => watched[lit][k].index \in 3..Len(Clause(id))
  <2>1. id \in ClauseIds /\ (Len(Clause(id)) > 2 => watched[lit][k].index \in 3..Len(Clause(id)))
    BY <1>1, <1>5 DEF WatchInv
  <2>2. k \in K(id) BY <1>1, <1>5
  <2>3. PICK p \in P(id) : TRUE BY <1>3, <2>1, <2>2, Zenon
  <2>4. p \in {1, 2} /\ p <= Len(Clause(id)) /\ Clause(id)[p] = lit
    BY <1>2, <2>1, <2>3
  <2>5. QED BY <2>1, <2>4, Zenon
<1>6. QED BY <1>1, <1>4, <1>5, Zenon

\* At the end of the visit every clause that watches the literal was visited.
LEMMA EndVisitsAll ==
  ASSUME LoopInv, EndOfList, NEW id \in ClauseIds, NEW i \in {1, 2},
         i <= Len(Clause(id)), Clause(id)[i] = visit.lit
  PROVE  ~NotVisited(id)
<1>1. visit.lit \in Literals /\ pc = "watch"
  BY DEF EndOfList, LoopInv, StackOK
<1>2. WatchInv /\ WatchesLive /\ asserted \in ClauseLists /\ learned \in ClauseLists
      /\ watched \in [Literals -> Seq([clause : Nat, index : Nat])]
      /\ visit.i \in Nat
  BY <1>1, InvTypes DEF LoopInv, SolverTypeOK, WatchesLive
<1>3. /\ Visited \in Seq([clause : Nat, index : Nat])
      /\ \E k \in 1..Len(Visited) : Visited[k].clause = id
  <2>1. PICK lit \in Literals : lit = visit.lit BY <1>1
  <2>2. /\ watched[lit] \in Seq([clause : Nat, index : Nat])
        /\ \A c \in ClauseIds : \A j \in {1, 2} :
             j <= Len(Clause(c)) /\ Clause(c)[j] = lit =>
               \E k \in 1..Len(watched[lit]) : watched[lit][k].clause = c
    BY <1>2, WatchesFound, Zenon
  <2>3. QED BY <2>1, <2>2, Zenon DEF Visited
<1>4. PICK k \in 1..Len(Visited) : Visited[k].clause = id BY <1>3, Zenon
<1>5. k < visit.i /\ k \in DOMAIN Visited
  BY <1>2, <1>3, <1>4, SMTT(30) DEF EndOfList
<1>6. QED BY <1>4, <1>5 DEF NotVisited

\* The invariant at the end of the visit of a watch list.
LEMMA VisitDoneStep ==
  ASSUME LoopInv, BoolStep, VisitDone
  PROVE  LoopInv'
<1>1. Steady /\ pc = "watch" /\ pc' = "bcp"
      /\ UNCHANGED <<conflicts, watched, satisfied, phase, cursor, analysisVars, lraVars, loopVars>>
      /\ visit' = NoVisit
  BY DEF VisitDone, EndOfList, BoolStep, Steady, lraVars, loopVars
<1>2. SolverTypeOK'
  BY <1>1, SteadyParts, Zenon
     DEF LoopInv, SolverTypeOK, ProgramPoints, Steady, trailVars, dbVars,
     bcpVars, analysisVars, lraVars, loopVars, TrailInv, NoVisit
<1>3. TrailInv' /\ AssignmentsOK' /\ DatabaseOK' /\ ReasonsOK' /\ WatchInv'
  BY <1>1, SteadyMost DEF WatchesLive
<1>4. FalseWatchesOK'
  <2>1. StillAwaits
    <3> SUFFICES ASSUME NEW id \in ClauseIds, NEW i \in {1, 2}, NEW lit \in Literals,
                        i <= Len(Clause(id)), lit = Clause(id)[i], Awaits(lit, id)
                 PROVE  Awaits(lit, id)'
      BY DEF StillAwaits
    <3>1. visit.lit = lit => ~NotVisited(id)
      BY EndVisitsAll DEF VisitDone
    <3>2. OnStack(-lit) \/ ImpliedOnStack(id) BY <1>1, <3>1 DEF Awaits
    <3>3. QED BY <1>1, <3>2 DEF Awaits, OnStack, ImpliedOnStack
  <2>2. QED BY <1>1, <2>1, SteadyMost
<1>5. UnitsOK'
  BY <1>1 DEF LoopInv, UnitsOK, Steady, trailVars, dbVars, ClauseIds, Clause, True, TrueIn, LevelOf,
     ImpliedOnStack, decision_level
<1>6. StackOK'
  <2> SUFFICES ASSUME NEW k \in DOMAIN satisfied', NEW lit, lit = satisfied'[k].lit,
                      NEW id, id = satisfied'[k].reason
               PROVE  IF id = NoReason
                        THEN True(lit)'
                        ELSE /\ id \in ClauseIds'
                             /\ Clause(id)'[1] = lit
                             /\ \A p \in 2..Len(Clause(id)') : False(Clause(id)[p])'
                             /\ ~True(lit)' /\ decision_level' > 0 =>
                                  \E p \in 2..Len(Clause(id)') : LevelOf(Clause(id)[p])' = decision_level'
                             /\ ~False(lit)'
    BY <1>1 DEF StackOK
  <2>1. k \in DOMAIN satisfied /\ lit = satisfied[k].lit /\ id = satisfied[k].reason
    BY <1>1
  <2>2. IF id = NoReason
          THEN True(lit)
          ELSE /\ id \in ClauseIds
               /\ Clause(id)[1] = lit
               /\ \A p \in 2..Len(Clause(id)) : False(Clause(id)[p])
               /\ ~True(lit) /\ decision_level > 0 =>
                    \E p \in 2..Len(Clause(id)) : LevelOf(Clause(id)[p]) = decision_level
               /\ False(lit) => visit.lit = lit /\ NotVisited(id)
    BY <1>1, <2>1 DEF LoopInv, StackOK
  <2>3. id # NoReason => ~False(lit)
    <3>1. SUFFICES ASSUME id # NoReason, False(lit) PROVE FALSE OBVIOUS
    <3>2. id \in ClauseIds /\ Clause(id) # << >> /\ Clause(id) \in Seq(Literals)
      BY <2>2, <3>1, InvTypes, ClauseTypes DEF LoopInv, DatabaseOK
    <3>3. 1 <= Len(Clause(id)) BY <3>2
    <3>4. QED BY <2>2, <3>1, <3>2, <3>3, EndVisitsAll DEF VisitDone
  <2>4. QED BY <2>2, <2>3, <1>1 DEF Steady, trailVars, dbVars, ClauseIds, Clause, True, TrueIn, False, FalseIn,
       LevelOf, decision_level
<1>7. CursorOK'
  BY <1>1 DEF LoopInv, CursorOK, Steady, trailVars, loopVars, decision_level, recent
<1>8. AtomsOK' BY <1>1, SteadyAtoms DEF LoopInv, AtomsOK
<1>9. ConflictsOK' /\ LemmasOK'
  BY <1>1, SteadyClauses DEF LoopInv, ConflictsOK, LemmasOK, analysisVars, Steady, trailVars,
     decision_level
<1>10. QED BY <1>1, <1>2, <1>3, <1>4, <1>5, <1>6, <1>7, <1>8, <1>9, InvTypes, Elsewhere
     DEF LoopInv, loopVars

\* The visited clause holds the visited literal, which is moved to the second
\* position of a clause of more than one literal.
LEMMA VisitedFacts ==
  ASSUME LoopInv, AtWatch
  PROVE  /\ pc = "watch" /\ WatchInv /\ WatchesLive
         /\ visit.lit \in Literals /\ False(visit.lit)
         /\ Visited \in Seq([clause : Nat, index : Nat]) /\ visit.i \in 1..Len(Visited)
         /\ VisitedId \in ClauseIds
         /\ Clause(VisitedId) \in Seq(Literals) /\ Len(Clause(VisitedId)) >= 1
         /\ VisitedClause \in Seq(Literals)
         /\ Len(VisitedClause) = Len(Clause(VisitedId))
         /\ ToSet(VisitedClause) = ToSet(Clause(VisitedId))
         /\ Len(VisitedClause) = 1 =>
              VisitedClause = Clause(VisitedId) /\ VisitedClause[1] = visit.lit
         /\ Len(VisitedClause) > 1 =>
              /\ VisitedClause[2] = visit.lit
              /\ \/ VisitedClause = Clause(VisitedId)
                 \/ /\ Clause(VisitedId)[1] = visit.lit
                    /\ VisitedClause[1] = Clause(VisitedId)[2]
              /\ \A p \in 3..Len(VisitedClause) : VisitedClause[p] = Clause(VisitedId)[p]
         /\ Len(VisitedClause) > 2 => Visited[visit.i].index \in 3..Len(VisitedClause)
<1>1. pc = "watch" /\ WatchInv /\ WatchesLive
      /\ asserted \in ClauseLists /\ learned \in ClauseLists
      /\ watched \in [Literals -> Seq([clause : Nat, index : Nat])]
      /\ visit.i \in Nat /\ visit.lit \in Literals /\ False(visit.lit) /\ visit.i >= 1
  BY InvTypes DEF AtWatch, LoopInv, SolverTypeOK, WatchesLive, StackOK
<1>2. PICK lit \in Literals : lit = visit.lit BY <1>1
<1>3. /\ watched[lit] \in Seq([clause : Nat, index : Nat])
      /\ \A k \in 1..Len(watched[lit]) :
              LET id == watched[lit][k].clause IN
              /\ id \in ClauseIds
              /\ \E i \in {1, 2} : i <= Len(Clause(id)) /\ Clause(id)[i] = lit
              /\ Len(Clause(id)) > 2 => watched[lit][k].index \in 3..Len(Clause(id))
  BY <1>1, WatchesFound, Zenon
<1>4. Visited = watched[lit] BY <1>2 DEF Visited
<1>5. visit.i \in 1..Len(Visited) BY <1>1, <1>3, <1>4 DEF AtWatch
<1>6. PICK id : id = VisitedId OBVIOUS
<1>7. /\ id \in ClauseIds
      /\ \E i \in {1, 2} : i <= Len(Clause(id)) /\ Clause(id)[i] = lit
      /\ Len(Clause(id)) > 2 => Visited[visit.i].index \in 3..Len(Clause(id))
  BY <1>3, <1>4, <1>5, <1>6, Zenon DEF VisitedId
<1>8. PICK c \in Seq(Literals) : c = Clause(id)
  BY <1>1, <1>7, ClauseTypes
<1>9. Len(c) \in Nat /\ Len(c) >= 1 BY <1>7, <1>8
<1>10. VisitedClause = IF c[1] = lit /\ Len(c) > 1 THEN Swap(c, 1, 2) ELSE c
  BY <1>2, <1>6, <1>8 DEF VisitedClause
<1>11. Len(c) > 1 =>
         /\ Swap(c, 1, 2) \in Seq(Literals) /\ Len(Swap(c, 1, 2)) = Len(c)
         /\ Swap(c, 1, 2)[1] = c[2] /\ Swap(c, 1, 2)[2] = c[1]
         /\ \A k \in 1..Len(c) : k # 1 /\ k # 2 => Swap(c, 1, 2)[k] = c[k]
         /\ ToSet(Swap(c, 1, 2)) = ToSet(c)
  <2>1. SUFFICES ASSUME Len(c) > 1 PROVE
         /\ Swap(c, 1, 2) \in Seq(Literals) /\ Len(Swap(c, 1, 2)) = Len(c)
         /\ Swap(c, 1, 2)[1] = c[2] /\ Swap(c, 1, 2)[2] = c[1]
         /\ \A k \in 1..Len(c) : k # 1 /\ k # 2 => Swap(c, 1, 2)[k] = c[k]
         /\ ToSet(Swap(c, 1, 2)) = ToSet(c)
    OBVIOUS
  <2>2. 1 \in 1..Len(c) /\ 2 \in 1..Len(c) BY <1>9, <2>1
  <2>3. QED BY <2>2, SwapEffect
<1>12. PICK d : d = VisitedClause OBVIOUS
<1>13. /\ d \in Seq(Literals) /\ Len(d) = Len(c) /\ ToSet(d) = ToSet(c)
       /\ Len(d) = 1 => d = c /\ d[1] = lit
       /\ Len(d) > 1 => /\ d[2] = lit
                        /\ d = c \/ (c[1] = lit /\ d[1] = c[2])
                        /\ \A p \in 3..Len(d) : d[p] = c[p]
  BY <1>7, <1>8, <1>9, <1>10, <1>11, <1>12
<1>14. QED BY <1>1, <1>2, <1>3, <1>4, <1>5, <1>6, <1>7, <1>8, <1>9, <1>12, <1>13

\* The invariant when a literal on the stack has become false: its reason is a
\* conflict.
LEMMA UnitFalsifiedStep ==
  ASSUME LoopInv, BoolStep, UnitFalsified
  PROVE  LoopInv'
<1>1. Steady /\ pc = "watch" /\ pc' = "conflict"
      /\ UNCHANGED <<watched, satisfied, phase, cursor, analysisVars, lraVars, loopVars>>
      /\ visit' = NoVisit /\ conflicts' = <<VisitedClause>>
  BY DEF UnitFalsified, AtWatch, BoolStep, Steady, lraVars, loopVars
<1>2. VisitedClause \in Seq(Literals) /\ Len(VisitedClause) = 1 /\ False(VisitedClause[1])
      /\ conflicts' \in ClauseLists /\ Len(conflicts') = 1 /\ conflicts' # << >>
  BY <1>1, VisitedFacts DEF UnitFalsified, ClauseLists
<1>3. SolverTypeOK'
  BY <1>1, <1>2, SteadyMost, Zenon
     DEF LoopInv, SolverTypeOK, ProgramPoints, Steady, trailVars, dbVars,
     bcpVars, analysisVars, lraVars, loopVars, TrailInv, NoVisit
<1>4. TrailInv' /\ AssignmentsOK' /\ DatabaseOK' /\ ReasonsOK' /\ WatchInv' /\ FalseWatchesOK'
  BY <1>1, SteadyMost DEF WatchesLive, StillAwaits, Awaits
<1>5. UnitsOK'
  BY <1>1, Zenon
     DEF LoopInv, UnitsOK, Steady, trailVars, dbVars, ClauseIds, Clause, True, TrueIn, LevelOf,
     decision_level
<1>6. CursorOK'
  BY <1>1 DEF LoopInv, CursorOK, Steady, trailVars, loopVars, decision_level, recent
<1>7. AtomsOK' BY <1>1, SteadyAtoms DEF LoopInv, AtomsOK
<1>8. ConflictsOK' /\ LemmasOK'
  <2>1. AllFalse(conflicts[1])'
    <3>1. PICK d : d = VisitedClause OBVIOUS
    <3>2. conflicts'[1] = d /\ Len(d) = 1 /\ False(d[1])
      BY <1>1, <1>2, <3>1
    <3>3. AllFalse(d) BY <3>2 DEF AllFalse
    <3>4. AllFalse(d)' BY <1>1, <3>3, SteadyClauses
    <3>5. QED BY <3>2, <3>4 DEF AllFalse
  <2>2. QED BY <1>1, <1>2, <2>1, SteadyClauses DEF LoopInv, ConflictsOK, LemmasOK, analysisVars
<1>9. QED BY <1>1, <1>3, <1>4, <1>5, <1>6, <1>7, <1>8, InvTypes, Elsewhere
     DEF LoopInv, loopVars

\* The constraints are boolean variables over rational ones.
LEMMA LraTypes ==
  ASSUME LoopInv
  PROVE  /\ created \subseteq AtomVars /\ AtomVars \subseteq BoolVars /\ AtomVars \subseteq Vars
         /\ \A a \in AtomVars : AtomScope[a] \subseteq RealVars /\ AtomScope[a] # {}
BY BoolsAndReals, Zenon DEF LoopInv, SolverTypeOK

\* The invariant when the arithmetic plugin finds a constraint that its
\* variables contradict.
LEMMA LraConflictStep ==
  ASSUME LoopInv, LraStep, LraConflict
  PROVE  LoopInv'
<1>1. Steady /\ pc = "theory" /\ pc' = "conflict" /\ Propagatable = {} /\ conflicts # << >>
      /\ UNCHANGED <<conflicts, bcpVars, phase, cursor, analysisVars, created, blame, loopVars>>
      /\ checked' = {}
  BY DEF LraConflict, LraStep, LraPropagateStep, Steady, lraVars, loopVars
<1>2. SolverTypeOK'
  BY <1>1, SteadyMost, Zenon
     DEF LoopInv, SolverTypeOK, ProgramPoints, Steady, trailVars, dbVars,
     bcpVars, analysisVars, lraVars, loopVars, TrailInv
<1>3. UnitsTrue BY <1>1 DEF LoopInv, UnitsOK, UnitsTrue
<1>4. TrailInv' /\ AssignmentsOK' /\ DatabaseOK' /\ ReasonsOK' /\ WatchInv' /\ FalseWatchesOK'
      /\ UnitsOK'
  BY <1>1, <1>3, SteadyMost DEF WatchesLive, StillAwaits, Awaits, bcpVars
<1>5. CursorOK'
  BY <1>1 DEF LoopInv, CursorOK, Steady, trailVars, loopVars, decision_level, recent
<1>6. AtomsOK' BY <1>1, SteadyAtoms DEF LoopInv, AtomsOK
<1>7. ConflictsOK' /\ LemmasOK'
  BY <1>1, SteadyClauses DEF LoopInv, ConflictsOK, LemmasOK, analysisVars
<1>8. QED BY <1>1, <1>2, <1>4, <1>5, <1>6, <1>7, InvTypes, Elsewhere
     DEF LoopInv, loopVars

\* The invariant at the end of a round of propagation.
LEMMA RoundDoneStep ==
  ASSUME LoopInv, RoundDone
  PROVE  LoopInv'
<1>1. Steady /\ pc = "theory" /\ pc' \in {"propagate", "decide"} /\ Propagatable = {}
      /\ conflicts = << >>
      /\ UNCHANGED <<conflicts, bcpVars, phase, cursor, analysisVars, lraVars, loopVars>>
  BY DEF RoundDone, LraDone, Steady, lraVars
<1>2. SolverTypeOK'
  BY <1>1, SteadyMost DEF LoopInv, SolverTypeOK, ProgramPoints, Steady, trailVars, dbVars,
     bcpVars, analysisVars, lraVars, loopVars, TrailInv
<1>3. UnitsTrue BY <1>1 DEF LoopInv, UnitsOK, UnitsTrue
<1>4. FalseWatchesOK'
  <2>1. StillAwaits
    <3>1. ASSUME RealVars # {}, NEW v, v \in VarsIn(Unseen)
          PROVE  pc' = "propagate" /\ v \in VarsIn(Unseen')
      <4>1. Unseen' = Unseen
        BY <1>1 DEF Unseen, Steady, trailVars, recent, decision_level
      <4>2. decision_level = cursor.level /\ cursor.next = round_size
            /\ recent \in Seq(Assignment) /\ Len(recent) \in Nat
        BY <1>1, InvTypes, ListTypes DEF LoopInv, CursorOK
      <4>3. Len(recent) # round_size BY <3>1, <4>2 DEF Unseen, VarsIn
      <4>4. QED BY <3>1, <4>1, <4>3 DEF RoundDone
    <3>2. VarsIn(Unseen') = VarsIn(Unseen)' BY DEF VarsIn, Unseen
    <3>3. QED BY <1>1, <3>1, <3>2 DEF StillAwaits, Awaits
  <2>2. QED BY <1>1, <2>1, SteadyMost
<1>5. TrailInv' /\ AssignmentsOK' /\ DatabaseOK' /\ ReasonsOK' /\ WatchInv' /\ UnitsOK'
  BY <1>1, <1>3, SteadyMost DEF WatchesLive, bcpVars
<1>6. CursorOK'
  BY <1>1 DEF LoopInv, CursorOK, Steady, trailVars, loopVars, decision_level, recent
<1>7. AtomsOK' BY <1>1, SteadyAtoms DEF LoopInv, AtomsOK
<1>8. ConflictsOK' /\ LemmasOK'
  BY <1>1, SteadyClauses DEF LoopInv, ConflictsOK, LemmasOK, analysisVars
<1>9. QED BY <1>1, <1>2, <1>4, <1>5, <1>6, <1>7, <1>8, InvTypes, Elsewhere
     DEF LoopInv, loopVars

-----------------------------------------------------------------------------
(* Explanations of the arithmetic plugin.                                  *)

\* Sets of literals are finite.
LEMMA FiniteLiterals ==
  ASSUME NEW S \in SUBSET Literals
  PROVE  IsFiniteSet(S)
<1> DEFINE Neg == {-v : v \in BoolVars}
<1>1. IsFiniteSet(BoolVars) BY BoolVarsAssumption
<1>2. IsFiniteSet(Neg)
  <2> DEFINE f == [v \in BoolVars |-> -v]
  <2>1. f \in Surjection(BoolVars, Neg) BY DEF Surjection
  <2> HIDE DEF f, Neg
  <2>2. QED BY <1>1, <2>1, FS_Surjection
<1>3. IsFiniteSet(BoolVars \cup Neg) BY <1>1, <1>2, FS_Union, Zenon
<1>4. QED BY <1>3, FS_Subset DEF Literals

\* The order of literals is strict and total.
LEMMA LiteralOrder ==
  /\ \A l \in Literals : LitIndex(l) \in Int
  /\ \A l, k \in Literals : LitIndex(l) = LitIndex(k) => l = k
<1>1. ASSUME NEW l \in Literals, NEW k \in Literals, LitIndex(l) = LitIndex(k)
      PROVE  l = k
  <2>1. VarOf(l) \in Int /\ VarOf(k) \in Int /\ l \in Int /\ k \in Int
    BY LiteralTypes
  <2>2. VarOf(l) = VarOf(k) /\ (l < 0 <=> k < 0)
    <3>1. PICK a \in {0, 1}, b \in {0, 1} :
            /\ a = (IF l < 0 THEN 1 ELSE 0) /\ b = (IF k < 0 THEN 1 ELSE 0)
      OBVIOUS
    <3>2. 2 * VarOf(l) + a = 2 * VarOf(k) + b BY <1>1, <3>1 DEF LitIndex
    <3>3. VarOf(l) = VarOf(k) /\ a = b BY <2>1, <3>1, <3>2
    <3>4. QED BY <3>1, <3>3
  <2>3. QED BY <2>1, <2>2 DEF VarOf
<1>2. \A l \in Literals : LitIndex(l) \in Int
  BY LiteralTypes DEF LitIndex
<1>3. QED BY <1>1, <1>2

\* A set of literals as a clause.
LEMMA SortedByIndex ==
  ASSUME NEW S \in SUBSET Literals
  PROVE  /\ SortedList(S, IndexBefore) \in Seq(Literals)
         /\ ToSet(SortedList(S, IndexBefore)) = S
<1> DEFINE order == {pair \in S \X S : IndexBefore(pair[1], pair[2])}
           list == Ranked(S, order)
<1>1. IsFiniteSet(S) BY FiniteLiterals
<1>2. \A x, y \in S : <<x, y>> \in order <=> LitIndex(x) < LitIndex(y)
  BY DEF IndexBefore
<1>3. SortedList(S, IndexBefore) = list BY DEF SortedList
<1> HIDE DEF order
<1>4. \A x \in S : <<x, x>> \notin order BY <1>2, LiteralOrder
<1>5. \A x, y, z \in S : <<x, y>> \in order /\ <<y, z>> \in order => <<x, z>> \in order
  BY <1>2, LiteralOrder
<1>6. \A x, y \in S : x # y => <<x, y>> \in order \/ <<y, x>> \in order
  BY <1>2, LiteralOrder
<1>7. list \in Seq(S) /\ \A x \in S : \E k \in 1..Len(list) : list[k] = x
  BY <1>1, <1>4, <1>5, <1>6, RankedSorts
<1> HIDE DEF list
<1>8. ToSet(list) = S /\ list \in Seq(Literals)
  <2>1. list \in Seq(Literals) BY <1>7
  <2>2. \A k \in 1..Len(list) : list[k] \in S BY <1>7
  <2>3. \A x : x \in ToSet(list) <=> \E k \in 1..Len(list) : list[k] = x
    BY <2>1, ElementsOf
  <2>4. \A x : x \in ToSet(list) <=> x \in S BY <1>7, <2>2, <2>3, Zenon
  <2>5. QED BY <2>1, <2>4, Zenon
<1>9. QED BY <1>3, <1>8

\* A constraint that has a value exists.
LEMMA DefinedAtoms ==
  ASSUME LoopInv, NEW a \in AtomVars, is_defined(a)
  PROVE  a \in created /\ (is_fully_assigned(a) => model[a] = AtomValue(a))
BY BoolsAndReals DEF LoopInv, AssignmentsOK, DatabaseOK, Known, AtomsOK

\* The literal of a constraint that its variables make false.
LEMMA RefutedByVariables ==
  ASSUME LoopInv, NEW a \in AtomVars, is_fully_assigned(a),
         NEW lit, lit = IF AtomValue(a) THEN -a ELSE a
  PROVE  lit \in Literals /\ VarOf(lit) = a /\ (is_defined(a) => False(lit))
<1>1. a \in BoolVars BY BoolsAndReals
<1>2. -a \in Literals /\ a \in Literals /\ VarOf(a) = a /\ VarOf(-a) = a
      /\ a \in Int /\ a > 0 /\ -a < 0 /\ ~(a < 0)
  BY <1>1, VariableLiterals
<1>3. is_defined(a) => model[a] = AtomValue(a) BY DefinedAtoms
<1>4. AtomValue(a) \in BOOLEAN BY DEF AtomValue
<1>5. CASE AtomValue(a)
  <2>1. lit = -a /\ AtomValue(a) = TRUE /\ (-a < 0) = TRUE
    BY <1>2, <1>4, <1>5
  <2>2. QED BY <1>2, <1>3, <2>1, Zenon DEF False, FalseIn
<1>6. CASE ~AtomValue(a)
  <2>1. lit = a /\ AtomValue(a) = FALSE /\ (a < 0) = FALSE
    BY <1>2, <1>4, <1>6
  <2>2. QED BY <1>2, <1>3, <2>1, Zenon DEF False, FalseIn
<1>7. QED BY <1>5, <1>6

\* The literals of an explanation are false, or will be once their constraint has
\* its value.
LEMMA ExplanationFalse ==
  ASSUME LoopInv, NEW r \in RealVars, NEW lemma \in Explanations(r), NEW lit \in lemma
  PROVE  /\ lit \in Literals /\ VarOf(lit) \in AtomVars
         /\ \/ False(lit)
            \/ /\ ~is_defined(VarOf(lit))
               /\ is_fully_assigned(VarOf(lit))
               /\ lit = IF AtomValue(VarOf(lit)) THEN -VarOf(lit) ELSE VarOf(lit)
<1>1. PICK core \in Cores(r) : lit \in Refuted(core) \cup Eliminated(core, r)
  <2>1. PICK core \in Cores(r) :
          lemma \in {Refuted(core) \cup d :
            d \in {d \in SUBSET Eliminated(core, r) :
                     /\ Valid(Refuted(core) \cup d)
                     /\ \A k \in d : ~Valid(Refuted(core) \cup (d \ {k}))}}
    BY Zenon DEF Explanations
  <2>2. PICK d \in SUBSET Eliminated(core, r) : lemma = Refuted(core) \cup d
    BY <2>1, Zenon
  <2>3. QED BY <2>2
<1>2. CASE lit \in Refuted(core)
  <2>1. PICK a \in core : lit = -TrueLiteralOf(a) BY <1>2 DEF Refuted
  <2>2. a \in created /\ is_defined(a) BY <1>1, <2>1 DEF Cores, UnitIn
  <2>3. a \in AtomVars /\ a \in BoolVars BY <2>2, LraTypes
  <2>4. TrueLiteralOf(a) \in Literals /\ VarOf(TrueLiteralOf(a)) = a /\ False(-TrueLiteralOf(a))
    BY <2>2, <2>3, InvTypes, TrueLiteral
  <2>5. QED BY <2>1, <2>3, <2>4, LiteralTypes
<1>3. CASE lit \in Eliminated(core, r)
  <2>1. PICK a \in AtomVars : is_fully_assigned(a) /\ lit = IF AtomValue(a) THEN -a ELSE a
    BY <1>3 DEF Eliminated
  <2>2. lit \in Literals /\ VarOf(lit) = a /\ (is_defined(a) => False(lit))
    BY <2>1, RefutedByVariables
  <2>3. QED BY <2>1, <2>2
<1>4. QED BY <1>1, <1>2, <1>3

\* The invariant when the arithmetic plugin begins to explain a conflict.
LEMMA LraBlameStep ==
  ASSUME LoopInv, LraStep, LraBlame
  PROVE  LoopInv'
<1>1. Steady /\ pc = "theory" /\ pc' = "explain" /\ Propagatable = {}
      /\ UNCHANGED <<conflicts, bcpVars, phase, cursor, analysisVars, created, loopVars>>
  BY DEF LraBlame, LraStep, LraPropagateStep, Steady, lraVars, loopVars
<1>2. PICK r \in RealVars : blame' \in Explanations(r) /\ checked' = checked \cup {r}
  BY DEF LraBlame
<1>3. \A lit \in blame' :
         /\ lit \in Literals /\ VarOf(lit) \in AtomVars
         /\ \/ False(lit)
            \/ /\ ~is_defined(VarOf(lit))
               /\ is_fully_assigned(VarOf(lit))
               /\ lit = IF AtomValue(VarOf(lit)) THEN -VarOf(lit) ELSE VarOf(lit)
  BY <1>2, ExplanationFalse
<1>4. SolverTypeOK'
  BY <1>1, <1>2, <1>3, SteadyMost, Zenon
     DEF LoopInv, SolverTypeOK, ProgramPoints, Steady, trailVars, dbVars,
     bcpVars, analysisVars, lraVars, loopVars, TrailInv
<1>5. ExplainOK'
  <2>1. \A a : /\ is_defined(a)' = is_defined(a)
               /\ is_fully_assigned(a)' = is_fully_assigned(a)
               /\ AtomValue(a)' = AtomValue(a)
    BY <1>1 DEF Steady, trailVars, is_defined, is_fully_assigned, Unassigned, AtomValue, Agrees
  <2>2. \A lit : False(lit)' = False(lit) BY <1>1, SteadyLiterals
  <2>3. QED BY <1>3, <2>1, <2>2 DEF ExplainOK
<1>6. UnitsTrue BY <1>1 DEF LoopInv, UnitsOK, UnitsTrue
<1>7. StillAwaits
  BY <1>1, Zenon
     DEF StillAwaits, Awaits, VarsIn, Unseen, Steady, trailVars, recent, decision_level
<1>8. TrailInv' /\ AssignmentsOK' /\ DatabaseOK' /\ ReasonsOK' /\ WatchInv' /\ FalseWatchesOK'
      /\ UnitsOK'
  BY <1>1, <1>6, <1>7, SteadyMost DEF WatchesLive, bcpVars
<1>9. CursorOK'
  BY <1>1 DEF LoopInv, CursorOK, Steady, trailVars, loopVars, decision_level, recent
<1>10. AtomsOK' BY <1>1, SteadyAtoms DEF LoopInv, AtomsOK
<1>11. ConflictsOK' /\ LemmasOK'
  BY <1>1, SteadyClauses DEF LoopInv, ConflictsOK, LemmasOK, analysisVars
<1>12. QED BY <1>1, <1>4, <1>5, <1>8, <1>9, <1>10, <1>11, InvTypes, Elsewhere
     DEF LoopInv, loopVars

\* The invariant when the arithmetic plugin reports the explanation: all of its
\* literals are false.
LEMMA LraReportStep ==
  ASSUME LoopInv, LraStep, LraReport
  PROVE  LoopInv'
<1> DEFINE c == SortedList(blame, IndexBefore)
<1>1. Steady /\ pc = "explain" /\ pc' = "theory"
      /\ conflicts' = Append(conflicts, c) /\ blame' = {}
      /\ UNCHANGED <<bcpVars, phase, cursor, analysisVars, created, checked, loopVars>>
      /\ \A lit \in blame : is_defined(VarOf(lit))
  BY DEF LraReport, LraStep, LraPropagateStep, Steady, lraVars, loopVars
<1>2. blame \in SUBSET Literals /\ \A lit \in blame : False(lit)
  BY <1>1 DEF LoopInv, ExplainOK, SolverTypeOK
<1>3. c \in Seq(Literals) /\ ToSet(c) = blame
  <2>1. blame \in SUBSET Literals BY <1>2
  <2>2. QED BY <2>1, SortedByIndex
<1> HIDE DEF c
<1>4. AllFalse(c) BY <1>2, <1>3, ElementsOf DEF AllFalse
<1>5. conflicts \in ClauseLists /\ conflicts' \in ClauseLists
      /\ Len(conflicts') = Len(conflicts) + 1
      /\ conflicts'[Len(conflicts) + 1] = c
      /\ Len(conflicts) \in Nat
      /\ \A k \in 1..Len(conflicts) : conflicts'[k] = conflicts[k]
  <2>1. conflicts \in Seq(Seq(Literals)) /\ conflicts' = Append(conflicts, c)
    BY <1>1 DEF LoopInv, SolverTypeOK, ClauseLists
  <2>2. PICK C : C = Seq(Literals) OBVIOUS
  <2>3. conflicts \in Seq(C) /\ c \in C BY <1>3, <2>1, <2>2
  <2>4. QED BY <2>1, <2>2, <2>3, AppendEffect DEF ClauseLists
<1>6. SolverTypeOK'
  BY <1>1, <1>5, SteadyMost, Zenon
     DEF LoopInv, SolverTypeOK, ProgramPoints, Steady, trailVars, dbVars,
     bcpVars, analysisVars, lraVars, loopVars, TrailInv
<1>7. UnitsTrue BY <1>1 DEF LoopInv, UnitsOK, UnitsTrue
<1>8. StillAwaits
  BY <1>1, Zenon
     DEF StillAwaits, Awaits, VarsIn, Unseen, Steady, trailVars, recent, decision_level
<1>9. TrailInv' /\ AssignmentsOK' /\ DatabaseOK' /\ ReasonsOK' /\ WatchInv' /\ FalseWatchesOK'
      /\ UnitsOK'
  BY <1>1, <1>7, <1>8, SteadyMost DEF WatchesLive, bcpVars
<1>10. CursorOK'
  BY <1>1 DEF LoopInv, CursorOK, Steady, trailVars, loopVars, decision_level, recent
<1>11. AtomsOK' BY <1>1, SteadyAtoms DEF LoopInv, AtomsOK
<1>12. ConflictsOK'
  <2>1. ASSUME NEW k \in 1..Len(conflicts') PROVE AllFalse(conflicts[k])'
    <3>1. PICK d : d = conflicts'[k] OBVIOUS
    <3>2. AllFalse(d) BY <1>4, <1>5, <2>1, <3>1 DEF LoopInv, ConflictsOK
    <3>3. AllFalse(d)' BY <1>1, <3>2, SteadyClauses
    <3>4. QED BY <3>1, <3>3 DEF AllFalse
  <2>2. QED BY <1>1, <2>1 DEF LoopInv, ConflictsOK, analysisVars
<1>13. LemmasOK'
  BY <1>1, SteadyClauses DEF LoopInv, LemmasOK, analysisVars
<1>14. QED BY <1>1, <1>6, <1>9, <1>10, <1>11, <1>12, <1>13, InvTypes, Elsewhere
     DEF LoopInv, loopVars

-----------------------------------------------------------------------------
(* Visiting a watch list.                                                  *)

\* The reason of a falsified literal, and what resolution takes from it.
LEMMA ReasonFacts ==
  ASSUME LoopInv, NEW v \in BoolVars, var_reason[v] # NoReason
  PROVE  \E c \in Seq(Literals) :
           /\ var_reason[v] \in ClauseIds /\ c = Clause(var_reason[v])
           /\ is_defined(v) /\ var_level[v] \in 0..decision_level
           /\ Len(c) >= 1 /\ Len(c) \in Nat /\ c[1] = TrueLiteralOf(v)
           /\ \A p \in 2..Len(c) :
                /\ c[p] \in Literals /\ False(c[p]) /\ LevelOf(c[p]) <= var_level[v]
                /\ VarOf(c[p]) # v
                /\ LevelOf(c[p]) = var_level[v] => ListedBefore(VarOf(c[p]), v)
           /\ var_level[v] > 0 => \E p \in 2..Len(c) : LevelOf(c[p]) = var_level[v]
<1>1. TrailInv /\ BoolValued(model) /\ v \in Vars
  BY InvTypes, BoolsAndReals
<1>2. var_reason[v] \in ClauseIds /\ ForcedBy(v, Clause(var_reason[v]))
  BY DEF LoopInv, ReasonsOK
<1>3. PICK c \in Seq(Literals) : c = Clause(var_reason[v]) /\ c # << >>
  BY <1>2, InvTypes, ClauseTypes DEF LoopInv, DatabaseOK
<1>4. is_defined(v) /\ var_level[v] \in 0..decision_level
  BY <1>1, DefinedLevels
<1>5. Len(c) \in Nat /\ Len(c) >= 1 /\ \A p \in 1..Len(c) : c[p] \in Literals
  BY <1>3
<1>6. ForcedBy(v, c) BY <1>2, <1>3
<1>7. ASSUME NEW p \in 2..Len(c)
      PROVE  /\ c[p] \in Literals /\ False(c[p]) /\ LevelOf(c[p]) <= var_level[v]
             /\ VarOf(c[p]) # v
             /\ LevelOf(c[p]) = var_level[v] => ListedBefore(VarOf(c[p]), v)
  <2>1. c[p] \in Literals BY <1>5
  <2>2. False(c[p]) /\ LevelOf(c[p]) <= var_level[v]
        /\ (LevelOf(c[p]) = var_level[v] => ListedBefore(VarOf(c[p]), v))
    BY <1>6 DEF ForcedBy
  <2>3. ~ListedBefore(v, v) BY <1>1, <1>4, BeforeIsOrder
  <2>4. VarOf(c[p]) # v BY <2>2, <2>3 DEF LevelOf
  <2>5. QED BY <2>1, <2>2, <2>4
<1>8. QED BY <1>2, <1>3, <1>4, <1>5, <1>6, <1>7 DEF ForcedBy

\* What an entry of the trail says of its variable.
LEMMA EntryFacts ==
  ASSUME TrailInv, NEW l \in 0..decision_level, NEW k \in 1..Len(assigned(l))
  PROVE  /\ assigned(l)[k].var \in Vars /\ assigned(l)[k].reason = var_reason[assigned(l)[k].var]
         /\ var_level[assigned(l)[k].var] \in 0..l /\ is_defined(assigned(l)[k].var)
<1>1. assigned(l)[k].var \in Vars /\ decision_level \in Nat
  BY ListTypes DEF TrailInv
<1>2. assigned(l)[k].reason = var_reason[assigned(l)[k].var]
      /\ var_level[assigned(l)[k].var] \in 0..l
  BY DEF TrailInv, ListedBelow
<1>3. var_level[assigned(l)[k].var] # -1 BY <1>1, <1>2
<1>4. QED BY <1>1, <1>2, <1>3 DEF TrailInv, DefinedIffLevel, unassigned

\* Nothing changes for the constraints where the trail stays as it is.
LEMMA AtomsStay ==
  ASSUME UNCHANGED <<trailVars, created>>, AtomsOK, Propagatable = {}
  PROVE  AtomsOK'
<1>1. \A a : /\ is_defined(a)' = is_defined(a)
             /\ is_fully_assigned(a)' = is_fully_assigned(a)
             /\ AtomValue(a)' = AtomValue(a)
  BY DEF trailVars, is_defined, is_fully_assigned, Unassigned, AtomValue, Agrees
<1>2. Propagatable' = {} BY <1>1 DEF Propagatable
<1>3. decision_level' = decision_level BY DEF trailVars, decision_level
<1>4. \A a \in created' : is_defined(a)' /\ is_fully_assigned(a)' => model'[a] = AtomValue(a)'
  BY <1>1 DEF AtomsOK, trailVars
<1>5. \A a \in created' : \A m \in 0..(decision_level' - 1) :
       (\A r \in AtomScope[a] : is_defined(r)' /\ var_level'[r] <= m) =>
         is_defined(a)' /\ var_level'[a] <= m
  BY <1>3 DEF AtomsOK, trailVars, is_defined
<1>6. QED BY <1>2, <1>3, <1>4, <1>5 DEF AtomsOK

\* The visited clause is not the reason of a variable when its literals move.
LEMMA VisitPermutes ==
  ASSUME LoopInv, EveryClauseMayBeReason, AtWatch, NEW id, id = VisitedId,
         NEW c, c = Clause(id), NEW d \in Seq(Literals), SetClause(id, d), ToSet(d) = ToSet(c), Len(d) = Len(c),
         d = c \/ c[1] = visit.lit \/ ~True(c[1]), UNCHANGED <<trailVars, created>>
  PROVE  /\ TrailInv' /\ AssignmentsOK' /\ DatabaseOK' /\ ReasonsOK' /\ AtomsOK'
         /\ asserted' \in ClauseLists /\ learned' \in ClauseLists
         /\ ClauseIds' = ClauseIds /\ Clause(id)' = d
         /\ \A k \in ClauseIds : k # id => Clause(k)' = Clause(k)
         /\ decision_level' = decision_level /\ recent' = recent /\ empty' = empty
         /\ \A lit : /\ True(lit)' = True(lit) /\ False(lit)' = False(lit)
                     /\ LevelOf(lit)' = LevelOf(lit)
<1>1. TrailInv /\ BoolValued(model) /\ asserted \in ClauseLists /\ learned \in ClauseLists
      /\ AssignmentsOK /\ DatabaseOK /\ ReasonsOK /\ AtomsOK
  BY InvTypes DEF LoopInv
<1>2. pc = "watch" /\ VisitedId \in ClauseIds /\ visit.lit \in Literals /\ False(visit.lit)
      /\ c \in Seq(Literals) /\ Len(c) >= 1
  BY VisitedFacts
<1>4. id \in ClauseIds /\ c = Clause(id) /\ SetClause(id, d) BY <1>2
<1>5. /\ asserted' \in ClauseLists /\ learned' \in ClauseLists
      /\ ClauseIds' = ClauseIds
      /\ Clause(id)' = d
      /\ \A k \in ClauseIds : k # id => Clause(k)' = Clause(k)
  BY <1>1, <1>4, SetClauseEffect
<1>7. decision_level' = decision_level /\ recent' = recent /\ empty' = empty
      /\ \A lit : /\ True(lit)' = True(lit) /\ False(lit)' = False(lit)
                  /\ LevelOf(lit)' = LevelOf(lit)
  BY DEF trailVars, decision_level, recent, empty, True, TrueIn, False, FalseIn, LevelOf
<1>8. TrailInv' /\ AtomsOK'
  <2>1. TrailInv' BY <1>1, InvStep
  <2>2. Propagatable = {} BY <1>1, <1>2 DEF AtomsOK
  <2>3. QED BY <1>1, <2>1, <2>2, AtomsStay
<1>9. AssignmentsOK' /\ DatabaseOK' /\ ReasonsOK'
  <2>1. CASE d = c
    <3>1. asserted' = asserted /\ learned' = learned
      BY <1>1, <1>4, <2>1 DEF SetClause, Clause, ClauseLists, ClauseIds
    <3>2. Steady BY <3>1 DEF Steady, dbVars
    <3>3. QED BY <1>1, <3>2, SteadyParts
  <2>2. CASE c[1] = visit.lit \/ ~True(c[1])
    <3>1. c[1] \in Literals /\ ~True(c[1])
      BY <1>1, <1>2, <2>2, FalseLiterals
    <3>2. ASSUME NEW v \in BoolVars, var_reason[v] = id PROVE FALSE
      <4>1. id # NoReason
        <5>1. id \in Nat \ {0} BY <1>1, <1>4, ClauseTypes
        <5>2. QED BY <5>1, ReasonAssumption DEF EveryClauseMayBeReason
      <4>2. is_defined(v) /\ c[1] = TrueLiteralOf(v)
        BY <1>4, <3>2, <4>1, ReasonFacts
      <4>3. QED BY <1>1, <3>1, <4>2, TrueLiteral
    <3>3. QED BY <1>1, <1>4, <3>2, PermuteClause
  <2>3. QED BY <2>1, <2>2
<1>10. QED BY <1>5, <1>7, <1>8, <1>9

\* Two different elements.
LEMMA TwoElements ==
  ASSUME NEW x, NEW y, x # y
  PROVE  IsFiniteSet({x, y}) /\ Cardinality({x, y}) = 2
<1>1. PICK T : T = {x} BY Zenon
<1>2. IsFiniteSet(T) /\ Cardinality(T) = 1 BY <1>1, FS_Singleton
<1>3. y \notin T /\ T \cup {y} = {x, y} BY <1>1
<1>4. IsFiniteSet(T \cup {y}) /\ Cardinality(T \cup {y}) = Cardinality(T) + 1
  BY <1>2, <1>3, FS_AddElement
<1>5. QED BY <1>2, <1>3, <1>4

\* The watched positions of a clause that hold a literal.
LEMMA HitsOf ==
  ASSUME NEW c \in Seq(Literals), NEW lit
  PROVE  /\ Cardinality({p \in DOMAIN c : p <= 2 /\ c[p] = lit}) =
              (IF 1 <= Len(c) /\ c[1] = lit THEN 1 ELSE 0)
              + (IF 2 <= Len(c) /\ c[2] = lit THEN 1 ELSE 0)
         /\ IsFiniteSet({p \in DOMAIN c : p <= 2 /\ c[p] = lit})
<1> DEFINE H == {p \in DOMAIN c : p <= 2 /\ c[p] = lit}
<1>1. Len(c) \in Nat /\ DOMAIN c = 1..Len(c) OBVIOUS
<1>2. PICK a \in {0, 1} : a = IF 1 <= Len(c) /\ c[1] = lit THEN 1 ELSE 0
  OBVIOUS
<1>3. PICK b \in {0, 1} : b = IF 2 <= Len(c) /\ c[2] = lit THEN 1 ELSE 0
  OBVIOUS
<1>4. \A p : p \in H <=> (p = 1 /\ a = 1) \/ (p = 2 /\ b = 1)
  BY <1>1, <1>2, <1>3
<1>5. PICK x, y : x = 1 /\ y = 2 /\ x # y OBVIOUS
<1> HIDE DEF H
<1>6. CASE a = 1 /\ b = 1
  <2>1. H = {x, y} BY <1>4, <1>5, <1>6
  <2>2. IsFiniteSet(H) /\ Cardinality(H) = 2
    BY <1>5, <2>1, TwoElements, Zenon
  <2>3. 2 = a + b BY <1>6
  <2>4. IsFiniteSet(H) /\ Cardinality(H) = a + b BY <2>2, <2>3
  <2>5. QED BY <1>2, <1>3, <2>4 DEF H
<1>7. ASSUME NEW z, H = {z}, a + b = 1
      PROVE  IsFiniteSet(H) /\ Cardinality(H) = a + b
  BY <1>7, FS_Singleton, Zenon
<1>8. CASE a = 1 /\ b = 0
  <2>1. H = {x} /\ a + b = 1 BY <1>4, <1>5, <1>8
  <2>2. IsFiniteSet(H) /\ Cardinality(H) = a + b BY <1>7, <2>1, Zenon
  <2>3. QED BY <1>2, <1>3, <2>2 DEF H
<1>9. CASE a = 0 /\ b = 1
  <2>1. H = {y} /\ a + b = 1 BY <1>4, <1>5, <1>9
  <2>2. IsFiniteSet(H) /\ Cardinality(H) = a + b BY <1>7, <2>1, Zenon
  <2>3. QED BY <1>2, <1>3, <2>2 DEF H
<1>10. CASE a = 0 /\ b = 0
  <2>1. H = {} BY <1>4, <1>10
  <2>2. IsFiniteSet(H) /\ Cardinality(H) = 0 BY <2>1, FS_EmptySet
  <2>3. 0 = a + b BY <1>10
  <2>4. IsFiniteSet(H) /\ Cardinality(H) = a + b BY <2>2, <2>3
  <2>5. QED BY <1>2, <1>3, <2>4 DEF H
<1>11. QED BY <1>6, <1>8, <1>9, <1>10

\* Exchanging the watched literals of a clause leaves the watches right.
LEMMA SwapKeepsWatches ==
  ASSUME WatchInv, WatchesLive, UNCHANGED watched,
         asserted \in ClauseLists, learned \in ClauseLists,
         watched \in [Literals -> Seq([clause : Nat, index : Nat])],
         NEW id \in ClauseIds, NEW c \in Seq(Literals), NEW d \in Seq(Literals),
         c = Clause(id), Clause(id)' = d, ClauseIds' = ClauseIds,
         \A k \in ClauseIds : k # id => Clause(k)' = Clause(k),
         Len(d) = Len(c), Len(c) > 1,
         \/ d[1] = c[1] /\ d[2] = c[2]
         \/ d[1] = c[2] /\ d[2] = c[1]
  PROVE  WatchInv'
<1>1. ASSUME NEW lit \in Literals, NEW k \in ClauseIds
      PROVE  Cardinality({p \in DOMAIN Clause(k)' : p <= 2 /\ Clause(k)'[p] = lit})
               = Cardinality({p \in DOMAIN Clause(k) : p <= 2 /\ Clause(k)[p] = lit})
  <2>1. CASE k # id
    <3>1. Clause(k)' = Clause(k) BY <2>1
    <3>2. QED BY <3>1
  <2>2. CASE k = id
    <3> DEFINE C == Cardinality({p \in DOMAIN c : p <= 2 /\ c[p] = lit})
               D == Cardinality({p \in DOMAIN d : p <= 2 /\ d[p] = lit})
    <3>1. /\ C = (IF 1 <= Len(c) /\ c[1] = lit THEN 1 ELSE 0)
                   + (IF 2 <= Len(c) /\ c[2] = lit THEN 1 ELSE 0)
          /\ D = (IF 1 <= Len(d) /\ d[1] = lit THEN 1 ELSE 0)
                   + (IF 2 <= Len(d) /\ d[2] = lit THEN 1 ELSE 0)
      BY HitsOf, Zenon
    <3>2. 1 <= Len(c) /\ 2 <= Len(c) /\ 1 <= Len(d) /\ 2 <= Len(d)
      OBVIOUS
    <3> HIDE DEF C, D
    <3>3. C = D BY <3>1, <3>2, SMTT(30)
    <3>4. QED BY <2>2, <3>3 DEF C, D
  <2>3. QED BY <2>1, <2>2
<1>2. ASSUME NEW lit \in Literals
      PROVE  /\ \A k \in ClauseIds' :
                  Count(watched'[lit], k) =
                    Cardinality({p \in DOMAIN Clause(k)' : p <= 2 /\ Clause(k)'[p] = lit})
             /\ \A j \in DOMAIN watched'[lit] :
                  /\ watched'[lit][j].clause \in ClauseIds'
                  /\ Len(Clause(watched[lit][j].clause)') > 2 =>
                       watched'[lit][j].index \in 3..Len(Clause(watched[lit][j].clause)')
  <2>1. ASSUME NEW k \in ClauseIds'
        PROVE  Count(watched'[lit], k) =
                 Cardinality({p \in DOMAIN Clause(k)' : p <= 2 /\ Clause(k)'[p] = lit})
    <3>1. k \in ClauseIds /\ watched'[lit] = watched[lit] BY <2>1
    <3>2. Count(watched[lit], k) =
            Cardinality({p \in DOMAIN Clause(k) : p <= 2 /\ Clause(k)[p] = lit})
      BY <3>1, Zenon DEF WatchInv
    <3>3. QED BY <1>1, <3>1, <3>2, Zenon
  <2>2. ASSUME NEW j \in DOMAIN watched'[lit], NEW k, k = watched[lit][j].clause
        PROVE  /\ watched'[lit][j].clause = k /\ k \in ClauseIds'
               /\ Len(Clause(k)') > 2 => watched'[lit][j].index \in 3..Len(Clause(k)')
    <3>1. watched' = watched /\ j \in DOMAIN watched[lit] BY <2>2
    <3>2. k \in ClauseIds /\ (Len(Clause(k)) > 2 => watched[lit][j].index \in 3..Len(Clause(k)))
      BY <2>2, <3>1, Zenon DEF WatchInv
    <3>3. Len(Clause(k)') = Len(Clause(k)) BY <3>2, Zenon
    <3>4. QED BY <2>2, <3>1, <3>2, <3>3
  <2>3. QED BY <2>1, <2>2, Zenon
<1>3. QED BY <1>2, Zenon DEF WatchInv

\* The visited clause has a true literal that no backtrack undoes before the
\* visited one, or its watched literals are false at the current level only.
LEMMA VisitedWatches ==
  ASSUME LoopInv, AtWatch, NEW id, id = VisitedId, NEW d, d = VisitedClause, Len(d) > 1
  PROVE  /\ d[1] \in Literals /\ d[2] \in Literals /\ d[2] = visit.lit /\ False(d[2])
         /\ True(d[1]) => LevelOf(d[1]) <= LevelOf(d[2])
         /\ ~True(d[1]) => LevelOf(d[2]) = decision_level
         /\ False(d[1]) => LevelOf(d[1]) = decision_level /\ Awaits(d[1], id)
<1>1. PICK c : c = Clause(id) OBVIOUS
<1>2. /\ id \in ClauseIds /\ c \in Seq(Literals) /\ d \in Seq(Literals) /\ Len(c) = Len(d)
      /\ d[2] = visit.lit /\ False(d[2]) /\ pc = "watch"
      /\ d = c \/ (c[1] = visit.lit /\ d[1] = c[2])
  BY <1>1, VisitedFacts
<1>3. d[1] \in Literals /\ d[2] \in Literals BY <1>2
<1>4. TrailInv /\ BoolValued(model) /\ decision_level \in Nat
  BY InvTypes
<1>5. /\ LevelOf(d[1]) \in Int /\ LevelOf(d[2]) \in Int
      /\ ~(True(d[1]) /\ False(d[1])) /\ ~True(d[2])
      /\ True(d[1]) => LevelOf(d[1]) <= decision_level
      /\ LevelOf(d[2]) <= decision_level
  BY <1>2, <1>3, <1>4, FalseLiterals
<1>6. \A i \in {1, 2} : False(c[i]) =>
        \/ True(c[3 - i]) /\ LevelOf(c[3 - i]) <= LevelOf(c[i])
        \/ LevelOf(c[i]) = decision_level /\ Awaits(c[i], id)
  BY <1>1, <1>2 DEF LoopInv, FalseWatchesOK
<1>7. /\ False(c[1]) =>
           \/ True(c[2]) /\ LevelOf(c[2]) <= LevelOf(c[1])
           \/ LevelOf(c[1]) = decision_level /\ Awaits(c[1], id)
      /\ False(c[2]) =>
           \/ True(c[1]) /\ LevelOf(c[1]) <= LevelOf(c[2])
           \/ LevelOf(c[2]) = decision_level /\ Awaits(c[2], id)
  <2>1. 3 - 1 = 2 /\ 3 - 2 = 1 OBVIOUS
  <2>2. QED BY <1>6, <2>1
<1>8. CASE d = c BY <1>2, <1>3, <1>5, <1>7, <1>8
<1>9. CASE c[1] = visit.lit /\ d[1] = c[2]
  BY <1>2, <1>3, <1>5, <1>7, <1>9
<1>10. QED BY <1>2, <1>8, <1>9

\* What waits for a clause that is visited: the clause is false, or the
\* visited literal is not its first.
LEMMA VisitedOnStack ==
  ASSUME LoopInv, EveryClauseMayBeReason, AtWatch, NEW id, id = VisitedId,
         NEW d, d = VisitedClause, Len(d) > 1,
         NEW k \in DOMAIN satisfied, satisfied[k].reason = id
  PROVE  \/ AllFalse(d)
         \/ d = Clause(id) /\ ~False(satisfied[k].lit)
            /\ \A p \in 2..Len(d) : False(d[p])
<1>1. PICK c : c = Clause(id) OBVIOUS
<1>2. /\ id \in ClauseIds /\ c \in Seq(Literals) /\ d \in Seq(Literals) /\ Len(c) = Len(d)
      /\ ToSet(c) = ToSet(d)
      /\ d[2] = visit.lit /\ False(visit.lit) /\ pc = "watch"
      /\ d = c \/ c[1] = visit.lit
  BY <1>1, VisitedFacts
<1>3. id # NoReason
  <2>1. id \in Nat \ {0} BY <1>2, InvTypes, ClauseTypes
  <2>2. QED BY <2>1, ReasonAssumption DEF EveryClauseMayBeReason
<1>4. PICK lit : lit = satisfied[k].lit OBVIOUS
<1>5. /\ c[1] = lit /\ \A p \in 2..Len(c) : False(c[p])
      /\ False(lit) => visit.lit = lit
  BY <1>1, <1>2, <1>3, <1>4 DEF LoopInv, StackOK
<1>6. CASE False(lit)
  <2>1. \A p \in 1..Len(c) : False(c[p])
    <3>1. SUFFICES ASSUME NEW p \in 1..Len(c) PROVE False(c[p]) OBVIOUS
    <3>2. p = 1 \/ p \in 2..Len(c) BY <1>2
    <3>3. QED BY <1>5, <1>6, <3>2
  <2>2. \A p \in 1..Len(d) : False(d[p])
    <3>1. SUFFICES ASSUME NEW p \in 1..Len(d) PROVE False(d[p]) OBVIOUS
    <3>2. d[p] \in ToSet(d) BY <1>2, ElementsOf
    <3>3. PICK q \in 1..Len(c) : c[q] = d[p] BY <1>2, <3>2, ElementsOf
    <3>4. QED BY <2>1, <3>3
  <2>3. QED BY <2>2 DEF AllFalse
<1>7. CASE ~False(lit)
  <2>1. d = c BY <1>2, <1>5, <1>7
  <2>2. QED BY <1>1, <1>4, <1>5, <1>7, <2>1
<1>8. QED BY <1>6, <1>7

\* An entry of the stack is true or implied by its reason.
EntryOK(entry) ==
  LET lit == entry.lit
      id == entry.reason IN
  IF id = NoReason
    THEN True(lit)
    ELSE /\ id \in ClauseIds
         /\ Clause(id)[1] = lit
         /\ \A p \in 2..Len(Clause(id)) : False(Clause(id)[p])
         /\ ~True(lit) /\ decision_level > 0 =>
              \E p \in 2..Len(Clause(id)) : LevelOf(Clause(id)[p]) = decision_level
         /\ False(lit) => pc = "watch" /\ visit.lit = lit /\ NotVisited(id)

\* Only the clause of the visited watch has been changed, to e.
OnlyChanges(id, e) ==
  /\ asserted' \in ClauseLists /\ learned' \in ClauseLists
  /\ ClauseIds' = ClauseIds /\ Clause(id)' = e
  /\ \A k \in ClauseIds : k # id => Clause(k)' = Clause(k)
  /\ decision_level' = decision_level
  /\ \A lit : /\ True(lit)' = True(lit) /\ False(lit)' = False(lit)
              /\ LevelOf(lit)' = LevelOf(lit)

\* What waits on the stack goes on waiting while the visit goes on.
LEMMA EntriesStay ==
  ASSUME LoopInv, EveryClauseMayBeReason, AtWatch, NEW id, id = VisitedId,
         NEW d, d = VisitedClause, Len(d) > 1, ~AllFalse(d),
         NEW e, (\A p \in 2..Len(d) : False(d[p])) => e = d, OnlyChanges(id, e),
         pc' = "watch", visit'.lit = visit.lit,
         \A j \in ClauseIds : j # id /\ NotVisited(j) => NotVisited(j)',
         NEW k \in DOMAIN satisfied, NEW entry, entry = satisfied[k]
  PROVE  EntryOK(entry)'
<1>1. EntryOK(entry) /\ VisitedId \in ClauseIds /\ id \in ClauseIds
  BY VisitedFacts, Zenon DEF LoopInv, StackOK, EntryOK, AtWatch
<1>2. PICK lit, r : lit = entry.lit /\ r = entry.reason OBVIOUS
<1>3. CASE r = NoReason BY <1>1, <1>2, <1>3 DEF EntryOK, OnlyChanges
<1>4. CASE r # NoReason /\ r = id
  <2>1. d = Clause(id) /\ ~False(lit) /\ \A p \in 2..Len(d) : False(d[p])
    BY <1>2, <1>4, VisitedOnStack, Zenon
  <2>2. Clause(r)' = Clause(r) BY <1>4, <2>1 DEF OnlyChanges
  <2>3. /\ r \in ClauseIds /\ Clause(r)[1] = lit
        /\ \A p \in 2..Len(Clause(r)) : False(Clause(r)[p])
        /\ ~True(lit) /\ decision_level > 0 =>
             \E p \in 2..Len(Clause(r)) : LevelOf(Clause(r)[p]) = decision_level
    BY <1>1, <1>2, <1>4 DEF EntryOK
  <2>4. /\ r \in ClauseIds' /\ Clause(r)'[1] = lit
        /\ \A p \in 2..Len(Clause(r)') : False(Clause(r)[p])'
        /\ ~True(lit)' /\ decision_level' > 0 =>
             \E p \in 2..Len(Clause(r)') : LevelOf(Clause(r)[p])' = decision_level'
        /\ ~False(lit)'
    BY <2>1, <2>2, <2>3 DEF OnlyChanges
  <2>5. QED BY <1>2, <1>4, <2>4 DEF EntryOK
<1>5. CASE r # NoReason /\ r # id
  <2>1. /\ r \in ClauseIds /\ Clause(r)[1] = lit
        /\ \A p \in 2..Len(Clause(r)) : False(Clause(r)[p])
        /\ ~True(lit) /\ decision_level > 0 =>
             \E p \in 2..Len(Clause(r)) : LevelOf(Clause(r)[p]) = decision_level
        /\ False(lit) => visit.lit = lit /\ NotVisited(r)
    BY <1>1, <1>2, <1>5 DEF EntryOK
  <2>2. Clause(r)' = Clause(r) BY <1>5, <2>1 DEF OnlyChanges
  <2>3. /\ r \in ClauseIds' /\ Clause(r)'[1] = lit
        /\ \A p \in 2..Len(Clause(r)') : False(Clause(r)[p])'
        /\ ~True(lit)' /\ decision_level' > 0 =>
             \E p \in 2..Len(Clause(r)') : LevelOf(Clause(r)[p])' = decision_level'
        /\ False(lit)' => visit'.lit = lit /\ NotVisited(r)'
    BY <1>5, <2>1, <2>2 DEF OnlyChanges
  <2>4. QED BY <1>2, <1>5, <2>3 DEF EntryOK
<1>6. QED BY <1>3, <1>4, <1>5

\* The stack as a whole.
LEMMA StackStays ==
  ASSUME pc' = "watch", \A k \in DOMAIN satisfied' : EntryOK(satisfied[k])',
         (visit.lit \in Literals /\ False(visit.lit) /\ visit.i >= 1)'
  PROVE  StackOK'
BY DEF StackOK, EntryOK

\* The watched literals of the clauses that are not visited.
LEMMA FalseWatchesStay ==
  ASSUME LoopInv, AtWatch, NEW id, id = VisitedId, NEW e \in Seq(Literals), OnlyChanges(id, e),
         \A j \in ClauseIds : j # id => \A lit : Awaits(lit, j) => Awaits(lit, j)',
         \A i \in {1, 2} : False(e[i]) =>
           \/ True(e[3 - i]) /\ LevelOf(e[3 - i]) <= LevelOf(e[i])
           \/ LevelOf(e[i]) = decision_level /\ Awaits(e[i], id)'
  PROVE  FalseWatchesOK'
<1> SUFFICES ASSUME NEW k \in ClauseIds', NEW i \in {1, 2}, NEW c, c = Clause(k)',
                    Len(c) > 1, False(c[i])'
             PROVE  \/ True(c[3 - i])' /\ LevelOf(c[3 - i])' <= LevelOf(c[i])'
                    \/ LevelOf(c[i])' = decision_level' /\ Awaits(c[i], k)'
  BY DEF FalseWatchesOK
<1>1. k \in ClauseIds /\ decision_level' = decision_level
      /\ \A lit : /\ True(lit)' = True(lit) /\ False(lit)' = False(lit)
                  /\ LevelOf(lit)' = LevelOf(lit)
  BY DEF OnlyChanges
<1>2. CASE k = id BY <1>1, <1>2 DEF OnlyChanges
<1>3. CASE k # id
  <2>1. c = Clause(k) /\ pc = "watch"
    BY <1>1, <1>3 DEF OnlyChanges, AtWatch
  <2>2. \/ True(c[3 - i]) /\ LevelOf(c[3 - i]) <= LevelOf(c[i])
        \/ LevelOf(c[i]) = decision_level /\ Awaits(c[i], k)
    BY <1>1, <2>1 DEF LoopInv, FalseWatchesOK
  <2>3. Awaits(c[i], k) => Awaits(c[i], k)' BY <1>1, <1>3
  <2>4. QED BY <1>1, <2>2, <2>3
<1>4. QED BY <1>2, <1>3

\* Clauses of one literal are not changed.
LEMMA UnitsStay ==
  ASSUME LoopInv, AtWatch, NEW id, id = VisitedId, NEW e \in Seq(Literals), Len(e) > 1,
         OnlyChanges(id, e),
         \/ pc' = "watch" /\ \A j : ImpliedOnStack(j) => ImpliedOnStack(j)'
         \/ pc' = "conflict"
  PROVE  UnitsOK'
<1> SUFFICES ASSUME NEW k \in ClauseIds', NEW c, c = Clause(k)', Len(c) = 1
             PROVE  \/ True(c[1])' /\ LevelOf(c[1])' = 0
                    \/ /\ decision_level' = 0
                       /\ \/ pc' \in {"bcp", "watch"} /\ ImpliedOnStack(k)'
                          \/ pc' \in {"conflict", "done"}
  BY DEF UnitsOK
<1>1. k \in ClauseIds /\ k # id /\ c = Clause(k)
  <2>1. k \in ClauseIds /\ (k # id => Clause(k)' = Clause(k)) /\ Clause(id)' = e
    BY DEF OnlyChanges
  <2>2. k # id
    <3>1. SUFFICES ASSUME k = id PROVE FALSE OBVIOUS
    <3>2. c = e BY <2>1, <3>1
    <3>3. Len(e) = 1 /\ ~(1 > 1) BY <3>2
    <3>4. QED BY <3>3, Zenon
  <2>3. QED BY <2>1, <2>2
<1>2. \/ True(c[1]) /\ LevelOf(c[1]) = 0
      \/ decision_level = 0 /\ ImpliedOnStack(k)
  BY <1>1 DEF LoopInv, UnitsOK, AtWatch
<1>3. QED BY <1>2 DEF OnlyChanges

\* What the steps that leave a visited clause on the watch list share.
LEMMA VisitMost ==
  ASSUME LoopInv, EveryClauseMayBeReason, AtWatch, NEW id, id = VisitedId,
         NEW d, d = VisitedClause, Len(d) > 1, SetClause(id, d),
         UNCHANGED <<watched, trailVars, created>>, pc' \in {"watch", "conflict"}
  PROVE  /\ TrailInv' /\ AssignmentsOK' /\ DatabaseOK' /\ ReasonsOK' /\ AtomsOK'
         /\ WatchInv' /\ OnlyChanges(id, d) /\ recent' = recent
         /\ d \in Seq(Literals) /\ id \in ClauseIds /\ id \in Reasons /\ id # NoReason
         /\ Len(d) \in Nat
<1>1. PICK c : c = Clause(id) OBVIOUS
<1>2. /\ id \in ClauseIds /\ c \in Seq(Literals) /\ d \in Seq(Literals) /\ Len(c) = Len(d)
      /\ ToSet(c) = ToSet(d) /\ WatchInv /\ WatchesLive
      /\ d[2] = visit.lit /\ (d = c \/ (c[1] = visit.lit /\ d[1] = c[2]))
  BY <1>1, VisitedFacts
<1>3. /\ TrailInv' /\ AssignmentsOK' /\ DatabaseOK' /\ ReasonsOK' /\ AtomsOK'
      /\ asserted' \in ClauseLists /\ learned' \in ClauseLists
      /\ ClauseIds' = ClauseIds /\ Clause(id)' = d
      /\ \A k \in ClauseIds : k # id => Clause(k)' = Clause(k)
      /\ decision_level' = decision_level /\ recent' = recent
      /\ \A lit : /\ True(lit)' = True(lit) /\ False(lit)' = False(lit)
                  /\ LevelOf(lit)' = LevelOf(lit)
  BY <1>1, <1>2, VisitPermutes
<1>4. watched \in [Literals -> Seq([clause : Nat, index : Nat])]
      /\ asserted \in ClauseLists /\ learned \in ClauseLists
  BY DEF LoopInv, SolverTypeOK
<1>5. \/ d[1] = c[1] /\ d[2] = c[2]
      \/ d[1] = c[2] /\ d[2] = c[1]
  <2>1. d[2] = visit.lit BY VisitedFacts
  <2>2. QED BY <1>2, <2>1
<1>6. WatchInv' BY <1>1, <1>2, <1>3, <1>4, <1>5, SwapKeepsWatches, Zenon
<1>7. id \in Reasons /\ id # NoReason
  <2>1. id \in Nat \ {0} BY <1>2, <1>4, ClauseTypes
  <2>2. QED BY <2>1, ReasonAssumption DEF EveryClauseMayBeReason
<1>8. QED BY <1>2, <1>3, <1>6, <1>7 DEF OnlyChanges

\* The next watch of the visit: other clauses stay unvisited.
LEMMA NextVisit ==
  ASSUME LoopInv, AtWatch, NEW id, id = VisitedId,
         UNCHANGED watched, visit' = [visit EXCEPT !.i = @ + 1]
  PROVE  /\ visit'.lit = visit.lit /\ visit'.i = visit.i + 1 /\ visit.i \in Nat /\ visit.i >= 1
         /\ visit' \in [lit : Literals \cup {0}, i : Nat]
         /\ \A j : j # id /\ NotVisited(j) => NotVisited(j)'
<1>1. visit \in [lit : Literals \cup {0}, i : Nat] /\ visit.i >= 1
  BY DEF LoopInv, SolverTypeOK, StackOK, AtWatch
<1>2. visit'.lit = visit.lit /\ visit'.i = visit.i + 1 /\ visit.i \in Nat
      /\ visit' \in [lit : Literals \cup {0}, i : Nat]
  BY <1>1
<1>3. Visited' = Visited BY <1>2 DEF Visited
<1>4. DOMAIN Visited = 1..Len(Visited) /\ Len(Visited) \in Nat
  BY VisitedFacts
<1>5. ASSUME NEW j, j # id, NotVisited(j) PROVE NotVisited(j)'
  <2>1. SUFFICES ASSUME NEW k \in DOMAIN Visited', k < visit'.i PROVE Visited'[k].clause # j
    BY DEF NotVisited
  <2>2. k \in DOMAIN Visited /\ (k < visit.i \/ k = visit.i)
    BY <1>2, <1>3, <1>4, <2>1
  <2>3. CASE k < visit.i BY <1>3, <1>5, <2>2, <2>3 DEF NotVisited
  <2>4. CASE k = visit.i BY <1>3, <1>5, <2>4 DEF VisitedId
  <2>5. QED BY <2>2, <2>3, <2>4
<1>6. QED BY <1>1, <1>2, <1>5

\* The invariant when the other watched literal of the clause is true.
LEMMA SkipSatisfiedStep ==
  ASSUME LoopInv, EveryClauseMayBeReason, BoolStep, SkipSatisfied
  PROVE  LoopInv'
<1>1. PICK id, d : id = VisitedId /\ d = VisitedClause OBVIOUS
<1>2. /\ AtWatch /\ pc = "watch" /\ pc' = "watch" /\ Len(d) > 1 /\ True(d[1]) /\ SetClause(id, d)
      /\ visit' = [visit EXCEPT !.i = @ + 1]
      /\ UNCHANGED <<conflicts, watched, satisfied, phase, cursor, trailVars, analysisVars,
                     lraVars, loopVars>>
  BY <1>1 DEF SkipSatisfied, AtWatch, BoolStep, loopVars
<1>3. /\ TrailInv' /\ AssignmentsOK' /\ DatabaseOK' /\ ReasonsOK' /\ AtomsOK'
      /\ WatchInv' /\ OnlyChanges(id, d) /\ recent' = recent
      /\ d \in Seq(Literals) /\ id \in ClauseIds
  BY <1>1, <1>2, VisitMost DEF lraVars
<1>4. /\ visit'.lit = visit.lit /\ visit'.i = visit.i + 1 /\ visit.i \in Nat /\ visit.i >= 1
      /\ visit' \in [lit : Literals \cup {0}, i : Nat]
      /\ \A j : j # id /\ NotVisited(j) => NotVisited(j)'
  BY <1>1, <1>2, NextVisit
<1>5. /\ d[1] \in Literals /\ d[2] \in Literals /\ d[2] = visit.lit /\ False(d[2])
      /\ LevelOf(d[1]) <= LevelOf(d[2])
  BY <1>1, <1>2, VisitedWatches
<1>6. ~False(d[1]) BY <1>2, <1>5, InvTypes, FalseLiterals
<1>7. SolverTypeOK'
  BY <1>2, <1>3, <1>4, Zenon
     DEF LoopInv, SolverTypeOK, ProgramPoints, OnlyChanges, trailVars,
     analysisVars, lraVars, loopVars, TrailInv
<1>8. FalseWatchesOK'
  <2>1. \A j \in ClauseIds : j # id => \A lit : Awaits(lit, j) => Awaits(lit, j)'
    BY <1>2, <1>4 DEF Awaits, OnStack, ImpliedOnStack
  <2>2. \A i \in {1, 2} : False(d[i]) =>
           \/ True(d[3 - i]) /\ LevelOf(d[3 - i]) <= LevelOf(d[i])
           \/ LevelOf(d[i]) = decision_level /\ Awaits(d[i], id)'
    <3>1. 3 - 2 = 1 OBVIOUS
    <3>2. QED BY <1>2, <1>5, <1>6, <3>1
  <2>3. QED BY <1>1, <1>2, <1>3, <2>1, <2>2, FalseWatchesStay
<1>9. UnitsOK' BY <1>1, <1>2, <1>3, UnitsStay DEF ImpliedOnStack
<1>10. StackOK'
  <2>1. ~AllFalse(d)
    <3>1. 1 \in 1..Len(d) BY <1>2, <1>3
    <3>2. QED BY <1>6, <3>1 DEF AllFalse
  <2>2. ASSUME NEW k \in DOMAIN satisfied' PROVE EntryOK(satisfied[k])'
    <3>1. PICK entry : entry = satisfied[k] /\ entry = satisfied'[k] /\ k \in DOMAIN satisfied
      BY <1>2, <2>2
    <3>2. EntryOK(entry)'
      BY <1>1, <1>2, <1>3, <1>4, <2>1, <3>1, EntriesStay
    <3>3. QED BY <3>1, <3>2 DEF EntryOK
  <2>3. (visit.lit \in Literals /\ False(visit.lit) /\ visit.i >= 1)'
    BY <1>3, <1>4, <1>5 DEF OnlyChanges
  <2>4. QED BY <1>2, <2>2, <2>3, StackStays
<1>11. CursorOK'
  BY <1>2, <1>3 DEF LoopInv, CursorOK, OnlyChanges, loopVars
<1>12. ConflictsOK' /\ LemmasOK'
  BY <1>2 DEF LoopInv, ConflictsOK, LemmasOK, analysisVars
<1>13. QED BY <1>2, <1>3, <1>7, <1>8, <1>9, <1>10, <1>11, <1>12, InvTypes, Elsewhere DEF LoopInv, loopVars

\* The invariant when the visited clause is found false.
LEMMA FindFalseStep ==
  ASSUME LoopInv, EveryClauseMayBeReason, BoolStep, FindFalse
  PROVE  LoopInv'
<1>1. PICK id, d : id = VisitedId /\ d = VisitedClause OBVIOUS
<1>2. /\ AtWatch /\ pc = "watch" /\ pc' = "conflict" /\ Len(d) > 1 /\ ~True(d[1]) /\ False(d[1])
      /\ SetClause(id, d) /\ Replacements(d) = {} /\ visit' = NoVisit /\ conflicts' = <<d>>
      /\ UNCHANGED <<watched, satisfied, phase, cursor, trailVars, analysisVars, lraVars, loopVars>>
  BY <1>1 DEF FindFalse, Exhausted, AtWatch, BoolStep, loopVars
<1>3. /\ TrailInv' /\ AssignmentsOK' /\ DatabaseOK' /\ ReasonsOK' /\ AtomsOK'
      /\ WatchInv' /\ OnlyChanges(id, d) /\ recent' = recent
      /\ d \in Seq(Literals) /\ id \in ClauseIds
  BY <1>1, <1>2, VisitMost DEF lraVars
<1>4. /\ d[1] \in Literals /\ d[2] \in Literals /\ False(d[2])
      /\ LevelOf(d[1]) = decision_level /\ LevelOf(d[2]) = decision_level
  BY <1>1, <1>2, VisitedWatches
<1>5. AllFalse(d)
  <2>1. SUFFICES ASSUME NEW p \in 1..Len(d) PROVE False(d[p])
    BY DEF AllFalse
  <2>2. p = 1 \/ p = 2 \/ p \in 3..Len(d) BY <1>3
  <2>3. p \in 3..Len(d) => False(d[p]) BY <1>2 DEF Replacements
  <2>4. QED BY <1>2, <1>4, <2>2, <2>3
<1>6. conflicts' \in ClauseLists /\ Len(conflicts') = 1 /\ conflicts'[1] = d /\ conflicts' # << >>
  BY <1>2, <1>3 DEF ClauseLists
<1>7. SolverTypeOK'
  BY <1>2, <1>3, <1>6, Zenon
     DEF LoopInv, SolverTypeOK, ProgramPoints, OnlyChanges, trailVars,
     analysisVars, lraVars, loopVars, TrailInv, NoVisit
<1>8. FalseWatchesOK'
  <2>1. \A lit, j : Awaits(lit, j)' BY <1>2 DEF Awaits
  <2>2. \A i \in {1, 2} : False(d[i]) =>
           \/ True(d[3 - i]) /\ LevelOf(d[3 - i]) <= LevelOf(d[i])
           \/ LevelOf(d[i]) = decision_level /\ Awaits(d[i], id)'
    BY <1>4, <2>1
  <2>3. QED BY <1>1, <1>2, <1>3, <2>1, <2>2, FalseWatchesStay
<1>9. UnitsOK' BY <1>1, <1>2, <1>3, UnitsStay
<1>10. CursorOK'
  BY <1>2, <1>3 DEF LoopInv, CursorOK, OnlyChanges, loopVars
<1>11. ConflictsOK'
  <2>1. AllFalse(d)' BY <1>3, <1>5 DEF AllFalse, OnlyChanges
  <2>2. AllFalse(conflicts[1])' BY <1>6, <2>1 DEF AllFalse
  <2>3. QED BY <1>2, <1>6, <2>2 DEF LoopInv, ConflictsOK, analysisVars
<1>12. LemmasOK' BY <1>2 DEF LoopInv, LemmasOK, analysisVars
<1>13. QED BY <1>2, <1>3, <1>7, <1>8, <1>9, <1>10, <1>11, <1>12, InvTypes, Elsewhere DEF LoopInv, loopVars

\* The invariant when the visited clause is found to be unit.
LEMMA FindUnitStep ==
  ASSUME LoopInv, EveryClauseMayBeReason, BoolStep, FindUnit
  PROVE  LoopInv'
<1>1. PICK id, d : id = VisitedId /\ d = VisitedClause OBVIOUS
<1>2. PICK new : new = [lit |-> d[1], reason |-> id] BY Zenon
<1>3. /\ AtWatch /\ pc = "watch" /\ pc' = "watch" /\ Len(d) > 1 /\ ~True(d[1]) /\ ~False(d[1])
      /\ SetClause(id, d) /\ Replacements(d) = {} /\ visit' = [visit EXCEPT !.i = @ + 1]
      /\ satisfied' = Append(satisfied, new)
      /\ UNCHANGED <<conflicts, watched, phase, cursor, trailVars, analysisVars, lraVars, loopVars>>
  BY <1>1, <1>2 DEF FindUnit, Exhausted, AtWatch, BoolStep, loopVars
<1>4. /\ TrailInv' /\ AssignmentsOK' /\ DatabaseOK' /\ ReasonsOK' /\ AtomsOK'
      /\ WatchInv' /\ OnlyChanges(id, d) /\ recent' = recent
      /\ d \in Seq(Literals) /\ id \in ClauseIds /\ id \in Reasons /\ id # NoReason
      /\ Len(d) \in Nat
  BY <1>1, <1>3, VisitMost DEF lraVars
<1>5. /\ visit'.lit = visit.lit /\ visit'.i = visit.i + 1 /\ visit.i \in Nat /\ visit.i >= 1
      /\ visit' \in [lit : Literals \cup {0}, i : Nat]
      /\ \A j : j # id /\ NotVisited(j) => NotVisited(j)'
  BY <1>1, <1>3, NextVisit
<1>6. /\ d[1] \in Literals /\ d[2] \in Literals /\ d[2] = visit.lit /\ False(d[2])
      /\ LevelOf(d[2]) = decision_level
  BY <1>1, <1>3, VisitedWatches
<1>7. \A p \in 2..Len(d) : False(d[p])
  <2>1. SUFFICES ASSUME NEW p \in 2..Len(d) PROVE False(d[p]) OBVIOUS
  <2>2. p = 2 \/ p \in 3..Len(d) BY <1>4
  <2>3. p \in 3..Len(d) => False(d[p]) BY <1>3 DEF Replacements
  <2>4. QED BY <1>6, <2>2, <2>3
<1>8. PICK S : S = [lit : Literals, reason : Reasons \cup {NoReason}]
  BY Zenon
<1>9. /\ satisfied \in Seq(S) /\ satisfied' \in Seq(S) /\ Len(satisfied') = Len(satisfied) + 1
      /\ Len(satisfied) \in Nat /\ satisfied'[Len(satisfied) + 1] = new
      /\ \A k \in 1..Len(satisfied) : satisfied'[k] = satisfied[k]
  <2>1. satisfied \in Seq(S) /\ new \in S
    BY <1>2, <1>4, <1>6, <1>8 DEF LoopInv, SolverTypeOK
  <2>2. QED BY <1>3, <2>1, AppendEffect
<1>10. /\ DOMAIN satisfied = 1..Len(satisfied) /\ DOMAIN satisfied' = 1..(Len(satisfied) + 1)
       /\ \A k \in DOMAIN satisfied : k \in DOMAIN satisfied'
       /\ \A k \in DOMAIN satisfied' : k \in DOMAIN satisfied \/ k = Len(satisfied) + 1
       /\ Len(satisfied) + 1 \in DOMAIN satisfied'
  BY <1>9
<1>11. /\ \A lit : OnStack(lit) => OnStack(lit)'
       /\ \A j : ImpliedOnStack(j) => ImpliedOnStack(j)'
       /\ ImpliedOnStack(id)'
  <2>1. new.reason = id BY <1>2
  <2>2. QED BY <1>9, <1>10, <2>1 DEF OnStack, ImpliedOnStack
<1>12. SolverTypeOK'
  BY <1>3, <1>4, <1>5, <1>8, <1>9, Zenon
     DEF LoopInv, SolverTypeOK, ProgramPoints, OnlyChanges, trailVars,
     analysisVars, lraVars, loopVars, TrailInv
<1>13. FalseWatchesOK'
  <2>1. \A j \in ClauseIds : j # id => \A lit : Awaits(lit, j) => Awaits(lit, j)'
    BY <1>3, <1>5, <1>11 DEF Awaits
  <2>2. \A lit : Awaits(lit, id)' BY <1>3, <1>11 DEF Awaits
  <2>3. \A i \in {1, 2} : False(d[i]) =>
           \/ True(d[3 - i]) /\ LevelOf(d[3 - i]) <= LevelOf(d[i])
           \/ LevelOf(d[i]) = decision_level /\ Awaits(d[i], id)'
    BY <1>3, <1>6, <2>2
  <2>4. QED BY <1>1, <1>3, <1>4, <2>1, <2>3, FalseWatchesStay
<1>14. UnitsOK' BY <1>1, <1>3, <1>4, <1>11, UnitsStay
<1>15. StackOK'
  <2>1. ~AllFalse(d)
    <3>1. 1 \in 1..Len(d) BY <1>3, <1>4
    <3>2. QED BY <1>3, <3>1 DEF AllFalse
  <2>2. ASSUME NEW k \in DOMAIN satisfied' PROVE EntryOK(satisfied[k])'
    <3>1. CASE k \in DOMAIN satisfied
      <4>1. PICK entry : entry = satisfied[k] /\ entry = satisfied'[k]
        BY <1>9, <1>10, <3>1
      <4>2. EntryOK(entry)'
        BY <1>1, <1>3, <1>4, <1>5, <2>1, <3>1, <4>1, EntriesStay
      <4>3. QED BY <4>1, <4>2 DEF EntryOK
    <3>2. CASE k = Len(satisfied) + 1
      <4>1. satisfied'[k].lit = d[1] /\ satisfied'[k].reason = id
        BY <1>2, <1>9, <3>2
      <4>2. 2 \in 2..Len(d) BY <1>3, <1>4
      <4>3. /\ id \in ClauseIds' /\ Clause(id)' = d
            /\ \A p \in 2..Len(d) : False(d[p])'
            /\ LevelOf(d[2])' = decision_level'
            /\ ~False(d[1])'
        BY <1>3, <1>4, <1>6, <1>7 DEF OnlyChanges
      <4>4. QED BY <1>4, <4>1, <4>2, <4>3 DEF EntryOK
    <3>3. QED BY <1>10, <3>1, <3>2
  <2>3. (visit.lit \in Literals /\ False(visit.lit) /\ visit.i >= 1)'
    BY <1>4, <1>5, <1>6 DEF OnlyChanges
  <2>4. QED BY <1>3, <2>2, <2>3, StackStays
<1>16. CursorOK'
  BY <1>3, <1>4 DEF LoopInv, CursorOK, OnlyChanges, loopVars
<1>17. ConflictsOK' /\ LemmasOK'
  BY <1>3 DEF LoopInv, ConflictsOK, LemmasOK, analysisVars
<1>18. QED BY <1>3, <1>4, <1>12, <1>13, <1>14, <1>15, <1>16, <1>17, InvTypes, Elsewhere DEF LoopInv, loopVars

-----------------------------------------------------------------------------
(* Moving a watch.                                                         *)

\* A list that loses an entry: its last one takes its place.
Removed(s, i) == Front([s EXCEPT ![i] = Last(s)])

\* An entry is removed by putting the last one in its place.
LEMMA RemovedEntry ==
  ASSUME NEW S, NEW s \in Seq(S), NEW i \in 1..Len(s), NEW t, t = Removed(s, i)
  PROVE  /\ t \in Seq(S) /\ Len(t) = Len(s) - 1 /\ Len(s) \in Nat \ {0}
         /\ DOMAIN s = 1..Len(s) /\ DOMAIN t = 1..(Len(s) - 1)
         /\ \A k \in 1..(Len(s) - 1) : (k = i => t[k] = s[Len(s)]) /\ (k # i => t[k] = s[k])
<1>1. PICK n \in Nat \ {0} : n = Len(s) OBVIOUS
<1>2. PICK u : u = [s EXCEPT ![i] = Last(s)] BY Zenon
<1>3. Last(s) = s[n] /\ s[n] \in S BY <1>1 DEF Last
<1>4. u \in Seq(S) /\ Len(u) = n /\ \A k \in 1..n : u[k] = IF k = i THEN s[n] ELSE s[k]
  BY <1>1, <1>2, <1>3
<1>5. t \in Seq(S) /\ Len(t) = n - 1 /\ DOMAIN t = 1..(n - 1)
      /\ \A k \in 1..(n - 1) : t[k] = u[k]
  <2>1. t = Front(u) /\ Len(u) # 0 BY <1>2, <1>4 DEF Removed
  <2>2. QED BY <1>4, <2>1, FrontEffect, ZenonT(40)
<1>9. t \in Seq(S) /\ Len(t) = n - 1 /\ DOMAIN t = 1..(n - 1) BY <1>5
<1>10. ASSUME NEW k \in 1..(n - 1) PROVE (k = i => t[k] = s[n]) /\ (k # i => t[k] = s[k])
  <2>1. t[k] = u[k] /\ k \in 1..n
    <3>1. k \in 1..n BY <1>1
    <3>2. QED BY <1>5, <3>1
  <2>2. QED BY <1>4, <2>1
<1>11. DOMAIN s = 1..n BY <1>1
<1>12. QED BY <1>1, <1>9, <1>10, <1>11

\* Removing an entry takes one from the count of its clause.
LEMMA CountRemoved ==
  ASSUME NEW S, NEW s \in Seq(S), NEW i \in 1..Len(s),
         NEW t, t = Removed(s, i), NEW id
  PROVE  Count(t, id) = Count(s, id) - (IF s[i].clause = id THEN 1 ELSE 0)
<1>1. PICK n \in Nat \ {0} : n = Len(s) OBVIOUS
<1>2. /\ DOMAIN s = 1..n /\ DOMAIN t = 1..(n - 1)
      /\ \A k \in 1..(n - 1) : (k = i => t[k] = s[n]) /\ (k # i => t[k] = s[k])
  <2>1. /\ t \in Seq(S) /\ Len(t) = Len(s) - 1 /\ Len(s) \in Nat \ {0}
        /\ DOMAIN s = 1..Len(s) /\ DOMAIN t = 1..(Len(s) - 1)
        /\ \A k \in 1..(Len(s) - 1) : (k = i => t[k] = s[Len(s)]) /\ (k # i => t[k] = s[k])
    BY RemovedEntry
  <2>2. QED BY <1>1, <2>1
<1> DEFINE A == {k \in DOMAIN s : s[k].clause = id}
           B == {k \in DOMAIN t : t[k].clause = id}
           C == A \ {i, n}
<1>3. Count(s, id) = Cardinality(A) /\ Count(t, id) = Cardinality(B)
  BY DEF Count
<1>4. IsFiniteSet(A)
  <2>1. IsFiniteSet(1..n) BY <1>1, FS_Interval
  <2>2. A \subseteq 1..n BY <1>2
  <2>3. QED BY <2>1, <2>2, FS_Subset
<1>5. /\ \A k : k \in A <=> k \in 1..n /\ s[k].clause = id
      /\ \A k : k \in B <=> ((k \in 1..(n - 1) /\ k # i /\ s[k].clause = id) \/ (k = i /\ i # n /\ s[n].clause = id))
      /\ i \in 1..n
  <2>1. i \in 1..n BY <1>1
  <2>2. \A k : k \in A <=> k \in 1..n /\ s[k].clause = id BY <1>2
  <2>3. ASSUME NEW k
        PROVE  k \in B <=> ((k \in 1..(n - 1) /\ k # i /\ s[k].clause = id) \/ (k = i /\ i # n /\ s[n].clause = id))
    <3>1. k \in B <=> k \in 1..(n - 1) /\ t[k].clause = id BY <1>2
    <3>2. CASE k = i
      <4>1. k \in 1..(n - 1) <=> i # n BY <2>1, <3>2
      <4>2. k \in 1..(n - 1) => t[k] = s[n] BY <1>2, <3>2
      <4>3. QED BY <3>1, <3>2, <4>1, <4>2
    <3>3. CASE k # i
      <4>1. k \in 1..(n - 1) => t[k] = s[k] BY <1>2, <3>3
      <4>2. QED BY <3>1, <3>3, <4>1
    <3>4. QED BY <3>2, <3>3
  <2>4. QED BY <2>1, <2>2, <2>3
<1> HIDE DEF A, B
<1>6. Cardinality(A) \in Nat BY <1>4, FS_CardinalityType
<1>7. CASE i = n
  <2>1. B = A \ {n} BY <1>5, <1>7
  <2>2. Cardinality(B) = IF n \in A THEN Cardinality(A) - 1 ELSE Cardinality(A)
    BY <1>4, <2>1, FS_RemoveElement, Zenon
  <2>3. n \in A <=> s[i].clause = id BY <1>5, <1>7
  <2>4. QED BY <1>3, <1>6, <2>2, <2>3
<1>8. CASE i # n /\ s[n].clause = id
  <2>1. B = (A \ {n}) \cup {i} BY <1>5, <1>8
  <2>2. IsFiniteSet(A \ {n}) /\ Cardinality(A \ {n}) = Cardinality(A) - 1
    <3>1. n \in A BY <1>5, <1>8
    <3>2. QED BY <1>4, <3>1, FS_RemoveElement
  <2>3. Cardinality(B) = IF i \in A \ {n} THEN Cardinality(A \ {n}) ELSE Cardinality(A \ {n}) + 1
    BY <2>1, <2>2, FS_AddElement, Zenon
  <2>4. i \in A \ {n} <=> s[i].clause = id BY <1>5, <1>8
  <2>5. QED BY <1>3, <1>6, <2>2, <2>3, <2>4
<1>9. CASE i # n /\ s[n].clause # id
  <2>1. B = A \ {i} BY <1>5, <1>9
  <2>2. Cardinality(B) = IF i \in A THEN Cardinality(A) - 1 ELSE Cardinality(A)
    BY <1>4, <2>1, FS_RemoveElement, Zenon
  <2>3. i \in A <=> s[i].clause = id BY <1>5
  <2>4. QED BY <1>3, <1>6, <2>2, <2>3
<1>10. QED BY <1>7, <1>8, <1>9

\* The search for a literal to watch finds one that is not false.
LEMMA ReplacementFound ==
  ASSUME NEW c \in Seq(Literals), NEW index \in Int, Replacements(c) # {}
  PROVE  FirstReplacement(c, index) \in Replacements(c)
<1> DEFINE n == Len(c) - 2
           Dist(p) == (p - index) % n
           T == {Dist(p) : p \in Replacements(c)}
<1>1. Replacements(c) \subseteq 3..Len(c) /\ n \in Nat \ {0}
  BY DEF Replacements
<1>2. \A p \in Replacements(c) : Dist(p) \in Nat BY <1>1
<1>3. T \in SUBSET Nat /\ T # {}
  <2> HIDE DEF Dist
  <2>1. QED BY <1>2
<1>4. PICK d \in T : \A y \in T : d <= y
  <2> HIDE DEF T
  <2>1. QED BY <1>3, LeastNatural
<1>5. PICK p \in Replacements(c) : d = Dist(p) BY <1>4
<1>6. \A q \in Replacements(c) : Dist(p) <= Dist(q)
  <2> HIDE DEF Dist
  <2>1. QED BY <1>4, <1>5
<1>7. QED BY <1>5, <1>6, Zenon DEF FirstReplacement

\* The watched positions of clause e are those of c, but for one that has lit
\* instead of w.
HitsMoved(c, e, lit, w) ==
  \A x : Cardinality({q \in DOMAIN e : q <= 2 /\ e[q] = x}) =
           Cardinality({q \in DOMAIN c : q <= 2 /\ c[q] = x})
             + (IF x = lit THEN 1 ELSE 0) - (IF x = w THEN 1 ELSE 0)

\* Watching another literal moves one watch of the clause.
LEMMA HitsMove ==
  ASSUME NEW c \in Seq(Literals), NEW d \in Seq(Literals), NEW e \in Seq(Literals),
         Len(d) = Len(c), Len(e) = Len(c), Len(c) > 2,
         (d[1] = c[1] /\ d[2] = c[2]) \/ (d[1] = c[2] /\ d[2] = c[1]),
         NEW w, NEW lit, lit # w, e[1] = d[1], e[2] = lit, d[2] = w
  PROVE  HitsMoved(c, e, lit, w)
<1> SUFFICES ASSUME NEW x
             PROVE  Cardinality({q \in DOMAIN e : q <= 2 /\ e[q] = x}) =
                      Cardinality({q \in DOMAIN c : q <= 2 /\ c[q] = x})
                        + (IF x = lit THEN 1 ELSE 0) - (IF x = w THEN 1 ELSE 0)
  BY Zenon DEF HitsMoved
<1> DEFINE C == Cardinality({q \in DOMAIN c : q <= 2 /\ c[q] = x})
           E == Cardinality({q \in DOMAIN e : q <= 2 /\ e[q] = x})
<1>1. /\ C = (IF 1 <= Len(c) /\ c[1] = x THEN 1 ELSE 0)
               + (IF 2 <= Len(c) /\ c[2] = x THEN 1 ELSE 0)
      /\ E = (IF 1 <= Len(e) /\ e[1] = x THEN 1 ELSE 0)
               + (IF 2 <= Len(e) /\ e[2] = x THEN 1 ELSE 0)
  BY HitsOf, Zenon
<1>2. 1 <= Len(c) /\ 2 <= Len(c) /\ 1 <= Len(e) /\ 2 <= Len(e) OBVIOUS
<1> HIDE DEF C, E
<1>3. E = C + (IF x = lit THEN 1 ELSE 0) - (IF x = w THEN 1 ELSE 0)
  BY <1>1, <1>2
<1>4. QED BY <1>3 DEF C, E

\* From the lists W to the lists U: an entry leaves the list of w, another one
\* of the same clause joins the list of lit.
Moved(S, W, U, w, i, lit, new, id) ==
  /\ W \in [Literals -> Seq(S)]
  /\ w \in Literals /\ lit \in Literals /\ lit # w
  /\ new \in S /\ i \in 1..Len(W[w]) /\ W[w][i].clause = id /\ new.clause = id
  /\ U[lit] = Append(W[lit], new)
  /\ U[w] = Removed(W[w], i)
  /\ \A x \in Literals : x # lit /\ x # w => U[x] = W[x]

\* Clause id is watched by lit once more in U than in W, and by w once less.
CountsMoved(W, U, w, lit, id) ==
  \A x \in Literals : \A k :
    /\ Count(W[x], k) \in Nat
    /\ Count(U[x], k) =
         Count(W[x], k) + (IF x = lit /\ k = id THEN 1 ELSE 0)
                        - (IF x = w /\ k = id THEN 1 ELSE 0)

\* Moving an entry changes the counts of the two lists by one.
LEMMA MovedCounts ==
  ASSUME NEW S, NEW W, NEW U, NEW w, NEW i, NEW lit, NEW new, NEW id, Moved(S, W, U, w, i, lit, new, id)
  PROVE  CountsMoved(W, U, w, lit, id)
<1> SUFFICES ASSUME NEW x \in Literals, NEW k
             PROVE  /\ Count(W[x], k) \in Nat
                    /\ Count(U[x], k) =
                         Count(W[x], k) + (IF x = lit /\ k = id THEN 1 ELSE 0)
                                        - (IF x = w /\ k = id THEN 1 ELSE 0)
  BY Zenon DEF CountsMoved
<1>1. PICK s \in Seq(S) : s = W[x] /\ new \in S /\ lit # w /\ new.clause = id
  BY DEF Moved
<1>2. Count(s, k) \in Nat /\ Count(Append(s, new), k) = Count(s, k) + (IF new.clause = k THEN 1 ELSE 0)
  BY <1>1, CountAppend
<1>3. CASE x = lit
  <2>1. U[x] = Append(s, new) BY <1>1, <1>3 DEF Moved
  <2>2. QED BY <1>1, <1>2, <1>3, <2>1
<1>4. CASE x = w
  <2>1. U[x] = Removed(s, i) /\ i \in 1..Len(s) /\ s[i].clause = id
    BY <1>1, <1>4 DEF Moved
  <2>2. PICK t : t = Removed(s, i) OBVIOUS
  <2>3. Count(t, k) = Count(s, k) - (IF s[i].clause = k THEN 1 ELSE 0)
    BY <2>1, <2>2, CountRemoved
  <2>4. QED BY <1>1, <1>2, <1>4, <2>1, <2>2, <2>3
<1>5. CASE x # lit /\ x # w
  <2>1. U[x] = s BY <1>1, <1>5 DEF Moved
  <2>2. QED BY <1>1, <1>2, <1>5, <2>1
<1>6. QED BY <1>3, <1>4, <1>5

\* Entries of the changed lists are old ones, but for the new one.
LEMMA MovedEntries ==
  ASSUME NEW S, NEW W, NEW U, NEW w, NEW i, NEW lit, NEW new, NEW id, Moved(S, W, U, w, i, lit, new, id)
  PROVE  \A x \in Literals :
           /\ U[x] \in Seq(S)
           /\ \A j \in DOMAIN U[x] :
                U[x][j] = new \/ \E k \in DOMAIN W[x] : U[x][j] = W[x][k]
           /\ x = w => \A j \in 1..(i - 1) : j \in DOMAIN U[x] => U[x][j] = W[x][j]
<1> SUFFICES ASSUME NEW x \in Literals
             PROVE  /\ U[x] \in Seq(S)
                    /\ \A j \in DOMAIN U[x] :
                         U[x][j] = new \/ \E k \in DOMAIN W[x] : U[x][j] = W[x][k]
                    /\ x = w => \A j \in 1..(i - 1) : j \in DOMAIN U[x] => U[x][j] = W[x][j]
  OBVIOUS
<1>1. PICK s \in Seq(S) : s = W[x] /\ new \in S /\ lit # w /\ new.clause = id
  BY DEF Moved
<1>2. PICK n \in Nat : n = Len(s) /\ DOMAIN s = 1..n OBVIOUS
<1>3. CASE x = lit
  <2>1. PICK t : t = Append(s, new) /\ U[x] = t BY <1>1, <1>3 DEF Moved
  <2>2. /\ t \in Seq(S) /\ Len(t) = n + 1 /\ t[n + 1] = new
        /\ \A k \in 1..n : t[k] = s[k]
    <3>1. /\ Append(s, new) \in Seq(S) /\ Len(Append(s, new)) = Len(s) + 1
          /\ Append(s, new)[Len(s) + 1] = new
          /\ \A k \in 1..Len(s) : Append(s, new)[k] = s[k]
      BY <1>1, AppendEffect
    <3>2. QED BY <1>2, <2>1, <3>1
  <2>3. DOMAIN t = 1..(n + 1) BY <2>2
  <2>4. \A j \in 1..(n + 1) : j \in 1..n \/ j = n + 1 OBVIOUS
  <2>5. QED BY <1>1, <1>2, <1>3, <2>1, <2>2, <2>3, <2>4
<1>4. CASE x = w
  <2>1. PICK t : t = Removed(s, i) /\ U[x] = t BY <1>1, <1>4 DEF Moved
  <2>2. i \in 1..Len(s) BY <1>1, <1>4 DEF Moved
  <2>3. /\ t \in Seq(S) /\ Len(t) = Len(s) - 1 /\ Len(s) \in Nat \ {0}
        /\ DOMAIN s = 1..Len(s) /\ DOMAIN t = 1..(Len(s) - 1)
        /\ \A k \in 1..(Len(s) - 1) : (k = i => t[k] = s[Len(s)]) /\ (k # i => t[k] = s[k])
    BY <2>1, <2>2, RemovedEntry
  <2>4. \A j \in 1..(n - 1) : j \in 1..n /\ n \in 1..n OBVIOUS
  <2>5. i \in 1..n /\ \A j \in 1..(i - 1) : j # i BY <1>2, <2>2
  <2>6. ASSUME NEW j \in 1..(n - 1) PROVE \E k \in 1..n : t[j] = s[k]
    BY <1>2, <2>3, <2>4
  <2>7. DOMAIN t = 1..(n - 1) /\ n \in Nat BY <1>2, <2>3
  <2>8. \A j \in DOMAIN t : \E k \in DOMAIN s : t[j] = s[k]
    BY <1>2, <2>6, <2>7, Zenon
  <2>9. \A j \in 1..(i - 1) : j \in DOMAIN t => t[j] = s[j]
    BY <1>2, <2>3, <2>5
  <2>10. QED BY <1>1, <2>1, <2>3, <2>8, <2>9
<1>5. CASE x # lit /\ x # w
  <2>1. U[x] = s BY <1>1, <1>5 DEF Moved
  <2>2. QED BY <1>1, <1>5, <2>1
<1>6. QED BY <1>3, <1>4, <1>5

\* The watch of position 2 moves to the list of the literal that is put there.
LEMMA WatchMoves ==
  ASSUME WatchInv, WatchesLive,
         asserted \in ClauseLists, learned \in ClauseLists,
         NEW id \in ClauseIds, NEW c \in Seq(Literals), NEW e \in Seq(Literals),
         c = Clause(id), Clause(id)' = e, ClauseIds' = ClauseIds,
         \A k \in ClauseIds : k # id => Clause(k)' = Clause(k),
         Len(e) = Len(c),
         NEW w \in Literals, NEW lit \in Literals, lit # w,
         HitsMoved(c, e, lit, w),
         NEW i, NEW new, new.clause = id, new.index \in 3..Len(e), NEW S,
         Moved(S, watched, watched', w, i, lit, new, id)
  PROVE  WatchInv'
<1>2. new.clause = id /\ new.index \in 3..Len(e) OBVIOUS
<1> DEFINE Hits(s, x) == Cardinality({q \in DOMAIN s : q <= 2 /\ s[q] = x})
<1>a. PICK W, U : W = watched /\ U = watched'
  OBVIOUS
<1>b. Moved(S, W, U, w, i, lit, new, id)
  BY <1>a
<1>c. CountsMoved(W, U, w, lit, id)
  BY <1>b, MovedCounts
<1>d. \A x \in Literals :
        /\ U[x] \in Seq(S)
        /\ \A j \in DOMAIN U[x] :
             U[x][j] = new \/ \E k \in DOMAIN W[x] : U[x][j] = W[x][k]
        /\ x = w => \A j \in 1..(i - 1) : j \in DOMAIN U[x] => U[x][j] = W[x][j]
  BY <1>b, MovedEntries
<1>3. ASSUME NEW x \in Literals, NEW k \in ClauseIds
      PROVE  Count(watched'[x], k) =
               Cardinality({q \in DOMAIN Clause(k)' : q <= 2 /\ Clause(k)'[q] = x})
  <2>1. /\ Count(W[x], k) \in Nat
        /\ Count(U[x], k) =
             Count(W[x], k) + (IF x = lit /\ k = id THEN 1 ELSE 0)
                            - (IF x = w /\ k = id THEN 1 ELSE 0)
    BY <1>c, Zenon DEF CountsMoved
  <2>2. Count(watched[x], k) = Cardinality({q \in DOMAIN Clause(k) : q <= 2 /\ Clause(k)[q] = x})
    BY DEF WatchInv
  <2>3. CASE k = id
    <3>1. Count(W[x], k) = Hits(c, x) BY <1>a, <2>2, <2>3
    <3>2. Hits(e, x) = Hits(c, x) + (IF x = lit THEN 1 ELSE 0) - (IF x = w THEN 1 ELSE 0)
      BY Zenon DEF HitsMoved
    <3> HIDE DEF Hits
    <3>3. Count(U[x], k) = Hits(e, x) BY <1>2, <2>1, <2>3, <3>1, <3>2
    <3>4. QED BY <1>a, <2>3, <3>3 DEF Hits
  <2>4. CASE k # id
    <3>1. Count(watched'[x], k) = Count(watched[x], k)
      BY <1>2, <1>a, <2>1, <2>4
    <3>2. QED BY <2>2, <2>4, <3>1, Zenon
  <2>5. QED BY <2>3, <2>4
<1>4. ASSUME NEW x \in Literals, NEW j \in DOMAIN watched'[x], NEW k, k = watched'[x][j].clause
      PROVE  k \in ClauseIds' /\ (Len(Clause(k)') > 2 => watched'[x][j].index \in 3..Len(Clause(k)'))
  <2>1. /\ U[x] \in Seq(S)
        /\ \A q \in DOMAIN U[x] : U[x][q] = new \/ \E r \in DOMAIN W[x] : U[x][q] = W[x][r]
        /\ x = w => \A q \in 1..(i - 1) : q \in DOMAIN U[x] => U[x][q] = W[x][q]
    BY <1>d
  <2>2. CASE watched'[x][j] = new BY <1>2, <1>4, <2>2
  <2>3. CASE \E q \in DOMAIN watched[x] : watched'[x][j] = watched[x][q]
    <3>1. PICK q \in DOMAIN watched[x] : watched'[x][j] = watched[x][q]
      BY <2>3
    <3>2. k = watched[x][q].clause BY <1>4, <3>1
    <3>3. k \in ClauseIds /\ (Len(Clause(k)) > 2 => watched[x][q].index \in 3..Len(Clause(k)))
      BY <3>2 DEF WatchInv
    <3>4. Len(Clause(k)') = Len(Clause(k)) BY <3>3
    <3>5. QED BY <3>1, <3>3, <3>4
  <2>4. QED BY <1>4, <1>a, <2>1, <2>2, <2>3
<1>5. QED BY <1>3, <1>4 DEF WatchInv

\* The invariant when the clause finds another literal to watch.
LEMMA MoveWatchStep ==
  ASSUME LoopInv, EveryClauseMayBeReason, BoolStep, MoveWatch
  PROVE  LoopInv'
<1>1. PICK id, d, c : id = VisitedId /\ d = VisitedClause /\ c = Clause(id)
  OBVIOUS
<1>2. PICK p : p = FirstReplacement(d, Visited[visit.i].index) OBVIOUS
<1>3. PICK lit, w, i, e : lit = d[p] /\ w = visit.lit /\ i = visit.i /\ e = Swap(d, 2, p)
  OBVIOUS
<1>4. PICK new : new = [clause |-> id, index |-> p] BY Zenon
<1>5. /\ AtWatch /\ pc = "watch" /\ pc' = "watch" /\ Len(d) > 1 /\ ~True(d[1])
      /\ SetClause(id, e) /\ Replacements(d) # {}
      /\ watched' = [watched EXCEPT ![lit] = Append(@, new), ![w] = Removed(Visited, i)]
      /\ UNCHANGED <<conflicts, satisfied, visit, phase, cursor, trailVars, analysisVars,
                     lraVars, loopVars>>
  BY <1>1, <1>2, <1>3, <1>4 DEF MoveWatch, AtWatch, BoolStep, loopVars, Removed
<1>6. /\ id \in ClauseIds /\ c \in Seq(Literals) /\ d \in Seq(Literals) /\ Len(c) = Len(d)
      /\ Len(d) \in Nat /\ ToSet(c) = ToSet(d) /\ WatchInv /\ WatchesLive
      /\ d[2] = w /\ (d = c \/ (c[1] = w /\ d[1] = c[2]))
      /\ w \in Literals /\ False(w) /\ i \in 1..Len(Visited) /\ i \in Nat
      /\ Len(d) > 2 => Visited[visit.i].index \in 3..Len(d)
  BY <1>1, <1>3, <1>5, VisitedFacts
<1>7. p \in 3..Len(d) /\ ~False(lit) /\ lit \in Literals /\ Len(d) > 2
  <2>1. Len(d) > 2 BY <1>5, <1>6 DEF Replacements
  <2>2. Visited[visit.i].index \in Int BY <1>6, <2>1
  <2>3. p \in Replacements(d)
    BY <1>2, <1>5, <1>6, <2>2, ReplacementFound
  <2>4. QED BY <1>3, <1>6, <2>1, <2>3 DEF Replacements
<1>8. lit # w BY <1>6, <1>7
<1>9. /\ e \in Seq(Literals) /\ Len(e) = Len(d) /\ e[2] = lit /\ e[1] = d[1]
      /\ ToSet(e) = ToSet(c)
  <2>1. 1 \in 1..Len(d) /\ 2 \in 1..Len(d) /\ p \in 1..Len(d) /\ 1 # 2 /\ 1 # p
    BY <1>6, <1>7
  <2>2. /\ Swap(d, 2, p) \in Seq(Literals) /\ Len(Swap(d, 2, p)) = Len(d)
        /\ Swap(d, 2, p)[2] = d[p] /\ Swap(d, 2, p)[p] = d[2]
        /\ \A k \in 1..Len(d) : k # 2 /\ k # p => Swap(d, 2, p)[k] = d[k]
        /\ ToSet(Swap(d, 2, p)) = ToSet(d)
    BY <1>6, <2>1, SwapEffect, ZenonT(40)
  <2>3. QED BY <1>3, <1>6, <2>1, <2>2
<1>10. /\ TrailInv' /\ AssignmentsOK' /\ DatabaseOK' /\ ReasonsOK' /\ AtomsOK'
       /\ asserted' \in ClauseLists /\ learned' \in ClauseLists
       /\ ClauseIds' = ClauseIds /\ Clause(id)' = e
       /\ \A k \in ClauseIds : k # id => Clause(k)' = Clause(k)
       /\ decision_level' = decision_level /\ recent' = recent
       /\ \A l : /\ True(l)' = True(l) /\ False(l)' = False(l)
                 /\ LevelOf(l)' = LevelOf(l)
  <2>1. e = c \/ c[1] = visit.lit \/ ~True(c[1]) BY <1>3, <1>5, <1>6
  <2>2. UNCHANGED <<trailVars, created>> BY <1>5 DEF lraVars
  <2>3. /\ TrailInv' /\ AssignmentsOK' /\ DatabaseOK' /\ ReasonsOK' /\ AtomsOK'
        /\ asserted' \in ClauseLists /\ learned' \in ClauseLists
        /\ ClauseIds' = ClauseIds /\ Clause(id)' = e
        /\ \A k \in ClauseIds : k # id => Clause(k)' = Clause(k)
        /\ decision_level' = decision_level /\ recent' = recent /\ empty' = empty
        /\ \A l : /\ True(l)' = True(l) /\ False(l)' = False(l)
                  /\ LevelOf(l)' = LevelOf(l)
    BY <1>1, <1>5, <1>6, <1>9, <2>1, <2>2, VisitPermutes
  <2>4. QED BY <2>3
<1>11. OnlyChanges(id, e) BY <1>10 DEF OnlyChanges
<1>12. PICK S : S = [clause : Nat, index : Nat] BY Zenon
<1>13. Moved(S, watched, watched', w, i, lit, new, id)
  <2>1. watched \in [Literals -> Seq(S)] /\ watched[w] = Visited
    BY <1>3, <1>12 DEF LoopInv, SolverTypeOK, Visited
  <2>2. new \in S /\ new.clause = id
    <3>1. id \in Nat /\ p \in Nat BY <1>6, <1>7, InvTypes, ClauseTypes
    <3>2. QED BY <1>4, <1>12, <3>1
  <2>3. i \in 1..Len(watched[w]) /\ watched[w][i].clause = id
    BY <1>1, <1>3, <1>6, <2>1 DEF VisitedId
  <2>4. /\ watched'[lit] = Append(watched[lit], new) /\ watched'[w] = Removed(watched[w], i)
        /\ \A x \in Literals : x # lit /\ x # w => watched'[x] = watched[x]
    BY <1>5, <1>6, <1>7, <1>8, <2>1, Zenon
  <2>5. QED BY <1>6, <1>7, <1>8, <2>1, <2>2, <2>3, <2>4 DEF Moved
<1>14. /\ watched' \in [Literals -> Seq(S)]
       /\ \A j \in 1..(i - 1) : j \in DOMAIN watched'[w] => watched'[w][j] = watched[w][j]
  <2>1. PICK W, U : W = watched /\ U = watched' OBVIOUS
  <2>2. Moved(S, W, U, w, i, lit, new, id) BY <1>13, <2>1
  <2>3. \A x \in Literals :
           /\ U[x] \in Seq(S)
           /\ \A j \in DOMAIN U[x] :
                U[x][j] = new \/ \E k \in DOMAIN W[x] : U[x][j] = W[x][k]
           /\ x = w => \A j \in 1..(i - 1) : j \in DOMAIN U[x] => U[x][j] = W[x][j]
    BY <2>2, MovedEntries
  <2>4. DOMAIN U = Literals /\ U = [x \in DOMAIN U |-> U[x]]
    BY <1>5, <2>1, Zenon DEF LoopInv, SolverTypeOK
  <2>5. QED BY <1>6, <2>1, <2>3, <2>4
<1>15. \A j : NotVisited(j) => NotVisited(j)'
  <2>1. SUFFICES ASSUME NEW j, NotVisited(j), NEW k \in DOMAIN watched'[w], k < i
                 PROVE  watched'[w][k].clause # j
    BY <1>3, <1>5, Zenon DEF NotVisited, Visited
  <2>2. PICK s \in Seq(S) : s = watched'[w] BY <1>6, <1>14
  <2>3. DOMAIN s = 1..Len(s) /\ Len(s) \in Nat BY <2>2
  <2>4. k \in 1..(i - 1) BY <1>6, <2>1, <2>2, <2>3
  <2>5. watched'[w][k] = watched[w][k] BY <1>14, <2>1, <2>4
  <2>6. PICK t \in Seq(S) : t = watched[w] /\ t = Visited
    BY <1>3, <1>6, <1>12 DEF Visited, LoopInv, SolverTypeOK
  <2>7. k \in DOMAIN Visited
    <3>1. DOMAIN t = 1..Len(t) /\ Len(t) \in Nat BY <2>6
    <3>2. k \in 1..Len(t) BY <1>6, <2>4, <2>6, <3>1
    <3>3. QED BY <2>6, <3>1, <3>2
  <2>8. Visited[k].clause # j BY <1>3, <2>1, <2>7 DEF NotVisited
  <2>9. QED BY <2>5, <2>6, <2>8
<1>16. SolverTypeOK'
  BY <1>5, <1>10, <1>12, <1>14, Zenon DEF LoopInv, SolverTypeOK, ProgramPoints, trailVars,
     analysisVars, lraVars, loopVars, TrailInv
<1>17. WatchInv'
  <2>1. (d[1] = c[1] /\ d[2] = c[2]) \/ (d[1] = c[2] /\ d[2] = c[1])
    BY <1>6
  <2>2. HitsMoved(c, e, lit, w)
    BY <1>6, <1>7, <1>8, <1>9, <2>1, HitsMove, Zenon
  <2>3. new.clause = id /\ new.index \in 3..Len(e) BY <1>4, <1>7, <1>9
  <2>4. asserted \in ClauseLists /\ learned \in ClauseLists BY InvTypes
  <2>5. QED BY <1>1, <1>6, <1>7, <1>8, <1>9, <1>10, <1>13, <2>2, <2>3, <2>4, WatchMoves, Zenon
<1>18. \A j : \A l : Awaits(l, j) => Awaits(l, j)'
  BY <1>5, <1>15 DEF Awaits, OnStack, ImpliedOnStack
<1>19. FalseWatchesOK'
  <2>1. False(d[1]) => LevelOf(d[1]) = decision_level /\ Awaits(d[1], id)'
    BY <1>1, <1>5, <1>18, VisitedWatches
  <2>2. \A k \in {1, 2} : False(e[k]) =>
           \/ True(e[3 - k]) /\ LevelOf(e[3 - k]) <= LevelOf(e[k])
           \/ LevelOf(e[k]) = decision_level /\ Awaits(e[k], id)'
    BY <1>7, <1>9, <2>1
  <2>3. QED BY <1>1, <1>5, <1>9, <1>11, <1>18, <2>2, FalseWatchesStay
<1>20. UnitsOK'
  BY <1>1, <1>5, <1>6, <1>9, <1>11, UnitsStay DEF ImpliedOnStack
<1>21. StackOK'
  <2>1. ~AllFalse(d) /\ ~(\A q \in 2..Len(d) : False(d[q]))
    <3>1. p \in 1..Len(d) /\ p \in 2..Len(d) BY <1>6, <1>7
    <3>2. QED BY <1>3, <1>7, <3>1 DEF AllFalse
  <2>2. ASSUME NEW k \in DOMAIN satisfied' PROVE EntryOK(satisfied[k])'
    <3>1. PICK entry : entry = satisfied[k] /\ entry = satisfied'[k] /\ k \in DOMAIN satisfied
      BY <1>5, <2>2
    <3>2. (\A q \in 2..Len(d) : False(d[q])) => e = d BY <2>1
    <3>3. EntryOK(entry)'
      BY <1>1, <1>5, <1>11, <1>15, <2>1, <3>1, <3>2, EntriesStay
    <3>4. QED BY <3>1, <3>3 DEF EntryOK
  <2>3. (visit.lit \in Literals /\ False(visit.lit) /\ visit.i >= 1)'
    BY <1>3, <1>5, <1>6, <1>10
  <2>4. QED BY <1>5, <2>2, <2>3, StackStays
<1>22. CursorOK' BY <1>5, <1>10 DEF LoopInv, CursorOK, loopVars
<1>23. ConflictsOK' /\ LemmasOK'
  BY <1>5 DEF LoopInv, ConflictsOK, LemmasOK, analysisVars
<1>24. QED BY <1>5, <1>10, <1>16, <1>17, <1>19, <1>20, <1>21, <1>22, <1>23, InvTypes, Elsewhere
     DEF LoopInv, loopVars

-----------------------------------------------------------------------------
(* Assigning a variable.                                                   *)

\* The entries of the top level that the boolean plugin has not seen.
UnseenFrom == IF decision_level = cursor.level THEN cursor.next ELSE 0

\* The unseen entries are the end of the list of the top level.
LEMMA UnseenEntries ==
  ASSUME TrailTypeOK, cursor \in [level : Int, next : Nat]
  PROVE  /\ UnseenFrom \in Nat /\ Len(recent) \in Nat
         /\ Unseen \in Seq(Assignment)
         /\ \A k \in DOMAIN Unseen :
              UnseenFrom + k \in 1..Len(recent) /\ Unseen[k] = recent[UnseenFrom + k]
         /\ \A j \in (UnseenFrom + 1)..Len(recent) :
              j - UnseenFrom \in DOMAIN Unseen /\ Unseen[j - UnseenFrom] = recent[j]
<1>1. PICK s \in Seq(Assignment) : s = recent
  BY ListTypes DEF TrailTypeOK
<1>2. PICK from \in Nat : from = UnseenFrom BY DEF UnseenFrom
<1>3. PICK n \in Nat : n = Len(s) BY <1>1
<1>4. PICK t : t = SubSeq(s, from + 1, n) /\ t = Unseen
  <2>1. Unseen = SubSeq(s, 1 + from, n)
    BY <1>1, <1>2, <1>3 DEF Unseen, UnseenFrom
  <2>2. 1 + from = from + 1 BY <1>2
  <2>3. QED BY <2>1, <2>2
<1>5. t \in Seq(Assignment)
  <2>1. CASE from + 1 <= n BY <1>1, <1>2, <1>3, <1>4, <2>1
  <2>2. CASE from + 1 > n BY <1>1, <1>2, <1>3, <1>4, <2>2
  <2>3. QED BY <1>2, <1>3, <2>1, <2>2
<1>6. CASE from + 1 <= n
  <2>1. Len(t) = n - from /\ \A k \in 1..(n - from) : t[k] = s[from + k]
    BY <1>1, <1>2, <1>3, <1>4, <1>6
  <2>2. DOMAIN t = 1..(n - from) BY <1>5, <2>1
  <2>3. \A k \in 1..(n - from) : from + k \in 1..n /\ t[k] = s[from + k]
    BY <1>2, <1>3, <2>1
  <2>4. \A j \in (from + 1)..n : j - from \in 1..(n - from) /\ from + (j - from) = j
    BY <1>2, <1>3
  <2>5. \A j \in (from + 1)..n : t[j - from] = s[j] BY <2>3, <2>4
  <2>6. QED BY <1>1, <1>2, <1>3, <1>4, <1>5, <2>2, <2>3, <2>4, <2>5, Zenon
<1>7. CASE from + 1 > n
  <2>1. Len(t) = 0 BY <1>1, <1>2, <1>3, <1>4, <1>7
  <2>2. DOMAIN t = {} BY <1>5, <2>1
  <2>3. (from + 1)..n = {} BY <1>2, <1>3, <1>7
  <2>4. QED BY <1>1, <1>2, <1>3, <1>4, <1>5, <2>2, <2>3, Zenon
<1>8. QED BY <1>2, <1>3, <1>6, <1>7, SMTT(30)

\* The variables of the unseen entries.
LEMMA UnseenVars ==
  ASSUME TrailTypeOK, cursor \in [level : Int, next : Nat], NEW v
  PROVE  v \in VarsIn(Unseen) <=>
           \E k \in 1..Len(recent) : k > UnseenFrom /\ recent[k].var = v
<1>1. /\ UnseenFrom \in Nat /\ Len(recent) \in Nat /\ Unseen \in Seq(Assignment)
      /\ \A k \in DOMAIN Unseen :
           UnseenFrom + k \in 1..Len(recent) /\ Unseen[k] = recent[UnseenFrom + k]
      /\ \A j \in (UnseenFrom + 1)..Len(recent) :
           j - UnseenFrom \in DOMAIN Unseen /\ Unseen[j - UnseenFrom] = recent[j]
  BY UnseenEntries
<1>2. DOMAIN Unseen = 1..Len(Unseen) /\ Len(Unseen) \in Nat BY <1>1
<1>3. ASSUME NEW k \in 1..Len(Unseen), Unseen[k].var = v
      PROVE  \E j \in 1..Len(recent) : j > UnseenFrom /\ recent[j].var = v
  <2>1. UnseenFrom + k \in 1..Len(recent) /\ recent[UnseenFrom + k].var = v
    BY <1>1, <1>2, <1>3
  <2>2. UnseenFrom + k > UnseenFrom BY <1>1, <1>2
  <2>3. QED BY <2>1, <2>2
<1>4. ASSUME NEW j \in 1..Len(recent), j > UnseenFrom, recent[j].var = v
      PROVE  \E k \in 1..Len(Unseen) : Unseen[k].var = v
  <2>1. j \in (UnseenFrom + 1)..Len(recent) BY <1>1, <1>4
  <2>2. j - UnseenFrom \in 1..Len(Unseen) /\ Unseen[j - UnseenFrom].var = v
    BY <1>1, <1>2, <1>4, <2>1
  <2>3. QED BY <2>2
<1>5. QED BY <1>3, <1>4 DEF VarsIn

\* The clauses stay while the trail grows.
SameClauses == UNCHANGED dbVars

\* A step that leaves the clauses leaves what depends on them alone.
LEMMA SameClausesFacts ==
  ASSUME SameClauses
  PROVE  /\ ClauseIds' = ClauseIds /\ Problem' = Problem /\ Mentioned' = Mentioned
         /\ \A id : Clause(id)' = Clause(id)
         /\ DbStays
  BY DEF SameClauses, dbVars, ClauseIds, Problem, Mentioned, Clause, DbStays

\* The watch lists stay right where neither they nor the clauses change.
LEMMA WatchesStay ==
  ASSUME SameClauses, UNCHANGED watched, WatchInv, WatchesLive
  PROVE  WatchInv'
<1>1. ClauseIds' = ClauseIds /\ watched' = watched /\ \A id : Clause(id)' = Clause(id)
  BY SameClausesFacts
<1>2. \A lit \in Literals : \A k \in DOMAIN watched[lit] :
        watched'[lit][k].clause = watched[lit][k].clause
  BY <1>1
<1>3. QED BY <1>1, <1>2 DEF WatchInv

\* False clauses stay false while the trail grows.
LEMMA GrowsFalse ==
  ASSUME LoopInv, Grows, NEW c \in Seq(Literals), AllFalse(c)
  PROVE  AllFalse(c)'
<1>1. SUFFICES ASSUME NEW p \in 1..Len(c) PROVE False(c[p])'
  BY DEF AllFalse
<1>2. c[p] \in Literals /\ False(c[p]) BY DEF AllFalse
<1>3. QED BY <1>2, InvTypes, GrowsLiterals

\* What an assignment that propagates a literal does.
Propagates(x, r, level) ==
  /\ x \in Literals /\ ~is_defined(VarOf(x))
  /\ r \in Reasons \cup {NoReason} /\ level \in 0..decision_level
  /\ Propagate(VarOf(x), x > 0, r, level)

\* The variable of x is put behind the list of the top level.
Lengthens(x, r) ==
  /\ Len(recent) \in Nat /\ Len(recent') = Len(recent) + 1
  /\ recent'[Len(recent) + 1].var = VarOf(x)
  /\ \A k \in 1..Len(recent) : recent'[k] = recent[k]

\* x has become true at the level, and the other literals stay as they were.
LiteralsAfter(x, level) ==
  \A lit \in Literals :
    /\ True(lit)' <=> True(lit) \/ lit = x
    /\ False(lit)' <=> False(lit) \/ lit = -x
    /\ lit = x \/ lit = -x => LevelOf(lit)' = level
    /\ lit # x /\ lit # -x => LevelOf(lit)' = LevelOf(lit)

\* What becomes of the trail and of the literals when x is propagated.
LEMMA PropagatesEffect ==
  ASSUME LoopInv, NEW x, NEW r, NEW level, Propagates(x, r, level)
  PROVE  /\ TrailInv' /\ Grows /\ AssignsVar(VarOf(x), x > 0, r, level)
         /\ decision_level' = decision_level /\ BoolValued(model')
         /\ Lengthens(x, r) /\ LiteralsAfter(x, level)
<1>1. /\ TrailTypeOK /\ TrailInv /\ BoolValued(model) /\ decision_level \in Nat
  BY InvTypes
<1>2. /\ x \in Literals /\ ~is_defined(VarOf(x)) /\ VarOf(x) \in Vars
      /\ r \in Reasons \cup {NoReason} /\ level \in 0..decision_level
      /\ Propagate(VarOf(x), x > 0, r, level)
  BY LiteralTypes DEF Propagates
<1>3. PICK v, value : v = VarOf(x) /\ value = (x > 0) OBVIOUS
<1>4. value \in Values
  <2>1. value \in BOOLEAN BY <1>3
  <2>2. QED BY <2>1, VarsAssumption
<1>5. /\ TrailNext /\ TrailInv'
      /\ Grows /\ AssignsVar(v, value, r, level)
      /\ decision_level' = decision_level
      /\ \A l \in 0..decision_level :
           /\ l < level => assigned(l)' = assigned(l)
           /\ l >= level =>
                /\ Len(assigned(l)') = Len(assigned(l)) + 1
                /\ assigned(l)'[Len(assigned(l)) + 1] = [var |-> v, reason |-> r]
  BY <1>1, <1>2, <1>3, <1>4, PropagateEffect
<1>6. AssignsVar(VarOf(x), x > 0, r, level) BY <1>3, <1>5
<1>7. BoolValued(model') /\ LiteralsAfter(x, level)
  <2>1. /\ BoolValued(model')
        /\ (x > 0) \in Values
        /\ \A lit \in Literals :
              /\ True(lit)' <=> True(lit) \/ lit = x
              /\ False(lit)' <=> False(lit) \/ lit = -x
              /\ lit = x \/ lit = -x => LevelOf(lit)' = level
              /\ lit # x /\ lit # -x => LevelOf(lit)' = LevelOf(lit)
    BY <1>1, <1>2, <1>6, AssignsLiterals
  <2>2. QED BY <2>1 DEF LiteralsAfter
<1>8. Lengthens(x, r)
  <2>1. decision_level \in 0..decision_level /\ decision_level >= level
    BY <1>1, <1>2
  <2>2. recent = assigned(decision_level) /\ recent' = assigned(decision_level)'
    <3>1. TrailTypeOK' BY <1>5 DEF TrailInv
    <3>2. Len(trail) \in Nat /\ Len(trail') \in Nat
      BY <1>1, <3>1 DEF TrailTypeOK
    <3>3. QED BY <3>2 DEF recent, assigned, decision_level
  <2>3. Len(recent) \in Nat BY <1>1, <2>1, <2>2, ListTypes
  <2>4. /\ Len(recent') = Len(recent) + 1
        /\ recent'[Len(recent) + 1] = [var |-> v, reason |-> r]
    BY <1>5, <2>1, <2>2
  <2>5. \A k \in 1..Len(recent) : recent'[k] = recent[k]
    BY <1>5, <2>1, <2>2 DEF Grows, assigned
  <2>6. QED BY <1>3, <2>3, <2>4, <2>5 DEF Lengthens
<1>9. QED BY <1>5, <1>6, <1>7, <1>8

\* Watched literals that are or become false are looked at later.
LEMMA GrowFalseWatches ==
  ASSUME LoopInv, SameClauses, Grows, pc # "jump",
         \A id \in ClauseIds : \A i \in {1, 2} : \A lit, other \in Literals :
           i <= Len(Clause(id)) /\ lit = Clause(id)[i] /\ other = Clause(id)[3 - i] =>
             /\ False(lit) /\ LevelOf(lit) = decision_level /\ Awaits(lit, id) =>
                  \/ decision_level' = decision_level /\ Awaits(lit, id)'
                  \/ True(other)' /\ LevelOf(other)' <= LevelOf(lit)
             /\ ~False(lit) /\ False(lit)' =>
                  LevelOf(lit)' = decision_level' /\ Awaits(lit, id)'
  PROVE  FalseWatchesOK'
<1> SUFFICES ASSUME NEW id \in ClauseIds, NEW c, c = Clause(id), NEW i \in {1, 2},
                    Len(c) > 1, False(c[i])'
             PROVE  \/ True(c[3 - i])' /\ LevelOf(c[3 - i])' <= LevelOf(c[i])'
                    \/ LevelOf(c[i])' = decision_level' /\ Awaits(c[i], id)'
  BY SameClausesFacts DEF FalseWatchesOK
<1>1. /\ c \in Seq(Literals) /\ Len(c) \in Nat /\ i <= Len(c)
      /\ c[i] \in Literals /\ c[3 - i] \in Literals
  <2>1. c \in Seq(Literals) /\ Len(c) \in Nat /\ \A p \in 1..Len(c) : c[p] \in Literals
    BY InvTypes, ClauseTypes
  <2>2. i \in 1..Len(c) /\ 3 - i \in 1..Len(c) BY <2>1
  <2>3. QED BY <2>1, <2>2
<1>2. CASE ~False(c[i])
  <2>1. PICK lit, other \in Literals : lit = c[i] /\ other = c[3 - i]
    BY <1>1
  <2>2. LevelOf(lit)' = decision_level' /\ Awaits(lit, id)'
    BY <1>1, <1>2, <2>1
  <2>3. QED BY <2>1, <2>2
<1>3. CASE False(c[i])
  <2>1. \/ True(c[3 - i]) /\ LevelOf(c[3 - i]) <= LevelOf(c[i])
        \/ LevelOf(c[i]) = decision_level /\ Awaits(c[i], id)
    BY <1>3 DEF LoopInv, FalseWatchesOK
  <2>2. LevelOf(c[i])' = LevelOf(c[i])
    BY <1>1, <1>3, InvTypes, GrowsLiterals
  <2>3. CASE True(c[3 - i]) /\ LevelOf(c[3 - i]) <= LevelOf(c[i])
    <3>1. True(c[3 - i])' /\ LevelOf(c[3 - i])' = LevelOf(c[3 - i])
      BY <1>1, <2>3, InvTypes, GrowsLiterals
    <3>2. QED BY <2>2, <2>3, <3>1
  <2>4. CASE LevelOf(c[i]) = decision_level /\ Awaits(c[i], id)
    <3>1. PICK lit, other \in Literals : lit = c[i] /\ other = c[3 - i]
      BY <1>1
    <3>2. \/ decision_level' = decision_level /\ Awaits(lit, id)'
          \/ True(other)' /\ LevelOf(other)' <= LevelOf(lit)
      BY <1>1, <1>3, <2>4, <3>1
    <3>3. QED BY <2>2, <2>4, <3>1, <3>2
  <2>5. QED BY <2>1, <2>3, <2>4
<1>4. QED BY <1>2, <1>3

\* Unit clauses that are true at level 0 stay so.
LEMMA GrowUnits ==
  ASSUME LoopInv, SameClauses, Grows, UnitsTrue
  PROVE  UnitsOK'
<1> SUFFICES ASSUME NEW id \in ClauseIds, NEW c, c = Clause(id), Len(c) = 1
             PROVE  True(c[1])' /\ LevelOf(c[1])' = 0
  BY SameClausesFacts DEF UnitsOK
<1>1. c[1] \in Literals
  <2>1. c \in Seq(Literals) /\ Len(c) \in Nat /\ \A p \in 1..Len(c) : c[p] \in Literals
    BY InvTypes, ClauseTypes, Zenon
  <2>2. QED BY <2>1
<1>2. True(c[1]) /\ LevelOf(c[1]) = 0 BY DEF UnitsTrue
<1>3. QED BY <1>1, <1>2, InvTypes, GrowsLiterals

\* The value of a constraint depends on its variables only.
LEMMA RealsStay ==
  ASSUME \A r \in RealVars : model'[r] = model[r], NEW a \in AtomVars
  PROVE  /\ Unassigned(a)' = Unassigned(a)
         /\ is_fully_assigned(a)' = is_fully_assigned(a)
         /\ AtomValue(a)' = AtomValue(a)
<1>1. \A r \in AtomScope[a] : r \in RealVars BY BoolsAndReals
<1>2. Unassigned(a)' = Unassigned(a) BY <1>1 DEF Unassigned, is_defined
<1>3. \A rho : Agrees(rho, a)' = Agrees(rho, a)
  BY <1>1 DEF Agrees, is_defined
<1>4. QED BY <1>2, <1>3 DEF is_fully_assigned, AtomValue

\* A boolean variable is assigned: constraints keep their values, and one that
\* gets a value it has no variables for yet was not waiting for it.
LEMMA BoolAtoms ==
  ASSUME LoopInv, Grows, NEW v \in BoolVars, ~is_defined(v),
         NEW value, NEW r, NEW level, AssignsVar(v, value, r, level),
         UNCHANGED created,
         v \in created /\ is_fully_assigned(v) => value = AtomValue(v),
         Propagatable = {} \/ pc' = "theory",
         \/ decision_level' = decision_level
         \/ decision_level' = decision_level + 1 /\ Propagatable = {}
  PROVE  AtomsOK'
<1>1. /\ \A q \in RealVars : model'[q] = model[q] /\ var_level'[q] = var_level[q]
      /\ \A u \in BoolVars : u # v => model'[u] = model[u] /\ var_level'[u] = var_level[u]
      /\ model'[v] = value
  <2>1. \A q \in RealVars : q \in Vars /\ q # v BY BoolsAndReals
  <2>2. \A u \in BoolVars : u \in Vars BY VarsAssumption
  <2>3. QED BY <2>1, <2>2 DEF AssignsVar
<1>2. /\ \A a \in created : a \in AtomVars /\ a \in BoolVars /\ a \in Vars
      /\ \A a \in AtomVars : AtomScope[a] \subseteq RealVars
      /\ TrailInv /\ decision_level \in Nat
  BY LraTypes, InvTypes
<1>3. \A a \in created :
        /\ Unassigned(a)' = Unassigned(a)
        /\ is_fully_assigned(a)' = is_fully_assigned(a)
        /\ AtomValue(a)' = AtomValue(a)
  BY <1>1, <1>2, RealsStay
<1>4. \A a \in created : is_defined(a) => is_defined(a)' /\ var_level'[a] = var_level[a]
  BY <1>2 DEF Grows, is_defined
<1>5. ASSUME NEW a \in created, NEW m \in 0..(decision_level' - 1),
             \A q \in AtomScope[a] : is_defined(q)' /\ var_level'[q] <= m
      PROVE  is_defined(a)' /\ var_level'[a] <= m
  <2>1. \A q \in AtomScope[a] : is_defined(q) /\ var_level[q] <= m
    BY <1>1, <1>2, <1>5 DEF is_defined
  <2>2. CASE m \in 0..(decision_level - 1)
    <3>1. is_defined(a) /\ var_level[a] <= m
      BY <2>1, <2>2 DEF LoopInv, AtomsOK
    <3>2. QED BY <1>4, <3>1
  <2>3. CASE m = decision_level /\ Propagatable = {}
    <3>1. is_defined(a)
      BY <2>1, <2>3 DEF Propagatable, is_fully_assigned, Unassigned
    <3>2. var_level[a] \in 0..decision_level
      BY <1>2, <3>1, DefinedLevels
    <3>3. QED BY <1>2, <1>4, <2>3, <3>1, <3>2
  <2>4. QED BY <1>2, <1>5, <2>2, <2>3
<1>6. ASSUME NEW a \in created, is_defined(a)', is_fully_assigned(a)'
      PROVE  model'[a] = AtomValue(a)'
  <2>1. is_fully_assigned(a) /\ AtomValue(a)' = AtomValue(a)
    BY <1>3, <1>6
  <2>2. CASE a = v BY <1>1, <2>1, <2>2
  <2>3. CASE a # v
    <3>1. is_defined(a) /\ model'[a] = model[a]
      BY <1>1, <1>2, <1>6, <2>3 DEF is_defined
    <3>2. QED BY <2>1, <3>1 DEF LoopInv, AtomsOK
  <2>4. QED BY <2>2, <2>3
<1>7. Propagatable' # {} => pc' = "theory"
  <2>1. Propagatable' \subseteq Propagatable
    BY <1>3, <1>4 DEF Propagatable
  <2>2. QED BY <2>1
<1>8. QED BY <1>5, <1>6, <1>7 DEF AtomsOK

\* A literal propagated at the current level is forced by its reason.
LEMMA PropagatesForces ==
  ASSUME LoopInv, NEW x, NEW r, Propagates(x, r, decision_level),
         NEW c \in Seq(Literals), c[1] = x, \A p \in 2..Len(c) : False(c[p]),
         decision_level > 0 => \E p \in 2..Len(c) : LevelOf(c[p]) = decision_level
  PROVE  ForcedBy(VarOf(x), c)'
<1>1. /\ TrailInv /\ BoolValued(model) /\ decision_level \in Nat /\ TrailTypeOK
  BY InvTypes
<1>2. x \in Literals /\ VarOf(x) \in BoolVars /\ VarOf(x) \in Vars /\ ~is_defined(VarOf(x))
  BY LiteralTypes DEF Propagates
<1>3. /\ TrailInv' /\ Grows /\ AssignsVar(VarOf(x), x > 0, r, decision_level)
      /\ decision_level' = decision_level /\ BoolValued(model')
      /\ Lengthens(x, r) /\ LiteralsAfter(x, decision_level)
  BY PropagatesEffect
<1>4. var_level'[VarOf(x)] = decision_level BY <1>3 DEF AssignsVar
<1>5. TrueLiteralOf(VarOf(x))' = x
  <2>1. True(x)' BY <1>2, <1>3 DEF LiteralsAfter
  <2>2. model'[VarOf(x)] = (x > 0) BY <1>3 DEF AssignsVar
  <2>3. TrueLiteralOf(VarOf(x))' = IF model'[VarOf(x)] = TRUE THEN VarOf(x) ELSE -VarOf(x)
    BY DEF TrueLiteralOf
  <2>4. x \in Int /\ (x > 0 <=> x = VarOf(x)) /\ (x = VarOf(x) \/ x = -VarOf(x))
    BY <1>2, LiteralTypes
  <2>5. CASE x > 0 BY <2>2, <2>3, <2>4, <2>5, Zenon
  <2>6. CASE ~(x > 0) BY <2>2, <2>3, <2>4, <2>6, Zenon
  <2>7. QED BY <2>5, <2>6
<1>6. recent = assigned(decision_level) /\ recent' = assigned(decision_level)'
  <2>1. TrailTypeOK' BY <1>3 DEF TrailInv
  <2>2. Len(trail) \in Nat /\ Len(trail') \in Nat
    BY <1>1, <2>1 DEF TrailTypeOK
  <2>3. QED BY <1>3, <2>2 DEF recent, assigned, decision_level
<1>7. ASSUME NEW p \in 2..Len(c)
      PROVE  /\ False(c[p])' /\ LevelOf(c[p])' = LevelOf(c[p])
             /\ LevelOf(c[p])' <= decision_level
             /\ LevelOf(c[p])' = decision_level => ListedBefore(VarOf(c[p]), VarOf(x))'
  <2>1. c[p] \in Literals /\ False(c[p])
    <3>1. p \in 1..Len(c) BY <1>7
    <3>2. QED BY <3>1
  <2>2. False(c[p])' /\ LevelOf(c[p])' = LevelOf(c[p]) /\ LevelOf(c[p]) \in 0..decision_level
    BY <1>1, <1>3, <2>1, GrowsLiterals, FalseLiterals
  <2>3. ASSUME LevelOf(c[p]) = decision_level
        PROVE  ListedBefore(VarOf(c[p]), VarOf(x))'
    <3>1. PICK u : u = VarOf(c[p]) OBVIOUS
    <3>2. u \in Vars /\ is_defined(u) /\ var_level[u] = decision_level
      BY <1>1, <2>1, <2>3, <3>1, LiteralTypes, FalseLiterals, Zenon DEF LevelOf
    <3>3. PICK k \in 1..Len(recent) : recent[k].var = u
      BY <1>1, <1>6, <3>2, OwnPosition
    <3>4. PICK n \in Nat : n = Len(recent) BY <1>3 DEF Lengthens
    <3>5. /\ Len(recent') = n + 1 /\ recent'[n + 1].var = VarOf(x) /\ recent'[k].var = u
      BY <1>3, <3>3, <3>4 DEF Lengthens
    <3>6. k \in 1..(n + 1) /\ n + 1 \in 1..(n + 1) /\ k < n + 1
      BY <3>3, <3>4
    <3>7. QED
      <4>1. PICK list : list = recent' /\ list = assigned(var_level[VarOf(x)])'
        BY <1>3, <1>4, <1>6 DEF assigned
      <4>2. Len(list) = n + 1 /\ list[n + 1].var = VarOf(x) /\ list[k].var = VarOf(c[p])
        BY <3>1, <3>5, <4>1
      <4>3. \E j, m \in 1..Len(list) : j < m /\ list[j].var = VarOf(c[p]) /\ list[m].var = VarOf(x)
        BY <3>6, <4>2
      <4>4. QED BY <4>1, <4>3 DEF ListedBefore
  <2>4. QED BY <1>1, <2>2, <2>3
<1>8. decision_level > 0 => \E p \in 2..Len(c) : LevelOf(c[p])' = decision_level
  BY <1>7
<1>9. QED BY <1>4, <1>5, <1>7, <1>8 DEF ForcedBy

-----------------------------------------------------------------------------
(* Taking a literal from the stack.                                        *)

\* The literal on top of the stack.
TopOK(x, id) ==
  /\ x \in Literals /\ id \in Reasons \cup {NoReason}
  /\ ~False(x)
  /\ id = NoReason => True(x)
  /\ id # NoReason =>
       /\ id \in ClauseIds /\ Clause(id)[1] = x
       /\ \A p \in 2..Len(Clause(id)) : False(Clause(id)[p])
       /\ ~True(x) /\ decision_level > 0 =>
            \E p \in 2..Len(Clause(id)) : LevelOf(Clause(id)[p]) = decision_level

\* The entry on top of the stack is true or implied.
LEMMA TopOfStack ==
  ASSUME LoopInv, pc = "bcp", satisfied # << >>
  PROVE  TopOK(Last(satisfied).lit, Last(satisfied).reason)
<1>1. PICK x, id, n : x = Last(satisfied).lit /\ id = Last(satisfied).reason /\ n = Len(satisfied)
  BY Zenon
<1>2. /\ x \in Literals /\ id \in Reasons \cup {NoReason}
      /\ n \in DOMAIN satisfied /\ x = satisfied[n].lit /\ id = satisfied[n].reason
  <2>1. PICK S : S = [lit : Literals, reason : Reasons \cup {NoReason}]
    BY Zenon
  <2>2. satisfied \in Seq(S) BY <2>1 DEF LoopInv, SolverTypeOK
  <2>3. n \in DOMAIN satisfied /\ Last(satisfied) = satisfied[n] /\ Last(satisfied) \in S
    BY <1>1, <2>2, LastElement
  <2>4. QED BY <1>1, <2>1, <2>3
<1>3. IF id = NoReason
        THEN True(x)
        ELSE /\ id \in ClauseIds
             /\ Clause(id)[1] = x
             /\ \A p \in 2..Len(Clause(id)) : False(Clause(id)[p])
             /\ ~True(x) /\ decision_level > 0 =>
                  \E p \in 2..Len(Clause(id)) : LevelOf(Clause(id)[p]) = decision_level
             /\ ~False(x)
  BY <1>2 DEF LoopInv, StackOK
<1>4. ~False(x)
  <2>1. CASE id = NoReason BY <1>2, <1>3, <2>1, InvTypes, FalseLiterals
  <2>2. CASE id # NoReason BY <1>3, <2>2
  <2>3. QED BY <2>1, <2>2
<1>5. TopOK(x, id) BY <1>2, <1>3, <1>4 DEF TopOK
<1>6. QED BY <1>1, <1>5

\* What becomes of the trail when the literal x of the stack is propagated.
PopsTo(x) ==
  /\ TrailInv' /\ AssignmentsOK' /\ ReasonsOK' /\ AtomsOK' /\ Grows /\ BoolValued(model')
  /\ decision_level' = decision_level
  /\ Len(recent) \in Nat /\ Len(recent') \in Nat /\ Len(recent') >= Len(recent)
  /\ True(x)' /\ (True(x) \/ LevelOf(x)' = decision_level)
  /\ \A lit \in Literals : False(lit)' => False(lit) \/ (lit = -x /\ LevelOf(lit)' = decision_level)

\* PopSatisfied has the effect PopsTo on the trail.
LEMMA PopTrail ==
  ASSUME LoopInv, BoolStep, PopSatisfied, NEW x, x = Last(satisfied).lit
  PROVE  PopsTo(x)
<1>1. PICK id : id = Last(satisfied).reason OBVIOUS
<1>2. /\ pc = "bcp" /\ pc' = "watch" /\ satisfied # << >>
      /\ IF id # NoReason /\ ~is_defined(VarOf(x))
           THEN Propagate(VarOf(x), x > 0, id, decision_level)
           ELSE UNCHANGED trailVars
      /\ SameClauses /\ created' = created
  BY <1>1 DEF PopSatisfied, BoolStep, lraVars, SameClauses
<1>3. /\ x \in Literals /\ id \in Reasons \cup {NoReason} /\ ~False(x)
      /\ id = NoReason => True(x)
      /\ id # NoReason =>
           /\ id \in ClauseIds /\ Clause(id)[1] = x
           /\ \A p \in 2..Len(Clause(id)) : False(Clause(id)[p])
           /\ ~True(x) /\ decision_level > 0 =>
                \E p \in 2..Len(Clause(id)) : LevelOf(Clause(id)[p]) = decision_level
  BY <1>1, <1>2, TopOfStack DEF TopOK
<1>4. /\ TrailInv /\ TrailTypeOK /\ BoolValued(model) /\ decision_level \in Nat
      /\ asserted \in ClauseLists /\ learned \in ClauseLists
  BY InvTypes
<1>5. Propagatable = {} BY <1>2 DEF LoopInv, AtomsOK
<1>6. Len(recent) \in Nat BY <1>4, ListTypes
<1>7. CASE id # NoReason /\ ~is_defined(VarOf(x))
  <2>1. Propagates(x, id, decision_level)
    BY <1>2, <1>3, <1>4, <1>7 DEF Propagates
  <2>2. /\ TrailInv' /\ Grows /\ AssignsVar(VarOf(x), x > 0, id, decision_level)
        /\ decision_level' = decision_level /\ BoolValued(model')
        /\ Lengthens(x, id) /\ LiteralsAfter(x, decision_level)
    BY <2>1, PropagatesEffect
  <2>3. VarOf(x) \in BoolVars /\ VarOf(x) \in Vars /\ -x \in Literals
    BY <1>3, LiteralTypes
  <2>4. PICK c \in Seq(Literals) : c = Clause(id) /\ Len(c) >= 1
    <3>1. Clause(id) \in Seq(Literals) /\ Clause(id) # << >>
      BY <1>3, <1>4, <1>7, ClauseTypes DEF LoopInv, DatabaseOK
    <3>2. QED BY <3>1, ElementsOf
  <2>5. VarOf(x) \in Known /\ Known' = Known
    <3>1. 1 \in 1..Len(c) BY <2>4
    <3>2. x \in ToSet(Clause(id)) BY <1>3, <1>7, <2>4, <3>1, ElementsOf
    <3>3. VarOf(x) \in Known BY <1>3, <1>7, <3>2 DEF LoopInv, DatabaseOK
    <3>4. Known' = Known BY <1>2, SameClausesFacts DEF Known
    <3>5. QED BY <3>3, <3>4
  <2>6. AssignmentsOK'
    <3>1. decision_level \in 0..decision_level BY <1>4
    <3>2. QED BY <1>3, <1>4, <1>7, <2>2, <2>5, <3>1, PropagateAssignments DEF LoopInv
  <2>7. ReasonsOK'
    <3>1. ForcedBy(VarOf(x), c)'
      <4>1. ~True(x) BY <1>3, <1>4, <1>7, FalseLiterals
      <4>2. QED BY <1>3, <1>7, <2>1, <2>4, <4>1, PropagatesForces
    <3>2. ASSUME NEW v \in BoolVars, ~is_defined(v), var_reason'[v] # NoReason
          PROVE  var_reason'[v] \in ClauseIds /\ ForcedBy(v, Clause(var_reason[v]))'
      <4>1. v = VarOf(x)
        <5>1. var_reason[v] = NoReason /\ v \in Vars
          BY <1>4, <3>2, VarsAssumption, DefinedLevels
        <5>2. QED BY <2>2, <3>2, <5>1 DEF AssignsVar
      <4>2. var_reason'[v] = id BY <2>2, <4>1 DEF AssignsVar
      <4>3. c = Clause(var_reason[v])'
        BY <1>2, <2>4, <4>2, SameClausesFacts DEF Clause
      <4>4. ForcedBy(v, Clause(var_reason[v]))'
        BY <3>1, <4>1, <4>3 DEF ForcedBy
      <4>5. QED BY <1>3, <1>7, <4>2, <4>4
    <3>3. TrailTypeOK' /\ DbStays /\ ReasonsOK
      BY <1>2, <2>2, SameClausesFacts DEF TrailInv, LoopInv
    <3>4. QED BY <1>4, <2>2, <3>2, <3>3, GrowReasons
  <2>8. AtomsOK'
    <3>1. VarOf(x) \in created => ~is_fully_assigned(VarOf(x))
      BY <1>5, <1>7 DEF Propagatable
    <3>2. QED BY <1>2, <1>5, <1>7, <2>2, <2>3, <3>1, BoolAtoms
  <2>9. /\ True(x)' /\ LevelOf(x)' = decision_level
        /\ \A lit \in Literals : False(lit)' => False(lit) \/ (lit = -x /\ LevelOf(lit)' = decision_level)
    BY <1>3, <2>2, <2>3 DEF LiteralsAfter
  <2>10. Len(recent') \in Nat /\ Len(recent') >= Len(recent)
    BY <2>2 DEF Lengthens
  <2>11. QED BY <1>6, <2>2, <2>6, <2>7, <2>8, <2>9, <2>10 DEF PopsTo
<1>8. CASE ~(id # NoReason /\ ~is_defined(VarOf(x)))
  <2>1. Steady BY <1>2, <1>8 DEF Steady, SameClauses
  <2>2. /\ TrailInv' /\ AssignmentsOK' /\ ReasonsOK' /\ decision_level' = decision_level
        /\ recent' = recent
    BY <2>1, SteadyMost
  <2>3. AtomsOK' BY <1>5, <2>1, SteadyAtoms DEF LoopInv
  <2>4. Grows /\ BoolValued(model')
    <3>1. trail' = trail /\ var_level' = var_level /\ var_reason' = var_reason /\ model' = model
      BY <2>1 DEF Steady, trailVars
    <3>2. \A l \in 0..decision_level : Len(trail[l + 1]) \in Nat
      BY <1>4, ListTypes DEF assigned
    <3>3. QED BY <1>4, <2>2, <3>1, <3>2 DEF Grows
  <2>5. /\ True(x)' = True(x) /\ True(x)
        /\ \A lit \in Literals : False(lit)' = False(lit)
    BY <1>3, <1>4, <1>8, <2>1, FalseLiterals, SteadyLiterals
  <2>6. QED BY <1>6, <2>2, <2>3, <2>4, <2>5 DEF PopsTo
<1>9. QED BY <1>7, <1>8

\* A literal with a value, after a step that keeps the trail in order.
LEMMA FalseOrTrueLevel ==
  ASSUME TrailInv', BoolValued(model'), NEW lit \in Literals, True(lit)'
  PROVE  LevelOf(lit)' \in Int /\ LevelOf(lit)' >= 0 /\ False(-lit)'
<1>1. VarOf(lit) \in Vars /\ -lit \in Literals BY LiteralTypes
<1>2. FalseIn(model', -lit) BY LiteralValues DEF True
<1>3. model'[VarOf(lit)] # Undef BY LiteralValues DEF True
<1>4. var_level'[VarOf(lit)] \in unassigned..(Len(trail') - 1) /\ var_level'[VarOf(lit)] # unassigned
  BY <1>1, <1>3 DEF TrailInv, DefinedIffLevel, is_defined, decision_level
<1>5. QED BY <1>2, <1>4 DEF LevelOf, False, unassigned

\* Taking a literal from the stack assigns it if need be and starts the visit of
\* the clauses that watch its negation.
LEMMA PopSatisfiedStep ==
  ASSUME LoopInv, EveryClauseMayBeReason, BoolStep, PopSatisfied
  PROVE  LoopInv'
<1>1. PICK x, id, n, S : /\ x = Last(satisfied).lit /\ id = Last(satisfied).reason
                         /\ n = Len(satisfied)
                         /\ S = [lit : Literals, reason : Reasons \cup {NoReason}]
  BY Zenon
<1>2. /\ pc = "bcp" /\ pc' = "watch" /\ satisfied # << >> /\ satisfied' = Front(satisfied)
      /\ visit' = [lit |-> -x, i |-> 1] /\ SameClauses
      /\ UNCHANGED <<conflicts, dbVars, watched, phase, cursor, analysisVars, lraVars, loopVars>>
  BY <1>1 DEF PopSatisfied, BoolStep, SameClauses, loopVars
<1>3. /\ x \in Literals /\ id \in Reasons \cup {NoReason} /\ ~False(x)
      /\ id = NoReason => True(x)
      /\ id # NoReason =>
           /\ id \in ClauseIds /\ Clause(id)[1] = x
           /\ \A p \in 2..Len(Clause(id)) : False(Clause(id)[p])
           /\ ~True(x) /\ decision_level > 0 =>
                \E p \in 2..Len(Clause(id)) : LevelOf(Clause(id)[p]) = decision_level
  BY <1>1, <1>2, TopOfStack DEF TopOK
<1>4. /\ satisfied \in Seq(S) /\ n \in Nat \ {0} /\ DOMAIN satisfied = 1..n
      /\ x = satisfied[n].lit /\ id = satisfied[n].reason
  <2>1. satisfied \in Seq(S) BY <1>1 DEF LoopInv, SolverTypeOK
  <2>2. /\ Len(satisfied) \in Nat \ {0} /\ DOMAIN satisfied = 1..Len(satisfied)
        /\ Last(satisfied) = satisfied[Len(satisfied)]
    BY <1>2, <2>1, LastElement
  <2>3. QED BY <1>1, <2>1, <2>2
<1>5. /\ satisfied' \in Seq(S) /\ DOMAIN satisfied' = 1..(n - 1)
      /\ \A k \in 1..(n - 1) : satisfied'[k] = satisfied[k]
  <2>1. /\ Front(satisfied) \in Seq(S) /\ Len(Front(satisfied)) = Len(satisfied) - 1
        /\ Len(satisfied) \in Nat
        /\ DOMAIN Front(satisfied) = 1..(Len(satisfied) - 1)
        /\ \A k \in 1..(Len(satisfied) - 1) : Front(satisfied)[k] = satisfied[k]
    <3>1. Len(satisfied) # 0 BY <1>1, <1>4
    <3>2. QED BY <1>4, <3>1, FrontEffect
  <2>2. QED BY <1>1, <1>2, <2>1
<1>6. \A k \in DOMAIN satisfied : k \in DOMAIN satisfied' \/ k = n
  BY <1>4, <1>5
<1>7. \A k \in DOMAIN satisfied' : k \in DOMAIN satisfied /\ satisfied'[k] = satisfied[k]
  BY <1>4, <1>5
<1>8. PopsTo(x) BY <1>1, PopTrail
<1>9. /\ TrailInv' /\ AssignmentsOK' /\ ReasonsOK' /\ AtomsOK' /\ Grows /\ BoolValued(model')
      /\ decision_level' = decision_level
      /\ Len(recent) \in Nat /\ Len(recent') \in Nat /\ Len(recent') >= Len(recent)
      /\ True(x)' /\ (True(x) \/ LevelOf(x)' = decision_level)
      /\ \A lit \in Literals :
           False(lit)' => False(lit) \/ (lit = -x /\ LevelOf(lit)' = decision_level)
  BY <1>8 DEF PopsTo
<1>10. /\ TrailInv /\ TrailTypeOK /\ BoolValued(model) /\ decision_level \in Nat
       /\ asserted \in ClauseLists /\ learned \in ClauseLists
  BY InvTypes
<1>11. -x \in Literals /\ -(-x) = x /\ visit'.lit = -x /\ visit'.i = 1
       /\ visit' \in [lit : Literals \cup {0}, i : Nat]
  BY <1>2, <1>3, LiteralTypes
<1>12. \A j : NotVisited(j)'
  <2>1. PICK s : s = watched'[visit'.lit] /\ s \in Seq([clause : Nat, index : Nat])
    BY <1>2, <1>11 DEF LoopInv, SolverTypeOK
  <2>2. \A k \in DOMAIN s : ~(k < 1) BY <2>1
  <2>3. QED BY <1>11, <2>1, <2>2 DEF NotVisited, Visited
<1>13. SolverTypeOK'
  BY <1>1, <1>2, <1>5, <1>9, <1>11, Zenon
     DEF LoopInv, SolverTypeOK, ProgramPoints, dbVars,
     analysisVars, lraVars, loopVars, TrailInv
<1>14. DatabaseOK'
  BY <1>2, SameClausesFacts DEF LoopInv, DatabaseOK, Known, lraVars
<1>15. WatchInv' BY <1>2, WatchesStay DEF LoopInv, WatchesLive
<1>16. LevelOf(x)' <= decision_level
  <2>1. LevelOf(x)' \in 0..decision_level
    <3>1. True(x)
            => LevelOf(x) \in 0..decision_level /\ LevelOf(x)' = LevelOf(x)
      BY <1>3, <1>9, <1>10, FalseLiterals, GrowsLiterals
    <3>2. QED BY <1>9, <1>10, <3>1
  <2>2. QED BY <1>10, <2>1
<1>17. FalseWatchesOK'
  <2>1. ASSUME NEW j \in ClauseIds, NEW i \in {1, 2}, NEW lit \in Literals, NEW other \in Literals,
               i <= Len(Clause(j)), lit = Clause(j)[i], other = Clause(j)[3 - i]
        PROVE  /\ False(lit) /\ LevelOf(lit) = decision_level /\ Awaits(lit, j) =>
                    \/ decision_level' = decision_level /\ Awaits(lit, j)'
                    \/ True(other)' /\ LevelOf(other)' <= LevelOf(lit)
               /\ ~False(lit) /\ False(lit)' =>
                    LevelOf(lit)' = decision_level' /\ Awaits(lit, j)'
    <3>1. ASSUME ~False(lit), False(lit)'
          PROVE  LevelOf(lit)' = decision_level' /\ Awaits(lit, j)'
      <4>1. lit = -x /\ LevelOf(lit)' = decision_level BY <1>9, <3>1
      <4>2. Awaits(lit, j)' BY <1>2, <1>11, <1>12, <4>1 DEF Awaits
      <4>3. QED BY <1>9, <4>1, <4>2
    <3>2. ASSUME False(lit), LevelOf(lit) = decision_level, Awaits(lit, j)
          PROVE  \/ Awaits(lit, j)'
                 \/ True(other)' /\ LevelOf(other)' <= LevelOf(lit)
      <4>1. OnStack(-lit) \/ ImpliedOnStack(j) BY <1>2, <3>2 DEF Awaits
      <4>2. CASE OnStack(-lit)
        <5>1. PICK k \in DOMAIN satisfied : satisfied[k].lit = -lit
          BY <4>2 DEF OnStack
        <5>2. CASE k \in DOMAIN satisfied'
          BY <1>2, <1>7, <5>1, <5>2 DEF Awaits, OnStack
        <5>3. CASE k = n
          <6>1. lit = -x
            <7>1. x = -lit /\ -(-lit) = lit
              BY <1>4, <5>1, <5>3, LiteralTypes
            <7>2. QED BY <7>1
          <6>2. QED BY <1>2, <1>11, <1>12, <6>1 DEF Awaits
        <5>4. QED BY <1>6, <5>2, <5>3
      <4>3. CASE ImpliedOnStack(j)
        <5>1. PICK k \in DOMAIN satisfied : satisfied[k].reason = j
          BY <4>3 DEF ImpliedOnStack
        <5>2. CASE k \in DOMAIN satisfied'
          BY <1>2, <1>7, <5>1, <5>2 DEF Awaits, ImpliedOnStack
        <5>3. CASE k = n
          <6>1. id = j BY <1>4, <5>1, <5>3
          <6>2. id # NoReason
            <7>1. j \in Nat \ {0} BY <1>10, <2>1, ClauseTypes
            <7>2. QED BY <6>1, <7>1, ReasonAssumption DEF EveryClauseMayBeReason
          <6>3. Clause(j)[1] = x /\ i # 1
            BY <1>3, <2>1, <3>2, <6>1, <6>2
          <6>4. other = x
            <7>1. i = 2 /\ 3 - i = 1 BY <6>3
            <7>2. QED BY <2>1, <6>3, <7>1
          <6>5. QED BY <1>9, <1>16, <3>2, <6>4
        <5>4. QED BY <1>6, <5>2, <5>3
      <4>4. QED BY <4>1, <4>2, <4>3
    <3>3. QED BY <1>9, <3>1, <3>2
  <2>2. QED BY <1>2, <1>9, <2>1, GrowFalseWatches
<1>18. UnitsOK'
  <2>1. ASSUME NEW j \in ClauseIds, Len(Clause(j)) = 1
        PROVE  \/ True(Clause(j)[1])' /\ LevelOf(Clause(j)[1])' = 0
               \/ decision_level = 0 /\ ImpliedOnStack(j)'
    <3>9. PICK y : y = Clause(j)[1] /\ y = Clause(j)'[1]
      BY <1>2, SameClausesFacts
    <3>1. y \in Literals /\ j \in Nat \ {0}
      <4>1. j \in Nat \ {0} /\ \A p \in 1..Len(Clause(j)) : Clause(j)[p] \in Literals
        BY <1>10, <2>1, ClauseTypes, Zenon
      <4>2. 1 \in 1..Len(Clause(j)) BY <2>1
      <4>3. QED BY <3>9, <4>1, <4>2, Zenon
    <3>. SUFFICES \/ True(y)' /\ LevelOf(y)' = 0
                  \/ decision_level = 0 /\ ImpliedOnStack(j)'
      BY <3>9
    <3>2. CASE True(y) /\ LevelOf(y) = 0
      BY <1>9, <1>10, <3>1, <3>2, GrowsLiterals
    <3>3. CASE decision_level = 0 /\ ImpliedOnStack(j)
      <4>1. PICK k \in DOMAIN satisfied : satisfied[k].reason = j
        BY <3>3 DEF ImpliedOnStack
      <4>2. CASE k \in DOMAIN satisfied'
        BY <1>7, <3>3, <4>1, <4>2 DEF ImpliedOnStack
      <4>3. CASE k = n
        <5>1. id = j BY <1>4, <4>1, <4>3
        <5>2. id # NoReason
          BY <3>1, <5>1, ReasonAssumption DEF EveryClauseMayBeReason
        <5>3. y = x BY <1>3, <3>9, <5>1, <5>2, Zenon
        <5>4. LevelOf(x)' \in Int /\ LevelOf(x)' >= 0
          BY <1>3, <1>9, FalseOrTrueLevel
        <5>5. QED BY <1>9, <1>16, <3>3, <5>3, <5>4
      <4>4. QED BY <1>6, <4>2, <4>3
    <3>4. \/ True(y) /\ LevelOf(y) = 0
          \/ decision_level = 0 /\ ImpliedOnStack(j)
      BY <1>2, <2>1, <3>9, Zenon DEF LoopInv, UnitsOK
    <3>5. QED BY <3>2, <3>3, <3>4
  <2>2. QED BY <1>2, <1>9, <2>1, SameClausesFacts DEF UnitsOK
<1>19. StackOK'
  <2>1. \A k \in DOMAIN satisfied' : EntryOK(satisfied[k])'
    <3>1. SUFFICES ASSUME NEW k \in DOMAIN satisfied'
                   PROVE  EntryOK(satisfied[k])'
      OBVIOUS
    <3>2. k \in DOMAIN satisfied /\ satisfied'[k] = satisfied[k]
      BY <1>7, <3>1
    <3>3. PICK y, j : y = satisfied[k].lit /\ j = satisfied[k].reason
      OBVIOUS
    <3>4. y \in Literals
      <4>1. satisfied[k] \in S BY <1>4, <3>2
      <4>2. QED BY <1>1, <3>3, <4>1
    <3>5. IF j = NoReason
            THEN True(y)
            ELSE /\ j \in ClauseIds
                 /\ Clause(j)[1] = y
                 /\ \A p \in 2..Len(Clause(j)) : False(Clause(j)[p])
                 /\ ~True(y) /\ decision_level > 0 =>
                      \E p \in 2..Len(Clause(j)) : LevelOf(Clause(j)[p]) = decision_level
                 /\ ~False(y)
      BY <1>2, <3>2, <3>3, Zenon DEF LoopInv, StackOK
    <3>6. IF j = NoReason
            THEN True(y)'
            ELSE /\ j \in ClauseIds'
                 /\ Clause(j)'[1] = y
                 /\ \A p \in 2..Len(Clause(j)') : False(Clause(j)[p])'
                 /\ ~True(y)' /\ decision_level' > 0 =>
                      \E p \in 2..Len(Clause(j)') : LevelOf(Clause(j)[p])' = decision_level'
                 /\ (False(y)' => pc' = "watch" /\ visit'.lit = y /\ NotVisited(j)')
      <4>1. CASE j = NoReason
        BY <1>9, <1>10, <3>4, <3>5, <4>1, GrowsLiterals
      <4>2. CASE j # NoReason
        <5>1. PICK c : c = Clause(j) OBVIOUS
        <5>2. /\ j \in ClauseIds' /\ Clause(j)' = c
              /\ c[1] = y /\ \A p \in 2..Len(c) : c[p] \in Literals /\ False(c[p])
          <6>1. j \in ClauseIds /\ c \in Seq(Literals) /\ Len(c) \in Nat
            BY <1>10, <3>5, <4>2, <5>1, ClauseTypes
          <6>2. QED BY <1>2, <3>5, <4>2, <5>1, <6>1, SameClausesFacts
        <5>3. \A p \in 2..Len(c) : False(c[p])' /\ LevelOf(c[p])' = LevelOf(c[p])
          BY <1>9, <1>10, <5>2, GrowsLiterals
        <5>4. True(y) => True(y)' BY <1>9, <1>10, <3>4, GrowsLiterals
        <5>5. False(y)' => y = -x BY <1>9, <3>4, <3>5, <4>2
        <5>6. False(y)' => pc' = "watch" /\ visit'.lit = y /\ NotVisited(j)'
          BY <1>2, <1>11, <1>12, <5>5
        <5>7. ~True(y)' /\ decision_level' > 0 =>
                      \E p \in 2..Len(c) : LevelOf(c[p])' = decision_level'
          BY <1>9, <3>5, <4>2, <5>1, <5>3, <5>4
        <5>8. QED BY <4>2, <5>2, <5>3, <5>6, <5>7
      <4>3. QED BY <4>1, <4>2
    <3>7. QED BY <3>2, <3>3, <3>6 DEF EntryOK
  <2>2. (visit.lit \in Literals /\ False(visit.lit) /\ visit.i >= 1)'
    <3>1. False(-x)' BY <1>3, <1>9, FalseOrTrueLevel
    <3>2. QED BY <1>11, <3>1
  <2>3. QED BY <1>2, <2>1, <2>2, StackStays
<1>20. CursorOK'
  BY <1>2, <1>9, <1>10 DEF LoopInv, CursorOK, loopVars, SolverTypeOK
<1>21. ConflictsOK' /\ LemmasOK' /\ AtomsOK'
  <2>1. conflicts = << >> /\ lemmas = << >> /\ work = {} /\ minimized = NothingMinimized
    BY <1>2 DEF LoopInv, ConflictsOK, LemmasOK
  <2>2. conflicts' = << >> /\ lemmas' = << >> /\ work' = {} /\ minimized' = NothingMinimized
    BY <1>2, <2>1 DEF analysisVars
  <2>3. QED BY <1>2, <1>9, <2>2 DEF ConflictsOK, LemmasOK
<1>22. QED BY <1>2, <1>9, <1>13, <1>14, <1>15, <1>17, <1>18, <1>19, <1>20, <1>21, InvTypes, Elsewhere
     DEF LoopInv, loopVars

-----------------------------------------------------------------------------
(* Values of constraints.                                                  *)

\* The literal x of a constraint takes the value its variables give it, at the
\* highest of their levels, which a rational variable opened.
Valued(a, x, level) ==
  /\ x \in Literals /\ VarOf(x) = a /\ x = (IF AtomValue(a) THEN a ELSE -a)
  /\ (x > 0) = AtomValue(a) /\ level > 0
  /\ Propagates(x, NoReason, level)
  /\ assigned(level)[1].var \in RealVars
  /\ \A r \in AtomScope[a] : is_defined(r) /\ var_level[r] <= level
  /\ \E r \in AtomScope[a] : var_level[r] = level

\* PropagateAtom assigns a literal of its constraint.
LEMMA AtomValued ==
  ASSUME LoopInv, NEW a \in AtomVars, ~is_defined(a), is_fully_assigned(a), PropagateAtom(a)
  PROVE  \E x, level : Valued(a, x, level)
<1>1. /\ TrailInv /\ decision_level \in Nat /\ a \in BoolVars
      /\ AtomScope[a] \subseteq RealVars /\ AtomScope[a] # {}
      /\ a \in Literals /\ -a \in Literals /\ VarOf(a) = a /\ VarOf(-a) = a
      /\ a > 0 /\ ~(-a > 0)
  BY InvTypes, BoolsAndReals, VariableLiterals
<1>2. \A r \in AtomScope[a] : r \in Vars /\ is_defined(r) /\ var_level[r] \in 0..decision_level
  BY <1>1, BoolsAndReals, DefinedLevels DEF is_fully_assigned, Unassigned
<1>3. PICK level : level = HighestScopeLevel(a) OBVIOUS
<1>4. /\ \A r \in AtomScope[a] : var_level[r] <= level
      /\ \E r \in AtomScope[a] : var_level[r] = level
  <2>1. PICK S : S = {var_level[r] : r \in AtomScope[a]} BY Zenon
  <2>2. S \in SUBSET (0..decision_level) /\ S # {} BY <1>1, <1>2, <2>1
  <2>3. \E m \in S : \A l \in S : l <= m
    BY <1>1, <2>2, HighestExists, Zenon
  <2>4. \E l \in S : \A r \in AtomScope[a] : var_level[r] <= l
    BY <2>1, <2>3
  <2>5. level \in S /\ \A r \in AtomScope[a] : var_level[r] <= level
    BY <1>3, <2>1, <2>4 DEF HighestScopeLevel
  <2>6. QED BY <2>1, <2>5
<1>5. PICK r \in AtomScope[a] : var_level[r] = level BY <1>4
<1>6. level \in 0..decision_level /\ level > 0 /\ assigned(level)[1].var \in RealVars
  <2>1. level \in 0..decision_level /\ r \in RealVars /\ is_defined(r)
    BY <1>1, <1>2, <1>5
  <2>2. level > 0 /\ assigned(level)[1].var = r
    BY <1>5, <2>1 DEF LoopInv, AssignmentsOK
  <2>3. QED BY <2>1, <2>2
<1>7. PICK x : x = (IF AtomValue(a) THEN a ELSE -a) OBVIOUS
<1>8. AtomValue(a) \in BOOLEAN BY DEF AtomValue
<1>9. x \in Literals /\ VarOf(x) = a /\ (x > 0) = AtomValue(a)
  <2>1. CASE AtomValue(a) BY <1>1, <1>7, <2>1, Zenon
  <2>2. CASE ~AtomValue(a) BY <1>1, <1>7, <1>8, <2>2
  <2>3. QED BY <2>1, <2>2
<1>10. Propagates(x, NoReason, level)
  BY <1>3, <1>6, <1>9 DEF Propagates, PropagateAtom
<1>11. Valued(a, x, level)
  BY <1>2, <1>4, <1>6, <1>7, <1>9, <1>10 DEF Valued
<1>12. QED BY <1>11

\* What UnseenVars says of the state after a step.
UnseenIsTail ==
  TrailTypeOK /\ cursor \in [level : Int, next : Nat] =>
    \A v : v \in VarsIn(Unseen) <=>
             \E k \in 1..Len(recent) : k > UnseenFrom /\ recent[k].var = v

\* The unseen entries end the list of the top level in every state,
LEMMA UnseenNow == UnseenIsTail
BY UnseenVars DEF UnseenIsTail

\* and in every next state.
LEMMA UnseenNext == UnseenIsTail'
BY UnseenNow, PTL

\* What the step of the plugin that assigns a constraint leaves alone.
AtomFrame ==
  /\ pc \in {"theory", "explain"} /\ pc' = pc
  /\ UNCHANGED <<conflicts, dbVars, bcpVars, phase, cursor, checked, blame,
                 analysisVars, loopVars>>
  /\ created \subseteq created' /\ created' \subseteq AtomVars

\* Assigning a constraint at the top level, or one that no clause mentions,
\* preserves what does not depend on the constraints.
LEMMA AtomMost ==
  ASSUME LoopInv, AtomFrame, NEW a, NEW x, NEW level, Valued(a, x, level), a \in created',
         level = decision_level \/ a \notin Known
  PROVE  /\ SolverTypeOK' /\ TrailInv'
         /\ AssignmentsOK' /\ DatabaseOK' /\ ReasonsOK'
         /\ WatchInv' /\ FalseWatchesOK' /\ UnitsOK' /\ StackOK' /\ CursorOK'
         /\ ConflictsOK' /\ ResolveOK' /\ MinimizeOK' /\ LemmasOK'
         /\ JumpOK' /\ UnitOK' /\ SplitOK' /\ AnswerOK'
<1>1. /\ x \in Literals /\ VarOf(x) = a /\ Propagates(x, NoReason, level) /\ ~is_defined(VarOf(x))
      /\ level > 0 /\ assigned(level)[1].var \in RealVars /\ level \in 0..decision_level
      /\ RealVars # {}
  BY DEF Valued, Propagates
<1>2. /\ TrailInv' /\ Grows /\ AssignsVar(VarOf(x), x > 0, NoReason, level)
      /\ decision_level' = decision_level /\ BoolValued(model')
      /\ Lengthens(x, NoReason) /\ LiteralsAfter(x, level)
  BY <1>1, PropagatesEffect
<1>3. /\ TrailInv /\ TrailTypeOK /\ BoolValued(model) /\ decision_level \in Nat
      /\ asserted \in ClauseLists /\ learned \in ClauseLists
      /\ verdict = "none" /\ TrailTypeOK'
  BY <1>2, InvTypes DEF AtomFrame, TrailInv
<1>4. SameClauses BY DEF SameClauses, AtomFrame
<1>5. SolverTypeOK'
  BY <1>2 DEF AtomFrame, LoopInv, SolverTypeOK, ProgramPoints, dbVars, bcpVars,
     analysisVars, loopVars, TrailInv
<1>6. AssignmentsOK' /\ DatabaseOK'
  <2>1. Known \subseteq Known' /\ VarOf(x) \in Known' /\ Mentioned' = Mentioned
    BY <1>1, <1>4, SameClausesFacts DEF Known, AtomFrame
  <2>2. AssignmentsOK'
    BY <1>1, <1>2, <1>3, <2>1, PropagateAssignments DEF LoopInv
  <2>3. DatabaseOK'
    BY <1>4, <2>1, SameClausesFacts DEF LoopInv, DatabaseOK, AtomFrame
  <2>4. QED BY <2>2, <2>3
<1>7. ReasonsOK'
  <2>1. \A v \in BoolVars : ~is_defined(v) => var_reason'[v] = NoReason
    <3>1. SUFFICES ASSUME NEW v \in BoolVars, ~is_defined(v)
                   PROVE  var_reason'[v] = NoReason
      OBVIOUS
    <3>2. v \in Vars BY VariableLiterals
    <3>3. QED BY <1>2, <1>3, <3>1, <3>2, DefinedLevels DEF AssignsVar
  <2>2. QED BY <1>2, <1>3, <1>4, <2>1, GrowReasons, SameClausesFacts DEF LoopInv
<1>8. WatchInv'
  BY <1>4, WatchesStay DEF AtomFrame, bcpVars, LoopInv, WatchesLive
<1>9. UnitsOK'
  <2>1. UnitsTrue BY DEF AtomFrame, LoopInv, UnitsOK, UnitsTrue
  <2>2. QED BY <1>2, <1>4, <2>1, GrowUnits
<1>10. cursor \in [level : Int, next : Nat] /\ cursor' = cursor
       /\ cursor.level = decision_level /\ cursor.next <= Len(recent)
  BY DEF AtomFrame, LoopInv, SolverTypeOK, CursorOK
<1>11. CursorOK'
  BY <1>2, <1>10 DEF LoopInv, CursorOK, AtomFrame, Lengthens, loopVars
<1>12. FalseWatchesOK'
  <2>1. UnseenFrom' = UnseenFrom /\ UnseenFrom = cursor.next /\ cursor.next \in Nat
    BY <1>2, <1>10 DEF UnseenFrom
  <2>2. PICK n : n = Len(recent) /\ n \in Nat /\ Len(recent') = n + 1
    BY <1>2 DEF Lengthens
  <2>3. ASSUME NEW v, v \in VarsIn(Unseen)
        PROVE  v \in VarsIn(Unseen)'
    <3>1. PICK k \in 1..n : k > UnseenFrom /\ recent[k].var = v
      BY <1>3, <1>10, <2>2, <2>3, UnseenVars
    <3>2. k \in 1..(n + 1) /\ k > UnseenFrom' /\ recent'[k].var = v
      BY <1>2, <2>1, <2>2, <3>1 DEF Lengthens
    <3>3. QED BY <1>3, <1>10, <2>2, <3>2, UnseenNext DEF UnseenIsTail
  <2>4. a \in VarsIn(Unseen)'
    <3>1. n + 1 \in 1..(n + 1) /\ n + 1 > UnseenFrom' /\ recent'[n + 1].var = a
      BY <1>1, <1>2, <1>10, <2>1, <2>2 DEF Lengthens
    <3>2. QED BY <1>3, <1>10, <2>2, <3>1, UnseenNext DEF UnseenIsTail
  <2>5. ASSUME NEW id \in ClauseIds, NEW i \in {1, 2}, NEW lit \in Literals, NEW other \in Literals,
               i <= Len(Clause(id)), lit = Clause(id)[i], other = Clause(id)[3 - i]
        PROVE  /\ False(lit) /\ LevelOf(lit) = decision_level /\ Awaits(lit, id) =>
                    \/ decision_level' = decision_level /\ Awaits(lit, id)'
                    \/ True(other)' /\ LevelOf(other)' <= LevelOf(lit)
               /\ ~False(lit) /\ False(lit)' =>
                    LevelOf(lit)' = decision_level' /\ Awaits(lit, id)'
    <3>1. Awaits(lit, id) => Awaits(lit, id)'
      BY <1>1, <2>3 DEF Awaits, AtomFrame
    <3>2. ASSUME ~False(lit), False(lit)'
          PROVE  LevelOf(lit)' = decision_level' /\ Awaits(lit, id)'
      <4>1. lit = -x /\ LevelOf(lit)' = level /\ VarOf(lit) = a
        BY <1>1, <1>2, <3>2, LiteralTypes DEF LiteralsAfter
      <4>2. a \in Known
        <5>1. PICK c : c = Clause(id) OBVIOUS
        <5>2. c \in Seq(Literals) /\ i \in 1..Len(c)
          BY <1>3, <2>5, <5>1, ClauseTypes
        <5>3. lit \in ToSet(c) BY <2>5, <5>1, <5>2, ElementsOf
        <5>4. QED BY <4>1, <5>1, <5>3 DEF LoopInv, DatabaseOK
      <4>3. Awaits(lit, id)' BY <1>1, <2>4, <4>1 DEF Awaits, AtomFrame
      <4>4. QED BY <1>2, <4>1, <4>2, <4>3
    <3>3. QED BY <1>2, <3>1, <3>2
  <2>6. pc # "jump" BY DEF AtomFrame
  <2>7. QED BY <1>2, <1>4, <2>5, <2>6, GrowFalseWatches
<1>13. ConflictsOK' /\ LemmasOK'
  <2>1. \A k \in 1..Len(conflicts) : AllFalse(conflicts[k])'
    <3>1. \A k \in 1..Len(conflicts) : conflicts[k] \in Seq(Literals) /\ AllFalse(conflicts[k])
      BY SMTT(30) DEF LoopInv, ConflictsOK, SolverTypeOK, ClauseLists
    <3>2. SUFFICES ASSUME NEW k \in 1..Len(conflicts)
                   PROVE  AllFalse(conflicts[k])'
      OBVIOUS
    <3>3. PICK c : c = conflicts[k] OBVIOUS
    <3>4. AllFalse(c)' BY <1>2, <3>1, <3>3, GrowsFalse
    <3>5. conflicts' = conflicts BY DEF AtomFrame
    <3>6. QED BY <3>3, <3>4, <3>5
  <2>2. /\ conflicts' = conflicts /\ work' = work /\ minimized' = minimized /\ lemmas' = lemmas
        /\ lemmas = << >> /\ work = {} /\ minimized = NothingMinimized
    BY DEF AtomFrame, analysisVars, LoopInv, ConflictsOK, LemmasOK
  <2>3. QED BY <2>1, <2>2 DEF ConflictsOK, LemmasOK, AtomFrame
<1>14. /\ StackOK' /\ ResolveOK' /\ MinimizeOK' /\ JumpOK' /\ UnitOK' /\ SplitOK' /\ AnswerOK'
  BY <1>3, Elsewhere DEF AtomFrame, loopVars
<1>15. QED BY <1>2, <1>5, <1>6, <1>7, <1>8, <1>9, <1>11, <1>12, <1>13, <1>14

\* A constraint whose variables are all assigned takes its value.
LEMMA LraPropagateStepStep ==
  ASSUME LoopInv, LraStep, LraPropagate
  PROVE  LoopInv'
<1>1. PICK a \in Propagatable : PropagateAtom(a) BY DEF LraPropagate
<1>2. /\ a \in created /\ ~is_defined(a) /\ is_fully_assigned(a) /\ a \in AtomVars /\ a \in BoolVars
      /\ created \subseteq AtomVars
  BY <1>1, LraTypes DEF Propagatable
<1>3. PICK x, level : Valued(a, x, level) BY <1>1, <1>2, AtomValued
<1>4. /\ pc = "theory" /\ pc' = "theory" /\ UNCHANGED created /\ AtomFrame
  BY <1>2 DEF AtomFrame, LraStep, LraPropagateStep, LraPropagate, lraVars
<1>5. /\ VarOf(x) = a /\ Propagates(x, NoReason, level) /\ (x > 0) = AtomValue(a)
      /\ level \in 0..decision_level
      /\ \A r \in AtomScope[a] : is_defined(r) /\ var_level[r] <= level
  BY <1>3 DEF Valued, Propagates
<1>6. level = decision_level
  <2>1. decision_level \in Nat BY InvTypes
  <2>2. CASE level # decision_level
    <3>1. level \in 0..(decision_level - 1) BY <1>5, <2>1, <2>2
    <3>2. is_defined(a) BY <1>2, <1>5, <3>1 DEF LoopInv, AtomsOK
    <3>3. QED BY <1>2, <3>2
  <2>3. QED BY <2>2
<1>7. /\ SolverTypeOK' /\ TrailInv'
      /\ AssignmentsOK' /\ DatabaseOK' /\ ReasonsOK'
      /\ WatchInv' /\ FalseWatchesOK' /\ UnitsOK' /\ StackOK' /\ CursorOK'
      /\ ConflictsOK' /\ ResolveOK' /\ MinimizeOK' /\ LemmasOK'
      /\ JumpOK' /\ UnitOK' /\ SplitOK' /\ AnswerOK'
  BY <1>2, <1>3, <1>4, <1>6, AtomMost
<1>8. AtomsOK'
  <2>1. Grows /\ AssignsVar(a, x > 0, NoReason, level) /\ decision_level' = decision_level
    BY <1>5, PropagatesEffect
  <2>2. QED BY <1>2, <1>4, <1>5, <2>1, BoolAtoms
<1>9. ExplainOK' BY <1>4, Elsewhere
<1>10. QED BY <1>7, <1>8, <1>9 DEF LoopInv

\* A constraint that an explanation needs is created with the value its
\* variables give it, below the current level where they are.
LEMMA LraDeriveStep ==
  ASSUME LoopInv, LraStep, LraDerive
  PROVE  LoopInv'
<1>1. PICK a \in {VarOf(lit) : lit \in blame} :
        ~is_defined(a) /\ PropagateAtom(a) /\ created' = created \cup {a}
  BY DEF LraDerive
<1>2. /\ pc = "explain" /\ pc' = "explain" /\ blame' = blame /\ blame \subseteq Literals
      /\ TrailInv /\ BoolValued(model)
  BY InvTypes, Zenon DEF LraStep, LraPropagateStep, LraDerive, LoopInv, SolverTypeOK
<1>3. a \in AtomVars /\ a \in BoolVars /\ is_fully_assigned(a) /\ created \subseteq AtomVars
  <2>1. PICK lit \in blame : VarOf(lit) = a BY <1>1
  <2>2. ~False(lit) BY <1>1, <1>2, <2>1, FalseLiterals
  <2>3. QED BY <1>2, <2>1, <2>2, LraTypes DEF LoopInv, ExplainOK
<1>4. PICK x, level : Valued(a, x, level) BY <1>1, <1>3, AtomValued
<1>5. a \notin created /\ Propagatable = {}
  <2>1. Propagatable = {} BY <1>2 DEF LoopInv, AtomsOK
  <2>2. QED BY <1>1, <1>3, <2>1 DEF Propagatable
<1>6. AtomFrame /\ a \in created'
  BY <1>1, <1>2, <1>3 DEF AtomFrame, LraStep, LraPropagateStep, LraDerive
<1>7. a \notin Known BY <1>3, <1>5 DEF Known, LoopInv, DatabaseOK
<1>8. /\ VarOf(x) = a /\ Propagates(x, NoReason, level) /\ (x > 0) = AtomValue(a)
      /\ x \in Literals /\ x = (IF AtomValue(a) THEN a ELSE -a)
      /\ \A r \in AtomScope[a] : is_defined(r) /\ var_level[r] <= level
      /\ \E r \in AtomScope[a] : var_level[r] = level
  BY <1>4 DEF Valued
<1>9. /\ TrailInv' /\ Grows /\ AssignsVar(a, x > 0, NoReason, level) /\ LiteralsAfter(x, level)
      /\ decision_level' = decision_level /\ BoolValued(model')
  BY <1>8, PropagatesEffect
<1>10. /\ SolverTypeOK' /\ TrailInv'
       /\ AssignmentsOK' /\ DatabaseOK' /\ ReasonsOK'
       /\ WatchInv' /\ FalseWatchesOK' /\ UnitsOK' /\ StackOK' /\ CursorOK'
       /\ ConflictsOK' /\ ResolveOK' /\ MinimizeOK' /\ LemmasOK'
       /\ JumpOK' /\ UnitOK' /\ SplitOK' /\ AnswerOK'
  BY <1>4, <1>6, <1>7, AtomMost
<1>11. \A r \in RealVars : model'[r] = model[r] /\ var_level'[r] = var_level[r]
  BY <1>3, <1>9, BoolsAndReals DEF AssignsVar
<1>12. \A b \in AtomVars : b # a => model'[b] = model[b] /\ var_level'[b] = var_level[b]
  BY <1>9, LraTypes DEF AssignsVar
<1>13. \A b \in AtomVars : /\ is_fully_assigned(b)' = is_fully_assigned(b)
                           /\ AtomValue(b)' = AtomValue(b)
  BY <1>11, RealsStay
<1>14. model'[a] = AtomValue(a) /\ model'[a] # Undef /\ var_level'[a] = level
  <2>1. x > 0 \/ ~(x > 0) OBVIOUS
  <2>2. (x > 0) \in Values BY <1>1, <1>2, <1>8, <1>9, AssignsLiterals
  <2>3. QED BY <1>8, <1>9, <2>2, UndefAssumption DEF AssignsVar
<1>15. AtomsOK'
  <2>1. ASSUME NEW b \in created', NEW m \in 0..(decision_level' - 1),
               \A r \in AtomScope[b] : is_defined(r)' /\ var_level'[r] <= m
        PROVE  is_defined(b)' /\ var_level'[b] <= m
    <3>1. b \in AtomVars BY <1>1, <1>3
    <3>2. \A r \in AtomScope[b] : is_defined(r) /\ var_level[r] <= m
      BY <1>11, <2>1, <3>1, LraTypes DEF is_defined
    <3>3. CASE b = a BY <1>8, <1>14, <3>2, <3>3 DEF is_defined
    <3>4. CASE b # a
      BY <1>1, <1>9, <1>12, <2>1, <3>1, <3>2, <3>4 DEF LoopInv, AtomsOK, is_defined
    <3>5. QED BY <3>3, <3>4
  <2>2. ASSUME NEW b \in created', is_defined(b)', is_fully_assigned(b)'
        PROVE  model'[b] = AtomValue(b)'
    BY <1>1, <1>3, <1>12, <1>13, <1>14, <2>2 DEF LoopInv, AtomsOK, is_defined
  <2>3. Propagatable' = {}
    <3>1. SUFFICES ASSUME NEW b \in created', ~is_defined(b)', is_fully_assigned(b)'
                   PROVE  FALSE
      BY DEF Propagatable
    <3>2. b # a /\ b \in created /\ ~is_defined(b) /\ is_fully_assigned(b)
      BY <1>1, <1>3, <1>12, <1>13, <1>14, <3>1 DEF is_defined
    <3>3. QED BY <1>5, <3>2 DEF Propagatable
  <2>4. QED BY <2>1, <2>2, <2>3 DEF AtomsOK
<1>16. ExplainOK'
  <2>1. ASSUME NEW lit \in blame
        PROVE  /\ VarOf(lit) \in AtomVars
               /\ \/ False(lit)'
                  \/ /\ ~is_defined(VarOf(lit))'
                     /\ is_fully_assigned(VarOf(lit))'
                     /\ lit = IF AtomValue(VarOf(lit))' THEN -VarOf(lit) ELSE VarOf(lit)
    <3>1. PICK v : v = VarOf(lit) OBVIOUS
    <3>2. /\ lit \in Literals /\ v \in AtomVars
          /\ \/ False(lit)
             \/ /\ ~is_defined(v) /\ is_fully_assigned(v)
                /\ lit = IF AtomValue(v) THEN -v ELSE v
      BY <1>2, <2>1, <3>1 DEF LoopInv, ExplainOK
    <3>3. CASE False(lit) BY <1>9, <3>1, <3>2, <3>3 DEF LiteralsAfter
    <3>4. CASE /\ ~is_defined(v) /\ is_fully_assigned(v)
               /\ lit = IF AtomValue(v) THEN -v ELSE v
      <4>1. CASE v = a
        <5>1. lit = -x
          <6>1. a \in Int BY <1>3, VariableLiterals
          <6>2. QED BY <1>8, <3>4, <4>1, <6>1
        <5>2. QED BY <1>9, <3>1, <3>2, <5>1 DEF LiteralsAfter
      <4>2. CASE v # a
        BY <1>12, <1>13, <3>1, <3>2, <3>4, <4>2 DEF is_defined
      <4>3. QED BY <4>1, <4>2
    <3>5. QED BY <3>2, <3>3, <3>4
  <2>2. QED BY <1>2, <2>1 DEF ExplainOK
<1>17. QED BY <1>10, <1>15, <1>16 DEF LoopInv

-----------------------------------------------------------------------------
(* Watch lists and stack of a new round.                                   *)

\* The entries of a clause in the chosen part of a list.
LEMMA ChosenCount ==
  ASSUME NEW S, NEW s \in Seq(S), NEW keep, NEW id
  PROVE  Count(Chosen(s, keep), id) =
           Cardinality({i \in 1..Len(s) : i \in keep /\ s[i].clause = id})
<1>1. PICK f : IsChosen(f, s, keep, Len(s)) /\ Chosen(s, keep) = f[Len(s)]
  BY ChosenIsFunction
<1> DEFINE T(n) == {i \in 1..n : i \in keep /\ s[i].clause = id}
           Right(n) == f[n] \in Seq(S) /\ Count(f[n], id) = Cardinality(T(n))
           Bad == {n \in 0..Len(s) : ~ Right(n)}
<1>2. ASSUME Bad # {}
      PROVE  FALSE
  <2>1. PICK m \in Bad : \A n \in Bad : m <= n
    <3> Bad \in SUBSET Nat
      OBVIOUS
    <3> QED
      BY <1>2, LeastNatural, Zenon
  <2>2. m \in 0..Len(s) /\ ~ Right(m) BY <2>1
  <2>3. f[m] = IF m = 0 THEN << >>
               ELSE IF m \in keep THEN Append(f[m - 1], s[m]) ELSE f[m - 1]
    BY <1>1, <2>2, Zenon DEF IsChosen
  <2>4. CASE m = 0
    <3>1. f[0] = << >> BY <2>3, <2>4
    <3>2. {k \in DOMAIN f[0] : f[0][k].clause = id} = {} /\ T(0) = {} /\ f[0] \in Seq(S)
      BY <3>1
    <3>3. Right(0) BY <3>2, Zenon DEF Count
    <3>4. QED BY <2>2, <2>4, <3>3
  <2>5. CASE m # 0
    <3>1. m - 1 \in 0..Len(s) /\ m - 1 \in Nat /\ m \in 1..Len(s) /\ s[m] \in S
      BY <2>2, <2>5
    <3>2. Right(m - 1)
      <4>1. m - 1 \notin Bad
        <5> HIDE DEF Bad
        <5>1. QED BY <2>1, <2>2, <3>1
      <4>2. QED BY <3>1, <4>1
    <3>3. PICK U, V1 : U = T(m - 1) /\ V1 = T(m) BY Zenon
    <3>4. IsFiniteSet(U) /\ m \notin U
      <4>1. U \in SUBSET Nat /\ \A i \in U : i <= m - 1 BY <3>1, <3>3
      <4>2. IsFiniteSet(U) BY <3>1, <4>1, FS_BoundedSetOfNaturals
      <4>3. QED BY <3>1, <4>1, <4>2
    <3>5. Count(f[m - 1], id) \in Nat /\ Count(f[m - 1], id) = Cardinality(U) /\ f[m - 1] \in Seq(S)
      <4>1. Cardinality(U) \in Nat BY <3>4, FS_CardinalityType
      <4>2. QED BY <3>2, <3>3, <4>1
    <3>6. CASE m \in keep /\ s[m].clause = id
      <4>1. f[m] = Append(f[m - 1], s[m]) BY <2>3, <2>5, <3>6
      <4>2. Count(f[m], id) = Count(f[m - 1], id) + 1 /\ f[m] \in Seq(S)
        BY <3>1, <3>5, <3>6, <4>1, CountAppend
      <4>3. V1 = U \cup {m} BY <3>1, <3>3, <3>6
      <4>4. Cardinality(V1) = Cardinality(U) + 1
        BY <3>4, <4>3, FS_AddElement, Zenon
      <4>5. Right(m) BY <3>3, <3>5, <4>2, <4>4
      <4>6. QED BY <2>2, <4>5
    <3>7. CASE ~(m \in keep /\ s[m].clause = id)
      <4>1. V1 = U BY <3>1, <3>3, <3>7
      <4>2. Count(f[m], id) = Count(f[m - 1], id) /\ f[m] \in Seq(S)
        <5>1. CASE m \in keep
          <6>1. f[m] = Append(f[m - 1], s[m]) /\ s[m].clause # id
            BY <2>3, <2>5, <3>7, <5>1
          <6>2. Count(f[m], id) = Count(f[m - 1], id) + 0 /\ f[m] \in Seq(S)
            BY <3>1, <3>5, <6>1, CountAppend
          <6>3. QED BY <3>5, <6>2
        <5>2. CASE m \notin keep BY <2>3, <2>5, <3>5, <5>2
        <5>3. QED BY <5>1, <5>2
      <4>3. Right(m) BY <3>3, <3>5, <4>1, <4>2, Zenon
      <4>4. QED BY <2>2, <4>3
    <3>8. QED BY <3>6, <3>7
  <2>6. QED BY <2>4, <2>5
<1>3. Len(s) \in 0..Len(s) OBVIOUS
<1>4. Right(Len(s)) BY <1>2, <1>3, Zenon
<1>5. QED BY <1>1, <1>4

\* A set of at most two given elements.
AtMostTwo(H, x, y, a, b) ==
  /\ x # y /\ a \in {0, 1} /\ b \in {0, 1}
  /\ \A p : p \in H <=> (p = x /\ a = 1) \/ (p = y /\ b = 1)

\* A set of at most two given elements, counted.
LEMMA TwoHits ==
  ASSUME NEW H, NEW x, NEW y, NEW a, NEW b, AtMostTwo(H, x, y, a, b)
  PROVE  IsFiniteSet(H) /\ Cardinality(H) = a + b
<1>0. /\ x # y /\ a \in {0, 1} /\ b \in {0, 1}
      /\ \A p : p \in H <=> (p = x /\ a = 1) \/ (p = y /\ b = 1)
  BY DEF AtMostTwo
<1>1. CASE a = 1 /\ b = 1
  <2>1. H = {x, y} BY <1>0, <1>1
  <2>2. IsFiniteSet(H) /\ Cardinality(H) = 2
    BY <1>0, <2>1, TwoElements, Zenon
  <2>3. 2 = a + b BY <1>1
  <2>4. QED BY <2>2, <2>3
<1>2. ASSUME NEW z, H = {z}, a + b = 1
      PROVE  IsFiniteSet(H) /\ Cardinality(H) = a + b
  BY <1>2, FS_Singleton
<1>3. CASE a = 1 /\ b = 0
  <2>1. H = {x} /\ a + b = 1 BY <1>0, <1>3
  <2>2. QED BY <1>2, <2>1
<1>4. CASE a = 0 /\ b = 1
  <2>1. H = {y} /\ a + b = 1 BY <1>0, <1>4
  <2>2. QED BY <1>2, <2>1
<1>5. CASE a = 0 /\ b = 0
  <2>1. H = {} BY <1>0, <1>5
  <2>2. IsFiniteSet(H) /\ Cardinality(H) = 0 BY <2>1, FS_EmptySet
  <2>3. 0 = a + b BY <1>5
  <2>4. QED BY <2>2, <2>3
<1>6. QED BY <1>0, <1>1, <1>3, <1>4, <1>5

\* The slots of a clause in the numbering of WatchesIn.
LEMMA Slots ==
  ASSUME NEW m \in Nat
  PROVE  /\ \A q \in 1..(2 * m) : (q + 1) \div 2 \in 1..m /\ 2 - (q % 2) \in {1, 2}
         /\ \A j \in 1..m :
              /\ 2 * j - 1 \in 1..(2 * m) /\ 2 * j \in 1..(2 * m)
              /\ 2 - ((2 * j - 1) % 2) = 1 /\ 2 - ((2 * j) % 2) = 2
              /\ ((2 * j - 1) + 1) \div 2 = j /\ ((2 * j) + 1) \div 2 = j
              /\ \A q \in 1..(2 * m) : (q + 1) \div 2 = j => q = 2 * j - 1 \/ q = 2 * j
OBVIOUS

\* WatchesIn lists the watches of a literal for the clauses of a list, one for
\* each of the first two positions that hold it.
WatchesOfList(W, clauses, n, lit) ==
  /\ W \in Seq([clause : Nat, index : Nat])
  /\ \A k \in 1..Len(W) : \E j \in 1..Len(clauses) :
       /\ W[k].clause = n + j
       /\ Len(clauses[j]) > 2 => W[k].index = 3
  /\ \A j \in 1..Len(clauses) :
       Count(W, n + j) = Cardinality({p \in DOMAIN clauses[j] : p <= 2 /\ clauses[j][p] = lit})

\* WatchesIn lists the watches of one literal.
LEMMA WatchesFor ==
  ASSUME NEW clauses \in Seq(Seq(Literals)), NEW n \in Nat, NEW lit
  PROVE  WatchesOfList(WatchesIn(clauses, n, lit), clauses, n, lit)
<1>0. PICK W : W = WatchesIn(clauses, n, lit) OBVIOUS
<1>1. PICK m \in Nat : m = Len(clauses) OBVIOUS
<1>2. PICK keep : keep = {q \in 1..(2 * m) :
                   /\ 2 - (q % 2) <= Len(clauses[(q + 1) \div 2])
                   /\ clauses[(q + 1) \div 2][2 - (q % 2)] = lit}
  BY Zenon
<1>3. PICK s : s = [q \in 1..(2 * m) |-> Watch(n + ((q + 1) \div 2), clauses[(q + 1) \div 2])]
  BY Zenon
<1>4. W = Chosen(s, keep) BY <1>0, <1>1, <1>2, <1>3 DEF WatchesIn
<1>5. \A j \in 1..m : clauses[j] \in Seq(Literals) /\ Len(clauses[j]) \in Nat
  BY <1>1
<1>6. PICK S : S = [clause : Nat, index : Nat] BY Zenon
<1>7. ASSUME NEW q \in 1..(2 * m)
      PROVE  /\ s[q] \in S /\ s[q].clause = n + ((q + 1) \div 2)
             /\ (q + 1) \div 2 \in 1..m
             /\ Len(clauses[(q + 1) \div 2]) > 2 => s[q].index = 3
  <2>1. PICK j \in 1..m : j = (q + 1) \div 2 BY <1>1, Slots
  <2>2. PICK l \in Nat : l = Len(clauses[j]) BY <1>5
  <2>3. s[q] = [clause |-> n + j, index |-> IF l > 2 THEN 3 ELSE l]
    BY <1>3, <2>1, <2>2 DEF Watch
  <2>4. QED BY <1>6, <2>1, <2>2, <2>3
<1>8. 2 * m \in Nat /\ s \in [1..(2 * m) -> S]
  <2>1. s \in [1..(2 * m) -> S] BY <1>3, <1>7
  <2>2. QED BY <1>1, <2>1
<1>9. s \in Seq(S) /\ Len(s) = 2 * m BY <1>8, FunctionIsSeq
<1>10. W \in Seq(S) /\ \A k \in 1..Len(W) : \E i \in 1..Len(s) : i \in keep /\ W[k] = s[i]
  <2>1. /\ Chosen(s, keep) \in Seq(S)
        /\ \A k \in 1..Len(Chosen(s, keep)) : \E i \in 1..Len(s) : i \in keep /\ Chosen(s, keep)[k] = s[i]
    <3>1. s \in Seq(S) BY <1>9
    <3>2. QED BY <3>1, ChosenElements
  <2>2. QED BY <1>4, <2>1, Zenon
<1>11. ASSUME NEW k \in 1..Len(W)
       PROVE  \E j \in 1..Len(clauses) : W[k].clause = n + j /\ (Len(clauses[j]) > 2 => W[k].index = 3)
  <2>1. PICK q \in 1..(2 * m) : W[k] = s[q] BY <1>9, <1>10
  <2>2. QED BY <1>1, <1>7, <2>1
<1>12. ASSUME NEW j \in 1..m
       PROVE  Count(W, n + j) = Cardinality({p \in DOMAIN clauses[j] : p <= 2 /\ clauses[j][p] = lit})
  <2>1. PICK c \in Seq(Literals) : c = clauses[j] BY <1>5
  <2>2. PICK a \in {0, 1} : a = IF 1 <= Len(c) /\ c[1] = lit THEN 1 ELSE 0
    OBVIOUS
  <2>3. PICK b \in {0, 1} : b = IF 2 <= Len(c) /\ c[2] = lit THEN 1 ELSE 0
    OBVIOUS
  <2>4. PICK id, H : id = n + j /\ H = {i \in 1..Len(s) : i \in keep /\ s[i].clause = id}
    BY Zenon
  <2>5. Count(W, n + j) = Cardinality(H)
    <3>1. s \in Seq(S) BY <1>9
    <3>2. Count(Chosen(s, keep), id) = Cardinality({i \in 1..Len(s) : i \in keep /\ s[i].clause = id})
      BY <3>1, ChosenCount
    <3>3. QED BY <1>4, <2>4, <3>2
  <2>6. \A i : i \in H <=> i \in 1..(2 * m) /\ i \in keep /\ (i + 1) \div 2 = j
    <3>1. \A i \in 1..(2 * m) : s[i].clause = n + j <=> (i + 1) \div 2 = j
      <4>1. SUFFICES ASSUME NEW i \in 1..(2 * m)
                     PROVE  s[i].clause = n + j <=> (i + 1) \div 2 = j
        BY Zenon
      <4>2. PICK g \in 1..m : g = (i + 1) \div 2 /\ s[i].clause = n + g
        BY <1>7
      <4>3. n + g = n + j <=> g = j OBVIOUS
      <4>4. QED BY <4>2, <4>3
    <3>2. QED BY <1>9, <2>4, <3>1
  <2>7. PICK x, y : x = 2 * j - 1 /\ y = 2 * j OBVIOUS
  <2>8. /\ x \in 1..(2 * m) /\ y \in 1..(2 * m) /\ x # y
        /\ 2 - (x % 2) = 1 /\ 2 - (y % 2) = 2
        /\ (x + 1) \div 2 = j /\ (y + 1) \div 2 = j
        /\ \A q \in 1..(2 * m) : (q + 1) \div 2 = j => q = x \/ q = y
    <3>1. x # y BY <2>7
    <3>2. QED BY <1>1, <2>7, <3>1, Slots
  <2>9. (x \in keep <=> a = 1) /\ (y \in keep <=> b = 1)
    <3>1. x \in keep <=> 1 <= Len(c) /\ c[1] = lit
      BY <1>2, <2>1, <2>8, Zenon
    <3>2. y \in keep <=> 2 <= Len(c) /\ c[2] = lit
      BY <1>2, <2>1, <2>8, Zenon
    <3>3. QED BY <2>2, <2>3, <3>1, <3>2
  <2>10. \A p : p \in H <=> (p = x /\ a = 1) \/ (p = y /\ b = 1)
    BY <2>6, <2>8, <2>9, Zenon
  <2>11. Cardinality(H) = a + b
    <3>1. AtMostTwo(H, x, y, a, b) BY <2>8, <2>10 DEF AtMostTwo
    <3>2. QED BY <3>1, TwoHits
  <2>12. Cardinality({p \in DOMAIN c : p <= 2 /\ c[p] = lit}) = a + b
    BY <2>2, <2>3, HitsOf, Zenon
  <2>13. QED BY <2>1, <2>5, <2>11, <2>12
<1>13. QED BY <1>0, <1>1, <1>6, <1>10, <1>11, <1>12 DEF WatchesOfList

\* The watch lists built from nothing fit the clauses.
LEMMA InitialWatchesFit ==
  ASSUME asserted \in ClauseLists, learned \in ClauseLists,
         watched' = InitialWatches, UNCHANGED dbVars
  PROVE  /\ WatchInv'
         /\ watched' \in [Literals -> Seq([clause : Nat, index : Nat])]
<1>1. PICK C : C = asserted \o learned BY Zenon
<1>2. PICK n : n = Len(C) BY Zenon
<1>3. /\ C \in Seq(Seq(Literals)) /\ n \in Nat /\ ClauseIds = 1..n
      /\ \A id \in 1..n : Clause(id) = C[id] /\ C[id] \in Seq(Literals)
  <2>1. asserted \in Seq(Seq(Literals)) /\ learned \in Seq(Seq(Literals))
    BY DEF ClauseLists
  <2>2. QED BY <1>1, <1>2, <2>1 DEF Clause, ClauseIds
<1>4. ASSUME NEW lit \in Literals
      PROVE  /\ watched'[lit] \in Seq([clause : Nat, index : Nat])
             /\ \A id \in 1..n : Count(watched'[lit], id) =
                   Cardinality({p \in DOMAIN C[id] : p <= 2 /\ C[id][p] = lit})
             /\ \A k \in DOMAIN watched'[lit] :
                  /\ watched'[lit][k].clause \in 1..n
                  /\ Len(C[watched'[lit][k].clause]) > 2 => watched'[lit][k].index = 3
  <2>1. PICK W : W = WatchesIn(C, 0, lit) /\ watched'[lit] = W
    BY <1>1 DEF InitialWatches
  <2>2. /\ W \in Seq([clause : Nat, index : Nat])
        /\ \A k \in 1..Len(W) : \E j \in 1..Len(C) :
              /\ W[k].clause = 0 + j
              /\ Len(C[j]) > 2 => W[k].index = 3
        /\ \A j \in 1..Len(C) :
              Count(W, 0 + j) = Cardinality({p \in DOMAIN C[j] : p <= 2 /\ C[j][p] = lit})
    <3>1. WatchesOfList(WatchesIn(C, 0, lit), C, 0, lit)
      BY <1>3, WatchesFor
    <3>2. QED BY <2>1, <3>1 DEF WatchesOfList
  <2>3. \A id \in 1..n : 0 + id = id BY <1>3
  <2>4. \A id \in 1..n : Count(W, id) = Cardinality({p \in DOMAIN C[id] : p <= 2 /\ C[id][p] = lit})
    BY <1>2, <2>2, <2>3
  <2>5. \A k \in DOMAIN W :
           W[k].clause \in 1..n /\ (Len(C[W[k].clause]) > 2 => W[k].index = 3)
    <3>1. SUFFICES ASSUME NEW k \in DOMAIN W
                   PROVE  W[k].clause \in 1..n /\ (Len(C[W[k].clause]) > 2 => W[k].index = 3)
      OBVIOUS
    <3>2. k \in 1..Len(W) BY <2>2
    <3>3. PICK j \in 1..n : W[k].clause = 0 + j /\ (Len(C[j]) > 2 => W[k].index = 3)
      BY <1>2, <2>2, <3>2, Zenon
    <3>4. W[k].clause = j BY <2>3, <3>3
    <3>5. QED BY <3>3, <3>4
  <2>6. QED BY <2>1, <2>2, <2>4, <2>5
<1>5. ClauseIds' = 1..n /\ \A id \in 1..n : Clause(id)' = C[id]
  <2>1. SameClauses BY DEF SameClauses
  <2>2. QED BY <1>3, <2>1, SameClausesFacts
<1>6. ASSUME NEW lit \in Literals
      PROVE  /\ \A id \in ClauseIds' : Count(watched[lit], id)' =
                   Cardinality({p \in DOMAIN Clause(id) : p <= 2 /\ Clause(id)[p] = lit})'
             /\ \A k \in DOMAIN watched'[lit] : \A id : id = watched'[lit][k].clause =>
                  /\ id \in ClauseIds'
                  /\ Len(Clause(id)') > 2 => watched'[lit][k].index \in 3..Len(Clause(id)')
  <2>1. PICK W : W = watched'[lit] OBVIOUS
  <2>2. \A id \in 1..n : Count(W, id) = Cardinality({p \in DOMAIN C[id] : p <= 2 /\ C[id][p] = lit})
    BY <1>4, <2>1
  <2>3. ASSUME NEW k \in DOMAIN W, NEW id, id = W[k].clause
        PROVE  id \in ClauseIds' /\ (Len(Clause(id)') > 2 => W[k].index \in 3..Len(Clause(id)'))
    <3>1. id \in 1..n /\ (Len(C[id]) > 2 => W[k].index = 3)
      BY <1>4, <2>1, <2>3
    <3>2. C[id] \in Seq(Literals) /\ Clause(id)' = C[id]
      BY <1>3, <1>5, <3>1
    <3>3. Len(C[id]) \in Nat BY <3>2
    <3>4. Len(C[id]) > 2 => W[k].index \in 3..Len(C[id]) BY <3>1, <3>3
    <3>5. QED BY <1>5, <3>1, <3>2, <3>4
  <2>4. \A id \in 1..n : Count(watched[lit], id)' = Count(W, id)
    BY <2>1 DEF Count
  <2>5. \A id \in 1..n : Cardinality({p \in DOMAIN Clause(id) : p <= 2 /\ Clause(id)[p] = lit})'
                           = Cardinality({p \in DOMAIN C[id] : p <= 2 /\ C[id][p] = lit})
    BY <1>5, Zenon
  <2>6. QED BY <1>5, <2>1, <2>2, <2>3, <2>4, <2>5
<1>7. WatchInv' BY <1>6 DEF WatchInv
<1>8. watched' \in [Literals -> Seq([clause : Nat, index : Nat])]
  BY <1>4 DEF InitialWatches
<1>9. QED BY <1>7, <1>8

\* The unit clauses wait on the stack at the start.
LEMMA UnitClausesFound ==
  ASSUME asserted \in ClauseLists, learned \in ClauseLists, EveryClauseMayBeReason
  PROVE  /\ UnitClauses \in Seq([lit : Literals, reason : Reasons \cup {NoReason}])
         /\ \A k \in 1..Len(UnitClauses) :
              /\ UnitClauses[k].reason \in ClauseIds /\ UnitClauses[k].reason # NoReason
              /\ Len(Clause(UnitClauses[k].reason)) = 1
              /\ UnitClauses[k].lit = Clause(UnitClauses[k].reason)[1]
         /\ \A id \in ClauseIds : Len(Clause(id)) = 1 =>
              \E k \in 1..Len(UnitClauses) : UnitClauses[k].reason = id
<1>1. PICK n \in Nat : ClauseIds = 1..n BY ClauseTypes DEF ClauseIds
<1>2. PICK keep : keep = {id \in ClauseIds : Len(Clause(id)) = 1}
  BY Zenon
<1>3. PICK ids : ids = Chosen([id \in 1..n |-> id], keep) OBVIOUS
<1>4. /\ ids \in Seq(1..n) /\ Len(ids) \in Nat
      /\ \A k \in 1..Len(ids) : ids[k] \in keep
      /\ \A id \in keep : \E k \in 1..Len(ids) : ids[k] = id
  <2>1. ids \in Seq(1..n) /\ Range(ids) = keep
    <3>1. keep \in SUBSET (1..n) BY <1>1, <1>2
    <3>2. QED BY <1>1, <1>3, <3>1, ChosenPositions
  <2>2. DOMAIN ids = 1..Len(ids) /\ Len(ids) \in Nat BY <2>1
  <2>3. \A id : id \in keep <=> \E k \in 1..Len(ids) : ids[k] = id
    BY <2>1, <2>2 DEF Range
  <2>4. QED BY <2>1, <2>2, <2>3
<1>5. PICK U : U = UnitClauses OBVIOUS
<1>6. U = [k \in 1..Len(ids) |-> [lit |-> Clause(ids[k])[1], reason |-> ids[k]]]
  BY <1>1, <1>2, <1>3, <1>5 DEF UnitClauses
<1>7. ASSUME NEW k \in 1..Len(ids)
      PROVE  /\ U[k] \in [lit : Literals, reason : Reasons \cup {NoReason}]
             /\ U[k].reason = ids[k] /\ ids[k] \in ClauseIds /\ ids[k] # NoReason
             /\ Len(Clause(ids[k])) = 1 /\ U[k].lit = Clause(ids[k])[1]
  <2>1. PICK id : id = ids[k] /\ id \in ClauseIds /\ Len(Clause(id)) = 1
    BY <1>2, <1>4
  <2>2. /\ id \in Nat \ {0}
        /\ \A p \in 1..Len(Clause(id)) : Clause(id)[p] \in Literals
    BY <2>1, ClauseTypes
  <2>3. Clause(id)[1] \in Literals /\ id \in Reasons /\ id # NoReason
    <3>1. 1 \in 1..Len(Clause(id)) BY <2>1
    <3>2. QED BY <2>2, <3>1, ReasonAssumption DEF EveryClauseMayBeReason
  <2>4. U[k] = [lit |-> Clause(id)[1], reason |-> id] BY <1>6, <2>1
  <2>5. QED BY <2>1, <2>3, <2>4
<1>8. PICK S : S = [lit : Literals, reason : Reasons \cup {NoReason}]
  BY Zenon
<1>9. U \in Seq(S) /\ Len(U) = Len(ids)
  <2>1. U \in [1..Len(ids) -> S] BY <1>6, <1>7, <1>8
  <2>2. QED BY <1>4, <2>1, FunctionIsSeq, Zenon
<1>10. \A id \in ClauseIds : Len(Clause(id)) = 1 => \E k \in 1..Len(U) : U[k].reason = id
  BY <1>2, <1>4, <1>7, <1>9
<1>11. \A k \in 1..Len(U) :
              /\ U[k].reason \in ClauseIds /\ U[k].reason # NoReason
              /\ Len(Clause(U[k].reason)) = 1
              /\ U[k].lit = Clause(U[k].reason)[1]
  BY <1>7, <1>9
<1>12. QED BY <1>5, <1>8, <1>9, <1>10, <1>11

\* The literals of the unseen assignments to boolean variables.
LEMMA UnseenFound ==
  ASSUME LoopInv
  PROVE  /\ UnseenLiterals \in Seq([lit : Literals, reason : Reasons \cup {NoReason}])
         /\ \A k \in 1..Len(UnseenLiterals) : \E v \in BoolVars :
              /\ is_defined(v) /\ UnseenLiterals[k].lit = TrueLiteralOf(v)
              /\ UnseenLiterals[k].reason = var_reason[v]
         /\ \A v \in BoolVars : v \in VarsIn(Unseen) =>
              \E k \in 1..Len(UnseenLiterals) : UnseenLiterals[k].lit = TrueLiteralOf(v)
         /\ (\A k \in DOMAIN Unseen : Unseen[k].var \notin BoolVars) => UnseenLiterals = << >>
<1>1. /\ TrailInv /\ TrailTypeOK /\ BoolValued(model) /\ decision_level \in Nat
      /\ cursor \in [level : Int, next : Nat]
  BY InvTypes DEF LoopInv, SolverTypeOK
<1>2. PICK U : U = Unseen OBVIOUS
<1>3. PICK keep : keep = {k \in DOMAIN U : U[k].var \in BoolVars}
  BY Zenon
<1>4. PICK E : E = Chosen(U, keep) OBVIOUS
<1>5. U \in Seq(Assignment) /\ \A k \in DOMAIN U : UnseenFrom + k \in 1..Len(recent) /\ U[k] = recent[UnseenFrom + k]
  BY <1>1, <1>2, UnseenEntries
<1>6. /\ E \in Seq(Assignment)
      /\ \A k \in 1..Len(E) : \E i \in 1..Len(U) : i \in keep /\ E[k] = U[i]
      /\ \A i \in 1..Len(U) : i \in keep => \E k \in 1..Len(E) : E[k] = U[i]
  <2>1. /\ Chosen(U, keep) \in Seq(Assignment)
        /\ \A k \in 1..Len(Chosen(U, keep)) : \E i \in 1..Len(U) : i \in keep /\ Chosen(U, keep)[k] = U[i]
        /\ \A i \in 1..Len(U) : i \in keep =>
             \E k \in 1..Len(Chosen(U, keep)) : Chosen(U, keep)[k] = U[i]
    BY <1>5, ChosenElements
  <2>2. QED BY <1>4, <2>1
<1>7. Len(E) \in Nat /\ DOMAIN U = 1..Len(U) BY <1>5, <1>6
<1>8. PICK L : L = UnseenLiterals OBVIOUS
<1>9. L = [k \in 1..Len(E) |-> [lit |-> TrueLiteralOf(E[k].var), reason |-> E[k].reason]]
  BY <1>2, <1>3, <1>4, <1>8 DEF UnseenLiterals
<1>10. ASSUME NEW k \in 1..Len(E)
       PROVE  /\ L[k] \in [lit : Literals, reason : Reasons \cup {NoReason}]
              /\ E[k].var \in BoolVars /\ is_defined(E[k].var)
              /\ L[k].lit = TrueLiteralOf(E[k].var) /\ L[k].reason = var_reason[E[k].var]
  <2>1. PICK i \in keep : E[k] = U[i] BY <1>6
  <2>2. PICK v : v = E[k].var OBVIOUS
  <2>3. v \in BoolVars BY <1>3, <2>1, <2>2
  <2>4. PICK g \in 1..Len(recent) : E[k] = recent[g] BY <1>3, <1>5, <2>1
  <2>5. /\ decision_level \in 0..decision_level /\ recent = assigned(decision_level)
    BY <1>1, ListTypes
  <2>6. recent[g].reason = var_reason[recent[g].var] /\ is_defined(recent[g].var)
    BY <1>1, <2>5, EntryFacts
  <2>7. TrueLiteralOf(v) \in Literals BY <1>1, <2>3, TrueLiteral
  <2>8. var_reason[v] \in Reasons \cup {NoReason}
    BY <1>1, <2>3, VarsAssumption DEF TrailTypeOK
  <2>9. L[k] = [lit |-> TrueLiteralOf(v), reason |-> var_reason[v]] /\ is_defined(v)
    BY <1>9, <2>2, <2>4, <2>6
  <2>10. QED BY <2>2, <2>3, <2>7, <2>8, <2>9
<1>11. PICK S : S = [lit : Literals, reason : Reasons \cup {NoReason}]
  BY Zenon
<1>12. L \in Seq(S) /\ Len(L) = Len(E)
  <2>1. L \in [1..Len(E) -> S] BY <1>9, <1>10, <1>11
  <2>2. QED BY <1>7, <2>1, FunctionIsSeq
<1>13. \A k \in 1..Len(L) : \E v \in BoolVars :
              is_defined(v) /\ L[k].lit = TrueLiteralOf(v) /\ L[k].reason = var_reason[v]
  BY <1>10, <1>12
<1>14. ASSUME NEW v \in BoolVars, v \in VarsIn(U)
       PROVE  \E k \in 1..Len(L) : L[k].lit = TrueLiteralOf(v)
  <2>1. PICK i \in 1..Len(U) : U[i].var = v BY <1>14 DEF VarsIn
  <2>2. i \in keep BY <1>3, <1>7, <2>1
  <2>3. PICK k \in 1..Len(E) : E[k] = U[i] BY <1>6, <2>2
  <2>4. QED BY <1>10, <1>12, <2>1, <2>3
<1>15. ASSUME \A k \in DOMAIN U : U[k].var \notin BoolVars
       PROVE  L = << >>
  <2>1. ~(\E k : k \in 1..Len(E)) BY <1>3, <1>6, <1>15
  <2>2. Len(E) = 0 BY <1>7, <2>1
  <2>3. QED BY <1>12, <2>2
<1>16. QED BY <1>2, <1>8, <1>11, <1>12, <1>13, <1>14, <1>15

\* What Initialize puts on the stack.
StackBuilt(unit, unseen) ==
  /\ unit = UnitClauses /\ unseen = UnseenLiterals
  /\ satisfied' = IF empty THEN unit \o unseen ELSE unseen

\* Where the entries of that stack come from.
BuiltOf(unit, unseen) ==
  /\ satisfied' \in Seq([lit : Literals, reason : Reasons \cup {NoReason}])
  /\ \A k \in DOMAIN satisfied' :
       \/ empty /\ \E j \in 1..Len(unit) : satisfied'[k] = unit[j]
       \/ \E j \in 1..Len(unseen) : satisfied'[k] = unseen[j]
  /\ empty => \A j \in 1..Len(unit) : \E k \in DOMAIN satisfied' : satisfied'[k] = unit[j]
  /\ \A j \in 1..Len(unseen) : \E k \in DOMAIN satisfied' : satisfied'[k] = unseen[j]

\* The stack of a new round is the one that was described.
LEMMA BuiltStack ==
  ASSUME LoopInv, EveryClauseMayBeReason, pc = "propagate",
         NEW unit, NEW unseen, StackBuilt(unit, unseen)
  PROVE  BuiltOf(unit, unseen)
<1>1. PICK S : S = [lit : Literals, reason : Reasons \cup {NoReason}]
  BY Zenon
<1>2. unit \in Seq(S) /\ unseen \in Seq(S)
  BY <1>1, InvTypes, UnitClausesFound, UnseenFound DEF StackBuilt
<1>3. PICK s : s = satisfied' OBVIOUS
<1>4. CASE empty
  <2>1. s = unit \o unseen BY <1>3, <1>4 DEF StackBuilt
  <2>2. /\ s \in Seq(S) /\ DOMAIN s = 1..(Len(unit) + Len(unseen))
        /\ Len(unit) \in Nat /\ Len(unseen) \in Nat
        /\ \A k \in 1..Len(unit) : s[k] = unit[k]
        /\ \A k \in 1..Len(unseen) : s[Len(unit) + k] = unseen[k]
        /\ \A k \in DOMAIN s : k \in 1..Len(unit) \/ k - Len(unit) \in 1..Len(unseen)
    BY <1>2, <2>1
  <2>3. \A k \in DOMAIN s : (\E j \in 1..Len(unit) : s[k] = unit[j]) \/ (\E j \in 1..Len(unseen) : s[k] = unseen[j])
    <3>1. SUFFICES ASSUME NEW k \in DOMAIN s, k - Len(unit) \in 1..Len(unseen)
                   PROVE  \E j \in 1..Len(unseen) : s[k] = unseen[j]
      BY <2>2
    <3>2. PICK j \in 1..Len(unseen) : j = k - Len(unit) BY <3>1
    <3>3. k = Len(unit) + j BY <2>2, <3>1, <3>2
    <3>4. QED BY <2>2, <3>2, <3>3
  <2>4. \A j \in 1..Len(unit) : j \in DOMAIN s /\ s[j] = unit[j] BY <2>2
  <2>5. \A j \in 1..Len(unseen) : Len(unit) + j \in DOMAIN s /\ s[Len(unit) + j] = unseen[j]
    BY <2>2
  <2>6. QED BY <1>1, <1>3, <1>4, <2>2, <2>3, <2>4, <2>5, Zenon DEF BuiltOf
<1>5. CASE ~empty
  <2>1. s = unseen /\ DOMAIN s = 1..Len(unseen)
    BY <1>2, <1>3, <1>5 DEF StackBuilt
  <2>2. QED BY <1>1, <1>2, <1>3, <1>5, <2>1 DEF BuiltOf
<1>6. QED BY <1>4, <1>5

\* A round begins with what has not been propagated yet on the stack, and with
\* new watch lists where nothing is assigned.
LEMMA InitializeStep ==
  ASSUME LoopInv, EveryClauseMayBeReason, BoolStep, Initialize
  PROVE  LoopInv'
<1>1. PICK unit, unseen : unit = UnitClauses /\ unseen = UnseenLiterals
  OBVIOUS
<1>2. /\ pc = "propagate" /\ pc' = "bcp" /\ cursor' = SeenAll /\ round_size' = Len(recent)
      /\ Steady /\ SameClauses /\ StackBuilt(unit, unseen)
      /\ IF empty THEN watched' = InitialWatches ELSE watched' = watched
      /\ UNCHANGED <<conflicts, dbVars, visit, phase, trailVars, analysisVars, lraVars, todo,
                     choices, old_size, restarts, verdict>>
  BY <1>1 DEF BoolStep, Initialize, StackBuilt, Steady, SameClauses, lraVars
<1>3. /\ TrailInv /\ TrailTypeOK /\ BoolValued(model) /\ decision_level \in Nat
      /\ asserted \in ClauseLists /\ learned \in ClauseLists /\ verdict = "none"
  BY <1>2, InvTypes
<1>4. /\ TrailInv' /\ AssignmentsOK' /\ DatabaseOK' /\ ReasonsOK'
      /\ decision_level' = decision_level /\ recent' = recent
      /\ (WatchesLive /\ UNCHANGED watched => WatchInv')
  BY <1>2, SteadyMost
<1>5. /\ \A lit : /\ True(lit)' = True(lit) /\ False(lit)' = False(lit)
                  /\ LevelOf(lit)' = LevelOf(lit)
      /\ ClauseIds' = ClauseIds /\ \A id : Clause(id)' = Clause(id)
  BY <1>2, SteadyLiterals, SameClausesFacts
<1>6. /\ satisfied' \in Seq([lit : Literals, reason : Reasons \cup {NoReason}])
      /\ \A k \in DOMAIN satisfied' :
           \/ empty /\ \E j \in 1..Len(unit) : satisfied'[k] = unit[j]
           \/ \E j \in 1..Len(unseen) : satisfied'[k] = unseen[j]
      /\ empty => \A j \in 1..Len(unit) : \E k \in DOMAIN satisfied' : satisfied'[k] = unit[j]
      /\ \A j \in 1..Len(unseen) : \E k \in DOMAIN satisfied' : satisfied'[k] = unseen[j]
  <2>1. BuiltOf(unit, unseen) BY <1>2, BuiltStack
  <2>2. QED BY <2>1, Zenon DEF BuiltOf
<1>7. /\ \A k \in 1..Len(unit) :
           /\ unit[k].reason \in ClauseIds /\ unit[k].reason # NoReason
           /\ Len(Clause(unit[k].reason)) = 1
           /\ unit[k].lit = Clause(unit[k].reason)[1]
      /\ \A id \in ClauseIds : Len(Clause(id)) = 1 =>
           \E k \in 1..Len(unit) : unit[k].reason = id
  BY <1>1, <1>3, UnitClausesFound
<1>8. /\ \A k \in 1..Len(unseen) : \E v \in BoolVars :
           /\ is_defined(v) /\ unseen[k].lit = TrueLiteralOf(v)
           /\ unseen[k].reason = var_reason[v]
      /\ \A v \in BoolVars : v \in VarsIn(Unseen) =>
           \E k \in 1..Len(unseen) : unseen[k].lit = TrueLiteralOf(v)
      /\ (\A k \in DOMAIN Unseen : Unseen[k].var \notin BoolVars) => unseen = << >>
  BY <1>1, UnseenFound
<1>9. empty => decision_level = 0 /\ \A lit \in Literals : ~False(lit)
  <2>1. SUFFICES ASSUME empty
                 PROVE  decision_level = 0 /\ \A lit \in Literals : ~False(lit)
    OBVIOUS
  <2>2. decision_level = 0 BY <2>1 DEF empty, decision_level
  <2>3. ASSUME NEW lit \in Literals, False(lit)
        PROVE  FALSE
    <3>1. VarOf(lit) \in Vars /\ is_defined(VarOf(lit))
      BY <1>3, <2>3, FalseLiterals, LiteralTypes
    <3>2. /\ var_level[VarOf(lit)] \in 0..decision_level
          /\ \E k \in 1..Len(assigned(var_level[VarOf(lit)])) : TRUE
      BY <1>3, <3>1, OwnPosition
    <3>3. var_level[VarOf(lit)] = 0 BY <2>2, <3>2
    <3>4. assigned(0) = << >> BY <2>1 DEF empty, assigned
    <3>5. QED BY <3>2, <3>3, <3>4
  <2>4. QED BY <2>2, <2>3
<1>10. WatchInv' /\ watched' \in [Literals -> Seq([clause : Nat, index : Nat])]
  <2>1. CASE empty BY <1>2, <1>3, <2>1, InitialWatchesFit
  <2>2. CASE ~empty
    BY <1>2, <1>4, <2>2 DEF WatchesLive, LoopInv, SolverTypeOK
  <2>3. QED BY <2>1, <2>2
<1>11. Len(recent) \in Nat BY <1>3, ListTypes
<1>12. SolverTypeOK'
  <2>1. cursor' \in [level : Int, next : Nat]
    BY <1>2, <1>3, <1>11 DEF SeenAll
  <2>2. QED BY <1>2, <1>4, <1>6, <1>10, <1>11, <2>1, Zenon
       DEF LoopInv, SolverTypeOK, ProgramPoints, dbVars,
       analysisVars, lraVars, TrailInv
<1>13. FalseWatchesOK'
  <2>1. ASSUME NEW id \in ClauseIds, NEW lit \in Literals, False(lit), Awaits(lit, id)
        PROVE  Awaits(lit, id)'
    <3>1. VarOf(lit) \in VarsIn(Unseen) /\ VarOf(lit) \in BoolVars
      BY <1>2, <2>1, LiteralTypes DEF Awaits
    <3>2. PICK k \in DOMAIN satisfied' : satisfied'[k].lit = TrueLiteralOf(VarOf(lit))
      BY <1>6, <1>8, <3>1
    <3>3. TrueLiteralOf(VarOf(lit)) = -lit
      BY <1>3, <2>1, TrueLiteralOfFalse
    <3>4. QED BY <1>2, <3>2, <3>3 DEF Awaits, OnStack
  <2>2. StillAwaits BY <2>1 DEF StillAwaits
  <2>3. QED BY <1>2, <1>3, <2>2, SteadyFalseWatches DEF LoopInv
<1>14. UnitsOK'
  <2>1. ASSUME NEW id \in ClauseIds, Len(Clause(id)) = 1, empty
        PROVE  ImpliedOnStack(id)'
    BY <1>6, <1>7, <2>1, SMTT(30) DEF ImpliedOnStack
  <2>2. QED BY <1>2, <1>4, <1>5, <1>9, <2>1 DEF LoopInv, UnitsOK
<1>15. StackOK'
  <2>1. ASSUME NEW k \in DOMAIN satisfied'
        PROVE  EntryOK(satisfied[k])'
    <3>1. PICK y, id : y = satisfied'[k].lit /\ id = satisfied'[k].reason
      OBVIOUS
    <3>2. y \in Literals
      <4>1. PICK S : S = [lit : Literals, reason : Reasons \cup {NoReason}]
        BY Zenon
      <4>2. satisfied' \in Seq(S) BY <1>6, <4>1
      <4>3. satisfied'[k] \in S BY <4>2
      <4>4. QED BY <3>1, <4>1, <4>3
    <3>3. CASE empty /\ \E j \in 1..Len(unit) : satisfied'[k] = unit[j]
      <4>1. PICK j \in 1..Len(unit) : satisfied'[k] = unit[j] BY <3>3
      <4>2. id \in ClauseIds /\ id # NoReason /\ Len(Clause(id)) = 1 /\ y = Clause(id)[1]
        BY <1>7, <3>1, <4>1
      <4>3. ~False(y) /\ decision_level = 0 BY <1>9, <3>2, <3>3
      <4>4. QED BY <1>4, <1>5, <3>1, <4>2, <4>3 DEF EntryOK
    <3>4. CASE \E j \in 1..Len(unseen) : satisfied'[k] = unseen[j]
      <4>1. PICK v \in BoolVars : is_defined(v) /\ y = TrueLiteralOf(v) /\ id = var_reason[v]
        BY <1>8, <3>1, <3>4
      <4>2. True(y) /\ ~False(y)
        BY <1>3, <3>2, <4>1, TrueLiteral, FalseLiterals
      <4>3. CASE id = NoReason BY <1>5, <3>1, <4>2, <4>3 DEF EntryOK
      <4>4. CASE id # NoReason
        <5>1. id \in ClauseIds /\ ForcedBy(v, Clause(id))
          BY <4>1, <4>4 DEF LoopInv, ReasonsOK
        <5>2. Clause(id)[1] = y /\ \A p \in 2..Len(Clause(id)) : False(Clause(id)[p])
          BY <4>1, <5>1 DEF ForcedBy
        <5>3. QED BY <1>5, <3>1, <4>2, <4>4, <5>1, <5>2 DEF EntryOK
      <4>5. QED BY <4>3, <4>4
    <3>5. QED BY <1>6, <3>3, <3>4
  <2>2. QED BY <1>2, <2>1 DEF StackOK, EntryOK
<1>16. CursorOK' BY <1>2, <1>3, <1>4, <1>11 DEF CursorOK, SeenAll
<1>17. AtomsOK'
  <2>1. ASSUME Propagatable # {}
        PROVE  satisfied' = << >>
    <3>1. decision_level > 0 /\ \A k \in DOMAIN Unseen : Unseen[k].var \notin BoolVars
      BY <1>2, <2>1 DEF LoopInv, AtomsOK
    <3>2. ~empty /\ unseen = << >> BY <1>8, <1>9, <3>1
    <3>3. QED BY <1>2, <3>2 DEF StackBuilt
  <2>2. QED BY <1>2, <2>1, SteadyAtoms DEF LoopInv
<1>18. ConflictsOK' /\ LemmasOK'
  <2>1. conflicts = << >> /\ lemmas = << >> /\ work = {} /\ minimized = NothingMinimized
    BY <1>2 DEF LoopInv, ConflictsOK, LemmasOK
  <2>2. conflicts' = << >> /\ lemmas' = << >> /\ work' = {} /\ minimized' = NothingMinimized
    BY <1>2, <2>1 DEF analysisVars
  <2>3. QED BY <1>2, <2>2 DEF ConflictsOK, LemmasOK
<1>19. ExplainOK' /\ ResolveOK' /\ MinimizeOK' /\ JumpOK' /\ UnitOK' /\ SplitOK' /\ AnswerOK'
  BY <1>2, <1>3, Elsewhere
<1>20. QED BY <1>4, <1>10, <1>12, <1>13, <1>14, <1>15, <1>16, <1>17, <1>18, <1>19 DEF LoopInv
=============================================================================
