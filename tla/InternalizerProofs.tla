------------------------- MODULE InternalizerProofs -------------------------
(***************************************************************************)
(* Proofs about the traversal of terms, for any problems: arguments come   *)
(* first, and no term is visited twice.                                    *)
(***************************************************************************)
EXTENDS Internalizer, TLAPS

\* The terms of a table.
TermsIn(T) == {t \in Nat : index_of(t) \in DOMAIN T}

Frame == [term : TermsIn(table), next_child : Nat \ {0}]

\* What the traversal is about, and what is on its stack.
TraversalTyped ==
  /\ WellFounded(table)
  /\ assertions \in Seq(TermsIn(table))
  /\ worklist \in Seq(Frame)

\* Inductive.
TraversalInv == TraversalTyped /\ StackDescends /\ ArgumentsFirst

-----------------------------------------------------------------------------

LEMMA IndexOfTerm ==
  ASSUME NEW t \in Nat
  PROVE  index_of(t) \in Nat
BY DEF index_of

\* The arguments of a term are older terms of the same table.
LEMMA ArgumentsAreOlder ==
  ASSUME WellFounded(table), NEW t \in TermsIn(table)
  PROVE  /\ get_args(table, t) \in Seq(TermsIn(table))
         /\ \A k \in DOMAIN get_args(table, t) :
              /\ get_args(table, t)[k] \in TermsIn(table)
              /\ index_of(get_args(table, t)[k]) < index_of(t)
<1> DEFINE i == index_of(t)
           Older == {s \in 2..(2 * i - 1) : index_of(s) \in DOMAIN table}
<1>1. i \in Nat /\ i \in DOMAIN table BY IndexOfTerm DEF TermsIn
<1>2. get_args(table, t) = table[i].args BY DEF get_args
<1>3. table[i].args \in Seq(Older) BY <1>1 DEF WellFounded
<1>4. Older \subseteq TermsIn(table) BY <1>1 DEF TermsIn
<1>5. \A s \in Older : index_of(s) < i BY <1>1 DEF index_of
<1> HIDE DEF Older, i
<1>6. \A k \in DOMAIN table[i].args : table[i].args[k] \in Older BY <1>3
<1>7. table[i].args \in Seq(TermsIn(table)) BY <1>3, <1>4
<1>8. QED BY <1>2, <1>4, <1>5, <1>6, <1>7 DEF i

\* What a stack that is not empty consists of.
LEMMA StackParts ==
  ASSUME TraversalTyped, worklist # << >>
  PROVE  /\ Len(worklist) \in Nat \ {0}
         /\ DOMAIN worklist = 1..Len(worklist)
         /\ Top \in Frame /\ Top = worklist[Len(worklist)]
         /\ Below \in Seq(Frame) /\ Len(Below) = Len(worklist) - 1
         /\ \A j \in 1..(Len(worklist) - 1) : Below[j] = worklist[j]
<1>1. worklist \in Seq(Frame) BY DEF TraversalTyped
<1>2. Len(worklist) \in Nat \ {0} /\ DOMAIN worklist = 1..Len(worklist)
  BY <1>1
<1>3. Top = worklist[Len(worklist)] /\ Top \in Frame
  BY <1>1, <1>2 DEF Top, Last
<1>4. Below = SubSeq(worklist, 1, Len(worklist) - 1) BY DEF Below, Front
<1>5. /\ Below \in Seq(Frame) /\ Len(Below) = Len(worklist) - 1
      /\ \A j \in 1..(Len(worklist) - 1) : Below[j] = worklist[j]
  BY <1>1, <1>2, <1>4
<1>6. QED BY <1>2, <1>3, <1>5

LEMMA AppendParts ==
  ASSUME NEW S, NEW s \in Seq(S), NEW e \in S
  PROVE  /\ Append(s, e) \in Seq(S) /\ Len(Append(s, e)) = Len(s) + 1
         /\ DOMAIN Append(s, e) = 1..(Len(s) + 1)
         /\ Append(s, e)[Len(s) + 1] = e
         /\ \A j \in 1..Len(s) : Append(s, e)[j] = s[j]
OBVIOUS

\* ArgumentsFirst, for one entry of the stack and for the visited terms.
Closed == \A i \in processed : \A a \in ToSet(table[i].args) : index_of(a) \in processed

Waits(j) == index_of(worklist[j].term) \notin processed

Child(j, k) == get_args(table, worklist[j].term)[k]

\* The arguments counted so far are visited, or the last one is being visited.
Counted(j) ==
  \A k \in 1..(worklist[j].next_child - 1) :
    \/ index_of(Child(j, k)) \in processed
    \/ j < Len(worklist) /\ worklist[j + 1].term = Child(j, k)

LEMMA ArgumentsFirstParts ==
  TraversalTyped /\ StackDescends =>
    (ArgumentsFirst <=> Closed /\ \A j \in DOMAIN worklist : Waits(j) /\ Counted(j))
<1> SUFFICES ASSUME TraversalTyped, StackDescends
             PROVE  ArgumentsFirst <=> Closed /\ \A j \in DOMAIN worklist : Waits(j) /\ Counted(j)
  OBVIOUS
<1>1. \A j \in DOMAIN worklist : index_of(worklist[j].term) \in Nat
  <2>1. \A j \in DOMAIN worklist : worklist[j] \in Frame
    BY DEF TraversalTyped
  <2>2. QED BY <2>1, IndexOfTerm DEF Frame, TermsIn
<1>2. \A j, k \in DOMAIN worklist :
        index_of(worklist[k].term) = index_of(worklist[j].term) => k = j
  <2>1. DOMAIN worklist \subseteq Nat BY DEF TraversalTyped
  <2>2. QED BY <1>1, <2>1 DEF StackDescends
<1>3. QED BY <1>2 DEF ArgumentsFirst, Closed, Waits, Counted, Child

-----------------------------------------------------------------------------
(* The actions.                                                            *)

LEMMA InitHolds ==
  ASSUME Init
  PROVE  TraversalInv
<1>1. PICK p \in Problems : table = p.table /\ assertions = p.assertions
  BY DEF Init
<1>2. TraversalTyped
  BY <1>1, ProblemsAssumption DEF Init, TraversalTyped, TermsIn
<1>3. QED BY <1>2 DEF Init, TraversalInv, StackDescends, ArgumentsFirst

\* The first term on the stack is not visited yet.
LEMMA NextRootKeeps ==
  ASSUME TraversalInv, NextRoot
  PROVE  TraversalInv'
<1>1. PICK k \in DOMAIN assertions :
        /\ index_of(assertions[k]) \notin processed
        /\ worklist' = <<[term |-> assertions[k], next_child |-> 1]>>
  BY DEF NextRoot
<1>2. UNCHANGED <<table, assertions, processed>>
  BY DEF NextRoot, problemVars
<1>3. assertions[k] \in TermsIn(table)
  BY DEF TraversalInv, TraversalTyped
<1>4. TraversalTyped'
  <2>1. [term |-> assertions[k], next_child |-> 1] \in Frame
    BY <1>3 DEF Frame
  <2>2. worklist' \in Seq(Frame) BY <1>1, <2>1
  <2>3. QED BY <1>2, <2>2 DEF TraversalInv, TraversalTyped, Frame, TermsIn
<1>5. Len(worklist') = 1 /\ DOMAIN worklist' = {1} /\ worklist'[1].term = assertions[k]
      /\ worklist'[1].next_child = 1
  BY <1>1
<1>6. StackDescends' BY <1>5 DEF StackDescends
<1>7. ArgumentsFirst'
  BY <1>1, <1>2, <1>5 DEF TraversalInv, ArgumentsFirst
<1>8. QED BY <1>4, <1>6, <1>7 DEF TraversalInv

\* A step that leaves the problem, the stack and the visited terms alone.
LEMMA OtherStepKeeps ==
  ASSUME TraversalInv, UNCHANGED <<table, assertions, worklist, processed>>
  PROVE  TraversalInv'
BY DEF TraversalInv, TraversalTyped, Frame, TermsIn, StackDescends, ArgumentsFirst

\* A term leaves the stack when all its arguments are visited.
LEMMA VisitingKeeps ==
  ASSUME TraversalInv, NEW kinds, Visiting(kinds)
  PROVE  TraversalInv'
<1> DEFINE n == Len(worklist)
<1>1. /\ TraversalTyped /\ StackDescends /\ worklist # << >>
      /\ Closed /\ \A j \in DOMAIN worklist : Waits(j) /\ Counted(j)
  BY ArgumentsFirstParts DEF TraversalInv, Visiting
<1>2. /\ n \in Nat \ {0} /\ DOMAIN worklist = 1..n
      /\ Top \in Frame /\ Top = worklist[n]
      /\ worklist' \in Seq(Frame) /\ Len(worklist') = n - 1 /\ DOMAIN worklist' = 1..(n - 1)
      /\ \A j \in 1..(n - 1) : worklist'[j] = worklist[j]
  <2>1. worklist' = Below BY DEF Visiting
  <2>2. /\ n \in Nat \ {0} /\ DOMAIN worklist = 1..n
        /\ Top \in Frame /\ Top = worklist[n]
        /\ Below \in Seq(Frame) /\ Len(Below) = n - 1
        /\ \A j \in 1..(n - 1) : Below[j] = worklist[j]
    BY <1>1, StackParts
  <2>3. DOMAIN Below = 1..(n - 1) BY <2>2
  <2>4. QED BY <2>1, <2>2, <2>3
<1>3. /\ UNCHANGED <<table, assertions>>
      /\ processed' = processed \cup {index_of(Current)}
      /\ Top.next_child > Len(CurrentArgs)
  BY DEF Visiting, problemVars
<1>4. TraversalTyped'
  BY <1>1, <1>2, <1>3 DEF TraversalTyped, Frame, TermsIn
<1>5. StackDescends' BY <1>1, <1>2 DEF StackDescends
<1>6. Current \in TermsIn(table) /\ Current = worklist[n].term
  BY <1>2 DEF Current, Frame
<1>7. Closed'
  <2>1. CurrentArgs \in Seq(TermsIn(table)) /\ CurrentArgs = table[index_of(Current)].args
    BY <1>1, <1>6, ArgumentsAreOlder DEF TraversalTyped, CurrentArgs, get_args
  <2>2. \A k \in DOMAIN CurrentArgs : index_of(CurrentArgs[k]) \in processed
    <3>1. TAKE k \in DOMAIN CurrentArgs
    <3>2. k \in 1..(worklist[n].next_child - 1)
      BY <1>2, <1>3, <2>1 DEF Frame
    <3>3. Counted(n) /\ ~ (n < Len(worklist)) BY <1>1, <1>2
    <3>4. index_of(Child(n, k)) \in processed BY <3>2, <3>3 DEF Counted
    <3>5. Child(n, k) = CurrentArgs[k] BY <1>6 DEF Child, CurrentArgs
    <3>6. QED BY <3>4, <3>5
  <2>3. QED BY <1>1, <1>3, <2>1, <2>2 DEF Closed, ToSet
<1>8. ASSUME NEW j \in 1..(n - 1)
      PROVE  Waits(j)'
  <2>1. index_of(worklist[n].term) < index_of(worklist[j].term)
    BY <1>1, <1>2 DEF StackDescends
  <2>2. index_of(worklist[n].term) \in Nat
    BY <1>6, IndexOfTerm DEF TermsIn
  <2>3. index_of(worklist[j].term) # index_of(Current)
    BY <1>6, <2>1, <2>2
  <2>4. Waits(j) /\ worklist'[j] = worklist[j] BY <1>1, <1>2
  <2>5. QED BY <1>3, <2>3, <2>4 DEF Waits
<1>9. ASSUME NEW j \in 1..(n - 1)
      PROVE  Counted(j)'
  <2>1. Counted(j) /\ worklist'[j] = worklist[j] BY <1>1, <1>2
  <2>2. ASSUME NEW k \in 1..(worklist[j].next_child - 1)
        PROVE  \/ index_of(Child(j, k)) \in processed'
               \/ j < n - 1 /\ worklist'[j + 1].term = Child(j, k)
    <3>1. CASE index_of(Child(j, k)) \in processed BY <1>3, <3>1
    <3>2. CASE worklist[j + 1].term = Child(j, k) /\ j + 1 = n
      BY <1>3, <1>6, <3>2
    <3>3. CASE worklist[j + 1].term = Child(j, k) /\ j + 1 # n
      <4>1. j + 1 \in 1..(n - 1) /\ j < n - 1 BY <1>2, <3>3
      <4>2. QED BY <1>2, <3>3, <4>1
    <3>4. QED BY <2>1, <3>1, <3>2, <3>3 DEF Counted
  <2>3. \A k : Child(j, k)' = Child(j, k)
    BY <1>3, <2>1 DEF Child, get_args
  <2>4. QED BY <1>2, <2>1, <2>2, <2>3 DEF Counted
<1>10. ArgumentsFirst'
  <2>1. \A j \in DOMAIN worklist' : Waits(j)' /\ Counted(j)'
    BY <1>2, <1>8, <1>9
  <2>2. (TraversalTyped /\ StackDescends =>
          (ArgumentsFirst <=> Closed /\ \A j \in DOMAIN worklist : Waits(j) /\ Counted(j)))'
    BY ArgumentsFirstParts, PTL
  <2>3. QED BY <1>4, <1>5, <1>7, <2>1, <2>2
<1>11. QED BY <1>4, <1>5, <1>10 DEF TraversalInv

\* The next argument of the term on top is counted, and visited if it was not.
LEMMA DescendKeeps ==
  ASSUME TraversalInv, Descend
  PROVE  TraversalInv'
<1> DEFINE n == Len(worklist)
           m == Top.next_child
           child == CurrentArgs[m]
           counted == Append(Below, [Top EXCEPT !.next_child = @ + 1])
<1>1. /\ TraversalTyped /\ StackDescends /\ worklist # << >>
      /\ Closed /\ \A j \in DOMAIN worklist : Waits(j) /\ Counted(j)
  BY ArgumentsFirstParts DEF TraversalInv, Descend
<1>2. /\ n \in Nat \ {0} /\ DOMAIN worklist = 1..n
      /\ Top \in Frame /\ Top = worklist[n]
      /\ Below \in Seq(Frame) /\ Len(Below) = n - 1
      /\ \A j \in 1..(n - 1) : Below[j] = worklist[j]
  BY <1>1, StackParts
<1>3. /\ UNCHANGED <<table, assertions, processed>>
      /\ m <= Len(CurrentArgs)
      /\ worklist' = IF ToBeVisited(child)
                       THEN Append(counted, [term |-> child, next_child |-> 1]) ELSE counted
  BY DEF Descend, problemVars
<1>4. /\ m \in Nat \ {0} /\ Current \in TermsIn(table)
      /\ Current = worklist[n].term
  BY <1>2 DEF Frame, Current
<1>5. /\ child \in TermsIn(table) /\ index_of(child) < index_of(Current)
      /\ child = Child(n, m)
  <2>1. CurrentArgs \in Seq(TermsIn(table)) /\ CurrentArgs = get_args(table, Current)
    BY <1>1, <1>4, ArgumentsAreOlder DEF TraversalTyped, CurrentArgs
  <2>2. m \in DOMAIN CurrentArgs BY <1>3, <1>4, <2>1
  <2>3. QED BY <1>1, <1>4, <2>1, <2>2, ArgumentsAreOlder DEF TraversalTyped, Child
<1>6. [Top EXCEPT !.next_child = @ + 1] = [term |-> Current, next_child |-> m + 1]
  BY <1>2 DEF Frame, Current
<1>7. [Top EXCEPT !.next_child = @ + 1] \in Frame /\ [term |-> child, next_child |-> 1] \in Frame
  BY <1>4, <1>5, <1>6 DEF Frame
<1>8. /\ counted \in Seq(Frame) /\ Len(counted) = n /\ DOMAIN counted = 1..n
      /\ counted[n] = [term |-> Current, next_child |-> m + 1]
      /\ \A j \in 1..(n - 1) : counted[j] = worklist[j]
  <2>1. n - 1 + 1 = n BY <1>2
  <2> HIDE DEF n, m, child
  <2>2. QED BY <1>2, <1>6, <1>7, <2>1, AppendParts
<1> DEFINE grown == Append(counted, [term |-> child, next_child |-> 1])
<1>9. /\ grown \in Seq(Frame) /\ Len(grown) = n + 1 /\ DOMAIN grown = 1..(n + 1)
      /\ grown[n + 1] = [term |-> child, next_child |-> 1]
      /\ \A j \in 1..n : grown[j] = counted[j]
  <2> HIDE DEF n, m, child, counted
  <2>1. QED BY <1>7, <1>8, AppendParts
<1> DEFINE new == Len(worklist')
<1> HIDE DEF n, m, child, counted, grown
<1>10. /\ worklist' \in Seq(Frame) /\ Len(worklist') = new /\ DOMAIN worklist' = 1..new
       /\ new = n \/ new = n + 1
       /\ worklist'[n].term = Current /\ worklist'[n].next_child = m + 1
       /\ \A j \in 1..(n - 1) : worklist'[j] = worklist[j]
       /\ new = n => index_of(child) \in processed
       /\ new = n + 1 => /\ index_of(child) \notin processed
                         /\ worklist'[n + 1].term = child /\ worklist'[n + 1].next_child = 1
  <2>1. CASE ~ ToBeVisited(child)
    <3>1. worklist' = counted /\ new = n /\ n # n + 1
      BY <1>2, <1>3, <1>8, <2>1
    <3>2. index_of(child) \in processed BY <2>1 DEF ToBeVisited
    <3> HIDE DEF new
    <3>3. QED BY <1>8, <3>1, <3>2
  <2>2. CASE ToBeVisited(child)
    <3>1. worklist' = grown BY <1>3, <2>2 DEF grown
    <3>2. n \in 1..n /\ 1..(n - 1) \subseteq 1..n BY <1>2
    <3>3. grown[n] = counted[n] /\ \A j \in 1..(n - 1) : grown[j] = counted[j]
      BY <1>9, <3>2
    <3>4. new = n + 1 /\ n # n + 1 BY <1>2, <1>9, <3>1
    <3>5. index_of(child) \notin processed BY <2>2 DEF ToBeVisited
    <3>6. /\ worklist'[n].term = Current /\ worklist'[n].next_child = m + 1
          /\ \A j \in 1..(n - 1) : worklist'[j] = worklist[j]
          /\ worklist'[n + 1].term = child /\ worklist'[n + 1].next_child = 1
      BY <1>8, <1>9, <3>1, <3>3
    <3> HIDE DEF new
    <3>7. QED BY <1>9, <3>1, <3>4, <3>5, <3>6
  <2>3. QED BY <2>1, <2>2
<1> HIDE DEF new
<1>11. TraversalTyped'
  <2>1. Frame' = Frame BY <1>3 DEF Frame, TermsIn
  <2>2. QED BY <1>1, <1>3, <1>10, <2>1 DEF TraversalTyped, TermsIn
<1>12. /\ index_of(child) \in Nat /\ index_of(Current) \in Nat
       /\ \A j \in 1..(n - 1) : /\ index_of(worklist[j].term) \in Nat
                               /\ index_of(Current) < index_of(worklist[j].term)
  <2>1. \A j \in DOMAIN worklist : worklist[j] \in Frame
    BY <1>1 DEF TraversalTyped
  <2>2. \A j \in DOMAIN worklist : index_of(worklist[j].term) \in Nat
    BY <2>1, IndexOfTerm DEF Frame, TermsIn
  <2>3. index_of(child) \in Nat /\ index_of(Current) \in Nat
    BY <1>4, <1>5, IndexOfTerm DEF TermsIn
  <2>4. ASSUME NEW j \in 1..(n - 1)
        PROVE  index_of(Current) < index_of(worklist[j].term)
    <3>1. j \in DOMAIN worklist /\ n \in DOMAIN worklist /\ j < n
      BY <1>2
    <3>2. QED BY <1>1, <1>4, <3>1 DEF StackDescends
  <2>5. 1..(n - 1) \subseteq DOMAIN worklist BY <1>2
  <2>6. QED BY <2>2, <2>3, <2>4, <2>5
<1>13. StackDescends'
  <2>1. ASSUME NEW j \in 1..new, NEW k \in 1..new, j < k
        PROVE  index_of(worklist'[k].term) < index_of(worklist'[j].term)
    <3>1. CASE k <= n - 1
      <4>1. j \in 1..(n - 1) /\ k \in 1..(n - 1) /\ 1..(n - 1) \subseteq DOMAIN worklist
        BY <1>2, <1>10, <2>1, <3>1
      <4>2. worklist'[k] = worklist[k] /\ worklist'[j] = worklist[j]
        BY <1>10, <4>1
      <4>3. QED BY <1>1, <2>1, <4>1, <4>2 DEF StackDescends
    <3>2. CASE k = n
      <4>1. j \in 1..(n - 1) BY <1>2, <1>10, <2>1, <3>2
      <4>2. worklist'[k].term = Current /\ worklist'[j] = worklist[j]
        BY <1>10, <3>2, <4>1
      <4>3. QED BY <1>12, <4>1, <4>2
    <3>3. CASE k = n + 1 /\ j = n BY <1>2, <1>5, <1>10, <2>1, <3>3
    <3>4. CASE k = n + 1 /\ j <= n - 1
      <4>1. j \in 1..(n - 1) /\ worklist'[k].term = child /\ worklist'[j] = worklist[j]
        BY <1>2, <1>10, <2>1, <3>4
      <4>2. index_of(Current) < index_of(worklist[j].term) /\ index_of(worklist[j].term) \in Nat
        BY <1>12, <4>1
      <4>3. index_of(child) < index_of(worklist[j].term)
        BY <1>5, <1>12, <4>2
      <4>4. QED BY <4>1, <4>3
    <3>5. QED BY <1>2, <1>10, <2>1, <3>1, <3>2, <3>3, <3>4
  <2>2. QED BY <1>10, <2>1 DEF StackDescends
<1>14. ASSUME NEW j \in 1..new
       PROVE  Waits(j)'
  <2>1. CASE j <= n - 1
    BY <1>1, <1>2, <1>3, <1>10, <2>1, SMTT(30) DEF Waits
  <2>2. CASE j = n BY <1>1, <1>2, <1>3, <1>4, <1>10, <2>2 DEF Waits
  <2>3. CASE j = n + 1 BY <1>3, <1>10, <1>2, <2>3 DEF Waits
  <2>4. QED BY <1>2, <1>10, <2>1, <2>2, <2>3
<1>15. ASSUME NEW j \in 1..new
       PROVE  Counted(j)'
  <2>1. CASE j <= n - 1
    <3>1. j \in DOMAIN worklist /\ Counted(j) /\ worklist'[j] = worklist[j] /\ j < new
      BY <1>1, <1>2, <1>10, <2>1
    <3>2. worklist'[j + 1].term = worklist[j + 1].term
      BY <1>2, <1>4, <1>10, <2>1
    <3>3. \A k : Child(j, k)' = Child(j, k)
      BY <1>3, <3>1 DEF Child, get_args
    <3>4. \A k \in 1..(worklist[j].next_child - 1) :
            index_of(Child(j, k)) \in processed \/ worklist[j + 1].term = Child(j, k)
      BY <3>1 DEF Counted
    <3>5. QED BY <1>3, <1>10, <3>1, <3>2, <3>3, <3>4 DEF Counted
  <2>2. CASE j = n
    <3>1. \A k : Child(j, k)' = Child(n, k)
      BY <1>3, <1>4, <1>10, <2>2 DEF Child, get_args
    <3>2. \A k \in 1..(m - 1) : index_of(Child(n, k)) \in processed
      <4>1. Counted(n) /\ ~ (n < Len(worklist)) /\ m = worklist[n].next_child
        BY <1>1, <1>2 DEF n, m
      <4>2. QED BY <4>1 DEF Counted
    <3>3. index_of(Child(n, m)) \in processed \/ (n < new /\ worklist'[n + 1].term = Child(n, m))
      BY <1>2, <1>5, <1>10
    <3>4. worklist'[j].next_child - 1 = m /\ 1..m = 1..(m - 1) \cup {m}
      BY <1>4, <1>10, <2>2
    <3>5. ASSUME NEW k \in 1..m
          PROVE  \/ index_of(Child(n, k)) \in processed'
                 \/ j < new /\ worklist'[j + 1].term = Child(n, k)
      BY <1>3, <2>2, <3>2, <3>3, <3>4
    <3>6. QED BY <1>10, <3>1, <3>4, <3>5 DEF Counted
  <2>3. CASE j = n + 1
    <3>1. worklist'[j].next_child = 1 /\ 1..(1 - 1) = {}
      BY <1>2, <1>10, <2>3
    <3>2. 1..(worklist'[j].next_child - 1) = {} BY <3>1
    <3>3. QED BY <3>2 DEF Counted
  <2>4. QED BY <1>2, <1>10, <2>1, <2>2, <2>3
<1>16. ArgumentsFirst'
  <2>1. Closed' BY <1>1, <1>3 DEF Closed
  <2>2. \A j \in DOMAIN worklist' : Waits(j)' /\ Counted(j)'
    BY <1>10, <1>14, <1>15
  <2>3. (TraversalTyped /\ StackDescends =>
          (ArgumentsFirst <=> Closed /\ \A j \in DOMAIN worklist : Waits(j) /\ Counted(j)))'
    BY ArgumentsFirstParts, PTL
  <2>4. QED BY <1>11, <1>13, <2>1, <2>2, <2>3
<1>17. QED BY <1>11, <1>13, <1>16 DEF TraversalInv

-----------------------------------------------------------------------------
(* The specification.                                                      *)

LEMMA NextKeeps ==
  ASSUME TraversalInv, [Next]_vars
  PROVE  TraversalInv'
<1>1. CASE NextRoot BY <1>1, NextRootKeeps
<1>2. CASE Descend BY <1>2, DescendKeeps
<1>3. CASE Visited \/ AssertAll \/ UNCHANGED vars
  BY <1>3, OtherStepKeeps DEF Visited, AssertAll, vars, problemVars, visitVars
<1>4. CASE VisitOther BY <1>4, VisitingKeeps DEF VisitOther
<1>5. CASE VisitSymbol BY <1>5, VisitingKeeps DEF VisitSymbol
<1>6. CASE VisitGeq BY <1>6, VisitingKeeps DEF VisitGeq
<1>7. CASE VisitEq BY <1>7, VisitingKeeps DEF VisitEq
<1>8. CASE VisitBinEq BY <1>8, VisitingKeeps DEF VisitBinEq
<1>9. CASE VisitOr BY <1>9, VisitingKeeps DEF VisitOr
<1>10. CASE VisitIte BY <1>10, VisitingKeeps DEF VisitIte
<1>11. QED BY <1>1, <1>2, <1>3, <1>4, <1>5, <1>6, <1>7, <1>8, <1>9, <1>10 DEF Next

\* For any terms, shared as they may be, the traversal visits a term after its
\* arguments and only once: "If we are here, we have already processed all
\* children" (Term_visitor.h) holds, and no term gets two variables.
THEOREM ArgumentsComeFirst == Spec => [](StackDescends /\ ArgumentsFirst)
<1>1. Init => TraversalInv BY InitHolds
<1>2. TraversalInv /\ [Next]_vars => TraversalInv' BY NextKeeps
<1>3. TraversalInv => StackDescends /\ ArgumentsFirst
  BY DEF TraversalInv
<1>4. QED BY <1>1, <1>2, <1>3, PTL DEF Spec
=============================================================================
