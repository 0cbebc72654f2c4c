------------------------ MODULE SubsumptionAlgorithm ------------------------
(***************************************************************************)
(* Subsumption::remove_subsumed, run on every restart: two passes over the *)
(* learned clauses with an index of occurrences, which mark subsumed       *)
(* clauses by emptying them and compare only pairs that are new since the  *)
(* previous restart.  Between restarts the solver learns more clauses.     *)
(***************************************************************************)
EXTENDS Subsumption

CONSTANTS
  ClauseSet,  \* clauses the solver may learn
  MaxLearned  \* bound on the number of learned clauses

\* The solver stops at an empty clause; it never learns it.
ASSUME LearnedAssumption ==
  /\ ClauseSet \subseteq Seq(Literals) \ {<< >>}
  /\ MaxLearned \in Nat

VARIABLES
  learned,   \* Database::learned()
  old_size,  \* number of learned clauses after the previous restart
  occur,     \* literal -> positions of the indexed clauses it occurs in
  pass,      \* 0 between restarts, else the pass
  next,      \* position of the clause the pass has reached
  before     \* the learned clauses when the restart began

subsumptionVars == <<learned, old_size, occur, pass, next, before>>

Empty == << >>

\* index(): from position first to position last.
Index(first, last) ==
  [lit \in Literals |->
     Chosen([i \in 1..last |-> i], {i \in first..last : lit \in ToSet(learned[i])})]

\* The first literal among those with the shortest list.
BestLiteral(clause) ==
  LET size(i) == Len(occur[clause[i]]) IN
  clause[CHOOSE i \in DOMAIN clause :
           \A j \in DOMAIN clause : IF j < i THEN size(i) < size(j) ELSE size(i) <= size(j)]

\* Variation: only the sizes are compared.
MarkLonger(clause, position) ==
  [i \in DOMAIN learned |->
     IF /\ clause # Empty
        /\ i \in ToSet(occur[BestLiteral(clause)]) \ {position}
        /\ Len(clause) < Len(learned[i])
       THEN Empty
       ELSE learned[i]]

\* remove_subsumed(Clause_ptr): empty the indexed clauses it subsumes.
MarkSubsumed(clause, position) ==
  [i \in DOMAIN learned |->
     IF /\ clause # Empty
        /\ i \in ToSet(occur[BestLiteral(clause)]) \ {position}
        /\ Subsumes(clause, learned[i])
       THEN Empty
       ELSE learned[i]]

SubsumptionInit ==
  /\ learned = << >>
  /\ old_size = 0
  /\ occur = [lit \in Literals |-> << >>]
  /\ pass = 0
  /\ next = 0
  /\ before = << >>

Learn ==
  /\ pass = 0
  /\ Len(learned) < MaxLearned
  /\ \E c \in ClauseSet : learned' = Append(learned, c)
  /\ UNCHANGED <<old_size, occur, pass, next, before>>

\* Index the old clauses; the first pass starts at the first new one.
Restart ==
  /\ pass = 0
  /\ before' = learned
  /\ occur' = Index(1, old_size)
  /\ pass' = 1
  /\ next' = old_size + 1
  /\ UNCHANGED <<learned, old_size>>

Step ==
  /\ pass # 0
  /\ next <= Len(learned)
  /\ learned' = MarkSubsumed(learned[next], next)
  /\ next' = next + 1
  /\ UNCHANGED <<old_size, occur, pass, before>>

\* Variation: the second pass looks at the new clauses only.
SecondPassFromNew ==
  /\ pass = 1
  /\ next > Len(learned)
  /\ occur' = Index(old_size + 1, Len(learned))
  /\ pass' = 2
  /\ next' = old_size + 1
  /\ UNCHANGED <<learned, old_size, before>>

\* Index the new clauses; the second pass looks at every clause.
SecondPass ==
  /\ pass = 1
  /\ next > Len(learned)
  /\ occur' = Index(old_size + 1, Len(learned))
  /\ pass' = 2
  /\ next' = 1
  /\ UNCHANGED <<learned, old_size, before>>

Erase ==
  /\ pass = 2
  /\ next > Len(learned)
  /\ learned' = Chosen(learned, {i \in DOMAIN learned : learned[i] # Empty})
  /\ old_size' = Len(learned')
  /\ pass' = 0
  /\ next' = 0
  /\ UNCHANGED <<occur, before>>

SubsumptionNext == Learn \/ Restart \/ Step \/ SecondPass \/ Erase

SubsumptionSpec == SubsumptionInit /\ [][SubsumptionNext]_subsumptionVars

-----------------------------------------------------------------------------
\* Types; the marks are made on clauses, never added.
SubsumptionTypeOK ==
  /\ learned \in Seq(ClauseSet \cup {Empty})
  /\ Len(learned) <= MaxLearned
  /\ before \in Seq(ClauseSet)
  /\ old_size \in 0..Len(learned)
  /\ occur \in [Literals -> Seq(1..MaxLearned)]
  /\ pass \in 0..2
  /\ next \in 0..(Len(learned) + 1)

\* Comparing only pairs with a new clause is enough: after every restart no
\* learned clause is a proper subset of another one.
NoSubsumedPairLeft ==
  LET clauses == IF pass = 0 THEN learned ELSE before IN
  \A i, j \in 1..old_size : ~Subsumes(clauses[i], clauses[j])

\* A clause is as it was, or marked because of a pair that had to be compared.
MarksAreJustified ==
  IF pass = 0 THEN \A i \in DOMAIN learned : learned[i] # Empty
  ELSE /\ Len(learned) = Len(before)
       /\ \A i \in DOMAIN learned :
            learned[i] = before[i] \/ (learned[i] = Empty /\ Subsumed(before, old_size, i))

\* The clauses the pass may mark.
Indexed == IF pass = 1 THEN 1..old_size ELSE (old_size + 1)..Len(learned)

IndexIsComplete ==
  pass # 0 =>
    \A lit \in Literals :
      /\ ToSet(occur[lit]) \subseteq Indexed
      /\ \A i \in Indexed : lit \in ToSet(learned[i]) => i \in ToSet(occur[lit])

\* What a visited clause subsumes is marked.  A clause that was marked before
\* its visit marks nothing.
VisitsAreDone ==
  /\ pass = 1 =>
       /\ next > old_size
       /\ \A j \in (old_size + 1)..Len(learned) : learned[j] # Empty
  /\ pass = 2 => next > 0
  /\ pass # 0 =>
       \A i, j \in DOMAIN learned :
         Subsumes(before[j], before[i]) /\ learned[i] # Empty =>
           /\ i <= old_size /\ j > old_size => pass = 1 /\ j >= next
           /\ i > old_size /\ pass = 2 /\ learned[j] # Empty => j >= next

\* No pair is missed, though a clause may be marked before the one it would
\* have marked is visited, and though old clauses are never compared again.
SubsumptionInv ==
  /\ SubsumptionTypeOK
  /\ NoSubsumedPairLeft
  /\ MarksAreJustified
  /\ IndexIsComplete
  /\ VisitsAreDone

\* The passes, with their index of the shortest occurrence list and their
\* marks made on the way, compute the declarative Survivors.
PassesComputeSurvivors ==
  [][Erase => learned' = Survivors(before, old_size)]_subsumptionVars

\* What a restart removes is still implied: each clause from before has a
\* subset among the clauses that stay.
RemovedAreImplied ==
  pass = 2 /\ next > Len(learned) =>
    \A c \in ToSet(before) : \E d \in ToSet(learned) :
      d # Empty /\ ToSet(d) \subseteq ToSet(c)
=============================================================================
