---------------------------- MODULE PriorityQueue ----------------------------
(***************************************************************************)
(* Variable_priority_queue (src/variable_order): a 4-ary heap of variables *)
(* ordered by score, with a table of their positions.                      *)
(*                                                                         *)
(* Nodes are numbered from 1, so position 0 stands for `missing`.  A       *)
(* public operation is an action; the loops of fix_up and fix_down that it *)
(* ends with are one action per iteration, which nothing interrupts.       *)
(***************************************************************************)
EXTENDS Integers, Sequences

CONSTANTS
  QVars,   \* variables, numbered in the order of type and ordinal
  Scores,  \* scores a user may give to push and update
  Factor   \* argument of rescale

ASSUME QueueAssumption ==
  /\ QVars \subseteq Nat
  /\ Scores \subseteq Nat
  /\ Factor \in Nat \ {0}

VARIABLES
  pq,        \* sequence of nodes
  position,  \* variable -> its index in pq, or missing
  fixing     \* the loop under way: its direction, the iterator, and the
             \* indices rescale still has to fix, from rest down to 1

qVars == <<pq, position, fixing>>

missing == 0
arity == 4

Node == [var : QVars, score : Nat]

Idle == [dir |-> "none", at |-> 1, rest |-> 0]
Up(i) == [dir |-> "up", at |-> i, rest |-> 0]
Down(i, r) == [dir |-> "down", at |-> i, rest |-> r]

contains(v) == position[v] # missing

-----------------------------------------------------------------------------
(* The shape of the heap.                                                  *)

is_before(n, m) == n.score > m.score \/ (n.score = m.score /\ n.var < m.var)

parent(i) == IF i = 1 THEN 1 ELSE (i - 2) \div arity + 1

children(i) == (arity * (i - 1) + 2 .. arity * (i - 1) + arity + 1) \cap DOMAIN pq

\* Variation: the child with the smallest index.
LeftmostChild(i) == CHOOSE c \in children(i) : \A d \in children(i) : c <= d

\* The child that comes before all the other ones.
FirstChild(i) ==
  CHOOSE c \in children(i) :
    \A d \in children(i) \ {c} : is_before(pq[c], pq[d])

SwapNodes(i, j) ==
  /\ pq' = [pq EXCEPT ![i] = pq[j], ![j] = pq[i]]
  /\ position' = [position EXCEPT ![pq[i].var] = position[pq[j].var],
                                  ![pq[j].var] = position[pq[i].var]]

-----------------------------------------------------------------------------
(* Operations.                                                             *)

Push(v, s) ==
  /\ fixing = Idle
  /\ ~contains(v)
  /\ pq' = Append(pq, [var |-> v, score |-> s])
  /\ position' = [position EXCEPT ![v] = Len(pq) + 1]
  /\ fixing' = Up(Len(pq) + 1)

\* The last node replaces the first one.
Pop ==
  /\ fixing = Idle
  /\ pq # << >>
  /\ pq' = IF Len(pq) = 1 THEN << >>
           ELSE [i \in 1..(Len(pq) - 1) |-> IF i = 1 THEN pq[Len(pq)] ELSE pq[i]]
  /\ position' = [position EXCEPT ![pq[Len(pq)].var] = 1, ![pq[1].var] = missing]
  /\ fixing' = IF Len(pq) = 1 THEN Idle ELSE Down(1, 0)

Update(v, s) ==
  /\ fixing = Idle
  /\ contains(v)
  /\ pq' = [pq EXCEPT ![position[v]].score = s]
  /\ fixing' = IF pq[position[v]].score <= s THEN Up(position[v]) ELSE Down(position[v], 0)
  /\ UNCHANGED position

\* Variation: a division keeps the order of the scores, so nothing is fixed.
RescaleOnly ==
  /\ fixing = Idle
  /\ pq' = [i \in DOMAIN pq |-> [pq[i] EXCEPT !.score = @ \div Factor]]
  /\ UNCHANGED <<position, fixing>>

\* Scores that become equal change the order of their nodes: every node with
\* children is fixed again, from the last one to the root.
Rescale ==
  /\ fixing = Idle
  /\ pq' = [i \in DOMAIN pq |-> [pq[i] EXCEPT !.score = @ \div Factor]]
  /\ fixing' = IF pq = << >> THEN Idle
               ELSE Down((Len(pq) - 1) \div arity + 1, (Len(pq) - 1) \div arity)
  /\ UNCHANGED position

-----------------------------------------------------------------------------
(* The loops.                                                              *)

\* fix_up goes on to the root even when the order holds already.
FixUp ==
  /\ fixing.dir = "up"
  /\ fixing.at # 1
  /\ LET p == parent(fixing.at) IN
       /\ IF is_before(pq[fixing.at], pq[p])
            THEN SwapNodes(fixing.at, p)
            ELSE UNCHANGED <<pq, position>>
       /\ fixing' = Up(p)

FixUpEnds ==
  /\ fixing.dir = "up"
  /\ fixing.at = 1
  /\ fixing' = Idle
  /\ UNCHANGED <<pq, position>>

Sinks(i) == children(i) # {} /\ is_before(pq[FirstChild(i)], pq[i])

FixDown ==
  /\ fixing.dir = "down"
  /\ Sinks(fixing.at)
  /\ SwapNodes(FirstChild(fixing.at), fixing.at)
  /\ fixing' = Down(FirstChild(fixing.at), fixing.rest)

\* The end of one fix_down, which rescale follows with the next one.
FixDownEnds ==
  /\ fixing.dir = "down"
  /\ ~Sinks(fixing.at)
  /\ fixing' = IF fixing.rest = 0 THEN Idle ELSE Down(fixing.rest, fixing.rest - 1)
  /\ UNCHANGED <<pq, position>>

-----------------------------------------------------------------------------
Init ==
  /\ pq = << >>
  /\ position = [v \in QVars |-> missing]
  /\ fixing = Idle

Fix == FixUp \/ FixUpEnds \/ FixDown \/ FixDownEnds

Next ==
  \/ \E v \in QVars, s \in Scores : Push(v, s) \/ Update(v, s)
  \/ Pop
  \/ Rescale
  \/ Fix

Spec == Init /\ [][Next]_qVars

-----------------------------------------------------------------------------
(* Properties.                                                             *)

\* Type invariant.
QueueTypeOK ==
  /\ pq \in Seq(Node)
  /\ position \in [QVars -> Nat]
  /\ fixing \in [dir : {"none", "up", "down"}, at : Nat \ {0}, rest : Nat]

\* The table and the nodes agree: contains() and find() are right about every
\* variable, in the middle of a loop too.
PositionsAgree ==
  /\ \A i \in DOMAIN pq : position[pq[i].var] = i
  /\ \A v \in QVars : contains(v) =>
       position[v] \in DOMAIN pq /\ pq[position[v]].var = v

\* A node and its parent are in order.
Ordered(i) == is_before(pq[parent(i)], pq[i])

\* Between operations the queue is a heap.  In fix_up only the current node may
\* come before its parent, and in fix_down only after its children; whichever
\* of them moves, its grandparent or grandchildren are already in order with the
\* node that takes its place.  rescale has fixed the nodes above rest.
HeapOrder ==
  /\ fixing.dir = "none" => \A c \in 2..Len(pq) : Ordered(c)
  /\ fixing.dir = "up" =>
       \A c \in 2..Len(pq) :
         /\ c # fixing.at => Ordered(c)
         /\ parent(c) = fixing.at /\ fixing.at # 1 =>
              is_before(pq[parent(fixing.at)], pq[c])
  /\ fixing.dir = "down" =>
       \A c \in 2..Len(pq) :
         /\ parent(c) > fixing.rest /\ parent(c) # fixing.at => Ordered(c)
         /\ parent(c) = fixing.at /\ fixing.at # 1 /\ parent(fixing.at) > fixing.rest =>
              is_before(pq[parent(fixing.at)], pq[c])

\* The iterator stays in the queue.
IteratorInQueue ==
  fixing.dir # "none" => /\ fixing.at \in DOMAIN pq
                         /\ fixing.rest < Len(pq)

\* What holds of the nodes, the table and the iterators at every step of a loop;
\* inductive.
QueueInv == QueueTypeOK /\ PositionsAgree /\ IteratorInQueue /\ HeapOrder

\* The map the queue stands for.
ScoreOf == [v \in {v \in QVars : contains(v)} |-> pq[position[v]].score]

Promise == INSTANCE ScoreMap WITH score <- ScoreOf

\* The queue implements the map: pop removes the variable that comes first
\* whatever was pushed, updated and rescaled before, and the loops change
\* nothing a user can see.
ImplementsScoreMap == Promise!Spec
=============================================================================
