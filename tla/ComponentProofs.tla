-------------------------- MODULE ComponentProofs --------------------------
(***************************************************************************)
(* Proofs about three components, each on its own: the priority queue, for *)
(* any variables, scores and divisor; the removal of subsumed clauses, for *)
(* any literals and any number of clauses; and the rational numbers, for   *)
(* any width of the machine's words: that the operations on words overflow *)
(* or are exact, and that the numbers therefore are.                       *)
(***************************************************************************)
EXTENDS PriorityQueue, SubsumptionAlgorithm, LongFraction, CommonLemmas

-----------------------------------------------------------------------------
(* The order of nodes and the shape of the tree.                           *)

LEMMA NodeFields ==
  ASSUME NEW n \in Node
  PROVE  n.var \in QVars /\ n.var \in Nat /\ n.score \in Nat
BY QueueAssumption DEF Node

LEMMA BeforeTransitive ==
  ASSUME NEW n \in Node, NEW m \in Node, NEW k \in Node,
         is_before(n, m), is_before(m, k)
  PROVE  is_before(n, k)
BY NodeFields DEF is_before

LEMMA BeforeTotal ==
  ASSUME NEW n \in Node, NEW m \in Node, n.var # m.var
  PROVE  is_before(n, m) \/ is_before(m, n)
BY NodeFields DEF is_before

\* parent() and children() are inverse.
LEMMA ParentOfChild ==
  ASSUME NEW c \in Nat \ {0, 1}, NEW i \in Nat \ {0}
  PROVE  /\ parent(c) \in 1..(c - 1)
         /\ parent(c) = i <=> c \in arity * (i - 1) + 2 .. arity * (i - 1) + arity + 1
BY DEF parent, arity

LEMMA ChildrenOf ==
  ASSUME QueueTypeOK, NEW i \in Nat \ {0}
  PROVE  children(i) = {c \in 2..Len(pq) : parent(c) = i}
<1>1. DOMAIN pq = 1..Len(pq) /\ Len(pq) \in Nat BY DEF QueueTypeOK
<1>2. \A c \in DOMAIN pq : c # 1 =>
        (parent(c) = i <=> c \in arity * (i - 1) + 2 .. arity * (i - 1) + arity + 1)
  BY <1>1, ParentOfChild
<1>3. 1 \notin arity * (i - 1) + 2 .. arity * (i - 1) + arity + 1
  BY DEF arity
<1>4. QED BY <1>1, <1>2, <1>3 DEF children

\* The nodes are typed and hold different variables.
LEMMA NodesDiffer ==
  ASSUME QueueTypeOK, PositionsAgree
  PROVE  \A i, j \in DOMAIN pq :
           /\ pq[i] \in Node
           /\ i # j => pq[i].var # pq[j].var
BY DEF QueueTypeOK, PositionsAgree

\* A node with children has a child that comes before the others: at most four
\* nodes are compared, one after the other.
LEMMA FirstChildExists ==
  ASSUME QueueTypeOK, PositionsAgree, NEW i \in Nat \ {0}, children(i) # {}
  PROVE  /\ FirstChild(i) \in children(i)
         /\ \A d \in children(i) \ {FirstChild(i)} : is_before(pq[FirstChild(i)], pq[d])
<1> DEFINE k == arity * (i - 1) + 2
           Upto(j) == children(i) \cap (k .. k + j)
           HasFirst(S) == \E c \in S : \A d \in S \ {c} : is_before(pq[c], pq[d])
<1>1. k \in Nat /\ children(i) \subseteq DOMAIN pq /\ DOMAIN pq \subseteq Nat
  BY DEF children, arity, QueueTypeOK
<1>2. ASSUME NEW S \in SUBSET DOMAIN pq, NEW e \in DOMAIN pq, HasFirst(S)
      PROVE  HasFirst(S \cup {e})
  <2>1. PICK c \in S : \A d \in S \ {c} : is_before(pq[c], pq[d])
    BY <1>2
  <2>2. CASE e = c BY <2>1, <2>2
  <2>3. CASE e # c /\ is_before(pq[c], pq[e]) BY <2>1, <2>3
  <2>4. CASE e # c /\ ~ is_before(pq[c], pq[e])
    <3>1. is_before(pq[e], pq[c]) BY <2>4, BeforeTotal, NodesDiffer
    <3>2. \A d \in (S \cup {e}) \ {e} : is_before(pq[e], pq[d])
      BY <2>1, <3>1, BeforeTransitive, NodesDiffer
    <3>3. QED BY <3>2
  <2>5. QED BY <2>2, <2>3, <2>4
<1>3. k \in children(i) BY <1>1 DEF children, arity, QueueTypeOK
<1>4. HasFirst(Upto(0))
  <2>1. Upto(0) = {k} BY <1>1, <1>3
  <2>2. QED BY <2>1
<1>5. ASSUME NEW j \in 0..2, HasFirst(Upto(j))
      PROVE  HasFirst(Upto(j + 1))
  <2>1. Upto(j + 1) = IF k + j + 1 \in children(i) THEN Upto(j) \cup {k + j + 1} ELSE Upto(j)
    BY <1>1
  <2>2. Upto(j) \in SUBSET DOMAIN pq BY <1>1
  <2>3. CASE k + j + 1 \in children(i)
    <3>1. k + j + 1 \in DOMAIN pq BY <1>1, <2>3
    <3>2. HasFirst(Upto(j) \cup {k + j + 1})
      <4> HIDE DEF Upto, HasFirst
      <4>1. QED BY <1>2, <1>5, <2>2, <3>1
    <3>3. QED BY <2>1, <2>3, <3>2
  <2>4. CASE k + j + 1 \notin children(i) BY <2>1, <2>4, <1>5
  <2>5. QED BY <2>3, <2>4
<1>6. HasFirst(Upto(3))
  <2> HIDE DEF Upto, HasFirst
  <2>1. HasFirst(Upto(1)) BY <1>4, <1>5
  <2>2. HasFirst(Upto(2)) BY <2>1, <1>5
  <2>3. QED BY <2>2, <1>5
<1>7. Upto(3) = children(i) BY <1>1 DEF children, arity
<1>8. HasFirst(children(i)) BY <1>6, <1>7
<1>9. QED BY <1>8 DEF FirstChild

-----------------------------------------------------------------------------
(* Swapping two nodes: the only step of the loops that changes anything.   *)

\* The two nodes change places, the table follows, and the map the queue stands
\* for is the same.
LEMMA SwapKeeps ==
  ASSUME QueueTypeOK, PositionsAgree,
         NEW i \in DOMAIN pq, NEW j \in DOMAIN pq, i # j, SwapNodes(i, j)
  PROVE  /\ pq' \in Seq(Node) /\ Len(pq') = Len(pq)
         /\ pq'[i] = pq[j] /\ pq'[j] = pq[i]
         /\ \A k \in DOMAIN pq : k # i /\ k # j => pq'[k] = pq[k]
         /\ position' \in [QVars -> Nat]
         /\ PositionsAgree'
         /\ ScoreOf' = ScoreOf
<1>1. /\ \A k \in DOMAIN pq : pq[k] \in Node /\ pq[k].var \in QVars
      /\ pq[i].var # pq[j].var
  BY NodesDiffer, NodeFields
<1>2. pq' = [k \in 1..Len(pq) |-> IF k = j THEN pq[i] ELSE IF k = i THEN pq[j] ELSE pq[k]]
  <2>1. pq \in [1..Len(pq) -> Node] /\ i \in 1..Len(pq) /\ j \in 1..Len(pq)
    BY DEF QueueTypeOK
  <2>2. QED BY <2>1 DEF SwapNodes
<1>3. pq' \in [1..Len(pq) -> Node] /\ DOMAIN pq = 1..Len(pq) /\ Len(pq) \in Nat
  BY <1>1, <1>2 DEF QueueTypeOK
<1>4. pq' \in Seq(Node) /\ Len(pq') = Len(pq) /\ DOMAIN pq' = DOMAIN pq
  BY <1>3, FunctionIsSeq
<1>5. /\ pq'[i] = pq[j] /\ pq'[j] = pq[i]
      /\ \A k \in DOMAIN pq : k # i /\ k # j => pq'[k] = pq[k]
  BY <1>2, <1>3
<1>6. position[pq[i].var] = i /\ position[pq[j].var] = j
  BY DEF PositionsAgree
<1>7. /\ position' \in [QVars -> Nat]
      /\ position'[pq[i].var] = j /\ position'[pq[j].var] = i
      /\ \A v \in QVars : v # pq[i].var /\ v # pq[j].var => position'[v] = position[v]
  BY <1>1, <1>3, <1>6 DEF SwapNodes, QueueTypeOK
<1>8. PositionsAgree'
  <2>1. ASSUME NEW k \in DOMAIN pq'
        PROVE  position'[pq'[k].var] = k
    <3>1. k \in DOMAIN pq BY <1>4
    <3>2. k # i /\ k # j => pq[k].var # pq[i].var /\ pq[k].var # pq[j].var
      BY <3>1, NodesDiffer
    <3>3. QED BY <1>1, <1>5, <1>7, <3>1, <3>2 DEF PositionsAgree
  <2>2. ASSUME NEW v \in QVars, contains(v)'
        PROVE  position'[v] \in DOMAIN pq' /\ pq'[position'[v]].var = v
    <3>1. CASE v = pq[i].var \/ v = pq[j].var BY <1>4, <1>5, <1>7, <3>1
    <3>2. CASE v # pq[i].var /\ v # pq[j].var
      <4>1. position'[v] = position[v] /\ contains(v)
        BY <1>7, <2>2, <3>2 DEF contains
      <4>2. position[v] \in DOMAIN pq /\ pq[position[v]].var = v
        BY <4>1 DEF PositionsAgree
      <4>3. position[v] # i /\ position[v] # j BY <4>2, <3>2
      <4>4. QED BY <1>4, <1>5, <4>1, <4>2, <4>3
    <3>3. QED BY <3>1, <3>2
  <2>3. QED BY <2>1, <2>2 DEF PositionsAgree
<1>9. ASSUME NEW v \in QVars
      PROVE  /\ contains(v)' <=> contains(v)
             /\ contains(v) => pq'[position'[v]].score = pq[position[v]].score
  <2>1. CASE v = pq[i].var \/ v = pq[j].var
    BY <1>3, <1>5, <1>6, <1>7, <2>1 DEF contains, missing
  <2>2. CASE v # pq[i].var /\ v # pq[j].var
    <3>1. position'[v] = position[v] BY <1>7, <2>2
    <3>2. contains(v) => position[v] \in DOMAIN pq /\ pq[position[v]].var = v
      BY DEF PositionsAgree
    <3>3. contains(v) => position[v] # i /\ position[v] # j
      BY <3>2, <2>2
    <3>4. QED BY <1>5, <3>1, <3>2, <3>3 DEF contains
  <2>3. QED BY <2>1, <2>2
<1>10. ScoreOf' = ScoreOf BY <1>9 DEF ScoreOf
<1>11. QED BY <1>4, <1>5, <1>7, <1>8, <1>10

-----------------------------------------------------------------------------
(* The loops keep the invariant and the map.                               *)

LEMMA FixUpKeeps ==
  ASSUME QueueInv, FixUp
  PROVE  QueueInv' /\ ScoreOf' = ScoreOf
<1> DEFINE i == fixing.at
           p == parent(i)
<1> USE DEF QueueInv
<1>1. DOMAIN pq = 1..Len(pq) /\ Len(pq) \in Nat /\ i \in DOMAIN pq /\ i \in Nat \ {0, 1}
  BY DEF QueueTypeOK, FixUp, IteratorInQueue
<1>2. p \in 1..(i - 1) /\ p \in DOMAIN pq /\ p # i
  BY <1>1, ParentOfChild
<1>3. \A c \in 2..Len(pq) :
        /\ c # i => Ordered(c)
        /\ parent(c) = i => is_before(pq[p], pq[c])
  BY <1>1 DEF FixUp, HeapOrder
<1>4. \A c \in 2..Len(pq) : c \in DOMAIN pq /\ parent(c) \in DOMAIN pq /\ parent(c) < c
  BY <1>1, ParentOfChild
<1>5. fixing' = Up(p) /\ fixing'.dir = "up" /\ fixing'.at = p /\ fixing'.rest = 0
  BY DEF FixUp, Up
<1>6. fixing' \in [dir : {"none", "up", "down"}, at : Nat \ {0}, rest : Nat]
  BY <1>2, <1>1, <1>5 DEF Up
<1>7. CASE is_before(pq[i], pq[p])
  <2>1. SwapNodes(i, p) BY <1>7 DEF FixUp
  <2>2. /\ pq' \in Seq(Node) /\ Len(pq') = Len(pq)
        /\ pq'[i] = pq[p] /\ pq'[p] = pq[i]
        /\ \A k \in DOMAIN pq : k # i /\ k # p => pq'[k] = pq[k]
        /\ position' \in [QVars -> Nat]
        /\ PositionsAgree'
        /\ ScoreOf' = ScoreOf
    BY <1>1, <1>2, <2>1, SwapKeeps
  <2>3. ASSUME NEW c \in 2..Len(pq), c # p
        PROVE  is_before(pq'[parent(c)], pq'[c])
    <3>1. CASE c = i BY <1>7, <2>2, <3>1
    <3>2. CASE c # i /\ parent(c) = p
      <4>1. is_before(pq[p], pq[c]) BY <1>3, <3>2 DEF Ordered
      <4>2. is_before(pq[i], pq[c])
        BY <1>1, <1>2, <1>4, <1>7, <4>1, BeforeTransitive, NodesDiffer
      <4>3. QED BY <1>4, <2>2, <2>3, <3>2, <4>2
    <3>3. CASE c # i /\ parent(c) = i BY <1>3, <1>4, <2>2, <2>3, <3>3
    <3>4. CASE c # i /\ parent(c) # i /\ parent(c) # p
      BY <1>3, <1>4, <2>2, <2>3, <3>4 DEF Ordered
    <3>5. QED BY <3>1, <3>2, <3>3, <3>4
  <2>4. ASSUME NEW c \in 2..Len(pq), parent(c) = p, p # 1
        PROVE  is_before(pq'[parent(p)], pq'[c])
    <3>1. p \in 2..Len(pq) /\ parent(p) \in DOMAIN pq /\ parent(p) # i /\ parent(p) # p
      BY <1>1, <1>2, <1>4, <2>4
    <3>2. is_before(pq[parent(p)], pq[p]) /\ pq'[parent(p)] = pq[parent(p)]
      BY <1>2, <1>3, <2>2, <3>1 DEF Ordered
    <3>3. CASE c = i BY <2>2, <3>2, <3>3
    <3>4. CASE c # i
      <4>1. is_before(pq[p], pq[c]) /\ c # p
        BY <1>3, <1>4, <2>4, <3>4 DEF Ordered
      <4>2. is_before(pq[parent(p)], pq[c])
        BY <1>1, <1>2, <1>4, <3>1, <3>2, <4>1, BeforeTransitive, NodesDiffer
      <4>3. QED BY <1>4, <2>2, <3>2, <3>4, <4>1, <4>2
    <3>5. QED BY <3>3, <3>4
  <2>5. HeapOrder' BY <1>5, <2>2, <2>3, <2>4 DEF HeapOrder, Ordered
  <2>6. QED BY <1>1, <1>2, <1>5, <1>6, <2>2, <2>5 DEF QueueTypeOK, IteratorInQueue
<1>8. CASE ~ is_before(pq[i], pq[p])
  <2>1. UNCHANGED <<pq, position>> BY <1>8 DEF FixUp
  <2>2. is_before(pq[p], pq[i])
    BY <1>1, <1>2, <1>8, BeforeTotal, NodesDiffer
  <2>3. \A c \in 2..Len(pq) : Ordered(c) BY <1>3, <2>2 DEF Ordered
  <2>4. ASSUME NEW c \in 2..Len(pq), parent(c) = p, p # 1
        PROVE  is_before(pq[parent(p)], pq[c])
    <3>1. p \in 2..Len(pq) /\ parent(p) \in DOMAIN pq
      BY <1>1, <1>2, <1>4, <2>4
    <3>2. is_before(pq[parent(p)], pq[p]) /\ is_before(pq[p], pq[c])
      BY <2>3, <2>4, <3>1 DEF Ordered
    <3>3. QED BY <1>2, <1>4, <3>1, <3>2, BeforeTransitive, NodesDiffer
  <2>5. HeapOrder' BY <1>5, <2>1, <2>3, <2>4 DEF HeapOrder, Ordered
  <2>6. PositionsAgree' /\ ScoreOf' = ScoreOf
    BY <2>1 DEF PositionsAgree, ScoreOf, contains
  <2>7. QED BY <1>1, <1>2, <1>5, <1>6, <2>1, <2>5, <2>6 DEF QueueTypeOK, IteratorInQueue
<1>9. QED BY <1>7, <1>8

LEMMA FixUpEndsKeeps ==
  ASSUME QueueInv, FixUpEnds
  PROVE  QueueInv' /\ ScoreOf' = ScoreOf
<1> USE DEF QueueInv
<1>1. fixing' = Idle /\ UNCHANGED <<pq, position>> /\ fixing.dir = "up" /\ fixing.at = 1
  BY DEF FixUpEnds
<1>2. Len(pq) \in Nat BY DEF QueueTypeOK
<1>3. \A c \in 2..Len(pq) : Ordered(c) BY <1>1, <1>2 DEF HeapOrder
<1>4. fixing'.dir = "none" /\ fixing'.at = 1 /\ fixing'.rest = 0
  BY <1>1 DEF Idle
<1>5. HeapOrder' /\ IteratorInQueue'
  BY <1>1, <1>3, <1>4 DEF HeapOrder, Ordered, IteratorInQueue
<1>6. PositionsAgree' /\ ScoreOf' = ScoreOf
  BY <1>1 DEF PositionsAgree, ScoreOf, contains
<1>7. QED BY <1>1, <1>5, <1>6 DEF QueueTypeOK, Idle

LEMMA FixDownKeeps ==
  ASSUME QueueInv, FixDown
  PROVE  QueueInv' /\ ScoreOf' = ScoreOf
<1> DEFINE i == fixing.at
           f == FirstChild(i)
           r == fixing.rest
<1> USE DEF QueueInv
<1>1. /\ DOMAIN pq = 1..Len(pq) /\ Len(pq) \in Nat /\ i \in DOMAIN pq /\ i \in Nat \ {0}
      /\ r \in Nat /\ r < Len(pq)
  BY DEF QueueTypeOK, FixDown, IteratorInQueue
<1>2. children(i) = {c \in 2..Len(pq) : parent(c) = i}
  BY <1>1, ChildrenOf
<1>3. /\ f \in children(i) /\ is_before(pq[f], pq[i])
      /\ \A d \in children(i) \ {f} : is_before(pq[f], pq[d])
  BY <1>1, FirstChildExists DEF FixDown, Sinks
<1>4. \A c \in 2..Len(pq) : c \in DOMAIN pq /\ parent(c) \in DOMAIN pq /\ parent(c) < c
  BY <1>1, ParentOfChild
<1>5. f \in 2..Len(pq) /\ parent(f) = i /\ f # i /\ f \in DOMAIN pq
  BY <1>1, <1>2, <1>3, <1>4
<1>6. \A c \in 2..Len(pq) :
        /\ parent(c) > r /\ parent(c) # i => Ordered(c)
        /\ parent(c) = i /\ i # 1 /\ parent(i) > r => is_before(pq[parent(i)], pq[c])
  BY DEF FixDown, HeapOrder
<1>7. /\ pq' \in Seq(Node) /\ Len(pq') = Len(pq)
      /\ pq'[f] = pq[i] /\ pq'[i] = pq[f]
      /\ \A k \in DOMAIN pq : k # f /\ k # i => pq'[k] = pq[k]
      /\ position' \in [QVars -> Nat]
      /\ PositionsAgree'
      /\ ScoreOf' = ScoreOf
  BY <1>1, <1>5, SwapKeeps DEF FixDown
<1>8. fixing' = Down(f, r) /\ fixing'.dir = "down" /\ fixing'.at = f /\ fixing'.rest = r
  BY DEF FixDown, Down
<1>9. ASSUME NEW c \in 2..Len(pq), parent(c) > r, parent(c) # f
      PROVE  is_before(pq'[parent(c)], pq'[c])
  <2>1. CASE c = f BY <1>3, <1>5, <1>7, <2>1
  <2>2. CASE c # f /\ parent(c) = i
    BY <1>1, <1>2, <1>3, <1>4, <1>7, <2>2
  <2>3. CASE c = i
    <3>1. parent(i) \in DOMAIN pq /\ parent(i) # i /\ i # 1
      BY <1>4, <2>3
    <3>2. is_before(pq[parent(i)], pq[f])
      BY <1>5, <1>6, <1>9, <2>3, <3>1
    <3>3. QED BY <1>7, <1>9, <2>3, <3>1, <3>2
  <2>4. CASE c # f /\ c # i /\ parent(c) # i
    BY <1>4, <1>6, <1>7, <1>9, <2>4 DEF Ordered
  <2>5. QED BY <2>1, <2>2, <2>3, <2>4
<1>10. ASSUME NEW c \in 2..Len(pq), parent(c) = f, f # 1, parent(f) > r
       PROVE  is_before(pq'[parent(f)], pq'[c])
  <2>1. is_before(pq[f], pq[c])
    BY <1>1, <1>4, <1>5, <1>6, <1>10 DEF Ordered
  <2>2. pq'[c] = pq[c] BY <1>4, <1>5, <1>7, <1>10
  <2>3. QED BY <1>5, <1>7, <2>1, <2>2
<1>11. HeapOrder' BY <1>7, <1>8, <1>9, <1>10 DEF HeapOrder, Ordered
<1>12. QED BY <1>1, <1>5, <1>7, <1>8, <1>11 DEF QueueTypeOK, IteratorInQueue, Down

LEMMA FixDownEndsKeeps ==
  ASSUME QueueInv, FixDownEnds
  PROVE  QueueInv' /\ ScoreOf' = ScoreOf
<1> DEFINE i == fixing.at
           r == fixing.rest
<1> USE DEF QueueInv
<1>1. /\ DOMAIN pq = 1..Len(pq) /\ Len(pq) \in Nat /\ i \in DOMAIN pq /\ i \in Nat \ {0}
      /\ r \in Nat /\ r < Len(pq)
  BY DEF QueueTypeOK, FixDownEnds, IteratorInQueue
<1>2. \A c \in 2..Len(pq) : c \in DOMAIN pq /\ parent(c) \in DOMAIN pq /\ parent(c) < c
  BY <1>1, ParentOfChild
<1>3. ASSUME NEW c \in 2..Len(pq), parent(c) > r
      PROVE  Ordered(c)
  <2>1. CASE parent(c) # i BY <1>3, <2>1 DEF FixDownEnds, HeapOrder
  <2>2. CASE parent(c) = i
    <3>1. c \in children(i) BY <1>1, <2>2, ChildrenOf
    <3>2. /\ FirstChild(i) \in children(i)
          /\ c # FirstChild(i) => is_before(pq[FirstChild(i)], pq[c])
          /\ ~ is_before(pq[FirstChild(i)], pq[i])
      BY <1>1, <3>1, FirstChildExists DEF FixDownEnds, Sinks
    <3>3. FirstChild(i) \in DOMAIN pq /\ FirstChild(i) # i
      BY <1>1, <1>2, <3>2, ChildrenOf
    <3>4. is_before(pq[i], pq[FirstChild(i)])
      BY <1>1, <3>2, <3>3, BeforeTotal, NodesDiffer
    <3>5. is_before(pq[i], pq[c])
      BY <1>1, <1>2, <3>2, <3>3, <3>4, BeforeTransitive, NodesDiffer
    <3>6. QED BY <2>2, <3>5 DEF Ordered
  <2>3. QED BY <2>1, <2>2
<1>4. UNCHANGED <<pq, position>> BY DEF FixDownEnds
<1>5. PositionsAgree' /\ ScoreOf' = ScoreOf
  BY <1>4 DEF PositionsAgree, ScoreOf, contains
<1>6. CASE r = 0
  <2>1. fixing' = Idle /\ fixing'.dir = "none"
    BY <1>6 DEF FixDownEnds, Idle
  <2>2. HeapOrder'
    BY <1>1, <1>2, <1>3, <1>4, <1>6, <2>1 DEF HeapOrder, Ordered
  <2>3. QED BY <1>4, <1>5, <2>1, <2>2 DEF QueueTypeOK, IteratorInQueue, Idle
<1>7. CASE r # 0
  <2>1. /\ fixing' = Down(r, r - 1)
        /\ fixing'.dir = "down" /\ fixing'.at = r /\ fixing'.rest = r - 1
    BY <1>7 DEF FixDownEnds, Down
  <2>2. ASSUME NEW c \in 2..Len(pq), parent(c) > r - 1, parent(c) # r
        PROVE  Ordered(c)
    BY <1>1, <1>2, <1>3, <2>2
  <2>3. r # 1 => r \in Nat \ {0, 1} BY <1>1, <1>7
  <2>4. r # 1 => ~ (parent(r) > r - 1)
    <3>1. r # 1 => parent(r) \in 1..(r - 1) BY <2>3, ParentOfChild
    <3>2. QED BY <1>1, <3>1
  <2>5. HeapOrder' BY <1>4, <2>1, <2>2, <2>4 DEF HeapOrder, Ordered
  <2>6. QED BY <1>1, <1>4, <1>5, <1>7, <2>1, <2>5 DEF QueueTypeOK, IteratorInQueue, Down
<1>8. QED BY <1>6, <1>7

-----------------------------------------------------------------------------
(* The operations keep the invariant and do what the map does.             *)

LEMMA PushKeeps ==
  ASSUME QueueInv, NEW v \in QVars, NEW s \in Scores, Push(v, s)
  PROVE  QueueInv' /\ Promise!Insert(v, s)
<1> DEFINE n == Len(pq)
           e == [var |-> v, score |-> s]
<1> USE DEF QueueInv
<1>1. n \in Nat /\ DOMAIN pq = 1..n /\ e \in Node /\ ~ contains(v)
  BY QueueAssumption DEF QueueTypeOK, Node, Push
<1>2. /\ pq' \in Seq(Node) /\ Len(pq') = n + 1 /\ pq'[n + 1] = e
      /\ \A k \in DOMAIN pq : pq'[k] = pq[k]
      /\ DOMAIN pq' = 1..(n + 1)
  BY <1>1 DEF Push, QueueTypeOK
<1>3. /\ position' \in [QVars -> Nat] /\ position'[v] = n + 1
      /\ \A w \in QVars : w # v => position'[w] = position[w]
  BY <1>1 DEF Push, QueueTypeOK
<1>4. \A k \in DOMAIN pq : pq[k].var \in QVars /\ pq[k].var # v
  <2>1. \A k \in DOMAIN pq : pq[k].var \in QVars /\ position[pq[k].var] = k
    BY NodesDiffer, NodeFields DEF PositionsAgree
  <2>2. \A k \in DOMAIN pq : k # missing BY <1>1 DEF missing
  <2>3. QED BY <1>1, <2>1, <2>2 DEF contains
<1>5. PositionsAgree'
  <2>1. ASSUME NEW k \in DOMAIN pq'
        PROVE  position'[pq'[k].var] = k
    BY <1>1, <1>2, <1>3, <1>4 DEF PositionsAgree
  <2>2. ASSUME NEW w \in QVars, contains(w)'
        PROVE  position'[w] \in DOMAIN pq' /\ pq'[position'[w]].var = w
    <3>1. CASE w = v BY <1>1, <1>2, <1>3, <3>1
    <3>2. CASE w # v
      <4>1. contains(w) BY <1>3, <2>2, <3>2 DEF contains
      <4>2. position[w] \in DOMAIN pq /\ pq[position[w]].var = w
        BY <4>1 DEF PositionsAgree
      <4>3. QED BY <1>1, <1>2, <1>3, <3>2, <4>2
    <3>3. QED BY <3>1, <3>2
  <2>3. QED BY <2>1, <2>2 DEF PositionsAgree
<1>6. fixing.dir = "none" BY DEF Push, Idle
<1>7. \A c \in 2..n : is_before(pq'[parent(c)], pq'[c])
  <2>1. \A c \in 2..n : Ordered(c) BY <1>6 DEF HeapOrder
  <2>2. \A c \in 2..n : c \in DOMAIN pq /\ parent(c) \in DOMAIN pq
    BY <1>1, ParentOfChild
  <2>3. QED BY <1>2, <2>1, <2>2 DEF Ordered
<1>8. /\ fixing' = Up(n + 1)
      /\ fixing'.dir = "up" /\ fixing'.at = n + 1 /\ fixing'.rest = 0
  BY DEF Push, Up
<1>9. \A c \in 2..(n + 1) : parent(c) # n + 1 BY <1>1, ParentOfChild
<1>10. HeapOrder' BY <1>1, <1>2, <1>7, <1>8, <1>9 DEF HeapOrder, Ordered
<1>11. QueueInv'
  BY <1>1, <1>2, <1>3, <1>5, <1>8, <1>10 DEF QueueTypeOK, IteratorInQueue, Up
<1>12. \A w \in QVars :
         /\ contains(w)' <=> contains(w) \/ w = v
         /\ contains(w) => position[w] \in DOMAIN pq /\ w # v
  BY <1>1, <1>3 DEF contains, missing, PositionsAgree
<1>13. ScoreOf' = [w \in DOMAIN ScoreOf \cup {v} |-> IF w = v THEN s ELSE ScoreOf[w]]
  BY <1>2, <1>3, <1>12 DEF ScoreOf
<1>14. v \notin DOMAIN ScoreOf BY <1>1 DEF ScoreOf
<1>15. QED BY <1>11, <1>13, <1>14 DEF Promise!Insert, Promise!Contained

LEMMA UpdateKeeps ==
  ASSUME QueueInv, NEW v \in QVars, NEW s \in Scores, Update(v, s)
  PROVE  QueueInv' /\ Promise!SetScore(v, s)
<1> DEFINE i == position[v]
<1> USE DEF QueueInv
<1>1. /\ Len(pq) \in Nat /\ DOMAIN pq = 1..Len(pq)
      /\ i \in DOMAIN pq /\ pq[i].var = v /\ contains(v)
      /\ \A k \in DOMAIN pq : pq[k] \in Node
  BY NodesDiffer DEF QueueTypeOK, Update, PositionsAgree
<1>2. /\ pq' = [k \in 1..Len(pq) |-> IF k = i THEN [pq[k] EXCEPT !.score = s] ELSE pq[k]]
      /\ position' = position
  <2>1. pq \in [1..Len(pq) -> Node] BY DEF QueueTypeOK
  <2>2. QED BY <1>1, <2>1 DEF Update
<1>3. pq'[i].var = v /\ pq'[i].score = s /\ pq'[i] \in Node
  BY <1>1, <1>2, QueueAssumption DEF Node
<1>4. \A k \in DOMAIN pq : k # i => pq'[k] = pq[k] BY <1>1, <1>2
<1>5. pq' \in Seq(Node) /\ Len(pq') = Len(pq) /\ DOMAIN pq' = DOMAIN pq
  <2>1. pq' \in [1..Len(pq) -> Node] BY <1>1, <1>2, <1>3, <1>4
  <2>2. QED BY <1>1, <2>1, FunctionIsSeq
<1>6. \A k \in DOMAIN pq : pq'[k].var = pq[k].var BY <1>1, <1>3, <1>4
<1>7. PositionsAgree' BY <1>2, <1>5, <1>6 DEF PositionsAgree, contains
<1>8. \A c \in 2..Len(pq) : /\ c \in DOMAIN pq /\ parent(c) \in DOMAIN pq /\ parent(c) < c
                            /\ Ordered(c)
  BY <1>1, ParentOfChild DEF HeapOrder, Update, Idle
<1>9. ASSUME NEW c \in 2..Len(pq), c # i, parent(c) # i
      PROVE  is_before(pq'[parent(c)], pq'[c])
  BY <1>4, <1>8, <1>9 DEF Ordered
<1>10. ASSUME NEW c \in 2..Len(pq), parent(c) = i, i # 1
       PROVE  is_before(pq'[parent(i)], pq'[c])
  <2>1. i \in 2..Len(pq) /\ parent(i) \in DOMAIN pq /\ parent(i) # i /\ c # i
    BY <1>1, <1>8, <1>10
  <2>2. is_before(pq[parent(i)], pq[i]) /\ is_before(pq[i], pq[c])
    BY <1>8, <1>10, <2>1 DEF Ordered
  <2>3. is_before(pq[parent(i)], pq[c])
    BY <1>1, <1>8, <2>1, <2>2, BeforeTransitive
  <2>4. QED BY <1>4, <1>8, <2>1, <2>3
<1>11. v \in Nat /\ s \in Nat /\ pq[i].score \in Nat
  BY <1>1, NodeFields, QueueAssumption
<1>12. ScoreOf' = [ScoreOf EXCEPT ![v] = s]
  <2>1. \A w \in QVars :
          /\ contains(w)' <=> contains(w)
          /\ contains(w) => position[w] \in DOMAIN pq /\ (w # v => position[w] # i)
    BY <1>1, <1>2 DEF contains, PositionsAgree
  <2>2. QED BY <1>1, <1>2, <1>3, <1>4, <2>1 DEF ScoreOf
<1>13. v \in DOMAIN ScoreOf BY <1>1 DEF ScoreOf
<1>14. Promise!SetScore(v, s)
  BY <1>12, <1>13 DEF Promise!SetScore, Promise!Contained
<1>15. CASE pq[i].score <= s
  <2>1. /\ fixing' = Up(i) /\ fixing'.dir = "up" /\ fixing'.at = i /\ fixing'.rest = 0
    BY <1>15 DEF Update, Up
  <2>2. ASSUME NEW c \in 2..Len(pq), c # i, parent(c) = i
        PROVE  is_before(pq'[parent(c)], pq'[c])
    <3>1. is_before(pq[i], pq[c]) /\ pq'[c] = pq[c] /\ pq[c] \in Node
      BY <1>1, <1>4, <1>8, <2>2 DEF Ordered
    <3>2. pq[c].var \in Nat /\ pq[c].score \in Nat BY <3>1, NodeFields
    <3>3. QED BY <1>1, <1>3, <1>11, <1>15, <2>2, <3>1, <3>2 DEF is_before
  <2>3. HeapOrder'
    BY <1>5, <1>9, <1>10, <2>1, <2>2 DEF HeapOrder, Ordered
  <2>4. QueueTypeOK' /\ IteratorInQueue'
    BY <1>1, <1>2, <1>5, <2>1 DEF QueueTypeOK, IteratorInQueue, Up
  <2>5. QED BY <1>7, <1>14, <2>3, <2>4
<1>16. CASE ~ (pq[i].score <= s)
  <2>1. /\ fixing' = Down(i, 0) /\ fixing'.dir = "down" /\ fixing'.at = i /\ fixing'.rest = 0
    BY <1>16 DEF Update, Down
  <2>2. ASSUME NEW c \in 2..Len(pq), parent(c) # i
        PROVE  is_before(pq'[parent(c)], pq'[c])
    <3>1. CASE c = i
      <4>1. is_before(pq[parent(i)], pq[i]) /\ pq'[parent(i)] = pq[parent(i)]
            /\ pq[parent(i)] \in Node
        BY <1>1, <1>4, <1>8, <2>2, <3>1 DEF Ordered
      <4>2. pq[parent(i)].var \in Nat /\ pq[parent(i)].score \in Nat
        BY <4>1, NodeFields
      <4>3. QED BY <1>1, <1>3, <1>11, <1>16, <3>1, <4>1, <4>2 DEF is_before
    <3>2. QED BY <1>9, <2>2, <3>1
  <2>3. HeapOrder' BY <1>5, <1>10, <2>1, <2>2 DEF HeapOrder, Ordered
  <2>4. QueueTypeOK' /\ IteratorInQueue'
    BY <1>1, <1>2, <1>5, <2>1 DEF QueueTypeOK, IteratorInQueue, Down
  <2>5. QED BY <1>7, <1>14, <2>3, <2>4
<1>17. QED BY <1>15, <1>16

LEMMA RescaleKeeps ==
  ASSUME QueueInv, Rescale
  PROVE  QueueInv' /\ Promise!DivideAll
<1> USE DEF QueueInv
<1>1. /\ Len(pq) \in Nat /\ DOMAIN pq = 1..Len(pq)
      /\ \A k \in DOMAIN pq : pq[k] \in Node /\ pq[k].score \in Nat
  BY NodesDiffer, NodeFields DEF QueueTypeOK
<1>2. /\ pq' = [k \in DOMAIN pq |-> [pq[k] EXCEPT !.score = pq[k].score \div Factor]]
      /\ position' = position
  BY DEF Rescale
<1>3. \A k \in Nat : k \div Factor \in Nat BY QueueAssumption
<1>4. \A k \in DOMAIN pq : /\ pq'[k] \in Node /\ pq'[k].var = pq[k].var
                           /\ pq'[k].score = pq[k].score \div Factor
  BY <1>1, <1>2, <1>3 DEF Node
<1>5. pq' \in Seq(Node) /\ Len(pq') = Len(pq) /\ DOMAIN pq' = DOMAIN pq
  <2>1. pq' \in [1..Len(pq) -> Node] BY <1>1, <1>2, <1>4
  <2>2. QED BY <1>1, <2>1, FunctionIsSeq
<1>6. PositionsAgree' BY <1>2, <1>4, <1>5 DEF PositionsAgree, contains
<1>7. \A v \in QVars : contains(v) => position[v] \in DOMAIN pq
  BY DEF PositionsAgree
<1>8. Promise!DivideAll
  <2>1. ScoreOf' = [v \in DOMAIN ScoreOf |-> ScoreOf[v] \div Factor]
    BY <1>2, <1>4, <1>7 DEF ScoreOf, contains
  <2>2. QED BY <2>1 DEF Promise!DivideAll, Promise!Contained
<1>9. CASE pq = << >>
  <2>1. Len(pq) = 0 /\ fixing' = Idle /\ fixing'.dir = "none"
    BY <1>9 DEF Rescale, Idle
  <2>2. HeapOrder' BY <1>5, <2>1 DEF HeapOrder
  <2>3. QED BY <1>2, <1>5, <1>6, <1>8, <2>1, <2>2 DEF QueueTypeOK, IteratorInQueue, Idle
<1>10. CASE pq # << >>
  <2> DEFINE r == (Len(pq) - 1) \div arity
  <2>1. Len(pq) >= 1 BY <1>1, <1>10 DEF QueueTypeOK
  <2>2. r \in Nat /\ r < Len(pq) /\ r + 1 \in 1..Len(pq)
    BY <1>1, <2>1 DEF arity
  <2>3. \A c \in 2..Len(pq) : parent(c) <= r + 1
    BY <1>1 DEF parent, arity
  <2>4. /\ fixing' = Down(r + 1, r)
        /\ fixing'.dir = "down" /\ fixing'.at = r + 1 /\ fixing'.rest = r
    BY <1>10 DEF Rescale, Down
  <2>5. \A c \in 2..Len(pq) : parent(c) > r => parent(c) = r + 1
    <3>1. \A c \in 2..Len(pq) : parent(c) \in Nat BY <1>1, ParentOfChild
    <3>2. QED BY <2>2, <2>3, <3>1
  <2>6. r + 1 # 1 => ~ (parent(r + 1) > r)
    <3>1. r + 1 # 1 => parent(r + 1) \in 1..r BY <2>2, ParentOfChild
    <3>2. QED BY <2>2, <3>1
  <2>7. HeapOrder' BY <1>5, <2>4, <2>5, <2>6 DEF HeapOrder
  <2>8. QED BY <1>1, <1>2, <1>5, <1>6, <1>8, <2>2, <2>4, <2>7 DEF QueueTypeOK, IteratorInQueue, Down
<1>11. QED BY <1>9, <1>10

\* The first node comes before all the others: among those it does not come
\* before, the one with the least index would have its parent between them.
LEMMA RootIsFirst ==
  ASSUME QueueInv, fixing.dir = "none", pq # << >>
  PROVE  \A k \in 2..Len(pq) : is_before(pq[1], pq[k])
<1> DEFINE Bad == {k \in 2..Len(pq) : ~ is_before(pq[1], pq[k])}
<1> USE DEF QueueInv
<1>1. /\ Len(pq) \in Nat /\ DOMAIN pq = 1..Len(pq) /\ 1 \in DOMAIN pq
      /\ \A k \in DOMAIN pq : pq[k] \in Node
  BY NodesDiffer DEF QueueTypeOK
<1>2. SUFFICES ASSUME Bad # {} PROVE FALSE OBVIOUS
<1>3. Bad \in SUBSET Nat BY <1>1
<1>4. PICK k \in Bad : \A j \in Bad : k <= j
  <2> HIDE DEF Bad
  <2>1. QED BY <1>2, <1>3, LeastNatural
<1>5. k \in 2..Len(pq) /\ ~ is_before(pq[1], pq[k]) BY <1>4
<1>6. parent(k) \in 1..(k - 1) /\ is_before(pq[parent(k)], pq[k])
  BY <1>1, <1>5, ParentOfChild DEF HeapOrder, Ordered
<1>7. parent(k) # 1 BY <1>5, <1>6
<1>8. parent(k) \in 2..Len(pq) /\ parent(k) < k
  BY <1>1, <1>5, <1>6, <1>7
<1>9. parent(k) \notin Bad BY <1>3, <1>4, <1>8
<1>10. is_before(pq[1], pq[parent(k)]) BY <1>8, <1>9
<1>11. is_before(pq[1], pq[k])
  BY <1>1, <1>5, <1>6, <1>8, <1>10, BeforeTransitive
<1>12. QED BY <1>5, <1>11

LEMMA PopKeeps ==
  ASSUME QueueInv, Pop
  PROVE  QueueInv' /\ Promise!RemoveBest
<1> DEFINE n == Len(pq)
           top == pq[1].var
           last == pq[n].var
<1> USE DEF QueueInv
<1>1. /\ n \in Nat /\ n >= 1 /\ DOMAIN pq = 1..n /\ fixing.dir = "none"
      /\ \A k \in DOMAIN pq : pq[k] \in Node /\ pq[k].var \in QVars
      /\ \A k \in DOMAIN pq : position[pq[k].var] = k
      /\ \A j, k \in DOMAIN pq : j # k => pq[j].var # pq[k].var
  BY NodesDiffer, NodeFields DEF QueueTypeOK, Pop, Idle, PositionsAgree
<1>2. /\ pq' \in Seq(Node) /\ Len(pq') = n - 1 /\ DOMAIN pq' = 1..(n - 1)
      /\ \A k \in 1..(n - 1) : pq'[k] = IF k = 1 THEN pq[n] ELSE pq[k]
  <2>1. CASE n = 1 BY <2>1 DEF Pop
  <2>2. CASE n # 1
    <3>1. pq' = [k \in 1..(n - 1) |-> IF k = 1 THEN pq[n] ELSE pq[k]]
      BY <2>2 DEF Pop
    <3>2. pq' \in [1..(n - 1) -> Node] /\ n - 1 \in Nat BY <1>1, <3>1
    <3>3. QED BY <3>1, <3>2, FunctionIsSeq
  <2>3. QED BY <2>1, <2>2
<1>3. /\ position' \in [QVars -> Nat]
      /\ position'[top] = missing
      /\ n # 1 => position'[last] = 1
      /\ \A v \in QVars : v # top /\ v # last => position'[v] = position[v]
  <2>1. position' = [position EXCEPT ![last] = 1, ![top] = missing]
    BY DEF Pop
  <2>2. top \in QVars /\ last \in QVars /\ (n # 1 => top # last) BY <1>1
  <2>3. QED BY <2>1, <2>2 DEF QueueTypeOK, missing
<1>4. ASSUME NEW v \in QVars
      PROVE  /\ contains(v)' <=> contains(v) /\ v # top
             /\ contains(v)' => /\ position'[v] \in 1..(n - 1)
                                /\ pq'[position'[v]] = pq[position[v]]
                                /\ pq[position[v]].var = v
  <2>1. CASE v = top BY <1>3, <2>1 DEF contains
  <2>2. CASE v # top /\ v = last
    BY <1>1, <1>2, <1>3, <2>2 DEF contains, missing
  <2>3. CASE v # top /\ v # last
    <3>1. position'[v] = position[v] /\ (contains(v)' <=> contains(v))
      BY <1>3, <2>3 DEF contains
    <3>2. contains(v) => position[v] \in DOMAIN pq /\ pq[position[v]].var = v
      BY DEF PositionsAgree
    <3>3. contains(v) => position[v] # 1 /\ position[v] # n
      BY <3>2, <2>3
    <3>4. QED BY <1>1, <1>2, <2>3, <3>1, <3>2, <3>3
  <2>4. QED BY <2>1, <2>2, <2>3
<1>5. PositionsAgree'
  <2>1. ASSUME NEW k \in DOMAIN pq'
        PROVE  position'[pq'[k].var] = k
    <3>1. CASE k = 1 BY <1>1, <1>2, <1>3, <2>1, <3>1
    <3>2. CASE k # 1
      <4>1. k \in DOMAIN pq /\ pq'[k] = pq[k] /\ k # n
        BY <1>1, <1>2, <2>1, <3>2
      <4>2. pq[k].var # top /\ pq[k].var # last BY <1>1, <3>2, <4>1
      <4>3. QED BY <1>1, <1>3, <4>1, <4>2
    <3>3. QED BY <3>1, <3>2
  <2>2. \A v \in QVars : contains(v)' => position'[v] \in DOMAIN pq' /\ pq'[position'[v]].var = v
    BY <1>2, <1>4
  <2>3. QED BY <2>1, <2>2 DEF PositionsAgree
<1>6. Promise!RemoveBest
  <2>1. \A v \in QVars : contains(v) => position[v] \in DOMAIN pq /\ pq[position[v]].var = v
    BY DEF PositionsAgree
  <2>2. top \in QVars /\ contains(top) /\ position[top] = 1
    BY <1>1 DEF contains, missing
  <2>3. Promise!Best(top)
    <3>1. ASSUME NEW w \in DOMAIN ScoreOf \ {top}
          PROVE  is_before(pq[1], pq[position[w]]) /\ pq[position[w]].var = w
      <4>1. w \in QVars /\ contains(w) /\ w # top BY DEF ScoreOf
      <4>2. position[w] \in DOMAIN pq /\ pq[position[w]].var = w
        BY <2>1, <4>1
      <4>3. position[w] # 1 BY <4>1, <4>2
      <4>4. position[w] \in 2..n BY <1>1, <4>2, <4>3
      <4>5. QED BY <1>1, <4>2, <4>4, RootIsFirst DEF Pop
    <3>2. \A w \in DOMAIN ScoreOf : ScoreOf[w] = pq[position[w]].score
      BY DEF ScoreOf
    <3>3. top \in DOMAIN ScoreOf BY <2>2 DEF ScoreOf
    <3>4. QED BY <2>2, <3>1, <3>2, <3>3 DEF Promise!Best, Promise!Contained, Promise!Precedes, is_before
  <2>4. ScoreOf' = [w \in DOMAIN ScoreOf \ {top} |-> ScoreOf[w]]
    BY <1>4 DEF ScoreOf
  <2>5. QED BY <2>2, <2>3, <2>4 DEF Promise!RemoveBest, Promise!Contained
<1>7. CASE n = 1
  <2>1. fixing' = Idle /\ fixing'.dir = "none" BY <1>7 DEF Pop, Idle
  <2>2. HeapOrder' BY <1>2, <1>7, <2>1 DEF HeapOrder
  <2>3. QED BY <1>2, <1>3, <1>5, <1>6, <2>1, <2>2 DEF QueueTypeOK, IteratorInQueue, Idle
<1>8. CASE n # 1
  <2>1. /\ fixing' = Down(1, 0) /\ fixing'.dir = "down" /\ fixing'.at = 1 /\ fixing'.rest = 0
    BY <1>8 DEF Pop, Down
  <2>2. ASSUME NEW c \in 2..(n - 1), parent(c) # 1
        PROVE  is_before(pq'[parent(c)], pq'[c])
    <3>1. parent(c) \in 2..(n - 1) /\ c \in 2..n
      <4>1. c \in Nat \ {0, 1} /\ c <= n - 1 BY <1>1
      <4>2. parent(c) \in 1..(c - 1) BY <4>1, ParentOfChild
      <4>3. QED BY <1>1, <2>2, <4>1, <4>2
    <3>2. pq'[parent(c)] = pq[parent(c)] /\ pq'[c] = pq[c]
      BY <1>1, <1>2, <3>1
    <3>3. Ordered(c) BY <1>1, <3>1 DEF HeapOrder
    <3>4. QED BY <3>2, <3>3 DEF Ordered
  <2>3. HeapOrder' BY <1>2, <2>1, <2>2 DEF HeapOrder, Ordered
  <2>4. QED BY <1>1, <1>2, <1>3, <1>5, <1>6, <1>8, <2>1, <2>3 DEF QueueTypeOK, IteratorInQueue, Down
<1>9. QED BY <1>7, <1>8

-----------------------------------------------------------------------------
(* The specification.                                                      *)

LEMMA InitHolds ==
  ASSUME Init
  PROVE  QueueInv /\ Promise!Init
<1>1. pq = << >> /\ fixing = Idle /\ \A v \in QVars : ~ contains(v)
  BY DEF Init, contains
<1>2. QueueTypeOK BY DEF Init, QueueTypeOK, Idle, missing
<1>3. QueueInv
  BY <1>1, <1>2 DEF QueueInv, PositionsAgree, IteratorInQueue, HeapOrder, Idle
<1>4. Promise!Init BY <1>1 DEF Promise!Init, ScoreOf
<1>5. QED BY <1>3, <1>4

\* A step keeps the invariant, and is a step of the map or changes nothing in
\* it.
LEMMA NextHolds ==
  ASSUME QueueInv, [Next]_qVars
  PROVE  QueueInv' /\ [Promise!Next]_ScoreOf
<1>1. ASSUME NEW v \in QVars, NEW s \in Scores, Push(v, s)
      PROVE  QueueInv' /\ [Promise!Next]_ScoreOf
  BY <1>1, PushKeeps DEF Promise!Next
<1>2. ASSUME NEW v \in QVars, NEW s \in Scores, Update(v, s)
      PROVE  QueueInv' /\ [Promise!Next]_ScoreOf
  BY <1>2, UpdateKeeps DEF Promise!Next
<1>3. CASE Pop BY <1>3, PopKeeps DEF Promise!Next
<1>4. CASE Rescale BY <1>4, RescaleKeeps DEF Promise!Next
<1>5. CASE FixUp BY <1>5, FixUpKeeps
<1>6. CASE FixUpEnds BY <1>6, FixUpEndsKeeps
<1>7. CASE FixDown BY <1>7, FixDownKeeps
<1>8. CASE FixDownEnds BY <1>8, FixDownEndsKeeps
<1>9. CASE UNCHANGED qVars
  BY <1>9 DEF qVars, QueueTypeOK, QueueInv, PositionsAgree, IteratorInQueue,
              HeapOrder, Ordered, ScoreOf, contains
<1>10. QED BY <1>1, <1>2, <1>3, <1>4, <1>5, <1>6, <1>7, <1>8, <1>9 DEF Next, Fix

\* After any operations the table of positions is right and the nodes form a
\* heap, but for the node a loop is moving (Variable_priority_queue.cpp:81-118).
THEOREM QueueCorrect == Spec => []QueueInv
<1>1. Init => QueueInv BY InitHolds
<1>2. QueueInv /\ [Next]_qVars => QueueInv' BY NextHolds
<1>3. QED BY <1>1, <1>2, PTL DEF Spec

\* The queue implements the map of ScoreMap: in particular pop always removes
\* the variable that comes first (Variable_priority_queue.h:32-36).
THEOREM QueueImplementsScoreMap == Spec => ImplementsScoreMap
<1>1. Init => Promise!Init BY InitHolds
<1>2. QueueInv /\ [Next]_qVars => [Promise!Next]_ScoreOf BY NextHolds
<1>3. QED BY <1>1, <1>2, QueueCorrect, PTL DEF Spec, ImplementsScoreMap, Promise!Spec

-----------------------------------------------------------------------------
(* Subsumption and the index.                                              *)

LEMMA SubsumesIsTransitive ==
  ASSUME NEW a, NEW b, NEW c,
         Len(a) \in Nat, Len(b) \in Nat, Len(c) \in Nat,
         Subsumes(a, b), Subsumes(b, c)
  PROVE  Subsumes(a, c)
BY DEF Subsumes

\* One of the shortest lists is found, and the first of those.
LEMMA BestLiteralExists ==
  ASSUME SubsumptionTypeOK, NEW clause \in Seq(Literals), clause # << >>
  PROVE  BestLiteral(clause) \in ToSet(clause)
<1> DEFINE size(i) == Len(occur[clause[i]])
           Least(i) == \A j \in DOMAIN clause : size(i) <= size(j)
           Sizes == {size(i) : i \in DOMAIN clause}
           Firsts == {i \in DOMAIN clause : Least(i)}
<1>1. DOMAIN clause = 1..Len(clause) /\ 1 \in DOMAIN clause OBVIOUS
<1>2. \A i \in DOMAIN clause : size(i) \in Nat BY DEF SubsumptionTypeOK
<1>3. \E i \in DOMAIN clause : Least(i)
  <2>1. Sizes \in SUBSET Nat /\ Sizes # {} BY <1>1, <1>2
  <2>2. PICK n \in Sizes : \A m \in Sizes : n <= m BY <2>1, LeastNatural
  <2>3. PICK i \in DOMAIN clause : n = size(i) BY <2>2
  <2>4. QED BY <2>2, <2>3
<1>4. PICK i \in Firsts : \A j \in Firsts : i <= j
  <2>1. Firsts \in SUBSET Nat /\ Firsts # {} BY <1>1, <1>3, SMTT(30)
  <2>2. QED BY <2>1, LeastNatural
<1>5. i \in DOMAIN clause /\ Least(i) BY <1>4
<1>6. \A j \in DOMAIN clause : IF j < i THEN size(i) < size(j) ELSE size(i) <= size(j)
  <2>1. TAKE j \in DOMAIN clause
  <2>2. size(i) <= size(j) BY <1>5
  <2>3. ASSUME j < i
        PROVE  size(i) < size(j)
    <3>1. j \notin Firsts
      <4> HIDE DEF Firsts
      <4> QED
        BY <1>1, <1>4, <1>5, <2>3
    <3>2. PICK k \in DOMAIN clause : ~ (size(j) <= size(k)) BY <3>1
    <3>3. size(i) <= size(k) /\ size(i) \in Nat /\ size(j) \in Nat /\ size(k) \in Nat
      BY <1>2, <1>5
    <3> HIDE DEF size
    <3>4. QED BY <3>2, <3>3
  <2>4. QED BY <2>2, <2>3
<1>7. \E k \in DOMAIN clause :
        \A j \in DOMAIN clause : IF j < k THEN size(k) < size(j) ELSE size(k) <= size(j)
  BY <1>5, <1>6
<1>8. QED BY <1>7 DEF BestLiteral, ToSet

\* What a visit marks: indexed clauses that the visited one subsumes, and all
\* of them.
LEMMA VisitMarks ==
  ASSUME SubsumptionTypeOK, IndexIsComplete, pass # 0, NEW p \in DOMAIN learned
  PROVE  LET c == learned[p]
             marked == MarkSubsumed(c, p)
         IN /\ marked \in Seq(ClauseSet \cup {Empty})
            /\ Len(marked) = Len(learned)
            /\ \A i \in DOMAIN learned :
                 \/ marked[i] = learned[i]
                 \/ marked[i] = Empty /\ c # Empty /\ i \in Indexed /\ Subsumes(c, learned[i])
            /\ \A i \in DOMAIN learned :
                 i \in Indexed /\ c # Empty /\ Subsumes(c, learned[i]) => marked[i] = Empty
<1> DEFINE c == learned[p]
           marked == MarkSubsumed(c, p)
           Condition(i) == /\ c # Empty
                           /\ i \in ToSet(occur[BestLiteral(c)]) \ {p}
                           /\ Subsumes(c, learned[i])
<1>1. DOMAIN learned = 1..Len(learned) /\ Len(learned) \in Nat
      /\ \A i \in DOMAIN learned : learned[i] \in ClauseSet \cup {Empty}
  BY DEF SubsumptionTypeOK
<1>2. marked = [i \in DOMAIN learned |-> IF Condition(i) THEN Empty ELSE learned[i]]
  BY DEF MarkSubsumed
<1>3. marked \in [1..Len(learned) -> ClauseSet \cup {Empty}]
  BY <1>1, <1>2
<1>4. marked \in Seq(ClauseSet \cup {Empty}) /\ Len(marked) = Len(learned)
  BY <1>1, <1>3, FunctionIsSeq
<1>5. ASSUME c # Empty
      PROVE  BestLiteral(c) \in ToSet(c) /\ BestLiteral(c) \in Literals
  <2>1. c \in Seq(Literals) /\ c # << >>
    BY <1>1, <1>5, LearnedAssumption DEF Empty
  <2>2. BestLiteral(c) \in ToSet(c) BY <2>1, BestLiteralExists
  <2>3. ToSet(c) \subseteq Literals BY <2>1 DEF ToSet
  <2>4. QED BY <2>2, <2>3
<1>6. ASSUME NEW i \in DOMAIN learned, Condition(i)
      PROVE  i \in Indexed
  BY <1>5, <1>6 DEF IndexIsComplete
<1>7. ASSUME NEW i \in DOMAIN learned, i \in Indexed, c # Empty, Subsumes(c, learned[i])
      PROVE  Condition(i)
  <2>1. BestLiteral(c) \in ToSet(learned[i]) BY <1>5, <1>7 DEF Subsumes
  <2>2. i \in ToSet(occur[BestLiteral(c)])
    BY <1>5, <1>7, <2>1 DEF IndexIsComplete
  <2>3. i # p
    <3>1. Len(learned[i]) \in Nat BY <1>1, LearnedAssumption DEF Empty
    <3>2. QED BY <1>7, <3>1 DEF Subsumes
  <2>4. QED BY <1>7, <2>2, <2>3
<1> HIDE DEF Condition
<1>8. \A i \in DOMAIN learned : marked[i] = IF Condition(i) THEN Empty ELSE learned[i]
  BY <1>2
<1>9. \A i \in DOMAIN learned : Condition(i) => c # Empty /\ Subsumes(c, learned[i])
  BY DEF Condition
<1>10. QED BY <1>4, <1>6, <1>7, <1>8, <1>9

\* The index has the positions of the clauses with a literal, in its range.
LEMMA IndexFinds ==
  ASSUME SubsumptionTypeOK, NEW first \in Nat \ {0}, NEW last \in 0..Len(learned)
  PROVE  /\ Index(first, last) \in [Literals -> Seq(1..MaxLearned)]
         /\ \A lit \in Literals :
              ToSet(Index(first, last)[lit]) = {i \in first..last : lit \in ToSet(learned[i])}
<1> DEFINE Having(lit) == {i \in first..last : lit \in ToSet(learned[i])}
           List(lit) == Chosen([i \in 1..last |-> i], Having(lit))
<1>1. last \in Nat /\ 1..last \subseteq 1..MaxLearned /\ first..last \subseteq 1..last
  BY LearnedAssumption DEF SubsumptionTypeOK
<1>2. ASSUME NEW s \in Seq(1..last)
      PROVE  s \in Seq(1..MaxLearned)
  <2>1. Len(s) \in Nat /\ s \in [1..Len(s) -> 1..MaxLearned] BY <1>1
  <2>2. QED BY <2>1, FunctionIsSeq
<1>3. ASSUME NEW lit \in Literals
      PROVE  List(lit) \in Seq(1..MaxLearned) /\ ToSet(List(lit)) = Having(lit)
  <2>1. Having(lit) \in SUBSET (1..last) BY <1>1
  <2> HIDE DEF Having
  <2>2. QED BY <1>1, <1>2, <2>1, ChosenPositions DEF ToSet, Range
<1>4. Index(first, last) = [lit \in Literals |-> List(lit)] BY DEF Index
<1> HIDE DEF List
<1>5. QED BY <1>3, <1>4

-----------------------------------------------------------------------------
(* What the invariant says of the clauses.                                 *)

LEMMA ClauseFacts ==
  ASSUME SubsumptionTypeOK
  PROVE  /\ DOMAIN learned = 1..Len(learned) /\ Len(learned) \in Nat
         /\ DOMAIN before = 1..Len(before) /\ Len(before) \in Nat
         /\ old_size \in Nat /\ old_size <= Len(learned)
         /\ \A i \in DOMAIN learned : learned[i] \in ClauseSet \cup {Empty}
         /\ \A i \in DOMAIN before : before[i] \in ClauseSet
         /\ Empty \notin ClauseSet
         /\ \A c \in ClauseSet \cup {Empty} : Len(c) \in Nat
         /\ \A c, d \in ClauseSet \cup {Empty} : Subsumes(c, d) => d # Empty
<1>1. \A c \in ClauseSet \cup {Empty} : Len(c) \in Nat
  BY LearnedAssumption DEF Empty
<1>2. Empty \notin ClauseSet BY LearnedAssumption DEF Empty
<1>3. Len(Empty) = 0 BY DEF Empty
<1>4. \A c, d \in ClauseSet \cup {Empty} : Subsumes(c, d) => d # Empty
  BY <1>1, <1>3 DEF Subsumes
<1>5. QED BY <1>1, <1>2, <1>4 DEF SubsumptionTypeOK

\* When every clause has been visited twice, those are marked that had to be.
\* If the clause that had to mark another one was marked itself, a still
\* shorter one did both.
LEMMA AllAreMarked ==
  ASSUME SubsumptionInv, pass = 2, next > Len(learned)
  PROVE  \A i \in DOMAIN learned :
           /\ Subsumed(before, old_size, i) => learned[i] = Empty
           /\ ~Subsumed(before, old_size, i) => learned[i] = before[i] /\ learned[i] # Empty
<1>1. /\ SubsumptionTypeOK
      /\ Len(learned) = Len(before)
      /\ \A i \in DOMAIN learned :
           learned[i] = before[i] \/ (learned[i] = Empty /\ Subsumed(before, old_size, i))
      /\ \A i, j \in DOMAIN learned :
           Subsumes(before[j], before[i]) /\ learned[i] # Empty =>
             /\ ~(i <= old_size /\ j > old_size)
             /\ i > old_size /\ learned[j] # Empty => j >= next
  BY DEF SubsumptionInv, MarksAreJustified, VisitsAreDone
<1>2. /\ DOMAIN learned = DOMAIN before
      /\ \A i \in DOMAIN learned : before[i] \in ClauseSet /\ before[i] # Empty
      /\ \A i \in DOMAIN learned : Len(before[i]) \in Nat
      /\ \A i \in DOMAIN learned : i \in Nat /\ i <= Len(learned)
      /\ old_size \in Nat /\ Len(learned) \in Nat
  BY <1>1, ClauseFacts
<1>3. SUFFICES ASSUME NEW i \in DOMAIN learned, Subsumed(before, old_size, i), learned[i] # Empty
               PROVE  FALSE
  BY <1>1, <1>2
<1> DEFINE By == {j \in DOMAIN learned :
                    (i > old_size \/ j > old_size) /\ Subsumes(before[j], before[i])}
           Sizes == {Len(before[j]) : j \in By}
<1>4. PICK j \in By : \A k \in By : Len(before[j]) <= Len(before[k])
  <2>1. Sizes \in SUBSET Nat /\ Sizes # {} BY <1>2, <1>3 DEF Subsumed
  <2>2. PICK n \in Sizes : \A m \in Sizes : n <= m BY <2>1, LeastNatural
  <2>3. PICK j \in By : n = Len(before[j]) BY <2>2
  <2>4. QED BY <2>2, <2>3
<1>5. j \in DOMAIN learned /\ (i > old_size \/ j > old_size) /\ Subsumes(before[j], before[i])
  BY <1>4
<1>6. i > old_size BY <1>1, <1>2, <1>3, <1>5
<1>7. learned[j] = Empty
  <2>1. ~(j >= next)
    <3>1. next \in Int BY <1>1 DEF SubsumptionTypeOK
    <3>2. QED BY <1>2, <1>5, <3>1
  <2>2. QED BY <1>1, <1>3, <1>5, <1>6, <2>1
<1>8. Subsumed(before, old_size, j) BY <1>1, <1>2, <1>5, <1>7
<1>9. PICK k \in DOMAIN learned : Subsumes(before[k], before[j])
  BY <1>2, <1>8 DEF Subsumed
<1>10. Subsumes(before[k], before[i])
  BY <1>2, <1>5, <1>9, SubsumesIsTransitive
<1>11. k \in By BY <1>6, <1>10
<1>12. Len(before[k]) < Len(before[j]) BY <1>9 DEF Subsumes
<1> HIDE DEF By
<1>13. QED BY <1>2, <1>4, <1>5, <1>11, <1>12

-----------------------------------------------------------------------------
(* Every action keeps the invariant.                                       *)

LEMMA SubsumptionInitHolds ==
  ASSUME SubsumptionInit
  PROVE  SubsumptionInv
<1>1. SubsumptionTypeOK
  BY LearnedAssumption DEF SubsumptionInit, SubsumptionTypeOK
<1>2. QED BY <1>1 DEF SubsumptionInit, SubsumptionInv, NoSubsumedPairLeft, MarksAreJustified,
              IndexIsComplete, VisitsAreDone

LEMMA LearnKeeps ==
  ASSUME SubsumptionInv, Learn
  PROVE  SubsumptionInv'
<1>1. PICK c \in ClauseSet : learned' = Append(learned, c) BY DEF Learn
<1>2. /\ pass = 0 /\ pass' = 0 /\ Len(learned) < MaxLearned
      /\ old_size' = old_size /\ occur' = occur /\ next' = next /\ before' = before
      /\ SubsumptionTypeOK
      /\ \A i \in DOMAIN learned : learned[i] # Empty
      /\ \A i, j \in 1..old_size : ~Subsumes(learned[i], learned[j])
  BY DEF Learn, SubsumptionInv, NoSubsumedPairLeft, MarksAreJustified
<1>3. /\ learned' \in Seq(ClauseSet \cup {Empty})
      /\ Len(learned') = Len(learned) + 1
      /\ \A i \in DOMAIN learned : learned'[i] = learned[i]
      /\ learned'[Len(learned) + 1] = c
      /\ DOMAIN learned' = 1..(Len(learned) + 1)
  BY <1>1, <1>2 DEF SubsumptionTypeOK
<1>4. SubsumptionTypeOK'
  <2>1. Len(learned') <= MaxLearned
    BY <1>2, <1>3, LearnedAssumption DEF SubsumptionTypeOK
  <2>2. old_size' \in 0..Len(learned') /\ next' \in 0..(Len(learned') + 1)
    BY <1>2, <1>3 DEF SubsumptionTypeOK
  <2>3. QED BY <1>2, <1>3, <2>1, <2>2 DEF SubsumptionTypeOK
<1>5. \A i \in 1..old_size : i \in DOMAIN learned BY <1>2, ClauseFacts
<1>6. NoSubsumedPairLeft' BY <1>2, <1>3, <1>5 DEF NoSubsumedPairLeft
<1>7. MarksAreJustified'
  <2>1. c # Empty BY <1>2, ClauseFacts
  <2>2. \A i \in DOMAIN learned' : i \in DOMAIN learned \/ i = Len(learned) + 1
    BY <1>2, <1>3, ClauseFacts
  <2>3. QED BY <1>2, <1>3, <2>1, <2>2 DEF MarksAreJustified
<1>8. QED BY <1>2, <1>4, <1>6, <1>7 DEF SubsumptionInv, IndexIsComplete, VisitsAreDone

LEMMA RestartKeeps ==
  ASSUME SubsumptionInv, Restart
  PROVE  SubsumptionInv'
<1>1. /\ pass = 0 /\ pass' = 1 /\ before' = learned /\ learned' = learned
      /\ old_size' = old_size /\ occur' = Index(1, old_size) /\ next' = old_size + 1
      /\ SubsumptionTypeOK
      /\ \A i \in DOMAIN learned : learned[i] # Empty
      /\ \A i, j \in 1..old_size : ~Subsumes(learned[i], learned[j])
  BY DEF Restart, SubsumptionInv, NoSubsumedPairLeft, MarksAreJustified
<1>2. DOMAIN learned = 1..Len(learned) /\ Len(learned) \in Nat
      /\ old_size \in Nat /\ old_size <= Len(learned)
  BY <1>1, ClauseFacts
<1>3. learned \in Seq(ClauseSet)
  <2>1. learned \in [1..Len(learned) -> ClauseSet]
    BY <1>1, <1>2 DEF SubsumptionTypeOK
  <2>2. QED BY <1>2, <2>1, FunctionIsSeq
<1>4. /\ occur' \in [Literals -> Seq(1..MaxLearned)]
      /\ \A lit \in Literals :
           ToSet(occur'[lit]) = {i \in 1..old_size : lit \in ToSet(learned[i])}
  <2>1. 1 \in Nat \ {0} /\ old_size \in 0..Len(learned) BY <1>2
  <2>2. QED BY <1>1, <2>1, IndexFinds
<1>5. SubsumptionTypeOK'
  <2>1. next' \in 0..(Len(learned') + 1) /\ pass' \in 0..2 BY <1>1, <1>2
  <2>2. QED BY <1>1, <1>3, <1>4, <2>1 DEF SubsumptionTypeOK
<1>6. NoSubsumedPairLeft' /\ MarksAreJustified'
  BY <1>1 DEF NoSubsumedPairLeft, MarksAreJustified
<1>7. IndexIsComplete' BY <1>1, <1>4 DEF IndexIsComplete, Indexed
<1>8. VisitsAreDone' BY <1>1, <1>2 DEF VisitsAreDone
<1>9. QED BY <1>5, <1>6, <1>7, <1>8 DEF SubsumptionInv

LEMMA StepKeeps ==
  ASSUME SubsumptionInv, Step
  PROVE  SubsumptionInv'
<1> DEFINE c == learned[next]
<1>1. /\ pass # 0 /\ pass' = pass /\ pass \in 0..2 /\ next <= Len(learned) /\ next' = next + 1
      /\ old_size' = old_size /\ occur' = occur /\ before' = before
      /\ learned' = MarkSubsumed(c, next)
      /\ SubsumptionTypeOK /\ IndexIsComplete
      /\ Len(learned) = Len(before)
      /\ \A i \in DOMAIN learned :
           learned[i] = before[i] \/ (learned[i] = Empty /\ Subsumed(before, old_size, i))
  BY DEF Step, SubsumptionInv, MarksAreJustified, SubsumptionTypeOK
<1>2. /\ DOMAIN learned = 1..Len(learned) /\ Len(learned) \in Nat
      /\ DOMAIN before = DOMAIN learned
      /\ old_size \in Nat /\ old_size <= Len(learned)
      /\ \A i \in DOMAIN learned : before[i] \in ClauseSet /\ before[i] # Empty
      /\ \A i \in DOMAIN learned : learned[i] \in ClauseSet \cup {Empty}
      /\ \A b, d \in ClauseSet \cup {Empty} : Subsumes(b, d) => d # Empty
  BY <1>1, ClauseFacts
<1>3. next \in DOMAIN learned
  <2>1. next \in Nat /\ next > 0
    BY <1>1, <1>2 DEF SubsumptionInv, SubsumptionTypeOK, VisitsAreDone
  <2>2. QED BY <1>1, <1>2, <2>1
<1>4. /\ learned' \in Seq(ClauseSet \cup {Empty})
      /\ Len(learned') = Len(learned)
      /\ \A i \in DOMAIN learned :
           \/ learned'[i] = learned[i]
           \/ learned'[i] = Empty /\ c # Empty /\ i \in Indexed /\ Subsumes(c, learned[i])
      /\ \A i \in DOMAIN learned :
           i \in Indexed /\ c # Empty /\ Subsumes(c, learned[i]) => learned'[i] = Empty
  BY <1>1, <1>3, VisitMarks
<1> HIDE DEF c
<1>5. DOMAIN learned' = DOMAIN learned BY <1>2, <1>4
<1>6. SubsumptionTypeOK'
  <2>1. next' \in 0..(Len(learned') + 1) BY <1>1, <1>2, <1>3, <1>4
  <2>2. QED BY <1>1, <1>4, <2>1 DEF SubsumptionTypeOK
<1>7. NoSubsumedPairLeft' BY <1>1 DEF SubsumptionInv, NoSubsumedPairLeft
<1>8. c # Empty => c = before[next] BY <1>1, <1>3 DEF c
<1>9. MarksAreJustified'
  <2>1. ASSUME NEW i \in DOMAIN learned
        PROVE  learned'[i] = before[i] \/ (learned'[i] = Empty /\ Subsumed(before, old_size, i))
    <3>1. CASE learned'[i] = learned[i] BY <1>1, <3>1
    <3>2. CASE learned'[i] = Empty /\ c # Empty /\ i \in Indexed /\ Subsumes(c, learned[i])
      <4>1. learned[i] # Empty BY <1>2, <1>3, <3>2 DEF c
      <4>2. learned[i] = before[i] /\ c = before[next]
        BY <1>1, <1>8, <3>2, <4>1
      <4>3. i > old_size \/ next > old_size
        BY <1>1, <1>2, <3>2 DEF Indexed, SubsumptionInv, VisitsAreDone
      <4>4. Subsumed(before, old_size, i)
        BY <1>2, <1>3, <3>2, <4>2, <4>3 DEF Subsumed, Empty
      <4>5. QED BY <3>2, <4>4
    <3>3. QED BY <1>4, <3>1, <3>2
  <2>2. QED BY <1>1, <1>4, <1>5, <2>1 DEF MarksAreJustified
<1>10. Indexed' = Indexed BY <1>1, <1>4 DEF Indexed
<1>11. IndexIsComplete'
  <2>1. \A i \in DOMAIN learned : ToSet(learned'[i]) \subseteq ToSet(learned[i])
    <3>1. ToSet(Empty) = {} BY DEF ToSet, Empty
    <3>2. QED BY <1>4, <3>1
  <2>2. Indexed \subseteq DOMAIN learned BY <1>2 DEF Indexed
  <2>3. QED BY <1>1, <1>10, <2>1, <2>2 DEF IndexIsComplete
<1>12. VisitsAreDone'
  <2>1. ASSUME pass = 1
        PROVE  /\ next' > old_size
               /\ \A j \in (old_size + 1)..Len(learned) : learned'[j] # Empty
    <3>1. next > old_size /\ \A j \in (old_size + 1)..Len(learned) : learned[j] # Empty
      BY <2>1 DEF SubsumptionInv, VisitsAreDone
    <3>2. \A j \in (old_size + 1)..Len(learned) : j \in DOMAIN learned /\ j \notin Indexed
      BY <1>2, <2>1 DEF Indexed
    <3>3. QED BY <1>1, <1>2, <1>3, <1>4, <3>1, <3>2
  <2>2. ASSUME NEW i \in DOMAIN learned, NEW j \in DOMAIN learned,
               Subsumes(before[j], before[i]), learned'[i] # Empty
        PROVE  /\ i <= old_size /\ j > old_size => pass = 1 /\ j >= next'
               /\ i > old_size /\ pass = 2 /\ learned'[j] # Empty => j >= next'
    <3>1. learned[i] # Empty /\ learned[i] = before[i]
      BY <1>1, <1>4, <2>2
    <3>2. /\ i <= old_size /\ j > old_size => pass = 1 /\ j >= next
          /\ i > old_size /\ pass = 2 /\ learned[j] # Empty => j >= next
      BY <1>1, <2>2, <3>1 DEF SubsumptionInv, VisitsAreDone
    <3>3. ASSUME j = next, learned[j] # Empty
          PROVE  i \notin Indexed
      <4>1. c # Empty /\ Subsumes(c, learned[i])
        BY <1>8, <2>2, <3>1, <3>3 DEF c
      <4>2. QED BY <1>4, <2>2, <4>1
    <3>4. ASSUME i <= old_size, j > old_size
          PROVE  pass = 1 /\ j >= next'
      <4>1. learned[j] # Empty
        BY <1>2, <3>2, <3>4 DEF SubsumptionInv, VisitsAreDone
      <4>2. i \in Indexed BY <1>2, <3>2, <3>4 DEF Indexed
      <4>3. QED BY <1>1, <1>2, <1>3, <3>2, <3>3, <3>4, <4>1, <4>2
    <3>5. ASSUME i > old_size, pass = 2, learned'[j] # Empty
          PROVE  j >= next'
      <4>1. learned[j] # Empty BY <1>4, <3>5
      <4>2. i \in Indexed BY <1>2, <3>5 DEF Indexed
      <4>3. QED BY <1>1, <1>2, <1>3, <3>2, <3>3, <3>5, <4>1, <4>2
    <3>6. QED BY <3>4, <3>5
  <2>3. next' > 0 BY <1>1, <1>2, <1>3
  <2>4. QED BY <1>1, <1>4, <1>5, <2>1, <2>2, <2>3 DEF VisitsAreDone
<1>13. QED BY <1>6, <1>7, <1>9, <1>11, <1>12 DEF SubsumptionInv

LEMMA SecondPassKeeps ==
  ASSUME SubsumptionInv, SecondPass
  PROVE  SubsumptionInv'
<1>1. /\ pass = 1 /\ pass' = 2 /\ before' = before /\ learned' = learned
      /\ next > Len(learned) /\ next' = 1
      /\ old_size' = old_size /\ occur' = Index(old_size + 1, Len(learned))
      /\ SubsumptionTypeOK
  BY DEF SecondPass, SubsumptionInv
<1>2. DOMAIN learned = 1..Len(learned) /\ Len(learned) \in Nat
      /\ old_size \in Nat /\ old_size <= Len(learned)
  BY <1>1, ClauseFacts
<1>3. /\ occur' \in [Literals -> Seq(1..MaxLearned)]
      /\ \A lit \in Literals :
           ToSet(occur'[lit]) = {i \in (old_size + 1)..Len(learned) : lit \in ToSet(learned[i])}
  <2>1. old_size + 1 \in Nat \ {0} /\ Len(learned) \in 0..Len(learned)
    BY <1>2
  <2>2. QED BY <1>1, <2>1, IndexFinds
<1>4. SubsumptionTypeOK'
  <2>1. next' \in 0..(Len(learned') + 1) /\ pass' \in 0..2 BY <1>1, <1>2
  <2>2. QED BY <1>1, <1>3, <2>1 DEF SubsumptionTypeOK
<1>5. NoSubsumedPairLeft' /\ MarksAreJustified'
  BY <1>1 DEF SubsumptionInv, NoSubsumedPairLeft, MarksAreJustified
<1>6. IndexIsComplete' BY <1>1, <1>3 DEF IndexIsComplete, Indexed
<1>7. VisitsAreDone'
  <2>1. \A i, j \in DOMAIN learned :
          Subsumes(before[j], before[i]) /\ learned[i] # Empty =>
            ~(i <= old_size /\ j > old_size)
    <3>1. \A j \in DOMAIN learned : ~(j >= next)
      BY <1>1, <1>2 DEF SubsumptionTypeOK
    <3>2. QED BY <1>1, <3>1 DEF SubsumptionInv, VisitsAreDone
  <2>2. \A j \in DOMAIN learned : j >= 1 BY <1>2
  <2>3. QED BY <1>1, <2>1, <2>2 DEF VisitsAreDone
<1>8. QED BY <1>4, <1>5, <1>6, <1>7 DEF SubsumptionInv

LEMMA EraseKeeps ==
  ASSUME SubsumptionInv, Erase
  PROVE  SubsumptionInv'
<1> DEFINE keep == {i \in DOMAIN learned : learned[i] # Empty}
<1>1. /\ pass = 2 /\ pass' = 0 /\ next > Len(learned) /\ next' = 0
      /\ learned' = Chosen(learned, keep) /\ old_size' = Len(learned')
      /\ occur' = occur /\ before' = before
      /\ SubsumptionTypeOK /\ Len(learned) = Len(before)
      /\ \A i, j \in 1..old_size : ~Subsumes(before[i], before[j])
  BY DEF Erase, SubsumptionInv, NoSubsumedPairLeft, MarksAreJustified
<1>2. DOMAIN learned = 1..Len(learned) /\ Len(learned) \in Nat
      /\ DOMAIN before = DOMAIN learned /\ old_size \in Nat
  BY <1>1, ClauseFacts
<1>3. /\ learned' \in Seq(ClauseSet \cup {Empty})
      /\ Len(learned') <= Len(learned)
      /\ \A k \in 1..Len(learned') : \E i \in 1..Len(learned) : i \in keep /\ learned'[k] = learned[i]
  <2>1. learned \in Seq(ClauseSet \cup {Empty})
    BY <1>1 DEF SubsumptionTypeOK
  <2> HIDE DEF keep
  <2>2. Chosen(learned, keep) \in Seq(ClauseSet \cup {Empty})
    BY <2>1, ChosenElements
  <2>3. Len(Chosen(learned, keep)) <= Len(learned)
    BY <2>1, ChosenElements
  <2>4. \A k \in 1..Len(Chosen(learned, keep)) :
          \E i \in 1..Len(learned) : i \in keep /\ Chosen(learned, keep)[k] = learned[i]
    BY <2>1, ChosenElements
  <2>5. QED BY <1>1, <2>2, <2>3, <2>4
<1>4. Len(learned') \in Nat /\ DOMAIN learned' = 1..Len(learned')
  BY <1>3
<1>5. SubsumptionTypeOK'
  BY <1>1, <1>2, <1>3, <1>4, LearnedAssumption DEF SubsumptionTypeOK
<1>6. ASSUME NEW k \in 1..Len(learned')
      PROVE  \E i \in DOMAIN learned :
               /\ learned'[k] = before[i] /\ learned'[k] # Empty
               /\ ~Subsumed(before, old_size, i)
  <2>1. PICK i \in DOMAIN learned : learned[i] # Empty /\ learned'[k] = learned[i]
    BY <1>2, <1>3, <1>6
  <2>2. ~Subsumed(before, old_size, i) /\ learned[i] = before[i]
    BY <1>1, <2>1, AllAreMarked
  <2>3. QED BY <2>1, <2>2
<1>7. NoSubsumedPairLeft'
  <2>1. ASSUME NEW k \in 1..Len(learned'), NEW l \in 1..Len(learned'),
               Subsumes(learned'[k], learned'[l])
        PROVE  FALSE
    <3>1. PICK i \in DOMAIN learned : learned'[k] = before[i] /\ learned'[k] # Empty
      BY <1>6
    <3>2. PICK j \in DOMAIN learned : learned'[l] = before[j] /\ ~Subsumed(before, old_size, j)
      BY <1>6
    <3>3. ~(j > old_size) /\ ~(i > old_size)
      BY <1>2, <2>1, <3>1, <3>2 DEF Subsumed, Empty
    <3>4. i \in 1..old_size /\ j \in 1..old_size BY <1>2, <3>3
    <3>5. QED BY <1>1, <2>1, <3>1, <3>2, <3>4
  <2>2. QED BY <1>1, <2>1 DEF NoSubsumedPairLeft
<1>8. MarksAreJustified' BY <1>1, <1>4, <1>6 DEF MarksAreJustified
<1>9. QED BY <1>1, <1>5, <1>7, <1>8 DEF SubsumptionInv, IndexIsComplete, VisitsAreDone

-----------------------------------------------------------------------------
(* The theorems.                                                           *)

\* A restart misses no pair of clauses: remove_subsumed marks exactly what has
\* to go, visit by visit, and leaves no clause with a proper subset.
THEOREM SubsumptionCorrect == SubsumptionSpec => []SubsumptionInv
<1>1. SubsumptionInit => SubsumptionInv BY SubsumptionInitHolds
<1>2. SubsumptionInv /\ [SubsumptionNext]_subsumptionVars => SubsumptionInv'
  <2>1. ASSUME SubsumptionInv, UNCHANGED subsumptionVars
        PROVE  SubsumptionInv'
    BY <2>1 DEF subsumptionVars, SubsumptionInv, SubsumptionTypeOK, NoSubsumedPairLeft,
                MarksAreJustified, IndexIsComplete, Indexed, VisitsAreDone
  <2>2. QED BY <2>1, LearnKeeps, RestartKeeps, StepKeeps, SecondPassKeeps, EraseKeeps DEF SubsumptionNext
<1>3. QED BY <1>1, <1>2, PTL DEF SubsumptionSpec

\* What remove_subsumed erases is implied by what it keeps.
THEOREM RemovedClausesAreImplied == SubsumptionSpec => []RemovedAreImplied
<1>1. SubsumptionInv => RemovedAreImplied
  <2>1. SUFFICES ASSUME SubsumptionInv, pass = 2, next > Len(learned), NEW c \in ToSet(before)
                 PROVE  \E d \in ToSet(learned) : d # Empty /\ ToSet(d) \subseteq ToSet(c)
    BY DEF RemovedAreImplied
  <2>2. SubsumptionTypeOK /\ Len(learned) = Len(before)
    BY <2>1 DEF SubsumptionInv, MarksAreJustified
  <2>3. /\ DOMAIN learned = DOMAIN before
        /\ \A i \in DOMAIN learned : before[i] \in ClauseSet /\ Len(before[i]) \in Nat
    BY <2>2, ClauseFacts
  <2>4. PICK i \in DOMAIN learned : c = before[i] BY <2>3 DEF ToSet
  <2> DEFINE Smaller == {j \in DOMAIN learned : ToSet(before[j]) \subseteq ToSet(c)}
             Sizes == {Len(before[j]) : j \in Smaller}
  <2>5. PICK j \in Smaller : \A k \in Smaller : Len(before[j]) <= Len(before[k])
    <3>1. Sizes \in SUBSET Nat /\ Sizes # {} BY <2>3, <2>4
    <3>2. PICK n \in Sizes : \A m \in Sizes : n <= m
      BY <3>1, LeastNatural
    <3>3. PICK j \in Smaller : n = Len(before[j]) BY <3>2
    <3>4. QED BY <3>2, <3>3
  <2>6. j \in DOMAIN learned /\ ToSet(before[j]) \subseteq ToSet(c)
    BY <2>5
  <2>7. ~Subsumed(before, old_size, j)
    <3>1. ASSUME NEW k \in DOMAIN learned, Subsumes(before[k], before[j])
          PROVE  FALSE
      <4>1. k \in Smaller /\ Len(before[k]) < Len(before[j])
        BY <2>6, <3>1 DEF Subsumes
      <4> HIDE DEF Smaller
      <4>2. QED BY <2>3, <2>5, <2>6, <4>1
    <3>2. QED BY <2>3, <3>1 DEF Subsumed
  <2>8. learned[j] = before[j] /\ learned[j] # Empty
    BY <2>1, <2>6, <2>7, AllAreMarked
  <2>9. learned[j] \in ToSet(learned) BY <2>6 DEF ToSet
  <2>10. QED BY <2>6, <2>8, <2>9
<1>2. QED BY <1>1, SubsumptionCorrect, PTL

\* The two passes leave what the declarative Survivors says, in its order.
THEOREM PassesAreCorrect == SubsumptionSpec => PassesComputeSurvivors
<1>1. SubsumptionInv /\ [SubsumptionNext]_subsumptionVars =>
        [Erase => learned' = Survivors(before, old_size)]_subsumptionVars
  <2>1. SUFFICES ASSUME SubsumptionInv, Erase
                 PROVE  learned' = Survivors(before, old_size)
    OBVIOUS
  <2> DEFINE keep == {i \in DOMAIN learned : learned[i] # Empty}
  <2>2. pass = 2 /\ next > Len(learned) /\ learned' = Chosen(learned, keep)
    BY <2>1 DEF Erase
  <2>3. SubsumptionTypeOK /\ Len(learned) = Len(before)
    BY <2>1, <2>2 DEF SubsumptionInv, MarksAreJustified
  <2>4. DOMAIN learned = DOMAIN before /\ DOMAIN learned = 1..Len(learned) /\ Len(learned) \in Nat
    BY <2>3, ClauseFacts
  <2>5. \A i \in DOMAIN learned :
          /\ Subsumed(before, old_size, i) => learned[i] = Empty
          /\ ~Subsumed(before, old_size, i) => learned[i] = before[i] /\ learned[i] # Empty
    BY <2>1, <2>2, AllAreMarked
  <2>6. keep = {i \in DOMAIN before : ~Subsumed(before, old_size, i)}
    BY <2>4, <2>5
  <2>7. \A i \in 1..Len(learned) : i \in keep => learned[i] = before[i]
    BY <2>4, <2>5
  <2> HIDE DEF keep
  <2>8. Chosen(learned, keep) = Chosen(before, keep)
    BY <2>3, <2>4, <2>7, ChosenAgree
  <2>9. QED BY <2>2, <2>6, <2>8 DEF Survivors
<1>2. QED BY <1>1, SubsumptionCorrect, PTL DEF SubsumptionSpec, PassesComputeSurvivors

-----------------------------------------------------------------------------
(* The parts of a number. *)

USE DEF Invalid, Overflow

\* What the rational operations return is a pair, not the absence of a number.
LEMMA FractionsAreValid ==
  ASSUME NEW p, NEW q
  PROVE  /\ Frac(p, q) # Invalid
         /\ Plus(p, q) # Invalid /\ Minus(p, q) # Invalid
         /\ Times(p, q) # Invalid /\ Over(p, q) # Invalid
         /\ Zero # Invalid /\ One # Invalid
  BY DEF Frac, Plus, Minus, Times, Over, Zero, One

\* The ways in which the code makes a number all make its parts agree: from
\* words, from a GMP result, by copying.
LEMMA MakersAreLegal ==
  /\ \A w : w # Invalid => LegalParts(FromWord(w))
  /\ \A p : p # Invalid => LegalParts(FromLong(p))
  /\ \A r, w : LegalParts(r) /\ w # Invalid => LegalParts(SetWord(r, w))
  /\ \A r : LegalParts(r) => LegalParts(EnsureMpq(r))
  /\ \A r, s : LegalParts(r) /\ LegalParts(s) => LegalParts(CopyTo(r, s))
  BY DEF LegalParts, FromWord, FromLong, SetWord, EnsureMpq, CopyTo

\* A word computation that does not overflow is stored in the words, one that
\* does is redone by GMP.
LEMMA ByWordsIsLegal ==
  ASSUME NEW r, LegalParts(r), NEW w, NEW p, p # Invalid
  PROVE  LegalParts(ByWords(r, w, p).result) /\ LegalParts(ByLong(p).result)
  BY MakersAreLegal DEF ByWords, ByLong, Stored

\* Every operation with two operands returns a number whose parts agree.
LEMMA OperatorsAreLegal ==
  ASSUME NEW d, NEW r, NEW s, LegalParts(d), LegalParts(r), LegalParts(s)
  PROVE  /\ LegalParts(addition(d, r, s).result)
         /\ LegalParts(substraction(d, r, s).result)
         /\ LegalParts(multiplication(d, r, s).result)
         /\ LegalParts(division(d, r, s).result)
<1> DEFINE Legal(o) == LegalParts(o.result)
<1>1. \A w, p : p # Invalid => Legal(ByWords(d, w, p)) /\ Legal(ByLong(p))
  BY ByWordsIsLegal
<1>2. \A t : LegalParts(t) => Legal(Stored(t)) BY DEF Stored
<1>3. /\ Plus(Value(r), Value(s)) # Invalid /\ Minus(Value(r), Value(s)) # Invalid
      /\ Times(Value(r), Value(s)) # Invalid /\ Over(Value(r), Value(s)) # Invalid
      /\ Zero # Invalid
  BY FractionsAreValid
<1>4. /\ LegalParts(CopyTo(d, r)) /\ LegalParts(CopyTo(d, s))
      /\ LegalParts(SetWord(d, Zero)) /\ LegalParts(FromWord(Zero))
  BY <1>3, MakersAreLegal
<1> HIDE DEF Legal
<1>5. Legal(addition(d, r, s)) BY <1>1, <1>3 DEF addition
<1>6. Legal(substraction(d, r, s)) BY <1>1, <1>3 DEF substraction
<1>7. Legal(multiplication(d, r, s))
  BY <1>1, <1>2, <1>3, <1>4 DEF multiplication
<1>8. Legal(division(d, r, s)) BY <1>1, <1>2, <1>3, <1>4 DEF division
<1> QED
  BY <1>5, <1>6, <1>7, <1>8 DEF Legal

\* So does every assignment operator.
LEMMA AssignmentsAreLegal ==
  ASSUME NEW r, NEW s, LegalParts(r), LegalParts(s)
  PROVE  /\ LegalParts(additionAssign(r, s).result)
         /\ LegalParts(substractionAssign(r, s).result)
         /\ LegalParts(multiplicationAssign(r, s).result)
         /\ LegalParts(divisionAssign(r, s).result)
<1> DEFINE Legal(o) == LegalParts(o.result)
<1>1. \A w, p : p # Invalid => Legal(ByWords(r, w, p)) /\ Legal(ByLong(p))
  BY ByWordsIsLegal
<1>2. Legal(Stored(r)) BY DEF Stored
<1>3. /\ Plus(Value(r), Value(s)) # Invalid /\ Minus(Value(r), Value(s)) # Invalid
      /\ Times(Value(r), Value(s)) # Invalid /\ Over(Value(r), Value(s)) # Invalid
  BY FractionsAreValid
<1> HIDE DEF Legal
<1>4. Legal(additionAssign(r, s)) BY <1>1, <1>2, <1>3 DEF additionAssign
<1>5. Legal(substractionAssign(r, s))
  BY <1>1, <1>3 DEF substractionAssign
<1>6. Legal(multiplicationAssign(r, s))
  BY <1>1, <1>3 DEF multiplicationAssign
<1>7. Legal(divisionAssign(r, s)) BY <1>1, <1>3 DEF divisionAssign
<1> QED
  BY <1>4, <1>5, <1>6, <1>7 DEF Legal

\* The operations with one operand, and the numbers that are read.
LEMMA UnariesAreLegal ==
  ASSUME NEW r, LegalParts(r)
  PROVE  /\ LegalParts(Negation(r).result)
         /\ LegalParts(negate(r).result)
         /\ LegalParts(inverse(r).result)
         /\ LegalParts(ceil(r))
         /\ LegalParts(floor(r))
         /\ \A n : LegalParts(FromString(n))
<1>1. ASSUME NEW n, NEW d
      PROVE  LegalParts(Constructed(n, d))
  <2>1. \E w : w # Invalid /\ Constructed(n, d) = FromWord(w)
    BY FractionsAreValid, Zenon DEF Constructed, OfWords
  <2> QED
    BY <2>1, MakersAreLegal
<1>2. /\ LegalParts(FromWord(Zero)) /\ LegalParts(FromWord(One))
      /\ Times(MinusOne, Value(r)) # Invalid /\ Over(One, Value(r)) # Invalid
  BY MakersAreLegal, FractionsAreValid
<1>3. LegalParts(Negation(r).result)
  BY <1>1, <1>2, ByWordsIsLegal DEF Negation, Stored
<1>4. LegalParts(negate(r).result)
  BY <1>2, MakersAreLegal DEF negate, Stored
<1>5. LegalParts(inverse(r).result) BY <1>2, ByWordsIsLegal DEF inverse
<1>6. LegalParts(ceil(r))
  <2>1. CASE isInteger(r) BY <1>2, <2>1, MakersAreLegal DEF ceil, CopyOf
  <2>2. CASE ~isInteger(r) /\ r.word # Invalid
    BY <2>2, MakersAreLegal DEF ceil
  <2>3. CASE ~isInteger(r) /\ r.word = Invalid
    BY <2>3 DEF ceil, FromInteger, FromWord, LegalParts, FitsWord
  <2> QED
    BY <2>1, <2>2, <2>3
<1>7. LegalParts(floor(r))
  BY <1>2, <1>6, MakersAreLegal, OperatorsAreLegal DEF floor, CopyOf
<1>8. \A n : LegalParts(FromString(n))
  BY DEF FromString, FromWord, LegalParts, FitsWord
<1> QED
  BY <1>3, <1>4, <1>5, <1>6, <1>7, <1>8

\* A step stores one such number, and at most completes its operands.
LEMMA StepKeepsPartsAgree ==
  ASSUME PartsAgree, NEW c, NEW S, NEW o, NEW p, LegalParts(o.result), StoreIn(c, S, o, p)
  PROVE  PartsAgree'
<1> SUFFICES ASSUME NEW k \in Regs
             PROVE  LegalParts(num'[k])
  BY DEF PartsAgree, LegalParts, FitsWord, Word, UWord
<1>1. num'[k] \in {o.result, EnsureMpq(num[k]), num[k]} BY DEF StoreIn
<1>2. LegalParts(num[k]) BY DEF PartsAgree
<1> QED
  BY <1>1, <1>2, MakersAreLegal

\* The invariant of the state bits, for every word width and any number of
\* numbers: whatever is computed, the valid parts of every number agree and a
\* number only GMP holds does not fit the words.
THEOREM PartsAlwaysAgree == LongFractionSpec => []PartsAgree
<1>1. LongFractionInit => PartsAgree
  <2> SUFFICES ASSUME LongFractionInit, NEW k \in Regs
               PROVE  LegalParts(num[k])
    BY DEF PartsAgree
  <2>1. num[k] = FromString(exact[k][1]) BY DEF LongFractionInit
  <2> QED
    BY <2>1 DEF FromString, FromWord, LegalParts, FitsWord
<1>2. PartsAgree /\ [LongFractionNext]_vars => PartsAgree'
  <2> SUFFICES ASSUME PartsAgree, [LongFractionNext]_vars
               PROVE  PartsAgree'
    OBVIOUS
  <2>1. \A k \in Regs : LegalParts(num[k]) BY DEF PartsAgree
  <2>2. LegalParts(FromWord(Zero)) BY MakersAreLegal, FractionsAreValid
  <2> USE StepKeepsPartsAgree
  <2>3. ASSUME NEW a \in Regs, NEW b \in Regs, NEW c \in Regs,
               Add(c, a, b) \/ Subtract(c, a, b) \/ Multiply(c, a, b) \/ Divide(c, a, b)
        PROVE  PartsAgree'
    <3>1. CASE Add(c, a, b)
      BY <2>1, <2>2, <3>1, OperatorsAreLegal DEF Add
    <3>2. CASE Subtract(c, a, b)
      BY <2>1, <2>2, <3>2, OperatorsAreLegal DEF Subtract
    <3>3. CASE Multiply(c, a, b)
      BY <2>1, <2>2, <3>3, OperatorsAreLegal DEF Multiply
    <3>4. CASE Divide(c, a, b)
      BY <2>1, <2>2, <3>4, OperatorsAreLegal DEF Divide
    <3> QED
      BY <2>3, <3>1, <3>2, <3>3, <3>4
  <2>4. ASSUME NEW a \in Regs, NEW b \in Regs,
               \/ AddAssign(a, b) \/ SubtractAssign(a, b)
               \/ MultiplyAssign(a, b) \/ DivideAssign(a, b)
        PROVE  PartsAgree'
    <3>1. CASE AddAssign(a, b)
      BY <2>1, <3>1, AssignmentsAreLegal DEF AddAssign
    <3>2. CASE SubtractAssign(a, b)
      BY <2>1, <3>2, AssignmentsAreLegal DEF SubtractAssign
    <3>3. CASE MultiplyAssign(a, b)
      BY <2>1, <3>3, AssignmentsAreLegal DEF MultiplyAssign
    <3>4. CASE DivideAssign(a, b)
      BY <2>1, <3>4, AssignmentsAreLegal DEF DivideAssign
    <3> QED
      BY <2>4, <3>1, <3>2, <3>3, <3>4
  <2>5. ASSUME NEW a \in Regs, NEW b \in Regs,
               \/ Negated(a, b) \/ Negate(a) \/ Inverted(a, b) \/ Ceil(a, b)
               \/ Floor(a, b) \/ (\E n \in -MaxNum .. MaxNum : Read(a, n))
        PROVE  PartsAgree'
    <3>1. CASE Negated(a, b) BY <2>1, <3>1, UnariesAreLegal DEF Negated
    <3>2. CASE Negate(a) BY <2>1, <3>2, UnariesAreLegal DEF Negate
    <3>3. CASE Inverted(a, b)
      BY <2>1, <3>3, UnariesAreLegal DEF Inverted
    <3>4. CASE Ceil(a, b)
      BY <2>1, <3>4, UnariesAreLegal DEF Ceil, Stored
    <3>5. CASE Floor(a, b)
      BY <2>1, <3>5, UnariesAreLegal DEF Floor, Stored
    <3>6. CASE \E n \in -MaxNum .. MaxNum : Read(a, n)
      BY <2>1, <3>6, UnariesAreLegal DEF Read, Stored
    <3> QED
      BY <2>5, <3>1, <3>2, <3>3, <3>4, <3>5, <3>6
  <2>6. ASSUME NEW a \in Regs, NEW b \in Regs, Copy(a, b)
        PROVE  PartsAgree'
    BY <2>1, <2>6, MakersAreLegal DEF Copy, Stored
  <2>7. ASSUME NEW a \in Regs, NEW b \in Regs, Compare(a, b)
        PROVE  PartsAgree'
    <3> SUFFICES ASSUME NEW k \in Regs
                 PROVE  LegalParts(num'[k])
      BY DEF PartsAgree, LegalParts, FitsWord, Word, UWord
    <3>1. num'[k] \in {EnsureMpq(num[k]), num[k]} BY <2>7 DEF Compare
    <3> QED
      BY <2>1, <3>1, MakersAreLegal
  <2>8. CASE UNCHANGED vars
    BY <2>1, <2>8 DEF vars, PartsAgree, LegalParts, FitsWord, Word, UWord
  <2> QED
    BY <2>3, <2>4, <2>5, <2>6, <2>7, <2>8 DEF LongFractionNext
<1> QED
  BY <1>1, <1>2, PTL DEF LongFractionSpec

-----------------------------------------------------------------------------
(* The arithmetic of the machine. *)

LWord == LWordMin .. LWordMax

\* The double word is as wide as the products of two words need, with room for
\* two products if one factor of each is halved.
LEMMA ProductBounds ==
  ASSUME NEW n \in Word, NEW d \in UWord
  PROVE  /\ n * d \in Int
         /\ -W * (2 * W - 1) <= n * d
         /\ n * d <= (W - 1) * (2 * W - 1)
         /\ d <= W - 1 => -W * (W - 1) <= n * d /\ n * d <= (W - 1) * (W - 1)
<1>1. /\ W \in Nat /\ W >= 1
      /\ n \in Int /\ -W <= n /\ n <= W - 1
      /\ d \in Nat /\ d <= 2 * W - 1
  BY WidthAssumption DEF Word, UWord
<1> QED
  BY <1>1

\* A value of the type of an expression is not changed by it.
LEMMA LwordIsExact ==
  ASSUME NEW v \in LWord
  PROVE  lword(v) = v
  BY WidthAssumption DEF LWord, LWordMin, LWordMax, lword

\* CHECK_SUM_OVERFLOWS_LWORD and CHECK_SUB_OVERFLOWS_LWORD let exactly the sums
\* and differences pass that are lwords, and do not overflow themselves.
THEOREM ChecksAreExact ==
  ASSUME NEW s \in LWord, NEW t \in LWord
  PROVE  /\ SumOverflows(s, t) <=> s + t \notin LWord
         /\ DifferenceOverflows(s, t) <=> s - t \notin LWord
         /\ s > 0 => LWordMax - s \in LWord
         /\ s < 0 => LWordMin - s \in LWord
         /\ s >= 0 => s - LWordMax \in LWord
         /\ s < 0 => (s + 1) + LWordMax \in LWord
  BY WidthAssumption
     DEF LWord, LWordMin, LWordMax, SumOverflows, DifferenceOverflows

\* The comments on the word paths of addition and substraction: the products,
\* the sums with an integer operand, and the difference of two products when
\* the denominators have a common factor are not checked and need not be.
THEOREM UncheckedArithmeticFits ==
  ASSUME NEW p \in Word \X UWord, NEW q \in Word \X UWord
  PROVE  /\ lword(p[1] * q[2]) = p[1] * q[2]
         /\ lword(p[1] + q[1] * p[2]) = p[1] + q[1] * p[2]
         /\ lword(p[1] - q[1] * p[2]) = p[1] - q[1] * p[2]
         /\ lword(p[1] * q[2] - q[1]) = p[1] * q[2] - q[1]
         /\ \A c \in Nat \ {0, 1} :
              LET n1 == p[1] * (q[2] \div c)
                  n2 == q[1] * (p[2] \div c)
              IN lword(n1 - n2) = n1 - n2
<1>1. /\ W \in Nat /\ W >= 1 /\ W * W >= W
      /\ p[1] \in Word /\ q[1] \in Word /\ p[2] \in UWord /\ q[2] \in UWord
      /\ p[1] \in Int /\ -W <= p[1] /\ p[1] <= W - 1
      /\ q[1] \in Int /\ -W <= q[1] /\ q[1] <= W - 1
  BY WidthAssumption DEF Word, UWord
<1>2. /\ -W * (2 * W - 1) = W - 2 * W * W
      /\ (W - 1) * (2 * W - 1) = 2 * W * W - 3 * W + 1
      /\ -W * (W - 1) = W - W * W
      /\ (W - 1) * (W - 1) = W * W - 2 * W + 1
  BY <1>1
<1>3. p[1] * q[2] \in LWord /\ p[1] * q[2] - q[1] \in LWord
  BY <1>1, <1>2, ProductBounds DEF LWord, LWordMin, LWordMax
<1>4. p[1] + q[1] * p[2] \in LWord /\ p[1] - q[1] * p[2] \in LWord
  BY <1>1, <1>2, ProductBounds DEF LWord, LWordMin, LWordMax
<1>5. ASSUME NEW c \in Nat \ {0, 1}
      PROVE  p[1] * (q[2] \div c) - q[1] * (p[2] \div c) \in LWord
  <2>1. ASSUME NEW d \in UWord
        PROVE  d \div c \in UWord /\ d \div c <= W - 1
    BY <1>1, <2>1 DEF UWord
  <2> QED
    BY <1>1, <1>2, <2>1, ProductBounds DEF LWord, LWordMin, LWordMax
<1> QED
  BY <1>3, <1>4, <1>5, LwordIsExact

-----------------------------------------------------------------------------
(* Machine words.                                                          *)

WordRat == {p \in Rat : FitsWord(p)}

LEMMA WordRatIs ==
  ASSUME NEW p \in WordRat
  PROVE  \E a \in Int, b \in Nat \ {0} :
           /\ p = <<a, b>> /\ Coprime(a, b) /\ a \in Word /\ b \in UWord
           /\ -W <= a /\ a <= W - 1 /\ b <= 2 * W - 1
<1>1. p \in Rat /\ p[1] \in Word /\ p[2] \in UWord
  BY DEF WordRat, FitsWord
<1>2. PICK a \in Int, b \in Nat \ {0} : p = <<a, b>> /\ Coprime(a, b)
  BY <1>1, RatIs
<1>3. a \in Word /\ b \in UWord BY <1>1, <1>2
<1>4. QED BY <1>2, <1>3, WidthAssumption DEF Word, UWord

\* What passes the checks is stored as it is.
LEMMA CheckedIs ==
  ASSUME NEW a \in Int, NEW b \in Nat \ {0}, NEW value, value = <<a, b>>, value \in Rat
  PROVE  Checked(a, b) = Overflow \/ (Checked(a, b) = value /\ value \in WordRat)
BY DEF Checked, WordRat, FitsWord

\* The result of an operation on words: too large, or exact.
Exact(w, value) == w = Overflow \/ (w = value /\ value \in WordRat)

LEMMA ReducedIs ==
  ASSUME NEW n \in Int, NEW d \in Nat \ {0}, NEW g, g = gcd(Abs(n), d)
  PROVE  g \in Nat \ {0} /\ Exact(Reduced(n, d, g), Frac(n, d))
<1>1. Abs(d) = d /\ d \in Int /\ d # 0 BY DEF Abs
<1>2. PICK h \in Nat \ {0}, i \in Int, j \in Int :
        h = gcd(Abs(n), Abs(d)) /\ n = h * i /\ d = h * j /\ Coprime(i, j)
  BY <1>1, GcdParts, Zenon
<1>3. h = g /\ j > 0 /\ j \in Nat \ {0} BY <1>1, <1>2
<1>4. Frac(n, d) = <<i, j>>
  <2>1. i * (h * j) = (h * i) * j OBVIOUS
  <2>2. i * d = n * j BY <1>2, <2>1
  <2>3. QED BY <1>1, <1>2, <1>3, <2>2, FracIs
<1>5. <<i, j>> \in Rat BY <1>2, <1>3, IsRat
<1>6. Reduced(n, d, g) = Checked(i, j)
  <2>1. CASE g = 1 BY <1>2, <1>3, <2>1 DEF Reduced
  <2>2. CASE g # 1
    <3>1. Quotient(n, g) = i
      <4>1. CASE n < 0
        <5>1. -n = h * (-i) BY <1>2
        <5>2. (-n) \div h = -i BY <5>1, ExactQuotient
        <5>3. QED BY <1>3, <4>1, <5>2 DEF Quotient
      <4>2. CASE ~ (n < 0)
        <5>1. n \div h = i BY <1>2, ExactQuotient
        <5>2. QED BY <1>3, <4>2, <5>1 DEF Quotient
      <4>3. QED BY <4>1, <4>2
    <3>2. d \div g = j BY <1>2, <1>3, ExactQuotient
    <3>3. QED BY <2>2, <3>1, <3>2 DEF Reduced
  <2>3. QED BY <2>1, <2>2
<1>7. QED BY <1>3, <1>4, <1>5, <1>6, CheckedIs DEF Exact

\* A value that fits a type is not changed by it.
LEMMA CastsAreExact ==
  /\ \A v \in 0..(4 * W * W - 1) : ulword(v) = v
  /\ \A v \in UWord : uword(v) = v
  /\ \A v \in Word : word(v) = v
<1>1. W \in Nat /\ W >= 1 /\ 4 * W * W \in Nat BY WidthAssumption
<1>2. ASSUME NEW v \in 0..(4 * W * W - 1)
      PROVE  ulword(v) = v
  BY <1>1 DEF ulword
<1>3. ASSUME NEW v \in UWord
      PROVE  uword(v) = v
  BY <1>1 DEF UWord, uword
<1>4. ASSUME NEW v \in Word
      PROVE  word(v) = v
  BY <1>1 DEF Word, word
<1>5. QED BY <1>2, <1>3, <1>4

LEMMA SquareBound ==
  ASSUME NEW w \in Nat \ {0}, NEW b \in Nat, b <= 2 * w - 1, NEW d \in Nat, d <= 2 * w - 1
  PROVE  b * d <= 4 * w * w - 1
<1>1. b * d <= (2 * w - 1) * (2 * w - 1) OBVIOUS
<1>2. (2 * w - 1) * (2 * w - 1) = 4 * w * w - 4 * w + 1 OBVIOUS
<1>3. QED BY <1>1, <1>2

\* The product of two denominators.
LEMMA DenominatorFits ==
  ASSUME NEW b \in UWord, NEW d \in UWord
  PROVE  b * d \in 0..(4 * W * W - 1) /\ ulword(b * d) = b * d
<1>1. /\ W \in Nat \ {0}
      /\ b \in Nat /\ b <= 2 * W - 1 /\ d \in Nat /\ d <= 2 * W - 1
  BY WidthAssumption DEF UWord
<1>2. b * d <= 4 * W * W - 1 BY <1>1, SquareBound
<1>3. b * d \in Nat /\ 4 * W * W - 1 \in Int BY <1>1
<1>4. b * d \in 0..(4 * W * W - 1) BY <1>2, <1>3
<1>5. QED BY <1>4, CastsAreExact

LEMMA SmallerDenominator ==
  ASSUME NEW g \in Nat \ {0}, NEW i \in Int, NEW b \in Nat \ {0}, b \in UWord, b = g * i
  PROVE  /\ i \in Nat \ {0} /\ i \in UWord /\ g \in UWord /\ b \div g = i
         /\ g <= b /\ i <= b
<1>1. i >= 1
  <2>1. i <= 0 => g * i <= 0 OBVIOUS
  <2>2. QED BY <2>1
<1>2. g * i >= i /\ g * i >= g BY <1>1
<1>3. (g * i) \div g = i BY ExactQuotient
<1>4. QED BY <1>1, <1>2, <1>3, WidthAssumption DEF UWord

\* A factor of one denominator that is none of the other has nothing in common
\* with the numerator of the sum.
LEMMA SumCoprime ==
  ASSUME NEW a \in Int, NEW g \in Int, NEW i \in Int, NEW j \in Int, NEW c \in Int,
         Coprime(a, g * i), Coprime(i, j),
         NEW h \in Int, NEW m \in Int, h * m = a * j + c * i
  PROVE  Coprime(h, i)
<1>1. g * i \in Int /\ i * g \in Int /\ g * i = i * g /\ a * j \in Int
  OBVIOUS
<1>2. Coprime(g * i, a) BY <1>1, CoprimeSymmetric
<1>3. Coprime(i * g, a) BY <1>1, <1>2
<1>4. Coprime(i, a) BY <1>3, CoprimeFactor
<1>5. Coprime(a, i) /\ Coprime(j, i) BY <1>4, CoprimeSymmetric
<1>6. Coprime(a * j, i) BY <1>5, CoprimeProduct
<1>7. PICK x \in Int, y \in Int : (a * j) * x + i * y = 1
  BY <1>6 DEF Coprime
<1>8. (a * j + c * i) * x + i * (y - c * x) = (a * j) * x + i * y
  OBVIOUS
<1>9. (h * m) * x + i * (y - c * x) = 1 BY <1>7, <1>8
<1>10. PICK u \in Int, v \in Int : u = m * x /\ v = y - c * x OBVIOUS
<1>11. h * (m * x) = (h * m) * x OBVIOUS
<1>12. h * u + i * v = 1 BY <1>9, <1>10, <1>11
<1>13. QED BY <1>12 DEF Coprime

LEMMA GcdOfNat ==
  ASSUME NEW n \in Int, NEW e \in Nat \ {0}
  PROVE  /\ gcd(Abs(n), e) \in Nat \ {0}
         /\ \E m, l \in Int : n = gcd(Abs(n), e) * m /\ e = gcd(Abs(n), e) * l
<1>1. e \in Int /\ e # 0 /\ Abs(e) = e BY DEF Abs
<1>2. PICK h \in Nat \ {0}, m \in Int, l \in Int :
        h = gcd(Abs(n), Abs(e)) /\ n = h * m /\ e = h * l /\ Coprime(m, l)
  BY <1>1, GcdParts, Zenon
<1>3. h = gcd(Abs(n), e) BY <1>1, <1>2
<1>4. QED BY <1>2, <1>3

\* What divides the sum of two fractions over the least common denominator
\* divides what the denominators have in common.
LEMMA CommonOfSum ==
  ASSUME NEW a \in Int, NEW c \in Int, NEW g \in Nat \ {0}, NEW i \in Int, NEW j \in Int,
         Coprime(a, g * i), Coprime(c, g * j), Coprime(i, j),
         NEW h \in Nat \ {0}, NEW m \in Int, NEW l \in Int,
         h * m = a * j + c * i, h * l = (g * i) * j
  PROVE  h <= g
<1>1. h \in Int /\ g \in Int /\ i * j \in Int OBVIOUS
<1>2. Coprime(h, i) BY <1>1, SumCoprime
<1>3. Coprime(j, i) /\ h * m = c * i + a * j BY CoprimeSymmetric
<1>4. Coprime(h, j) BY <1>1, <1>3, SumCoprime
<1>5. Coprime(i, h) /\ Coprime(j, h)
  BY <1>1, <1>2, <1>4, CoprimeSymmetric
<1>6. Coprime(i * j, h) BY <1>1, <1>5, CoprimeProduct
<1>7. Coprime(h, i * j) BY <1>1, <1>6, CoprimeSymmetric
<1>8. (g * i) * j = (i * j) * g OBVIOUS
<1>9. (i * j) * g = h * l BY <1>8
<1>10. Divides(h, (i * j) * g) BY <1>9 DEF Divides
<1>11. Divides(h, g) BY <1>1, <1>7, <1>10, CoprimeDivides
<1>12. QED BY <1>11, DivisorIsSmaller

\* The sum of two fractions over the least common denominator.
LEMMA SharedDenominator ==
  ASSUME NEW a \in Int, NEW c \in Int, NEW g \in Nat \ {0}, NEW i \in Nat \ {0}, NEW j \in Nat \ {0},
         Coprime(a, g * i), Coprime(c, g * j), Coprime(i, j)
  PROVE  \A n, e \in Int : n = a * j + c * i /\ e = (g * i) * j =>
           /\ e \in Nat \ {0} /\ gcd(Abs(n), e) \in 1..g
           /\ Frac(a * (g * j) + c * (g * i), (g * i) * (g * j)) = Frac(n, e)
<1> TAKE n, e \in Int
<1>1. HAVE n = a * j + c * i /\ e = (g * i) * j
<1>2. e \in Nat \ {0} BY <1>1
<1>3. /\ gcd(Abs(n), e) \in Nat \ {0}
      /\ \E m, l \in Int : n = gcd(Abs(n), e) * m /\ e = gcd(Abs(n), e) * l
  BY <1>2, GcdOfNat, Zenon
<1>4. PICK h \in Nat \ {0} : h = gcd(Abs(n), e) /\ \E m, l \in Int : n = h * m /\ e = h * l
  BY <1>3, Zenon
<1>5. PICK m \in Int, l \in Int : n = h * m /\ e = h * l BY <1>4
<1>6. h <= g
  <2>1. h * m = a * j + c * i /\ h * l = (g * i) * j BY <1>1, <1>5
  <2>2. i \in Int /\ j \in Int OBVIOUS
  <2>3. QED BY <2>1, <2>2, CommonOfSum, Zenon
<1>7. Frac(a * (g * j) + c * (g * i), (g * i) * (g * j)) = Frac(n, e)
  <2>1. (a * j + c * i) * g = a * (g * j) + c * (g * i) /\ ((g * i) * j) * g = (g * i) * (g * j)
    OBVIOUS
  <2>2. n * g = a * (g * j) + c * (g * i) /\ e * g = (g * i) * (g * j)
    BY <1>1, <2>1
  <2>3. e # 0 /\ g # 0 /\ g \in Int BY <1>2
  <2>4. Frac(n * g, e * g) = Frac(n, e) BY <2>3, FracScaled
  <2>5. QED BY <2>2, <2>4
<1>8. QED BY <1>2, <1>4, <1>6, <1>7

-----------------------------------------------------------------------------
(* Sums and differences of words.                                          *)

LEMMA CoprimeShifted ==
  ASSUME NEW a \in Int, NEW b \in Int, NEW c \in Int, Coprime(a, b)
  PROVE  Coprime(a + c * b, b)
<1>1. PICK x \in Int, y \in Int : a * x + b * y = 1 BY DEF Coprime
<1>2. (a + c * b) * x + b * (y - c * x) = a * x + b * y OBVIOUS
<1>3. PICK z \in Int : z = y - c * x OBVIOUS
<1>4. (a + c * b) * x + b * z = 1 BY <1>1, <1>2, <1>3
<1>5. QED BY <1>4 DEF Coprime

LEMMA LwordsOfProducts ==
  ASSUME NEW n \in Word, NEW d \in UWord
  PROVE  n * d \in LWord /\ lword(n * d) = n * d
<1>1. W \in Nat /\ W >= 1 /\ W * W >= W BY WidthAssumption
<1>2. /\ -W * (2 * W - 1) = W - 2 * W * W
      /\ (W - 1) * (2 * W - 1) = 2 * W * W - 3 * W + 1
  BY <1>1
<1>3. n * d \in LWord
  BY <1>1, <1>2, ProductBounds DEF LWord, LWordMin, LWordMax
<1>4. QED BY <1>3, LwordIsExact

\* Two denominators without what they have in common.
LEMMA CommonDenominator ==
  ASSUME NEW b \in Nat \ {0}, b \in UWord, NEW d \in Nat \ {0}, d \in UWord
  PROVE  \E g, i, j \in Nat \ {0} :
           /\ g = gcd(b, d) /\ b = g * i /\ d = g * j /\ Coprime(i, j)
           /\ b \div g = i /\ d \div g = j
           /\ g \in UWord /\ g <= b /\ i \in UWord /\ j \in UWord
<1>1. Abs(b) = b /\ Abs(d) = d /\ b \in Int /\ d \in Int /\ d # 0
  BY DEF Abs
<1>2. PICK g \in Nat \ {0}, i \in Int, j \in Int :
        g = gcd(Abs(b), Abs(d)) /\ b = g * i /\ d = g * j /\ Coprime(i, j)
  BY <1>1, GcdParts, Zenon
<1>3. i \in Nat \ {0} /\ i \in UWord /\ g \in UWord /\ b \div g = i /\ g <= b
  BY <1>2, SmallerDenominator, Zenon
<1>4. j \in Nat \ {0} /\ j \in UWord /\ d \div g = j
  BY <1>2, SmallerDenominator, Zenon
<1>5. g = gcd(b, d) BY <1>1, <1>2
<1>6. QED BY <1>2, <1>3, <1>4, <1>5, Zenon

\* The sum of two numerators over the least common denominator is reduced by
\* an unsigned word.
LEMMA SumReduced ==
  ASSUME NEW a \in Int, NEW c \in Int, NEW g \in Nat \ {0}, NEW i \in Nat \ {0}, NEW j \in Nat \ {0},
         Coprime(a, g * i), Coprime(c, g * j), Coprime(i, j), g \in UWord
  PROVE  \A n, e \in Int : n = a * j + c * i /\ e = (g * i) * j =>
           Exact(Reduced(n, e, uword(gcd(Abs(n), e))),
                 Frac(a * (g * j) + c * (g * i), (g * i) * (g * j)))
<1>0. \A n, e \in Int : n = a * j + c * i /\ e = (g * i) * j =>
           /\ e \in Nat \ {0} /\ gcd(Abs(n), e) \in 1..g
           /\ Frac(a * (g * j) + c * (g * i), (g * i) * (g * j)) = Frac(n, e)
  BY SharedDenominator
<1> TAKE n, e \in Int
<1>1. HAVE n = a * j + c * i /\ e = (g * i) * j
<1>2. /\ e \in Nat \ {0} /\ gcd(Abs(n), e) \in 1..g
      /\ Frac(a * (g * j) + c * (g * i), (g * i) * (g * j)) = Frac(n, e)
  BY <1>0, <1>1, Zenon
<1>3. PICK h : h = gcd(Abs(n), e) OBVIOUS
<1>4. h \in UWord BY <1>2, <1>3, WidthAssumption DEF UWord
<1>5. uword(gcd(Abs(n), e)) = gcd(Abs(n), e)
  BY <1>3, <1>4, CastsAreExact
<1>6. Exact(Reduced(n, e, gcd(Abs(n), e)), Frac(n, e))
  BY <1>2, ReducedIs, Zenon
<1>7. QED BY <1>2, <1>5, <1>6

\* The last case of addition: over the least common denominator.
LEMMA AdditionOther ==
  ASSUME NEW a \in Word, NEW c \in Word, NEW b \in Nat \ {0}, b \in UWord, NEW d \in Nat \ {0}, d \in UWord,
         Coprime(a, b), Coprime(c, d),
         NEW n1, NEW n2, NEW e,
         n1 = lword(a * (d \div gcd(b, d))), n2 = lword(c * (b \div gcd(b, d))),
         e = ulword(b * (d \div gcd(b, d))), ~SumOverflows(n1, n2),
         NEW n, n = lword(n1 + n2)
  PROVE  Exact(Reduced(n, e, uword(gcd(Abs(n), e))), Frac(a * d + c * b, b * d))
<1>1. PICK g \in Nat \ {0}, i \in Nat \ {0}, j \in Nat \ {0} :
        /\ g = gcd(b, d) /\ b = g * i /\ d = g * j /\ Coprime(i, j)
        /\ b \div g = i /\ d \div g = j
        /\ g \in UWord /\ g <= b /\ i \in UWord /\ j \in UWord
  BY CommonDenominator, Zenon
<1>2. n1 = a * j /\ n1 \in LWord /\ n2 = c * i /\ n2 \in LWord
  BY <1>1, LwordsOfProducts
<1>3. n = n1 + n2
  <2>1. n1 + n2 \in LWord BY <1>2, ChecksAreExact
  <2>2. QED BY <2>1, LwordIsExact
<1>4. e = b * j BY <1>1, DenominatorFits
<1>5. a \in Int /\ c \in Int BY WidthAssumption DEF Word
<1>6. PICK m \in Int, l \in Int : m = a * j + c * i /\ l = (g * i) * j
  BY <1>5
<1>7. n = m /\ e = l BY <1>1, <1>2, <1>3, <1>4, <1>6
<1>8. Coprime(a, g * i) /\ Coprime(c, g * j) BY <1>1
<1>9. Exact(Reduced(m, l, uword(gcd(Abs(m), l))),
            Frac(a * (g * j) + c * (g * i), (g * i) * (g * j)))
  BY <1>1, <1>5, <1>6, <1>8, SumReduced, Zenon
<1>10. QED BY <1>1, <1>7, <1>9

\* How the result of an operation is recognized as exact.
LEMMA ExactIs ==
  ASSUME NEW n \in Int, NEW d \in Int, d # 0,
         NEW x \in Int, NEW y \in Nat \ {0}, Coprime(x, y), x * d = n * y
  PROVE  Exact(Checked(x, y), Frac(n, d)) /\ (FitsWord(<<x, y>>) => Exact(<<x, y>>, Frac(n, d)))
<1>1. Frac(n, d) = <<x, y>> BY FracIs, Zenon
<1>2. <<x, y>> \in Rat BY IsRat
<1>3. QED BY <1>1, <1>2, CheckedIs DEF Exact, WordRat

LEMMA WordsOf ==
  ASSUME NEW p \in WordRat
  PROVE  p \in Word \X UWord /\ p \in Rat
<1>1. p \in Rat BY DEF WordRat
<1>2. p = <<p[1], p[2]>> BY <1>1, RatIs
<1>3. p[1] \in Word /\ p[2] \in UWord BY DEF WordRat, FitsWord
<1>4. QED BY <1>1, <1>2, <1>3

\* Every operation on words overflows or is exact.
LEMMA AdditionIsExact ==
  ASSUME NEW p \in WordRat, NEW q \in WordRat
  PROVE  Exact(AdditionWord(p, q), Plus(p, q))
<1>1. PICK a \in Int, b \in Nat \ {0} :
        p = <<a, b>> /\ Coprime(a, b) /\ a \in Word /\ b \in UWord
  BY WordRatIs
<1>2. PICK c \in Int, d \in Nat \ {0} :
        q = <<c, d>> /\ Coprime(c, d) /\ c \in Word /\ d \in UWord
  BY WordRatIs
<1>3. p \in Word \X UWord /\ q \in Word \X UWord /\ p \in Rat /\ q \in Rat
  BY WordsOf
<1>4. PICK n \in Int, e \in Int : n = a * d + c * b /\ e = b * d OBVIOUS
<1>5. Plus(p, q) = Frac(n, e) /\ e # 0 BY <1>1, <1>2, <1>4 DEF Plus
<1>6. ASSUME c = 0
      PROVE  Exact(p, Frac(n, e))
  <2>1. d = 1 BY <1>2, <1>3, <1>6, ZeroIsRat DEF Zero
  <2>2. n = a /\ e = b BY <1>4, <1>6, <2>1
  <2>3. a * e = n * b BY <2>2
  <2>4. FitsWord(<<a, b>>) BY <1>1 DEF FitsWord
  <2>5. QED BY <1>1, <1>5, <2>3, <2>4, ExactIs
<1>7. ASSUME a = 0
      PROVE  Exact(q, Frac(n, e))
  <2>1. b = 1 BY <1>1, <1>3, <1>7, ZeroIsRat DEF Zero
  <2>2. n = c /\ e = d BY <1>4, <1>7, <2>1
  <2>3. c * e = n * d BY <2>2
  <2>4. FitsWord(<<c, d>>) BY <1>2 DEF FitsWord
  <2>5. QED BY <1>2, <1>5, <2>3, <2>4, ExactIs
<1>8. ASSUME b = d, a = -c
      PROVE  Exact(Zero, Frac(n, e))
  <2>1. n = 0
    <3>1. (-c) * d + c * d = 0 OBVIOUS
    <3>2. QED BY <1>4, <1>8, <3>1
  <2>2. 0 * e = n * 1 BY <2>1
  <2>3. Coprime(0, 1) BY ZeroIsRat, RatIs DEF Zero
  <2>4. FitsWord(<<0, 1>>) BY WidthAssumption DEF FitsWord, Word, UWord
  <2>5. QED BY <1>5, <2>2, <2>3, <2>4, ExactIs DEF Zero
<1>9. ASSUME d = 1
      PROVE  Exact(Checked(lword(a + c * b), b), Frac(n, e))
  <2>1. lword(a + c * b) = a + c * b
    BY <1>1, <1>2, <1>3, UncheckedArithmeticFits
  <2>2. PICK x \in Int : x = a + c * b OBVIOUS
  <2>3. n = x /\ e = b BY <1>4, <1>9, <2>2
  <2>4. Coprime(x, b) /\ x * e = n * b
    BY <1>1, <2>2, <2>3, CoprimeShifted
  <2>5. Exact(Checked(x, b), Frac(n, e)) BY <1>5, <2>4, ExactIs
  <2>6. QED BY <2>1, <2>2, <2>5
<1>10. ASSUME b = 1
       PROVE  Exact(Checked(lword(c + a * d), d), Frac(n, e))
  <2>1. lword(c + a * d) = c + a * d
    BY <1>1, <1>2, <1>3, UncheckedArithmeticFits
  <2>2. PICK x \in Int : x = c + a * d OBVIOUS
  <2>3. n = x /\ e = d BY <1>4, <1>10, <2>2
  <2>4. Coprime(x, d) /\ x * e = n * d
    BY <1>2, <2>2, <2>3, CoprimeShifted
  <2>5. Exact(Checked(x, d), Frac(n, e)) BY <1>5, <2>4, ExactIs
  <2>6. QED BY <2>1, <2>2, <2>5
<1>11. PICK n1, n2, f, s :
         /\ n1 = lword(a * (d \div gcd(b, d))) /\ n2 = lword(c * (b \div gcd(b, d)))
         /\ f = ulword(b * (d \div gcd(b, d))) /\ s = lword(n1 + n2)
  OBVIOUS
<1>12. ASSUME ~SumOverflows(n1, n2)
       PROVE  Exact(Reduced(s, f, uword(gcd(Abs(s), f))), Frac(n, e))
  BY <1>1, <1>2, <1>4, <1>11, <1>12, AdditionOther
<1>13. Exact(Overflow, Frac(n, e)) BY DEF Exact
<1>14. AdditionWord(p, q) =
         CASE c = 0 -> p
           [] a = 0 -> q
           [] b = d /\ c > -W /\ a = -c -> Zero
           [] d = 1 -> Checked(lword(a + c * b), b)
           [] b = 1 -> Checked(lword(c + a * d), d)
           [] OTHER -> IF SumOverflows(n1, n2) THEN Overflow
                       ELSE Reduced(s, f, uword(gcd(Abs(s), f)))
  BY <1>1, <1>2, <1>11 DEF AdditionWord
<1>15. QED BY <1>5, <1>6, <1>7, <1>8, <1>9, <1>10, <1>12, <1>13, <1>14

\* The last case of substraction, of both kinds.
LEMMA DifferenceReduced ==
  ASSUME NEW a \in Word, NEW c \in Word, NEW b \in Nat \ {0}, b \in UWord, NEW d \in Nat \ {0}, d \in UWord,
         Coprime(a, b), Coprime(c, d),
         NEW n1, NEW n2, NEW e,
         n1 = lword(a * (d \div gcd(b, d))), n2 = lword(c * (b \div gcd(b, d))),
         e = ulword(b * (d \div gcd(b, d))),
         \/ gcd(b, d) # 1
         \/ ~DifferenceOverflows(n1, n2)
         \/ n1 \in Word /\ n2 \in Word,
         NEW n, n = lword(n1 - n2)
  PROVE  Exact(Reduced(n, e, uword(gcd(Abs(n), e))), Frac(a * d - c * b, b * d))
<1>1. PICK g \in Nat \ {0}, i \in Nat \ {0}, j \in Nat \ {0} :
        /\ g = gcd(b, d) /\ b = g * i /\ d = g * j /\ Coprime(i, j)
        /\ b \div g = i /\ d \div g = j
        /\ g \in UWord /\ g <= b /\ i \in UWord /\ j \in UWord
  BY CommonDenominator, Zenon
<1>2. n1 = a * j /\ n1 \in LWord /\ n2 = c * i /\ n2 \in LWord
  BY <1>1, LwordsOfProducts
<1>3. n = n1 - n2
  <2>1. CASE g # 1
    <3>1. <<a, b>> \in Word \X UWord /\ <<c, d>> \in Word \X UWord /\ g \in Nat \ {0, 1}
      BY <2>1
    <3>2. PICK p, q : p = <<a, b>> /\ q = <<c, d>> OBVIOUS
    <3>3. \A k \in Nat \ {0, 1} :
            LET m1 == p[1] * (q[2] \div k)
                m2 == q[1] * (p[2] \div k)
            IN lword(m1 - m2) = m1 - m2
      BY <3>1, <3>2, UncheckedArithmeticFits
    <3>4. lword(a * (d \div g) - c * (b \div g)) = a * (d \div g) - c * (b \div g)
      BY <3>1, <3>2, <3>3
    <3>5. QED BY <1>1, <1>2, <3>4
  <2>2. CASE ~DifferenceOverflows(n1, n2)
    <3>1. n1 - n2 \in LWord BY <1>2, <2>2, ChecksAreExact
    <3>2. QED BY <3>1, LwordIsExact
  <2>3. CASE n1 \in Word /\ n2 \in Word
    <3>1. W \in Nat /\ W >= 1 /\ W * W >= W BY WidthAssumption
    <3>2. n1 - n2 \in LWord
      BY <2>3, <3>1 DEF Word, LWord, LWordMin, LWordMax
    <3>3. QED BY <3>2, LwordIsExact
  <2>4. QED BY <1>1, <2>1, <2>2, <2>3
<1>4. e = b * j BY <1>1, DenominatorFits
<1>5. a \in Int /\ c \in Int /\ -c \in Int BY WidthAssumption DEF Word
<1>6. PICK m \in Int, l \in Int : m = a * j + (-c) * i /\ l = (g * i) * j
  BY <1>5
<1>7. n = m /\ e = l
  <2>1. (-c) * i = -(c * i) BY <1>5
  <2>2. QED BY <1>1, <1>2, <1>3, <1>4, <1>6, <2>1
<1>8. Coprime(a, g * i) /\ Coprime(-c, g * j)
  BY <1>1, <1>5, CoprimeNegated
<1>9. Exact(Reduced(m, l, uword(gcd(Abs(m), l))),
            Frac(a * (g * j) + (-c) * (g * i), (g * i) * (g * j)))
  BY <1>1, <1>5, <1>6, <1>8, SumReduced, Zenon
<1>10. a * (g * j) + (-c) * (g * i) = a * d - c * b
  <2>1. a * (g * j) + (-c) * (g * i) = a * (g * j) - c * (g * i) BY <1>5
  <2>2. QED BY <1>1, <2>1
<1>11. QED BY <1>1, <1>7, <1>9, <1>10

LEMMA SubstractionIsExact ==
  ASSUME NEW p \in WordRat, NEW q \in WordRat
  PROVE  /\ Exact(SubstractionWord(p, q), Minus(p, q))
         /\ Exact(SubstractionAssignWord(p, q), Minus(p, q))
<1>1. PICK a \in Int, b \in Nat \ {0} :
        p = <<a, b>> /\ Coprime(a, b) /\ a \in Word /\ b \in UWord
  BY WordRatIs
<1>2. PICK c \in Int, d \in Nat \ {0} :
        q = <<c, d>> /\ Coprime(c, d) /\ c \in Word /\ d \in UWord
  BY WordRatIs
<1>3. p \in Word \X UWord /\ q \in Word \X UWord /\ p \in Rat /\ q \in Rat
  BY WordsOf
<1>4. PICK n \in Int, e \in Int : n = a * d - c * b /\ e = b * d OBVIOUS
<1>5. Minus(p, q) = Frac(n, e) /\ e # 0
  BY <1>1, <1>2, <1>3, <1>4, MinusIs
<1>6. ASSUME c = 0
      PROVE  Exact(p, Frac(n, e))
  <2>1. d = 1 BY <1>2, <1>3, <1>6, ZeroIsRat DEF Zero
  <2>2. n = a /\ e = b BY <1>4, <1>6, <2>1
  <2>3. a * e = n * b BY <2>2
  <2>4. FitsWord(<<a, b>>) BY <1>1 DEF FitsWord
  <2>5. QED BY <1>1, <1>5, <2>3, <2>4, ExactIs
<1>7. ASSUME a = 0
      PROVE  Exact(Checked(-c, d), Frac(n, e))
  <2>1. b = 1 BY <1>1, <1>3, <1>7, ZeroIsRat DEF Zero
  <2>2. n = -c /\ e = d /\ -c \in Int BY <1>4, <1>7, <2>1
  <2>3. (-c) * e = n * d BY <2>2
  <2>4. Coprime(-c, d) BY <1>2, CoprimeNegated
  <2>5. QED BY <1>5, <2>2, <2>3, <2>4, ExactIs
<1>8. ASSUME p = q
      PROVE  Exact(Zero, Frac(n, e))
  <2>1. n = 0
    <3>1. a * b - a * b = 0 OBVIOUS
    <3>2. a = c /\ b = d BY <1>1, <1>2, <1>8
    <3>3. QED BY <1>4, <3>1, <3>2
  <2>2. 0 * e = n * 1 BY <2>1
  <2>3. Coprime(0, 1) BY ZeroIsRat, RatIs DEF Zero
  <2>4. FitsWord(<<0, 1>>) BY WidthAssumption DEF FitsWord, Word, UWord
  <2>5. QED BY <1>5, <2>2, <2>3, <2>4, ExactIs DEF Zero
<1>9. ASSUME d = 1
      PROVE  Exact(Checked(lword(a - c * b), b), Frac(n, e))
  <2>1. lword(a - c * b) = a - c * b
    BY <1>1, <1>2, <1>3, UncheckedArithmeticFits
  <2>2. PICK x \in Int : x = a - c * b OBVIOUS
  <2>3. n = x /\ e = b BY <1>4, <1>9, <2>2
  <2>4. x = a + (-c) * b /\ -c \in Int BY <2>2
  <2>5. Coprime(x, b) /\ x * e = n * b
    BY <1>1, <2>3, <2>4, CoprimeShifted
  <2>6. Exact(Checked(x, b), Frac(n, e)) BY <1>5, <2>5, ExactIs
  <2>7. QED BY <2>1, <2>2, <2>6
<1>10. ASSUME b = 1
       PROVE  Exact(Checked(lword(a * d - c), d), Frac(n, e))
  <2>1. lword(a * d - c) = a * d - c
    BY <1>1, <1>2, <1>3, UncheckedArithmeticFits
  <2>2. PICK x \in Int : x = a * d - c OBVIOUS
  <2>3. n = x /\ e = d BY <1>4, <1>10, <2>2
  <2>4. x = -c + a * d /\ -c \in Int /\ Coprime(-c, d)
    BY <1>2, <2>2, CoprimeNegated
  <2>5. Coprime(x, d) /\ x * e = n * d BY <2>3, <2>4, CoprimeShifted
  <2>6. Exact(Checked(x, d), Frac(n, e)) BY <1>5, <2>5, ExactIs
  <2>7. QED BY <2>1, <2>2, <2>6
<1>11. PICK n1, n2, f, s :
         /\ n1 = lword(a * (d \div gcd(b, d))) /\ n2 = lword(c * (b \div gcd(b, d)))
         /\ f = ulword(b * (d \div gcd(b, d))) /\ s = lword(n1 - n2)
  OBVIOUS
<1>12. ASSUME gcd(b, d) # 1 \/ ~DifferenceOverflows(n1, n2) \/ (n1 \in Word /\ n2 \in Word)
       PROVE  Exact(Reduced(s, f, uword(gcd(Abs(s), f))), Frac(n, e))
  BY <1>1, <1>2, <1>4, <1>11, <1>12, DifferenceReduced
<1>13. Exact(Overflow, Frac(n, e)) BY DEF Exact
<1>14. SubstractionWord(p, q) =
         CASE c = 0 -> p
           [] a = 0 -> Checked(-c, d)
           [] p = q -> Zero
           [] d = 1 -> Checked(lword(a - c * b), b)
           [] b = 1 -> Checked(lword(a * d - c), d)
           [] OTHER -> IF gcd(b, d) = 1 /\ DifferenceOverflows(n1, n2) THEN Overflow
                       ELSE Reduced(s, f, uword(gcd(Abs(s), f)))
  BY <1>1, <1>2, <1>11 DEF SubstractionWord
<1>15. SubstractionAssignWord(p, q) =
         IF n1 \in Word /\ n2 \in Word THEN Reduced(s, f, uword(gcd(Abs(s), f))) ELSE Overflow
  BY <1>1, <1>2, <1>11 DEF SubstractionAssignWord
<1>16. QED BY <1>5, <1>6, <1>7, <1>8, <1>9, <1>10, <1>12, <1>13, <1>14, <1>15

\* The last case of +=.  Stored in a lword the common factor may turn
\* negative; the denominator is then too large as well.
LEMMA AdditionAssignOther ==
  ASSUME NEW n \in LWord, NEW e \in Nat \ {0}, e <= 4 * W * W - 1,
         NEW common, common = lword(gcd(Abs(n), e))
  PROVE  Exact(Reduced(n, e, IF common > 1 THEN common ELSE 1), Frac(n, e))
<1>1. W \in Nat \ {0} /\ n \in Int
  BY WidthAssumption DEF LWord, LWordMin, LWordMax
<1>2. PICK s \in Nat \ {0} : s = 2 * W * W BY <1>1
<1>3. LWordMin = -s /\ LWordMax = s - 1 /\ e <= 2 * s - 1 /\ s >= 2 * W
  <2>1. 4 * W * W = 2 * s /\ 2 * W * W >= 2 * W BY <1>1, <1>2
  <2>2. QED BY <1>1, <1>2, <2>1 DEF LWordMin, LWordMax
<1>4. \A v \in Int : lword(v) = ((v + s) % (2 * s)) - s
  <2>1. 4 * W * W = 2 * s /\ \A v \in Int : v - (-2 * W * W) = v + s
    BY <1>1, <1>2, <1>3 DEF LWordMin
  <2>2. QED BY <1>2, <1>3, <2>1 DEF lword
<1>5. PICK h : h = gcd(Abs(n), e) OBVIOUS
<1>6. h \in Nat \ {0} /\ \E l \in Int : e = h * l
  BY <1>1, <1>5, GcdOfNat
<1>7. h <= e BY <1>6, DivisorIsSmaller DEF Divides
<1>8. CASE h <= s - 1
  <2>1. lword(h) = h BY <1>2, <1>3, <1>6, <1>8, LwordIsExact DEF LWord
  <2>2. (IF common > 1 THEN common ELSE 1) = h BY <1>5, <1>6, <2>1
  <2>3. QED BY <1>1, <1>5, <2>2, ReducedIs
<1>9. CASE h >= s
  <2>1. e >= s BY <1>2, <1>6, <1>7, <1>9
  <2>2. e \notin UWord BY <1>1, <1>2, <1>3, <2>1 DEF UWord
  <2>3. h + s = 2 * s + (h - s) /\ h - s \in 0..(2 * s - 1)
    BY <1>2, <1>3, <1>6, <1>7, <1>9
  <2>4. (h + s) % (2 * s) = h - s BY <1>2, <1>6, <2>3
  <2>5. lword(h) = h - 2 * s BY <1>2, <1>4, <1>6, <2>4
  <2>6. lword(h) <= 1 BY <1>2, <1>3, <1>6, <1>7, <2>5
  <2>7. (IF common > 1 THEN common ELSE 1) = 1
    BY <1>2, <1>5, <1>6, <2>5, <2>6
  <2>8. Reduced(n, e, 1) = Overflow BY <2>2 DEF Reduced, Checked
  <2>9. QED BY <2>7, <2>8 DEF Exact
<1>10. QED BY <1>2, <1>6, <1>8, <1>9

LEMMA AdditionAssignIsExact ==
  ASSUME NEW p \in WordRat, NEW q \in WordRat
  PROVE  Exact(AdditionAssignWord(p, q), Plus(p, q))
<1>1. PICK a \in Int, b \in Nat \ {0} :
        p = <<a, b>> /\ Coprime(a, b) /\ a \in Word /\ b \in UWord
  BY WordRatIs
<1>2. PICK c \in Int, d \in Nat \ {0} :
        q = <<c, d>> /\ Coprime(c, d) /\ c \in Word /\ d \in UWord
  BY WordRatIs
<1>3. p \in Word \X UWord /\ q \in Word \X UWord /\ p \in Rat /\ q \in Rat
  BY WordsOf
<1>4. PICK n \in Int, e \in Int : n = a * d + c * b /\ e = b * d OBVIOUS
<1>5. Plus(p, q) = Frac(n, e) /\ e # 0 /\ e \in Nat \ {0}
  BY <1>1, <1>2, <1>4 DEF Plus
<1>7. ASSUME a = 0
      PROVE  Exact(q, Frac(n, e))
  <2>1. b = 1 BY <1>1, <1>3, <1>7, ZeroIsRat DEF Zero
  <2>2. n = c /\ e = d BY <1>4, <1>7, <2>1
  <2>3. c * e = n * d BY <2>2
  <2>4. FitsWord(<<c, d>>) BY <1>2 DEF FitsWord
  <2>5. QED BY <1>2, <1>5, <2>3, <2>4, ExactIs
<1>9. ASSUME d = 1
      PROVE  Exact(Checked(lword(a + c * b), b), Frac(n, e))
  <2>1. lword(a + c * b) = a + c * b
    BY <1>1, <1>2, <1>3, UncheckedArithmeticFits
  <2>2. PICK x \in Int : x = a + c * b OBVIOUS
  <2>3. n = x /\ e = b BY <1>4, <1>9, <2>2
  <2>4. Coprime(x, b) /\ x * e = n * b
    BY <1>1, <2>2, <2>3, CoprimeShifted
  <2>5. Exact(Checked(x, b), Frac(n, e)) BY <1>5, <2>4, ExactIs
  <2>6. QED BY <2>1, <2>2, <2>5
<1>10. PICK c1, c2, m, f, common :
         /\ c1 = lword(a * d) /\ c2 = lword(c * b) /\ m = lword(c1 + c2) /\ f = ulword(b * d)
         /\ common = lword(gcd(Abs(m), f))
  OBVIOUS
<1>11. ASSUME ~SumOverflows(c1, c2)
       PROVE  Exact(Reduced(m, f, IF common > 1 THEN common ELSE 1), Frac(n, e))
  <2>1. c1 = a * d /\ c2 = c * b /\ c1 \in LWord /\ c2 \in LWord
    BY <1>1, <1>2, <1>10, LwordsOfProducts
  <2>2. c1 + c2 \in LWord BY <1>11, <2>1, ChecksAreExact
  <2>3. m = n /\ n \in LWord BY <1>4, <1>10, <2>1, <2>2, LwordIsExact
  <2>4. f = e /\ e <= 4 * W * W - 1
    BY <1>1, <1>2, <1>4, <1>10, DenominatorFits
  <2>5. QED BY <1>5, <1>10, <2>3, <2>4, AdditionAssignOther
<1>13. Exact(Overflow, Frac(n, e)) BY DEF Exact
<1>14. AdditionAssignWord(p, q) =
         CASE d = 1 -> Checked(lword(a + c * b), b)
           [] a = 0 -> q
           [] OTHER -> IF SumOverflows(c1, c2) THEN Overflow
                       ELSE Reduced(m, f, IF common > 1 THEN common ELSE 1)
  BY <1>1, <1>2, <1>10 DEF AdditionAssignWord
<1>15. QED BY <1>5, <1>7, <1>9, <1>11, <1>13, <1>14

-----------------------------------------------------------------------------
(* Products and quotients of words.                                        *)

\* Dividing out a factor before and after the sign is removed.
LEMMA SignedParts ==
  ASSUME NEW g \in Nat \ {0}, NEW i \in Int
  PROVE  Quotient(g * i, g) = i /\ Abs(g * i) \div g = Abs(i)
<1>1. (g * i) \div g = i /\ (g * (-i)) \div g = -i /\ -i \in Int
  BY ExactQuotient
<1>2. g * (-i) = -(g * i) /\ g * i \in Int OBVIOUS
<1>3. (i < 0 <=> g * i < 0) OBVIOUS
<1>4. QED BY <1>1, <1>2, <1>3 DEF Quotient, Abs

LEMMA AbsOfProduct ==
  ASSUME NEW i \in Int, NEW l \in Int
  PROVE  Abs(i) * Abs(l) = Abs(i * l)
<1>1. (-i) * l = -(i * l) /\ i * (-l) = -(i * l) /\ (-i) * (-l) = i * l
  OBVIOUS
<1>2. /\ i >= 0 /\ l >= 0 => i * l >= 0
      /\ i >= 0 /\ l < 0 => i * l <= 0
      /\ i < 0 /\ l >= 0 => i * l <= 0
      /\ i < 0 /\ l < 0 => i * l >= 0
  OBVIOUS
<1>3. QED BY <1>1, <1>2 DEF Abs

LEMMA GcdPartsFirst ==
  ASSUME NEW a \in Int, NEW d \in Int, d # 0
  PROVE  \E g \in Nat \ {0}, i, j \in Int :
           g = gcd(Abs(d), Abs(a)) /\ d = g * i /\ a = g * j /\ Coprime(i, j)
  BY GcdPartsAny

\* The same for a natural denominator, and in either order.
LEMMA NatParts ==
  ASSUME NEW a \in Int, NEW d \in Nat \ {0}
  PROVE  \A g : g = gcd(Abs(a), d) \/ g = gcd(d, Abs(a)) =>
           \E i, j \in Int : g \in Nat \ {0} /\ a = g * i /\ d = g * j /\ Coprime(i, j)
<1>0. d \in Int /\ d # 0 OBVIOUS
<1>1. Abs(d) = d BY DEF Abs
<1>2. PICK h \in Nat \ {0}, i \in Int, j \in Int :
        h = gcd(Abs(a), Abs(d)) /\ a = h * i /\ d = h * j /\ Coprime(i, j)
  BY <1>0, GcdParts, Zenon
<1>3. PICK m \in Nat \ {0}, k \in Int, l \in Int :
        m = gcd(Abs(d), Abs(a)) /\ d = m * k /\ a = m * l /\ Coprime(k, l)
  BY <1>0, GcdPartsFirst, Zenon
<1>4. Coprime(l, k) BY <1>3, CoprimeSymmetric
<1>5. h = gcd(Abs(a), d) /\ m = gcd(d, Abs(a)) BY <1>1, <1>2, <1>3
<1> TAKE g
<1>6. HAVE g = gcd(Abs(a), d) \/ g = gcd(d, Abs(a))
<1>7. CASE g = h BY <1>2, <1>7
<1>8. CASE g = m BY <1>3, <1>4, <1>8
<1>9. g = h \/ g = m BY <1>5, <1>6, Zenon
<1>10. QED BY <1>7, <1>8, <1>9

\* A numerator and a denominator without what they have in common.
LEMMA CrossParts ==
  ASSUME NEW a \in Word, NEW d \in Nat \ {0}, d \in UWord,
         NEW g, g = gcd(Abs(a), d) \/ g = gcd(d, Abs(a))
  PROVE  \E i \in Int, j \in Nat \ {0} :
           /\ g \in Nat \ {0} /\ a = g * i /\ d = g * j /\ Coprime(i, j)
           /\ Quotient(a, g) = i /\ Abs(a) \div g = Abs(i) /\ d \div g = j
           /\ i \in -W..W /\ j \in UWord
<1>1. a \in Int /\ W \in Nat BY WidthAssumption DEF Word
<1>2. PICK i \in Int, j \in Int :
        g \in Nat \ {0} /\ a = g * i /\ d = g * j /\ Coprime(i, j)
  BY <1>1, NatParts, Zenon
<1>3. j \in Nat \ {0} /\ j \in UWord /\ d \div g = j
  BY <1>2, SmallerDenominator, Zenon
<1>4. Quotient(a, g) = i /\ Abs(a) \div g = Abs(i) BY <1>2, SignedParts
<1>5. i \in -W..W
  <2>1. /\ i >= 0 => g * i >= i
        /\ i < 0 => g * i <= i
    BY <1>2
  <2>2. -W <= a /\ a <= W BY <1>1 DEF Word
  <2>3. i >= 0 => i <= W BY <1>1, <1>2, <2>1, <2>2
  <2>4. i < 0 => i >= -W BY <1>1, <1>2, <2>1, <2>2
  <2>5. QED BY <1>1, <2>3, <2>4
<1>6. QED BY <1>2, <1>3, <1>4, <1>5, Zenon

LEMMA WordsProduct ==
  ASSUME NEW i \in -W..W, NEW l \in -W..W
  PROVE  i * l \in LWord /\ lword(i * l) = i * l
<1>1. W \in Nat /\ W >= 1 /\ W * W >= 1 BY WidthAssumption
<1>2. i * l <= W * W /\ i * l >= -(W * W)
  <2>1. /\ i >= 0 /\ l >= 0 => i * l <= W * W /\ i * l >= 0
        /\ i < 0 /\ l < 0 => i * l <= W * W /\ i * l >= 0
    BY <1>1
  <2>2. /\ i >= 0 /\ l < 0 => i * l >= -(W * W) /\ i * l <= 0
        /\ i < 0 /\ l >= 0 => i * l >= -(W * W) /\ i * l <= 0
    BY <1>1
  <2>3. QED BY <1>1, <2>1, <2>2
<1>3. i * l \in LWord
  <2>1. 2 * W * W = 2 * (W * W) /\ i * l \in Int BY <1>1
  <2>2. QED BY <1>1, <1>2, <2>1 DEF LWord, LWordMin, LWordMax
<1>4. QED BY <1>3, LwordIsExact

\* What is left of the numerators has nothing in common with what is left of
\* the denominators.
LEMMA CoprimeCrosswise ==
  ASSUME NEW g \in Int, NEW i \in Int, NEW j \in Int, NEW h \in Int, NEW k \in Int, NEW l \in Int,
         Coprime(g * i, h * k), Coprime(h * l, g * j), Coprime(i, j), Coprime(l, k)
  PROVE  Coprime(i * l, k * j)
<1>1. ASSUME NEW u \in Int, NEW v \in Int, NEW x \in Int, NEW y \in Int, Coprime(u * v, x * y)
      PROVE  Coprime(v, y)
  <2>1. v * u = u * v /\ y * x = x * y /\ u * v \in Int /\ x * y \in Int
    OBVIOUS
  <2>2. Coprime(v * u, x * y) BY <1>1, <2>1
  <2>3. Coprime(v, x * y) BY <2>1, <2>2, CoprimeFactor
  <2>4. Coprime(y * x, v) BY <2>1, <2>3, CoprimeSymmetric
  <2>5. Coprime(y, v) BY <2>4, CoprimeFactor
  <2>6. QED BY <2>5, CoprimeSymmetric
<1>2. Coprime(i, k) /\ Coprime(l, j) BY <1>1
<1>3. i * l \in Int /\ k * j \in Int OBVIOUS
<1>4. Coprime(i * l, k) /\ Coprime(i * l, j) BY <1>2, CoprimeProduct
<1>5. Coprime(k, i * l) /\ Coprime(j, i * l)
  BY <1>3, <1>4, CoprimeSymmetric
<1>6. Coprime(k * j, i * l) BY <1>3, <1>5, CoprimeProduct
<1>7. QED BY <1>3, <1>6, CoprimeSymmetric

\* x has the sign of the product, and of the quotient, of a and c.
SignFits(x, a, c) ==
  IF (c < 0 /\ a >= 0) \/ (c > 0 /\ a <= 0) THEN x <= 0 ELSE x >= 0

\* A result whose sign is set last.
LEMMA SignedIs ==
  ASSUME NEW x \in Int, NEW y \in Nat \ {0}, Coprime(x, y), NEW p, NEW q,
         SignFits(x, p[1], q[1])
  PROVE  Exact(Signed(p, q, Checked(Abs(x), y)), <<x, y>>)
<1>1. <<x, y>> \in Rat BY IsRat
<1>2. CASE Checked(Abs(x), y) = Overflow BY <1>2 DEF Exact, Signed
<1>3. CASE Checked(Abs(x), y) # Overflow
  <2>1. Abs(x) \in Word /\ y \in UWord /\ Checked(Abs(x), y) = <<Abs(x), y>>
    BY <1>3 DEF Checked
  <2>2. <<Abs(x), y>>[1] = Abs(x) /\ <<Abs(x), y>>[2] = y OBVIOUS
  <2>3. Signed(p, q, Checked(Abs(x), y)) = <<x, y>>
    BY <1>3, <2>1, <2>2 DEF Signed, SignFits, Abs
  <2>4. x \in Word BY <2>1, WidthAssumption DEF Abs, Word
  <2>5. QED BY <1>1, <2>1, <2>3, <2>4 DEF Exact, WordRat, FitsWord
<1>4. QED BY <1>2, <1>3

\* Both products: what is left of the factors, and the value.
LEMMA FactorsOf ==
  ASSUME NEW a \in Word, NEW b \in Nat \ {0}, b \in UWord, Coprime(a, b),
         NEW c \in Word, NEW d \in Nat \ {0}, d \in UWord, Coprime(c, d)
  PROVE  \A g, h : g = gcd(Abs(a), d) /\ h = gcd(b, Abs(c)) =>
           \E x \in Int, y \in Nat \ {0} :
             /\ Coprime(x, y) /\ Frac(a * c, b * d) = <<x, y>>
             /\ lword(Quotient(a, g) * Quotient(c, h)) = x
             /\ lword((Abs(a) \div g) * (Abs(c) \div h)) = Abs(x)
             /\ ulword((b \div h) * (d \div g)) = y
             /\ SignFits(x, a, c)
<1> TAKE g, h
<1>0. HAVE g = gcd(Abs(a), d) /\ h = gcd(b, Abs(c))
<1>1. PICK i \in Int, j \in Nat \ {0} :
        /\ g \in Nat \ {0} /\ a = g * i /\ d = g * j /\ Coprime(i, j)
        /\ Quotient(a, g) = i /\ Abs(a) \div g = Abs(i) /\ d \div g = j
        /\ i \in -W..W /\ j \in UWord
  <2>1. g = gcd(Abs(a), d) \/ g = gcd(d, Abs(a)) BY <1>0
  <2>2. QED BY <2>1, CrossParts
<1>2. PICK l \in Int, k \in Nat \ {0} :
        /\ h \in Nat \ {0} /\ c = h * l /\ b = h * k /\ Coprime(l, k)
        /\ Quotient(c, h) = l /\ Abs(c) \div h = Abs(l) /\ b \div h = k
        /\ l \in -W..W /\ k \in UWord
  <2>1. h = gcd(Abs(c), b) \/ h = gcd(b, Abs(c)) BY <1>0
  <2>2. QED BY <2>1, CrossParts
<1>3. /\ g \in Int /\ h \in Int /\ j \in Int /\ k \in Int
      /\ Coprime(g * i, h * k) /\ Coprime(h * l, g * j) /\ Coprime(i, j) /\ Coprime(l, k)
      /\ k * j > 0 /\ (h * k) * (g * j) # 0
  <2>1. /\ g \in Int /\ h \in Int /\ j \in Int /\ k \in Int
        /\ Coprime(g * i, h * k) /\ Coprime(h * l, g * j) /\ Coprime(i, j) /\ Coprime(l, k)
    BY <1>1, <1>2
  <2>2. \A u, v \in Nat \ {0} : u * v \in Nat \ {0} OBVIOUS
  <2>3. k * j \in Nat \ {0} /\ h * k \in Nat \ {0} /\ g * j \in Nat \ {0}
    BY <1>1, <1>2, <2>2
  <2>4. k * j > 0 /\ (h * k) * (g * j) # 0
    <3>1. PICK u \in Nat \ {0}, v \in Nat \ {0}, x \in Nat \ {0} :
            u = h * k /\ v = g * j /\ x = k * j
      BY <2>3
    <3>2. u * v # 0 /\ x > 0 BY <2>2
    <3>3. QED BY <3>1, <3>2
  <2>5. QED BY <2>1, <2>4
<1>4. /\ i * l \in Int /\ k * j \in Nat \ {0} /\ Coprime(i * l, k * j)
      /\ Frac((g * i) * (h * l), (h * k) * (g * j)) = <<i * l, k * j>>
  <2>0. /\ i * l \in Int /\ k * j \in Nat \ {0}
        /\ (g * i) * (h * l) \in Int /\ (h * k) * (g * j) \in Int
    BY <1>3
  <2>1. Frac((g * i) * (h * l), (h * k) * (g * j)) = <<i * l, k * j>>
    <3>1. (i * l) * ((h * k) * (g * j)) = ((g * i) * (h * l)) * (k * j)
      BY <1>3
    <3>2. PICK n \in Int, e \in Int, x \in Int, y \in Nat \ {0} :
            n = (g * i) * (h * l) /\ e = (h * k) * (g * j) /\ x = i * l /\ y = k * j
      BY <2>0
    <3>3. Coprime(i * l, k * j) BY <1>3, CoprimeCrosswise, Zenon
    <3>4. e # 0 /\ Coprime(x, y) /\ x * e = n * y
      BY <1>3, <3>1, <3>2, <3>3
    <3>5. Frac(n, e) = <<x, y>> BY <3>4, FracIs
    <3>6. QED BY <3>2, <3>5
  <2>2. Coprime(i * l, k * j) BY <1>3, CoprimeCrosswise, Zenon
  <2>3. QED BY <2>0, <2>1, <2>2
<1>5. PICK x \in Int, y \in Nat \ {0} : x = i * l /\ y = k * j BY <1>4
<1>6. Coprime(x, y) /\ Frac(a * c, b * d) = <<x, y>>
  BY <1>1, <1>2, <1>4, <1>5
<1>7. lword(Quotient(a, g) * Quotient(c, h)) = x
  BY <1>1, <1>2, <1>5, WordsProduct
<1>8. lword((Abs(a) \div g) * (Abs(c) \div h)) = Abs(x)
  <2>1. Abs(i) \in -W..W /\ Abs(l) \in -W..W
    BY <1>1, <1>2, WidthAssumption DEF Abs
  <2>2. lword(Abs(i) * Abs(l)) = Abs(i) * Abs(l) BY <2>1, WordsProduct
  <2>3. Abs(i) * Abs(l) = Abs(i * l) BY <1>1, <1>2, AbsOfProduct
  <2>4. QED BY <1>1, <1>2, <1>5, <2>2, <2>3
<1>9. ulword((b \div h) * (d \div g)) = y
  BY <1>1, <1>2, <1>5, DenominatorFits
<1>10. SignFits(x, a, c)
  <2>1. (a < 0 <=> i < 0) /\ (a > 0 <=> i > 0)
    <3>1. (i < 0 => g * i < 0) /\ (i > 0 => g * i > 0) /\ (i = 0 => g * i = 0)
      BY <1>1
    <3>2. QED BY <1>1, <3>1
  <2>2. (c < 0 <=> l < 0) /\ (c > 0 <=> l > 0)
    <3>1. (l < 0 => h * l < 0) /\ (l > 0 => h * l > 0) /\ (l = 0 => h * l = 0)
      BY <1>2
    <3>2. QED BY <1>2, <3>1
  <2>3. /\ i >= 0 /\ l <= 0 => i * l <= 0
        /\ i <= 0 /\ l >= 0 => i * l <= 0
        /\ i >= 0 /\ l >= 0 => i * l >= 0
        /\ i <= 0 /\ l <= 0 => i * l >= 0
    BY <1>1, <1>2
  <2>4. a \in Int /\ c \in Int BY <1>1, <1>2
  <2>5. QED BY <1>1, <1>2, <1>5, <2>1, <2>2, <2>3, <2>4 DEF SignFits
<1>11. QED BY <1>6, <1>7, <1>8, <1>9, <1>10, Zenon

\* Products overflow or are exact.
LEMMA MultiplicationIsExact ==
  ASSUME NEW p \in WordRat, NEW q \in WordRat
  PROVE  /\ Exact(MultiplicationWord(p, q), Times(p, q))
         /\ Exact(MultiplicationAssignWord(p, q), Times(p, q))
<1>1. PICK a \in Int, b \in Nat \ {0} :
        p = <<a, b>> /\ Coprime(a, b) /\ a \in Word /\ b \in UWord
  BY WordRatIs
<1>2. PICK c \in Int, d \in Nat \ {0} :
        q = <<c, d>> /\ Coprime(c, d) /\ c \in Word /\ d \in UWord
  BY WordRatIs
<1>3. PICK g, h : g = gcd(Abs(a), d) /\ h = gcd(b, Abs(c)) OBVIOUS
<1>4. PICK x \in Int, y \in Nat \ {0} :
        /\ Coprime(x, y) /\ Frac(a * c, b * d) = <<x, y>>
        /\ lword(Quotient(a, g) * Quotient(c, h)) = x
        /\ lword((Abs(a) \div g) * (Abs(c) \div h)) = Abs(x)
        /\ ulword((b \div h) * (d \div g)) = y
        /\ SignFits(x, a, c)
  BY <1>1, <1>2, <1>3, FactorsOf
<1>5. p[1] = a /\ p[2] = b /\ q[1] = c /\ q[2] = d BY <1>1, <1>2
<1>6. Times(p, q) = <<x, y>> BY <1>4, <1>5 DEF Times
<1>7. <<x, y>> \in Rat BY <1>4, IsRat
<1>8. MultiplicationWord(p, q) = Checked(x, y)
  BY <1>3, <1>4, <1>5 DEF MultiplicationWord
<1>9. MultiplicationAssignWord(p, q) = Signed(p, q, Checked(Abs(x), y))
  BY <1>3, <1>4, <1>5 DEF MultiplicationAssignWord
<1>10. Exact(Checked(x, y), <<x, y>>) BY <1>7, CheckedIs DEF Exact
<1>11. Exact(Signed(p, q, Checked(Abs(x), y)), <<x, y>>)
  BY <1>4, <1>5, SignedIs
<1>12. QED BY <1>6, <1>8, <1>9, <1>10, <1>11

\* Two numerators without what they have in common, and with the sign of the
\* quotient on the first.
LEMMA QuotientParts ==
  ASSUME NEW a \in Word, NEW c \in Word, c # 0
  PROVE  \E t \in Int, n \in Int, m \in Nat \ {0} :
           /\ t # 0 /\ a = t * n /\ c = t * m /\ Coprime(n, m)
           /\ Abs(a) \div gcd(Abs(a), Abs(c)) = Abs(n) /\ Abs(c) \div gcd(Abs(a), Abs(c)) = m
           /\ n \in -W..W /\ m \in 1..W
           /\ SignFits(n, a, c)
<1>0. PICK g : g = gcd(Abs(a), Abs(c)) OBVIOUS
<1>1. a \in Int /\ c \in Int /\ c # 0 BY DEF Word
<1>2. PICK h \in Nat \ {0}, i \in Int, l \in Int :
        h = gcd(Abs(a), Abs(c)) /\ a = h * i /\ c = h * l /\ Coprime(i, l)
  BY <1>1, GcdParts, Zenon
<1>3. g = h BY <1>0, <1>2
<1>4. Abs(h * i) \div h = Abs(i) /\ Abs(h * l) \div h = Abs(l)
  BY <1>2, SignedParts
<1>5. Abs(a) \div g = Abs(i) /\ Abs(c) \div g = Abs(l)
  BY <1>2, <1>3, <1>4
<1>6. /\ i > 0 => h * i >= i
      /\ i < 0 => h * i <= i
      /\ l > 0 => h * l >= l
      /\ l < 0 => h * l <= l
      /\ i = 0 => h * i = 0
      /\ l = 0 => h * l = 0
  BY <1>2
<1>7. /\ W \in Nat /\ -W <= a /\ a <= W /\ -W <= c /\ c <= W
  BY <1>1, WidthAssumption DEF Word
<1>8. i \in -W..W /\ l \in -W..W /\ l # 0 BY <1>1, <1>2, <1>6, <1>7
<1>9. (a < 0 <=> i < 0) /\ (a > 0 <=> i > 0) /\ (c < 0 <=> l < 0) /\ (c > 0 <=> l > 0)
  BY <1>1, <1>2, <1>6
<1>10. CASE l > 0
  <2>1. l \in Nat \ {0} /\ l \in 1..W /\ Abs(l) = l
    BY <1>8, <1>10 DEF Abs
  <2>2. h \in Int /\ h # 0 BY <1>2
  <2>3. SignFits(i, a, c) BY <1>1, <1>2, <1>9, <1>10 DEF SignFits
  <2>4. QED BY <1>0, <1>2, <1>5, <1>8, <2>1, <2>2, <2>3
<1>11. CASE l < 0
  <2>1. PICK t \in Int, n \in Int, m \in Nat \ {0} : t = -h /\ n = -i /\ m = -l
    BY <1>2, <1>11
  <2>2. t # 0 /\ n \in -W..W /\ m \in 1..W /\ Abs(l) = m /\ Abs(i) = Abs(n)
    <3>1. t # 0 /\ n \in -W..W /\ m \in 1..W
      <4>1. -i \in -W..W BY <1>7, <1>8
      <4>2. -l \in 1..W BY <1>7, <1>8, <1>11
      <4>3. -h # 0 OBVIOUS
      <4>4. QED BY <2>1, <4>1, <4>2, <4>3
    <3>2. Abs(l) = -l /\ Abs(i) = Abs(-i) BY <1>11 DEF Abs
    <3>3. QED BY <2>1, <3>1, <3>2
  <2>3. (-h) * (-i) = h * i /\ (-h) * (-l) = h * l BY <1>2
  <2>4. a = t * n /\ c = t * m BY <1>2, <2>1, <2>3
  <2>5. Coprime(n, m)
    <3>1. Coprime(n, l) BY <1>2, <2>1, CoprimeNegated
    <3>2. Coprime(l, n) BY <3>1, CoprimeSymmetric
    <3>3. Coprime(m, n) BY <2>1, <3>2, CoprimeNegated
    <3>4. QED BY <3>3, CoprimeSymmetric
  <2>6. SignFits(n, a, c)
    <3>1. c < 0 /\ ~(c > 0) /\ (a >= 0 <=> i >= 0)
      BY <1>1, <1>2, <1>9, <1>11
    <3>2. i >= 0 <=> n <= 0 BY <1>2, <2>1
    <3>3. n \in Int BY <2>1
    <3>4. QED BY <3>1, <3>2, <3>3 DEF SignFits
  <2>7. QED BY <1>0, <1>5, <2>2, <2>4, <2>5, <2>6
<1>12. QED BY <1>8, <1>10, <1>11

\* The words of a quotient.
LEMMA QuotientOf ==
  ASSUME NEW a \in Word, NEW b \in Nat \ {0}, b \in UWord, Coprime(a, b),
         NEW c \in Word, c # 0, NEW d \in Nat \ {0}, d \in UWord, Coprime(c, d)
  PROVE  \A g, h : g = gcd(Abs(a), Abs(c)) /\ h = gcd(b, d) =>
           \E x \in Int, y \in Nat \ {0} :
             /\ Coprime(x, y) /\ Frac(a * d, b * c) = <<x, y>>
             /\ lword((Abs(a) \div g) * (d \div h)) = Abs(x)
             /\ ulword((Abs(c) \div g) * (b \div h)) = y
             /\ SignFits(x, a, c)
<1> TAKE g, h
<1>0. HAVE g = gcd(Abs(a), Abs(c)) /\ h = gcd(b, d)
<1>1. PICK t \in Int, n \in Int, m \in Nat \ {0} :
        /\ t # 0 /\ a = t * n /\ c = t * m /\ Coprime(n, m)
        /\ Abs(a) \div gcd(Abs(a), Abs(c)) = Abs(n) /\ Abs(c) \div gcd(Abs(a), Abs(c)) = m
        /\ n \in -W..W /\ m \in 1..W
        /\ SignFits(n, a, c)
  BY QuotientParts, Zenon
<1>2. PICK f \in Nat \ {0}, k \in Nat \ {0}, j \in Nat \ {0} :
        /\ f = gcd(b, d) /\ b = f * k /\ d = f * j /\ Coprime(k, j)
        /\ b \div f = k /\ d \div f = j
        /\ f \in UWord /\ f <= b /\ k \in UWord /\ j \in UWord
  BY CommonDenominator, Zenon
<1>3. b \div h = k /\ d \div h = j BY <1>0, <1>2
<1>4. /\ t \in Int /\ f \in Int /\ k \in Int /\ j \in Int /\ n \in Int /\ m \in Int
      /\ Coprime(t * n, f * k) /\ Coprime(f * j, t * m) /\ Coprime(n, m) /\ Coprime(j, k)
  <2>1. Coprime(t * n, f * k) /\ Coprime(t * m, f * j) BY <1>1, <1>2
  <2>2. t * m \in Int /\ f * j \in Int /\ k \in Int /\ j \in Int
    BY <1>1, <1>2
  <2>3. Coprime(f * j, t * m) /\ Coprime(j, k)
    BY <1>2, <2>1, <2>2, CoprimeSymmetric
  <2>4. QED BY <1>1, <1>2, <2>1, <2>3
<1>5. Coprime(n * j, k * m) BY <1>4, CoprimeCrosswise, Zenon
<1>6. /\ n * j \in Int /\ m * k \in Nat \ {0} /\ k * m = m * k
      /\ (t * n) * (f * j) \in Int /\ (f * k) * (t * m) \in Int
      /\ (n * j) * ((f * k) * (t * m)) = ((t * n) * (f * j)) * (m * k)
  BY <1>1, <1>2
<1>7. PICK p \in Int, e \in Int, x \in Int, y \in Nat \ {0} :
        p = (t * n) * (f * j) /\ e = (f * k) * (t * m) /\ x = n * j /\ y = m * k
  BY <1>6
<1>8. e # 0
  <2>1. PICK u \in Nat \ {0}, v \in Int : u = f * k /\ v = t * m /\ v # 0
    BY <1>1, <1>2
  <2>2. u * v # 0 BY <2>1
  <2>3. QED BY <1>7, <2>1, <2>2
<1>9. Coprime(x, y) /\ x * e = p * y BY <1>5, <1>6, <1>7
<1>10. Frac(p, e) = <<x, y>> BY <1>8, <1>9, FracIs
<1>11. Frac(a * d, b * c) = <<x, y>> BY <1>1, <1>2, <1>7, <1>10
<1>12. lword((Abs(a) \div g) * (d \div h)) = Abs(x)
  <2>1. Abs(n) \in 0..W /\ Abs(n) \in Int /\ Abs(j) = j /\ j \in Int
    BY <1>1, <1>2, WidthAssumption DEF Abs
  <2>2. Abs(n) * j = Abs(n * j) BY <1>1, <2>1, AbsOfProduct
  <2>3. PICK s \in 0..W : s = Abs(n) BY <2>1
  <2>4. s * j \in LWord
    <3>1. W \in Nat \ {0} /\ j <= 2 * W - 1 /\ j >= 0
      BY <1>2, WidthAssumption DEF UWord
    <3>2. s * j >= 0 /\ s * j <= W * (2 * W - 1) BY <2>1, <3>1
    <3>3. W * (2 * W - 1) = 2 * W * W - W /\ -2 * W * W <= 0 /\ s * j \in Int
      BY <2>1, <3>1
    <3>4. QED BY <3>1, <3>2, <3>3 DEF LWord, LWordMin, LWordMax
  <2>5. lword(s * j) = s * j BY <2>4, LwordIsExact
  <2>6. QED BY <1>0, <1>1, <1>3, <1>7, <2>2, <2>3, <2>5
<1>13. ulword((Abs(c) \div g) * (b \div h)) = y
  <2>1. m \in UWord /\ k \in UWord
    BY <1>1, <1>2, WidthAssumption DEF UWord
  <2>2. QED BY <1>0, <1>1, <1>3, <1>7, <2>1, DenominatorFits
<1>14. SignFits(x, a, c)
  <2>1. (n <= 0 => n * j <= 0) /\ (n >= 0 => n * j >= 0) BY <1>1, <1>2
  <2>2. QED BY <1>1, <1>7, <2>1 DEF SignFits
<1>15. QED BY <1>9, <1>11, <1>12, <1>13, <1>14, Zenon

\* So do quotients, and reciprocals.
LEMMA DivisionIsExact ==
  ASSUME NEW p \in WordRat, NEW q \in WordRat, q # Zero
  PROVE  /\ Exact(DivisionWord(p, q), Over(p, q))
         /\ Exact(DivisionAssignWord(p, q), Over(p, q))
<1>1. PICK a \in Int, b \in Nat \ {0} :
        p = <<a, b>> /\ Coprime(a, b) /\ a \in Word /\ b \in UWord
  BY WordRatIs
<1>2. PICK c \in Int, d \in Nat \ {0} :
        q = <<c, d>> /\ Coprime(c, d) /\ c \in Word /\ d \in UWord
  BY WordRatIs
<1>3. p[1] = a /\ p[2] = b /\ q[1] = c /\ q[2] = d BY <1>1, <1>2
<1>4. c # 0 BY <1>2, <1>3, WordsOf, ZeroIsRat
<1>5. PICK g, h : g = gcd(Abs(a), Abs(c)) /\ h = gcd(b, d) OBVIOUS
<1>6. PICK x \in Int, y \in Nat \ {0} :
        /\ Coprime(x, y) /\ Frac(a * d, b * c) = <<x, y>>
        /\ lword((Abs(a) \div g) * (d \div h)) = Abs(x)
        /\ ulword((Abs(c) \div g) * (b \div h)) = y
        /\ SignFits(x, a, c)
  BY <1>1, <1>2, <1>4, <1>5, QuotientOf
<1>7. Over(p, q) = <<x, y>> BY <1>3, <1>6 DEF Over
<1>8. DivisionAssignWord(p, q) = Signed(p, q, Checked(Abs(x), y))
  BY <1>3, <1>5, <1>6 DEF DivisionAssignWord
<1>9. DivisionWord(p, q) = IF p = q THEN One ELSE Signed(p, q, Checked(Abs(x), y))
  BY <1>3, <1>5, <1>6 DEF DivisionWord
<1>10. Exact(Signed(p, q, Checked(Abs(x), y)), <<x, y>>)
  BY <1>3, <1>6, SignedIs
<1>11. ASSUME p = q
       PROVE  Exact(One, <<x, y>>)
  <2>1. a = c /\ b = d BY <1>1, <1>2, <1>11
  <2>2. PICK n \in Int, e \in Int : n = a * d /\ e = b * c OBVIOUS
  <2>3. e # 0
    <3>1. PICK s \in Int : s = b * c OBVIOUS
    <3>2. c > 0 => s >= b BY <3>1
    <3>3. c < 0 => s <= -b BY <3>1
    <3>4. s # 0 BY <1>4, <3>2, <3>3
    <3>5. QED BY <2>2, <3>1, <3>4
  <2>4. 1 * e = n * 1
    <3>1. c * d = d * c OBVIOUS
    <3>2. e = n BY <2>1, <2>2, <3>1
    <3>3. QED BY <3>2
  <2>5. Coprime(1, 1) BY ZeroIsRat, RatIs DEF One
  <2>6. FitsWord(<<1, 1>>) BY WidthAssumption DEF FitsWord, Word, UWord
  <2>7. QED BY <1>6, <2>2, <2>3, <2>4, <2>5, <2>6, ExactIs DEF One
<1>12. QED BY <1>7, <1>8, <1>9, <1>10, <1>11

LEMMA InverseIsExact ==
  ASSUME NEW p \in WordRat, p # Zero
  PROVE  Exact(InverseWord(p), Over(One, p))
<1>1. PICK a \in Int, b \in Nat \ {0} :
        p = <<a, b>> /\ Coprime(a, b) /\ a \in Word /\ b \in UWord
  BY WordRatIs
<1>2. p[1] = a /\ p[2] = b BY <1>1
<1>3. a # 0 BY <1>2, WordsOf, ZeroIsRat
<1>4. Over(One, p) = Frac(b, a) BY <1>2 DEF Over, One
<1>5. Coprime(b, a) BY <1>1, CoprimeSymmetric
<1>6. CASE a > 0
  <2>1. a \in Nat \ {0} /\ b \in Int BY <1>6
  <2>2. Exact(Checked(b, a), Frac(b, a))
    <3>1. <<b, a>> \in Rat /\ Frac(b, a) = <<b, a>>
      <4>1. PICK n \in Int, l \in Nat \ {0} : n = b /\ l = a BY <2>1
      <4>2. Coprime(n, l) /\ n * l = n * l /\ l \in Int /\ l # 0
        BY <1>5, <4>1
      <4>3. Frac(n, l) = <<n, l>> BY <4>2, FracIs
      <4>4. QED BY <4>1, <4>2, <4>3, IsRat
    <3>2. QED BY <2>1, <3>1, CheckedIs DEF Exact
  <2>3. QED BY <1>2, <1>4, <1>6, <2>2 DEF InverseWord
<1>7. CASE a < 0
  <2>1. PICK m \in Int, l \in Nat \ {0} : m = -b /\ l = -a BY <1>7
  <2>2. Coprime(m, l)
    <3>1. Coprime(m, a) BY <1>5, <2>1, CoprimeNegated
    <3>2. Coprime(a, m) BY <3>1, CoprimeSymmetric
    <3>3. Coprime(l, m) BY <2>1, <3>2, CoprimeNegated
    <3>4. QED BY <3>3, CoprimeSymmetric
  <2>3. m * a = b * l
    <3>1. (-b) * a = b * (-a) OBVIOUS
    <3>2. QED BY <2>1, <3>1
  <2>4. Exact(Checked(m, l), Frac(b, a))
    <3>1. PICK n \in Int, e \in Int : n = b /\ e = a OBVIOUS
    <3>2. e # 0 /\ m * e = n * l BY <1>3, <2>3, <3>1
    <3>3. Exact(Checked(m, l), Frac(n, e)) BY <2>2, <3>2, ExactIs
    <3>4. QED BY <3>1, <3>3
  <2>5. QED BY <1>2, <1>4, <1>7, <2>1, <2>4 DEF InverseWord
<1>8. QED BY <1>3, <1>6, <1>7

-----------------------------------------------------------------------------
(* Numbers: words, GMP rationals, or both.                                 *)

\* r is a representation of the rational number v.
Means(r, v) ==
  /\ v \in Rat
  /\ Value(r) = v
  /\ r.word # Invalid => FitsWord(r.word)

\* No number is the mark of an invalid part.
LEMMA RatIsValid ==
  /\ \A v \in Rat : v # Invalid
  /\ Zero \in WordRat /\ One \in WordRat
<1>1. \A a, b : <<a, b>> # <<>> OBVIOUS
<1>2. \A v \in Rat : v # Invalid BY <1>1, RatIs DEF Invalid
<1>3. FitsWord(<<0, 1>>) /\ FitsWord(<<1, 1>>)
  BY WidthAssumption DEF FitsWord, Word, UWord
<1>4. QED BY <1>2, <1>3, ZeroIsRat DEF WordRat, Zero, One

LEMMA MeansIs ==
  ASSUME NEW r, NEW v, Means(r, v)
  PROVE  /\ v \in Rat /\ Value(r) = v
         /\ r.word = Invalid => r.long = v /\ r.word # Zero /\ r.word # One
         /\ r.word # Invalid => r.word = v /\ v \in WordRat
BY RatIsValid DEF Means, Value, WordRat

\* The ways a representation is made.
LEMMA MakersMean ==
  /\ \A v \in Rat : Means(FromLong(v), v)
  /\ \A v \in WordRat : Means(FromWord(v), v)
  /\ \A r, v : v \in WordRat => Means(SetWord(r, v), v)
  /\ \A r, v : Means(r, v) => Means(EnsureMpq(r), v)
  /\ \A r, s, v : Means(s, v) => Means(CopyTo(r, s), v)
<1>1. \A v \in Rat : Means(FromLong(v), v)
  BY RatIsValid DEF Means, FromLong, Value
<1>2. \A v \in WordRat : v \in Rat /\ FitsWord(v) BY DEF WordRat
<1>3. \A v \in WordRat : Means(FromWord(v), v)
  BY <1>2, RatIsValid DEF Means, FromWord, Value
<1>4. \A r, v : v \in WordRat => Means(SetWord(r, v), v)
  BY <1>2, RatIsValid DEF Means, SetWord, Value
<1>5. \A r, v : Means(r, v) => Means(EnsureMpq(r), v)
  BY DEF Means, EnsureMpq, Value
<1>6. \A r, s, v : Means(s, v) => Means(CopyTo(r, s), v)
  BY DEF Means, CopyTo, SetWord, Value
<1>7. QED BY <1>1, <1>3, <1>4, <1>5, <1>6

\* A result that is exact if the words do not overflow, and GMP's if they do.
LEMMA ByWordsMeans ==
  ASSUME NEW r, NEW v \in Rat
  PROVE  /\ \A w : Exact(w, v) => Means(ByWords(r, w, v).result, v)
         /\ Means(ByLong(v).result, v)
<1>1. Means(ByLong(v).result, v) BY MakersMean DEF ByLong
<1>2. \A w : w = v /\ v \in WordRat => Means(Stored(SetWord(r, w)).result, v)
  BY MakersMean DEF Stored
<1>3. QED BY <1>1, <1>2 DEF ByWords, Exact

\* The results that are not computed.
LEMMA Neutral ==
  ASSUME NEW v \in Rat
  PROVE  /\ Plus(v, Zero) = v
         /\ Times(Zero, v) = Zero /\ Times(v, Zero) = Zero
         /\ Times(One, v) = v /\ Times(v, One) = v
         /\ Over(v, One) = v
         /\ v # Zero => Over(Zero, v) = Zero
<1>1. PICK a \in Int, b \in Nat \ {0} : v = <<a, b>> /\ Coprime(a, b)
  BY RatIs
<1>2. b \in Int /\ b # 0 OBVIOUS
<1>3. Frac(a, b) = <<a, b>> BY <1>1, <1>2, FracIs
<1>4. Coprime(0, 1) BY ZeroIsRat, RatIs DEF Zero
<1>5. \A d \in Int : d # 0 => Frac(0, d) = <<0, 1>>
  <2> TAKE d \in Int
  <2>1. HAVE d # 0
  <2>2. 0 * d = 0 * 1 OBVIOUS
  <2>3. QED BY <1>4, <2>1, <2>2, FracIs
<1>6. a * 1 + 0 * b = a /\ b * 1 = b /\ 0 * a = 0 /\ 1 * b = b /\ a * 0 = 0 /\ 1 * a = a /\ a * 1 = a /\ 0 * b = 0
  OBVIOUS
<1>7. v # Zero => a # 0 BY <1>1, ZeroIsRat
<1>8. v[1] = a /\ v[2] = b BY <1>1
<1>9. Plus(v, Zero) = v BY <1>1, <1>3, <1>6, <1>8 DEF Plus, Zero
<1>10. Times(Zero, v) = Zero /\ Times(v, Zero) = Zero
  BY <1>2, <1>5, <1>6, <1>8 DEF Times, Zero
<1>11. Times(One, v) = v /\ Times(v, One) = v /\ Over(v, One) = v
  BY <1>1, <1>3, <1>6, <1>8 DEF Times, Over, One
<1>12. v # Zero => Over(Zero, v) = Zero
  BY <1>5, <1>6, <1>7, <1>8 DEF Over, Zero
<1>13. QED BY <1>9, <1>10, <1>11, <1>12

\* Every operation with two operands returns the exact result.
LEMMA OperatorsMean ==
  ASSUME NEW d, NEW r, NEW u, NEW s, NEW v, Means(r, u), Means(s, v)
  PROVE  /\ Means(addition(d, r, s).result, Plus(u, v))
         /\ Means(substraction(d, r, s).result, Minus(u, v))
         /\ Means(multiplication(d, r, s).result, Times(u, v))
         /\ v # Zero => Means(division(d, r, s).result, Over(u, v))
<1>1. u \in Rat /\ v \in Rat /\ Value(r) = u /\ Value(s) = v BY MeansIs
<1>2. BothWords(r, s) => r.word = u /\ s.word = v /\ u \in WordRat /\ v \in WordRat
  BY MeansIs DEF BothWords
<1>3. Plus(u, v) \in Rat /\ Minus(u, v) \in Rat /\ Times(u, v) \in Rat
  BY <1>1, PlusIsRat, MinusIs, TimesIsRat
<1>4. \A w \in {r.word, s.word} : w \in {Zero, One} => w # Invalid
  BY RatIsValid, ZeroIsRat
<1>5. Means(addition(d, r, s).result, Plus(u, v))
  <2>1. Exact(AdditionWord(u, v), Plus(u, v)) \/ ~BothWords(r, s)
    BY <1>2, AdditionIsExact
  <2>2. /\ Means(ByLong(Plus(u, v)).result, Plus(u, v))
        /\ BothWords(r, s) => Means(ByWords(d, AdditionWord(u, v), Plus(u, v)).result, Plus(u, v))
    BY <1>3, <2>1, ByWordsMeans
  <2>3. QED BY <1>1, <1>2, <2>2 DEF addition
<1>6. Means(substraction(d, r, s).result, Minus(u, v))
  <2>1. Exact(SubstractionWord(u, v), Minus(u, v)) \/ ~BothWords(r, s)
    BY <1>2, SubstractionIsExact
  <2>2. QED BY <1>1, <1>2, <1>3, <2>1, ByWordsMeans DEF substraction
<1>7. Means(multiplication(d, r, s).result, Times(u, v))
  <2>1. CASE Zero \in {r.word, s.word}
    <3>1. u = Zero \/ v = Zero BY <1>4, <2>1, MeansIs
    <3>2. Times(u, v) = Zero BY <1>1, <3>1, Neutral
    <3>3. Means(Stored(SetWord(d, Zero)).result, Zero)
      BY RatIsValid, MakersMean DEF Stored
    <3>4. QED BY <2>1, <3>2, <3>3 DEF multiplication
  <2>2. CASE Zero \notin {r.word, s.word} /\ r.word = One
    <3>1. u = One BY <1>4, <2>2, MeansIs
    <3>2. Times(u, v) = v BY <1>1, <3>1, Neutral
    <3>3. Means(Stored(CopyTo(d, s)).result, v) BY MakersMean DEF Stored
    <3>4. QED BY <2>2, <3>2, <3>3 DEF multiplication
  <2>3. CASE Zero \notin {r.word, s.word} /\ r.word # One /\ s.word = One
    <3>1. v = One BY <1>4, <2>3, MeansIs
    <3>2. Times(u, v) = u BY <1>1, <3>1, Neutral
    <3>3. Means(Stored(CopyTo(d, r)).result, u) BY MakersMean DEF Stored
    <3>4. QED BY <2>3, <3>2, <3>3 DEF multiplication
  <2>4. CASE Zero \notin {r.word, s.word} /\ r.word # One /\ s.word # One
    <3>1. Exact(MultiplicationWord(u, v), Times(u, v)) \/ ~BothWords(r, s)
      BY <1>2, MultiplicationIsExact
    <3>2. QED BY <1>1, <1>2, <1>3, <2>4, <3>1, ByWordsMeans DEF multiplication
  <2>5. QED BY <2>1, <2>2, <2>3, <2>4
<1>8. ASSUME v # Zero
      PROVE  Means(division(d, r, s).result, Over(u, v))
  <2>1. CASE s.word = One
    <3>1. v = One BY <1>4, <2>1, MeansIs
    <3>2. Over(u, v) = u BY <1>1, <3>1, Neutral
    <3>3. Means(Stored(CopyTo(d, r)).result, u) BY MakersMean DEF Stored
    <3>4. QED BY <2>1, <3>2, <3>3 DEF division
  <2>2. CASE s.word # One /\ r.word = Zero
    <3>1. u = Zero BY <1>4, <2>2, MeansIs
    <3>2. Over(u, v) = Zero BY <1>1, <1>8, <3>1, Neutral
    <3>3. Means(Stored(FromWord(Zero)).result, Zero)
      BY RatIsValid, MakersMean DEF Stored
    <3>4. QED BY <2>2, <3>2, <3>3 DEF division
  <2>3. CASE s.word # One /\ r.word # Zero
    <3>1. Over(u, v) \in Rat BY <1>1, <1>8, OverIsRat
    <3>2. Exact(DivisionWord(u, v), Over(u, v)) \/ ~BothWords(r, s)
      BY <1>2, <1>8, DivisionIsExact
    <3>3. QED BY <1>1, <1>2, <2>3, <3>1, <3>2, ByWordsMeans DEF division
  <2>4. QED BY <2>1, <2>2, <2>3
<1>9. QED BY <1>5, <1>6, <1>7, <1>8

\* So does every assignment operator.
LEMMA AssignmentsMean ==
  ASSUME NEW r, NEW u, NEW s, NEW v, Means(r, u), Means(s, v)
  PROVE  /\ Means(additionAssign(r, s).result, Plus(u, v))
         /\ Means(substractionAssign(r, s).result, Minus(u, v))
         /\ Means(multiplicationAssign(r, s).result, Times(u, v))
         /\ v # Zero => Means(divisionAssign(r, s).result, Over(u, v))
<1>1. u \in Rat /\ v \in Rat /\ Value(r) = u /\ Value(s) = v BY MeansIs
<1>2. BothWords(r, s) => r.word = u /\ s.word = v /\ u \in WordRat /\ v \in WordRat
  BY MeansIs DEF BothWords
<1>3. Plus(u, v) \in Rat /\ Minus(u, v) \in Rat /\ Times(u, v) \in Rat
  BY <1>1, PlusIsRat, MinusIs, TimesIsRat
<1>4. Means(additionAssign(r, s).result, Plus(u, v))
  <2>1. CASE s.word = Zero
    <3>1. v = Zero BY <2>1, MeansIs, RatIsValid
    <3>2. Plus(u, v) = u BY <1>1, <3>1, Neutral
    <3>3. QED BY <2>1, <3>2 DEF additionAssign, Stored
  <2>2. CASE s.word # Zero
    <3>1. Exact(AdditionAssignWord(u, v), Plus(u, v)) \/ ~BothWords(r, s)
      BY <1>2, AdditionAssignIsExact
    <3>2. QED BY <1>1, <1>2, <1>3, <2>2, <3>1, ByWordsMeans DEF additionAssign
  <2>3. QED BY <2>1, <2>2
<1>5. Means(substractionAssign(r, s).result, Minus(u, v))
  <2>1. Exact(SubstractionAssignWord(u, v), Minus(u, v)) \/ ~BothWords(r, s)
    BY <1>2, SubstractionIsExact
  <2>2. QED BY <1>1, <1>2, <1>3, <2>1, ByWordsMeans DEF substractionAssign
<1>6. Means(multiplicationAssign(r, s).result, Times(u, v))
  <2>1. Exact(MultiplicationAssignWord(u, v), Times(u, v)) \/ ~BothWords(r, s)
    BY <1>2, MultiplicationIsExact
  <2>2. QED BY <1>1, <1>2, <1>3, <2>1, ByWordsMeans DEF multiplicationAssign
<1>7. ASSUME v # Zero
      PROVE  Means(divisionAssign(r, s).result, Over(u, v))
  <2>1. Over(u, v) \in Rat BY <1>1, <1>7, OverIsRat
  <2>2. Exact(DivisionAssignWord(u, v), Over(u, v)) \/ ~BothWords(r, s)
    BY <1>2, <1>7, DivisionIsExact
  <2>3. QED BY <1>1, <1>2, <2>1, <2>2, ByWordsMeans DEF divisionAssign
<1>8. QED BY <1>4, <1>5, <1>6, <1>7

\* The integers, and the part of a fraction above or below it.
LEMMA IntegerMeans ==
  ASSUME NEW n \in Int
  PROVE  Means(FromString(n), <<n, 1>>) /\ Means(FromInteger(n), <<n, 1>>)
<1>1. <<n, 1>> \in Rat BY IntegerIsRat
<1>2. 1 \in UWord BY WidthAssumption DEF UWord
<1>3. <<n, 1>> # Invalid BY <1>1, RatIsValid
<1>4. FitsWord(<<n, 1>>) <=> n \in Word BY <1>2 DEF FitsWord
<1>5. Value(FromWord(<<n, 1>>)) = <<n, 1>> /\ FromWord(<<n, 1>>).word = <<n, 1>>
  BY <1>3 DEF Value, FromWord
<1>6. QED BY <1>1, <1>3, <1>4, <1>5 DEF Means, FromString, FromInteger, Value

LEMMA IntegralityIsExact ==
  ASSUME NEW r, NEW v, Means(r, v)
  PROVE  isInteger(r) <=> v[2] = 1
BY MeansIs, WidthAssumption DEF isInteger, UWord

\* So do the two ways to change the sign; the gcd of the parts is one.
LEMMA OppositesMean ==
  ASSUME NEW r, NEW v, Means(r, v)
  PROVE  /\ Means(Negation(r).result, Times(MinusOne, v))
         /\ Means(negate(r).result, Times(MinusOne, v))
<1>1. v \in Rat /\ Value(r) = v BY MeansIs
<1>2. PICK a \in Int, b \in Nat \ {0} : v = <<a, b>> /\ Coprime(a, b)
  BY <1>1, RatIs
<1>3. Times(MinusOne, v) = <<-a, b>> /\ <<-a, b>> \in Rat
  BY <1>1, <1>2, OppositeIs
<1>4. Means(FromLong(<<-a, b>>), <<-a, b>>) BY <1>3, MakersMean
<1>5. ASSUME r.word # Invalid, r.word[1] > -W
      PROVE  <<-a, b>> \in WordRat /\ r.word = <<a, b>>
  <2>1. r.word = v /\ v \in WordRat BY <1>5, MeansIs
  <2>2. a \in Word /\ b \in UWord /\ a > -W
    BY <1>2, <1>5, <2>1 DEF WordRat, FitsWord
  <2>3. -a \in Word BY <2>2, WidthAssumption DEF Word
  <2>4. QED BY <1>2, <1>3, <2>1, <2>2, <2>3 DEF WordRat, FitsWord
<1>6. ASSUME r.word # Invalid, r.word[1] > -W
      PROVE  Constructed(-a, b) = FromWord(<<-a, b>>)
  <2>1. -a \in Int /\ b \in Int /\ b # 0 /\ Abs(b) = b BY DEF Abs
  <2>2. Coprime(-a, b) BY <1>2, CoprimeNegated
  <2>3. gcd(Abs(-a), Abs(b)) = 1 BY <2>1, <2>2, GcdOfCoprime
  <2>4. gcd(Abs(-a), b) = 1 BY <2>1, <2>3
  <2>5. -a = 0 => <<-a, b>> = Zero BY <1>3, ZeroIsRat
  <2>6. QED BY <2>4, <2>5 DEF Constructed, OfWords
<1>7. Means(Negation(r).result, <<-a, b>>)
  <2>1. CASE r.word # Invalid /\ r.word[1] > -W
    <3>1. Means(Stored(Constructed(-a, b)).result, <<-a, b>>)
      BY <1>5, <1>6, <2>1, MakersMean DEF Stored
    <3>2. r.word[1] = a /\ r.word[2] = b BY <1>5, <2>1
    <3>3. QED BY <2>1, <3>1, <3>2 DEF Negation
  <2>2. CASE ~(r.word # Invalid /\ r.word[1] > -W)
    BY <1>1, <1>3, <1>4, <2>2 DEF Negation, ByLong
  <2>3. QED BY <2>1, <2>2
<1>8. Means(negate(r).result, <<-a, b>>)
  <2>1. CASE r.word # Invalid /\ r.word[1] > -W
    <3>1. Means(Stored(SetWord(r, <<-a, b>>)).result, <<-a, b>>)
      BY <1>5, <2>1, MakersMean DEF Stored
    <3>2. r.word[1] = a /\ r.word[2] = b BY <1>5, <2>1
    <3>3. QED BY <2>1, <3>1, <3>2 DEF negate
  <2>2. CASE ~(r.word # Invalid /\ r.word[1] > -W)
    BY <1>1, <1>3, <1>4, <2>2 DEF negate, Stored
  <2>3. QED BY <2>1, <2>2
<1>9. QED BY <1>3, <1>7, <1>8

LEMMA InverseMeans ==
  ASSUME NEW r, NEW v, Means(r, v), v # Zero
  PROVE  Means(inverse(r).result, Over(One, v))
<1>1. v \in Rat /\ Value(r) = v /\ One \in Rat BY MeansIs, ZeroIsRat
<1>2. Over(One, v) \in Rat BY <1>1, OverIsRat
<1>3. r.word # Invalid => r.word = v /\ Exact(InverseWord(v), Over(One, v))
  BY MeansIs, InverseIsExact
<1>4. QED BY <1>1, <1>2, <1>3, ByWordsMeans DEF inverse

\* Rounding.
LEMMA QuotientOfInt ==
  ASSUME NEW n \in Int, NEW b \in Nat \ {0}
  PROVE  \E q \in Int, r \in 0..(b - 1) : q = n \div b /\ n = b * q + r
<1>1. PICK q \in Int, r \in 0..(b - 1) : q = n \div b /\ r = n % b
  OBVIOUS
<1>2. n = b * (n \div b) + (n % b) OBVIOUS
<1>3. QED BY <1>1, <1>2

\* A fraction that is not an integer lies between two.
LEMMA CeilingIs ==
  ASSUME NEW a \in Int, NEW b \in Nat \ {0}, Coprime(a, b)
  PROVE  /\ -((-a) \div b) \in Int /\ a \div b \in Int
         /\ a \in Word => -((-a) \div b) \in Word
         /\ b = 1 => -((-a) \div b) = a /\ a \div b = a
         /\ b # 1 => -((-a) \div b) = (a \div b) + 1
<1>1. PICK q \in Int, r \in 0..(b - 1) : q = a \div b /\ a = b * q + r
  BY QuotientOfInt
<1>2. -a \in Int OBVIOUS
<1>3. PICK p \in Int, s \in 0..(b - 1) : p = (-a) \div b /\ -a = b * p + s
  BY <1>2, QuotientOfInt
<1>4. PICK t \in Int : t = p + q OBVIOUS
<1>5. b * t = -(r + s)
  <2>1. b * (p + q) = b * p + b * q OBVIOUS
  <2>2. QED BY <1>1, <1>3, <1>4, <2>1
<1>6. t \in {0, -1}
  <2>1. t >= 1 => b * t >= b OBVIOUS
  <2>2. t <= -2 => b * t <= -(2 * b) OBVIOUS
  <2>3. QED BY <1>5, <2>1, <2>2
<1>7. t = 0 => b = 1
  <2>1. ASSUME t = 0
        PROVE  b = 1
    <3>1. b * 0 = 0 OBVIOUS
    <3>2. r = 0 BY <1>5, <2>1, <3>1
    <3>3. PICK x \in Int, y \in Int : a * x + b * y = 1 BY DEF Coprime
    <3>4. a = b * q BY <1>1, <3>2
    <3>5. PICK z \in Int : z = q * x + y OBVIOUS
    <3>6. (b * q) * x + b * y = b * (q * x + y) OBVIOUS
    <3>7. 1 = b * z BY <3>3, <3>4, <3>5, <3>6
    <3>8. Divides(b, 1) BY <3>7 DEF Divides
    <3>9. b <= 1 BY <3>8, DivisorIsSmaller
    <3>10. QED BY <3>9
  <2>2. QED BY <2>1
<1>8. t = -1 => b # 1
  <2>1. b * (-1) = -b OBVIOUS
  <2>2. QED BY <1>5, <2>1
<1>9. b = 1 => q = a
  <2>1. 1 * q = q OBVIOUS
  <2>2. QED BY <1>1, <2>1
<1>10. (b = 1 => -p = a) /\ (b # 1 => -p = q + 1)
  BY <1>4, <1>6, <1>7, <1>8, <1>9
<1>11. ASSUME a \in Word, b # 1
       PROVE  q + 1 \in Word
  <2>1. W \in Nat /\ W >= 2 /\ -W <= a /\ a <= W - 1 /\ b >= 2
    BY <1>11, WidthAssumption DEF Word
  <2>2. q >= 1 => b * q >= q + 1
    <3>1. q >= 1 => b * q >= 2 * q BY <2>1
    <3>2. QED BY <3>1
  <2>3. q <= -1 => b * q <= q + q BY <2>1
  <2>4. q + 1 <= W - 1 BY <1>1, <2>1, <2>2
  <2>5. q + 1 >= -W
    <3>1. CASE q <= -2
      <4>1. q + 1 <= -1 BY <3>1
      <4>2. b * (q + 1) <= q + 1 BY <2>1, <4>1
      <4>3. b * (q + 1) = b * q + b OBVIOUS
      <4>4. QED BY <1>1, <2>1, <4>2, <4>3
    <3>2. CASE q >= -1 BY <2>1, <3>2
    <3>3. QED BY <3>1, <3>2
  <2>6. QED BY <2>1, <2>4, <2>5 DEF Word
<1>12. QED BY <1>1, <1>3, <1>9, <1>10, <1>11

LEMMA RoundingMeans ==
  ASSUME NEW r, NEW v, Means(r, v)
  PROVE  /\ Means(ceil(r), <<-((-v[1]) \div v[2]), 1>>)
         /\ Means(floor(r), <<v[1] \div v[2], 1>>)
<1>1. v \in Rat /\ Value(r) = v BY MeansIs
<1>2. PICK a \in Int, b \in Nat \ {0} : v = <<a, b>> /\ Coprime(a, b)
  BY <1>1, RatIs
<1>3. PICK c \in Int, f \in Int :
        /\ c = -((-a) \div b) /\ f = a \div b
        /\ a \in Word => c \in Word
        /\ b = 1 => c = a /\ f = a
        /\ b # 1 => c = f + 1
  BY <1>2, CeilingIs
<1>4. v[1] = a /\ v[2] = b BY <1>2
<1>5. isInteger(r) <=> b = 1 BY <1>4, IntegralityIsExact
<1>6. Means(CopyOf(r), v) BY MakersMean DEF CopyOf
<1>7. Means(ceil(r), <<c, 1>>)
  <2>1. CASE b = 1 BY <1>2, <1>3, <1>5, <1>6, <2>1 DEF ceil
  <2>2. CASE b # 1 /\ r.word # Invalid
    <3>1. r.word = <<a, b>> /\ a \in Word
      BY <1>2, <2>2, MeansIs DEF WordRat, FitsWord
    <3>2. <<c, 1>> \in Rat /\ FitsWord(<<c, 1>>)
      BY <1>3, <3>1, IntegerIsRat, WidthAssumption DEF FitsWord, UWord
    <3>3. Means(FromWord(<<c, 1>>), <<c, 1>>)
      BY <3>2, MakersMean DEF WordRat
    <3>4. QED BY <1>3, <1>5, <2>2, <3>1, <3>3 DEF ceil
  <2>3. CASE b # 1 /\ r.word = Invalid
    <3>1. r.long = <<a, b>> BY <1>2, <2>3, MeansIs
    <3>2. Means(FromInteger(c), <<c, 1>>) BY IntegerMeans
    <3>3. QED BY <1>3, <1>5, <2>3, <3>1, <3>2 DEF ceil
  <2>4. QED BY <2>1, <2>2, <2>3
<1>8. Means(floor(r), <<f, 1>>)
  <2>1. CASE b = 1 BY <1>2, <1>3, <1>5, <1>6, <2>1 DEF floor
  <2>2. CASE b # 1
    <3>1. Means(FromWord(One), One) BY RatIsValid, MakersMean
    <3>2. Means(substraction(FromWord(Zero), ceil(r), FromWord(One)).result, Minus(<<c, 1>>, One))
      BY <1>7, <3>1, OperatorsMean
    <3>3. Minus(<<c, 1>>, One) = <<f, 1>>
      <4>1. <<c, 1>> \in Rat /\ One \in Rat /\ <<c, 1>>[1] = c /\ <<c, 1>>[2] = 1
        BY IntegerIsRat, ZeroIsRat
      <4>2. Minus(<<c, 1>>, One) = Frac(c * 1 - 1 * 1, 1 * 1)
        BY <4>1, MinusIs DEF One
      <4>3. c * 1 - 1 * 1 = f /\ 1 * 1 = 1 BY <1>3, <2>2
      <4>4. Coprime(f, 1) /\ f * 1 = f * 1 BY IntegerIsRat
      <4>5. Frac(f, 1) = <<f, 1>> BY <4>4, FracIs
      <4>6. QED BY <4>2, <4>3, <4>5
    <3>4. QED BY <1>5, <2>2, <3>2, <3>3 DEF floor
  <2>3. QED BY <2>1, <2>2
<1>9. QED BY <1>3, <1>4, <1>7, <1>8

\* The sign of a difference is that of its numerator before it is reduced.
LEMMA SignOfDifference ==
  ASSUME NEW u \in Rat, NEW v \in Rat
  PROVE  SignOf(Minus(u, v)[1]) = SignOf(u[1] * v[2] - v[1] * u[2])
<1>1. PICK a \in Int, b \in Nat \ {0} : u = <<a, b>> BY RatIs
<1>2. PICK c \in Int, d \in Nat \ {0} : v = <<c, d>> BY RatIs
<1>3. PICK n \in Int, e \in Nat \ {0} : n = a * d - c * b /\ e = b * d
  OBVIOUS
<1>4. e > 0 /\ e \in Int /\ e # 0 OBVIOUS
<1>5. Minus(u, v) = Frac(n, e) BY <1>1, <1>2, <1>3, MinusIs
<1>6. PICK h \in Int, i \in Int, j \in Nat \ {0} :
        h # 0 /\ n = h * i /\ e = h * j /\ Coprime(i, j) /\ Frac(n, e) = <<i, j>>
  BY <1>4, FracParts
<1>7. h > 0
  <2>1. h < 0 => h * j < 0 BY <1>6
  <2>2. QED BY <1>4, <1>6, <2>1
<1>8. (i > 0 => h * i > 0) /\ (i < 0 => h * i < 0) /\ (i = 0 => h * i = 0)
  BY <1>6, <1>7
<1>9. SignOf(n) = SignOf(i) BY <1>6, <1>8 DEF SignOf
<1>10. QED BY <1>1, <1>2, <1>3, <1>5, <1>6, <1>9

LEMMA EnsuredLong ==
  ASSUME NEW r, NEW v, Means(r, v), LegalParts(r)
  PROVE  EnsureMpq(r).long = v
<1>1. v # Invalid BY MeansIs, RatIsValid
<1>2. QED BY <1>1, MeansIs DEF LegalParts, EnsureMpq

LEMMA ComparisonIsExact ==
  ASSUME NEW r, NEW u, NEW s, NEW v, Means(r, u), Means(s, v), LegalParts(r), LegalParts(s)
  PROVE  /\ compare(r, s) = SignOf(Minus(u, v)[1])
         /\ Equal(r, s) <=> u = v
         /\ sign(r) = SignOf(u[1])
<1>1. u \in Rat /\ v \in Rat BY MeansIs
<1>2. EnsureMpq(r).long = u /\ EnsureMpq(s).long = v BY EnsuredLong
<1>3. BothWords(r, s) => r.word = u /\ s.word = v /\ u \in WordRat /\ v \in WordRat
  BY MeansIs DEF BothWords
<1>4. ASSUME BothWords(r, s)
      PROVE  compare(r, s) = SignOf(Minus(u, v)[1])
  <2>1. PICK a \in Int, b \in Nat \ {0} : u = <<a, b>> /\ a \in Word /\ b \in UWord
    BY <1>3, <1>4, WordRatIs
  <2>2. PICK c \in Int, d \in Nat \ {0} : v = <<c, d>> /\ c \in Word /\ d \in UWord
    BY <1>3, <1>4, WordRatIs
  <2>3. SignOf(Minus(u, v)[1]) = SignOf(a * d - c * b)
    BY <1>1, <2>1, <2>2, SignOfDifference
  <2>4. CASE b = d
    <3>1. a * b - c * b = (a - c) * b OBVIOUS
    <3>2. PICK n \in Int : n = a - c OBVIOUS
    <3>3. (n > 0 => n * b > 0) /\ (n < 0 => n * b < 0) /\ (n = 0 => n * b = 0)
      OBVIOUS
    <3>4. SignOf(n * b) = SignOf(n) BY <3>3 DEF SignOf
    <3>5. compare(r, s) = SignOf(n)
      BY <1>3, <1>4, <2>1, <2>2, <2>4, <3>2 DEF compare
    <3>6. a * d - c * b = n * b BY <2>4, <3>1, <3>2
    <3>7. QED BY <2>3, <3>4, <3>5, <3>6
  <2>5. CASE b # d
    <3>1. lword(a * d) = a * d /\ lword(c * b) = c * b
      BY <2>1, <2>2, LwordsOfProducts
    <3>2. r.word[1] = a /\ r.word[2] = b /\ s.word[1] = c /\ s.word[2] = d
      BY <1>3, <1>4, <2>1, <2>2
    <3>3. QED BY <1>4, <2>3, <2>5, <3>1, <3>2 DEF compare
  <2>6. QED BY <2>4, <2>5
<1>5. ASSUME ~BothWords(r, s)
      PROVE  compare(r, s) = SignOf(Minus(u, v)[1])
  BY <1>2, <1>5 DEF compare
<1>6. Equal(r, s) <=> u = v BY <1>2, <1>3 DEF Equal
<1>7. sign(r) = SignOf(u[1]) BY MeansIs DEF sign
<1>8. QED BY <1>4, <1>5, <1>6, <1>7

\* inv() of a number of either sign: what the casts make of its parts.
LEMMA CastReciprocal ==
  ASSUME NEW m \in Int, NEW l \in Nat \ {0}, Coprime(m, l), l \in UWord,
         m # 0, -2 * W < m, m < 2 * W
  PROVE  Value(Constructed(word(m), uword(l))) = <<m, l>> <=> m \in Word
<1>1. W \in Nat /\ W >= 2 BY WidthAssumption
<1>2. uword(l) = l BY CastsAreExact
<1>3. \A w : w # Invalid => Value(FromWord(w)) = w
  BY DEF Value, FromWord
<1>4. ASSUME m \in Word
      PROVE  Value(Constructed(word(m), uword(l))) = <<m, l>>
  <2>1. word(m) = m BY <1>4, CastsAreExact
  <2>2. l \in Int /\ l # 0 /\ Abs(l) = l BY DEF Abs
  <2>3. gcd(Abs(m), Abs(l)) = 1 BY <2>2, GcdOfCoprime
  <2>4. gcd(Abs(m), l) = 1 BY <2>2, <2>3
  <2>5. Constructed(m, l) = FromWord(<<m, l>>) BY <2>4 DEF Constructed, OfWords
  <2>6. <<m, l>> # Invalid BY DEF Invalid
  <2>7. QED BY <1>2, <1>3, <2>1, <2>5, <2>6
<1>5. ASSUME m \notin Word
      PROVE  Value(Constructed(word(m), uword(l))) # <<m, l>>
  <2>1. PICK n : n = word(m) OBVIOUS
  <2>2. n \in Int /\ n # 0 /\ n # m
    <3>1. CASE m >= W
      <4>1. m + W = 2 * W + (m - W) /\ m - W \in 0..(2 * W - 1)
        BY <1>1, <3>1
      <4>2. (m + W) % (2 * W) = m - W BY <1>1, <4>1
      <4>3. QED BY <1>1, <2>1, <3>1, <4>2 DEF word
    <3>2. CASE m < -W
      <4>1. m + W = -(2 * W) + (m + 3 * W) /\ m + 3 * W \in 0..(2 * W - 1)
        BY <1>1, <3>2
      <4>2. (m + W) % (2 * W) = m + 3 * W BY <1>1, <4>1
      <4>3. QED BY <1>1, <2>1, <3>2, <4>2 DEF word
    <3>3. QED BY <1>1, <1>5, <3>1, <3>2 DEF Word
  <2>3. PICK c : c = gcd(Abs(n), l) OBVIOUS
  <2>4. c \in Nat \ {0} BY <2>2, <2>3, GcdOfNat
  <2>5. CASE c > 1
    <3>1. Constructed(n, l) = FromWord(<<word(uword(n) \div c), l \div c>>)
      BY <2>2, <2>3, <2>5 DEF Constructed, OfWords
    <3>2. l \div c # l
      <4>1. PICK q \in Int, r \in 0..(c - 1) : q = l \div c /\ l = c * q + r
        BY <2>4, QuotientOfInt
      <4>2. q >= 1 => c * q >= 2 * q BY <2>4, <2>5
      <4>3. QED BY <2>4, <4>1, <4>2
    <3>3. \A x, y : <<x, y>> # Invalid BY DEF Invalid
    <3>4. QED BY <1>2, <1>3, <2>1, <3>1, <3>2, <3>3
  <2>6. CASE ~(c > 1)
    <3>1. Constructed(n, l) = FromWord(<<n, l>>)
      BY <2>2, <2>3, <2>6 DEF Constructed, OfWords
    <3>2. <<n, l>> # Invalid BY DEF Invalid
    <3>3. QED BY <1>2, <1>3, <2>1, <2>2, <3>1, <3>2
  <2>7. QED BY <2>5, <2>6
<1>6. QED BY <1>4, <1>5

LEMMA InvIs ==
  ASSUME NEW r, NEW v, Means(r, v), r.word \notin {Invalid, Zero}
  PROVE  Value(inv(r)) = Over(One, v) <=>
           SignedDenominator(r.word) \in Word
<1>1. r.word = v /\ v \in WordRat /\ v # Zero BY MeansIs
<1>2. PICK a \in Int, b \in Nat \ {0} :
        v = <<a, b>> /\ Coprime(a, b) /\ a \in Word /\ b \in UWord
  BY <1>1, WordRatIs
<1>3. r.word[1] = a /\ r.word[2] = b /\ v[1] = a /\ v[2] = b
  BY <1>1, <1>2
<1>4. a # 0 BY <1>1, <1>3, WordsOf, ZeroIsRat
<1>5. Over(One, v) = Frac(b, a) BY <1>3 DEF Over, One
<1>6. Coprime(b, a) /\ b \in Int BY <1>2, CoprimeSymmetric
<1>7. /\ W \in Nat /\ W >= 2 /\ -W <= a /\ a <= W - 1 /\ b <= 2 * W - 1
  BY <1>2, WidthAssumption DEF Word, UWord
<1>8. CASE a > 0
  <2>1. PICK n \in Int, l \in Nat \ {0} : n = b /\ l = a BY <1>8
  <2>2. Coprime(n, l) /\ n * l = n * l /\ l \in Int /\ l # 0
    BY <1>6, <2>1
  <2>3. Frac(n, l) = <<n, l>> BY <2>2, FracIs
  <2>4. l \in UWord /\ n # 0 /\ -2 * W < n /\ n < 2 * W
    BY <1>7, <2>1 DEF UWord
  <2>5. Value(Constructed(word(n), uword(l))) = <<n, l>> <=> n \in Word
    BY <2>2, <2>4, CastReciprocal
  <2>6. inv(r) = Constructed(word(n), uword(l))
    BY <1>3, <1>8, <2>1 DEF inv, InvOfWords, Constructed
  <2>7. SignedDenominator(r.word) = n
    BY <1>3, <1>8, <2>1 DEF SignedDenominator
  <2>8. QED BY <1>3, <1>5, <1>8, <2>1, <2>3, <2>5, <2>6, <2>7
<1>9. CASE a < 0
  <2>1. PICK n \in Int, l \in Nat \ {0} : n = -b /\ l = -a BY <1>9
  <2>2. Coprime(n, l)
    <3>1. Coprime(n, a) BY <1>6, <2>1, CoprimeNegated
    <3>2. Coprime(a, n) BY <3>1, CoprimeSymmetric
    <3>3. Coprime(l, n) BY <2>1, <3>2, CoprimeNegated
    <3>4. QED BY <3>3, CoprimeSymmetric
  <2>3. n * a = b * l
    <3>1. (-b) * a = b * (-a) OBVIOUS
    <3>2. QED BY <2>1, <3>1
  <2>4. Frac(b, a) = <<n, l>> BY <1>4, <1>6, <2>2, <2>3, FracIs
  <2>5. l \in UWord /\ n # 0 /\ -2 * W < n /\ n < 2 * W
    BY <1>7, <2>1 DEF UWord
  <2>6. Value(Constructed(word(n), uword(l))) = <<n, l>> <=> n \in Word
    BY <2>2, <2>5, CastReciprocal
  <2>7. inv(r) = Constructed(word(n), uword(l))
    BY <1>3, <1>9, <2>1 DEF inv, InvOfWords, Constructed
  <2>8. SignedDenominator(r.word) = n
    BY <1>3, <1>9, <2>1 DEF SignedDenominator
  <2>9. QED BY <1>3, <1>5, <1>9, <2>1, <2>4, <2>6, <2>7, <2>8
<1>10. QED BY <1>4, <1>8, <1>9

\* The invariant: every number is a representation of the fraction in lowest
\* terms it has to be.
NumbersInv == exact \in [Regs -> Rat] /\ \A k \in Regs : Means(num[k], exact[k])

\* A step stores one exact result, and at most completes its operands.
LEMMA StepKeepsNumbers ==
  ASSUME NumbersInv, NEW c \in Regs, NEW S, NEW o, NEW p, Means(o.result, p), StoreIn(c, S, o, p)
  PROVE  NumbersInv'
<1>1. p \in Rat BY MeansIs
<1>2. exact' \in [Regs -> Rat] BY <1>1 DEF NumbersInv, StoreIn
<1>3. ASSUME NEW k \in Regs
      PROVE  Means(num'[k], exact'[k])
  <2>1. CASE k = c
    <3>1. num'[k] = o.result /\ exact'[k] = p
      BY <2>1 DEF StoreIn, NumbersInv
    <3>2. QED BY <3>1
  <2>2. CASE k # c
    <3>1. num'[k] \in {EnsureMpq(num[k]), num[k]} /\ exact'[k] = exact[k]
      BY <2>2 DEF StoreIn, NumbersInv
    <3>2. Means(num[k], exact[k]) BY DEF NumbersInv
    <3>3. QED BY <3>1, <3>2, MakersMean
  <2>3. QED BY <2>1, <2>2
<1>4. QED BY <1>2, <1>3 DEF NumbersInv, Means, Value, FitsWord, Word, UWord, Rat, Coprime

LEMMA NumbersHold == LongFractionSpec => []NumbersInv
<1>1. LongFractionInit => NumbersInv
  <2> SUFFICES ASSUME LongFractionInit
               PROVE  NumbersInv
    OBVIOUS
  <2>1. ASSUME NEW k \in Regs
        PROVE  exact[k] \in Rat /\ Means(num[k], exact[k])
    <3>1. PICK n \in -MaxNum .. MaxNum : exact[k] = <<n, 1>>
      BY DEF LongFractionInit
    <3>2. n \in Int OBVIOUS
    <3>3. num[k] = FromString(n) BY <3>1 DEF LongFractionInit
    <3>4. QED BY <3>1, <3>2, <3>3, IntegerIsRat, IntegerMeans
  <2>2. \E D : exact \in [Regs -> D] BY DEF LongFractionInit
  <2>3. QED BY <2>1, <2>2 DEF NumbersInv
<1>2. NumbersInv /\ [LongFractionNext]_vars => NumbersInv'
  <2> SUFFICES ASSUME NumbersInv, [LongFractionNext]_vars
               PROVE  NumbersInv'
    OBVIOUS
  <2>1. \A k \in Regs : Means(num[k], exact[k]) BY DEF NumbersInv
  <2>2. \A k \in Regs : exact[k] \in Rat BY DEF NumbersInv
  <2> USE StepKeepsNumbers
  <2>3. ASSUME NEW a \in Regs, NEW b \in Regs, NEW c \in Regs,
               Add(c, a, b) \/ Subtract(c, a, b) \/ Multiply(c, a, b) \/ Divide(c, a, b)
        PROVE  NumbersInv'
    <3>1. CASE Add(c, a, b) BY <2>1, <3>1, OperatorsMean DEF Add
    <3>2. CASE Subtract(c, a, b)
      <4>1. Means(substraction(FromWord(Zero), num[a], num[b]).result, Minus(exact[a], exact[b]))
        BY <2>1, OperatorsMean
      <4>2. QED BY <3>2, <4>1 DEF Subtract
    <3>3. CASE Multiply(c, a, b)
      <4>1. Means(multiplication(FromWord(Zero), num[a], num[b]).result, Times(exact[a], exact[b]))
        BY <2>1, OperatorsMean
      <4>2. QED BY <3>3, <4>1 DEF Multiply
    <3>4. CASE Divide(c, a, b)
      <4>1. Means(division(FromWord(Zero), num[a], num[b]).result, Over(exact[a], exact[b]))
        BY <2>1, <3>4, OperatorsMean DEF Divide
      <4>2. QED BY <3>4, <4>1 DEF Divide
    <3>5. QED BY <2>3, <3>1, <3>2, <3>3, <3>4
  <2>4. ASSUME NEW a \in Regs, NEW b \in Regs,
               \/ AddAssign(a, b) \/ SubtractAssign(a, b)
               \/ MultiplyAssign(a, b) \/ DivideAssign(a, b)
        PROVE  NumbersInv'
    <3>1. CASE AddAssign(a, b)
      BY <2>1, <3>1, AssignmentsMean DEF AddAssign
    <3>2. CASE SubtractAssign(a, b)
      BY <2>1, <3>2, AssignmentsMean DEF SubtractAssign
    <3>3. CASE MultiplyAssign(a, b)
      BY <2>1, <3>3, AssignmentsMean DEF MultiplyAssign
    <3>4. CASE DivideAssign(a, b)
      <4>1. Means(divisionAssign(num[a], num[b]).result, Over(exact[a], exact[b]))
        BY <2>1, <3>4, AssignmentsMean DEF DivideAssign
      <4>2. QED BY <3>4, <4>1 DEF DivideAssign
    <3>5. QED BY <2>4, <3>1, <3>2, <3>3, <3>4
  <2>5. ASSUME NEW a \in Regs, NEW b \in Regs,
               \/ Negated(a, b) \/ Negate(a) \/ Inverted(a, b) \/ Ceil(a, b)
               \/ Floor(a, b) \/ Copy(a, b)
        PROVE  NumbersInv'
    <3>1. CASE Negated(a, b) BY <2>1, <3>1, OppositesMean DEF Negated
    <3>2. CASE Negate(a) BY <2>1, <3>2, OppositesMean DEF Negate
    <3>3. CASE Inverted(a, b) BY <2>1, <3>3, InverseMeans DEF Inverted
    <3>4. CASE Ceil(a, b) BY <2>1, <3>4, RoundingMeans DEF Ceil, Stored
    <3>5. CASE Floor(a, b)
      BY <2>1, <3>5, RoundingMeans DEF Floor, Stored
    <3>6. CASE Copy(a, b) BY <2>1, <3>6, MakersMean DEF Copy, Stored
    <3>7. QED BY <2>5, <3>1, <3>2, <3>3, <3>4, <3>5, <3>6
  <2>6. ASSUME NEW a \in Regs, NEW n \in -MaxNum .. MaxNum, Read(a, n)
        PROVE  NumbersInv'
    <3>1. n \in Int OBVIOUS
    <3>2. QED BY <2>6, <3>1, IntegerMeans DEF Read, Stored
  <2>7. ASSUME NEW a \in Regs, NEW b \in Regs, Compare(a, b)
        PROVE  NumbersInv'
    <3>1. \A k \in Regs : num'[k] \in {EnsureMpq(num[k]), num[k]}
      BY <2>7 DEF Compare
    <3>2. exact' = exact BY <2>7 DEF Compare
    <3>3. \A k \in Regs : Means(num'[k], exact'[k])
      BY <2>1, <3>1, <3>2, MakersMean
    <3>4. QED BY <3>2, <3>3 DEF NumbersInv, Means, Value, FitsWord, Word, UWord, Rat, Coprime
  <2>8. CASE UNCHANGED vars
    BY <2>8 DEF vars, NumbersInv, Means, Value, FitsWord, Word, UWord, Rat, Coprime
  <2>9. QED BY <2>3, <2>4, <2>5, <2>6, <2>7, <2>8 DEF LongFractionNext
<1>3. QED BY <1>1, <1>2, PTL DEF LongFractionSpec

\* For every word width and any number of numbers: no operation loses the exact
\* value or leaves the words.
THEOREM AlwaysExact == LongFractionSpec => []ComputesExactly
<1>1. NumbersInv => ComputesExactly
  BY DEF NumbersInv, Means, ComputesExactly
<1>2. QED BY <1>1, NumbersHold, PTL

\* Comparisons, the sign and the integrality test answer for the exact values.
THEOREM ComparisonsAreExact == LongFractionSpec => []ComparesExactly
<1>1. NumbersInv /\ PartsAgree => ComparesExactly
  <2> SUFFICES ASSUME NumbersInv, PartsAgree, NEW a \in Regs, NEW b \in Regs
               PROVE  /\ compare(num[a], num[b]) = SignOf(Minus(exact[a], exact[b])[1])
                      /\ Equal(num[a], num[b]) <=> exact[a] = exact[b]
                      /\ sign(num[a]) = SignOf(exact[a][1])
                      /\ isInteger(num[a]) <=> exact[a][2] = 1
    BY DEF ComparesExactly
  <2>1. /\ Means(num[a], exact[a]) /\ Means(num[b], exact[b])
        /\ LegalParts(num[a]) /\ LegalParts(num[b])
    BY DEF NumbersInv, PartsAgree
  <2>2. QED BY <2>1, ComparisonIsExact, IntegralityIsExact
<1>2. QED BY <1>1, NumbersHold, PartsAlwaysAgree, PTL

\* inv() is right exactly for the denominators that are words.
THEOREM InverseIsRestricted == LongFractionSpec => []InverseNeedsSmallDenominator
<1>1. NumbersInv => InverseNeedsSmallDenominator
  <2> SUFFICES ASSUME NumbersInv, NEW k \in Regs, num[k].word \notin {Invalid, Zero}
               PROVE  Value(inv(num[k])) = Over(One, exact[k]) <=>
                        SignedDenominator(num[k].word) \in Word
    BY DEF InverseNeedsSmallDenominator
  <2>1. Means(num[k], exact[k]) BY DEF NumbersInv
  <2>2. QED BY <2>1, InvIs
<1>2. QED BY <1>1, NumbersHold, PTL
=============================================================================
