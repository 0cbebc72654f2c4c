-------------------------- MODULE SolverProperties --------------------------
(***************************************************************************)
(* What must be true of a run of Solver::check.                            *)
(***************************************************************************)
EXTENDS Solver

ProgramPoints ==
  {"propagate", "bcp", "watch", "theory", "explain", "conflict", "resolve",
   "minimize", "learn", "jump", "split", "unit", "decide", "done"}

ClauseLists == Seq(Seq(Literals))

\* Types of the solver's state, with the trail's.
SolverTypeOK ==
  /\ TrailTypeOK
  /\ pc \in ProgramPoints
  /\ conflicts \in ClauseLists
  /\ asserted \in ClauseLists
  /\ learned \in ClauseLists
  /\ watched \in [Literals -> Seq([clause : Nat, index : Nat])]
  /\ satisfied \in Seq([lit : Literals, reason : Reasons \cup {NoReason}])
  /\ visit \in [lit : Literals \cup {0}, i : Nat]
  /\ phase \in [BoolVars -> BOOLEAN]
  /\ cursor \in [level : Int, next : Nat]
  /\ work \subseteq Literals
  /\ top_level \in Nat /\ position \in Nat /\ jump_level \in Int
  /\ minimized \in [clause : Seq(Literals), kept : Seq(Literals), next : Nat, level : Int]
  /\ lemmas \in ClauseLists
  /\ created \subseteq AtomVars /\ checked \subseteq RealVars /\ blame \subseteq Literals
  /\ round_size \in Nat
  /\ todo \in Seq(Nat) /\ choices \subseteq Literals
  /\ old_size \in Nat /\ restarts \in 0..MaxRestarts
  /\ verdict \in {"none", "sat", "unsat"}

-----------------------------------------------------------------------------
(* Boolean constraint propagation.                                         *)

\* The watch lists are dead until initialize() rebuilds them.
WatchesLive == ~(pc = "propagate" /\ empty)

Count(list, id) == Cardinality({k \in DOMAIN list : list[k].clause = id})

\* Every clause is watched by its first two literals and by nothing else, in
\* the middle of a visit too, and the search for a replacement starts inside
\* the clause: watches are neither lost nor doubled when literals swap places,
\* when a list loses an entry while it is walked, and when clauses are learned.
WatchInv ==
  WatchesLive =>
    \A lit \in Literals :
      /\ \A id \in ClauseIds :
           Count(watched[lit], id) =
             Cardinality({p \in DOMAIN Clause(id) : p <= 2 /\ Clause(id)[p] = lit})
      /\ \A k \in DOMAIN watched[lit] :
           LET w == watched[lit][k] IN
           /\ w.clause \in ClauseIds
           /\ Len(Clause(w.clause)) > 2 => w.index \in 3..Len(Clause(w.clause))

\* When the loop decides, no clause is false and none is one literal away from
\* forcing a value: propagation really ran to exhaustion, also after backjumps
\* to levels that were already propagated.
BcpComplete ==
  pc = "decide" =>
    \A id \in ClauseIds :
      LET c == Clause(id) IN
      \/ \E lit \in ToSet(c) : True(lit)
      \/ Cardinality({p \in DOMAIN c : ~False(c[p])}) >= 2

\* The assertions of propagate(): a literal taken from the stack is not false
\* and everything else in its reason is.
StackIsImplied ==
  pc = "bcp" /\ satisfied # << >> =>
    LET top == Last(satisfied) IN
    IF top.reason = NoReason
      THEN True(top.lit)
      ELSE /\ ~False(top.lit)
           /\ top.lit \in ToSet(Clause(top.reason))
           /\ \A lit \in ToSet(Clause(top.reason)) \ {top.lit} : False(lit)

\* What holds of the solver and its watches at every point of the loop: the
\* watch lists fit the clauses, and what waits on the stack may be assigned.
SolverInv == SolverTypeOK /\ WatchInv /\ StackIsImplied

\* When the loop decides, a watched literal may only be false next to a watched
\* literal that is true and that no backtrack can undo without freeing the
\* false one (falsified() asserts that the literal it leaves at the second
\* position has the highest level): this is what lets backtracking leave the
\* watch lists alone.
FalseWatchIsSafe ==
  pc = "decide" =>
    \A id \in ClauseIds :
      LET c == Clause(id) IN
      Len(c) > 1 =>
        \A i \in {1, 2} :
          False(c[i]) => True(c[3 - i]) /\ LevelOf(c[3 - i]) <= LevelOf(c[i])

PositionOf(v, list) == CHOOSE k \in DOMAIN list : list[k].var = v

\* A propagated literal is implied by its reason, as a unit clause, at exactly
\* the level of the clause, and the literals that made it unit come before it
\* on that level: reverse resolution meets it before them.
ReasonsImply ==
  \A v \in BoolVars :
    var_reason[v] # NoReason =>
      LET lits == ToSet(Clause(var_reason[v]))
          self == TrueLiteralOf(v)
          others == lits \ {self}
          list == assigned(var_level[v]) IN
      /\ self \in lits
      /\ \A lit \in others :
           /\ False(lit)
           /\ LevelOf(lit) <= var_level[v]
           /\ LevelOf(lit) = var_level[v] =>
                PositionOf(VarOf(lit), list) < PositionOf(v, list)
      /\ var_level[v] > 0 => \E lit \in others : LevelOf(lit) = var_level[v]

-----------------------------------------------------------------------------
(* Conflict analysis, learning and backtracking.                           *)

\* Every clause handled between the conflict and learning is false in the
\* model, whatever has been resolved or removed so far.
ConflictStaysFalse ==
  /\ \A k \in DOMAIN conflicts : \A lit \in ToSet(conflicts[k]) : False(lit)
  /\ \A lit \in work : False(lit)
  /\ pc \in {"minimize", "learn"} =>
       \A c \in ToSet(lemmas) \cup {Contents} : \A lit \in ToSet(c) : False(lit)

TheoryAssignments ==
  {m \in Assignments :
     \E rho \in Valuations : \A a \in AtomVars : m[a] = (rho \in AtomModels[a])}

\* The problem as a set of sets: the order of literals is the solver's.
Problem == {ToSet(asserted[i]) : i \in DOMAIN asserted}

Problems == {{ToSet(f[i]) : i \in DOMAIN f} : f \in Formulas}

ModelsOf == [p \in Problems |-> {m \in TheoryAssignments : Satisfies(m, p)}]

Entailed(clauses) == \A m \in ModelsOf[Problem] : Satisfies(m, clauses)

\* Resolution, minimisation on a vector that is being shifted, and deletion of
\* subsumed clauses: whatever has been derived so far follows from the
\* asserted clauses and the theory.  (Looked at where clauses are derived and
\* where the loop goes on, not between two visits of a watch.)
LearnedIsEntailed ==
  pc \in {"resolve", "minimize", "learn", "jump", "decide", "done"} =>
    Entailed({ToSet(learned[i]) : i \in DOMAIN learned}
             \cup {ToSet(c) : c \in ToSet(lemmas)}
             \cup (IF pc = "resolve" THEN {work} ELSE {})
             \cup (IF pc = "minimize" /\ minimized.next > Len(minimized.clause)
                     THEN {ToSet(minimized.kept)} ELSE {}))

Repeats(c) == Cardinality(ToSet(c)) < Len(c)

\* A learned clause that propagates is not implied by a single clause the
\* solver already had: each such conflict teaches something.  (A clause that
\* splits may be a clause of the database again.  A clause that repeats a
\* literal is an exception: propagation takes its two copies for two
\* literals, and a conflict has to remove one.)
LearnsSomethingNew ==
  pc = "learn" =>
    \A c \in ToSet(PreferredLemmas) :
      \A id \in ClauseIds :
        ToSet(Clause(id)) \subseteq ToSet(c) =>
          is_semantic_split(c) \/ Repeats(Clause(id))

\* The assertions of backtrack_with: either every clause propagates its first
\* literal and nothing else of it is undone, or every clause splits, the level
\* that is undone was opened by the value of a rational variable and the
\* literals of the split have no reason.
JumpIsJustified ==
  pc = "jump" =>
    /\ todo # << >>
    /\ jump_level < decision_level
    /\ LET clauses == {Clause(todo[k]) : k \in DOMAIN todo} IN
         IF is_semantic_split(Clause(todo[1]))
           THEN /\ \A c \in clauses :
                     /\ is_semantic_split(c)
                     /\ \A lit \in SplitLiterals(c) :
                          LevelOf(lit) > jump_level /\ var_reason[VarOf(lit)] = NoReason
                /\ assigned(jump_level + 1)[1].var \in RealVars
           ELSE \A c \in clauses :
                  /\ LevelOf(c[1]) > jump_level
                  /\ \A i \in 2..Len(c) : LevelOf(c[i]) <= jump_level

-----------------------------------------------------------------------------
(* Answers.                                                                *)

\* The model behind "sat" satisfies every clause, asserted or learned, and
\* every linear constraint has the value its rational variables give it.
SatModelCorrect ==
  verdict = "sat" =>
    /\ \A id \in ClauseIds : \E lit \in ToSet(Clause(id)) : True(lit)
    /\ \A a \in created : is_defined(a) /\ model[a] = AtomValue(a)

SatisfiableProblems == {p \in Problems : ModelsOf[p] # {}}

V == INSTANCE Verdict WITH problem <- Problem, Satisfiable <- SatisfiableProblems

\* check() returns, and returns "sat" exactly for the satisfiable problems.
AnswersCorrectly == V!Spec

\* The solver uses the trail as its clients must: it assigns undefined
\* variables only, at levels that exist.  Everything proved about TrailSpec
\* therefore holds of the solver's trail.  (TrailSpec, with the test that the
\* trail changes first: few steps of the solver do.)
UsesTrailCorrectly ==
  TrailInit /\ [][trailVars' # trailVars => TrailNext]_trailVars

-----------------------------------------------------------------------------
(* Why the loop is right: what holds at each of its points, in parts that  *)
(* together are preserved by every step.                                   *)

-----------------------------------------------------------------------------
(* Assignments.                                                            *)

\* Boolean variables that clauses may mention.
Known == Mentioned \cup created

BoolValued(m) == \A v \in BoolVars : m[v] \in BOOLEAN \cup {Undef}

\* Boolean variables have boolean values.  Rational variables are decided, and
\* a boolean variable without a reason was decided or stands for a constraint
\* whose highest variable opened the level.
AssignmentsOK ==
  /\ BoolValued(model)
  /\ \A v \in BoolVars : is_defined(v) => v \in Known
  /\ \A r \in RealVars : is_defined(r) =>
       var_level[r] > 0 /\ assigned(var_level[r])[1].var = r
  /\ \A v \in BoolVars : is_defined(v) /\ var_reason[v] = NoReason =>
       var_level[v] > 0 /\ assigned(var_level[v])[1].var \in {v} \cup RealVars

\* u comes before v in the list of the level of v.
ListedBefore(u, v) ==
  LET list == assigned(var_level[v]) IN
  \E j, k \in 1..Len(list) : j < k /\ list[j].var = u /\ list[k].var = v

\* The clause c forced v: its first literal is true, the others are false and
\* were so before v was assigned, and v belongs to the highest of their levels.
ForcedBy(v, c) ==
  /\ c[1] = TrueLiteralOf(v)
  /\ \A p \in 2..Len(c) :
       /\ False(c[p])
       /\ LevelOf(c[p]) <= var_level[v]
       /\ LevelOf(c[p]) = var_level[v] => ListedBefore(VarOf(c[p]), v)
  /\ var_level[v] > 0 => \E p \in 2..Len(c) : LevelOf(c[p]) = var_level[v]

ReasonsOK ==
  \A v \in BoolVars : var_reason[v] # NoReason =>
    var_reason[v] \in ClauseIds /\ ForcedBy(v, Clause(var_reason[v]))

\* The database holds the problem, and no clause is empty.
DatabaseOK ==
  /\ Problem \in Problems
  /\ \A id \in ClauseIds :
       Clause(id) # << >> /\ \A lit \in ToSet(Clause(id)) : VarOf(lit) \in Known
  /\ AtomVars \cap Mentioned \subseteq created

-----------------------------------------------------------------------------
(* Propagation.                                                            *)

OnStack(lit) == \E k \in DOMAIN satisfied : satisfied[k].lit = lit

ImpliedOnStack(id) == \E k \in DOMAIN satisfied : satisfied[k].reason = id

\* The visit has not reached a watch of the clause.
NotVisited(id) == \A k \in DOMAIN Visited : k < visit.i => Visited[k].clause # id

\* A watched literal that is false will be looked at before the next decision.
Awaits(lit, id) ==
  \/ pc \in {"conflict", "resolve", "minimize", "learn", "jump", "done"}
  \/ pc \in {"propagate", "unit"} /\ VarOf(lit) \in VarsIn(Unseen)
  \/ pc \in {"theory", "explain"} /\ RealVars # {} /\ VarOf(lit) \in VarsIn(Unseen)
  \/ pc \in {"bcp", "watch"} /\ (OnStack(-lit) \/ ImpliedOnStack(id))
  \/ pc = "watch" /\ visit.lit = lit /\ NotVisited(id)

\* FalseWatchIsSafe at every point of the loop.
FalseWatchesOK ==
  \A id \in ClauseIds : \A i \in {1, 2} :
    LET c == Clause(id) IN
    Len(c) > 1 /\ False(c[i]) /\ ~(pc = "jump" /\ id \in ToSet(todo)) =>
      \/ True(c[3 - i]) /\ LevelOf(c[3 - i]) <= LevelOf(c[i])
      \/ LevelOf(c[i]) = decision_level /\ Awaits(c[i], id)

\* Clauses of one literal are true at level 0 or about to be.
UnitsOK ==
  \A id \in ClauseIds :
    Len(Clause(id)) = 1 =>
      \/ True(Clause(id)[1]) /\ LevelOf(Clause(id)[1]) = 0
      \/ pc \in {"jump", "unit"} /\ id \in ToSet(todo)
      \/ /\ decision_level = 0
         /\ \/ pc = "propagate" /\ empty
            \/ pc \in {"bcp", "watch"} /\ ImpliedOnStack(id)
            \/ pc \in {"conflict", "done"}

\* What waits on the stack is true or implied at the current level; a literal
\* that has become false is the one being visited, and its clause comes later
\* in the visit.
StackOK ==
  pc \in {"bcp", "watch"} =>
    /\ \A k \in DOMAIN satisfied :
         LET lit == satisfied[k].lit
             id == satisfied[k].reason IN
         IF id = NoReason
           THEN True(lit)
           ELSE /\ id \in ClauseIds
                /\ Clause(id)[1] = lit
                /\ \A p \in 2..Len(Clause(id)) : False(Clause(id)[p])
                /\ ~True(lit) /\ decision_level > 0 =>
                     \E p \in 2..Len(Clause(id)) : LevelOf(Clause(id)[p]) = decision_level
                /\ False(lit) => pc = "watch" /\ visit.lit = lit /\ NotVisited(id)
    /\ pc = "watch" => visit.lit \in Literals /\ False(visit.lit) /\ visit.i >= 1

\* The boolean plugin's cursor fits the trail.
CursorOK ==
  /\ cursor.level <= decision_level
  /\ cursor.level = decision_level => cursor.next <= Len(recent)
  /\ pc \in {"split", "unit"} => cursor = ResetCursor
  /\ pc \in {"bcp", "watch", "theory", "explain"} =>
       cursor.level = decision_level /\ cursor.next = round_size

-----------------------------------------------------------------------------
(* Linear constraints.                                                     *)

\* A constraint has a value at the level of its variables on every level but
\* the top one, and there too where the plugin has nothing left to propagate;
\* the value is the one its variables give it.
AtomsOK ==
  /\ \A a \in created : \A m \in 0..(decision_level - 1) :
       (\A r \in AtomScope[a] : is_defined(r) /\ var_level[r] <= m) =>
         is_defined(a) /\ var_level[a] <= m
  /\ \A a \in created : is_defined(a) /\ is_fully_assigned(a) => model[a] = AtomValue(a)
  /\ Propagatable # {} =>
       \/ pc = "theory"
       \/ pc = "propagate" /\ decision_level > 0
          /\ \A k \in DOMAIN Unseen : Unseen[k].var \notin BoolVars
       \/ pc = "bcp" /\ satisfied = << >>

\* The literals of an explanation are false, or will be when their constraint
\* has been derived.
ExplainOK ==
  pc = "explain" =>
    \A lit \in blame :
      /\ VarOf(lit) \in AtomVars
      /\ \/ False(lit)
         \/ /\ ~is_defined(VarOf(lit))
            /\ is_fully_assigned(VarOf(lit))
            /\ lit = IF AtomValue(VarOf(lit)) THEN -VarOf(lit) ELSE VarOf(lit)

-----------------------------------------------------------------------------
(* Conflict analysis and learning.                                         *)

AllFalse(c) == \A p \in 1..Len(c) : False(c[p])

ConflictsOK ==
  /\ \A k \in 1..Len(conflicts) : AllFalse(conflicts[k])
  /\ pc \in {"propagate", "bcp", "watch", "decide", "learn", "jump", "split", "unit"} =>
       conflicts = << >>
  /\ pc = "conflict" => conflicts # << >>
  /\ pc \in {"resolve", "minimize", "learn", "jump"} => decision_level > 0
  /\ pc # "resolve" /\ pc # "minimize" => work = {}
  /\ pc # "minimize" => minimized = NothingMinimized

\* Reverse resolution has dealt with the entries behind the position.
ResolveOK ==
  pc = "resolve" =>
    /\ top_level <= decision_level
    /\ position <= Len(assigned(top_level))
    /\ IsFiniteSet(work)
    /\ \A lit \in work : False(lit) /\ LevelOf(lit) <= top_level
    /\ top_level > 0 => \E lit \in work : LevelOf(lit) = top_level
    /\ \A k \in (position + 1)..Len(assigned(top_level)) :
         LET v == assigned(top_level)[k].var IN
         v \in BoolVars /\ var_level[v] = top_level /\ -TrueLiteralOf(v) \in work =>
           var_reason[v] = NoReason

\* A clause that splits: the literals of its highest level have no reason, and
\* that level was opened by the value of a rational variable.
IsSplit(c, level) ==
  /\ level >= 0
  /\ Len(c) >= 2
  /\ LevelOf(c[1]) = level + 1 /\ LevelOf(c[2]) = level + 1
  /\ \A p \in 1..Len(c) :
       LevelOf(c[p]) = level + 1 => var_reason[VarOf(c[p])] = NoReason
  /\ assigned(level + 1)[1].var \in RealVars

\* A clause that propagates its first literal once the level is undone.
IsUip(c, level) ==
  /\ level >= 0
  /\ Len(c) >= 1
  /\ LevelOf(c[1]) > level
  /\ \A p \in 2..Len(c) : LevelOf(c[p]) <= level
  /\ IF Len(c) = 1 THEN level = 0 ELSE LevelOf(c[2]) = level

LemmaOK(c, level) ==
  /\ AllFalse(c)
  /\ \/ c = << >> /\ level = -1
     \/ IsSplit(c, level)
     \/ IsUip(c, level)

Sorted(c) == \A i, j \in 1..Len(c) : i < j => HigherLevelFirst(c[i], c[j])

\* The literal was the first of its level in the clause to become false.
FirstOfLevel(c, p) ==
  /\ LevelOf(c[p]) > 0
  /\ \A q \in 1..Len(c) :
       q # p /\ LevelOf(c[q]) = LevelOf(c[p]) => ListedBefore(VarOf(c[p]), VarOf(c[q]))

\* Minimisation keeps literals without a reason and the first of each level.
MinimizeOK ==
  pc = "minimize" =>
    LET c == minimized.clause
        kept == minimized.kept IN
    /\ \A lit \in work : False(lit)
    /\ Sorted(c)
    /\ LemmaOK(c, minimized.level)
    /\ minimized.next \in 1..(Len(c) + 1)
    /\ Len(kept) < minimized.next
    /\ Sorted(kept)
    /\ \A k \in 1..Len(kept) : \E p \in 1..(minimized.next - 1) : kept[k] = c[p]
    /\ \A p \in 1..(minimized.next - 1) :
         var_reason[VarOf(c[p])] = NoReason \/ FirstOfLevel(c, p) =>
           \E k \in 1..Len(kept) : kept[k] = c[p]

LemmasOK ==
  /\ \A k \in 1..Len(lemmas) : LemmaOK(lemmas[k], jump_level)
  /\ pc \in {"conflict", "resolve", "minimize", "learn", "done"} \/ lemmas = << >>
  /\ pc = "learn" => lemmas # << >>

\* The clauses just learned all propagate or all split.
JumpOK ==
  pc = "jump" =>
    /\ todo # << >>
    /\ \A k \in 1..Len(todo) :
         todo[k] \in ClauseIds /\ AllFalse(Clause(todo[k]))
    /\ \/ \A k \in 1..Len(todo) : IsSplit(Clause(todo[k]), jump_level)
       \/ \A k \in 1..Len(todo) : IsUip(Clause(todo[k]), jump_level)

UnitOK ==
  pc = "unit" =>
    /\ jump_level = decision_level
    /\ \A k \in 1..Len(todo) :
         LET c == Clause(todo[k]) IN
         /\ todo[k] \in ClauseIds
         /\ ~False(c[1])
         /\ \A p \in 2..Len(c) : False(c[p])
         /\ IF Len(c) = 1 THEN decision_level = 0 ELSE LevelOf(c[2]) = decision_level
    /\ \A j, k \in 1..Len(todo) :
         VarOf(Clause(todo[j])[1]) = VarOf(Clause(todo[k])[1]) =>
           Clause(todo[j])[1] = Clause(todo[k])[1]

SplitOK ==
  pc = "split" => \A lit \in choices : ~is_defined(VarOf(lit)) /\ VarOf(lit) \in Known

AnswerOK == (pc = "done" <=> verdict # "none") /\ SatModelCorrect

-----------------------------------------------------------------------------
\* A pointer to any clause of the database may be a reason.  (The runs bound
\* the number of clauses, so theirs are fewer.)
EveryClauseMayBeReason == Nat \ {0} \subseteq Reasons

\* The conjunction that every step preserves.
LoopInv ==
  /\ SolverTypeOK /\ TrailInv
  /\ AssignmentsOK /\ DatabaseOK /\ ReasonsOK
  /\ WatchInv /\ FalseWatchesOK /\ UnitsOK /\ StackOK /\ CursorOK
  /\ AtomsOK /\ ExplainOK
  /\ ConflictsOK /\ ResolveOK /\ MinimizeOK /\ LemmasOK
  /\ JumpOK /\ UnitOK /\ SplitOK /\ AnswerOK

-----------------------------------------------------------------------------
(* What has been derived follows from the problem and the theory.          *)

Follows(lits) == \A m \in ModelsOf[Problem] : \E lit \in lits : TrueIn(m, lit)

\* The reason of the negated literal has no other literals than lits.
ImpliedBy(lit, lits) ==
  /\ var_reason[VarOf(lit)] # NoReason
  /\ ToSet(Clause(var_reason[VarOf(lit)])) \subseteq lits \cup {-lit}

\* A literal that minimisation has removed was implied by others of the clause,
\* which may have been removed themselves: the trail decides which one stays.
RemovedAreImplied ==
  pc = "minimize" =>
    /\ Follows(ToSet(minimized.clause))
    /\ \A p \in 1..(minimized.next - 1) :
         \/ minimized.clause[p] \in ToSet(minimized.kept)
         \/ ImpliedBy(minimized.clause[p], ToSet(minimized.clause))

DerivedOK ==
  /\ \A id \in ClauseIds : Follows(ToSet(Clause(id)))
  /\ \A k \in 1..Len(conflicts) : Follows(ToSet(conflicts[k]))
  /\ \A k \in 1..Len(lemmas) : Follows(ToSet(lemmas[k]))
  /\ pc = "explain" => Follows(blame)
  /\ pc = "resolve" => Follows(work)
  /\ RemovedAreImplied

-----------------------------------------------------------------------------
(* Answers.                                                                *)

\* Rational variables have rational values.
RealsOK == \A r \in RealVars : model[r] \in RealValues \cup {Undef}

\* A valuation that agrees with the one of the solver, and the boolean
\* assignment it gives with it.
SolverValuation ==
  [r \in RealVars |-> IF is_defined(r) THEN model[r] ELSE CHOOSE x \in RealValues : TRUE]

SolverModel ==
  [v \in BoolVars |-> IF v \in AtomVars THEN SolverValuation \in AtomModels[v]
                                       ELSE model[v] = TRUE]

\* AnswersCorrectly without its promise that an answer comes.
AnswersSafely == V!Init /\ [][V!Answer]_V!vars
=============================================================================
