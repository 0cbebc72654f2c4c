---------------------------- MODULE BoolTheory ----------------------------
(***************************************************************************)
(* Boolean constraint propagation (src/bool/Bool_theory.cpp) over the      *)
(* trail and the clause database (src/Database.h).  A Clause* is the       *)
(* position of the clause: asserted clauses first, then learned ones.      *)
(*                                                                         *)
(* The solver is one thread; pc is the point of the solving loop it has    *)
(* reached, and one visit of one watch is one step.                        *)
(***************************************************************************)
EXTENDS Theory, Clauses, Lists

CONSTANT VarPhase  \* Phase::positive, Phase::negative or Phase::cache

ASSUME PhaseAssumption == VarPhase \in {"positive", "negative", "cache"}
ASSUME VarsAssumption  == BoolVars \subseteq Vars /\ BOOLEAN \subseteq Values

VARIABLES
  pc,         \* where the solving loop is
  conflicts,  \* conflict clauses found by the theories in this round
  asserted,   \* clauses of the input; the order of their literals changes
  learned,    \* clauses implied by the asserted ones
  watched,    \* literal -> list of [clause, index]
  satisfied,  \* stack of [lit, reason] still to be propagated
  visit,      \* the literal whose watch list is visited and the position in it
  phase       \* value last held by a boolean variable

dbVars == <<asserted, learned>>
bcpVars == <<watched, satisfied, visit>>

-----------------------------------------------------------------------------
(* The database and the watch lists.                                       *)

ClauseIds == 1..(Len(asserted) + Len(learned))

Clause(id) == IF id <= Len(asserted) THEN asserted[id]
                                     ELSE learned[id - Len(asserted)]

SetClause(id, c) ==
  IF id <= Len(asserted)
    THEN asserted' = [asserted EXCEPT ![id] = c] /\ UNCHANGED learned
    ELSE learned' = [learned EXCEPT ![id - Len(asserted)] = c] /\ UNCHANGED asserted

True(lit) == TrueIn(model, lit)

False(lit) == FalseIn(model, lit)

LevelOf(lit) == var_level[VarOf(lit)]

\* A new watch; the search for another literal to watch starts behind the
\* two watched ones.
Watch(id, c) == [clause |-> id, index |-> IF Len(c) > 2 THEN 3 ELSE Len(c)]

\* A clause is watched once for each of its first two positions.  These are
\* the watches of lit for a list of clauses whose numbers follow n: the slot
\* s = 1, 2, 3, ... is the first, then the second position of each clause.
WatchesIn(clauses, n, lit) ==
  LET slots == 1..(2 * Len(clauses))
      ClauseOf(s) == (s + 1) \div 2
      PositionIn(s) == 2 - (s % 2)
      holding == {s \in slots :
                    LET c == clauses[ClauseOf(s)] IN
                    PositionIn(s) <= Len(c) /\ c[PositionIn(s)] = lit}
  IN Chosen([s \in slots |-> Watch(n + ClauseOf(s), clauses[ClauseOf(s)])], holding)

InitialWatches == [lit \in Literals |-> WatchesIn(asserted \o learned, 0, lit)]

-----------------------------------------------------------------------------
(* Bool_theory::propagate.                                                 *)

UnitClauses ==
  LET ids == Chosen([id \in ClauseIds |-> id],
                    {id \in ClauseIds : Len(Clause(id)) = 1})
  IN [k \in 1..Len(ids) |-> [lit |-> Clause(ids[k])[1], reason |-> ids[k]]]

TrueLiteralOf(v) == IF model[v] = TRUE THEN v ELSE -v

UnseenLiterals ==
  LET entries == Chosen(Unseen, {k \in DOMAIN Unseen : Unseen[k].var \in BoolVars})
  IN [k \in 1..Len(entries) |->
        [lit |-> TrueLiteralOf(entries[k].var), reason |-> entries[k].reason]]

\* The watch lists are built from nothing when nothing is assigned, and only
\* then.
Initialize ==
  /\ pc = "propagate"
  /\ IF empty
       THEN /\ watched' = InitialWatches
            /\ satisfied' = UnitClauses \o UnseenLiterals
       ELSE /\ satisfied' = UnseenLiterals
            /\ UNCHANGED watched
  /\ cursor' = SeenAll
  /\ pc' = "bcp"
  /\ UNCHANGED <<conflicts, dbVars, visit, phase, trailVars>>

\* Variation: a literal is propagated whether or not it has a value already.
PopSatisfiedAgain ==
  /\ pc = "bcp"
  /\ satisfied # << >>
  /\ LET top == Last(satisfied) IN
       /\ IF top.reason # NoReason
            THEN Propagate(VarOf(top.lit), top.lit > 0, top.reason, decision_level)
            ELSE UNCHANGED trailVars
       /\ visit' = [lit |-> -top.lit, i |-> 1]
  /\ satisfied' = Front(satisfied)
  /\ pc' = "watch"
  /\ UNCHANGED <<conflicts, dbVars, watched, phase, cursor>>

\* Take a true literal; one that is only implied so far is propagated at the
\* current level, whatever the levels of the literals of its reason.
PopSatisfied ==
  /\ pc = "bcp"
  /\ satisfied # << >>
  /\ LET top == Last(satisfied) IN
       /\ IF top.reason # NoReason /\ ~is_defined(VarOf(top.lit))
            THEN Propagate(VarOf(top.lit), top.lit > 0, top.reason, decision_level)
            ELSE UNCHANGED trailVars
       /\ visit' = [lit |-> -top.lit, i |-> 1]
  /\ satisfied' = Front(satisfied)
  /\ pc' = "watch"
  /\ UNCHANGED <<conflicts, dbVars, watched, phase, cursor>>

-----------------------------------------------------------------------------
(* Bool_theory::falsified: visit the clauses watching visit.lit, which has *)
(* become false.                                                           *)

NoVisit == [lit |-> 0, i |-> 0]

Visited == watched[visit.lit]

EndOfList == pc = "watch" /\ visit.i > Len(Visited)

AtWatch == pc = "watch" /\ visit.i <= Len(Visited)

VisitedId == Visited[visit.i].clause

\* The visited clause with the falsified literal moved to position 2.
VisitedClause ==
  LET c == Clause(VisitedId)
  IN IF c[1] = visit.lit /\ Len(c) > 1 THEN Swap(c, 1, 2) ELSE c

\* Positions behind the watched literals whose literal is not false, and the
\* first of them met when searching circularly from position index.
Replacements(c) == {p \in 3..Len(c) : ~False(c[p])}

FirstReplacement(c, index) ==
  CHOOSE p \in Replacements(c) :
    \A q \in Replacements(c) : (p - index) % (Len(c) - 2) <= (q - index) % (Len(c) - 2)

VisitDone ==
  /\ EndOfList
  /\ visit' = NoVisit
  /\ pc' = "bcp"
  /\ UNCHANGED <<conflicts, dbVars, watched, satisfied, phase, cursor, trailVars>>

\* The only literal of a unit clause has become false.
UnitFalsified ==
  /\ AtWatch
  /\ Len(VisitedClause) = 1
  /\ conflicts' = <<VisitedClause>>
  /\ visit' = NoVisit
  /\ pc' = "conflict"
  /\ UNCHANGED <<dbVars, watched, satisfied, phase, cursor, trailVars>>

SkipSatisfied ==
  /\ AtWatch
  /\ Len(VisitedClause) > 1
  /\ True(VisitedClause[1])
  /\ SetClause(VisitedId, VisitedClause)
  /\ visit' = [visit EXCEPT !.i = @ + 1]
  /\ UNCHANGED <<pc, conflicts, watched, satisfied, phase, cursor, trailVars>>

\* The last watch of the list takes the place of the one that moves away.
MoveWatch ==
  /\ AtWatch
  /\ Len(VisitedClause) > 1
  /\ ~True(VisitedClause[1])
  /\ Replacements(VisitedClause) # {}
  /\ LET p == FirstReplacement(VisitedClause, Visited[visit.i].index)
         lit == VisitedClause[p] IN
       /\ SetClause(VisitedId, Swap(VisitedClause, 2, p))
       /\ watched' = [watched EXCEPT
            ![lit] = Append(@, [clause |-> VisitedId, index |-> p]),
            ![visit.lit] = Front([Visited EXCEPT ![visit.i] = Last(Visited)])]
  /\ UNCHANGED <<pc, conflicts, satisfied, visit, phase, cursor, trailVars>>

\* No literal is left to watch: the clause is unit or false.
Exhausted ==
  /\ AtWatch
  /\ Len(VisitedClause) > 1
  /\ ~True(VisitedClause[1])
  /\ Replacements(VisitedClause) = {}

FindUnit ==
  /\ Exhausted
  /\ ~False(VisitedClause[1])
  /\ SetClause(VisitedId, VisitedClause)
  /\ satisfied' = Append(satisfied, [lit |-> VisitedClause[1], reason |-> VisitedId])
  /\ visit' = [visit EXCEPT !.i = @ + 1]
  /\ UNCHANGED <<pc, conflicts, watched, phase, cursor, trailVars>>

FindFalse ==
  /\ Exhausted
  /\ False(VisitedClause[1])
  /\ SetClause(VisitedId, VisitedClause)
  /\ conflicts' = <<VisitedClause>>
  /\ visit' = NoVisit
  /\ pc' = "conflict"
  /\ UNCHANGED <<watched, satisfied, phase, cursor, trailVars>>

\* Everything implied has been propagated and no clause is false.
BcpDone ==
  /\ pc = "bcp"
  /\ satisfied = << >>
  /\ pc' = "theory"
  /\ UNCHANGED <<conflicts, dbVars, bcpVars, phase, cursor, trailVars>>

BoolPropagate ==
  \/ Initialize \/ PopSatisfied \/ BcpDone
  \/ VisitDone \/ UnitFalsified \/ SkipSatisfied
  \/ MoveWatch \/ FindUnit \/ FindFalse

-----------------------------------------------------------------------------
(* Bool_theory::decide and the events.                                     *)

PhaseOf(v) == CASE VarPhase = "positive" -> TRUE
                [] VarPhase = "negative" -> FALSE
                [] VarPhase = "cache"    -> phase[v]

DecideBool(v) == v \in BoolVars /\ Decide(v, PhaseOf(v))

\* on_before_backtrack: remember the values about to be popped and forget how
\* much of the top level has been seen.
BeforeBacktrack(level) ==
  LET popped == UNION {VarsIn(assigned(l)) : l \in (level + 1)..decision_level} IN
  /\ phase' = [v \in BoolVars |-> IF v \in popped THEN model[v] ELSE phase[v]]
  /\ cursor' = ResetCursor

\* Variation: the last literal of a learned clause is watched, not the second.
WatchFirstAndLast(clauses) ==
  watched' = [lit \in Literals |->
    watched[lit] \o
    FlattenSeq([k \in 1..Len(clauses) |->
      LET c == clauses[k] IN
      [p \in 1..Cardinality({p \in {1, Len(c)} : c[p] = lit}) |->
         Watch(Len(asserted) + Len(learned) + k, c)]])]

\* on_learned_clause for the clauses appended behind the database.
WatchLearned(clauses) ==
  watched' = [lit \in Literals |->
    watched[lit] \o WatchesIn(clauses, Len(asserted) + Len(learned), lit)]

BoolInit(clauses) ==
  /\ pc = "propagate"
  /\ conflicts = << >>
  /\ asserted = clauses
  /\ learned = << >>
  /\ watched = [lit \in Literals |-> << >>]
  /\ satisfied = << >>
  /\ visit = NoVisit
  /\ phase = [v \in BoolVars |-> TRUE]
  /\ cursor = [level |-> 0, next |-> 0]
=============================================================================
