---------------------------- MODULE SolverProofs ----------------------------
(***************************************************************************)
(* Proofs about the solving loop: its other steps keep LoopInv as well, so *)
(* that it holds of every run, and with it what SolverProperties promises; *)
(* the clauses that are learned follow from the problem and the theory;    *)
(* the answers are right; and the loop with the order Generalized_vsids    *)
(* does what it does with any order.                                       *)
(***************************************************************************)
EXTENDS PropagationProofs, Vsids

-----------------------------------------------------------------------------
(* Answers.                                                                *)

\* The invariant when the learned clauses have been propagated.
LEMMA UnitsDoneStep ==
  ASSUME LoopInv, UnitsDone
  PROVE  LoopInv'
<1>1. Steady /\ pc = "unit" /\ pc' = "propagate" /\ todo = << >> /\ jump_level' = 0
      /\ UNCHANGED <<conflicts, bcpVars, phase, cursor, work, top_level,
                     position, minimized, lemmas, lraVars, loopVars>>
  BY DEF UnitsDone, Steady, lraVars
<1>2. SolverTypeOK'
  BY <1>1, SteadyMost DEF LoopInv, SolverTypeOK, ProgramPoints, Steady, trailVars, dbVars,
     bcpVars, lraVars, loopVars, TrailInv
<1>3. UnitsTrue BY <1>1 DEF LoopInv, UnitsOK, UnitsTrue, ToSet
<1>4. StillAwaits
  BY <1>1, ZenonT(40)
     DEF StillAwaits, Awaits, VarsIn, Unseen, Steady, trailVars, recent, decision_level
<1>5. TrailInv' /\ AssignmentsOK' /\ DatabaseOK' /\ ReasonsOK' /\ WatchInv' /\ FalseWatchesOK'
      /\ UnitsOK'
  BY <1>1, <1>3, <1>4, SteadyMost DEF WatchesLive, bcpVars
<1>6. CursorOK'
  BY <1>1, InvTypes DEF LoopInv, CursorOK, Steady, trailVars, loopVars, decision_level, recent,
     ResetCursor
<1>7. AtomsOK' BY <1>1, SteadyAtoms DEF LoopInv, AtomsOK
<1>8. ConflictsOK' /\ LemmasOK'
  BY <1>1 DEF LoopInv, ConflictsOK, LemmasOK
<1>9. QED BY <1>1, <1>2, <1>5, <1>6, <1>7, <1>8, InvTypes, Elsewhere
     DEF LoopInv, loopVars

\* With everything decided, propagation has made every clause true.
LEMMA AllSatisfied ==
  ASSUME LoopInv, pc = "decide", Undecided = {}
  PROVE  /\ \A id \in ClauseIds : \E lit \in ToSet(Clause(id)) : True(lit)
         /\ \A a \in created : is_defined(a) /\ model[a] = AtomValue(a)
<1>1. \A v \in InUse : is_defined(v) BY DEF Undecided
<1>2. ASSUME NEW id \in ClauseIds
      PROVE  \E lit \in ToSet(Clause(id)) : True(lit)
  <2>1. PICK c \in Seq(Literals) : c = Clause(id)
    BY InvTypes, ClauseTypes
  <2>2. c # << >> /\ \A lit \in ToSet(c) : VarOf(lit) \in Known
    BY <2>1 DEF LoopInv, DatabaseOK
  <2>3. Len(c) \in Nat /\ Len(c) >= 1 /\ \A p \in 1..Len(c) : c[p] \in ToSet(c) /\ c[p] \in Literals
    BY <2>2, ElementsOf
  <2>4. 1 \in 1..Len(c) /\ c[1] \in ToSet(c) BY <2>3
  <2>5. \A p \in 1..Len(c) : True(c[p]) \/ False(c[p])
    <3>1. SUFFICES ASSUME NEW p \in 1..Len(c) PROVE True(c[p]) \/ False(c[p])
      OBVIOUS
    <3>2. is_defined(VarOf(c[p])) BY <1>1, <2>2, <2>3 DEF Known, InUse
    <3>3. QED BY <2>3, <3>2, FalseLiterals, InvTypes
  <2>6. CASE Len(c) = 1
    <3>1. True(c[1]) BY <2>1, <2>6 DEF LoopInv, UnitsOK
    <3>2. QED BY <2>1, <2>4, <3>1
  <2>7. CASE Len(c) > 1
    <3>1. \A lit : ~Awaits(lit, id) BY DEF Awaits
    <3>2. False(c[1]) => True(c[2])
      BY <2>1, <2>7, <3>1 DEF LoopInv, FalseWatchesOK
    <3>3. 2 \in 1..Len(c) /\ c[2] \in ToSet(c) BY <2>3, <2>7
    <3>4. True(c[1]) \/ True(c[2]) BY <2>5, <2>4, <3>2
    <3>5. QED BY <2>1, <2>4, <3>3, <3>4
  <2>8. Len(c) = 1 \/ Len(c) > 1
    <3>1. PICK n \in Nat : n = Len(c) /\ n >= 1 BY <2>3
    <3>2. n = 1 \/ n > 1 BY <3>1
    <3>3. QED BY <3>1, <3>2
  <2>9. QED BY <2>6, <2>7, <2>8
<1>3. ASSUME NEW a \in created
      PROVE  is_defined(a) /\ model[a] = AtomValue(a)
  <2>1. is_defined(a) /\ \A r \in AtomScope[a] : is_defined(r)
    BY <1>1 DEF InUse
  <2>2. is_fully_assigned(a) BY <2>1 DEF is_fully_assigned, Unassigned
  <2>3. QED BY <2>1, <2>2 DEF LoopInv, AtomsOK
<1>4. QED BY <1>2, <1>3

\* The invariant when the solver answers: the trail of a sat answer is a model.
LEMMA AnswerStep ==
  ASSUME LoopInv, AnswerSat \/ AnswerUnsat
  PROVE  LoopInv'
<1>1. Steady /\ pc \in {"decide", "conflict", "learn"} /\ pc' = "done"
      /\ (pc = "conflict" => decision_level = 0)
      /\ ((verdict' = "sat" /\ pc = "decide" /\ Undecided = {}) \/ verdict' = "unsat")
      /\ UNCHANGED <<conflicts, bcpVars, phase, cursor, analysisVars, lraVars,
                     round_size, todo, choices, old_size, restarts>>
  <2>1. CASE AnswerSat BY <2>1 DEF AnswerSat, Finish, Steady, lraVars
  <2>2. CASE AnswerUnsat
    <3>1. (pc = "conflict" /\ decision_level = 0) \/ pc = "learn"
      BY <2>2 DEF AnswerUnsat
    <3>2. Finish("unsat") BY <2>2 DEF AnswerUnsat
    <3>3. QED BY <3>1, <3>2 DEF Finish, Steady, lraVars
  <2>3. QED BY <2>1, <2>2
<1>2. SolverTypeOK'
  BY <1>1, SteadyMost DEF LoopInv, SolverTypeOK, ProgramPoints, Steady, trailVars, dbVars,
     bcpVars, analysisVars, lraVars, TrailInv
<1>3. TrailInv' /\ AssignmentsOK' /\ DatabaseOK' /\ ReasonsOK' /\ WatchInv' /\ FalseWatchesOK'
  BY <1>1, SteadyMost DEF WatchesLive, bcpVars, StillAwaits, Awaits
<1>4. UnitsOK'
  BY <1>1 DEF LoopInv, UnitsOK, Steady, trailVars, dbVars, ClauseIds, Clause, True, TrueIn, LevelOf,
     decision_level
<1>5. CursorOK'
  BY <1>1 DEF LoopInv, CursorOK, Steady, trailVars, decision_level, recent
<1>6. AtomsOK' BY <1>1, SteadyAtoms DEF LoopInv, AtomsOK
<1>7. ConflictsOK' /\ LemmasOK'
  BY <1>1, SteadyClauses, Zenon DEF LoopInv, ConflictsOK, LemmasOK, analysisVars
<1>8. AnswerOK'
  <2>1. CASE verdict' = "unsat"
    BY <1>1, <2>1 DEF AnswerOK, SatModelCorrect
  <2>2. CASE verdict' = "sat" /\ pc = "decide" /\ Undecided = {}
    <3>1. /\ \A id \in ClauseIds : \E lit \in ToSet(Clause(id)) : True(lit)
          /\ \A a \in created : is_defined(a) /\ model[a] = AtomValue(a)
      BY <2>2, AllSatisfied
    <3>2. SatModelCorrect'
      BY <1>1, <3>1, ZenonT(40)
         DEF SatModelCorrect, Steady, trailVars, dbVars, ClauseIds, Clause, True, TrueIn,
         is_defined, AtomValue, Agrees
    <3>3. QED BY <1>1, <2>2, <3>2 DEF AnswerOK
  <2>3. QED BY <1>1, <2>1, <2>2
<1>9. QED BY <1>1, <1>2, <1>3, <1>4, <1>5, <1>6, <1>7, <1>8, InvTypes, Elsewhere
     DEF LoopInv

-----------------------------------------------------------------------------
(* Conflict analysis.                                                      *)

\* What the steps of the analysis leave alone.
LEMMA AnalysisFrame ==
  ASSUME LoopInv, AnalysisStep, decision_level > 0,
         pc \in {"conflict", "resolve", "minimize"},
         pc' \in {"conflict", "resolve", "minimize", "learn"}
  PROVE  /\ Steady /\ UNCHANGED <<bcpVars, phase, cursor, lraVars, loopVars>>
         /\ TrailInv' /\ AssignmentsOK' /\ DatabaseOK' /\ ReasonsOK' /\ WatchInv'
         /\ FalseWatchesOK' /\ UnitsOK' /\ CursorOK' /\ AtomsOK' /\ AnswerOK'
         /\ ExplainOK' /\ JumpOK' /\ UnitOK' /\ SplitOK' /\ StackOK'
         /\ decision_level' = decision_level
         /\ conflicts' \in ClauseLists /\ work' \subseteq Literals
            /\ top_level' \in Nat /\ position' \in Nat /\ jump_level' \in Int
            /\ minimized' \in [clause : Seq(Literals), kept : Seq(Literals), next : Nat, level : Int]
            /\ lemmas' \in ClauseLists => SolverTypeOK'
<1>1. Steady /\ UNCHANGED <<bcpVars, phase, cursor, lraVars, loopVars>>
  BY DEF AnalysisStep, AnalyzeConflicts, Steady, lraVars
<1>2. UnitsTrue BY DEF LoopInv, UnitsOK, UnitsTrue
<1>3. TrailInv' /\ AssignmentsOK' /\ DatabaseOK' /\ ReasonsOK' /\ WatchInv'
      /\ FalseWatchesOK' /\ UnitsOK' /\ decision_level' = decision_level
  BY <1>1, <1>2, SteadyMost DEF WatchesLive, bcpVars, StillAwaits, Awaits
<1>4. CursorOK'
  BY <1>1 DEF LoopInv, CursorOK, Steady, trailVars, decision_level, recent
<1>5. AtomsOK' BY <1>1, SteadyAtoms DEF LoopInv, AtomsOK
<1>6. AnswerOK' /\ ExplainOK' /\ JumpOK' /\ UnitOK' /\ SplitOK' /\ StackOK'
  BY <1>1, Elsewhere, InvTypes DEF loopVars
<1>7. conflicts' \in ClauseLists /\ work' \subseteq Literals
            /\ top_level' \in Nat /\ position' \in Nat /\ jump_level' \in Int
            /\ minimized' \in [clause : Seq(Literals), kept : Seq(Literals), next : Nat, level : Int]
            /\ lemmas' \in ClauseLists => SolverTypeOK'
  BY <1>1, <1>3, Zenon
     DEF LoopInv, SolverTypeOK, ProgramPoints, Steady, trailVars, dbVars,
     bcpVars, lraVars, loopVars, TrailInv
<1>8. QED BY <1>1, <1>3, <1>4, <1>5, <1>6, <1>7

\* The invariant when the analysis of a conflict begins.
LEMMA BeginAnalysisStep ==
  ASSUME LoopInv, AnalysisStep, BeginAnalysis
  PROVE  LoopInv'
<1> DEFINE lits == ToSet(Head(conflicts))
           top == HighestLevel(lits)
<1>1. pc = "conflict" /\ pc' = "resolve" /\ decision_level > 0
      /\ work' = lits /\ top_level' = top /\ position' = Len(assigned(top))
      /\ conflicts' = Tail(conflicts)
      /\ UNCHANGED <<minimized, lemmas, jump_level>>
  BY DEF BeginAnalysis
<1>2. conflicts \in ClauseLists /\ conflicts # << >> /\ Len(conflicts) \in Nat /\ 1 <= Len(conflicts)
  <2>1. conflicts \in Seq(Seq(Literals)) /\ conflicts # << >>
    BY <1>1 DEF LoopInv, SolverTypeOK, ConflictsOK, ClauseLists
  <2>2. QED BY <2>1 DEF ClauseLists
<1>3. PICK c \in Seq(Literals) : c = conflicts[1] /\ c = Head(conflicts) /\ AllFalse(c)
  BY <1>2 DEF ClauseLists, LoopInv, ConflictsOK
<1>4. lits \subseteq Literals /\ \A lit \in lits : False(lit)
  BY <1>3, ElementsOf DEF AllFalse
<1> HIDE DEF lits
<1>5. \A lit \in lits : LevelOf(lit) \in 0..decision_level
  BY <1>4, FalseLiterals, InvTypes
<1>6. /\ top \in {LevelOf(lit) : lit \in lits} \cup {0}
      /\ \A lit \in lits : LevelOf(lit) <= top
      /\ top \in 0..decision_level
  <2> DEFINE S == {LevelOf(lit) : lit \in lits} \cup {0}
  <2>1. decision_level \in Nat /\ S \in SUBSET (0..decision_level) /\ S # {}
    BY <1>5, InvTypes
  <2>2. \E m \in S : \A l \in S : l <= m BY <2>1, HighestExists, Zenon
  <2>3. \E m \in S : \A lit \in lits : LevelOf(lit) <= m BY <2>2, Zenon
  <2>4. top \in S /\ \A lit \in lits : LevelOf(lit) <= top
    BY <2>3, Zenon DEF HighestLevel
  <2>5. QED BY <2>1, <2>4
<1> HIDE DEF top
<1>7. Len(assigned(top)) \in Nat /\ top \in Nat
  BY <1>6, ListTypes, InvTypes
<1>8. conflicts' \in ClauseLists /\ \A k \in 1..Len(conflicts') : AllFalse(conflicts'[k])
  <2>1. /\ Tail(conflicts) \in ClauseLists /\ Len(Tail(conflicts)) = Len(conflicts) - 1
        /\ \A k \in 1..Len(Tail(conflicts)) : Tail(conflicts)[k] = conflicts[k + 1]
    BY <1>2 DEF ClauseLists
  <2>2. QED BY <1>1, <1>2, <2>1 DEF LoopInv, ConflictsOK
<1>9. Steady /\ SolverTypeOK' /\ decision_level' = decision_level
      /\ TrailInv' /\ AssignmentsOK' /\ DatabaseOK' /\ ReasonsOK' /\ WatchInv'
      /\ FalseWatchesOK' /\ UnitsOK' /\ CursorOK' /\ AtomsOK' /\ AnswerOK'
      /\ ExplainOK' /\ JumpOK' /\ UnitOK' /\ SplitOK' /\ StackOK'
  BY <1>1, <1>4, <1>7, <1>8, AnalysisFrame, Zenon DEF LoopInv, SolverTypeOK
<1>10. ConflictsOK' /\ LemmasOK'
  <2>1. ASSUME NEW k \in 1..Len(conflicts') PROVE AllFalse(conflicts[k])'
    <3>1. PICK d : d = conflicts'[k] OBVIOUS
    <3>2. AllFalse(d) BY <1>8, <2>1, <3>1
    <3>3. AllFalse(d)' BY <1>9, <3>2, SteadyClauses
    <3>4. QED BY <3>1, <3>3 DEF AllFalse
  <2>2. QED BY <1>1, <1>9, <2>1, SteadyClauses, Zenon DEF LoopInv, ConflictsOK, LemmasOK
<1>11. ResolveOK'
  <2>1. IsFiniteSet(work') BY <1>1, <1>4, FiniteLiterals
  <2>2. \A lit \in work' : False(lit)' /\ LevelOf(lit)' <= top_level'
    BY <1>1, <1>4, <1>6, <1>9, SteadyLiterals
  <2>3. top > 0 => \E lit \in work' : LevelOf(lit)' = top_level'
    BY <1>1, <1>6, <1>9, SteadyLiterals
  <2>4. assigned(top_level)' = assigned(top)
    BY <1>1, <1>9 DEF assigned, Steady, trailVars
  <2>5. QED BY <1>1, <1>6, <1>7, <1>9, <2>1, <2>2, <2>3, <2>4 DEF ResolveOK
<1>12. QED BY <1>1, <1>9, <1>10, <1>11, Elsewhere DEF LoopInv

\* The invariant under one step of reverse resolution.
LEMMA ResolveStepStep ==
  ASSUME LoopInv, AnalysisStep, ResolveStep
  PROVE  LoopInv'
<1> DEFINE entry == assigned(top_level)[position]
           v == entry.var
           lit == FalsifiedBy(entry)
           other == ToSet(Clause(entry.reason))
<1>1. pc = "resolve" /\ pc' = "resolve" /\ position > 0 /\ position' = position - 1
      /\ work' = (IF CanResolve(entry) THEN Resolvent(lit, other) ELSE work)
      /\ UNCHANGED <<conflicts, top_level, minimized, lemmas, jump_level>>
  BY DEF ResolveStep
<1>2. /\ top_level \in 0..decision_level /\ decision_level \in Nat
      /\ position \in 1..Len(assigned(top_level)) /\ Len(assigned(top_level)) \in Nat
      /\ IsFiniteSet(work) /\ work \subseteq Literals
      /\ \A x \in work : False(x) /\ LevelOf(x) <= top_level
      /\ top_level > 0 => \E x \in work : LevelOf(x) = top_level
      /\ \A k \in (position + 1)..Len(assigned(top_level)) :
           LET w == assigned(top_level)[k].var IN
           w \in BoolVars /\ var_level[w] = top_level /\ -TrueLiteralOf(w) \in work =>
             var_reason[w] = NoReason
  <2>1. top_level <= decision_level /\ top_level \in Nat /\ position \in Nat /\ decision_level \in Nat
    BY <1>1, InvTypes, Zenon DEF LoopInv, SolverTypeOK, ResolveOK
  <2>2. Len(assigned(top_level)) \in Nat BY <2>1, ListTypes, InvTypes
  <2>3. QED BY <1>1, <2>1, <2>2, SMTT(30) DEF LoopInv, SolverTypeOK, ResolveOK
<1>3. TrailInv /\ BoolValued(model) /\ decision_level > 0
  BY <1>1, InvTypes DEF LoopInv, ConflictsOK
<1>4. /\ v \in Vars /\ entry.reason = var_reason[v]
      /\ var_level[v] \in 0..top_level /\ is_defined(v)
  BY <1>2, <1>3, EntryFacts
<1> HIDE DEF entry, v, lit, other
<1>5. /\ \A x \in work' : x \in Literals /\ False(x) /\ LevelOf(x) <= top_level
      /\ top_level > 0 => \E x \in work' : LevelOf(x) = top_level
      /\ \A k \in position..Len(assigned(top_level)) :
           LET w == assigned(top_level)[k].var IN
           w \in BoolVars /\ var_level[w] = top_level /\ -TrueLiteralOf(w) \in work' =>
             var_reason[w] = NoReason
  <2>1. CASE ~CanResolve(entry)
    <3>1. work' = work BY <1>1, <2>1
    <3>2. ASSUME NEW k \in position..Len(assigned(top_level)),
                 NEW w, w = assigned(top_level)[k].var,
                 w \in BoolVars, var_level[w] = top_level, -TrueLiteralOf(w) \in work'
          PROVE  var_reason[w] = NoReason
      <4>1. CASE k = position
        <5>1. w = v /\ entry.var = v /\ FalsifiedBy(entry) = -TrueLiteralOf(v)
          BY <3>2, <4>1 DEF entry, v, FalsifiedBy
        <5>2. entry.reason = NoReason
          BY <2>1, <3>1, <3>2, <5>1 DEF CanResolve
        <5>3. QED BY <1>4, <5>1, <5>2
      <4>2. CASE k # position
        <5>1. k \in (position + 1)..Len(assigned(top_level))
          BY <1>2, <4>2
        <5>2. QED BY <1>2, <3>1, <3>2, <5>1
      <4>3. QED BY <4>1, <4>2
    <3>3. QED BY <1>2, <3>1, <3>2
  <2>2. CASE CanResolve(entry)
    <3>1. v \in BoolVars /\ var_reason[v] # NoReason /\ var_level[v] = top_level /\ lit \in work
          /\ lit = -TrueLiteralOf(v)
      BY <1>4, <2>2 DEF CanResolve, v, lit, FalsifiedBy
    <3>2. PICK c \in Seq(Literals) :
           /\ var_reason[v] \in ClauseIds /\ c = Clause(var_reason[v])
           /\ is_defined(v) /\ var_level[v] \in 0..decision_level
           /\ Len(c) >= 1 /\ Len(c) \in Nat /\ c[1] = TrueLiteralOf(v)
           /\ \A p \in 2..Len(c) :
                /\ c[p] \in Literals /\ False(c[p]) /\ LevelOf(c[p]) <= var_level[v]
                /\ VarOf(c[p]) # v
                /\ LevelOf(c[p]) = var_level[v] => ListedBefore(VarOf(c[p]), v)
           /\ var_level[v] > 0 => \E p \in 2..Len(c) : LevelOf(c[p]) = var_level[v]
      BY <3>1, ReasonFacts
    <3>3. TrueLiteralOf(v) \in Literals /\ VarOf(TrueLiteralOf(v)) = v
          /\ lit \in Literals /\ VarOf(lit) = v /\ -lit = TrueLiteralOf(v)
      BY <1>3, <3>1, TrueLiteral, LiteralTypes
    <3>4. other = ToSet(c) BY <1>4, <3>2 DEF other
    <3>5. \A x : x \in ToSet(c) <=> \E p \in 1..Len(c) : c[p] = x
      BY ElementsOf
    <3>6. \A x \in work' : x # lit /\ (x \in work \/ \E p \in 2..Len(c) : c[p] = x)
      <4>1. SUFFICES ASSUME NEW x \in work'
                     PROVE  x # lit /\ (x \in work \/ \E p \in 2..Len(c) : c[p] = x)
        OBVIOUS
      <4>2. x # lit /\ (x \in work \/ (x \in ToSet(c) /\ x # -lit))
        BY <1>1, <2>2, <3>4 DEF Resolvent
      <4>3. ASSUME NEW p \in 1..Len(c), c[p] = x, x # -lit PROVE p \in 2..Len(c)
        BY <3>2, <3>3, <4>3
      <4>4. QED BY <3>5, <4>2, <4>3
    <3>7. \A p \in 2..Len(c) : c[p] \in work'
      <4>1. SUFFICES ASSUME NEW p \in 2..Len(c) PROVE c[p] \in work'
        OBVIOUS
      <4>2. c[p] # lit /\ c[p] # -lit BY <3>2, <3>3
      <4>3. p \in 1..Len(c) BY <3>2
      <4>4. QED BY <1>1, <2>2, <3>4, <3>5, <4>2, <4>3 DEF Resolvent
    <3>8. \A x \in work' : x \in Literals /\ False(x) /\ LevelOf(x) <= top_level
      BY <1>2, <3>1, <3>2, <3>6
    <3>9. top_level > 0 => \E x \in work' : LevelOf(x) = top_level
      BY <3>1, <3>2, <3>7
    <3>10. ASSUME NEW k \in position..Len(assigned(top_level)),
                  NEW w, w = assigned(top_level)[k].var,
                  w \in BoolVars, var_level[w] = top_level, -TrueLiteralOf(w) \in work'
           PROVE  var_reason[w] = NoReason
      <4>1. k # position
        <5>1. SUFFICES ASSUME k = position PROVE FALSE OBVIOUS
        <5>2. w = v BY <3>10, <5>1 DEF v, entry
        <5>3. QED BY <3>1, <3>6, <3>10, <5>2
      <4>2. k \in (position + 1)..Len(assigned(top_level)) BY <1>2, <4>1
      <4>3. CASE -TrueLiteralOf(w) \in work BY <1>2, <3>10, <4>2, <4>3
      <4>4. ASSUME NEW p \in 2..Len(c), c[p] = -TrueLiteralOf(w) PROVE FALSE
        <5>1. VarOf(c[p]) = w
          BY <1>3, <3>10, <4>4, TrueLiteral, LiteralTypes
        <5>2. ListedBefore(w, v) BY <3>1, <3>2, <3>10, <5>1 DEF LevelOf
        <5>3. PICK j, m \in 1..Len(assigned(top_level)) :
                j < m /\ assigned(top_level)[j].var = w /\ assigned(top_level)[m].var = v
          BY <3>1, <5>2 DEF ListedBefore
        <5>4. j = k /\ m = position
          BY <1>2, <1>3, <3>10, <5>3 DEF TrailInv, ListedOnce, v, entry
        <5>5. QED BY <1>2, <4>2, <5>3, <5>4
      <4>5. QED BY <3>6, <3>10, <4>3, <4>4
    <3>11. QED BY <3>8, <3>9, <3>10
  <2>3. QED BY <2>1, <2>2
<1>6. work' \subseteq Literals /\ IsFiniteSet(work') /\ position' \in Nat
  BY <1>1, <1>2, <1>5, FiniteLiterals
<1>7. Steady /\ SolverTypeOK' /\ decision_level' = decision_level
      /\ TrailInv' /\ AssignmentsOK' /\ DatabaseOK' /\ ReasonsOK' /\ WatchInv'
      /\ FalseWatchesOK' /\ UnitsOK' /\ CursorOK' /\ AtomsOK' /\ AnswerOK'
      /\ ExplainOK' /\ JumpOK' /\ UnitOK' /\ SplitOK' /\ StackOK'
  BY <1>1, <1>3, <1>6, AnalysisFrame, Zenon DEF LoopInv, SolverTypeOK
<1>8. ConflictsOK' /\ LemmasOK'
  BY <1>1, <1>7, SteadyClauses, Zenon DEF LoopInv, ConflictsOK, LemmasOK
<1>9. ResolveOK'
  <2>1. \A x : False(x)' = False(x) /\ LevelOf(x)' = LevelOf(x)
    BY <1>7, SteadyLiterals
  <2>2. assigned(top_level)' = assigned(top_level) /\ \A w : TrueLiteralOf(w)' = TrueLiteralOf(w)
        /\ UNCHANGED <<var_level, var_reason>>
    BY <1>1, <1>7 DEF Steady, trailVars, assigned, TrueLiteralOf
  <2>3. position' + 1 = position BY <1>1, <1>2
  <2>4. QED BY <1>1, <1>2, <1>5, <1>6, <1>7, <2>1, <2>2, <2>3 DEF ResolveOK
<1>10. QED BY <1>1, <1>7, <1>8, <1>9, Elsewhere DEF LoopInv

\* False literals in the order of finish(): levels fall, and no literal repeats.
LEMMA SortedByLevel ==
  ASSUME LoopInv, NEW S \in SUBSET Literals, \A lit \in S : False(lit)
  PROVE  /\ SortedList(S, HigherLevelFirst) \in Seq(Literals)
         /\ ToSet(SortedList(S, HigherLevelFirst)) = S
         /\ Len(SortedList(S, HigherLevelFirst)) = Cardinality(S)
         /\ Sorted(SortedList(S, HigherLevelFirst))
<1> DEFINE ranking == {pair \in S \X S : HigherLevelFirst(pair[1], pair[2])}
           list == Ranked(S, ranking)
<1>1. IsFiniteSet(S) BY FiniteLiterals
<1>2. \A x, y \in S : <<x, y>> \in ranking <=> HigherLevelFirst(x, y)
  OBVIOUS
<1>3. SortedList(S, HigherLevelFirst) = list BY DEF SortedList
<1> HIDE DEF ranking
<1>4. \A x \in S : LevelOf(x) \in Int /\ VarOf(x) \in Int
  BY FalseLiterals, InvTypes, LiteralTypes
<1>5. \A x \in S : <<x, x>> \notin ranking
  BY <1>2, <1>4 DEF HigherLevelFirst
<1>6. \A x, y, z \in S : <<x, y>> \in ranking /\ <<y, z>> \in ranking => <<x, z>> \in ranking
  BY <1>2, <1>4 DEF HigherLevelFirst
<1>7. ASSUME NEW x \in S, NEW y \in S, x # y
      PROVE  <<x, y>> \in ranking \/ <<y, x>> \in ranking
  <2>1. VarOf(x) # VarOf(y)
    <3>1. SUFFICES ASSUME VarOf(x) = VarOf(y) PROVE FALSE OBVIOUS
    <3>2. x = -y /\ x \in Literals /\ y \in Literals
      BY <1>7, <3>1, SameVariable
    <3>3. False(y) /\ False(-y) /\ ~(True(y) /\ False(y)) /\ (False(-y) <=> True(y))
      BY <3>2, FalseLiterals, InvTypes
    <3>4. QED BY <3>3
  <2>2. HigherLevelFirst(x, y) \/ HigherLevelFirst(y, x)
    BY <1>4, <2>1 DEF HigherLevelFirst
  <2>3. QED BY <1>2, <2>2
<1>8. /\ list \in Seq(S) /\ Len(list) = Cardinality(S)
      /\ \A x \in S : \E k \in 1..Len(list) : list[k] = x
      /\ \A i, j \in 1..Len(list) : i < j => <<list[i], list[j]>> \in ranking
  BY <1>1, <1>5, <1>6, <1>7, RankedSorts
<1> HIDE DEF list
<1>9. list \in Seq(Literals) /\ \A k \in 1..Len(list) : list[k] \in S
  BY <1>8
<1>10. ToSet(list) = S
  <2>1. \A x : x \in ToSet(list) <=> \E k \in 1..Len(list) : list[k] = x
    BY <1>9, ElementsOf
  <2>2. \A x : x \in ToSet(list) <=> x \in S BY <1>8, <1>9, <2>1
  <2>3. QED BY <2>2
<1>11. Sorted(list) BY <1>2, <1>8, <1>9, Zenon DEF Sorted
<1>12. QED BY <1>3, <1>8, <1>9, <1>10, <1>11

\* What Sorted says of a clause of false literals.
LEMMA SortedFacts ==
  ASSUME LoopInv, NEW c \in Seq(Literals), AllFalse(c), Sorted(c)
  PROVE  /\ Len(c) \in Nat
         /\ \A p \in 1..Len(c) :
              /\ c[p] \in Literals /\ False(c[p]) /\ LevelOf(c[p]) \in 0..decision_level
              /\ VarOf(c[p]) \in BoolVars /\ VarOf(c[p]) \in Vars /\ is_defined(VarOf(c[p]))
         /\ \A p, q \in 1..Len(c) :
              /\ p <= q => LevelOf(c[p]) >= LevelOf(c[q])
              /\ c[p] = c[q] => p = q
              /\ VarOf(c[p]) = VarOf(c[q]) => c[p] = c[q]
<1>1. Len(c) \in Nat /\ \A p \in 1..Len(c) : c[p] \in Literals /\ False(c[p])
  BY DEF AllFalse
<1>2. ASSUME NEW p \in 1..Len(c)
      PROVE  /\ LevelOf(c[p]) \in 0..decision_level /\ VarOf(c[p]) \in Int
             /\ VarOf(c[p]) \in BoolVars /\ VarOf(c[p]) \in Vars /\ is_defined(VarOf(c[p]))
  BY <1>1, FalseLiterals, InvTypes, LiteralTypes, Zenon
<1>3. ASSUME NEW p \in 1..Len(c), NEW q \in 1..Len(c), p < q
      PROVE  LevelOf(c[p]) >= LevelOf(c[q]) /\ c[p] # c[q]
  <2>1. HigherLevelFirst(c[p], c[q]) BY <1>3 DEF Sorted
  <2>2. LevelOf(c[p]) \in Int /\ LevelOf(c[q]) \in Int /\ VarOf(c[p]) \in Int /\ VarOf(c[q]) \in Int
    BY <1>2
  <2>3. QED BY <2>1, <2>2 DEF HigherLevelFirst
<1>4. ASSUME NEW p \in 1..Len(c), NEW q \in 1..Len(c), VarOf(c[p]) = VarOf(c[q])
      PROVE  c[p] = c[q]
  <2>1. PICK x \in Literals : x = c[p] /\ False(x) BY <1>1
  <2>2. PICK y \in Literals : y = c[q] /\ False(y) BY <1>1
  <2>3. ~False(-y) BY <2>2, FalseLiterals, InvTypes
  <2>4. x = y BY <1>4, <2>1, <2>2, <2>3, SameVariable
  <2>5. QED BY <2>1, <2>2, <2>4
<1>5. ASSUME NEW p \in 1..Len(c), NEW q \in 1..Len(c)
      PROVE  /\ p <= q => LevelOf(c[p]) >= LevelOf(c[q])
             /\ c[p] = c[q] => p = q
  BY <1>2, <1>3
<1>6. QED BY <1>1, <1>2, <1>4, <1>5

\* Once every entry of the level was looked at, its literals have no reason.
LEMMA ResolvedLevel ==
  ASSUME LoopInv, pc = "resolve", position = 0, NEW lit \in work, LevelOf(lit) = top_level
  PROVE  /\ var_reason[VarOf(lit)] = NoReason /\ top_level > 0
         /\ assigned(top_level)[1].var \in {VarOf(lit)} \cup RealVars
<1> DEFINE v == VarOf(lit)
<1>1. lit \in Literals /\ False(lit) /\ TrailInv /\ BoolValued(model) /\ position + 1 = 1
  BY InvTypes DEF LoopInv, SolverTypeOK, ResolveOK
<1>2. v \in BoolVars /\ v \in Vars /\ -TrueLiteralOf(v) = lit /\ is_defined(v)
  BY <1>1, LiteralTypes, TrueLiteralOfFalse, FalseLiterals
<1>3. PICK k \in 1..Len(assigned(var_level[v])) : assigned(var_level[v])[k].var = v
  BY <1>1, <1>2, OwnPosition
<1>4. var_level[v] = top_level BY DEF LevelOf
<1>5. k \in (position + 1)..Len(assigned(top_level)) /\ assigned(top_level)[k].var = v
  BY <1>1, <1>3, <1>4
<1>6. var_reason[v] = NoReason
  BY <1>2, <1>4, <1>5 DEF LoopInv, ResolveOK
<1>7. var_level[v] > 0 /\ assigned(var_level[v])[1].var \in {v} \cup RealVars
  BY <1>2, <1>6 DEF LoopInv, AssignmentsOK
<1>8. QED BY <1>4, <1>6, <1>7

\* The result of the analysis splits or propagates.
LEMMA AnalysisResult ==
  ASSUME LoopInv, pc = "resolve", CanBacktrack \/ position = 0,
         NEW c \in Seq(Literals), ToSet(c) = work, Len(c) = Cardinality(work), Sorted(c)
  PROVE  LemmaOK(c, BacktrackLevel(c))
<1>1. /\ \A x \in work : x \in Literals /\ False(x) /\ LevelOf(x) <= top_level
      /\ top_level > 0 => \E x \in work : LevelOf(x) = top_level
      /\ top_level \in Nat /\ IsFiniteSet(work)
  BY Zenon DEF LoopInv, SolverTypeOK, ResolveOK
<1>2. \A x : x \in work <=> \E p \in 1..Len(c) : c[p] = x BY ElementsOf
<1>3. AllFalse(c) BY <1>1, <1>2 DEF AllFalse
<1>4. /\ Len(c) \in Nat
      /\ \A p \in 1..Len(c) :
           /\ c[p] \in Literals /\ False(c[p]) /\ LevelOf(c[p]) \in 0..decision_level
           /\ VarOf(c[p]) \in BoolVars /\ VarOf(c[p]) \in Vars /\ is_defined(VarOf(c[p]))
      /\ \A p, q \in 1..Len(c) :
           /\ p <= q => LevelOf(c[p]) >= LevelOf(c[q])
           /\ c[p] = c[q] => p = q
           /\ VarOf(c[p]) = VarOf(c[q]) => c[p] = c[q]
  BY <1>3, SortedFacts, Zenon
<1> DEFINE TopOnes == TopLiterals(work)
<1>5. TopOnes \subseteq work /\ IsFiniteSet(TopOnes)
  <2>1. TopOnes \subseteq work BY DEF TopLiterals
  <2>2. QED BY <1>1, <2>1, FS_Subset
<1>6. NumTopLevel = Cardinality(TopOnes) /\ NumTopLevel \in Nat
      /\ \A x : x \in TopOnes <=> x \in work /\ LevelOf(x) = top_level
  BY <1>5, FS_CardinalityType DEF NumTopLevel, TopLiterals
<1> HIDE DEF TopOnes
<1>7. CASE c = << >> BY <1>3, <1>7 DEF LemmaOK, BacktrackLevel
<1>8. c # << >> => /\ Len(c) >= 1 /\ c[1] \in work
                   /\ LevelOf(c[1]) = top_level /\ top_level > 0
  <2>1. SUFFICES ASSUME c # << >> PROVE Len(c) >= 1 /\ c[1] \in work
                   /\ LevelOf(c[1]) = top_level /\ top_level > 0
    OBVIOUS
  <2>2. Len(c) >= 1 BY <2>1, <1>4
  <2>3. 1 \in 1..Len(c) BY <1>4, <2>2
  <2>4. c[1] \in work BY <1>2, <2>3
  <2>5. CASE top_level > 0
    <3>1. PICK p \in 1..Len(c) : LevelOf(c[p]) = top_level
      BY <1>1, <1>2, <2>5
    <3>2. LevelOf(c[1]) >= top_level /\ LevelOf(c[1]) <= top_level
      BY <1>1, <1>4, <2>3, <2>4, <3>1
    <3>3. LevelOf(c[1]) \in Int BY <1>4, <2>3
    <3>4. QED BY <1>1, <2>2, <2>4, <2>5, <3>2, <3>3
  <2>6. CASE top_level = 0
    <3>1. \A x \in work : LevelOf(x) = 0
      <4>1. SUFFICES ASSUME NEW x \in work PROVE LevelOf(x) = 0 OBVIOUS
      <4>2. PICK p \in 1..Len(c) : c[p] = x BY <1>2
      <4>3. LevelOf(x) \in 0..decision_level /\ LevelOf(x) <= 0
        BY <1>1, <1>4, <2>6, <4>2
      <4>4. QED BY <4>3
    <3>2. TopOnes = work BY <1>6, <2>6, <3>1, Zenon
    <3>3. position = 0 BY <1>6, <3>2 DEF CanBacktrack
    <3>4. top_level > 0 BY <2>4, <2>6, <3>1, <3>3, ResolvedLevel
    <3>5. QED BY <2>6, <3>4
  <2>7. QED BY <1>1, <2>5, <2>6
<1>9. CASE c # << >> /\ NumTopLevel >= 2
  <2>1. position = 0 BY <1>9 DEF CanBacktrack
  <2>2. BacktrackLevel(c) = top_level - 1 BY <1>9 DEF BacktrackLevel
  <2>3. \E x \in TopOnes : x # c[1]
    <3>1. SUFFICES ASSUME \A x \in TopOnes : x = c[1] PROVE FALSE
      OBVIOUS
    <3>2. TopOnes = {c[1]} BY <1>6, <1>8, <1>9, <3>1
    <3>3. Cardinality(TopOnes) = 1 BY <3>2, FS_Singleton, Zenon
    <3>4. QED BY <1>6, <1>9, <3>3
  <2>4. PICK x \in work : LevelOf(x) = top_level /\ x # c[1]
    BY <1>6, <2>3
  <2>5. PICK q \in 1..Len(c) : c[q] = x BY <1>2
  <2>6. q # 1 /\ 2 \in 1..Len(c) /\ 1 \in 1..Len(c) /\ 2 <= q /\ Len(c) >= 2
    BY <1>4, <1>8, <1>9, <2>4, <2>5
  <2>7. LevelOf(c[2]) = top_level
    <3>1. LevelOf(c[2]) >= top_level /\ LevelOf(c[2]) \in Int
      BY <1>4, <2>4, <2>5, <2>6
    <3>2. LevelOf(c[2]) <= top_level BY <1>1, <1>2, <2>6
    <3>3. QED BY <1>1, <3>1, <3>2
  <2>8. \A p \in 1..Len(c) : LevelOf(c[p]) = top_level => var_reason[VarOf(c[p])] = NoReason
    BY <1>2, <2>1, ResolvedLevel
  <2>9. assigned(top_level)[1].var \in RealVars
    <3>1. c[2] \in work /\ c[1] \in work /\ c[1] # c[2]
      BY <1>2, <1>4, <2>6
    <3>2. VarOf(c[1]) # VarOf(c[2]) /\ VarOf(c[1]) \in BoolVars /\ VarOf(c[2]) \in BoolVars
      BY <1>4, <2>6, <3>1
    <3>3. /\ assigned(top_level)[1].var \in {VarOf(c[1])} \cup RealVars
          /\ assigned(top_level)[1].var \in {VarOf(c[2])} \cup RealVars
      BY <1>8, <1>9, <2>1, <2>7, <3>1, ResolvedLevel
    <3>4. QED BY <3>2, <3>3
  <2>10. top_level - 1 >= 0 /\ (top_level - 1) + 1 = top_level
    BY <1>1, <1>8, <1>9
  <2>11. IsSplit(c, top_level - 1)
    BY <1>8, <1>9, <2>6, <2>7, <2>8, <2>9, <2>10 DEF IsSplit
  <2>12. QED BY <1>3, <2>2, <2>11 DEF LemmaOK
<1>10. CASE c # << >> /\ ~(NumTopLevel >= 2)
  <2>1. \A p \in 2..Len(c) : LevelOf(c[p]) < top_level
    <3>1. SUFFICES ASSUME NEW p \in 2..Len(c), ~(LevelOf(c[p]) < top_level) PROVE FALSE
      OBVIOUS
    <3>2. p \in 1..Len(c) /\ 1 \in 1..Len(c) /\ p # 1
      BY <1>4, <1>8, <1>10
    <3>3. c[p] \in work /\ c[p] # c[1] /\ LevelOf(c[p]) \in Int
      BY <1>2, <1>4, <3>2
    <3>4. LevelOf(c[p]) = top_level BY <1>1, <3>1, <3>3
    <3>5. {c[1], c[p]} \subseteq TopOnes /\ Cardinality({c[1], c[p]}) = 2 /\ IsFiniteSet({c[1], c[p]})
      <4>1. {c[1]} \cup {c[p]} = {c[1], c[p]} /\ c[p] \notin {c[1]}
        BY <3>3
      <4>2. IsFiniteSet({c[1]}) /\ Cardinality({c[1]}) = 1
        BY FS_Singleton, Zenon
      <4>3. IsFiniteSet({c[1]} \cup {c[p]}) /\ Cardinality({c[1]} \cup {c[p]}) = 1 + 1
        BY <4>1, <4>2, FS_AddElement, Zenon
      <4>4. c[1] \in TopOnes /\ c[p] \in TopOnes
        BY <1>6, <1>8, <1>10, <3>3, <3>4
      <4>5. 1 + 1 = 2 OBVIOUS
      <4>6. QED BY <4>1, <4>3, <4>4, <4>5, Zenon
    <3>6. 2 <= Cardinality(TopOnes) BY <1>5, <3>5, FS_Subset
    <3>7. QED BY <1>6, <1>10, <3>6
  <2>2. CASE Len(c) = 1
    <3>1. BacktrackLevel(c) = 0 BY <1>10, <2>2 DEF BacktrackLevel
    <3>2. IsUip(c, 0) BY <1>8, <1>10, <2>2 DEF IsUip
    <3>3. QED BY <1>3, <3>1, <3>2 DEF LemmaOK
  <2>3. CASE Len(c) # 1
    <3>1. 2 \in 1..Len(c) /\ 2 \in 2..Len(c) BY <1>4, <1>8, <1>10, <2>3
    <3>2. BacktrackLevel(c) = LevelOf(c[2])
      BY <1>10, <2>3 DEF BacktrackLevel
    <3>3. LevelOf(c[2]) \in Nat /\ LevelOf(c[2]) < top_level
      BY <1>4, <2>1, <3>1
    <3>4. \A p \in 2..Len(c) : LevelOf(c[p]) <= LevelOf(c[2])
      BY <1>4, <3>1
    <3>5. IsUip(c, LevelOf(c[2]))
      BY <1>1, <1>8, <1>10, <2>3, <3>1, <3>3, <3>4 DEF IsUip
    <3>6. QED BY <1>3, <3>2, <3>5 DEF LemmaOK
  <2>4. QED BY <2>2, <2>3
<1>11. QED BY <1>7, <1>9, <1>10

\* The invariant when resolution ends: its literals, sorted, make a clause that
\* propagates or splits.
LEMMA FinishAnalysisStep ==
  ASSUME LoopInv, AnalysisStep, FinishAnalysis
  PROVE  LoopInv'
<1>1. pc = "resolve" /\ pc' = "minimize" /\ (CanBacktrack \/ position = 0)
      /\ UNCHANGED <<conflicts, work, top_level, position, lemmas, jump_level>>
  BY DEF FinishAnalysis
<1>2. work \in SUBSET Literals /\ \A x \in work : False(x)
  BY <1>1, Zenon DEF LoopInv, SolverTypeOK, ResolveOK
<1>3. PICK c \in Seq(Literals) :
        /\ c = SortedList(work, HigherLevelFirst)
        /\ ToSet(c) = work /\ Len(c) = Cardinality(work) /\ Sorted(c)
  BY <1>2, SortedByLevel
<1>4. PICK level : level = BacktrackLevel(c) OBVIOUS
<1>5. minimized' = [clause |-> c, kept |-> << >>, next |-> 1, level |-> level]
  BY <1>3, <1>4 DEF FinishAnalysis
<1>6. LemmaOK(c, level) BY <1>1, <1>3, <1>4, AnalysisResult
<1>7. level \in Int /\ Len(c) \in Nat
  <2>1. AllFalse(c) BY <1>6 DEF LemmaOK
  <2>2. Len(c) \in Nat /\ \A p \in 1..Len(c) : LevelOf(c[p]) \in 0..decision_level
    BY <1>3, <2>1, SortedFacts
  <2>3. top_level \in Nat BY DEF LoopInv, SolverTypeOK
  <2>4. Len(c) # 1 /\ c # << >> => 2 \in 1..Len(c) BY <1>3
  <2>5. Len(c) # 1 /\ c # << >> => LevelOf(c[2]) \in 0..decision_level
    BY <2>2, <2>4
  <2>6. QED BY <1>4, <2>2, <2>3, <2>5 DEF BacktrackLevel
<1>8. minimized' \in [clause : Seq(Literals), kept : Seq(Literals), next : Nat, level : Int]
  BY <1>3, <1>5, <1>7
<1>9. Steady /\ SolverTypeOK' /\ decision_level' = decision_level
      /\ TrailInv' /\ AssignmentsOK' /\ DatabaseOK' /\ ReasonsOK' /\ WatchInv'
      /\ FalseWatchesOK' /\ UnitsOK' /\ CursorOK' /\ AtomsOK' /\ AnswerOK'
      /\ ExplainOK' /\ JumpOK' /\ UnitOK' /\ SplitOK' /\ StackOK'
  BY <1>1, <1>8, AnalysisFrame, Zenon DEF LoopInv, SolverTypeOK, ConflictsOK
<1>10. ConflictsOK' /\ LemmasOK'
  BY <1>1, <1>9, SteadyClauses, Zenon DEF LoopInv, ConflictsOK, LemmasOK
<1>11. MinimizeOK'
  <2>1. LemmaOK(c, level)' BY <1>6, <1>9, SteadyClauses, Zenon
  <2>2. Sorted(c)'
    BY <1>3, <1>9, ZenonT(40) DEF Sorted, HigherLevelFirst, LevelOf, Steady, trailVars
  <2>3. minimized'.clause = c /\ minimized'.kept = << >> /\ minimized'.next = 1
        /\ minimized'.level = level
    BY <1>5
  <2>4. LemmaOK(minimized.clause, minimized.level)'
    BY <2>1, <2>3 DEF LemmaOK, IsSplit, IsUip, AllFalse
  <2>5. Sorted(minimized.clause)' /\ Sorted(minimized.kept)'
    BY <2>2, <2>3 DEF Sorted
  <2>6. (\A lit \in work : False(lit))'
    BY <1>1, <1>2, <1>9 DEF False, FalseIn, Steady, trailVars
  <2>7. QED BY <1>7, <2>3, <2>4, <2>5, <2>6 DEF MinimizeOK
<1>12. QED BY <1>1, <1>9, <1>10, <1>11, Elsewhere DEF LoopInv

\* The literals of the clause being minimised, kept or not yet looked at.
LEMMA MinimizeFacts ==
  ASSUME LoopInv, pc = "minimize"
  PROVE  /\ minimized.clause \in Seq(Literals) /\ minimized.kept \in Seq(Literals)
         /\ minimized.level \in Int
         /\ minimized.next \in 1..(Len(minimized.clause) + 1)
         /\ Len(minimized.clause) \in Nat /\ Len(minimized.kept) \in Nat
         /\ Len(minimized.kept) < minimized.next
         /\ LemmaOK(minimized.clause, minimized.level) /\ AllFalse(minimized.clause)
         /\ Sorted(minimized.clause) /\ Sorted(minimized.kept)
         /\ \A k \in 1..Len(minimized.kept) :
              \E p \in 1..(minimized.next - 1) : minimized.kept[k] = minimized.clause[p]
         /\ \A p \in 1..(minimized.next - 1) :
              var_reason[VarOf(minimized.clause[p])] = NoReason \/ FirstOfLevel(minimized.clause, p) =>
                \E k \in 1..Len(minimized.kept) : minimized.kept[k] = minimized.clause[p]
         /\ AllFalse(minimized.kept)
         /\ ToSet(Contents) \subseteq ToSet(minimized.clause)
<1> DEFINE c == minimized.clause
           kept == minimized.kept
           next == minimized.next
<1>1. c \in Seq(Literals) /\ kept \in Seq(Literals) /\ next \in Nat /\ minimized.level \in Int
  BY DEF LoopInv, SolverTypeOK
<1>2. /\ Sorted(c) /\ LemmaOK(c, minimized.level)
      /\ next \in 1..(Len(c) + 1) /\ Len(kept) < next /\ Sorted(kept)
      /\ \A k \in 1..Len(kept) : \E p \in 1..(next - 1) : kept[k] = c[p]
      /\ \A p \in 1..(next - 1) :
           var_reason[VarOf(c[p])] = NoReason \/ FirstOfLevel(c, p) =>
             \E k \in 1..Len(kept) : kept[k] = c[p]
  BY DEF LoopInv, MinimizeOK
<1> HIDE DEF c, kept, next
<1>3. AllFalse(c) BY <1>2 DEF LemmaOK
<1>4. Len(c) \in Nat /\ Len(kept) \in Nat BY <1>1
<1>5. \A k \in 1..Len(kept) : \E p \in 1..Len(c) : kept[k] = c[p]
  <2>1. SUFFICES ASSUME NEW k \in 1..Len(kept) PROVE \E p \in 1..Len(c) : kept[k] = c[p]
    OBVIOUS
  <2>2. PICK p \in 1..(next - 1) : kept[k] = c[p] BY <1>2
  <2>3. p \in 1..Len(c) BY <1>1, <1>2, <1>4
  <2>4. QED BY <2>2, <2>3
<1>6. AllFalse(kept) BY <1>3, <1>5 DEF AllFalse
<1>7. ToSet(Contents) \subseteq ToSet(c)
  <2> DEFINE rest == SubSeq(c, Len(kept) + 1, Len(c))
  <2>1. rest \in Seq(Literals) /\ \A k \in 1..Len(rest) : \E p \in 1..Len(c) : rest[k] = c[p]
    BY <1>1, <1>4
  <2>2. Contents = kept \o rest BY DEF Contents, kept, c
  <2> HIDE DEF rest
  <2>3. kept \o rest \in Seq(Literals) BY <1>1, <2>1
  <2>4. \A x : x \in ToSet(kept \o rest) => \E k \in 1..Len(kept \o rest) : (kept \o rest)[k] = x
    BY <2>3, ElementsOf, Zenon
  <2>5. \A k \in 1..Len(kept \o rest) : \E p \in 1..Len(c) : (kept \o rest)[k] = c[p]
    <3>1. SUFFICES ASSUME NEW k \in 1..Len(kept \o rest)
                   PROVE  \E p \in 1..Len(c) : (kept \o rest)[k] = c[p]
      OBVIOUS
    <3>2. CASE k <= Len(kept) BY <1>1, <1>4, <1>5, <2>1, <3>2
    <3>3. CASE ~(k <= Len(kept))
      <4>1. (kept \o rest)[k] = rest[k - Len(kept)] /\ k - Len(kept) \in 1..Len(rest)
        BY <1>1, <1>4, <2>1, <3>3
      <4>2. QED BY <2>1, <4>1
    <3>4. QED BY <3>2, <3>3
  <2>6. \A x : x \in ToSet(c) <=> \E p \in 1..Len(c) : c[p] = x
    BY <1>1, ElementsOf
  <2>7. QED BY <2>2, <2>4, <2>5, <2>6
<1>8. QED BY <1>1, <1>2, <1>3, <1>4, <1>6, <1>7, Zenon DEF c, kept, next

\* The first literal of its level to become false is not redundant: its reason
\* has an earlier one of that level.
LEMMA FirstStays ==
  ASSUME LoopInv, pc = "minimize", NEW p \in 1..Len(minimized.clause),
         FirstOfLevel(minimized.clause, p)
  PROVE  ~Redundant(minimized.clause[p])
<1> DEFINE c == minimized.clause
           lit == c[p]
           v == VarOf(lit)
<1>1. SUFFICES ASSUME Redundant(lit) PROVE FALSE OBVIOUS
<1>2. c \in Seq(Literals) /\ AllFalse(c) /\ Sorted(c) /\ ToSet(Contents) \subseteq ToSet(c)
  BY MinimizeFacts
<1>3. /\ LevelOf(lit) > 0
      /\ \A q \in 1..Len(c) :
           q # p /\ LevelOf(c[q]) = LevelOf(lit) => ListedBefore(v, VarOf(c[q]))
  BY DEF FirstOfLevel
<1> HIDE DEF c
<1>4. /\ lit \in Literals /\ False(lit) /\ v \in BoolVars /\ v \in Vars /\ is_defined(v)
      /\ \A q \in 1..Len(c) : /\ c[q] \in Literals /\ False(c[q])
                              /\ VarOf(c[q]) \in Vars /\ is_defined(VarOf(c[q]))
  BY <1>2, SortedFacts DEF c
<1>5. TrailInv /\ BoolValued(model) /\ p \in 1..Len(c) BY InvTypes DEF c
<1>6. var_reason[v] # NoReason
      /\ ToSet(Clause(var_reason[v])) \subseteq ToSet(Contents) \cup {-lit}
  BY <1>1 DEF Redundant
<1>7. PICK d \in Seq(Literals) :
           /\ d = Clause(var_reason[v])
           /\ Len(d) \in Nat
           /\ \A q \in 2..Len(d) :
                /\ d[q] \in Literals /\ False(d[q])
                /\ VarOf(d[q]) # v
                /\ LevelOf(d[q]) = var_level[v] => ListedBefore(VarOf(d[q]), v)
           /\ var_level[v] > 0 => \E q \in 2..Len(d) : LevelOf(d[q]) = var_level[v]
  BY <1>4, <1>6, ReasonFacts
<1>8. PICK q \in 2..Len(d) : LevelOf(d[q]) = LevelOf(lit)
  BY <1>3, <1>7 DEF LevelOf
<1>9. d[q] \in Literals /\ False(d[q]) /\ VarOf(d[q]) # v /\ ListedBefore(VarOf(d[q]), v)
  BY <1>7, <1>8 DEF LevelOf
<1>10. d[q] \in ToSet(d)
  <2>1. q \in 1..Len(d) BY <1>7
  <2>2. QED BY <2>1, ElementsOf
<1>11. d[q] # -lit BY <1>4, <1>9, LiteralTypes
<1>12. d[q] \in ToSet(c) BY <1>2, <1>6, <1>7, <1>10, <1>11
<1>13. PICK r \in 1..Len(c) : c[r] = d[q] BY <1>2, <1>12, ElementsOf
<1>14. r # p BY <1>9, <1>13
<1>15. ListedBefore(v, VarOf(d[q])) BY <1>3, <1>8, <1>13, <1>14
<1>16. var_level[v] = var_level[VarOf(d[q])] BY <1>8 DEF LevelOf
<1>17. VarOf(d[q]) \in Vars /\ is_defined(VarOf(d[q])) BY <1>4, <1>13
<1>18. QED BY <1>4, <1>5, <1>9, <1>15, <1>16, <1>17, BeforeIsOrder

\* The invariant under one step of minimisation.
LEMMA MinimizeStepStep ==
  ASSUME LoopInv, AnalysisStep, MinimizeStep
  PROVE  LoopInv'
<1>1. PICK c, kept, next, level :
        c = minimized.clause /\ kept = minimized.kept /\ next = minimized.next
        /\ level = minimized.level
  OBVIOUS
<1>2. pc = "minimize" /\ pc' = "minimize" /\ next <= Len(c)
      /\ UNCHANGED <<conflicts, work, top_level, position, lemmas, jump_level>>
      /\ minimized' = [minimized EXCEPT
           !.kept = IF Redundant(c[next]) THEN @ ELSE Append(@, c[next]),
           !.next = @ + 1]
  BY <1>1 DEF MinimizeStep
<1>3. /\ c \in Seq(Literals) /\ kept \in Seq(Literals) /\ level \in Int
      /\ next \in 1..(Len(c) + 1) /\ Len(c) \in Nat /\ Len(kept) \in Nat
      /\ Len(kept) < next /\ LemmaOK(c, level) /\ AllFalse(c) /\ Sorted(c) /\ Sorted(kept)
      /\ \A k \in 1..Len(kept) : \E p \in 1..(next - 1) : kept[k] = c[p]
      /\ \A p \in 1..(next - 1) :
           var_reason[VarOf(c[p])] = NoReason \/ FirstOfLevel(c, p) =>
             \E k \in 1..Len(kept) : kept[k] = c[p]
  BY <1>1, <1>2, MinimizeFacts
<1>4. next \in 1..Len(c) /\ next \in Nat /\ c[next] \in Literals
  BY <1>2, <1>3
<1>5. PICK longer : longer = IF Redundant(c[next]) THEN kept ELSE Append(kept, c[next])
  BY Zenon
<1>6. /\ longer \in Seq(Literals) /\ Len(longer) \in Nat /\ Len(longer) < next + 1
      /\ \A k \in 1..Len(longer) :
           (k <= Len(kept) /\ longer[k] = kept[k]) \/ (k = Len(kept) + 1 /\ longer[k] = c[next])
      /\ Len(longer) >= Len(kept)
      /\ ~Redundant(c[next]) => Len(longer) = Len(kept) + 1
  BY <1>3, <1>4, <1>5
<1>7. /\ minimized'.clause = c /\ minimized'.level = level
      /\ minimized'.kept = longer /\ minimized'.next = next + 1
      /\ minimized' \in [clause : Seq(Literals), kept : Seq(Literals), next : Nat, level : Int]
  <2>1. minimized \in [clause : Seq(Literals), kept : Seq(Literals), next : Nat, level : Int]
    BY DEF LoopInv, SolverTypeOK
  <2>2. minimized' = [minimized EXCEPT !.kept = longer, !.next = next + 1]
    <3>1. CASE Redundant(c[next]) BY <1>1, <1>2, <1>5, <2>1, <3>1
    <3>2. CASE ~Redundant(c[next]) BY <1>1, <1>2, <1>5, <2>1, <3>2
    <3>3. QED BY <3>1, <3>2
  <2>3. next + 1 \in Nat BY <1>4
  <2>4. QED BY <1>1, <1>6, <2>1, <2>2, <2>3, Zenon
<1>8. \A k \in 1..Len(longer) : \E p \in 1..next : longer[k] = c[p]
  <2>1. SUFFICES ASSUME NEW k \in 1..Len(longer) PROVE \E p \in 1..next : longer[k] = c[p]
    OBVIOUS
  <2>2. CASE k <= Len(kept) /\ longer[k] = kept[k]
    <3>1. k \in 1..Len(kept) BY <1>3, <1>6, <2>2
    <3>2. PICK p \in 1..(next - 1) : kept[k] = c[p] BY <1>3, <3>1
    <3>3. p \in 1..next BY <1>4
    <3>4. QED BY <2>2, <3>2, <3>3
  <2>3. CASE longer[k] = c[next] BY <1>4, <2>3
  <2>4. QED BY <1>6, <2>2, <2>3
<1>9. Sorted(longer)
  <2>1. SUFFICES ASSUME NEW i \in 1..Len(longer), NEW j \in 1..Len(longer), i < j
                 PROVE  HigherLevelFirst(longer[i], longer[j])
    BY DEF Sorted
  <2>2. i <= Len(kept) /\ longer[i] = kept[i] /\ i \in 1..Len(kept)
    <3>1. Len(kept) \in Nat /\ Len(longer) \in Nat BY <1>3, <1>6, Zenon
    <3>2. (i <= Len(kept) /\ longer[i] = kept[i]) \/ i = Len(kept) + 1
      BY <1>6, Zenon
    <3>3. j <= Len(kept) \/ j = Len(kept) + 1 BY <1>6, Zenon
    <3>4. QED BY <2>1, <3>1, <3>2, <3>3
  <2>3. CASE j <= Len(kept) /\ longer[j] = kept[j]
    <3>1. j \in 1..Len(kept) BY <1>3, <2>3
    <3>2. HigherLevelFirst(kept[i], kept[j])
      BY <1>3, <2>1, <2>2, <3>1 DEF Sorted
    <3>3. QED BY <2>2, <2>3, <3>2
  <2>4. CASE longer[j] = c[next]
    <3>1. PICK p \in 1..(next - 1) : kept[i] = c[p] BY <1>3, <2>2, Zenon
    <3>2. p \in 1..Len(c) /\ p < next BY <1>3, <1>4
    <3>3. HigherLevelFirst(c[p], c[next]) BY <1>3, <1>4, <3>2 DEF Sorted
    <3>4. QED BY <2>2, <2>4, <3>1, <3>3
  <2>5. QED BY <1>6, <2>3, <2>4
<1>10. ASSUME NEW p \in 1..next,
              var_reason[VarOf(c[p])] = NoReason \/ FirstOfLevel(c, p)
       PROVE  \E k \in 1..Len(longer) : longer[k] = c[p]
  <2>1. CASE p = next
    <3>1. ~Redundant(c[next])
      BY <1>1, <1>2, <1>4, <1>10, <2>1, FirstStays DEF Redundant
    <3>2. longer = Append(kept, c[next]) BY <1>5, <3>1
    <3>3. Len(kept) + 1 \in 1..Len(longer) /\ longer[Len(kept) + 1] = c[next]
      BY <1>3, <1>4, <3>2
    <3>4. QED BY <2>1, <3>3
  <2>2. CASE p # next
    <3>1. p \in 1..(next - 1) BY <1>4, <2>2
    <3>2. PICK k \in 1..Len(kept) : kept[k] = c[p] BY <1>3, <1>10, <3>1
    <3>3. k \in 1..Len(longer) /\ longer[k] = kept[k] BY <1>3, <1>6
    <3>4. QED BY <3>2, <3>3
  <2>3. QED BY <2>1, <2>2
<1>11. Steady /\ SolverTypeOK' /\ decision_level' = decision_level
      /\ TrailInv' /\ AssignmentsOK' /\ DatabaseOK' /\ ReasonsOK' /\ WatchInv'
      /\ FalseWatchesOK' /\ UnitsOK' /\ CursorOK' /\ AtomsOK' /\ AnswerOK'
      /\ ExplainOK' /\ JumpOK' /\ UnitOK' /\ SplitOK' /\ StackOK'
  BY <1>2, <1>7, AnalysisFrame, Zenon DEF LoopInv, SolverTypeOK, ConflictsOK
<1>12. ConflictsOK' /\ LemmasOK'
  BY <1>2, <1>11, SteadyClauses, Zenon DEF LoopInv, ConflictsOK, LemmasOK
<1>13. MinimizeOK'
  <2>1. LemmaOK(c, level)' BY <1>3, <1>11, SteadyClauses
  <2>2. Sorted(c)' /\ Sorted(longer)'
    BY <1>3, <1>9, <1>11, Zenon DEF Sorted, HigherLevelFirst, LevelOf, Steady, trailVars
  <2>3. \A p \in 1..next : FirstOfLevel(c, p)' <=> FirstOfLevel(c, p)
    BY <1>11 DEF FirstOfLevel, LevelOf, ListedBefore, assigned, Steady, trailVars
  <2>4. UNCHANGED var_reason BY <1>11 DEF Steady, trailVars
  <2>5. LemmaOK(minimized.clause, minimized.level)'
    BY <2>1, <1>7 DEF LemmaOK, IsSplit, IsUip, AllFalse
  <2>6. Sorted(minimized.clause)' /\ Sorted(minimized.kept)'
    BY <2>2, <1>7, Zenon DEF Sorted
  <2>7. (next + 1) - 1 = next /\ next + 1 \in 1..(Len(c) + 1)
    BY <1>3, <1>4
  <2>8. \A p \in 1..next : FirstOfLevel(minimized.clause, p)' <=> FirstOfLevel(c, p)
    BY <2>3, <1>7 DEF FirstOfLevel
  <2>9. \A lit \in work : False(lit) BY <1>2 DEF LoopInv, MinimizeOK
  <2>10. (\A lit \in work : False(lit))'
    BY <1>2, <1>11, <2>9 DEF False, FalseIn, Steady, trailVars
  <2>11. QED BY <1>6, <1>7, <1>8, <1>10, <2>4, <2>5, <2>6, <2>7, <2>8, <2>10 DEF MinimizeOK
<1>14. QED BY <1>2, <1>11, <1>12, <1>13, Elsewhere DEF LoopInv

\* On a level above 0 one of the literals of a clause was the first to become
\* false.
LEMMA FirstExists ==
  ASSUME LoopInv, NEW c \in Seq(Literals), AllFalse(c), Sorted(c),
         NEW o \in 1..Len(c), LevelOf(c[o]) > 0
  PROVE  \E p \in 1..Len(c) : LevelOf(c[p]) = LevelOf(c[o]) /\ FirstOfLevel(c, p)
<1>1. PICK l : l = LevelOf(c[o]) OBVIOUS
<1>2. /\ \A p \in 1..Len(c) :
           /\ LevelOf(c[p]) \in 0..decision_level
           /\ VarOf(c[p]) \in Vars /\ is_defined(VarOf(c[p]))
      /\ \A p, q \in 1..Len(c) : p # q => VarOf(c[p]) # VarOf(c[q])
  BY SortedFacts
<1>3. l \in 0..decision_level /\ TrailInv /\ l > 0
  BY <1>1, <1>2, InvTypes
<1>4. PICK list : list = assigned(l) OBVIOUS
<1>5. \A p \in 1..Len(c) : LevelOf(c[p]) = l =>
        \E k \in 1..Len(list) : list[k].var = VarOf(c[p])
  BY <1>2, <1>3, <1>4, OwnPosition, Zenon DEF LevelOf
<1>6. Len(list) \in Nat BY <1>3, <1>4, InvTypes, ListTypes
<1> DEFINE T == {k \in 1..Len(list) :
                   \E p \in 1..Len(c) : LevelOf(c[p]) = l /\ list[k].var = VarOf(c[p])}
<1>7. T \in SUBSET Nat /\ T # {}
  <2>1. T \subseteq Nat BY <1>6
  <2>2. PICK k \in 1..Len(list) : list[k].var = VarOf(c[o])
    BY <1>1, <1>5
  <2>3. k \in T BY <1>1, <2>2
  <2>4. QED BY <2>1, <2>3
<1>8. PICK k \in T : \A j \in T : k <= j BY <1>7, LeastNatural, Zenon
<1>9. PICK p \in 1..Len(c) : LevelOf(c[p]) = l /\ list[k].var = VarOf(c[p])
  BY <1>8
<1>10. ASSUME NEW q \in 1..Len(c), q # p, LevelOf(c[q]) = l
       PROVE  ListedBefore(VarOf(c[p]), VarOf(c[q]))
  <2>1. PICK j \in 1..Len(list) : list[j].var = VarOf(c[q])
    BY <1>5, <1>10
  <2>2. j \in T BY <1>10, <2>1
  <2>3. k <= j /\ k # j /\ k \in 1..Len(list) /\ j \in 1..Len(list)
    BY <1>2, <1>8, <1>9, <1>10, <2>1, <2>2, Zenon
  <2>4. k < j BY <1>6, <2>3
  <2>5. list = assigned(var_level[VarOf(c[q])])
    BY <1>4, <1>10 DEF LevelOf
  <2>6. QED BY <1>9, <2>1, <2>3, <2>4, <2>5 DEF ListedBefore
<1>11. FirstOfLevel(c, p) BY <1>3, <1>9, <1>10 DEF FirstOfLevel
<1>12. QED BY <1>1, <1>9, <1>11

\* A minimised clause splits or propagates at the level computed before.
LEMMA KeptIsLemma ==
  ASSUME LoopInv, pc = "minimize", minimized.next > Len(minimized.clause)
  PROVE  minimized.kept \in Seq(Literals) /\ minimized.level \in Int
         /\ LemmaOK(minimized.kept, minimized.level)
<1>1. PICK c, kept, next, level :
        c = minimized.clause /\ kept = minimized.kept /\ next = minimized.next
        /\ level = minimized.level
  OBVIOUS
<1>2. /\ c \in Seq(Literals) /\ kept \in Seq(Literals) /\ level \in Int
      /\ next \in 1..(Len(c) + 1) /\ Len(c) \in Nat /\ Len(kept) \in Nat
      /\ Len(kept) < next /\ LemmaOK(c, level) /\ AllFalse(c) /\ Sorted(c) /\ Sorted(kept)
      /\ AllFalse(kept)
      /\ \A k \in 1..Len(kept) : \E p \in 1..(next - 1) : kept[k] = c[p]
      /\ \A p \in 1..(next - 1) :
           var_reason[VarOf(c[p])] = NoReason \/ FirstOfLevel(c, p) =>
             \E k \in 1..Len(kept) : kept[k] = c[p]
  BY <1>1, MinimizeFacts
<1>3. next - 1 = Len(c) /\ Len(kept) <= Len(c) BY <1>1, <1>2, SMTT(30)
<1>4. /\ \A k \in 1..Len(kept) : \E p \in 1..Len(c) : kept[k] = c[p]
      /\ \A p \in 1..Len(c) :
           var_reason[VarOf(c[p])] = NoReason \/ FirstOfLevel(c, p) =>
             \E k \in 1..Len(kept) : kept[k] = c[p]
  BY <1>2, <1>3
<1>5. /\ \A p \in 1..Len(c) : LevelOf(c[p]) \in 0..decision_level
      /\ \A p, q \in 1..Len(c) : /\ p <= q => LevelOf(c[p]) >= LevelOf(c[q])
                                 /\ c[p] = c[q] => p = q
  BY <1>2, SortedFacts
<1>6. /\ \A p \in 1..Len(kept) : LevelOf(kept[p]) \in 0..decision_level
      /\ \A p, q \in 1..Len(kept) : /\ p <= q => LevelOf(kept[p]) >= LevelOf(kept[q])
                                    /\ kept[p] = kept[q] => p = q
  BY <1>2, SortedFacts
<1>7. decision_level \in Nat BY InvTypes
<1>8. CASE c = << >> /\ level = -1
  <2>1. Len(kept) = 0 BY <1>2, <1>3, <1>8
  <2>2. kept = << >> BY <1>2, <2>1
  <2>3. LemmaOK(kept, level) BY <1>2, <1>8, <2>2 DEF LemmaOK
  <2>4. QED BY <1>1, <1>2, <2>3
<1>9. CASE IsSplit(c, level)
  <2>1. /\ level >= 0 /\ Len(c) >= 2
        /\ LevelOf(c[1]) = level + 1 /\ LevelOf(c[2]) = level + 1
        /\ \A p \in 1..Len(c) :
             LevelOf(c[p]) = level + 1 => var_reason[VarOf(c[p])] = NoReason
        /\ assigned(level + 1)[1].var \in RealVars
    BY <1>9 DEF IsSplit
  <2>2. 1 \in 1..Len(c) /\ 2 \in 1..Len(c) BY <1>2, <2>1
  <2>3. PICK j \in 1..Len(kept) : kept[j] = c[1] BY <1>4, <2>1, <2>2
  <2>4. PICK k \in 1..Len(kept) : kept[k] = c[2] BY <1>4, <2>1, <2>2
  <2>5. j # k BY <1>5, <2>2, <2>3, <2>4
  <2>6. Len(kept) >= 2 /\ 1 \in 1..Len(kept) /\ 2 \in 1..Len(kept)
    BY <1>2, <2>5
  <2>7. \A p \in 1..Len(kept) : LevelOf(kept[p]) <= level + 1
    <3>1. SUFFICES ASSUME NEW p \in 1..Len(kept) PROVE LevelOf(kept[p]) <= level + 1
      OBVIOUS
    <3>2. PICK q \in 1..Len(c) : kept[p] = c[q] BY <1>4
    <3>3. 1 <= q BY <1>2
    <3>4. LevelOf(c[1]) >= LevelOf(c[q]) BY <1>5, <2>2, <3>3
    <3>5. QED BY <2>1, <3>2, <3>4
  <2>8. PICK m \in 1..Len(kept) : m >= 2 /\ LevelOf(kept[m]) = level + 1
    <3>1. CASE j >= 2 BY <2>1, <2>3, <3>1
    <3>2. CASE ~(j >= 2)
      <4>1. k >= 2 BY <1>2, <2>5, <3>2
      <4>2. QED BY <2>1, <2>4, <4>1
    <3>3. QED BY <3>1, <3>2
  <2>9. LevelOf(kept[1]) >= level + 1 /\ LevelOf(kept[2]) >= level + 1
    <3>1. 1 <= m /\ 2 <= m BY <1>2, <2>8
    <3>2. QED BY <1>6, <2>6, <2>8, <3>1
  <2>10. LevelOf(kept[1]) = level + 1 /\ LevelOf(kept[2]) = level + 1
    <3>1. LevelOf(kept[1]) <= level + 1 /\ LevelOf(kept[2]) <= level + 1
      BY <2>6, <2>7
    <3>2. LevelOf(kept[1]) \in Int /\ LevelOf(kept[2]) \in Int
      BY <1>6, <2>6
    <3>3. QED BY <1>2, <2>9, <3>1, <3>2, SMTT(30)
  <2>11. \A p \in 1..Len(kept) :
           LevelOf(kept[p]) = level + 1 => var_reason[VarOf(kept[p])] = NoReason
    <3>1. SUFFICES ASSUME NEW p \in 1..Len(kept), LevelOf(kept[p]) = level + 1
                   PROVE  var_reason[VarOf(kept[p])] = NoReason
      OBVIOUS
    <3>2. PICK q \in 1..Len(c) : kept[p] = c[q] BY <1>4
    <3>3. QED BY <2>1, <3>1, <3>2
  <2>12. IsSplit(kept, level) BY <2>1, <2>6, <2>10, <2>11 DEF IsSplit
  <2>13. QED BY <1>1, <1>2, <2>12 DEF LemmaOK
<1>10. CASE IsUip(c, level)
  <2>1. /\ level >= 0 /\ Len(c) >= 1 /\ LevelOf(c[1]) > level
        /\ \A p \in 2..Len(c) : LevelOf(c[p]) <= level
        /\ IF Len(c) = 1 THEN level = 0 ELSE LevelOf(c[2]) = level
    BY <1>10 DEF IsUip
  <2>2. 1 \in 1..Len(c) BY <1>2, <2>1
  <2>3. \A q \in 1..Len(c) : q # 1 => LevelOf(c[q]) <= level
    BY <1>2, <2>1
  <2>4. FirstOfLevel(c, 1)
    <3>1. LevelOf(c[1]) \in Int /\ LevelOf(c[1]) > 0
      BY <1>2, <1>5, <2>1, <2>2
    <3>2. \A q \in 1..Len(c) : q # 1 => LevelOf(c[q]) # LevelOf(c[1])
      BY <1>2, <1>5, <2>1, <2>2, <2>3
    <3>3. QED BY <3>1, <3>2 DEF FirstOfLevel
  <2>5. PICK j \in 1..Len(kept) : kept[j] = c[1] BY <1>4, <2>2, <2>4
  <2>6. Len(kept) >= 1 /\ 1 \in 1..Len(kept) BY <1>2
  <2>7. LevelOf(kept[1]) > level
    <3>1. LevelOf(kept[1]) >= LevelOf(kept[j]) /\ LevelOf(kept[1]) \in Int
          /\ LevelOf(kept[j]) \in Int
      BY <1>2, <1>6, <2>6
    <3>2. QED BY <1>2, <2>1, <2>5, <3>1
  <2>8. \A p \in 2..Len(kept) : LevelOf(kept[p]) <= level
    <3>1. SUFFICES ASSUME NEW p \in 2..Len(kept) PROVE LevelOf(kept[p]) <= level
      OBVIOUS
    <3>2. p \in 1..Len(kept) /\ p # 1 BY <1>2
    <3>3. PICK q \in 1..Len(c) : kept[p] = c[q] BY <1>4, <3>2
    <3>4. PICK r \in 1..Len(c) : kept[1] = c[r] BY <1>4, <2>6
    <3>5. r = 1 BY <1>2, <1>5, <2>3, <2>7, <3>4
    <3>6. q # 1 BY <1>6, <2>6, <3>2, <3>3, <3>4, <3>5
    <3>7. QED BY <2>3, <3>3, <3>6
  <2>9. ASSUME level # 0
        PROVE  Len(kept) >= 2 /\ LevelOf(kept[2]) = level
    <3>1. 2 \in 1..Len(c) /\ LevelOf(c[2]) = level /\ level > 0
      <4>1. Len(c) # 1 BY <2>1, <2>9
      <4>2. LevelOf(c[2]) = level BY <2>1, <4>1
      <4>3. PICK n \in Nat : n = Len(c) BY <1>2
      <4>4. n >= 1 /\ n # 1 BY <2>1, <4>1, <4>3
      <4>5. 2 \in 1..n BY <4>4
      <4>6. level > 0 BY <1>2, <2>1, <2>9
      <4>7. QED BY <4>2, <4>3, <4>5, <4>6
    <3>2. PICK p \in 1..Len(c) : LevelOf(c[p]) = level /\ FirstOfLevel(c, p)
      BY <1>2, <3>1, FirstExists, Zenon
    <3>3. PICK k \in 1..Len(kept) : kept[k] = c[p] BY <1>4, <3>2
    <3>4. k # 1 BY <1>2, <1>6, <2>6, <2>7, <3>2, <3>3
    <3>5. Len(kept) >= 2 /\ 2 \in 1..Len(kept) /\ 2 \in 2..Len(kept) /\ 2 <= k
      BY <1>2, <3>4
    <3>6. LevelOf(kept[2]) >= level /\ LevelOf(kept[2]) <= level /\ LevelOf(kept[2]) \in Int
      BY <1>6, <2>8, <3>2, <3>3, <3>5
    <3>7. QED BY <1>2, <3>5, <3>6
  <2>10. IF Len(kept) = 1 THEN level = 0 ELSE LevelOf(kept[2]) = level
    <3>1. CASE level # 0 BY <1>2, <2>9, <3>1
    <3>2. CASE level = 0 /\ Len(kept) # 1
      <4>1. 2 \in 1..Len(kept) /\ 2 \in 2..Len(kept)
        <5>1. PICK n \in Nat : n = Len(kept) BY <1>2
        <5>2. n >= 1 /\ n # 1 BY <2>6, <3>2, <5>1
        <5>3. 2 \in 1..n /\ 2 \in 2..n BY <5>2
        <5>4. QED BY <5>1, <5>3
      <4>2. LevelOf(kept[2]) <= 0 /\ LevelOf(kept[2]) \in Nat
        BY <1>6, <2>8, <3>2, <4>1
      <4>3. QED BY <3>2, <4>2
    <3>3. QED BY <3>1, <3>2
  <2>11. IsUip(kept, level) BY <2>1, <2>6, <2>7, <2>8, <2>10 DEF IsUip
  <2>12. QED BY <1>1, <1>2, <2>11 DEF LemmaOK
<1>11. QED BY <1>2, <1>8, <1>9, <1>10 DEF LemmaOK

\* The invariant when minimisation ends and the lemmas of the lowest level are
\* kept.
LEMMA KeepLowestStep ==
  ASSUME LoopInv, AnalysisStep, KeepLowest
  PROVE  LoopInv'
<1>1. PICK kept, level : kept = minimized.kept /\ level = minimized.level
  OBVIOUS
<1>2. pc = "minimize" /\ minimized.next > Len(minimized.clause)
      /\ pc' = (IF conflicts = << >> THEN "learn" ELSE "conflict")
      /\ work' = {} /\ top_level' = 0 /\ position' = 0 /\ minimized' = NothingMinimized
      /\ UNCHANGED conflicts
  BY DEF KeepLowest, AnalysisReset
<1>3. kept \in Seq(Literals) /\ level \in Int /\ LemmaOK(kept, level)
  BY <1>1, <1>2, KeptIsLemma
<1>4. lemmas \in ClauseLists /\ jump_level \in Int
      /\ \A k \in 1..Len(lemmas) : LemmaOK(lemmas[k], jump_level)
  BY DEF LoopInv, SolverTypeOK, LemmasOK
<1>5. /\ lemmas' \in ClauseLists /\ jump_level' \in Int /\ lemmas' # << >>
      /\ \A k \in 1..Len(lemmas') : LemmaOK(lemmas'[k], jump_level')
  <2>1. CASE lemmas = << >> \/ level < jump_level
    <3>1. lemmas' = <<kept>> /\ jump_level' = level
      <4>1. lemmas # << >> /\ level = jump_level => ~(lemmas = << >> \/ level < jump_level)
        BY <1>3, <1>4
      <4>2. QED BY <1>1, <2>1, <4>1 DEF KeepLowest
    <3>2. QED BY <1>3, <3>1 DEF ClauseLists
  <2>2. CASE ~(lemmas = << >> \/ level < jump_level) /\ level = jump_level
    <3>1. lemmas' = Append(lemmas, kept) /\ jump_level' = jump_level
      BY <1>1, <2>2 DEF KeepLowest
    <3>2. lemmas \in Seq(Seq(Literals)) /\ Len(lemmas) \in Nat
      BY <1>4 DEF ClauseLists
    <3>3. lemmas' \in Seq(Seq(Literals)) /\ lemmas' # << >> /\ Len(lemmas') = Len(lemmas) + 1
      <4>1. PICK S : S = Seq(Literals) OBVIOUS
      <4>2. lemmas \in Seq(S) /\ kept \in S BY <1>3, <3>2, <4>1
      <4>3. Append(lemmas, kept) \in Seq(S) /\ Len(Append(lemmas, kept)) = Len(lemmas) + 1
            /\ Append(lemmas, kept) # << >>
        BY <4>2, AppendEffect
      <4>4. QED BY <3>1, <4>1, <4>3
    <3>4. ASSUME NEW k \in 1..Len(lemmas') PROVE LemmaOK(lemmas'[k], jump_level)
      <4>1. CASE k \in 1..Len(lemmas)
        <5>1. lemmas'[k] = lemmas[k] BY <1>3, <3>1, <3>2, <4>1
        <5>2. QED BY <1>4, <4>1, <5>1
      <4>2. CASE k \notin 1..Len(lemmas)
        <5>1. lemmas'[k] = kept BY <1>3, <3>1, <3>2, <3>3, <4>2
        <5>2. QED BY <1>3, <2>2, <5>1
      <4>3. QED BY <4>1, <4>2
    <3>5. QED BY <1>4, <3>1, <3>3, <3>4 DEF ClauseLists
  <2>3. CASE ~(lemmas = << >> \/ level < jump_level) /\ level # jump_level
    <3>1. UNCHANGED <<lemmas, jump_level>> BY <1>1, <2>3 DEF KeepLowest
    <3>2. QED BY <1>4, <2>3, <3>1
  <2>4. QED BY <2>1, <2>2, <2>3
<1>6. minimized' \in [clause : Seq(Literals), kept : Seq(Literals), next : Nat, level : Int]
  BY <1>2 DEF NothingMinimized
<1>7. conflicts' \in ClauseLists BY <1>2 DEF LoopInv, SolverTypeOK
<1>8. decision_level > 0 BY <1>2 DEF LoopInv, ConflictsOK
<1>9. Steady /\ SolverTypeOK' /\ decision_level' = decision_level
      /\ TrailInv' /\ AssignmentsOK' /\ DatabaseOK' /\ ReasonsOK' /\ WatchInv'
      /\ FalseWatchesOK' /\ UnitsOK' /\ CursorOK' /\ AtomsOK' /\ AnswerOK'
      /\ ExplainOK' /\ JumpOK' /\ UnitOK' /\ SplitOK' /\ StackOK'
  BY <1>2, <1>5, <1>6, <1>7, <1>8, AnalysisFrame
<1>10. \A k \in 1..Len(lemmas') : LemmaOK(lemmas[k], jump_level)'
  <2>1. SUFFICES ASSUME NEW k \in 1..Len(lemmas') PROVE LemmaOK(lemmas[k], jump_level)'
    OBVIOUS
  <2>2. PICK d, l : d = lemmas'[k] /\ l = jump_level' OBVIOUS
  <2>3. LemmaOK(d, l)' BY <1>5, <1>9, <2>2, SteadyClauses, Zenon
  <2>4. QED BY <2>2, <2>3 DEF LemmaOK, IsSplit, IsUip, AllFalse
<1>11. LemmasOK' BY <1>2, <1>5, <1>10 DEF LemmasOK
<1>12. ConflictsOK'
  <2>1. \A k \in 1..Len(conflicts) : AllFalse(conflicts[k])
    BY DEF LoopInv, ConflictsOK
  <2>2. ASSUME NEW k \in 1..Len(conflicts') PROVE AllFalse(conflicts[k])'
    <3>1. PICK d : d = conflicts[k] /\ d = conflicts'[k] /\ k \in 1..Len(conflicts)
      BY <1>2
    <3>2. AllFalse(d)' BY <1>9, <2>1, <3>1, SteadyClauses, Zenon
    <3>3. QED BY <3>1, <3>2 DEF AllFalse
  <2>3. QED BY <1>2, <1>8, <1>9, <2>2 DEF ConflictsOK
<1>13. QED BY <1>2, <1>9, <1>11, <1>12, Elsewhere DEF LoopInv

-----------------------------------------------------------------------------
(* Propagating the learned clauses.                                        *)

\* What UnitOK says of the clause that is next.
LEMMA NextUnit ==
  ASSUME LoopInv, EveryClauseMayBeReason, UnitPropagate
  PROVE  \E id \in ClauseIds : \E c \in Seq(Literals) : \E x \in Literals :
           /\ id = Head(todo) /\ id = todo[1] /\ c = Clause(id) /\ x = c[1]
           /\ Len(c) \in Nat /\ Len(c) >= 1 /\ id \in Reasons /\ id # NoReason
           /\ jump_level = decision_level /\ ~False(x)
           /\ \A p \in 2..Len(c) : False(c[p])
           /\ decision_level > 0 => \E p \in 2..Len(c) : LevelOf(c[p]) = decision_level
           /\ Len(c) = 1 => decision_level = 0
           /\ VarOf(x) \in Known
           /\ todo' = Tail(todo) /\ todo' \in Seq(Nat) /\ Len(todo) \in Nat \ {0}
           /\ Len(todo') = Len(todo) - 1
           /\ \A k \in 1..Len(todo') : k + 1 \in 1..Len(todo) /\ todo'[k] = todo[k + 1]
<1>1. pc = "unit" /\ todo # << >> /\ todo \in Seq(Nat) /\ todo' = Tail(todo)
  BY DEF UnitPropagate, LoopInv, SolverTypeOK
<1>2. PICK n : n = Len(todo) BY Zenon
<1>3. n \in Nat \ {0} /\ Head(todo) = todo[1] /\ 1 \in 1..Len(todo)
  BY <1>1, <1>2
<1>4. /\ todo' \in Seq(Nat) /\ Len(todo') = Len(todo) - 1
      /\ \A k \in 1..Len(todo') : k + 1 \in 1..Len(todo) /\ todo'[k] = todo[k + 1]
  BY <1>1
<1>5. PICK id : id = todo[1] OBVIOUS
<1>6. PICK c : c = Clause(id) OBVIOUS
<1>7. /\ jump_level = decision_level /\ id \in ClauseIds /\ ~False(c[1])
      /\ \A p \in 2..Len(c) : False(c[p])
      /\ IF Len(c) = 1 THEN decision_level = 0 ELSE LevelOf(c[2]) = decision_level
  BY <1>1, <1>3, <1>5, <1>6 DEF LoopInv, UnitOK
<1>8. /\ asserted \in ClauseLists /\ learned \in ClauseLists /\ decision_level \in Nat
  BY InvTypes
<1>9. c \in Seq(Literals) /\ id \in Nat \ {0} /\ c # << >>
  BY <1>6, <1>7, <1>8, ClauseTypes DEF LoopInv, DatabaseOK
<1>10. Len(c) \in Nat /\ Len(c) >= 1 /\ 1 \in 1..Len(c)
  BY <1>9, ElementsOf
<1>11. c[1] \in Literals /\ c[1] \in ToSet(c) BY <1>9, <1>10, ElementsOf
<1>12. VarOf(c[1]) \in Known
  BY <1>6, <1>7, <1>11 DEF LoopInv, DatabaseOK
<1>13. id \in Reasons /\ id # NoReason
  BY <1>9, ReasonAssumption DEF EveryClauseMayBeReason
<1>14. decision_level > 0 => \E p \in 2..Len(c) : LevelOf(c[p]) = decision_level
  <2>1. CASE Len(c) = 1 BY <1>7, <2>1
  <2>2. CASE Len(c) # 1
    <3>1. 2 \in 2..Len(c)
      <4>1. PICK m : m = Len(c) BY Zenon
      <4>2. m \in Nat /\ m >= 2 BY <1>10, <2>2, <4>1
      <4>3. QED BY <4>1, <4>2
    <3>2. QED BY <1>7, <2>2, <3>1
  <2>3. QED BY <2>1, <2>2
<1>15. PICK x : x = c[1] OBVIOUS
<1>16. /\ id \in ClauseIds /\ c \in Seq(Literals) /\ x \in Literals
       /\ id = Head(todo) /\ id = todo[1] /\ c = Clause(id) /\ x = c[1]
       /\ Len(c) \in Nat /\ Len(c) >= 1 /\ id \in Reasons /\ id # NoReason
       /\ jump_level = decision_level /\ ~False(x)
       /\ \A p \in 2..Len(c) : False(c[p])
       /\ (decision_level > 0 => \E p \in 2..Len(c) : LevelOf(c[p]) = decision_level)
       /\ (Len(c) = 1 => decision_level = 0)
       /\ VarOf(x) \in Known
  BY <1>3, <1>5, <1>6, <1>7, <1>9, <1>10, <1>11, <1>12, <1>13, <1>14, <1>15
<1>17. n \in Nat \ {0} /\ Len(todo) \in Nat \ {0} BY <1>2, <1>3
<1>18. QED BY <1>1, <1>4, <1>16, <1>17

\* After the step x is true, and what has become false with it is yet unseen.
UnitsTo(x) ==
  /\ TrailInv' /\ AssignmentsOK' /\ ReasonsOK' /\ AtomsOK' /\ Grows /\ BoolValued(model')
  /\ decision_level' = decision_level
  /\ Len(recent) \in Nat /\ Len(recent') \in Nat /\ Len(recent') >= Len(recent)
  /\ True(x)' /\ (True(x) \/ LevelOf(x)' = decision_level)
  /\ \A v : v \in VarsIn(Unseen) => v \in VarsIn(Unseen)'
  /\ \A lit \in Literals : False(lit)' =>
       False(lit) \/ (lit = -x /\ LevelOf(lit)' = decision_level /\ VarOf(x) \in VarsIn(Unseen)')

\* A literal is propagated by a clause of the database at the current level.
LEMMA AssignImplied ==
  ASSUME LoopInv, SameClauses, UNCHANGED created, Propagatable = {},
         NEW id \in ClauseIds, id # NoReason, NEW c \in Seq(Literals), c = Clause(id),
         NEW x, c[1] = x, Len(c) \in Nat, Len(c) >= 1, VarOf(x) \in Known,
         \A p \in 2..Len(c) : False(c[p]),
         decision_level > 0 => \E p \in 2..Len(c) : LevelOf(c[p]) = decision_level,
         Propagates(x, id, decision_level)
  PROVE  AssignmentsOK' /\ ReasonsOK' /\ AtomsOK'
<1>1. x \in Literals /\ ~is_defined(VarOf(x)) BY DEF Propagates
<1>2. /\ TrailInv /\ TrailTypeOK /\ BoolValued(model) /\ decision_level \in Nat
      /\ asserted \in ClauseLists /\ learned \in ClauseLists
  BY InvTypes
<1>3. /\ TrailInv' /\ Grows /\ AssignsVar(VarOf(x), x > 0, id, decision_level)
      /\ decision_level' = decision_level /\ BoolValued(model')
  BY PropagatesEffect
<1>4. VarOf(x) \in BoolVars /\ VarOf(x) \in Vars BY <1>1, LiteralTypes
<1>5. Known' = Known BY SameClausesFacts DEF Known
<1>6. AssignmentsOK'
  <2>1. decision_level \in 0..decision_level BY <1>2
  <2>2. QED BY <1>1, <1>2, <1>3, <1>5, <2>1, PropagateAssignments DEF LoopInv
<1>7. ReasonsOK'
  <2>1. ForcedBy(VarOf(x), c)' BY PropagatesForces
  <2>2. ASSUME NEW v \in BoolVars, ~is_defined(v), var_reason'[v] # NoReason
        PROVE  var_reason'[v] \in ClauseIds /\ ForcedBy(v, Clause(var_reason[v]))'
    <3>1. v = VarOf(x)
      <4>1. var_reason[v] = NoReason /\ v \in Vars
        BY <1>2, <2>2, VarsAssumption, DefinedLevels
      <4>2. QED BY <1>3, <2>2, <4>1 DEF AssignsVar
    <3>2. var_reason'[v] = id BY <1>3, <3>1 DEF AssignsVar
    <3>3. c = Clause(var_reason[v])'
      BY <3>2, SameClausesFacts DEF Clause
    <3>4. ForcedBy(v, Clause(var_reason[v]))'
      BY <2>1, <3>1, <3>3, Zenon DEF ForcedBy
    <3>5. QED BY <3>2, <3>4
  <2>3. TrailTypeOK' /\ DbStays /\ ReasonsOK
    BY <1>3, SameClausesFacts DEF TrailInv, LoopInv
  <2>4. QED BY <1>2, <1>3, <2>2, <2>3, GrowReasons
<1>8. AtomsOK'
  <2>1. VarOf(x) \in created => ~is_fully_assigned(VarOf(x))
    BY <1>1 DEF Propagatable
  <2>2. QED BY <1>1, <1>3, <1>4, <2>1, BoolAtoms
<1>9. QED BY <1>6, <1>7, <1>8

\* UnitPropagate has the effect UnitsTo on the trail.
LEMMA UnitTrail ==
  ASSUME LoopInv, EveryClauseMayBeReason, UnitPropagate, NEW x, x = Clause(Head(todo))[1]
  PROVE  UnitsTo(x)
<1>1. PICK id \in ClauseIds, c \in Seq(Literals) :
           /\ id = Head(todo) /\ c = Clause(id) /\ x = c[1] /\ x \in Literals
           /\ Len(c) \in Nat /\ Len(c) >= 1 /\ id \in Reasons /\ id # NoReason
           /\ jump_level = decision_level /\ ~False(x)
           /\ \A p \in 2..Len(c) : False(c[p])
           /\ decision_level > 0 => \E p \in 2..Len(c) : LevelOf(c[p]) = decision_level
           /\ VarOf(x) \in Known
  BY NextUnit
<1>2. /\ pc = "unit" /\ pc' = "unit" /\ SameClauses /\ UNCHANGED created /\ cursor' = cursor
      /\ IF is_defined(VarOf(x)) THEN UNCHANGED trailVars
         ELSE Propagate(VarOf(x), x > 0, id, decision_level)
  BY <1>1 DEF UnitPropagate, SameClauses, lraVars
<1>3. /\ TrailInv /\ TrailTypeOK /\ BoolValued(model) /\ decision_level \in Nat
      /\ asserted \in ClauseLists /\ learned \in ClauseLists
      /\ Propagatable = {} /\ cursor = ResetCursor /\ cursor \in [level : Int, next : Nat]
  BY <1>2, InvTypes, Zenon DEF LoopInv, AtomsOK, CursorOK, SolverTypeOK
<1>4. UnseenFrom = 0 /\ Len(recent) \in Nat
  BY <1>3, ListTypes DEF UnseenFrom, ResetCursor
<1>5. CASE ~is_defined(VarOf(x))
  <2>1. Propagates(x, id, decision_level)
    BY <1>1, <1>2, <1>3, <1>5 DEF Propagates
  <2>2. /\ TrailInv' /\ Grows /\ AssignsVar(VarOf(x), x > 0, id, decision_level)
        /\ decision_level' = decision_level /\ BoolValued(model')
        /\ Lengthens(x, id) /\ LiteralsAfter(x, decision_level)
    BY <2>1, PropagatesEffect
  <2>3. AssignmentsOK' /\ ReasonsOK' /\ AtomsOK'
    BY <1>1, <1>2, <1>3, <2>1, AssignImplied
  <2>4. PICK n : n = Len(recent) /\ n \in Nat /\ Len(recent') = n + 1
    BY <2>2 DEF Lengthens
  <2>5. UnseenFrom' = 0 /\ TrailTypeOK'
    BY <1>2, <1>3, <2>2 DEF UnseenFrom, ResetCursor, TrailInv
  <2>6. ASSUME NEW v, v \in VarsIn(Unseen)
        PROVE  v \in VarsIn(Unseen)'
    <3>1. PICK k \in 1..n : k > 0 /\ recent[k].var = v
      BY <1>3, <1>4, <2>4, <2>6, UnseenVars
    <3>2. k \in 1..(n + 1) /\ recent'[k].var = v
      BY <2>2, <2>4, <3>1 DEF Lengthens
    <3>3. QED BY <1>2, <1>3, <2>4, <2>5, <3>1, <3>2, UnseenNext DEF UnseenIsTail
  <2>7. VarOf(x) \in VarsIn(Unseen)'
    <3>1. n + 1 \in 1..(n + 1) /\ n + 1 > 0 /\ recent'[n + 1].var = VarOf(x)
      BY <2>2, <2>4 DEF Lengthens
    <3>2. QED BY <1>2, <1>3, <2>4, <2>5, <3>1, UnseenNext DEF UnseenIsTail
  <2>8. -x \in Literals BY <1>1, LiteralTypes
  <2>9. /\ True(x)' /\ LevelOf(x)' = decision_level
        /\ \A lit \in Literals : False(lit)' => False(lit) \/ (lit = -x /\ LevelOf(lit)' = decision_level)
    BY <1>1, <2>2, <2>8 DEF LiteralsAfter
  <2>10. QED BY <1>4, <2>2, <2>3, <2>4, <2>6, <2>7, <2>9 DEF UnitsTo
<1>6. CASE is_defined(VarOf(x))
  <2>1. Steady BY <1>2, <1>6 DEF Steady, SameClauses
  <2>2. /\ TrailInv' /\ AssignmentsOK' /\ ReasonsOK' /\ decision_level' = decision_level
        /\ recent' = recent
    BY <2>1, SteadyMost
  <2>3. AtomsOK' BY <1>3, <2>1, SteadyAtoms DEF LoopInv
  <2>4. Grows /\ BoolValued(model')
    <3>1. trail' = trail /\ var_level' = var_level /\ var_reason' = var_reason /\ model' = model
      BY <2>1 DEF Steady, trailVars
    <3>2. \A l \in 0..decision_level : Len(trail[l + 1]) \in Nat
      BY <1>3, ListTypes DEF assigned
    <3>3. QED BY <1>3, <2>2, <3>1, <3>2 DEF Grows
  <2>5. /\ True(x)' = True(x) /\ True(x)
        /\ \A lit \in Literals : False(lit)' = False(lit)
    BY <1>1, <1>3, <1>6, <2>1, FalseLiterals, SteadyLiterals
  <2>6. Unseen' = Unseen BY <1>2, <2>2 DEF Unseen
  <2>7. QED BY <1>4, <2>2, <2>3, <2>4, <2>5, <2>6 DEF UnitsTo
<1>7. QED BY <1>5, <1>6

\* Propagating the first literal of a learned clause keeps what the other
\* learned clauses need.
LEMMA UnitPropagateStep ==
  ASSUME LoopInv, EveryClauseMayBeReason, UnitPropagate
  PROVE  LoopInv'
<1>1. PICK id \in ClauseIds, c \in Seq(Literals), x \in Literals :
           /\ id = Head(todo) /\ id = todo[1] /\ c = Clause(id) /\ x = c[1]
           /\ Len(c) \in Nat /\ Len(c) >= 1 /\ id \in Reasons /\ id # NoReason
           /\ jump_level = decision_level /\ ~False(x)
           /\ \A p \in 2..Len(c) : False(c[p])
           /\ Len(c) = 1 => decision_level = 0
           /\ todo' = Tail(todo) /\ todo' \in Seq(Nat) /\ Len(todo) \in Nat \ {0}
           /\ Len(todo') = Len(todo) - 1
           /\ \A k \in 1..Len(todo') : k + 1 \in 1..Len(todo) /\ todo'[k] = todo[k + 1]
  BY NextUnit
<1>2. UnitsTo(x) BY <1>1, UnitTrail
<1>3. /\ pc = "unit" /\ pc' = "unit" /\ SameClauses /\ todo # << >>
      /\ UNCHANGED <<conflicts, dbVars, bcpVars, phase, cursor, analysisVars, lraVars,
                     round_size, choices, old_size, restarts, verdict>>
  BY DEF UnitPropagate, SameClauses
<1>4. /\ TrailInv' /\ AssignmentsOK' /\ ReasonsOK' /\ AtomsOK' /\ Grows /\ BoolValued(model')
      /\ decision_level' = decision_level
      /\ Len(recent) \in Nat /\ Len(recent') \in Nat /\ Len(recent') >= Len(recent)
      /\ True(x)' /\ (True(x) \/ LevelOf(x)' = decision_level)
      /\ \A v : v \in VarsIn(Unseen) => v \in VarsIn(Unseen)'
      /\ \A lit \in Literals : False(lit)' =>
           False(lit) \/ (lit = -x /\ LevelOf(lit)' = decision_level /\ VarOf(x) \in VarsIn(Unseen)')
  BY <1>2 DEF UnitsTo
<1>5. /\ TrailInv /\ TrailTypeOK /\ BoolValued(model) /\ decision_level \in Nat
      /\ asserted \in ClauseLists /\ learned \in ClauseLists /\ verdict = "none"
  BY <1>3, InvTypes
<1>6. SolverTypeOK'
  BY <1>1, <1>3, <1>4, Zenon DEF LoopInv, SolverTypeOK, ProgramPoints, dbVars, bcpVars,
     analysisVars, lraVars, TrailInv
<1>7. DatabaseOK'
  BY <1>3, SameClausesFacts DEF LoopInv, DatabaseOK, Known, lraVars
<1>8. WatchInv' BY <1>3, WatchesStay DEF LoopInv, WatchesLive, bcpVars
<1>9. FalseWatchesOK'
  <2>1. ASSUME NEW j \in ClauseIds, NEW i \in {1, 2}, NEW lit \in Literals, NEW other \in Literals,
               i <= Len(Clause(j)), lit = Clause(j)[i], other = Clause(j)[3 - i]
        PROVE  /\ False(lit) /\ LevelOf(lit) = decision_level /\ Awaits(lit, j) =>
                    \/ decision_level' = decision_level /\ Awaits(lit, j)'
                    \/ True(other)' /\ LevelOf(other)' <= LevelOf(lit)
               /\ ~False(lit) /\ False(lit)' =>
                    LevelOf(lit)' = decision_level' /\ Awaits(lit, j)'
    <3>1. Awaits(lit, j) => Awaits(lit, j)' BY <1>3, <1>4 DEF Awaits
    <3>2. ASSUME ~False(lit), False(lit)'
          PROVE  LevelOf(lit)' = decision_level' /\ Awaits(lit, j)'
      <4>1. lit = -x /\ LevelOf(lit)' = decision_level /\ VarOf(x) \in VarsIn(Unseen)'
        BY <1>4, <3>2
      <4>2. VarOf(lit) = VarOf(x) BY <1>1, <4>1, LiteralTypes
      <4>3. QED BY <1>3, <1>4, <4>1, <4>2 DEF Awaits
    <3>3. QED BY <1>4, <3>1, <3>2
  <2>2. QED BY <1>3, <1>4, <2>1, GrowFalseWatches
<1>10. UnitsOK'
  <2>1. ASSUME NEW j \in ClauseIds, NEW y \in Literals, Len(Clause(j)) = 1, y = Clause(j)[1]
        PROVE  \/ True(y)' /\ LevelOf(y)' = 0
               \/ j \in ToSet(todo')
    <3>1. \/ True(y) /\ LevelOf(y) = 0
          \/ j \in ToSet(todo)
      BY <1>3, <2>1 DEF LoopInv, UnitsOK
    <3>2. CASE True(y) /\ LevelOf(y) = 0
      BY <1>4, <1>5, <3>2, GrowsLiterals
    <3>3. CASE j \in ToSet(todo)
      <4>1. PICK k \in 1..Len(todo) : todo[k] = j
        BY <3>3, ElementsOf DEF LoopInv, SolverTypeOK
      <4>2. CASE k = 1
        <5>1. y = x /\ decision_level = 0 BY <1>1, <2>1, <4>1, <4>2
        <5>2. LevelOf(x)' = 0
          <6>1. True(x) => LevelOf(x)' = 0
            <7>1. True(x) => LevelOf(x) = 0 /\ LevelOf(x)' = LevelOf(x)
              BY <1>1, <1>4, <1>5, <5>1, FalseLiterals, GrowsLiterals
            <7>2. QED BY <7>1
          <6>2. QED BY <1>4, <5>1, <6>1
        <5>3. True(x)' BY <1>4
        <5>4. QED BY <5>1, <5>2, <5>3
      <4>3. CASE k # 1
        <5>1. k - 1 \in 1..Len(todo') /\ todo'[k - 1] = todo[k]
          BY <1>1, <4>1, <4>3
        <5>2. PICK t : t = todo' OBVIOUS
        <5>3. t \in Seq(Nat) /\ k - 1 \in 1..Len(t) /\ t[k - 1] = j
          BY <1>1, <4>1, <5>1, <5>2
        <5>4. j \in ToSet(t) BY <5>3, ElementsOf
        <5>5. QED BY <5>2, <5>4
      <4>4. QED BY <4>2, <4>3
    <3>4. QED BY <3>1, <3>2, <3>3
  <2>2. \A j \in ClauseIds : Len(Clause(j)) = 1 => Clause(j)[1] \in Literals
    <3>1. \A j \in ClauseIds : \A p \in 1..Len(Clause(j)) : Clause(j)[p] \in Literals
      BY <1>5, ClauseTypes
    <3>2. \A j \in ClauseIds : Len(Clause(j)) = 1 => 1 \in 1..Len(Clause(j))
      OBVIOUS
    <3>3. QED BY <3>1, <3>2
  <2>3. QED BY <1>3, <2>1, <2>2, SameClausesFacts DEF UnitsOK
<1>11. CursorOK' BY <1>3, <1>4, <1>5 DEF LoopInv, CursorOK, SolverTypeOK
<1>12. ConflictsOK' /\ LemmasOK'
  <2>1. conflicts = << >> /\ lemmas = << >> /\ work = {} /\ minimized = NothingMinimized
    BY <1>3 DEF LoopInv, ConflictsOK, LemmasOK
  <2>2. conflicts' = << >> /\ lemmas' = << >> /\ work' = {} /\ minimized' = NothingMinimized
    BY <1>3, <2>1 DEF analysisVars
  <2>3. QED BY <1>3, <2>2 DEF ConflictsOK, LemmasOK
<1>13. UnitOK'
  <2>1. ASSUME NEW k \in 1..Len(todo')
        PROVE  /\ todo'[k] \in ClauseIds'
               /\ ~False(Clause(todo[k])[1])'
               /\ \A p \in 2..Len(Clause(todo[k]))' : False(Clause(todo[k])[p])'
               /\ IF Len(Clause(todo[k]))' = 1 THEN decision_level' = 0
                                               ELSE LevelOf(Clause(todo[k])[2])' = decision_level'
    <3>1. PICK j, d, m : j = todo[k + 1] /\ d = Clause(j) /\ m = k + 1 /\ m \in 1..Len(todo) /\ todo'[k] = j
      BY <1>1, Zenon
    <3>2. /\ j \in ClauseIds /\ ~False(d[1])
          /\ \A p \in 2..Len(d) : False(d[p])
          /\ IF Len(d) = 1 THEN decision_level = 0 ELSE LevelOf(d[2]) = decision_level
      BY <1>3, <3>1 DEF LoopInv, UnitOK
    <3>3. d \in Seq(Literals) /\ d # << >>
      BY <1>5, <3>1, <3>2, ClauseTypes DEF LoopInv, DatabaseOK
    <3>4. Len(d) \in Nat /\ Len(d) >= 1 BY <3>3, ElementsOf
    <3>5. \A p \in 1..Len(d) : d[p] \in Literals BY <3>3
    <3>6. ~False(d[1])'
      <4>1. d[1] \in Literals BY <3>4, <3>5
      <4>2. CASE d[1] = -x
        <5>1. VarOf(d[1]) = VarOf(x) BY <1>1, <4>2, LiteralTypes
        <5>2. d[1] = x
          <6>1. 1 \in 1..Len(todo) BY <1>1
          <6>2. Clause(todo[1])[1] = x /\ Clause(todo[m])[1] = d[1]
            BY <1>1, <3>1
          <6>3. VarOf(Clause(todo[m])[1]) = VarOf(Clause(todo[1])[1])
            BY <5>1, <6>2
          <6>4. Clause(todo[m])[1] = Clause(todo[1])[1]
            BY <1>3, <3>1, <6>1, <6>3 DEF LoopInv, UnitOK
          <6>5. QED BY <6>2, <6>4
        <5>3. QED BY <1>1, <4>2, <5>2, LiteralTypes
      <4>3. CASE d[1] # -x BY <1>4, <3>2, <4>1, <4>3
      <4>4. QED BY <4>2, <4>3
    <3>7. \A p \in 2..Len(d) : False(d[p])' /\ LevelOf(d[p])' = LevelOf(d[p])
      <4>1. SUFFICES ASSUME NEW p \in 2..Len(d)
                     PROVE  False(d[p])' /\ LevelOf(d[p])' = LevelOf(d[p])
        OBVIOUS
      <4>2. d[p] \in Literals /\ False(d[p]) BY <3>2, <3>4, <3>5, <4>1
      <4>3. QED BY <1>4, <1>5, <4>2, GrowsLiterals
    <3>8. IF Len(d) = 1 THEN decision_level' = 0 ELSE LevelOf(d[2])' = decision_level'
      <4>1. CASE Len(d) = 1 BY <1>4, <3>2, <4>1
      <4>2. CASE Len(d) # 1
        <5>1. PICK n : n = Len(d) OBVIOUS
        <5>2. 2 \in 2..n BY <3>4, <4>2, <5>1
        <5>3. QED BY <1>4, <3>2, <3>7, <4>2, <5>1, <5>2
      <4>3. QED BY <4>1, <4>2
    <3>9. ClauseIds' = ClauseIds /\ Clause(todo[k])' = d
      BY <1>3, <3>1, SameClausesFacts DEF Clause
    <3>10. QED BY <3>1, <3>2, <3>6, <3>7, <3>8, <3>9
  <2>2. ASSUME NEW j \in 1..Len(todo'), NEW k \in 1..Len(todo'),
               VarOf(Clause(todo[j])[1])' = VarOf(Clause(todo[k])[1])'
        PROVE  Clause(todo[j])'[1] = Clause(todo[k])'[1]
    <3>1. PICK a, b : a = j + 1 /\ b = k + 1 /\ a \in 1..Len(todo) /\ b \in 1..Len(todo)
                      /\ todo'[j] = todo[a] /\ todo'[k] = todo[b]
      BY <1>1
    <3>2. Clause(todo[j])' = Clause(todo[a]) /\ Clause(todo[k])' = Clause(todo[b])
      BY <1>3, <3>1, SameClausesFacts, Zenon DEF Clause
    <3>3. VarOf(Clause(todo[a])[1]) = VarOf(Clause(todo[b])[1])
      BY <2>2, <3>2 DEF VarOf
    <3>4. Clause(todo[a])[1] = Clause(todo[b])[1]
      BY <1>3, <3>1, <3>3 DEF LoopInv, UnitOK
    <3>5. QED BY <3>2, <3>4
  <2>3. jump_level' = decision_level'
    BY <1>1, <1>3, <1>4 DEF analysisVars
  <2>4. QED BY <2>1, <2>2, <2>3 DEF UnitOK
<1>14. StackOK' /\ ExplainOK' /\ ResolveOK' /\ MinimizeOK' /\ JumpOK' /\ SplitOK' /\ AnswerOK'
  BY <1>3, <1>5, Elsewhere
<1>15. QED BY <1>4, <1>6, <1>7, <1>8, <1>9, <1>10, <1>11, <1>12, <1>13, <1>14 DEF LoopInv

-----------------------------------------------------------------------------
(* Deciding.                                                               *)

\* The loop decides the value x of v.
Decides(v, x) ==
  /\ pc \in {"decide", "split"} /\ pc' = "propagate"
  /\ v \in Vars /\ x \in Values /\ ~is_defined(v) /\ Decide(v, x)
  /\ v \in BoolVars => v \in Known /\ x \in BOOLEAN
  /\ v \notin BoolVars => v \in RealVars /\ x \in Allowed(v)
  /\ UNCHANGED <<conflicts, dbVars, bcpVars, phase, cursor, lraVars, work, minimized,
                 lemmas, verdict>>

\* What becomes of the trail when the loop decides.
LEMMA DecidesEffect ==
  ASSUME LoopInv, NEW v, NEW x, Decides(v, x)
  PROVE  /\ TrailInv' /\ TrailTypeOK' /\ Grows /\ AssignsVar(v, x, NoReason, decision_level + 1)
         /\ decision_level' = decision_level + 1 /\ BoolValued(model')
         /\ recent' = <<[var |-> v, reason |-> NoReason]>>
         /\ SameClauses /\ Known' = Known /\ Propagatable = {}
<1>1. TrailInv /\ v \in Vars /\ x \in Values /\ ~is_defined(v) /\ Decide(v, x) /\ BoolValued(model)
  BY InvTypes DEF Decides
<1>2. /\ TrailInv' /\ TrailTypeOK' /\ Grows /\ AssignsVar(v, x, NoReason, decision_level + 1)
      /\ decision_level' = decision_level + 1
      /\ recent' = <<[var |-> v, reason |-> NoReason]>>
  BY <1>1, DecideEffect DEF TrailInv
<1>3. BoolValued(model')
  BY <1>1, <1>2, VarsAssumption DEF Decides, BoolValued, AssignsVar
<1>4. SameClauses /\ Known' = Known
  BY SameClausesFacts DEF Decides, SameClauses, Known, lraVars
<1>5. Propagatable = {} BY DEF Decides, LoopInv, AtomsOK
<1>6. QED BY <1>2, <1>3, <1>4, <1>5

\* The constraints that bound a rational variable have the values they had
\* once it takes an allowed value.
LEMMA DecidesReal ==
  ASSUME LoopInv, NEW v, NEW x, Decides(v, x), v \notin BoolVars
  PROVE  AtomsOK'
<1>1. /\ AssignsVar(v, x, NoReason, decision_level + 1)
      /\ decision_level' = decision_level + 1 /\ Propagatable = {}
      /\ recent' = <<[var |-> v, reason |-> NoReason]>> /\ TrailTypeOK'
  BY DecidesEffect
<1>2. /\ v \in RealVars /\ x \in RealValues /\ AllowedBy(UnitIn(v), v, x) /\ pc' = "propagate"
      /\ created' = created /\ ~is_defined(v) /\ x # Undef /\ cursor' = cursor
  BY UndefAssumption DEF Decides, Allowed, lraVars
<1>3. TrailInv /\ decision_level \in Nat BY InvTypes
<1>4. /\ \A w \in Vars : w # v => model'[w] = model[w] /\ var_level'[w] = var_level[w]
      /\ model'[v] = x /\ var_level'[v] = decision_level + 1
  BY <1>1 DEF AssignsVar
<1>5. \A a \in created : /\ a \in Vars /\ a # v /\ a \in AtomVars /\ AtomScope[a] \subseteq RealVars
                         /\ model'[a] = model[a] /\ var_level'[a] = var_level[a]
  BY <1>2, <1>4, LraTypes, BoolsAndReals
<1>6. ASSUME NEW a \in created, NEW m \in 0..(decision_level' - 1),
             \A r \in AtomScope[a] : is_defined(r)' /\ var_level'[r] <= m
      PROVE  is_defined(a)' /\ var_level'[a] <= m
  <2>1. v \notin AtomScope[a]
    <3>1. ~(var_level'[v] <= m) BY <1>1, <1>3, <1>4, <1>6
    <3>2. QED BY <1>6, <3>1
  <2>2. \A r \in AtomScope[a] : is_defined(r) /\ var_level[r] <= m
    BY <1>4, <1>5, <1>6, <2>1, BoolsAndReals DEF is_defined
  <2>3. CASE m \in 0..(decision_level - 1)
    BY <1>5, <2>2, <2>3 DEF LoopInv, AtomsOK, is_defined
  <2>4. CASE m = decision_level
    <3>1. is_fully_assigned(a) BY <2>2 DEF is_fully_assigned, Unassigned
    <3>2. is_defined(a) BY <1>1, <3>1 DEF Propagatable
    <3>3. var_level[a] \in 0..decision_level
      BY <1>3, <1>5, <3>2, DefinedLevels
    <3>4. QED BY <1>3, <1>5, <2>4, <3>2, <3>3 DEF is_defined
  <2>5. QED BY <1>1, <1>3, <1>6, <2>3, <2>4
<1>7. ASSUME NEW a \in created, is_defined(a)', is_fully_assigned(a)'
      PROVE  model'[a] = AtomValue(a)'
  <2>1. is_defined(a) BY <1>5, <1>7 DEF is_defined
  <2>2. \A r \in AtomScope[a] : model'[r] # Undef
    BY <1>7 DEF is_fully_assigned, Unassigned, is_defined
  <2>3. CASE v \notin AtomScope[a]
    <3>1. \A r \in AtomScope[a] : model'[r] = model[r]
      BY <1>4, <1>5, <2>3, BoolsAndReals
    <3>2. is_fully_assigned(a)
      BY <2>2, <3>1 DEF is_fully_assigned, Unassigned, is_defined
    <3>3. \A rho \in AtomModels[a] : Agrees(rho, a)' <=> Agrees(rho, a)
      BY <3>1 DEF Agrees, is_defined
    <3>4. AtomValue(a)' = AtomValue(a) BY <3>3 DEF AtomValue
    <3>5. model[a] = AtomValue(a) BY <2>1, <3>2 DEF LoopInv, AtomsOK
    <3>6. QED BY <1>5, <3>4, <3>5
  <2>4. CASE v \in AtomScope[a]
    <3>1. \A r \in AtomScope[a] : r # v => model'[r] = model[r]
      BY <1>4, <1>5, BoolsAndReals
    <3>2. Unassigned(a) = {v}
      BY <1>2, <2>2, <2>4, <3>1 DEF Unassigned, is_defined
    <3>3. AtomValueAt(a, v, x) = model[a]
      BY <1>2, <2>1, <3>2 DEF AllowedBy, UnitIn
    <3>4. \A rho \in AtomModels[a] : Agrees(rho, a)' <=> Agrees(rho, a) /\ rho[v] = x
      <4>1. SUFFICES ASSUME NEW rho \in AtomModels[a]
                     PROVE  Agrees(rho, a)' <=> Agrees(rho, a) /\ rho[v] = x
        OBVIOUS
      <4>2. Agrees(rho, a)' <=> \A r \in AtomScope[a] : rho[r] = model'[r]
        BY <2>2 DEF Agrees, is_defined
      <4>3. Agrees(rho, a) <=> \A r \in AtomScope[a] : r # v => rho[r] = model'[r]
        BY <1>2, <2>2, <3>1 DEF Agrees, is_defined
      <4>4. QED BY <1>4, <2>4, <4>2, <4>3
    <3>5. AtomValue(a)' = AtomValueAt(a, v, x)
      BY <3>4 DEF AtomValue, AtomValueAt
    <3>6. QED BY <1>5, <3>3, <3>5
  <2>5. QED BY <2>3, <2>4
<1>8. \A k \in DOMAIN Unseen' : Unseen'[k].var \notin BoolVars
  <2>1. SUFFICES ASSUME NEW k \in DOMAIN Unseen'
                 PROVE  Unseen'[k].var \notin BoolVars
    OBVIOUS
  <2>2. cursor.level <= decision_level /\ cursor.level \in Int /\ cursor.next \in Nat
    BY DEF LoopInv, CursorOK, SolverTypeOK
  <2>3. decision_level' # cursor'.level BY <1>1, <1>2, <1>3, <2>2
  <2>4. Unseen' = SubSeq(recent', 1, Len(recent')) BY <2>3 DEF Unseen
  <2>5. Unseen' = SubSeq(<<[var |-> v, reason |-> NoReason]>>, 1, 1)
    BY <1>1, <2>4
  <2>6. k = 1 /\ Unseen'[1].var = v BY <2>1, <2>5
  <2>7. QED BY <2>6
<1>9. QED BY <1>1, <1>2, <1>3, <1>6, <1>7, <1>8 DEF AtomsOK

\* A decision preserves the parts of the invariant that do not depend on types.
LEMMA DecidesMost ==
  ASSUME LoopInv, NEW v, NEW x, Decides(v, x)
  PROVE  /\ TrailInv' /\ AssignmentsOK' /\ DatabaseOK' /\ ReasonsOK'
         /\ WatchInv' /\ FalseWatchesOK' /\ UnitsOK' /\ StackOK' /\ CursorOK'
         /\ AtomsOK' /\ ExplainOK'
         /\ ConflictsOK' /\ ResolveOK' /\ MinimizeOK' /\ LemmasOK'
         /\ JumpOK' /\ UnitOK' /\ SplitOK' /\ AnswerOK'
<1>1. /\ TrailInv' /\ TrailTypeOK' /\ Grows /\ AssignsVar(v, x, NoReason, decision_level + 1)
      /\ decision_level' = decision_level + 1 /\ BoolValued(model')
      /\ recent' = <<[var |-> v, reason |-> NoReason]>>
      /\ SameClauses /\ Known' = Known /\ Propagatable = {}
  BY DecidesEffect
<1>2. /\ pc \in {"decide", "split"} /\ pc' = "propagate" /\ v \in Vars /\ ~is_defined(v)
      /\ v \in BoolVars => v \in Known /\ x \in BOOLEAN
      /\ UNCHANGED <<conflicts, dbVars, bcpVars, phase, cursor, lraVars, work, minimized,
                     lemmas, verdict>>
  BY DEF Decides
<1>3. /\ TrailInv /\ TrailTypeOK /\ BoolValued(model) /\ decision_level \in Nat
      /\ asserted \in ClauseLists /\ learned \in ClauseLists /\ verdict = "none"
  BY <1>2, InvTypes
<1>4. AssignmentsOK' BY <1>1, <1>2, <1>3, DecideAssignments DEF LoopInv
<1>5. DatabaseOK'
  BY <1>1, <1>2, SameClausesFacts DEF LoopInv, DatabaseOK, lraVars
<1>6. ReasonsOK'
  <2>1. \A w \in BoolVars : ~is_defined(w) => var_reason'[w] = NoReason
    <3>1. SUFFICES ASSUME NEW w \in BoolVars, ~is_defined(w)
                   PROVE  var_reason'[w] = NoReason
      OBVIOUS
    <3>2. w \in Vars BY VariableLiterals
    <3>3. QED BY <1>1, <1>3, <3>1, <3>2, DefinedLevels DEF AssignsVar
  <2>2. QED BY <1>1, <1>3, <2>1, GrowReasons, SameClausesFacts DEF LoopInv
<1>7. WatchInv'
  BY <1>1, <1>2, WatchesStay DEF bcpVars, LoopInv, WatchesLive
<1>8. UnitsOK'
  <2>1. UnitsTrue BY <1>2 DEF LoopInv, UnitsOK, UnitsTrue
  <2>2. QED BY <1>1, <2>1, GrowUnits
<1>9. cursor \in [level : Int, next : Nat] /\ cursor' = cursor /\ cursor.level <= decision_level
  BY <1>2 DEF LoopInv, SolverTypeOK, CursorOK
<1>10. CursorOK' BY <1>1, <1>2, <1>3, <1>9 DEF CursorOK
<1>11. v \in VarsIn(Unseen)'
  <2>1. UnseenFrom' = 0 BY <1>1, <1>3, <1>9 DEF UnseenFrom
  <2>2. Len(recent') = 1 /\ recent'[1].var = v BY <1>1
  <2>3. 1 \in 1..Len(recent') /\ 1 > UnseenFrom' BY <2>1, <2>2
  <2>4. QED BY <1>1, <1>9, <2>2, <2>3, UnseenNext DEF UnseenIsTail
<1>12. FalseWatchesOK'
  <2>1. ASSUME NEW id \in ClauseIds, NEW i \in {1, 2}, NEW lit \in Literals, NEW other \in Literals,
               i <= Len(Clause(id)), lit = Clause(id)[i], other = Clause(id)[3 - i]
        PROVE  /\ False(lit) /\ LevelOf(lit) = decision_level /\ Awaits(lit, id) =>
                    \/ decision_level' = decision_level /\ Awaits(lit, id)'
                    \/ True(other)' /\ LevelOf(other)' <= LevelOf(lit)
               /\ ~False(lit) /\ False(lit)' =>
                    LevelOf(lit)' = decision_level' /\ Awaits(lit, id)'
    <3>1. ~Awaits(lit, id) BY <1>2 DEF Awaits
    <3>2. ASSUME ~False(lit), False(lit)'
          PROVE  LevelOf(lit)' = decision_level' /\ Awaits(lit, id)'
      <4>1. VarOf(lit) = v
        <5>1. VarOf(lit) \in Vars BY LiteralTypes
        <5>2. model'[VarOf(lit)] # model[VarOf(lit)]
          BY <3>2 DEF False, FalseIn
        <5>3. QED BY <1>1, <5>1, <5>2 DEF AssignsVar
      <4>2. LevelOf(lit)' = decision_level'
        BY <1>1, <4>1 DEF AssignsVar, LevelOf
      <4>3. Awaits(lit, id)' BY <1>2, <1>11, <4>1 DEF Awaits
      <4>4. QED BY <4>2, <4>3
    <3>3. QED BY <3>1, <3>2
  <2>2. pc # "jump" BY <1>2
  <2>3. QED BY <1>1, <2>1, <2>2, GrowFalseWatches
<1>13. AtomsOK'
  <2>1. CASE v \in BoolVars
    <3>1. v \in created => ~is_fully_assigned(v)
      BY <1>1, <1>2 DEF Propagatable
    <3>2. UNCHANGED created BY <1>2 DEF lraVars
    <3>3. QED BY <1>1, <1>2, <2>1, <3>1, <3>2, BoolAtoms
  <2>2. CASE v \notin BoolVars BY <2>2, DecidesReal
  <2>3. QED BY <2>1, <2>2
<1>14. ConflictsOK' /\ LemmasOK'
  <2>1. conflicts = << >> /\ lemmas = << >> /\ work = {} /\ minimized = NothingMinimized
    BY <1>2 DEF LoopInv, ConflictsOK, LemmasOK
  <2>2. conflicts' = << >> /\ lemmas' = << >> /\ work' = {} /\ minimized' = NothingMinimized
    BY <1>2, <2>1
  <2>3. QED BY <1>2, <2>2 DEF ConflictsOK, LemmasOK
<1>15. /\ StackOK' /\ ExplainOK' /\ ResolveOK' /\ MinimizeOK' /\ JumpOK' /\ UnitOK' /\ SplitOK'
       /\ AnswerOK'
  BY <1>2, <1>3, Elsewhere
<1>16. QED BY <1>1, <1>4, <1>5, <1>6, <1>7, <1>8, <1>10, <1>12, <1>13, <1>14, <1>15

\* Deciding an undefined variable that is in use.
LEMMA DecideNextStep ==
  ASSUME LoopInv, DecideNext
  PROVE  LoopInv'
<1>1. PICK v \in Undecided : DecideBool(v) \/ DecideReal(v)
  BY DEF DecideNext
<1>2. /\ pc = "decide" /\ pc' = "propagate" /\ ~is_defined(v) /\ v \in InUse
      /\ UNCHANGED <<conflicts, dbVars, bcpVars, phase, cursor, analysisVars, lraVars, loopVars>>
  BY <1>1 DEF DecideNext, Undecided
<1>3. PICK x : Decides(v, x)
  <2>1. CASE DecideBool(v)
    <3>1. v \in BoolVars /\ v \in Vars /\ v \notin RealVars
      BY <2>1, BoolsAndReals DEF DecideBool
    <3>2. v \in Known
      BY <1>2, <3>1, LraTypes DEF InUse, Known, LoopInv, SolverTypeOK
    <3>3. PhaseOf(v) \in BOOLEAN
      BY <3>1, PhaseAssumption, Zenon DEF PhaseOf, LoopInv, SolverTypeOK
    <3>4. PhaseOf(v) \in Values BY <3>3, VarsAssumption
    <3>5. Decides(v, PhaseOf(v))
      BY <1>2, <2>1, <3>1, <3>2, <3>3, <3>4 DEF Decides, DecideBool, analysisVars, loopVars
    <3>6. QED BY <3>5
  <2>2. CASE DecideReal(v)
    <3>1. PICK x \in Allowed(v) : Decide(v, x) BY <2>2 DEF DecideReal
    <3>2. v \in RealVars /\ v \in Vars /\ v \notin BoolVars
      BY <2>2, BoolsAndReals DEF DecideReal
    <3>3. x \in Values BY <3>1, AtomAssumption DEF Allowed
    <3>4. Decides(v, x)
      BY <1>2, <3>1, <3>2, <3>3 DEF Decides, analysisVars, loopVars
    <3>5. QED BY <3>4
  <2>3. QED BY <1>1, <2>1, <2>2
<1>4. TrailTypeOK' BY <1>3, DecidesEffect
<1>5. SolverTypeOK'
  BY <1>2, <1>4, Zenon DEF LoopInv, SolverTypeOK, ProgramPoints, dbVars, bcpVars,
     analysisVars, lraVars, loopVars
<1>6. QED BY <1>3, <1>5, DecidesMost DEF LoopInv

\* Deciding a literal of a clause that splits.
LEMMA SplitDecideStep ==
  ASSUME LoopInv, SplitDecide
  PROVE  LoopInv'
<1>1. PICK lit \in choices : Decide(VarOf(lit), lit > 0)
  BY DEF SplitDecide
<1>2. /\ pc = "split" /\ pc' = "propagate" /\ choices' = {} /\ jump_level' = 0
      /\ UNCHANGED <<conflicts, dbVars, bcpVars, phase, cursor, work, top_level, position,
                 minimized, lemmas, lraVars, round_size, todo, old_size, restarts, verdict>>
  BY DEF SplitDecide
<1>3. lit \in Literals /\ ~is_defined(VarOf(lit)) /\ VarOf(lit) \in Known
  BY <1>2 DEF LoopInv, SolverTypeOK, SplitOK
<1>4. VarOf(lit) \in BoolVars /\ VarOf(lit) \in Vars /\ lit \in Int
  BY <1>3, LiteralTypes
<1>5. (lit > 0) \in BOOLEAN OBVIOUS
<1>6. (lit > 0) \in Values BY <1>5, VarsAssumption, Zenon
<1>7. PICK v, x : v = VarOf(lit) /\ x = (lit > 0) OBVIOUS
<1>8. Decides(v, x)
  BY <1>1, <1>2, <1>3, <1>4, <1>5, <1>6, <1>7 DEF Decides
<1>9. TrailTypeOK' BY <1>8, DecidesEffect
<1>10. SolverTypeOK'
  BY <1>2, <1>9 DEF LoopInv, SolverTypeOK, ProgramPoints, dbVars, bcpVars,
     lraVars
<1>11. QED BY <1>8, <1>10, DecidesMost DEF LoopInv

-----------------------------------------------------------------------------
(* Starting and restarting.                                                *)

\* The cached phases are values that boolean variables have held.
LEMMA PhasesKept ==
  ASSUME LoopInv, NEW level \in Nat, BeforeBacktrack(level)
  PROVE  /\ phase' \in [BoolVars -> BOOLEAN]
         /\ cursor' = ResetCursor /\ cursor' \in [level : Int, next : Nat]
         /\ cursor'.level = -1
<1>1. TrailInv /\ TrailTypeOK /\ BoolValued(model) /\ decision_level \in Nat
  BY InvTypes
<1>2. phase \in [BoolVars -> BOOLEAN] BY DEF LoopInv, SolverTypeOK
<1>3. ASSUME NEW v \in BoolVars,
             v \in UNION {VarsIn(assigned(l)) : l \in (level + 1)..decision_level}
      PROVE  model[v] \in BOOLEAN
  <2>1. PICK l \in (level + 1)..decision_level : v \in VarsIn(assigned(l))
    BY <1>3
  <2>2. l \in 0..decision_level BY <1>1, <2>1
  <2>3. PICK k \in 1..Len(assigned(l)) : assigned(l)[k].var = v
    BY <2>1 DEF VarsIn
  <2>4. is_defined(v) BY <1>1, <2>2, <2>3, EntryFacts
  <2>5. QED BY <1>1, <2>4 DEF BoolValued, is_defined
<1>4. phase' \in [BoolVars -> BOOLEAN] BY <1>2, <1>3 DEF BeforeBacktrack
<1>5. cursor' = [level |-> -1, next |-> 0]
  BY DEF BeforeBacktrack, ResetCursor
<1>6. QED BY <1>4, <1>5 DEF ResetCursor

\* What a restart keeps was in the database before it.
LEMMA SurvivorsWereClauses ==
  ASSUME asserted \in ClauseLists, learned \in ClauseLists,
         UNCHANGED asserted, learned' = Survivors(learned, old_size)
  PROVE  /\ learned' \in ClauseLists
         /\ \A id \in ClauseIds' : \E j \in ClauseIds : Clause(id)' = Clause(j)
<1>1. PICK keep : learned' = Chosen(learned, keep) BY DEF Survivors
<1>2. PICK S : S = Seq(Literals) OBVIOUS
<1>3. learned \in Seq(S) /\ asserted \in Seq(S) BY <1>2 DEF ClauseLists
<1>4. /\ Chosen(learned, keep) \in Seq(S)
      /\ \A k \in 1..Len(Chosen(learned, keep)) :
           \E i \in 1..Len(learned) : i \in keep /\ Chosen(learned, keep)[k] = learned[i]
  BY <1>3, ChosenElements
<1>5. PICK t : t = learned' OBVIOUS
<1>6. t \in Seq(S) /\ \A k \in 1..Len(t) : \E i \in 1..Len(learned) : t[k] = learned[i]
  BY <1>1, <1>4, <1>5
<1>7. Len(asserted) \in Nat /\ Len(learned) \in Nat /\ Len(t) \in Nat
  BY <1>3, <1>6
<1>8. ASSUME NEW id \in ClauseIds'
      PROVE  \E j \in ClauseIds : Clause(id)' = Clause(j)
  <2>1. id \in 1..(Len(asserted) + Len(t)) BY <1>5, <1>8 DEF ClauseIds
  <2>2. CASE id <= Len(asserted)
    BY <1>7, <2>1, <2>2 DEF ClauseIds, Clause
  <2>3. CASE id > Len(asserted)
    <3>1. Clause(id)' = t[id - Len(asserted)]
      BY <1>5, <1>7, <2>1, <2>3 DEF Clause
    <3>2. PICK k \in 1..Len(t) : k = id - Len(asserted)
      <4>1. PICK m, n : m = Len(asserted) /\ n = Len(t) /\ m \in Nat /\ n \in Nat
        BY <1>7, Zenon
      <4>2. id \in 1..(m + n) /\ id > m BY <2>1, <2>3, <4>1
      <4>3. id - m \in 1..n BY <4>1, <4>2
      <4>4. QED BY <4>1, <4>3
    <3>3. PICK i \in 1..Len(learned) : t[k] = learned[i] BY <1>6
    <3>4. PICK j \in Nat : j = Len(asserted) + i BY <1>7
    <3>5. j \in ClauseIds /\ ~(j <= Len(asserted)) /\ j - Len(asserted) = i
      BY <1>7, <3>4 DEF ClauseIds
    <3>6. QED BY <3>1, <3>2, <3>3, <3>5 DEF Clause
  <2>4. QED BY <1>7, <2>1, <2>2, <2>3
<1>9. learned' \in ClauseLists BY <1>2, <1>5, <1>6 DEF ClauseLists
<1>10. QED BY <1>8, <1>9

\* A restart forgets every assignment and the subsumed clauses.
LEMMA RestartSolverStep ==
  ASSUME LoopInv, RestartSolver
  PROVE  LoopInv'
<1>1. /\ pc = "jump" /\ pc' = "propagate" /\ Clear /\ BeforeBacktrack(0)
      /\ learned' = Survivors(learned, old_size) /\ old_size' = Len(learned')
      /\ restarts < MaxRestarts /\ restarts' = restarts + 1 /\ todo' = << >> /\ jump_level' = 0
      /\ UNCHANGED <<conflicts, asserted, bcpVars, work, top_level, position, minimized,
                     lemmas, lraVars, round_size, choices, verdict>>
  BY DEF RestartSolver
<1>2. /\ TrailInv /\ TrailTypeOK /\ BoolValued(model) /\ decision_level \in Nat
      /\ asserted \in ClauseLists /\ learned \in ClauseLists /\ verdict = "none"
  BY <1>1, InvTypes
<1>3. /\ TrailInv' /\ decision_level' = 0 /\ empty' /\ BoolValued(model')
      /\ \A v \in Vars : ~is_defined(v)' /\ var_reason'[v] = NoReason
      /\ \A lit \in Literals : ~True(lit)' /\ ~False(lit)'
  BY <1>1, <1>2, ClearEffect
<1>4. /\ learned' \in ClauseLists
      /\ \A id \in ClauseIds' : \E j \in ClauseIds : Clause(id)' = Clause(j)
  BY <1>1, <1>2, SurvivorsWereClauses
<1>5. /\ phase' \in [BoolVars -> BOOLEAN]
      /\ cursor' = ResetCursor /\ cursor' \in [level : Int, next : Nat]
      /\ cursor'.level = -1
  BY <1>1, PhasesKept
<1>6. SolverTypeOK'
  <2>1. Len(learned') \in Nat BY <1>4 DEF ClauseLists
  <2>2. restarts' \in 0..MaxRestarts
    BY <1>1, RestartAssumption DEF LoopInv, SolverTypeOK
  <2>3. TrailTypeOK' BY <1>3 DEF TrailInv
  <2>4. QED BY <1>1, <1>4, <1>5, <2>1, <2>2, <2>3, SMTT(30)
       DEF LoopInv, SolverTypeOK, ProgramPoints, bcpVars,
       lraVars
<1>7. AssignmentsOK' /\ ReasonsOK'
  BY <1>1, <1>2, ClearAssignments, ClearReasons
<1>8. DatabaseOK'
  <2>1. Problem' = Problem /\ Mentioned' = Mentioned /\ created' = created /\ Known' = Known
    BY <1>1 DEF Problem, Mentioned, Known, lraVars
  <2>2. ASSUME NEW id \in ClauseIds'
        PROVE  Clause(id)' # << >> /\ \A lit \in ToSet(Clause(id)') : VarOf(lit) \in Known
    BY <1>4 DEF LoopInv, DatabaseOK
  <2>3. QED BY <2>1, <2>2 DEF LoopInv, DatabaseOK
<1>9. WatchInv' BY <1>1, <1>3 DEF WatchInv, WatchesLive
<1>10. FalseWatchesOK'
  <2>1. /\ asserted' \in ClauseLists BY <1>1, <1>2
  <2>2. ASSUME NEW id \in ClauseIds', NEW i \in {1, 2}, Len(Clause(id)') > 1
        PROVE  ~False(Clause(id)[i])'
    <3>1. PICK y : y = Clause(id)'[i] OBVIOUS
    <3>2. PICK j \in ClauseIds : Clause(id)' = Clause(j) BY <1>4, <2>2
    <3>3. PICK n \in Nat : n = Len(Clause(j)) BY <1>2, ClauseTypes
    <3>4. i \in 1..n BY <2>2, <3>2, <3>3
    <3>5. y \in Literals BY <1>2, <3>1, <3>2, <3>3, <3>4, ClauseTypes
    <3>6. ~False(y)' BY <1>3, <3>5
    <3>7. QED BY <3>1, <3>6 DEF False
  <2>3. QED BY <2>2 DEF FalseWatchesOK
<1>11. UnitsOK' /\ CursorOK' BY <1>1, <1>3, <1>5 DEF UnitsOK, CursorOK
<1>12. AtomsOK'
  <2>1. ASSUME NEW a \in created'
        PROVE  ~is_defined(a)' /\ ~is_fully_assigned(a)'
    <3>1. a \in AtomVars /\ a \in Vars
      BY <1>1, <2>1, LraTypes DEF lraVars
    <3>2. PICK r \in AtomScope[a] : r \in RealVars /\ r \in Vars
      BY <3>1, BoolsAndReals
    <3>3. ~is_defined(r)' BY <1>3, <3>2
    <3>4. QED BY <1>3, <3>1, <3>2, <3>3 DEF is_fully_assigned, Unassigned
  <2>2. Propagatable' = {} BY <2>1 DEF Propagatable
  <2>3. QED BY <1>3, <2>1, <2>2 DEF AtomsOK
<1>13. ConflictsOK' /\ LemmasOK'
  <2>1. conflicts = << >> /\ lemmas = << >> /\ work = {} /\ minimized = NothingMinimized
    BY <1>1 DEF LoopInv, ConflictsOK, LemmasOK
  <2>2. conflicts' = << >> /\ lemmas' = << >> /\ work' = {} /\ minimized' = NothingMinimized
    BY <1>1, <2>1
  <2>3. QED BY <1>1, <2>2 DEF ConflictsOK, LemmasOK
<1>14. ExplainOK' /\ ResolveOK' /\ MinimizeOK' /\ JumpOK' /\ UnitOK' /\ SplitOK' /\ AnswerOK' /\ StackOK'
  BY <1>1, <1>2, Elsewhere
<1>15. QED BY <1>3, <1>6, <1>7, <1>8, <1>9, <1>10, <1>11, <1>12, <1>13, <1>14 DEF LoopInv

\* After the answer nothing changes.
LEMMA NothingChanges ==
  ASSUME LoopInv, UNCHANGED vars
  PROVE  LoopInv'
<1>1. Steady /\ UNCHANGED <<pc, conflicts, bcpVars, phase, cursor, analysisVars, lraVars, loopVars>>
  BY DEF vars, Steady, lraVars
<1>2. /\ TrailInv' /\ AssignmentsOK' /\ DatabaseOK' /\ ReasonsOK' /\ TrailTypeOK'
      /\ decision_level' = decision_level /\ recent' = recent
  BY <1>1, SteadyMost DEF TrailInv
<1>3. SolverTypeOK'
  BY <1>1, <1>2 DEF LoopInv, SolverTypeOK, ProgramPoints, dbVars, Steady, bcpVars, analysisVars,
     lraVars, loopVars
<1>4. /\ \A lit : /\ True(lit)' = True(lit) /\ False(lit)' = False(lit)
                  /\ LevelOf(lit)' = LevelOf(lit)
      /\ ClauseIds' = ClauseIds /\ empty' = empty /\ \A id : Clause(id)' = Clause(id)
      /\ \A l : assigned(l)' = assigned(l)
      /\ \A v : is_defined(v)' = is_defined(v) /\ TrueLiteralOf(v)' = TrueLiteralOf(v)
      /\ Known' = Known
  BY <1>1, SteadyLiterals DEF ClauseIds, Clause, assigned, is_defined, TrueLiteralOf, empty,
     Known, Mentioned, Steady, dbVars, trailVars
<1>5. WatchInv'
  <2>1. \A lit, id : Count(watched[lit], id)' = Count(watched[lit], id)
    BY <1>1 DEF bcpVars
  <2>2. WatchesLive' = WatchesLive /\ watched' = watched
    BY <1>1, <1>4 DEF WatchesLive, bcpVars
  <2>3. QED BY <1>4, <2>1, <2>2 DEF LoopInv, WatchInv
<1>6. Unseen' = Unseen /\ Visited' = Visited
  BY <1>1, <1>2 DEF Unseen, Visited, bcpVars
<1>7. /\ \A lit : OnStack(lit)' = OnStack(lit)
      /\ \A id : ImpliedOnStack(id)' = ImpliedOnStack(id)
      /\ \A id : NotVisited(id)' = NotVisited(id)
  BY <1>1, <1>6 DEF OnStack, ImpliedOnStack, NotVisited, bcpVars
<1>8. \A lit, id : Awaits(lit, id)' = Awaits(lit, id)
  BY <1>1, <1>6, <1>7 DEF Awaits, bcpVars
<1>9. FalseWatchesOK'
  BY <1>1, <1>2, <1>4, <1>8 DEF LoopInv, FalseWatchesOK, loopVars
<1>10. UnitsOK' /\ StackOK' /\ CursorOK'
  BY <1>1, <1>2, <1>4, <1>7 DEF LoopInv, UnitsOK, StackOK, CursorOK, bcpVars, loopVars
<1>11. \A a : /\ is_fully_assigned(a)' = is_fully_assigned(a)
               /\ AtomValue(a)' = AtomValue(a)
  BY <1>1 DEF is_fully_assigned, Unassigned, AtomValue, Agrees, is_defined, Steady, trailVars
<1>12. Propagatable' = Propagatable
  BY <1>1, <1>4, <1>11 DEF Propagatable, lraVars
<1>13. AtomsOK'
  <2>1. var_level' = var_level /\ model' = model /\ created' = created /\ satisfied' = satisfied
    BY <1>1 DEF Steady, trailVars, bcpVars
  <2>2. QED BY <1>1, <1>2, <1>4, <1>6, <1>11, <1>12, <2>1 DEF LoopInv, AtomsOK
<1>14. ExplainOK' BY <1>1, <1>4, <1>11 DEF LoopInv, ExplainOK, lraVars
<1>15. ConflictsOK' /\ ResolveOK'
  BY <1>1, <1>2, <1>4 DEF LoopInv, ConflictsOK, ResolveOK, AllFalse, Steady, trailVars, analysisVars
<1>16. /\ \A c, level : LemmaOK(c, level)' = LemmaOK(c, level)
       /\ \A c, level : IsSplit(c, level)' = IsSplit(c, level)
       /\ \A c, level : IsUip(c, level)' = IsUip(c, level)
       /\ \A c : AllFalse(c)' = AllFalse(c)
  <2>1. \A c : AllFalse(c)' = AllFalse(c)
    BY <1>1, <1>4 DEF AllFalse, Steady, trailVars
  <2>2. \A c, level : IsSplit(c, level)' = IsSplit(c, level)
    BY <1>1, <1>4 DEF IsSplit, Steady, trailVars
  <2>3. \A c, level : IsUip(c, level)' = IsUip(c, level)
    BY <1>1, <1>4 DEF IsUip, Steady, trailVars
  <2>4. QED BY <2>1, <2>2, <2>3 DEF LemmaOK
<1>17. /\ \A c : Sorted(c)' = Sorted(c)
       /\ \A c, p : FirstOfLevel(c, p)' = FirstOfLevel(c, p)
  <2>1. \A l, k : HigherLevelFirst(l, k)' = HigherLevelFirst(l, k)
    BY <1>1 DEF HigherLevelFirst, LevelOf, Steady, trailVars
  <2>2. \A c : Sorted(c)' = Sorted(c) BY <2>1 DEF Sorted
  <2>3. \A u, v : ListedBefore(u, v)' = ListedBefore(u, v)
    BY <1>1 DEF ListedBefore, assigned, Steady, trailVars
  <2>4. \A c, p : FirstOfLevel(c, p)' = FirstOfLevel(c, p)
    BY <1>4, <2>3 DEF FirstOfLevel
  <2>5. QED BY <2>2, <2>4
<1>18. MinimizeOK'
  <2>1. pc' = pc /\ work' = work /\ minimized' = minimized /\ var_reason' = var_reason
    BY <1>1 DEF Steady, trailVars, analysisVars
  <2>2. pc = "minimize" => (\A lit \in work : False(lit))'
    BY <1>4, <2>1 DEF LoopInv, MinimizeOK
  <2>3. QED BY <1>16, <1>17, <2>1, <2>2 DEF LoopInv, MinimizeOK
<1>19. LemmasOK' /\ JumpOK' /\ UnitOK' /\ SplitOK'
  BY <1>1, <1>2, <1>4, <1>16 DEF LoopInv, LemmasOK, JumpOK, UnitOK, SplitOK, analysisVars, loopVars
<1>20. AnswerOK'
  BY <1>1, <1>4, <1>11 DEF LoopInv, AnswerOK, SatModelCorrect, Steady, trailVars, lraVars, loopVars
<1>21. QED BY <1>2, <1>3, <1>5, <1>9, <1>10, <1>13, <1>14, <1>15, <1>18, <1>19, <1>20 DEF LoopInv

\* The solver starts with the clauses of a formula and an empty trail.
LEMMA LoopInit ==
  ASSUME Init
  PROVE  LoopInv
<1>1. PICK f \in Formulas : BoolInit(f) BY DEF Init
<1>2. /\ pc = "propagate" /\ conflicts = << >> /\ asserted = f /\ learned = << >>
      /\ watched = [lit \in Literals |-> << >>] /\ satisfied = << >> /\ visit = NoVisit
      /\ phase = [v \in BoolVars |-> TRUE] /\ cursor = [level |-> 0, next |-> 0]
  BY <1>1 DEF BoolInit
<1>3. /\ TrailInit /\ AnalysisInit /\ LraInit
      /\ round_size = 0 /\ todo = << >> /\ choices = {} /\ old_size = 0
      /\ restarts = 0 /\ verdict = "none"
  BY DEF Init
<1>4. TrailInv /\ TrailTypeOK BY <1>3, InitInv DEF TrailInv
<1>5. decision_level = 0 /\ empty /\ recent = << >> /\ Len(recent) = 0
  <2>1. trail = << << >> >> BY <1>3 DEF TrailInit
  <2>2. QED BY <2>1, EmptyTrail DEF decision_level, empty, recent
<1>6. \A v \in Vars : ~is_defined(v) /\ var_reason[v] = NoReason /\ model[v] = Undef
  BY <1>3, Zenon DEF TrailInit, is_defined
<1>7. BoolValued(model) BY <1>6, BoolsAndReals, Zenon DEF BoolValued
<1>8. \A lit \in Literals : ~True(lit) /\ ~False(lit)
  BY <1>4, <1>6, <1>7, FalseLiterals, LiteralTypes
<1>9. PICK S : S = Seq(Literals) \ {<< >>} BY Zenon
<1>10. /\ f \in Seq(S) /\ Len(f) \in Nat /\ \A k \in 1..Len(f) : f[k] \in S
  BY <1>9, FormulasAssumption
<1>11. f \in ClauseLists /\ << >> \in ClauseLists
  <2>1. f \in [1..Len(f) -> Seq(Literals)] BY <1>9, <1>10
  <2>2. PICK C : C = Seq(Literals) OBVIOUS
  <2>3. f \in Seq(C) BY <1>10, <2>1, <2>2, FunctionIsSeq
  <2>4. << >> \in Seq(C) OBVIOUS
  <2>5. QED BY <2>2, <2>3, <2>4 DEF ClauseLists
<1>12. SolverTypeOK
  <2>1. << >> \in Seq([clause : Nat, index : Nat]) OBVIOUS
  <2>2. watched \in [Literals -> Seq([clause : Nat, index : Nat])]
    BY <1>2, <2>1
  <2>3. << >> \in Seq([lit : Literals, reason : Reasons \cup {NoReason}])
    OBVIOUS
  <2>4. visit \in [lit : Literals \cup {0}, i : Nat] BY <1>2 DEF NoVisit
  <2>5. phase \in [BoolVars -> BOOLEAN] BY <1>2
  <2>6. cursor \in [level : Int, next : Nat] BY <1>2
  <2>7. << >> \in Seq(Literals) /\ << >> \in Seq(Nat) OBVIOUS
  <2>8. /\ work = {} /\ top_level = 0 /\ position = 0 /\ jump_level = 0 /\ lemmas = << >>
        /\ minimized \in [clause : Seq(Literals), kept : Seq(Literals), next : Nat, level : Int]
    BY <1>3, <2>7 DEF AnalysisInit, NothingMinimized
  <2>9. created \subseteq AtomVars /\ checked = {} /\ blame = {}
    BY <1>3 DEF LraInit
  <2>10. restarts \in 0..MaxRestarts BY <1>3, RestartAssumption
  <2>11. QED BY <1>2, <1>3, <1>4, <1>11, <2>2, <2>3, <2>4, <2>5, <2>6, <2>7, <2>8, <2>9, <2>10
       DEF SolverTypeOK, ProgramPoints
<1>13. \A id \in ClauseIds : id \in 1..Len(f) /\ Clause(id) = f[id] /\ Clause(id) \in S
  BY <1>2, <1>10 DEF ClauseIds, Clause
<1>14. AssignmentsOK /\ ReasonsOK
  BY <1>6, <1>7, BoolsAndReals DEF AssignmentsOK, ReasonsOK
<1>15. DatabaseOK
  <2>1. Problem \in Problems BY <1>2, <1>10 DEF Problem, Problems
  <2>2. ASSUME NEW id \in ClauseIds, NEW lit \in ToSet(Clause(id))
        PROVE  VarOf(lit) \in Known
    <3>1. Clause(id) \in ToSet(asserted) BY <1>2, <1>10, <1>13 DEF ToSet
    <3>2. QED BY <2>2, <3>1 DEF Known, Mentioned
  <2>3. \A id \in ClauseIds : Clause(id) # << >> BY <1>9, <1>13
  <2>4. AtomVars \cap Mentioned \subseteq created BY <1>3 DEF LraInit
  <2>5. QED BY <2>1, <2>2, <2>3, <2>4 DEF DatabaseOK
<1>16. WatchInv BY <1>2, <1>5 DEF WatchInv, WatchesLive
<1>17. FalseWatchesOK
  <2>1. ASSUME NEW id \in ClauseIds, NEW i \in {1, 2}, Len(Clause(id)) > 1
        PROVE  ~False(Clause(id)[i])
    <3>1. PICK c \in Seq(Literals) : c = Clause(id) BY <1>9, <1>13
    <3>2. PICK n \in Nat : n = Len(c) BY <3>1
    <3>3. i \in 1..n BY <2>1, <3>1, <3>2
    <3>4. c[i] \in Literals BY <3>1, <3>2, <3>3
    <3>5. QED BY <1>8, <3>1, <3>4
  <2>2. QED BY <2>1 DEF FalseWatchesOK
<1>18. UnitsOK /\ StackOK /\ CursorOK
  <2>1. cursor.level = 0 /\ cursor.next = 0 BY <1>2
  <2>2. QED BY <1>2, <1>5, <2>1 DEF UnitsOK, StackOK, CursorOK
<1>19. AtomsOK
  <2>1. ASSUME NEW a \in created
        PROVE  ~is_defined(a) /\ ~is_fully_assigned(a)
    <3>1. a \in AtomVars /\ a \in Vars
      BY <2>1, <1>12, BoolsAndReals DEF SolverTypeOK
    <3>2. PICK r \in AtomScope[a] : r \in RealVars /\ r \in Vars
      BY <3>1, BoolsAndReals
    <3>3. QED BY <1>6, <3>1, <3>2 DEF is_fully_assigned, Unassigned
  <2>2. Propagatable = {} BY <2>1 DEF Propagatable
  <2>3. QED BY <1>5, <2>1, <2>2 DEF AtomsOK
<1>20. /\ ExplainOK /\ ConflictsOK /\ ResolveOK /\ MinimizeOK /\ LemmasOK
       /\ JumpOK /\ UnitOK /\ SplitOK /\ AnswerOK
  <2>1. work = {} /\ lemmas = << >> /\ minimized = NothingMinimized
    BY <1>3 DEF AnalysisInit
  <2>2. QED BY <1>2, <1>3, <2>1 DEF ExplainOK, ConflictsOK, ResolveOK, MinimizeOK, LemmasOK, JumpOK, UnitOK,
       SplitOK, AnswerOK, SatModelCorrect
<1>21. QED BY <1>4, <1>12, <1>14, <1>15, <1>16, <1>17, <1>18, <1>19, <1>20 DEF LoopInv

-----------------------------------------------------------------------------
(* Backtracking.                                                           *)

\* A clause just learned, at the level to return to.
LearnedAt(c, level) ==
  /\ c \in Seq(Literals) /\ Len(c) \in Nat /\ Len(c) >= 1
  /\ \A p \in 1..Len(c) :
       /\ c[p] \in Literals /\ False(c[p]) /\ VarOf(c[p]) \in Known
       /\ LevelOf(c[p]) \in 0..decision_level

\* The level to return to exists and is below the current one, and either all
\* clauses split or all propagate there.
LEMMA JumpFacts ==
  ASSUME LoopInv, pc = "jump"
  PROVE  /\ decision_level \in Nat /\ jump_level \in 0..(decision_level - 1)
         /\ todo # << >> /\ todo \in Seq(Nat) /\ Len(todo) \in Nat /\ 1 \in 1..Len(todo)
         /\ \A k \in 1..Len(todo) :
              todo[k] \in ClauseIds /\ LearnedAt(Clause(todo[k]), jump_level)
         /\ IF is_semantic_split(Clause(todo[1]))
              THEN \A k \in 1..Len(todo) : IsSplit(Clause(todo[k]), jump_level)
              ELSE \A k \in 1..Len(todo) : IsUip(Clause(todo[k]), jump_level)
<1>1. /\ TrailInv /\ BoolValued(model) /\ decision_level \in Nat
      /\ asserted \in ClauseLists /\ learned \in ClauseLists
  BY InvTypes
<1>2. todo # << >> /\ todo \in Seq(Nat) /\ jump_level \in Int
  BY DEF LoopInv, JumpOK, SolverTypeOK
<1>3. Len(todo) \in Nat /\ 1 \in 1..Len(todo)
  <2>1. Len(todo) \in Nat /\ Len(todo) > 0 BY <1>2
  <2>2. QED BY <2>1
<1>4. \A k \in 1..Len(todo) : todo[k] \in ClauseIds /\ AllFalse(Clause(todo[k]))
  BY DEF LoopInv, JumpOK
<1>5. ASSUME NEW k \in 1..Len(todo)
      PROVE  LearnedAt(Clause(todo[k]), jump_level)
  <2>1. PICK id, c : id = todo[k] /\ id \in ClauseIds /\ c = Clause(id)
    BY <1>4, <1>5
  <2>2. /\ c \in Seq(Literals) /\ Len(c) \in Nat /\ c # << >>
        /\ \A p \in 1..Len(c) : c[p] \in Literals
    BY <1>1, <2>1, ClauseTypes DEF LoopInv, DatabaseOK
  <2>3. \A lit \in ToSet(c) : VarOf(lit) \in Known
    BY <2>1 DEF LoopInv, DatabaseOK
  <2>4. ASSUME NEW p \in 1..Len(c)
        PROVE  False(c[p]) /\ VarOf(c[p]) \in Known /\ LevelOf(c[p]) \in 0..decision_level
    <3>1. False(c[p]) /\ c[p] \in ToSet(c)
      BY <1>4, <2>1, <2>2, <2>4, ElementsOf DEF AllFalse
    <3>2. QED BY <1>1, <2>2, <2>3, <3>1, FalseLiterals
  <2>5. Len(c) >= 1 BY <2>2
  <2>6. QED BY <2>1, <2>2, <2>4, <2>5 DEF LearnedAt
<1>6. PICK c : c = Clause(todo[1]) /\ LearnedAt(c, jump_level)
  BY <1>3, <1>5
<1>7. IsSplit(c, jump_level) \/ IsUip(c, jump_level)
  BY <1>3, <1>6 DEF LoopInv, JumpOK
<1>8. PICK n \in Nat : n = Len(c) /\ n >= 1 BY <1>6 DEF LearnedAt
<1>9. jump_level \in 0..(decision_level - 1)
  <2>1. 1 \in 1..n BY <1>8
  <2>2. LevelOf(c[1]) \in 0..decision_level
    BY <1>6, <1>8, <2>1 DEF LearnedAt
  <2>3. jump_level >= 0 /\ LevelOf(c[1]) > jump_level
    BY <1>2, <1>7 DEF IsSplit, IsUip
  <2>4. QED BY <1>1, <1>2, <2>2, <2>3
<1>10. IsSplit(c, jump_level) => is_semantic_split(c)
  BY DEF IsSplit, is_semantic_split
<1>11. IsUip(c, jump_level) => ~is_semantic_split(c)
  <2>1. SUFFICES ASSUME IsUip(c, jump_level), is_semantic_split(c)
                 PROVE  FALSE
    OBVIOUS
  <2>2. n >= 2 /\ LevelOf(c[1]) = LevelOf(c[2])
    BY <1>8, <2>1 DEF is_semantic_split
  <2>3. LevelOf(c[2]) = jump_level /\ LevelOf(c[1]) > jump_level
    BY <1>8, <2>1, <2>2 DEF IsUip
  <2>4. QED BY <1>2, <2>2, <2>3
<1>12. IF is_semantic_split(Clause(todo[1]))
         THEN \A k \in 1..Len(todo) : IsSplit(Clause(todo[k]), jump_level)
         ELSE \A k \in 1..Len(todo) : IsUip(Clause(todo[k]), jump_level)
  BY <1>3, <1>6, <1>10, <1>11 DEF LoopInv, JumpOK
<1>13. QED BY <1>1, <1>2, <1>3, <1>4, <1>5, <1>9, <1>12

\* Undoing the upper levels leaves no constraint without its value.
LEMMA CutAtoms ==
  ASSUME LoopInv, NEW level \in 0..(decision_level - 1), CutsTo(level), TrailInv', UNCHANGED created
  PROVE  AtomsOK'
<1>1. TrailInv /\ TrailTypeOK /\ decision_level \in Nat /\ decision_level' = level
  BY InvTypes DEF CutsTo
<1>2. /\ created \subseteq AtomVars
      /\ \A a \in AtomVars : a \in Vars /\ AtomScope[a] \subseteq RealVars
  BY LraTypes
<1>3. \A r \in RealVars : r \in Vars BY BoolsAndReals
<1>4. ASSUME NEW v \in Vars
      PROVE  /\ is_defined(v)' <=> is_defined(v) /\ var_level[v] <= level
             /\ is_defined(v)' => model'[v] = model[v] /\ var_level'[v] = var_level[v]
  <2>1. /\ is_defined(v) => var_level[v] \in 0..decision_level
        /\ ~is_defined(v) => var_level[v] = -1
        /\ var_level[v] \in Int
    BY <1>1, <1>4, DefinedLevels
  <2>2. level \in Nat BY <1>1
  <2>3. CASE var_level[v] > level
    BY <1>4, <2>1, <2>2, <2>3 DEF CutsTo, is_defined
  <2>4. CASE ~(var_level[v] > level)
    BY <1>4, <2>1, <2>2, <2>4 DEF CutsTo, is_defined
  <2>5. QED BY <2>3, <2>4
<1>5. ASSUME NEW a \in created, NEW m \in 0..level,
             \A r \in AtomScope[a] : is_defined(r)' /\ var_level'[r] <= m
      PROVE  is_defined(a)' /\ var_level'[a] <= m
  <2>1. m \in 0..(decision_level - 1) /\ m <= level /\ m \in Int
    BY <1>1, <1>5
  <2>2. \A r \in AtomScope[a] : is_defined(r) /\ var_level[r] <= m
    BY <1>2, <1>3, <1>4, <1>5
  <2>3. is_defined(a) /\ var_level[a] <= m
    BY <1>5, <2>1, <2>2 DEF LoopInv, AtomsOK
  <2>4. a \in Vars /\ var_level[a] \in Int
    BY <1>1, <1>2, <1>5, DefinedLevels
  <2>5. var_level[a] <= level BY <1>1, <2>1, <2>3, <2>4
  <2>6. QED BY <1>4, <2>3, <2>4, <2>5
<1>6. ASSUME NEW a \in created, is_fully_assigned(a)'
      PROVE  /\ is_fully_assigned(a) /\ AtomValue(a)' = AtomValue(a)
             /\ is_defined(a)'
  <2>1. \A r \in AtomScope[a] : is_defined(r)'
    BY <1>6 DEF is_fully_assigned, Unassigned
  <2>2. \A r \in AtomScope[a] : is_defined(r) /\ model'[r] = model[r] /\ var_level'[r] <= level
    BY <1>2, <1>3, <1>4, <1>6, <2>1
  <2>3. is_fully_assigned(a) BY <2>2 DEF is_fully_assigned, Unassigned
  <2>4. \A rho : Agrees(rho, a)' <=> Agrees(rho, a)
    BY <2>1, <2>2 DEF Agrees
  <2>5. AtomValue(a)' = AtomValue(a) BY <2>4 DEF AtomValue
  <2>6. level \in 0..level BY <1>1
  <2>7. is_defined(a)' BY <1>5, <1>6, <2>1, <2>2, <2>6
  <2>8. QED BY <2>3, <2>5, <2>7
<1>7. Propagatable' = {} BY <1>6 DEF Propagatable
<1>8. \A a \in created : \A m \in 0..(level - 1) : m \in 0..level
  BY <1>1
<1>9. ASSUME NEW a \in created, is_defined(a)', is_fully_assigned(a)'
      PROVE  model'[a] = AtomValue(a)'
  <2>1. is_defined(a) /\ model'[a] = model[a] BY <1>2, <1>4, <1>9
  <2>2. QED BY <1>6, <1>9, <2>1 DEF LoopInv, AtomsOK
<1>10. QED BY <1>1, <1>5, <1>7, <1>8, <1>9 DEF AtomsOK

\* What is listed on the current level has not been seen after a backtrack.
LEMMA AllUnseen ==
  ASSUME TrailInv', cursor' \in [level : Int, next : Nat], cursor'.level = -1,
         NEW v \in Vars, is_defined(v)', var_level'[v] = decision_level'
  PROVE  v \in VarsIn(Unseen)'
<1>1. TrailTypeOK' BY DEF TrailInv
<1>2. \A w : (w \in VarsIn(Unseen)') <=> \E k \in 1..Len(recent') : k > UnseenFrom' /\ recent'[k].var = w
  BY <1>1, UnseenNext DEF UnseenIsTail
<1>3. /\ decision_level' \in Nat /\ recent' = assigned(decision_level)'
  <2>1. TrailTypeOK => decision_level \in Nat /\ recent = assigned(decision_level)
    BY ListTypes
  <2>2. (TrailTypeOK => decision_level \in Nat /\ recent = assigned(decision_level))'
    BY DEF TrailTypeOK, decision_level, recent, assigned
  <2>3. QED BY <1>1, <2>2
<1>4. UnseenFrom' = 0 BY <1>3 DEF UnseenFrom
<1>5. v \in VarsIn(assigned(decision_level))'
  <2>1. var_level'[v] # unassigned BY <1>3 DEF unassigned
  <2>2. PICK l : l = decision_level' OBVIOUS
  <2>3. v \in VarsIn(assigned(l)')
    BY <2>1, <2>2 DEF TrailInv, ListedAtOwnLevel, assigned, VarsIn
  <2>4. QED BY <2>2, <2>3 DEF assigned, VarsIn
<1>6. PICK list : list = recent' OBVIOUS
<1>7. PICK k \in 1..Len(list) : list[k].var = v
  BY <1>3, <1>5, <1>6 DEF VarsIn
<1>8. k \in 1..Len(recent') /\ k > UnseenFrom' /\ recent'[k].var = v
  <2>1. k > 0 BY <1>7
  <2>2. QED BY <1>4, <1>6, <1>7, <2>1
<1>9. QED BY <1>2, <1>8

\* Undoing the upper levels leaves the watches of the clauses safe, those of
\* the learned clauses included.
LEMMA CutFalseWatches ==
  ASSUME LoopInv, BacktrackWith, TrailInv', CutsTo(jump_level)
  PROVE  FalseWatchesOK'
<1>1. PICK L : L = jump_level OBVIOUS
<1>2. /\ TrailInv /\ BoolValued(model)
      /\ asserted \in ClauseLists /\ learned \in ClauseLists /\ pc = "jump"
  BY InvTypes DEF BacktrackWith
<1>3. /\ decision_level \in Nat /\ L \in 0..(decision_level - 1) /\ L \in 0..decision_level
      /\ L < decision_level /\ L \in Nat
      /\ \A k \in 1..Len(todo) : todo[k] \in ClauseIds /\ LearnedAt(Clause(todo[k]), L)
      /\ IF is_semantic_split(Clause(todo[1]))
           THEN \A k \in 1..Len(todo) : IsSplit(Clause(todo[k]), L)
           ELSE \A k \in 1..Len(todo) : IsUip(Clause(todo[k]), L)
      /\ todo \in Seq(Nat)
  BY <1>1, <1>2, JumpFacts
<1>4. /\ decision_level' = L /\ SameClauses
      /\ ClauseIds' = ClauseIds /\ \A id : Clause(id)' = Clause(id)
      /\ cursor' \in [level : Int, next : Nat] /\ cursor'.level = -1
      /\ IF is_semantic_split(Clause(todo[1]))
           THEN pc' = "split" /\ todo' = << >> ELSE pc' = "unit" /\ todo' = todo
  <2>1. SameClauses /\ BeforeBacktrack(jump_level) /\ jump_level \in Nat
    BY <1>1, <1>3 DEF BacktrackWith, SameClauses
  <2>2. /\ ClauseIds' = ClauseIds /\ \A id : Clause(id)' = Clause(id)
    BY <2>1, SameClausesFacts
  <2>3. QED BY <1>1, <2>1, <2>2, PhasesKept DEF BacktrackWith, CutsTo
<1>5. \A lit \in Literals :
        /\ True(lit)' <=> True(lit) /\ LevelOf(lit) <= L
        /\ False(lit)' <=> False(lit) /\ LevelOf(lit) <= L
        /\ LevelOf(lit) <= L => LevelOf(lit)' = LevelOf(lit)
  BY <1>1, <1>2, <1>3, CutsLiterals
<1>6. ASSUME NEW id \in ClauseIds, NEW i \in {1, 2}, NEW j, j = 3 - i, NEW c, c = Clause(id), Len(c) > 1,
             NEW x, x = c[i], NEW y, y = c[j], False(x)'
      PROVE  \/ True(y)' /\ LevelOf(y)' <= LevelOf(x)'
             \/ LevelOf(x)' = L /\ Awaits(x, id)'
  <2>1. PICK n \in Nat : n = Len(c) /\ n > 1 /\ n # 1
    BY <1>2, <1>6, ClauseTypes
  <2>2. i \in 1..n /\ j \in 1..n /\ j \in {1, 2} BY <1>6, <2>1
  <2>3. x \in Literals /\ y \in Literals
    BY <1>2, <1>6, <2>1, <2>2, ClauseTypes
  <2>4. False(x) /\ LevelOf(x) <= L /\ LevelOf(x)' = LevelOf(x)
    BY <1>5, <1>6, <2>3
  <2>5. LevelOf(x) \in Nat /\ LevelOf(y) \in Int
    BY <1>2, <2>3, <2>4, FalseLiterals
  <2>6. CASE id \notin ToSet(todo)
    <3>1. \/ True(y) /\ LevelOf(y) <= LevelOf(x)
          \/ LevelOf(x) = decision_level
      BY <1>6, <2>4, <2>6 DEF LoopInv, FalseWatchesOK
    <3>2. True(y) /\ LevelOf(y) <= LevelOf(x) BY <1>3, <2>4, <2>5, <3>1
    <3>3. LevelOf(y) <= L BY <1>3, <2>4, <2>5, <3>2
    <3>4. True(y)' /\ LevelOf(y)' = LevelOf(y) BY <1>5, <2>3, <3>2, <3>3
    <3>5. QED BY <2>4, <3>2, <3>4
  <2>7. CASE id \in ToSet(todo)
    <3>1. PICK k \in 1..Len(todo) : todo[k] = id
      BY <1>3, <2>7, ElementsOf
    <3>2. CASE is_semantic_split(Clause(todo[1]))
      <4>1. IsSplit(c, L) BY <1>3, <1>6, <3>1, <3>2
      <4>2. LevelOf(x) = L + 1 BY <1>6, <4>1 DEF IsSplit
      <4>3. QED BY <1>3, <2>4, <2>5, <4>2
    <3>3. CASE ~is_semantic_split(Clause(todo[1]))
      <4>1. IsUip(c, L) BY <1>3, <1>6, <3>1, <3>3
      <4>2. i = 2
        <5>1. LevelOf(c[1]) > L BY <4>1 DEF IsUip
        <5>2. i # 1 BY <1>3, <1>6, <2>4, <2>5, <5>1
        <5>3. QED BY <5>2, <1>6
      <4>3. n # 1 BY <2>1
      <4>4. LevelOf(x) = L BY <1>6, <2>1, <4>1, <4>2, <4>3 DEF IsUip
      <4>5. PICK v \in BoolVars : v = VarOf(x) /\ v \in Vars
        BY <2>3, LiteralTypes
      <4>6. var_level'[v] = L BY <2>4, <4>4, <4>5 DEF LevelOf
      <4>7. is_defined(v)'
        <5>1. DefinedIffLevel' BY DEF TrailInv
        <5>2. var_level'[v] # unassigned BY <1>3, <4>6 DEF unassigned
        <5>3. QED BY <4>5, <5>1, <5>2 DEF DefinedIffLevel
      <4>8. v \in VarsIn(Unseen)' BY <1>4, <4>5, <4>6, <4>7, AllUnseen
      <4>9. pc' = "unit" BY <1>4, <3>3
      <4>10. Awaits(x, id)' BY <4>5, <4>8, <4>9 DEF Awaits
      <4>11. QED BY <2>4, <4>4, <4>10
    <3>4. QED BY <3>2, <3>3
  <2>8. QED BY <2>6, <2>7
<1>7. SUFFICES ASSUME NEW id \in ClauseIds', NEW i \in {1, 2}, NEW c, c = Clause(id)', Len(c) > 1,
                      False(c[i])'
               PROVE  \/ True(c[3 - i])' /\ LevelOf(c[3 - i])' <= LevelOf(c[i])'
                      \/ LevelOf(c[i])' = decision_level' /\ Awaits(c[i], id)'
  BY DEF FalseWatchesOK
<1>8. PICK j, x, y : j = 3 - i /\ x = c[i] /\ y = c[j] OBVIOUS
<1>9. QED BY <1>4, <1>6, <1>7, <1>8

\* The literals of a split are those of the highest level of its clause.
LEMMA SplitFacts ==
  ASSUME NEW c, LearnedAt(c, jump_level), IsSplit(c, jump_level), NEW lit \in SplitLiterals(c)
  PROVE  /\ lit \in Literals /\ VarOf(lit) \in Known /\ False(lit)
         /\ LevelOf(lit) = jump_level + 1
         /\ var_reason[VarOf(lit)] = NoReason
<1>1. PICK n \in Nat : n = Len(c) /\ DOMAIN c = 1..n BY DEF LearnedAt
<1>2. PICK p \in 1..n : c[p] = lit /\ \A j \in 1..p : LevelOf(c[j]) = LevelOf(c[1])
  BY <1>1 DEF SplitLiterals
<1>3. p \in 1..p BY <1>1
<1>4. LevelOf(c[p]) = jump_level + 1 BY <1>2, <1>3 DEF IsSplit
<1>5. QED BY <1>1, <1>2, <1>4 DEF LearnedAt, IsSplit

\* Clauses that propagate have lost their first literal's value and kept the
\* others.
LEMMA UnitsAfter ==
  ASSUME LoopInv, BacktrackWith, CutsTo(jump_level), pc' = "unit"
  PROVE  UnitOK'
<1>1. PICK L : L = jump_level OBVIOUS
<1>2. /\ TrailInv /\ BoolValued(model) /\ pc = "jump"
      /\ asserted \in ClauseLists /\ learned \in ClauseLists
  BY InvTypes DEF BacktrackWith
<1>3. ~is_semantic_split(Clause(todo[1])) /\ todo' = todo
  BY DEF BacktrackWith
<1>4. /\ decision_level \in Nat /\ L \in 0..decision_level /\ L \in Nat
      /\ \A k \in 1..Len(todo) :
           todo[k] \in ClauseIds /\ LearnedAt(Clause(todo[k]), L) /\ IsUip(Clause(todo[k]), L)
  BY <1>1, <1>2, <1>3, JumpFacts
<1>5. /\ SameClauses /\ ClauseIds' = ClauseIds /\ \A id : Clause(id)' = Clause(id)
      /\ decision_level' = L /\ jump_level' = L
  <2>1. SameClauses /\ jump_level' = L
    BY <1>1 DEF BacktrackWith, SameClauses, analysisVars
  <2>2. QED BY <1>1, <2>1, SameClausesFacts DEF CutsTo
<1>6. \A lit \in Literals :
        /\ False(lit)' <=> False(lit) /\ LevelOf(lit) <= L
        /\ LevelOf(lit) <= L => LevelOf(lit)' = LevelOf(lit)
  BY <1>1, <1>2, <1>4, CutsLiterals
<1>7. ASSUME NEW k \in 1..Len(todo), NEW c, c = Clause(todo[k])
      PROVE  /\ ~False(c[1])'
             /\ \A p \in 2..Len(c) : False(c[p])'
             /\ IF Len(c) = 1 THEN L = 0 ELSE LevelOf(c[2])' = L
  <2>1. LearnedAt(c, L) /\ IsUip(c, L) BY <1>4, <1>7
  <2>2. PICK n \in Nat : n = Len(c) /\ n >= 1 BY <2>1 DEF LearnedAt
  <2>3. \A p \in 1..n : c[p] \in Literals /\ False(c[p]) /\ LevelOf(c[p]) \in Int
    BY <1>4, <2>1, <2>2 DEF LearnedAt
  <2>4. 1 \in 1..n /\ \A p \in 2..n : p \in 1..n BY <2>2
  <2>5. ~(LevelOf(c[1]) <= L) BY <1>4, <2>1, <2>3, <2>4 DEF IsUip
  <2>6. ~False(c[1])' BY <1>6, <2>3, <2>4, <2>5
  <2>7. \A p \in 2..n : LevelOf(c[p]) <= L BY <2>1, <2>2 DEF IsUip
  <2>8. \A p \in 2..n : False(c[p])' /\ LevelOf(c[p])' = LevelOf(c[p])
    BY <1>6, <2>3, <2>4, <2>7
  <2>9. n # 1 => 2 \in 2..n BY <2>2
  <2>10. n # 1 => LevelOf(c[2]) = L BY <2>1, <2>2 DEF IsUip
  <2>11. n = 1 => L = 0 BY <2>1, <2>2 DEF IsUip
  <2>12. n # 1 => LevelOf(c[2])' = L BY <2>8, <2>9, <2>10
  <2>13. \A p \in 2..Len(c) : False(c[p])' BY <2>2, <2>8
  <2>14. IF Len(c) = 1 THEN L = 0 ELSE LevelOf(c[2])' = L
    BY <2>2, <2>11, <2>12
  <2>15. QED BY <2>6, <2>13, <2>14
<1>8. ASSUME NEW j \in 1..Len(todo), NEW k \in 1..Len(todo),
             VarOf(Clause(todo[j])[1]) = VarOf(Clause(todo[k])[1])
      PROVE  Clause(todo[j])[1] = Clause(todo[k])[1]
  <2>1. PICK x, y : x = Clause(todo[j])[1] /\ y = Clause(todo[k])[1]
    OBVIOUS
  <2>2. x \in Literals /\ False(x)
    <3>1. PICK c : c = Clause(todo[j]) /\ LearnedAt(c, L) BY <1>4
    <3>2. PICK n \in Nat : n = Len(c) /\ 1 \in 1..n
      BY <3>1 DEF LearnedAt
    <3>3. QED BY <2>1, <3>1, <3>2 DEF LearnedAt
  <2>3. y \in Literals /\ False(y)
    <3>1. PICK c : c = Clause(todo[k]) /\ LearnedAt(c, L) BY <1>4
    <3>2. PICK n \in Nat : n = Len(c) /\ 1 \in 1..n
      BY <3>1 DEF LearnedAt
    <3>3. QED BY <2>1, <3>1, <3>2 DEF LearnedAt
  <2>4. x = y \/ x = -y BY <1>8, <2>1, <2>2, <2>3, SameVariable
  <2>5. x # -y BY <1>2, <2>2, <2>3, FalseLiterals
  <2>6. QED BY <2>1, <2>4, <2>5
<1>9. PICK t : t = todo /\ t = todo' BY <1>3
<1>10. SUFFICES /\ \A k \in 1..Len(t) : \A c : c = Clause(t[k])' =>
                     /\ t[k] \in ClauseIds'
                     /\ ~False(c[1])'
                     /\ \A p \in 2..Len(c) : False(c[p])'
                     /\ IF Len(c) = 1 THEN L = 0 ELSE LevelOf(c[2])' = L
                /\ \A j, k \in 1..Len(t) : \A x, y : x = Clause(t[j])'[1] /\ y = Clause(t[k])'[1] =>
                     (VarOf(x) = VarOf(y) => x = y)
  BY <1>5, <1>9 DEF UnitOK
<1>11. QED BY <1>4, <1>5, <1>7, <1>8, <1>9

\* Undoing the levels above the one the learned clauses name, and what is left
\* to do there.
LEMMA BacktrackWithStep ==
  ASSUME LoopInv, BacktrackWith
  PROVE  LoopInv'
<1>1. PICK L : L = jump_level OBVIOUS
<1>2. PICK first : first = Clause(todo[1]) OBVIOUS
<1>3. /\ TrailInv /\ BoolValued(model) /\ pc = "jump" /\ verdict = "none"
      /\ asserted \in ClauseLists /\ learned \in ClauseLists
  BY InvTypes DEF BacktrackWith
<1>4. /\ decision_level \in Nat /\ L \in 0..(decision_level - 1)
      /\ L \in 0..decision_level /\ L \in Nat
      /\ \A k \in 1..Len(todo) : todo[k] \in ClauseIds /\ LearnedAt(Clause(todo[k]), L)
      /\ IF is_semantic_split(first)
           THEN \A k \in 1..Len(todo) : IsSplit(Clause(todo[k]), L)
           ELSE \A k \in 1..Len(todo) : IsUip(Clause(todo[k]), L)
      /\ todo \in Seq(Nat) /\ 1 \in 1..Len(todo)
  BY <1>1, <1>2, <1>3, JumpFacts
<1>5. /\ Backtrack(L) /\ BeforeBacktrack(L) /\ SameClauses
      /\ UNCHANGED <<conflicts, dbVars, bcpVars, analysisVars, lraVars,
                     round_size, old_size, restarts, verdict>>
      /\ IF is_semantic_split(first)
           THEN choices' = SplitLiterals(first) /\ todo' = << >> /\ pc' = "split"
           ELSE pc' = "unit" /\ choices' = choices /\ todo' = todo
  BY <1>1, <1>2 DEF BacktrackWith, SameClauses
<1>6. TrailInv' /\ CutsTo(L) /\ decision_level' = L
  BY <1>3, <1>4, <1>5, BacktrackEffect DEF CutsTo
<1>7. /\ ClauseIds' = ClauseIds /\ Problem' = Problem /\ Mentioned' = Mentioned
      /\ \A id : Clause(id)' = Clause(id)
      /\ DbStays
  BY <1>5, SameClausesFacts
<1>8. created' = created /\ Known' = Known
  BY <1>5, <1>7 DEF lraVars, Known
<1>9. AssignmentsOK' /\ ReasonsOK'
  BY <1>3, <1>4, <1>6, <1>7, <1>8, CutAssignments, CutReasons DEF LoopInv
<1>10. DatabaseOK' BY <1>7, <1>8 DEF LoopInv, DatabaseOK
<1>11. WatchInv'
  BY <1>3, <1>5, WatchesStay DEF bcpVars, WatchesLive, LoopInv
<1>12. FalseWatchesOK' BY <1>1, <1>6, CutFalseWatches
<1>13. /\ phase' \in [BoolVars -> BOOLEAN]
       /\ cursor' = ResetCursor /\ cursor' \in [level : Int, next : Nat]
       /\ cursor'.level = -1
  BY <1>4, <1>5, PhasesKept
<1>14. \A lit \in Literals :
         /\ True(lit)' <=> True(lit) /\ LevelOf(lit) <= L
         /\ False(lit)' <=> False(lit) /\ LevelOf(lit) <= L
         /\ LevelOf(lit) <= L => LevelOf(lit)' = LevelOf(lit)
  BY <1>3, <1>4, <1>6, CutsLiterals
<1>15. ASSUME is_semantic_split(first), NEW lit \in choices'
       PROVE  lit \in Literals /\ ~is_defined(VarOf(lit))' /\ VarOf(lit) \in Known'
  <2>1. LearnedAt(first, L) /\ IsSplit(first, L) /\ lit \in SplitLiterals(first)
    BY <1>2, <1>4, <1>5, <1>15
  <2>2. lit \in Literals /\ VarOf(lit) \in Known /\ LevelOf(lit) = L + 1
    BY <1>1, <2>1, SplitFacts
  <2>3. VarOf(lit) \in Vars /\ var_level[VarOf(lit)] > L
    BY <1>4, <2>2, LiteralTypes DEF LevelOf
  <2>4. model'[VarOf(lit)] = Undef BY <1>6, <2>3 DEF CutsTo
  <2>5. QED BY <1>8, <2>2, <2>4 DEF is_defined
<1>16. SolverTypeOK'
  <2>1. choices' \subseteq Literals /\ todo' \in Seq(Nat)
    <3>1. choices \subseteq Literals /\ << >> \in Seq(Nat)
      BY DEF LoopInv, SolverTypeOK
    <3>2. QED BY <1>4, <1>5, <1>15, <3>1, Zenon
  <2>2. TrailTypeOK' BY <1>6 DEF TrailInv
  <2>3. QED BY <1>5, <1>13, <2>1, <2>2, Zenon
       DEF LoopInv, SolverTypeOK, ProgramPoints, dbVars, bcpVars,
       analysisVars, lraVars
<1>17. UnitsOK'
  <2>1. ASSUME NEW id \in ClauseIds, NEW c, c = Clause(id), Len(c) = 1
        PROVE  \/ True(c[1])' /\ LevelOf(c[1])' = 0
               \/ pc' = "unit" /\ id \in ToSet(todo')
    <3>1. c[1] \in Literals
      <4>1. PICK n \in Nat : n = Len(c) /\ 1 \in 1..n BY <2>1
      <4>2. QED BY <1>3, <2>1, <4>1, ClauseTypes
    <3>2. CASE True(c[1]) /\ LevelOf(c[1]) = 0
      <4>1. LevelOf(c[1]) <= L BY <1>4, <3>2
      <4>2. QED BY <1>14, <3>1, <3>2, <4>1
    <3>3. CASE id \in ToSet(todo)
      <4>1. PICK k \in 1..Len(todo) : todo[k] = id
        BY <1>4, <3>3, ElementsOf
      <4>2. ~IsSplit(c, L) BY <2>1 DEF IsSplit
      <4>3. ~is_semantic_split(first) BY <1>4, <2>1, <4>1, <4>2
      <4>4. QED BY <1>5, <3>3, <4>3
    <3>4. QED BY <1>3, <2>1, <3>2, <3>3 DEF LoopInv, UnitsOK
  <2>2. QED BY <1>7, <2>1 DEF UnitsOK
<1>18. CursorOK' BY <1>4, <1>5, <1>6, <1>13 DEF CursorOK
<1>19. AtomsOK' BY <1>4, <1>6, <1>8, CutAtoms
<1>20. ConflictsOK' /\ LemmasOK'
  <2>1. conflicts = << >> /\ lemmas = << >> /\ work = {} /\ minimized = NothingMinimized
    BY <1>3 DEF LoopInv, ConflictsOK, LemmasOK
  <2>2. conflicts' = << >> /\ lemmas' = << >> /\ work' = {} /\ minimized' = NothingMinimized
    BY <1>5, <2>1 DEF analysisVars
  <2>3. QED BY <1>5, <2>2 DEF ConflictsOK, LemmasOK
<1>21. pc' = "unit" => UnitOK' BY <1>1, <1>6, UnitsAfter
<1>22. pc' = "split" => SplitOK' BY <1>5, <1>15 DEF SplitOK
<1>23. ExplainOK' /\ ResolveOK' /\ MinimizeOK' /\ JumpOK' /\ UnitOK' /\ SplitOK' /\ AnswerOK' /\ StackOK'
  BY <1>3, <1>5, <1>21, <1>22, Elsewhere
<1>24. QED BY <1>6, <1>9, <1>10, <1>11, <1>12, <1>16, <1>17, <1>18, <1>19, <1>20, <1>23 DEF LoopInv

-----------------------------------------------------------------------------
(* Learning.                                                               *)

\* The order of the learned clauses, by length and then by their literals, is
\* strict.
LEMMA LearnedBeforeIrreflexive ==
  ASSUME NEW c \in Seq(Literals)
  PROVE  ~LearnedBefore(c, c)
<1>1. Len(c) \in Nat /\ DOMAIN c = 1..Len(c) /\ \A i \in 1..Len(c) : c[i] \in Literals
  OBVIOUS
<1>2. \A i \in 1..Len(c) : LitIndex(c[i]) \in Int BY <1>1, LiteralOrder
<1>3. QED BY <1>1, <1>2 DEF LearnedBefore, LexBefore

\* What a clause holds.
LEMMA LiteralsOf ==
  ASSUME NEW c \in Seq(Literals)
  PROVE  \A j \in 1..Len(c) : c[j] \in Literals
OBVIOUS

\* It is transitive: the first difference of c and e is at the earlier of the
\* first differences of c and d and of d and e.
LEMMA LearnedBeforeTransitive ==
  ASSUME NEW c \in Seq(Literals), NEW d \in Seq(Literals), NEW e \in Seq(Literals),
         LearnedBefore(c, d), LearnedBefore(d, e)
  PROVE  LearnedBefore(c, e)
<1>1. /\ Len(c) \in Nat /\ DOMAIN c = 1..Len(c) /\ Len(d) \in Nat /\ DOMAIN d = 1..Len(d)
      /\ Len(e) \in Nat /\ DOMAIN e = 1..Len(e)
  OBVIOUS
<1>2. CASE Len(c) = Len(d) /\ Len(d) = Len(e)
  <2>1. PICK n \in Nat : n = Len(c) /\ n = Len(d) /\ n = Len(e)
    BY <1>1, <1>2, Zenon
  <2>2. PICK i \in 1..n : LitIndex(c[i]) < LitIndex(d[i]) /\ \A j \in 1..(i - 1) : c[j] = d[j]
    BY <1>1, <2>1 DEF LearnedBefore, LexBefore
  <2>3. PICK k \in 1..n : LitIndex(d[k]) < LitIndex(e[k]) /\ \A j \in 1..(k - 1) : d[j] = e[j]
    BY <1>1, <2>1 DEF LearnedBefore, LexBefore
  <2>4. \A j \in 1..n : c[j] \in Literals /\ d[j] \in Literals /\ e[j] \in Literals
    <3>1. \A j \in 1..n : c[j] \in Literals BY <1>1, <2>1, LiteralsOf
    <3>2. \A j \in 1..n : d[j] \in Literals BY <1>1, <2>1, LiteralsOf
    <3>3. \A j \in 1..n : e[j] \in Literals BY <1>1, <2>1, LiteralsOf
    <3>4. QED BY <3>1, <3>2, <3>3
  <2>5. \A j \in 1..n : LitIndex(c[j]) \in Int /\ LitIndex(d[j]) \in Int /\ LitIndex(e[j]) \in Int
    BY <2>4, LiteralOrder
  <2>6. \E m \in 1..n : LitIndex(c[m]) < LitIndex(e[m]) /\ \A j \in 1..(m - 1) : c[j] = e[j]
    <3>1. CASE i < k
      <4>1. i \in 1..(k - 1) /\ \A j \in 1..(i - 1) : j \in 1..(k - 1)
        BY <2>1, <2>2, <2>3, <3>1
      <4>2. d[i] = e[i] /\ \A j \in 1..(i - 1) : c[j] = e[j]
        BY <2>2, <2>3, <4>1
      <4>3. QED BY <2>2, <4>2
    <3>2. CASE k < i
      <4>1. k \in 1..(i - 1) /\ \A j \in 1..(k - 1) : j \in 1..(i - 1)
        BY <2>1, <2>2, <2>3, <3>2
      <4>2. c[k] = d[k] /\ \A j \in 1..(k - 1) : c[j] = e[j]
        BY <2>2, <2>3, <4>1
      <4>3. QED BY <2>3, <4>2
    <3>3. CASE k = i
      <4>1. LitIndex(c[i]) < LitIndex(e[i]) BY <2>2, <2>3, <2>5, <3>3
      <4>2. \A j \in 1..(i - 1) : c[j] = e[j] BY <2>2, <2>3, <3>3
      <4>3. QED BY <4>1, <4>2
    <3>4. QED BY <2>2, <2>3, <3>1, <3>2, <3>3
  <2>7. QED BY <1>1, <2>1, <2>6 DEF LearnedBefore, LexBefore
<1>3. CASE Len(c) < Len(e) BY <1>3 DEF LearnedBefore
<1>4. /\ Len(c) < Len(d) \/ Len(c) = Len(d)
      /\ Len(d) < Len(e) \/ Len(d) = Len(e)
  BY DEF LearnedBefore
<1>5. PICK p, q, r : p = Len(c) /\ q = Len(d) /\ r = Len(e) /\ p \in Nat /\ q \in Nat /\ r \in Nat
  BY <1>1, Zenon
<1>6. p < r \/ (p = q /\ q = r) BY <1>4, <1>5
<1>7. QED BY <1>2, <1>3, <1>5, <1>6

\* Any two clauses are ordered.
LEMMA LearnedBeforeTotal ==
  ASSUME NEW c \in Seq(Literals), NEW d \in Seq(Literals), c # d
  PROVE  LearnedBefore(c, d) \/ LearnedBefore(d, c)
<1>1. /\ Len(c) \in Nat /\ DOMAIN c = 1..Len(c) /\ Len(d) \in Nat /\ DOMAIN d = 1..Len(d)
  OBVIOUS
<1>2. CASE Len(c) = Len(d)
  <2>1. PICK n \in Nat : n = Len(c) /\ n = Len(d) /\ DOMAIN c = 1..n /\ DOMAIN d = 1..n
    BY <1>1, <1>2, Zenon
  <2>2. PICK T : T = {i \in 1..n : c[i] # d[i]} BY Zenon
  <2>3. T \in SUBSET Nat /\ T # {}
    <3>1. \E i \in 1..n : c[i] # d[i] BY <2>1
    <3>2. QED BY <2>2, <3>1
  <2>4. PICK m \in T : \A j \in T : m <= j BY <2>3, LeastNatural
  <2>5. m \in 1..n /\ c[m] # d[m] BY <2>2, <2>4
  <2>6. \A j \in 1..(m - 1) : c[j] = d[j] BY <2>2, <2>4, <2>5
  <2>7. c[m] \in Literals /\ d[m] \in Literals BY <2>1, <2>5
  <2>8. LitIndex(c[m]) \in Int /\ LitIndex(d[m]) \in Int /\ LitIndex(c[m]) # LitIndex(d[m])
    BY <2>5, <2>7, LiteralOrder
  <2>9. CASE LitIndex(c[m]) < LitIndex(d[m])
    BY <2>1, <2>5, <2>6, <2>9 DEF LearnedBefore, LexBefore
  <2>10. CASE LitIndex(d[m]) < LitIndex(c[m])
    BY <2>1, <2>5, <2>6, <2>10 DEF LearnedBefore, LexBefore
  <2>11. QED BY <2>8, <2>9, <2>10
<1>3. PICK p, q : p = Len(c) /\ q = Len(d) /\ p \in Nat /\ q \in Nat
  BY <1>1, Zenon
<1>4. p < q \/ q < p \/ p = q BY <1>3
<1>5. QED BY <1>2, <1>3, <1>4 DEF LearnedBefore

\* The analysed clauses without repetition.
LEMMA DistinctFound ==
  ASSUME LoopInv
  PROVE  /\ DistinctLemmas \in ClauseLists /\ Len(DistinctLemmas) \in Nat
         /\ \A k \in 1..Len(DistinctLemmas) : DistinctLemmas[k] \in ToSet(lemmas)
         /\ \A c \in ToSet(lemmas) : \E k \in 1..Len(DistinctLemmas) : DistinctLemmas[k] = c
<1>1. PICK C : C = Seq(Literals) OBVIOUS
<1>2. lemmas \in Seq(C) BY <1>1 DEF LoopInv, SolverTypeOK, ClauseLists
<1>3. PICK S : S = ToSet(lemmas) OBVIOUS
<1>4. S \subseteq C BY <1>2, <1>3, ElementsOf
<1>5. IsFiniteSet(S)
  <2>1. PICK n \in Nat : n = Len(lemmas) /\ DOMAIN lemmas = 1..n BY <1>2
  <2>2. IsFiniteSet(1..n) BY <2>1, FS_Interval
  <2>3. S = {lemmas[k] : k \in 1..n} BY <1>3, <2>1 DEF ToSet
  <2>4. PICK g : g = [k \in 1..n |-> lemmas[k]] BY Zenon
  <2>5. g \in Surjection(1..n, S) BY <2>3, <2>4 DEF Surjection
  <2>6. QED BY <2>2, <2>5, FS_Surjection
<1>6. PICK ranking : ranking = {pair \in S \X S : LearnedBefore(pair[1], pair[2])}
  BY Zenon
<1>7. \A x, y \in S : <<x, y>> \in ranking <=> LearnedBefore(x, y)
  BY <1>6
<1>8. \A x \in S : <<x, x>> \notin ranking
  BY <1>1, <1>4, <1>7, LearnedBeforeIrreflexive
<1>9. \A x, y, z \in S : <<x, y>> \in ranking /\ <<y, z>> \in ranking => <<x, z>> \in ranking
  BY <1>1, <1>4, <1>7, LearnedBeforeTransitive
<1>10. \A x, y \in S : x # y => <<x, y>> \in ranking \/ <<y, x>> \in ranking
  BY <1>1, <1>4, <1>7, LearnedBeforeTotal
<1>11. /\ Ranked(S, ranking) \in Seq(S)
       /\ \A x \in S : \E k \in 1..Len(Ranked(S, ranking)) : Ranked(S, ranking)[k] = x
  BY <1>5, <1>8, <1>9, <1>10, RankedSorts
<1>12. PICK t : t = DistinctLemmas OBVIOUS
<1>13. t = Ranked(S, ranking)
  BY <1>3, <1>6, <1>12 DEF DistinctLemmas, SortedList
<1>14. t \in Seq(S) /\ Len(t) \in Nat /\ \A k \in 1..Len(t) : t[k] \in S
  BY <1>11, <1>13
<1>15. t \in Seq(C)
  <2>1. t \in [1..Len(t) -> C] BY <1>4, <1>14
  <2>2. QED BY <1>14, <2>1, FunctionIsSeq
<1>16. QED BY <1>1, <1>3, <1>11, <1>12, <1>13, <1>14, <1>15, ZenonT(40) DEF ClauseLists

\* What may be learned: a list of false clauses that all propagate or all split.
Learnable(new) ==
  /\ new \in ClauseLists /\ Len(new) \in Nat /\ Len(new) >= 1
  /\ \A k \in 1..Len(new) : AllFalse(new[k]) /\ new[k] # << >>
  /\ \/ \A k \in 1..Len(new) : IsSplit(new[k], jump_level)
     \/ \A k \in 1..Len(new) : IsUip(new[k], jump_level)

\* The analysed clauses that are preferred may be learned.
LEMMA PreferredAreLearnable ==
  ASSUME LoopInv, pc = "learn", << >> \notin ToSet(lemmas)
  PROVE  Learnable(PreferredLemmas)
<1>1. PICK d : d = DistinctLemmas OBVIOUS
<1>2. /\ d \in ClauseLists /\ Len(d) \in Nat
      /\ \A k \in 1..Len(d) : d[k] \in ToSet(lemmas)
      /\ \A c \in ToSet(lemmas) : \E k \in 1..Len(d) : d[k] = c
  BY <1>1, DistinctFound
<1>3. lemmas \in ClauseLists /\ lemmas # << >> /\ jump_level \in Int
  BY DEF LoopInv, SolverTypeOK, LemmasOK
<1>4. ASSUME NEW k \in 1..Len(d)
      PROVE  /\ AllFalse(d[k]) /\ d[k] # << >>
             /\ IF is_semantic_split(d[k]) THEN IsSplit(d[k], jump_level)
                                           ELSE IsUip(d[k], jump_level)
  <2>1. PICK c : c = d[k] /\ c \in ToSet(lemmas) BY <1>2, <1>4
  <2>2. PICK C : C = Seq(Literals) OBVIOUS
  <2>3. lemmas \in Seq(C) BY <1>3, <2>2 DEF ClauseLists
  <2>4. c \in Seq(Literals) /\ \E i \in 1..Len(lemmas) : lemmas[i] = c
    BY <2>1, <2>2, <2>3, ElementsOf, Zenon
  <2>5. LemmaOK(c, jump_level) /\ c # << >>
    BY <2>1, <2>4 DEF LoopInv, LemmasOK
  <2>6. AllFalse(c) /\ (IsSplit(c, jump_level) \/ IsUip(c, jump_level))
    BY <2>5 DEF LemmaOK
  <2>7. IsSplit(c, jump_level) => is_semantic_split(c)
    BY DEF IsSplit, is_semantic_split
  <2>8. IsUip(c, jump_level) => ~is_semantic_split(c)
    <3>1. SUFFICES ASSUME IsUip(c, jump_level), is_semantic_split(c)
                   PROVE  FALSE
      OBVIOUS
    <3>2. PICK n : n = Len(c) /\ n \in Nat /\ n >= 2 /\ n # 1
      BY <2>4, <3>1 DEF is_semantic_split
    <3>3. LevelOf(c[1]) = LevelOf(c[2]) BY <3>1 DEF is_semantic_split
    <3>4. LevelOf(c[2]) = jump_level /\ LevelOf(c[1]) > jump_level
      BY <3>1, <3>2 DEF IsUip
    <3>5. QED BY <1>3, <3>3, <3>4
  <2>9. QED BY <2>1, <2>5, <2>6, <2>7, <2>8
<1>5. PICK keep : keep = {k \in DOMAIN d : ~is_semantic_split(d[k])}
  BY Zenon
<1>6. PICK uips : uips = Chosen(d, keep) OBVIOUS
<1>7. PICK C : C = Seq(Literals) OBVIOUS
<1>8. d \in Seq(C) /\ DOMAIN d = 1..Len(d) BY <1>2, <1>7 DEF ClauseLists
<1>9. /\ Chosen(d, keep) \in Seq(C)
      /\ \A k \in 1..Len(Chosen(d, keep)) :
           \E i \in 1..Len(d) : i \in keep /\ Chosen(d, keep)[k] = d[i]
      /\ \A i \in 1..Len(d) : i \in keep =>
           \E k \in 1..Len(Chosen(d, keep)) : Chosen(d, keep)[k] = d[i]
  BY <1>8, ChosenElements, SMTT(30)
<1>10. /\ uips \in ClauseLists /\ Len(uips) \in Nat
       /\ \A k \in 1..Len(uips) : \E i \in 1..Len(d) : i \in keep /\ uips[k] = d[i]
       /\ \A i \in 1..Len(d) : i \in keep => \E k \in 1..Len(uips) : uips[k] = d[i]
  BY <1>6, <1>7, <1>9 DEF ClauseLists
<1>11. PreferredLemmas = IF uips # << >> THEN uips ELSE d
  BY <1>1, <1>5, <1>6 DEF PreferredLemmas
<1>12. CASE uips # << >>
  <2>1. Len(uips) >= 1 BY <1>7, <1>10, <1>12 DEF ClauseLists
  <2>2. ASSUME NEW k \in 1..Len(uips)
        PROVE  AllFalse(uips[k]) /\ uips[k] # << >> /\ IsUip(uips[k], jump_level)
    <3>1. PICK i \in 1..Len(d) : i \in keep /\ uips[k] = d[i]
      BY <1>10, <2>2
    <3>2. ~is_semantic_split(d[i]) BY <1>5, <3>1
    <3>3. QED BY <1>4, <3>1, <3>2
  <2>3. QED BY <1>10, <1>11, <1>12, <2>1, <2>2 DEF Learnable
<1>13. CASE uips = << >>
  <2>1. \A i \in 1..Len(d) : i \notin keep BY <1>10, <1>13
  <2>2. \A i \in 1..Len(d) : is_semantic_split(d[i]) BY <1>5, <1>8, <2>1
  <2>3. \A i \in 1..Len(d) : AllFalse(d[i]) /\ d[i] # << >> /\ IsSplit(d[i], jump_level)
    BY <1>4, <2>2
  <2>4. Len(d) >= 1
    <3>1. PICK n \in Nat : n = Len(lemmas) /\ n >= 1
      BY <1>3, <1>7 DEF ClauseLists
    <3>2. 1 \in 1..n BY <3>1
    <3>3. lemmas[1] \in ToSet(lemmas)
      BY <1>3, <3>1, <3>2 DEF ToSet, ClauseLists
    <3>4. PICK k \in 1..Len(d) : TRUE BY <1>2, <3>3
    <3>5. QED BY <1>2, <3>4
  <2>5. QED BY <1>2, <1>11, <1>13, <2>3, <2>4 DEF Learnable
<1>14. QED BY <1>12, <1>13

\* The number of the first new clause is m + 1, and the old clauses stay.
Extends(new, m) ==
  /\ m \in Nat /\ m = Len(asserted) + Len(learned) /\ ClauseIds = 1..m
  /\ asserted' \in ClauseLists /\ learned' \in ClauseLists
  /\ ClauseIds' = 1..(m + Len(new)) /\ Len(new) \in Nat
  /\ \A id \in 1..m : Clause(id)' = Clause(id)
  /\ \A k \in 1..Len(new) : m + k \in ClauseIds' /\ Clause(m + k)' = new[k]
  /\ \A id \in ClauseIds' : id \in 1..m \/ \E k \in 1..Len(new) : id = m + k

\* Putting clauses behind the learned ones keeps the numbers of the others.
LEMMA DatabaseExtends ==
  ASSUME asserted \in ClauseLists, learned \in ClauseLists, NEW new \in ClauseLists,
         UNCHANGED asserted, learned' = learned \o new
  PROVE  Extends(new, Len(asserted) + Len(learned))
<1>1. PICK C : C = Seq(Literals) OBVIOUS
<1>2. asserted \in Seq(C) /\ learned \in Seq(C) /\ new \in Seq(C)
  BY <1>1 DEF ClauseLists
<1>3. PICK a, l, n : /\ a = Len(asserted) /\ l = Len(learned) /\ n = Len(new)
                     /\ a \in Nat /\ l \in Nat /\ n \in Nat
  <2>1. Len(asserted) \in Nat BY <1>2
  <2>2. Len(learned) \in Nat BY <1>2
  <2>3. Len(new) \in Nat BY <1>2
  <2>4. QED BY <2>1, <2>2, <2>3, Zenon
<1>4. PICK t : t = learned' OBVIOUS
<1>5. /\ t \in Seq(C) /\ Len(t) = l + n
      /\ \A k \in 1..l : t[k] = learned[k]
      /\ \A k \in 1..n : t[l + k] = new[k]
  BY <1>2, <1>3, <1>4
<1>6. ClauseIds = 1..(a + l) /\ ClauseIds' = 1..((a + l) + n)
  BY <1>3, <1>4, <1>5 DEF ClauseIds
<1>7. ASSUME NEW id \in 1..(a + l)
      PROVE  Clause(id)' = Clause(id)
  <2>1. CASE id <= a BY <1>3, <2>1 DEF Clause
  <2>2. CASE ~(id <= a)
    <3>1. id - a \in 1..l BY <1>3, <1>7, <2>2
    <3>2. t[id - a] = learned[id - a] BY <1>5, <3>1
    <3>3. QED BY <1>3, <1>4, <2>2, <3>2 DEF Clause
  <2>3. QED BY <2>1, <2>2
<1>8. ASSUME NEW k \in 1..n
      PROVE  (a + l) + k \in 1..((a + l) + n) /\ Clause((a + l) + k)' = new[k]
  <2>1. /\ (a + l) + k \in 1..((a + l) + n)
        /\ ~((a + l) + k <= a) /\ ((a + l) + k) - a = l + k
    BY <1>3, <1>8
  <2>2. Clause((a + l) + k)' = t[l + k]
    BY <1>3, <1>4, <2>1, Zenon DEF Clause
  <2>3. QED BY <1>5, <1>8, <2>1, <2>2
<1>9. ASSUME NEW id \in 1..((a + l) + n), id \notin 1..(a + l)
      PROVE  \E k \in 1..n : id = (a + l) + k
  <2>1. id - (a + l) \in 1..n /\ id = (a + l) + (id - (a + l))
    BY <1>3, <1>9
  <2>2. QED BY <2>1
<1>10. asserted' \in ClauseLists /\ learned' \in ClauseLists
  BY <1>1, <1>2, <1>4, <1>5 DEF ClauseLists
<1>11. PICK m : m = a + l /\ m \in Nat BY <1>3
<1>12. /\ m \in Nat /\ m = Len(asserted) + Len(learned) /\ ClauseIds = 1..m
       /\ ClauseIds' = 1..(m + n)
       /\ \A id \in 1..m : Clause(id)' = Clause(id)
       /\ \A k \in 1..n : m + k \in ClauseIds' /\ Clause(m + k)' = new[k]
       /\ \A id \in 1..(m + n) : id \in 1..m \/ \E k \in 1..n : id = m + k
  BY <1>3, <1>6, <1>7, <1>8, <1>9, <1>11
<1>13. Extends(new, m) BY <1>3, <1>10, <1>12 DEF Extends
<1>14. QED BY <1>12, <1>13

\* The watches of two lists behind each other.
LEMMA CountConcat ==
  ASSUME NEW S, NEW s \in Seq(S), NEW t \in Seq(S), NEW id
  PROVE  /\ Count(s, id) \in Nat /\ Count(t, id) \in Nat
         /\ Count(s \o t, id) = Count(s, id) + Count(t, id)
<1>1. PICK a, b : a = Len(s) /\ b = Len(t) /\ a \in Nat /\ b \in Nat /\ DOMAIN s = 1..a /\ DOMAIN t = 1..b
  <2>1. Len(s) \in Nat /\ DOMAIN s = 1..Len(s) OBVIOUS
  <2>2. Len(t) \in Nat /\ DOMAIN t = 1..Len(t) OBVIOUS
  <2>3. QED BY <2>1, <2>2
<1>2. PICK u : u = s \o t BY Zenon
<1>3. /\ DOMAIN u = 1..(a + b)
      /\ \A k \in 1..a : u[k] = s[k]
      /\ \A k \in 1..b : u[a + k] = t[k]
  BY <1>1, <1>2
<1>4. PICK A, B, D, U : /\ A = {k \in 1..a : s[k].clause = id}
                        /\ B = {k \in 1..b : t[k].clause = id}
                        /\ U = {k \in 1..(a + b) : u[k].clause = id}
                        /\ D = {k \in 1..(a + b) : k - a \in B}
  BY Zenon
<1>5. IsFiniteSet(A) /\ IsFiniteSet(B)
  <2>1. IsFiniteSet(1..a) /\ IsFiniteSet(1..b) BY <1>1, FS_Interval
  <2>2. A \subseteq 1..a /\ B \subseteq 1..b BY <1>4
  <2>3. QED BY <2>1, <2>2, FS_Subset, Zenon
<1>6. IsFiniteSet(D) /\ Cardinality(D) = Cardinality(B)
  <2>1. PICK f : f = [k \in B |-> a + k] BY Zenon
  <2>2. \A k \in B : k \in 1..b /\ f[k] = a + k /\ f[k] - a = k /\ f[k] \in D
    BY <1>1, <1>4, <2>1
  <2>3. \A x, y \in B : f[x] = f[y] => x = y BY <2>2
  <2>4. \A d \in D : d - a \in B /\ f[d - a] = d BY <1>1, <1>4, <2>2
  <2>5. f \in Bijection(B, D)
    <3>1. f \in [B -> D] BY <2>1, <2>2
    <3>2. \A d \in D : \E k \in B : f[k] = d BY <2>4
    <3>3. QED
      <4>1. f \in Injection(B, D)
        BY <2>3, <3>1 DEF Injection, IsInjective
      <4>2. f \in Surjection(B, D) BY <3>1, <3>2 DEF Surjection
      <4>3. QED BY <4>1, <4>2 DEF Bijection
  <2>6. QED BY <1>5, <2>5, FS_Bijection DEF ExistsBijection
<1>7. U = A \cup D
  <2>1. ASSUME NEW k \in U
        PROVE  k \in A \cup D
    <3>1. k \in 1..(a + b) /\ u[k].clause = id BY <1>4, <2>1
    <3>2. CASE k <= a BY <1>1, <1>3, <1>4, <3>1, <3>2
    <3>3. CASE k > a
      <4>1. k - a \in 1..b /\ k = a + (k - a) BY <1>1, <3>1, <3>3
      <4>2. u[k] = t[k - a] BY <1>3, <4>1
      <4>3. QED BY <1>4, <3>1, <4>1, <4>2
    <3>4. QED BY <1>1, <3>1, <3>2, <3>3
  <2>2. ASSUME NEW k \in A
        PROVE  k \in U
    <3>1. k \in 1..a /\ k \in 1..(a + b) /\ s[k].clause = id
      BY <1>1, <1>4, <2>2
    <3>2. QED BY <1>3, <1>4, <3>1
  <2>3. ASSUME NEW k \in D
        PROVE  k \in U
    <3>1. k \in 1..(a + b) /\ k - a \in 1..b /\ t[k - a].clause = id /\ k = a + (k - a)
      BY <1>1, <1>4, <2>3
    <3>2. u[k] = t[k - a] BY <1>3, <3>1
    <3>3. QED BY <1>4, <3>1, <3>2
  <2>4. QED BY <2>1, <2>2, <2>3
<1>8. A \cap D = {} BY <1>1, <1>4
<1>9. Cardinality(U) = Cardinality(A) + Cardinality(D)
  <2>1. Cardinality(A \cup D) = Cardinality(A) + Cardinality(D) - Cardinality(A \cap D)
    BY <1>5, <1>6, FS_Union
  <2>2. Cardinality(A \cap D) = 0 BY <1>8, FS_EmptySet, Zenon
  <2>3. Cardinality(A) \in Nat /\ Cardinality(D) \in Nat
    BY <1>5, <1>6, FS_CardinalityType
  <2>4. QED BY <1>7, <2>1, <2>2, <2>3
<1>10. Cardinality(A) \in Nat /\ Cardinality(B) \in Nat
  BY <1>5, FS_CardinalityType
<1>11. Count(s, id) = Cardinality(A) /\ Count(t, id) = Cardinality(B) /\ Count(u, id) = Cardinality(U)
  BY <1>1, <1>3, <1>4 DEF Count
<1>12. QED BY <1>2, <1>6, <1>9, <1>10, <1>11

\* A list without watches of a clause counts none.
LEMMA CountNothing ==
  ASSUME NEW s, NEW id, \A k \in DOMAIN s : s[k].clause # id
  PROVE  Count(s, id) = 0
<1>1. {k \in DOMAIN s : s[k].clause = id} = {} OBVIOUS
<1>2. QED BY <1>1, FS_EmptySet DEF Count

\* Learned clauses are watched like the others, and the others as before.
LEMMA LearnedWatches ==
  ASSUME WatchInv, WatchesLive,
         watched \in [Literals -> Seq([clause : Nat, index : Nat])],
         NEW new \in ClauseLists, NEW m, Extends(new, m),
         watched' = [lit \in Literals |-> watched[lit] \o WatchesIn(new, m, lit)]
  PROVE  WatchInv' /\ watched' \in [Literals -> Seq([clause : Nat, index : Nat])]
<1>1. PICK S : S = [clause : Nat, index : Nat] BY Zenon
<1>2. PICK n : n = Len(new) /\ n \in Nat BY DEF Extends
<1>3. /\ m \in Nat /\ ClauseIds = 1..m /\ ClauseIds' = 1..(m + n)
      /\ \A id \in 1..m : Clause(id)' = Clause(id)
      /\ \A k \in 1..n : Clause(m + k)' = new[k]
      /\ \A id \in ClauseIds' : id \in 1..m \/ \E k \in 1..n : id = m + k
  BY <1>2 DEF Extends
<1>4. ASSUME NEW lit \in Literals
      PROVE  /\ watched'[lit] \in Seq(S)
             /\ \A id \in ClauseIds' : \A c : c = Clause(id)' =>
                  Count(watched'[lit], id) = Cardinality({p \in DOMAIN c : p <= 2 /\ c[p] = lit})
             /\ \A k \in DOMAIN watched'[lit] : \A id : id = watched'[lit][k].clause =>
                  /\ id \in ClauseIds'
                  /\ \A c : c = Clause(id)' =>
                       (Len(c) > 2 => watched'[lit][k].index \in 3..Len(c))
  <2>1. PICK s, t, u : /\ s = watched[lit] /\ t = WatchesIn(new, m, lit) /\ u = watched'[lit]
                       /\ u = s \o t
    BY Zenon
  <2>2. s \in Seq(S) BY <1>1, <2>1
  <2>3. WatchesOfList(t, new, m, lit)
    BY <1>3, <2>1, WatchesFor DEF ClauseLists
  <2>4. /\ t \in Seq(S)
        /\ \A k \in 1..Len(t) : \E j \in 1..n :
             t[k].clause = m + j /\ (Len(new[j]) > 2 => t[k].index = 3)
        /\ \A j \in 1..n :
             Count(t, m + j) = Cardinality({p \in DOMAIN new[j] : p <= 2 /\ new[j][p] = lit})
    BY <1>1, <1>2, <2>3 DEF WatchesOfList
  <2>5. /\ \A id \in 1..m :
             Count(s, id) = Cardinality({p \in DOMAIN Clause(id) : p <= 2 /\ Clause(id)[p] = lit})
        /\ \A k \in DOMAIN s :
             /\ s[k].clause \in 1..m
             /\ Len(Clause(s[k].clause)) > 2 => s[k].index \in 3..Len(Clause(s[k].clause))
    BY <1>3, <2>1, Zenon DEF WatchInv
  <2>6. PICK a, b : /\ a = Len(s) /\ b = Len(t) /\ a \in Nat /\ b \in Nat
                    /\ DOMAIN s = 1..a /\ DOMAIN t = 1..b
    <3>1. Len(s) \in Nat /\ DOMAIN s = 1..Len(s) BY <2>2
    <3>2. Len(t) \in Nat /\ DOMAIN t = 1..Len(t) BY <2>4
    <3>3. QED BY <3>1, <3>2, Zenon
  <2>7. /\ u \in Seq(S) /\ DOMAIN u = 1..(a + b)
        /\ \A k \in 1..a : u[k] = s[k]
        /\ \A k \in 1..b : u[a + k] = t[k]
    BY <2>1, <2>2, <2>4, <2>6
  <2>8. \A id : /\ Count(s, id) \in Nat /\ Count(t, id) \in Nat
                /\ Count(u, id) = Count(s, id) + Count(t, id)
    BY <2>1, <2>2, <2>4, CountConcat
  <2>9. ASSUME NEW id \in 1..m
        PROVE  Count(u, id) = Count(s, id)
    <3>1. \A k \in 1..b : t[k].clause # id
      <4>1. SUFFICES ASSUME NEW k \in 1..b
                     PROVE  t[k].clause # id
        OBVIOUS
      <4>2. PICK j \in 1..n : t[k].clause = m + j BY <2>4, <2>6
      <4>3. QED BY <1>2, <1>3, <2>9, <4>2
    <3>2. Count(t, id) = 0 BY <2>6, <3>1, CountNothing, Zenon
    <3>3. QED BY <2>8, <3>2
  <2>10. ASSUME NEW j \in 1..n
         PROVE  Count(u, m + j) = Count(t, m + j)
    <3>1. PICK id : id = m + j OBVIOUS
    <3>2. id \notin 1..m BY <1>2, <1>3, <2>10, <3>1
    <3>3. Count(s, id) = 0 BY <2>5, <3>2, CountNothing, Zenon
    <3>4. QED BY <2>8, <3>1, <3>3
  <2>11. ASSUME NEW id \in ClauseIds', NEW c, c = Clause(id)'
         PROVE  Count(u, id) = Cardinality({p \in DOMAIN c : p <= 2 /\ c[p] = lit})
    <3>1. CASE id \in 1..m BY <1>3, <2>5, <2>9, <2>11, <3>1, Zenon
    <3>2. CASE \E j \in 1..n : id = m + j
      <4>1. PICK j \in 1..n : id = m + j BY <3>2
      <4>2. c = new[j] BY <1>3, <2>11, <4>1
      <4>3. QED BY <2>4, <2>10, <4>1, <4>2
    <3>3. QED BY <1>3, <3>1, <3>2
  <2>12. ASSUME NEW k \in 1..(a + b), NEW id, id = u[k].clause
         PROVE  /\ id \in ClauseIds'
                /\ \A c : c = Clause(id)' => (Len(c) > 2 => u[k].index \in 3..Len(c))
    <3>1. CASE k \in 1..a
      <4>1. u[k] = s[k] BY <2>7, <3>1
      <4>2. id \in 1..m /\ (Len(Clause(id)) > 2 => u[k].index \in 3..Len(Clause(id)))
        BY <2>5, <2>6, <2>12, <3>1, <4>1, Zenon
      <4>3. id \in 1..(m + n) BY <1>2, <1>3, <4>2
      <4>4. QED BY <1>3, <4>2, <4>3
    <3>2. CASE k \notin 1..a
      <4>1. k - a \in 1..b /\ k = a + (k - a) BY <2>6, <2>12, <3>2
      <4>2. u[k] = t[k - a] BY <2>7, <4>1, Zenon
      <4>3. PICK j \in 1..n : t[k - a].clause = m + j /\ (Len(new[j]) > 2 => t[k - a].index = 3)
        BY <2>4, <2>6, <4>1, Zenon
      <4>4. id = m + j /\ Clause(id)' = new[j]
        BY <1>3, <2>12, <4>2, <4>3
      <4>5. id \in 1..(m + n) BY <1>2, <1>3, <4>4
      <4>6. Len(new[j]) \in Nat
        <5>1. PICK C : C = Seq(Literals) OBVIOUS
        <5>2. new \in Seq(C) BY <5>1 DEF ClauseLists
        <5>3. new[j] \in C BY <1>2, <4>3, <5>2
        <5>4. QED BY <5>1, <5>3
      <4>7. Len(new[j]) > 2 => u[k].index \in 3..Len(new[j])
        BY <4>2, <4>3, <4>6
      <4>8. QED BY <1>3, <4>4, <4>5, <4>7
    <3>3. QED BY <3>1, <3>2
  <2>13. watched'[lit] \in Seq(S) BY <2>1, <2>7
  <2>14. ASSUME NEW id \in ClauseIds', NEW c, c = Clause(id)'
         PROVE  Count(watched'[lit], id) = Cardinality({p \in DOMAIN c : p <= 2 /\ c[p] = lit})
    BY <2>1, <2>11, <2>14, Zenon
  <2>15. ASSUME NEW k \in DOMAIN watched'[lit], NEW id, id = watched'[lit][k].clause
         PROVE  /\ id \in ClauseIds'
                /\ \A c : c = Clause(id)' => (Len(c) > 2 => watched'[lit][k].index \in 3..Len(c))
    <3>1. k \in 1..(a + b) /\ id = u[k].clause
      BY <2>1, <2>7, <2>15, Zenon
    <3>2. QED BY <2>1, <2>12, <3>1, Zenon
  <2>16. QED BY <2>13, <2>14, <2>15, Zenon
<1>5. watched' \in [Literals -> Seq(S)] BY <1>4
<1>6. WatchInv' BY <1>4, ZenonT(40) DEF WatchInv
<1>7. QED BY <1>1, <1>5, <1>6

\* What depends on the trail alone is as before a step that leaves the trail.
LEMMA TrailSame ==
  ASSUME UNCHANGED trailVars
  PROVE  /\ \A lit : /\ True(lit)' = True(lit) /\ False(lit)' = False(lit)
                     /\ LevelOf(lit)' = LevelOf(lit)
         /\ decision_level' = decision_level /\ recent' = recent
         /\ \A v, c : ForcedBy(v, c)' = ForcedBy(v, c)
         /\ \A c : AllFalse(c)' = AllFalse(c)
         /\ \A c, level : /\ IsSplit(c, level)' = IsSplit(c, level)
                          /\ IsUip(c, level)' = IsUip(c, level)
<1>1. /\ \A lit : /\ True(lit)' = True(lit) /\ False(lit)' = False(lit)
                  /\ LevelOf(lit)' = LevelOf(lit)
      /\ decision_level' = decision_level /\ recent' = recent
      /\ \A l : assigned(l)' = assigned(l)
      /\ \A v : TrueLiteralOf(v)' = TrueLiteralOf(v)
      /\ var_level' = var_level /\ var_reason' = var_reason
  BY DEF trailVars, True, False, TrueIn, FalseIn, LevelOf, decision_level, recent, assigned,
     TrueLiteralOf
<1>2. \A u, v : ListedBefore(u, v)' = ListedBefore(u, v)
  BY <1>1 DEF ListedBefore
<1>3. \A v, c : ForcedBy(v, c)' = ForcedBy(v, c)
  BY <1>1, <1>2 DEF ForcedBy
<1>4. /\ \A c : AllFalse(c)' = AllFalse(c)
      /\ \A c, level : /\ IsSplit(c, level)' = IsSplit(c, level)
                       /\ IsUip(c, level)' = IsUip(c, level)
  BY <1>1 DEF AllFalse, IsSplit, IsUip
<1>5. QED BY <1>1, <1>3, <1>4

\* The clauses learned are put behind the others; nothing is assigned yet.
LEMMA LearnStep ==
  ASSUME LoopInv, Learn
  PROVE  LoopInv'
<1>1. PICK new : new = PreferredLemmas OBVIOUS
<1>2. PICK m : m = Len(asserted) + Len(learned) OBVIOUS
<1>3. /\ pc = "learn" /\ pc' = "jump" /\ << >> \notin ToSet(lemmas)
      /\ learned' = learned \o new /\ WatchLearned(new)
      /\ todo' = [k \in DOMAIN new |-> m + k] /\ lemmas' = << >>
      /\ UNCHANGED <<trailVars, conflicts, asserted, satisfied, visit, phase, cursor,
                     work, top_level, position, minimized, jump_level, lraVars,
                     round_size, choices, old_size, restarts, verdict>>
  BY <1>1, <1>2 DEF Learn
<1>4. /\ TrailInv /\ BoolValued(model) /\ verdict = "none"
      /\ asserted \in ClauseLists /\ learned \in ClauseLists /\ decision_level \in Nat
  BY <1>3, InvTypes
<1>5. Learnable(new) BY <1>1, <1>3, PreferredAreLearnable
<1>6. PICK n : n = Len(new) /\ n \in Nat /\ n >= 1 /\ new \in ClauseLists
  BY <1>5 DEF Learnable
<1>7. Extends(new, m) BY <1>2, <1>3, <1>4, <1>6, DatabaseExtends, Zenon
<1>8. /\ m \in Nat /\ ClauseIds = 1..m /\ ClauseIds' = 1..(m + n)
      /\ asserted' \in ClauseLists /\ learned' \in ClauseLists
      /\ \A id \in 1..m : Clause(id)' = Clause(id)
      /\ \A k \in 1..n : m + k \in ClauseIds' /\ Clause(m + k)' = new[k]
      /\ \A id \in ClauseIds' : id \in 1..m \/ \E k \in 1..n : id = m + k
  BY <1>6, <1>7 DEF Extends
<1>9. PICK t : /\ t = todo' /\ t \in Seq(Nat) /\ Len(t) = n
               /\ \A k \in 1..n : t[k] = m + k
  <2>1. DOMAIN new = 1..n BY <1>6 DEF ClauseLists
  <2>2. PICK u : u = [k \in 1..n |-> m + k] BY Zenon
  <2>3. u \in [1..n -> Nat] /\ \A k \in 1..n : u[k] = m + k
    BY <1>6, <1>8, <2>2
  <2>4. u \in Seq(Nat) /\ Len(u) = n BY <1>6, <2>3, FunctionIsSeq
  <2>5. u = todo' BY <1>3, <2>1, <2>2
  <2>6. QED BY <2>3, <2>4, <2>5
<1>10. /\ \A lit : /\ True(lit)' = True(lit) /\ False(lit)' = False(lit)
                   /\ LevelOf(lit)' = LevelOf(lit)
       /\ decision_level' = decision_level /\ recent' = recent
       /\ \A v, c : ForcedBy(v, c)' = ForcedBy(v, c)
       /\ \A c : AllFalse(c)' = AllFalse(c)
       /\ \A c, level : /\ IsSplit(c, level)' = IsSplit(c, level)
                        /\ IsUip(c, level)' = IsUip(c, level)
  BY <1>3, TrailSame
<1>11. ASSUME NEW k \in 1..n
       PROVE  /\ t[k] \in ClauseIds' /\ Clause(t[k])' = new[k]
              /\ t[k] \in ToSet(t)
  <2>1. t[k] = m + k BY <1>9, <1>11
  <2>2. t[k] \in ToSet(t) BY <1>9, <1>11, ElementsOf
  <2>3. QED BY <1>8, <1>11, <2>1, <2>2
<1>12. \A id \in ClauseIds' : id \in ClauseIds \/ id \in ToSet(t)
  <2>1. SUFFICES ASSUME NEW id \in ClauseIds', id \notin 1..m
                 PROVE  id \in ToSet(t)
    BY <1>8
  <2>2. PICK k \in 1..n : id = m + k BY <1>8, <2>1
  <2>3. QED BY <1>9, <1>11, <2>2
<1>13. TrailInv' /\ TrailTypeOK'
  <2>1. TrailInv' BY <1>3, <1>4, InvStep
  <2>2. QED BY <2>1 DEF TrailInv
<1>14. WatchInv' /\ watched' \in [Literals -> Seq([clause : Nat, index : Nat])]
  <2>1. watched' = [lit \in Literals |-> watched[lit] \o WatchesIn(new, m, lit)]
    BY <1>2, <1>3 DEF WatchLearned
  <2>2. WatchInv /\ WatchesLive /\ watched \in [Literals -> Seq([clause : Nat, index : Nat])]
    BY <1>3 DEF LoopInv, SolverTypeOK, WatchesLive
  <2>3. QED BY <1>6, <1>7, <2>1, <2>2, LearnedWatches, Zenon
<1>15. SolverTypeOK'
  <2>1. << >> \in ClauseLists
    <3>1. PICK C : C = Seq(Literals) OBVIOUS
    <3>2. << >> \in Seq(C) OBVIOUS
    <3>3. QED BY <3>1, <3>2 DEF ClauseLists
  <2>2. todo' \in Seq(Nat) BY <1>9
  <2>3. QED BY <1>3, <1>8, <1>13, <1>14, <2>1, <2>2, Zenon
       DEF LoopInv, SolverTypeOK, ProgramPoints, lraVars
<1>16. created' = created /\ Problem' = Problem /\ Mentioned' = Mentioned /\ Known' = Known
  BY <1>3 DEF Problem, Mentioned, Known, lraVars
<1>17. AssignmentsOK'
  BY <1>3, <1>10, <1>16 DEF LoopInv, AssignmentsOK, BoolValued, is_defined, assigned, trailVars
<1>18. ReasonsOK'
  <2>1. var_reason' = var_reason BY <1>3 DEF trailVars
  <2>2. ASSUME NEW v \in BoolVars, NEW id, id = var_reason[v], id # NoReason, NEW c, c = Clause(id)'
        PROVE  id \in ClauseIds' /\ ForcedBy(v, c)'
    <3>1. id \in 1..m /\ ForcedBy(v, Clause(id))
      BY <1>8, <2>2 DEF LoopInv, ReasonsOK
    <3>2. id \in 1..(m + n) /\ c = Clause(id) BY <1>6, <1>8, <2>2, <3>1
    <3>3. QED BY <1>8, <1>10, <3>1, <3>2
  <2>3. QED BY <2>1, <2>2 DEF ReasonsOK
<1>19. DatabaseOK'
  <2>1. ASSUME NEW k \in 1..n, NEW lit \in ToSet(new[k])
        PROVE  VarOf(lit) \in Known
    <3>1. PICK c : c = new[k] /\ c \in Seq(Literals)
      <4>1. PICK C : C = Seq(Literals) OBVIOUS
      <4>2. new \in Seq(C) BY <1>6, <4>1 DEF ClauseLists
      <4>3. QED BY <1>6, <2>1, <4>1, <4>2
    <3>2. PICK p \in 1..Len(c) : c[p] = lit /\ lit \in Literals
      BY <2>1, <3>1, ElementsOf
    <3>3. False(lit)
      BY <1>5, <1>6, <2>1, <3>1, <3>2 DEF Learnable, AllFalse
    <3>4. is_defined(VarOf(lit)) /\ VarOf(lit) \in BoolVars
      BY <1>4, <3>2, <3>3, FalseLiterals, LiteralTypes
    <3>5. QED BY <3>4 DEF LoopInv, AssignmentsOK
  <2>2. ASSUME NEW id \in ClauseIds', NEW c, c = Clause(id)'
        PROVE  c # << >> /\ \A lit \in ToSet(c) : VarOf(lit) \in Known
    <3>1. CASE id \in 1..m BY <1>8, <2>2, <3>1 DEF LoopInv, DatabaseOK
    <3>2. CASE \E k \in 1..n : id = m + k
      <4>1. PICK k \in 1..n : c = new[k] BY <1>8, <2>2, <3>2
      <4>2. QED BY <1>5, <1>6, <2>1, <4>1 DEF Learnable
    <3>3. QED BY <1>8, <2>2, <3>1, <3>2
  <2>3. QED BY <1>16, <2>2 DEF LoopInv, DatabaseOK
<1>20. FalseWatchesOK'
  <2>1. ASSUME NEW id \in ClauseIds, NEW i \in {1, 2}, NEW c, c = Clause(id), Len(c) > 1, False(c[i])
        PROVE  \/ True(c[3 - i]) /\ LevelOf(c[3 - i]) <= LevelOf(c[i])
               \/ LevelOf(c[i]) = decision_level
    BY <1>3, <2>1 DEF LoopInv, FalseWatchesOK
  <2>2. \A x, id : Awaits(x, id)' BY <1>3 DEF Awaits
  <2>3. SUFFICES ASSUME NEW id \in ClauseIds', NEW i \in {1, 2}, NEW c, c = Clause(id)', Len(c) > 1,
                        False(c[i])', id \notin ToSet(t)
                 PROVE  \/ True(c[3 - i])' /\ LevelOf(c[3 - i])' <= LevelOf(c[i])'
                        \/ LevelOf(c[i])' = decision_level' /\ Awaits(c[i], id)'
    BY <1>3, <1>9 DEF FalseWatchesOK
  <2>4. PICK x, y : x = c[i] /\ y = c[3 - i] OBVIOUS
  <2>5. id \in ClauseIds /\ c = Clause(id) BY <1>8, <1>12, <2>3
  <2>6. QED BY <1>10, <2>1, <2>2, <2>3, <2>4, <2>5
<1>21. UnitsOK'
  <2>1. \A id \in ClauseIds : Len(Clause(id)) = 1 => True(Clause(id)[1]) /\ LevelOf(Clause(id)[1]) = 0
    BY <1>3 DEF LoopInv, UnitsOK
  <2>2. SUFFICES ASSUME NEW id \in ClauseIds', NEW c, c = Clause(id)', Len(c) = 1, id \notin ToSet(t)
                 PROVE  True(c[1])' /\ LevelOf(c[1])' = 0
    BY <1>3, <1>9 DEF UnitsOK
  <2>3. PICK x : x = c[1] OBVIOUS
  <2>4. id \in ClauseIds /\ c = Clause(id) BY <1>8, <1>12, <2>2
  <2>5. QED BY <1>10, <2>1, <2>2, <2>3, <2>4
<1>22. CursorOK' BY <1>3, <1>10 DEF LoopInv, CursorOK
<1>23. AtomsOK'
  <2>1. Propagatable = {} BY <1>3 DEF LoopInv, AtomsOK
  <2>2. QED BY <1>3, <1>16, <2>1, AtomsStay DEF LoopInv
<1>24. JumpOK'
  <2>1. t # << >> BY <1>6, <1>9
  <2>2. \A k \in 1..n : AllFalse(new[k])'
    BY <1>5, <1>6, <1>10 DEF Learnable
  <2>3. \/ \A k \in 1..n : IsSplit(new[k], jump_level)'
        \/ \A k \in 1..n : IsUip(new[k], jump_level)'
    <3>1. PICK l : l = jump_level /\ l = jump_level' BY <1>3
    <3>2. (\A k \in 1..n : IsSplit(new[k], l)) \/ (\A k \in 1..n : IsUip(new[k], l))
      BY <1>5, <1>6, <3>1 DEF Learnable
    <3>3. (\A k \in 1..n : IsSplit(new[k], l)') \/ (\A k \in 1..n : IsUip(new[k], l)')
      BY <1>10, <3>2
    <3>4. QED BY <3>1, <3>3
  <2>4. QED BY <1>9, <1>11, <2>1, <2>2, <2>3 DEF JumpOK
<1>25. ConflictsOK' /\ LemmasOK'
  <2>1. conflicts = << >> /\ work = {} /\ minimized = NothingMinimized /\ decision_level > 0
    BY <1>3 DEF LoopInv, ConflictsOK
  <2>2. conflicts' = << >> /\ lemmas' = << >> /\ work' = {} /\ minimized' = NothingMinimized
    BY <1>3, <2>1
  <2>3. QED BY <1>3, <1>10, <2>1, <2>2 DEF ConflictsOK, LemmasOK
<1>26. ExplainOK' /\ ResolveOK' /\ MinimizeOK' /\ UnitOK' /\ SplitOK' /\ AnswerOK' /\ StackOK'
  BY <1>3, <1>4, Elsewhere
<1>27. QED BY <1>13, <1>14, <1>15, <1>17, <1>18, <1>19, <1>20, <1>21, <1>22, <1>23, <1>24, <1>25, <1>26
     DEF LoopInv

-----------------------------------------------------------------------------
(* The invariant of the loop.                                              *)

\* Every step of the loop keeps the invariant.
LEMMA LoopStep ==
  ASSUME LoopInv, EveryClauseMayBeReason, [Next]_vars
  PROVE  LoopInv'
<1>1. CASE BoolStep
  <2>1. BoolPropagate BY <1>1 DEF BoolStep
  <2>2. QED BY <1>1, <2>1, InitializeStep, PopSatisfiedStep, BcpDoneStep, VisitDoneStep, UnitFalsifiedStep,
       SkipSatisfiedStep, MoveWatchStep, FindUnitStep, FindFalseStep DEF BoolPropagate
<1>2. CASE LraStep
  <2>1. LraPropagateStep BY <1>2 DEF LraStep
  <2>2. QED BY <1>2, <2>1, LraPropagateStepStep, LraBlameStep, LraDeriveStep, LraReportStep,
       LraConflictStep DEF LraPropagateStep
<1>3. CASE AnalysisStep
  <2>1. AnalyzeConflicts BY <1>3 DEF AnalysisStep
  <2>2. QED BY <1>3, <2>1, BeginAnalysisStep, ResolveStepStep, FinishAnalysisStep, MinimizeStepStep,
       KeepLowestStep DEF AnalyzeConflicts
<1>4. CASE Returned \/ UNCHANGED vars
  BY <1>4, NothingChanges DEF Returned
<1>5. QED BY <1>1, <1>2, <1>3, <1>4, RoundDoneStep, DecideNextStep, AnswerStep, LearnStep,
     RestartSolverStep, BacktrackWithStep, SplitDecideStep, UnitPropagateStep, UnitsDoneStep
     DEF Next

\* The invariant holds of every run of Solver::check.
THEOREM LoopIsInvariant ==
  ASSUME EveryClauseMayBeReason
  PROVE  Spec => []LoopInv
<1>1. Init => LoopInv BY LoopInit
<1>2. LoopInv /\ [Next]_vars => LoopInv' BY LoopStep
<1>3. QED BY <1>1, <1>2, PTL DEF Spec

\* The trail of the solver stays consistent.
THEOREM SolverTrailCorrect ==
  ASSUME EveryClauseMayBeReason
  PROVE  Spec => []TrailInv
<1>1. LoopInv => TrailInv BY DEF LoopInv
<1>2. QED BY <1>1, LoopIsInvariant, PTL

\* Watches fit the clauses, and what is taken from the stack is implied.
THEOREM WatchesAreCorrect ==
  ASSUME EveryClauseMayBeReason
  PROVE  Spec => []SolverInv
<1>1. LoopInv => SolverInv
  <2>1. SUFFICES ASSUME LoopInv
                 PROVE  StackIsImplied
    BY DEF LoopInv, SolverInv
  <2>2. SUFFICES ASSUME pc = "bcp", satisfied # << >>
                 PROVE  LET top == Last(satisfied) IN
                        IF top.reason = NoReason
                          THEN True(top.lit)
                          ELSE /\ ~False(top.lit)
                               /\ top.lit \in ToSet(Clause(top.reason))
                               /\ \A lit \in ToSet(Clause(top.reason)) \ {top.lit} : False(lit)
    BY DEF StackIsImplied
  <2>3. PICK x, id : x = Last(satisfied).lit /\ id = Last(satisfied).reason
    OBVIOUS
  <2>4. TopOK(x, id) BY <2>1, <2>2, <2>3, TopOfStack
  <2>5. CASE id = NoReason BY <2>3, <2>4, <2>5 DEF TopOK
  <2>6. CASE id # NoReason
    <3>1. PICK c : c = Clause(id) OBVIOUS
    <3>2. /\ id \in ClauseIds /\ c[1] = x /\ ~False(x)
          /\ \A p \in 2..Len(c) : False(c[p])
      BY <2>4, <2>6, <3>1 DEF TopOK
    <3>3. c \in Seq(Literals) /\ c # << >>
      BY <2>1, <3>1, <3>2, InvTypes, ClauseTypes DEF LoopInv, DatabaseOK
    <3>4. 1 \in 1..Len(c) BY <3>3
    <3>5. x \in ToSet(c) BY <3>2, <3>3, <3>4, ElementsOf
    <3>6. ASSUME NEW lit \in ToSet(c) \ {x}
          PROVE  False(lit)
      <4>1. PICK p \in 1..Len(c) : c[p] = lit BY <3>3, <3>6, ElementsOf
      <4>2. p \in 2..Len(c) BY <3>2, <3>6, <4>1
      <4>3. QED BY <3>2, <4>1, <4>2
    <3>7. QED BY <2>3, <2>6, <3>1, <3>2, <3>5, <3>6
  <2>7. QED BY <2>5, <2>6
<1>2. QED BY <1>1, LoopIsInvariant, PTL

\* The model behind "sat" satisfies the clauses and the linear constraints.
THEOREM ModelsAreCorrect ==
  ASSUME EveryClauseMayBeReason
  PROVE  Spec => []SatModelCorrect
<1>1. LoopInv => SatModelCorrect BY DEF LoopInv, AnswerOK
<1>2. QED BY <1>1, LoopIsInvariant, PTL

\* Conflicts stay false, whatever has been resolved or removed.
THEOREM ConflictsStayFalse ==
  ASSUME EveryClauseMayBeReason
  PROVE  Spec => []ConflictStaysFalse
<1>1. LoopInv => ConflictStaysFalse
  <2>1. SUFFICES ASSUME LoopInv
                 PROVE  ConflictStaysFalse
    OBVIOUS
  <2>2. conflicts \in ClauseLists /\ lemmas \in ClauseLists
    BY <2>1 DEF LoopInv, SolverTypeOK
  <2>3. PICK C : C = Seq(Literals) OBVIOUS
  <2>4. ASSUME NEW k \in DOMAIN conflicts, NEW lit \in ToSet(conflicts[k])
        PROVE  False(lit)
    <3>1. conflicts \in Seq(C) BY <2>2, <2>3 DEF ClauseLists
    <3>2. k \in 1..Len(conflicts) /\ conflicts[k] \in C BY <2>4, <3>1
    <3>3. PICK c : c = conflicts[k] /\ c \in Seq(Literals) /\ AllFalse(c)
      BY <2>1, <2>3, <3>2 DEF LoopInv, ConflictsOK
    <3>4. QED BY <2>4, <3>3, ElementsOf DEF AllFalse
  <2>5. \A lit \in work : False(lit)
    BY <2>1 DEF LoopInv, ResolveOK, MinimizeOK, ConflictsOK
  <2>6. ASSUME NEW c \in ToSet(lemmas), NEW lit \in ToSet(c)
        PROVE  False(lit)
    <3>1. lemmas \in Seq(C) BY <2>2, <2>3 DEF ClauseLists
    <3>2. PICK k \in 1..Len(lemmas) : lemmas[k] = c /\ c \in C
      BY <2>6, <3>1, ElementsOf
    <3>3. AllFalse(c) BY <2>1, <3>2 DEF LoopInv, LemmasOK, LemmaOK
    <3>4. c \in Seq(Literals) BY <2>3, <3>2
    <3>5. QED BY <2>6, <3>3, <3>4, ElementsOf DEF AllFalse
  <2>7. ASSUME pc \in {"minimize", "learn"}, NEW lit \in ToSet(Contents)
        PROVE  False(lit)
    <3>1. CASE pc = "minimize"
      <4>1. PICK c : c = minimized.clause OBVIOUS
      <4>2. c \in Seq(Literals) /\ AllFalse(c) /\ lit \in ToSet(c)
        BY <2>1, <2>7, <3>1, <4>1, MinimizeFacts
      <4>3. QED BY <4>2, ElementsOf DEF AllFalse
    <3>2. CASE pc = "learn"
      <4>1. minimized = NothingMinimized
        BY <2>1, <3>2 DEF LoopInv, ConflictsOK
      <4>2. minimized.kept = << >> /\ minimized.clause = << >>
        BY <4>1 DEF NothingMinimized
      <4>3. PICK e : e = << >> OBVIOUS
      <4>8. e \in Seq(Literals) BY <4>3
      <4>9. Len(e) = 0 BY <4>3
      <4>4. SubSeq(e, Len(e) + 1, Len(e)) = << >> BY <4>3, <4>8, <4>9
      <4>5. Contents = e \o e BY <4>2, <4>3, <4>4 DEF Contents
      <4>6. ToSet(Contents) = {} BY <4>3, <4>5, <4>8, <4>9 DEF ToSet
      <4>7. QED BY <2>7, <4>6
    <3>3. QED BY <2>7, <3>1, <3>2
  <2>8. QED BY <2>4, <2>5, <2>6, <2>7 DEF ConflictStaysFalse
<1>2. QED BY <1>1, LoopIsInvariant, PTL

\* When the loop decides, a false watch stands next to a true one that is no
\* higher.
THEOREM FalseWatchesAreSafe ==
  ASSUME EveryClauseMayBeReason
  PROVE  Spec => []FalseWatchIsSafe
<1>1. LoopInv => FalseWatchIsSafe
  BY DEF LoopInv, FalseWatchesOK, FalseWatchIsSafe, Awaits
<1>2. QED BY <1>1, LoopIsInvariant, PTL

\* When the loop decides, no clause is false and none forces a value.
THEOREM PropagationIsComplete ==
  ASSUME EveryClauseMayBeReason
  PROVE  Spec => []BcpComplete
<1>1. LoopInv => BcpComplete
  <2>1. SUFFICES ASSUME LoopInv, pc = "decide", NEW id \in ClauseIds, NEW c, c = Clause(id),
                        \A lit \in ToSet(c) : ~True(lit)
                 PROVE  Cardinality({p \in DOMAIN c : ~False(c[p])}) >= 2
    BY DEF BcpComplete
  <2>2. /\ asserted \in ClauseLists /\ learned \in ClauseLists
        /\ c \in Seq(Literals) /\ c # << >>
    BY <2>1, InvTypes, ClauseTypes DEF LoopInv, DatabaseOK
  <2>3. PICK n \in Nat : n = Len(c) /\ n >= 1 /\ DOMAIN c = 1..n BY <2>2
  <2>4. \A p \in 1..n : ~True(c[p]) BY <2>1, <2>2, <2>3, ElementsOf
  <2>5. n > 1
    <3>1. SUFFICES ASSUME n = 1
                   PROVE  FALSE
      BY <2>3
    <3>2. True(c[1]) BY <2>1, <2>3, <3>1 DEF LoopInv, UnitsOK
    <3>3. QED BY <2>3, <2>4, <3>2
  <2>6. 1 \in 1..n /\ 2 \in 1..n BY <2>5
  <2>7. ASSUME NEW i \in {1, 2}, False(c[i])
        PROVE  FALSE
    <3>1. True(c[3 - i])
      BY <2>1, <2>3, <2>5, <2>7 DEF LoopInv, FalseWatchesOK, Awaits
    <3>2. 3 - i \in 1..n BY <2>6, <2>7
    <3>3. QED BY <2>4, <3>1, <3>2
  <2>8. PICK F : F = {p \in DOMAIN c : ~False(c[p])} BY Zenon
  <2>9. 1 \in F /\ 2 \in F /\ F \subseteq 1..n BY <2>3, <2>6, <2>7, <2>8
  <2>10. IsFiniteSet(F)
    <3>1. IsFiniteSet(1..n) BY <2>3, FS_Interval
    <3>2. QED BY <2>9, <3>1, FS_Subset, Zenon
  <2>11. PICK T : T = {1, 2} BY Zenon
  <2>12. T \subseteq F /\ Cardinality(T) = 2 BY <2>9, <2>11, TwoElements
  <2>13. Cardinality(T) <= Cardinality(F) BY <2>10, <2>12, FS_Subset
  <2>14. QED BY <2>8, <2>12, <2>13
<1>2. QED BY <1>1, LoopIsInvariant, PTL

\* A propagated literal is implied by its reason at the level of the clause,
\* and what made it unit comes before it there.
THEOREM ReasonsAreCorrect ==
  ASSUME EveryClauseMayBeReason
  PROVE  Spec => []ReasonsImply
<1>1. LoopInv => ReasonsImply
  <2>1. SUFFICES ASSUME LoopInv, NEW v \in BoolVars, var_reason[v] # NoReason
                 PROVE  LET lits == ToSet(Clause(var_reason[v]))
                            self == TrueLiteralOf(v)
                            others == lits \ {self}
                            list == assigned(var_level[v]) IN
                        /\ self \in lits
                        /\ \A lit \in others :
                             /\ False(lit)
                             /\ LevelOf(lit) <= var_level[v]
                             /\ LevelOf(lit) = var_level[v] =>
                                  PositionOf(VarOf(lit), list) < PositionOf(v, list)
                        /\ var_level[v] > 0 => \E lit \in others : LevelOf(lit) = var_level[v]
    BY DEF ReasonsImply
  <2>2. PICK c \in Seq(Literals) :
           /\ var_reason[v] \in ClauseIds /\ c = Clause(var_reason[v])
           /\ is_defined(v) /\ var_level[v] \in 0..decision_level
           /\ Len(c) >= 1 /\ Len(c) \in Nat /\ c[1] = TrueLiteralOf(v)
           /\ \A p \in 2..Len(c) :
                /\ c[p] \in Literals /\ False(c[p]) /\ LevelOf(c[p]) <= var_level[v]
                /\ VarOf(c[p]) # v
                /\ LevelOf(c[p]) = var_level[v] => ListedBefore(VarOf(c[p]), v)
           /\ var_level[v] > 0 => \E p \in 2..Len(c) : LevelOf(c[p]) = var_level[v]
    BY <2>1, ReasonFacts
  <2>3. TrailInv /\ BoolValued(model) /\ v \in Vars
    BY <2>1, InvTypes, BoolsAndReals
  <2>4. PICK x, list, n : /\ x = TrueLiteralOf(v) /\ list = assigned(var_level[v])
                          /\ n = Len(c) /\ n \in Nat /\ n >= 1 /\ 1 \in 1..n
    BY <2>2
  <2>5. x \in Literals /\ VarOf(x) = v BY <2>3, <2>4, TrueLiteral
  <2>6. x \in ToSet(c) BY <2>2, <2>4, ElementsOf
  <2>7. ASSUME NEW p \in 2..n
        PROVE  c[p] \in ToSet(c) /\ c[p] # x
    <3>1. p \in 1..n BY <2>7
    <3>2. c[p] \in ToSet(c) BY <2>2, <2>4, <3>1, ElementsOf
    <3>3. c[p] # x BY <2>2, <2>4, <2>5, <2>7
    <3>4. QED BY <3>2, <3>3
  <2>8. ASSUME NEW lit \in ToSet(c) \ {x}
        PROVE  /\ False(lit) /\ LevelOf(lit) <= var_level[v]
               /\ LevelOf(lit) = var_level[v] => PositionOf(VarOf(lit), list) < PositionOf(v, list)
    <3>1. PICK p \in 2..n : c[p] = lit
      <4>1. PICK p \in 1..n : c[p] = lit BY <2>4, <2>8, ElementsOf
      <4>2. p # 1 BY <2>2, <2>4, <2>8, <4>1
      <4>3. QED BY <4>1, <4>2
    <3>2. /\ False(lit) /\ LevelOf(lit) <= var_level[v]
          /\ LevelOf(lit) = var_level[v] => ListedBefore(VarOf(lit), v)
      BY <2>2, <2>4, <3>1
    <3>3. ASSUME ListedBefore(VarOf(lit), v)
          PROVE  PositionOf(VarOf(lit), list) < PositionOf(v, list)
      <4>1. PICK j, k \in 1..Len(list) : j < k /\ list[j].var = VarOf(lit) /\ list[k].var = v
        BY <2>4, <3>3 DEF ListedBefore
      <4>2. /\ Len(list) \in Nat
            /\ \A a, b \in 1..Len(list) : list[a].var = list[b].var => a = b
        BY <2>2, <2>3, <2>4, OwnPosition
      <4>3. DOMAIN list = 1..Len(list)
        <5>1. TrailTypeOK BY <2>3 DEF TrailInv
        <5>2. assigned(var_level[v]) \in Seq(Assignment)
          BY <2>2, <5>1, ListTypes
        <5>3. QED BY <2>4, <5>2
      <4>4. \A w : \A a \in 1..Len(list) : list[a].var = w => PositionOf(w, list) = a
        BY <4>2, <4>3 DEF PositionOf
      <4>5. QED BY <4>1, <4>4
    <3>4. QED BY <3>2, <3>3
  <2>9. var_level[v] > 0 => \E lit \in ToSet(c) \ {x} : LevelOf(lit) = var_level[v]
    BY <2>2, <2>4, <2>7
  <2>10. QED BY <2>2, <2>4, <2>6, <2>8, <2>9
<1>2. QED BY <1>1, LoopIsInvariant, PTL

-----------------------------------------------------------------------------
(* What the loop does to the trail and to the database.                    *)

\* The literals that split: each learned clause has two or more of them, and
\* they belong to the level that the split undoes.
LEMMA AllSplit ==
  ASSUME NEW c, LearnedAt(c, jump_level), IsSplit(c, jump_level), jump_level \in Int
  PROVE  /\ is_semantic_split(c)
         /\ \A lit \in SplitLiterals(c) :
              LevelOf(lit) > jump_level /\ var_reason[VarOf(lit)] = NoReason
<1>1. is_semantic_split(c) BY DEF IsSplit, is_semantic_split
<1>2. ASSUME NEW lit \in SplitLiterals(c)
      PROVE  LevelOf(lit) > jump_level /\ var_reason[VarOf(lit)] = NoReason
  <2>1. LevelOf(lit) = jump_level + 1 /\ var_reason[VarOf(lit)] = NoReason
    BY <1>2, SplitFacts
  <2>2. QED BY <2>1
<1>3. QED BY <1>1, <1>2

\* A backjump is one that its clauses ask for: what backtrack_with asserts of
\* the level, of the clauses and of the decision it undoes.
THEOREM BackjumpsAreJustified ==
  ASSUME EveryClauseMayBeReason
  PROVE  Spec => []JumpIsJustified
<1>1. LoopInv => JumpIsJustified
  <2>1. SUFFICES ASSUME LoopInv, pc = "jump"
                 PROVE  JumpIsJustified
    BY DEF JumpIsJustified
  <2>2. /\ decision_level \in Nat /\ jump_level \in 0..(decision_level - 1)
        /\ todo # << >> /\ todo \in Seq(Nat) /\ Len(todo) \in Nat /\ 1 \in 1..Len(todo)
        /\ \A k \in 1..Len(todo) :
             todo[k] \in ClauseIds /\ LearnedAt(Clause(todo[k]), jump_level)
        /\ IF is_semantic_split(Clause(todo[1]))
             THEN \A k \in 1..Len(todo) : IsSplit(Clause(todo[k]), jump_level)
             ELSE \A k \in 1..Len(todo) : IsUip(Clause(todo[k]), jump_level)
    BY <2>1, JumpFacts
  <2>3. PICK clauses : clauses = {Clause(todo[k]) : k \in DOMAIN todo}
    BY Zenon
  <2>4. DOMAIN todo = 1..Len(todo) /\ jump_level < decision_level /\ jump_level \in Int
    BY <2>2
  <2>5. CASE is_semantic_split(Clause(todo[1]))
    <3>1. ASSUME NEW c \in clauses
          PROVE  /\ is_semantic_split(c)
                 /\ \A lit \in SplitLiterals(c) :
                      LevelOf(lit) > jump_level /\ var_reason[VarOf(lit)] = NoReason
      <4>1. PICK k \in 1..Len(todo) : c = Clause(todo[k])
        BY <2>3, <2>4, <3>1
      <4>2. LearnedAt(c, jump_level) /\ IsSplit(c, jump_level)
        BY <2>2, <2>5, <4>1
      <4>3. QED BY <2>4, <4>2, AllSplit
    <3>2. assigned(jump_level + 1)[1].var \in RealVars
      BY <2>2, <2>5 DEF IsSplit
    <3>3. QED BY <2>2, <2>3, <2>4, <2>5, <3>1, <3>2 DEF JumpIsJustified
  <2>6. CASE ~is_semantic_split(Clause(todo[1]))
    <3>1. ASSUME NEW c \in clauses
          PROVE  /\ LevelOf(c[1]) > jump_level
                 /\ \A i \in 2..Len(c) : LevelOf(c[i]) <= jump_level
      <4>1. PICK k \in 1..Len(todo) : c = Clause(todo[k])
        BY <2>3, <2>4, <3>1
      <4>2. IsUip(c, jump_level) BY <2>2, <2>6, <4>1
      <4>3. QED BY <4>2 DEF IsUip
    <3>2. QED BY <2>2, <2>3, <2>4, <2>6, <3>1 DEF JumpIsJustified
  <2>7. QED BY <2>5, <2>6
<1>2. QED BY <1>1, LoopIsInvariant, PTL

\* A clause whose watched literals are equal repeats a literal.
LEMMA EqualWatches ==
  ASSUME NEW c \in Seq(Literals), Len(c) > 1, c[1] = c[2]
  PROVE  Repeats(c)
<1>1. PICK n \in Nat : n = Len(c) /\ n > 1 OBVIOUS
<1>2. PICK rest : rest = [p \in 1..(n - 1) |-> c[p + 1]] BY Zenon
<1>3. PICK S : S = ToSet(c) OBVIOUS
<1>4. \A x : x \in S <=> \E p \in 1..n : c[p] = x
  BY <1>1, <1>3, ElementsOf
<1>5. rest \in [1..(n - 1) -> S] BY <1>1, <1>2, <1>4
<1>6. ASSUME NEW x \in S
      PROVE  \E p \in 1..(n - 1) : rest[p] = x
  <2>1. PICK p \in 1..n : c[p] = x BY <1>4, <1>6
  <2>2. CASE p = 1
    <3>1. 1 \in 1..(n - 1) /\ rest[1] = c[2] BY <1>1, <1>2
    <3>2. QED BY <2>1, <2>2, <3>1
  <2>3. CASE p # 1
    <3>1. p - 1 \in 1..(n - 1) /\ rest[p - 1] = c[p] BY <1>1, <1>2, <2>3
    <3>2. QED BY <2>1, <3>1
  <2>4. QED BY <2>2, <2>3
<1>7. rest \in Surjection(1..(n - 1), S) BY <1>5, <1>6 DEF Surjection
<1>8. ExistsSurjection(1..(n - 1), S) /\ n - 1 \in Nat
  BY <1>1, <1>7 DEF ExistsSurjection
<1>9. Cardinality(S) <= n - 1 BY <1>8, FS_SurjCardinalityBound
<1>10. Cardinality(S) \in Nat
  <2>1. IsFiniteSet(1..(n - 1)) BY <1>1, FS_Interval
  <2>2. IsFiniteSet(S) BY <1>7, <2>1, FS_Surjection
  <2>3. QED BY <2>2, FS_CardinalityType
<1>11. QED BY <1>1, <1>3, <1>9, <1>10 DEF Repeats

\* The clauses to be learned are among the analysed ones.
LEMMA PreferredAreLemmas ==
  ASSUME LoopInv
  PROVE  PreferredLemmas \in ClauseLists /\ ToSet(PreferredLemmas) \subseteq ToSet(lemmas)
<1>1. PICK d : d = DistinctLemmas OBVIOUS
<1>2. /\ d \in ClauseLists /\ Len(d) \in Nat
      /\ \A k \in 1..Len(d) : d[k] \in ToSet(lemmas)
  BY <1>1, DistinctFound
<1>3. PICK C : C = Seq(Literals) OBVIOUS
<1>4. d \in Seq(C) /\ DOMAIN d = 1..Len(d) BY <1>2, <1>3 DEF ClauseLists
<1>5. PICK keep : keep = {k \in DOMAIN d : ~is_semantic_split(d[k])}
  BY Zenon
<1>6. PICK uips : uips = Chosen(d, keep) OBVIOUS
<1>7. /\ uips \in Seq(C)
      /\ \A k \in 1..Len(uips) : \E i \in 1..Len(d) : i \in keep /\ uips[k] = d[i]
  <2>1. /\ Chosen(d, keep) \in Seq(C)
        /\ \A k \in 1..Len(Chosen(d, keep)) :
             \E i \in 1..Len(d) : i \in keep /\ Chosen(d, keep)[k] = d[i]
    BY <1>4, ChosenElements
  <2>2. QED BY <1>6, <2>1
<1>8. PreferredLemmas = (IF uips # << >> THEN uips ELSE d)
  BY <1>1, <1>5, <1>6 DEF PreferredLemmas
<1>9. ToSet(uips) \subseteq ToSet(lemmas)
  <2>1. ASSUME NEW c \in ToSet(uips)
        PROVE  c \in ToSet(lemmas)
    <3>1. PICK k \in 1..Len(uips) : uips[k] = c
      BY <1>7, <2>1, ElementsOf
    <3>2. QED BY <1>2, <1>7, <3>1
  <2>2. QED BY <2>1
<1>10. ToSet(d) \subseteq ToSet(lemmas)
  <2>1. ASSUME NEW c \in ToSet(d)
        PROVE  c \in ToSet(lemmas)
    <3>1. PICK k \in 1..Len(d) : d[k] = c BY <1>4, <2>1, ElementsOf
    <3>2. QED BY <1>2, <3>1
  <2>2. QED BY <2>1
<1>11. QED BY <1>3, <1>4, <1>7, <1>8, <1>9, <1>10 DEF ClauseLists

\* Propagation would have met a clause of the database that is part of a
\* clause which propagates: both its watched literals would be the one literal
\* of the highest level.
THEOREM LearnsNewClauses ==
  ASSUME EveryClauseMayBeReason
  PROVE  Spec => []LearnsSomethingNew
<1>1. LoopInv => LearnsSomethingNew
  <2>1. SUFFICES ASSUME LoopInv, pc = "learn", NEW c \in ToSet(PreferredLemmas),
                        NEW id \in ClauseIds, ToSet(Clause(id)) \subseteq ToSet(c),
                        ~is_semantic_split(c)
                 PROVE  Repeats(Clause(id))
    BY DEF LearnsSomethingNew
  <2>2. PICK d : d = Clause(id) OBVIOUS
  <2>3. /\ asserted \in ClauseLists /\ learned \in ClauseLists /\ lemmas \in ClauseLists
        /\ d \in Seq(Literals) /\ d # << >>
    BY <2>1, <2>2, InvTypes, ClauseTypes DEF LoopInv, DatabaseOK, SolverTypeOK
  <2>4. /\ c \in Seq(Literals) /\ LemmaOK(c, jump_level)
    <3>1. PICK C : C = Seq(Literals) OBVIOUS
    <3>2. lemmas \in Seq(C) BY <2>3, <3>1 DEF ClauseLists
    <3>3. c \in ToSet(lemmas) BY <2>1, PreferredAreLemmas
    <3>4. PICK k \in 1..Len(lemmas) : lemmas[k] = c /\ c \in C
      BY <3>2, <3>3, ElementsOf
    <3>5. QED BY <2>1, <3>1, <3>4 DEF LoopInv, LemmasOK
  <2>5. PICK n \in Nat : n = Len(d) /\ n >= 1 /\ 1 \in 1..n BY <2>3
  <2>6. \A p \in 1..n : \E q \in 1..Len(c) : c[q] = d[p]
    <3>1. ASSUME NEW p \in 1..n
          PROVE  \E q \in 1..Len(c) : c[q] = d[p]
      <4>1. d[p] \in ToSet(d) BY <2>3, <2>5, <3>1, ElementsOf
      <4>2. d[p] \in ToSet(c) BY <2>1, <2>2, <4>1
      <4>3. QED BY <2>4, <4>2, ElementsOf
    <3>2. QED BY <3>1
  <2>7. PICK q1 \in 1..Len(c) : c[q1] = d[1] BY <2>5, <2>6
  <2>8. IsUip(c, jump_level)
    <3>1. c # << >> BY <2>4, <2>7
    <3>2. ~IsSplit(c, jump_level) BY <2>1 DEF IsSplit, is_semantic_split
    <3>3. QED BY <2>4, <3>1, <3>2 DEF LemmaOK
  <2>9. AllFalse(c) BY <2>4 DEF LemmaOK
  <2>10. /\ decision_level \in Nat /\ decision_level > 0 /\ jump_level \in Int
         /\ \A q \in 1..Len(c) : /\ False(c[q]) /\ ~True(c[q])
                                 /\ LevelOf(c[q]) \in 0..decision_level
    <3>1. decision_level > 0 /\ jump_level \in Int
      BY <2>1 DEF LoopInv, ConflictsOK, SolverTypeOK
    <3>2. decision_level \in Nat BY <2>1, InvTypes
    <3>3. ASSUME NEW q \in 1..Len(c)
          PROVE  False(c[q]) /\ ~True(c[q]) /\ LevelOf(c[q]) \in 0..decision_level
      <4>1. c[q] \in Literals /\ False(c[q])
        BY <2>4, <2>9, <3>3 DEF AllFalse
      <4>2. QED BY <2>1, <4>1, InvTypes, FalseLiterals
    <3>4. QED BY <3>1, <3>2, <3>3
  <2>11. n > 1
    <3>1. SUFFICES ASSUME n = 1
                   PROVE  FALSE
      BY <2>5
    <3>2. ~True(d[1]) BY <2>7, <2>10
    <3>3. QED BY <2>1, <2>2, <2>5, <2>10, <3>1, <3>2, Zenon DEF LoopInv, UnitsOK
  <2>12. ASSUME NEW i \in {1, 2}
         PROVE  d[i] = c[1]
    <3>1. i \in 1..n /\ 3 - i \in 1..n BY <2>11, <2>12
    <3>2. PICK q \in 1..Len(c) : c[q] = d[i] BY <2>6, <3>1
    <3>3. PICK r \in 1..Len(c) : c[r] = d[3 - i] BY <2>6, <3>1
    <3>4. False(d[i]) /\ ~True(d[3 - i]) BY <2>10, <3>2, <3>3
    <3>5. LevelOf(d[i]) = decision_level
      BY <2>1, <2>2, <2>5, <2>11, <2>12, <3>4 DEF LoopInv, FalseWatchesOK
    <3>6. LevelOf(c[1]) > jump_level /\ LevelOf(c[1]) <= decision_level
      <4>1. 1 \in 1..Len(c) BY <2>4, <2>7
      <4>2. QED BY <2>8, <2>10, <4>1 DEF IsUip
    <3>7. SUFFICES ASSUME q # 1
                   PROVE  FALSE
      BY <3>2
    <3>8. q \in 2..Len(c) BY <2>4, <3>2, <3>7
    <3>9. LevelOf(c[q]) <= jump_level BY <2>8, <3>8 DEF IsUip
    <3>10. QED BY <2>10, <3>2, <3>5, <3>6, <3>9, SMTT(30)
  <2>13. d[1] = d[2] BY <2>12
  <2>14. QED BY <2>2, <2>3, <2>5, <2>11, <2>13, EqualWatches
<1>2. QED BY <1>1, LoopIsInvariant, PTL

-----------------------------------------------------------------------------
(* The loop uses the trail as the trail expects.                           *)

\* Propagating a literal is a step of the trail.
LEMMA PropagatesUse ==
  ASSUME LoopInv, NEW x, NEW r, NEW level, Propagates(x, r, level)
  PROVE  TrailNext
<1>1. /\ x \in Literals /\ ~is_defined(VarOf(x)) /\ VarOf(x) \in Vars
      /\ r \in Reasons \cup {NoReason} /\ level \in 0..decision_level
      /\ Propagate(VarOf(x), x > 0, r, level)
  BY InvTypes, LiteralTypes DEF Propagates
<1>2. PICK v, value : v = VarOf(x) /\ value = (x > 0) OBVIOUS
<1>3. value \in Values
  <2>1. value \in BOOLEAN BY <1>2
  <2>2. QED BY <2>1, VarsAssumption
<1>4. QED BY <1>1, <1>2, <1>3 DEF TrailNext

\* So is a decision.
LEMMA DecidesUse ==
  ASSUME NEW v \in Vars, NEW x \in Values, ~is_defined(v), Decide(v, x)
  PROVE  TrailNext
BY DEF TrailNext

\* The boolean plugin assigns what it takes from its stack.
LEMMA BoolUse ==
  ASSUME LoopInv, BoolStep
  PROVE  TrailNext \/ UNCHANGED trailVars
<1>1. CASE PopSatisfied
  <2>1. PICK x, id : x = Last(satisfied).lit /\ id = Last(satisfied).reason
    OBVIOUS
  <2>2. /\ pc = "bcp" /\ satisfied # << >>
        /\ IF id # NoReason /\ ~is_defined(VarOf(x))
             THEN Propagate(VarOf(x), x > 0, id, decision_level)
             ELSE UNCHANGED trailVars
    BY <1>1, <2>1 DEF PopSatisfied
  <2>3. x \in Literals /\ id \in Reasons \cup {NoReason}
    BY <2>1, <2>2, TopOfStack DEF TopOK
  <2>4. decision_level \in 0..decision_level BY InvTypes
  <2>5. CASE id # NoReason /\ ~is_defined(VarOf(x))
    <3>1. Propagates(x, id, decision_level)
      BY <2>2, <2>3, <2>4, <2>5 DEF Propagates
    <3>2. QED BY <3>1, PropagatesUse
  <2>6. QED BY <2>2, <2>5
<1>2. CASE ~PopSatisfied
  BY <1>2, Zenon
     DEF BoolStep, BoolPropagate, Initialize, BcpDone, VisitDone, UnitFalsified, SkipSatisfied,
     MoveWatch, FindUnit, FindFalse
<1>3. QED BY <1>1, <1>2

\* The arithmetic plugin assigns constraints.
LEMMA LraUse ==
  ASSUME LoopInv, LraStep
  PROVE  TrailNext \/ UNCHANGED trailVars
<1>1. ASSUME NEW a \in AtomVars, ~is_defined(a), is_fully_assigned(a), PropagateAtom(a)
      PROVE  TrailNext
  <2>1. PICK x, level : Valued(a, x, level) BY <1>1, AtomValued
  <2>2. Propagates(x, NoReason, level) BY <2>1 DEF Valued
  <2>3. QED BY <2>2, PropagatesUse
<1>2. CASE LraPropagate
  <2>1. PICK a \in Propagatable : PropagateAtom(a)
    BY <1>2 DEF LraPropagate
  <2>2. /\ a \in AtomVars /\ ~is_defined(a) /\ is_fully_assigned(a)
    BY <2>1, LraTypes DEF Propagatable
  <2>3. QED BY <1>1, <2>1, <2>2
<1>3. CASE LraDerive
  <2>1. PICK lit \in blame : ~is_defined(VarOf(lit)) /\ PropagateAtom(VarOf(lit))
    BY <1>3 DEF LraDerive
  <2>2. lit \in Literals /\ VarOf(lit) \in AtomVars
    BY <1>3, <2>1 DEF LraDerive, LoopInv, ExplainOK, SolverTypeOK
  <2>3. ~False(lit) BY <2>1, <2>2, InvTypes, FalseLiterals
  <2>4. is_fully_assigned(VarOf(lit))
    BY <1>3, <2>1, <2>3 DEF LraDerive, LoopInv, ExplainOK
  <2>5. QED BY <1>1, <2>1, <2>2, <2>4
<1>4. CASE LraBlame \/ LraReport \/ LraConflict
  BY <1>4 DEF LraBlame, LraReport, LraConflict
<1>5. QED BY <1>2, <1>3, <1>4 DEF LraStep, LraPropagateStep

\* A decision is about an undefined variable, also after a split.
LEMMA DecideUse ==
  ASSUME LoopInv, DecideNext \/ SplitDecide
  PROVE  TrailNext
<1>1. ASSUME NEW v \in Undecided, DecideBool(v)
      PROVE  TrailNext
  <2>1. v \in BoolVars /\ v \in Vars /\ ~is_defined(v) /\ Decide(v, PhaseOf(v))
    BY <1>1, BoolsAndReals DEF DecideBool, Undecided
  <2>2. PhaseOf(v) \in BOOLEAN
    BY <2>1, PhaseAssumption, Zenon DEF PhaseOf, LoopInv, SolverTypeOK
  <2>3. PhaseOf(v) \in Values BY <2>2, VarsAssumption
  <2>4. QED BY <2>1, <2>3, DecidesUse
<1>2. ASSUME NEW v \in Undecided, DecideReal(v)
      PROVE  TrailNext
  <2>1. PICK x \in Allowed(v) : Decide(v, x) BY <1>2 DEF DecideReal
  <2>2. v \in Vars /\ ~is_defined(v)
    BY <1>2, BoolsAndReals DEF DecideReal, Undecided
  <2>3. x \in Values BY <2>1, AtomAssumption DEF Allowed
  <2>4. QED BY <2>1, <2>2, <2>3, DecidesUse
<1>3. ASSUME SplitDecide
      PROVE  TrailNext
  <2>1. PICK lit \in choices : Decide(VarOf(lit), lit > 0)
    BY <1>3 DEF SplitDecide
  <2>2. lit \in Literals /\ ~is_defined(VarOf(lit))
    BY <1>3, <2>1 DEF SplitDecide, LoopInv, SolverTypeOK, SplitOK
  <2>3. VarOf(lit) \in Vars BY <2>2, LiteralTypes
  <2>4. PICK x : x = (lit > 0) OBVIOUS
  <2>5. x \in BOOLEAN BY <2>4
  <2>6. x \in Values BY <2>5, VarsAssumption
  <2>7. QED BY <2>1, <2>2, <2>3, <2>4, <2>6, DecidesUse
<1>4. QED BY <1>1, <1>2, <1>3 DEF DecideNext

\* Backtracking goes to a level that exists.
LEMMA BacktrackUse ==
  ASSUME LoopInv, BacktrackWith \/ RestartSolver
  PROVE  TrailNext
<1>1. CASE BacktrackWith
  <2>1. pc = "jump" /\ Backtrack(jump_level) BY <1>1 DEF BacktrackWith
  <2>2. decision_level \in Nat /\ jump_level \in 0..(decision_level - 1)
    BY <2>1, JumpFacts
  <2>3. jump_level \in 0..decision_level BY <2>2
  <2>4. QED BY <2>1, <2>3 DEF TrailNext
<1>2. CASE RestartSolver BY <1>2 DEF RestartSolver, TrailNext
<1>3. QED BY <1>1, <1>2

\* The first literal of a learned clause is propagated if it has no value.
LEMMA UnitUse ==
  ASSUME LoopInv, EveryClauseMayBeReason, UnitPropagate
  PROVE  TrailNext \/ UNCHANGED trailVars
<1>1. PICK id \in ClauseIds, c \in Seq(Literals), x \in Literals :
           /\ id = Head(todo) /\ c = Clause(id) /\ x = c[1]
           /\ id \in Reasons /\ jump_level = decision_level
  BY NextUnit
<1>2. IF is_defined(VarOf(x)) THEN UNCHANGED trailVars
      ELSE Propagate(VarOf(x), x > 0, id, decision_level)
  BY <1>1 DEF UnitPropagate
<1>3. decision_level \in 0..decision_level BY InvTypes
<1>4. CASE ~is_defined(VarOf(x))
  <2>1. Propagates(x, id, decision_level)
    BY <1>1, <1>2, <1>3, <1>4 DEF Propagates
  <2>2. QED BY <2>1, PropagatesUse
<1>5. QED BY <1>2, <1>4

\* Every step of the solver is a step of the trail or leaves it alone.
LEMMA TrailUse ==
  ASSUME LoopInv, EveryClauseMayBeReason, [Next]_vars
  PROVE  [TrailNext]_trailVars
<1>1. CASE AnalysisStep BY <1>1 DEF AnalysisStep, AnalyzeConflicts
<1>2. CASE RoundDone \/ AnswerSat \/ AnswerUnsat \/ Learn \/ UnitsDone
  BY <1>2 DEF RoundDone, AnswerSat, AnswerUnsat, Finish, Learn, UnitsDone
<1>3. CASE Returned \/ UNCHANGED vars BY <1>3 DEF Returned, vars
<1>4. QED BY <1>1, <1>2, <1>3, BoolUse, LraUse, DecideUse, BacktrackUse, UnitUse DEF Next

\* Whatever the solver does to its trail, it does as a client of the trail
\* must.
THEOREM SolverUsesTrail ==
  ASSUME EveryClauseMayBeReason
  PROVE  Spec => UsesTrailCorrectly
<1>1. Init => TrailInit BY DEF Init
<1>2. LoopInv /\ [Next]_vars => [trailVars' # trailVars => TrailNext]_trailVars
  BY TrailUse
<1>3. QED BY <1>1, <1>2, LoopIsInvariant, PTL DEF Spec, UsesTrailCorrectly

\* The same without the test that the trail changes.
LEMMA SolverKeepsTrailSpec ==
  ASSUME EveryClauseMayBeReason
  PROVE  Spec => TrailSpec
<1>1. Init => TrailInit BY DEF Init
<1>2. LoopInv /\ [Next]_vars => [TrailNext]_trailVars BY TrailUse
<1>3. QED BY <1>1, <1>2, LoopIsInvariant, PTL DEF Spec, TrailSpec

\* Backjumps of the solver leave everything at or below their level alone.
THEOREM SolverBacktracksExactly ==
  ASSUME EveryClauseMayBeReason
  PROVE  Spec => BacktrackIsExact
BY SolverKeepsTrailSpec, BacktrackExact, PTL

\* The solver's trail is a partial map cut by backtracking.
THEOREM SolverImplementsAssignment ==
  ASSUME EveryClauseMayBeReason
  PROVE  Spec => ImplementsAssignment
BY SolverKeepsTrailSpec, TrailImplementsAssignment, PTL

-----------------------------------------------------------------------------
(* Learned clauses follow from the problem and the theory.                 *)

\* Among variables with values there is one that was assigned first.
LEMMA FirstOnTrail ==
  ASSUME TrailInv, NEW S \in SUBSET Vars, S # {}, \A v \in S : is_defined(v)
  PROVE  \E v \in S : \A w \in S :
           /\ var_level[w] >= var_level[v]
           /\ var_level[w] = var_level[v] => ~ListedBefore(w, v)
<1>1. PICK L : L = {var_level[v] : v \in S} BY Zenon
<1>2. L \in SUBSET Nat /\ L # {}
  <2>1. \A v \in S : var_level[v] \in 0..decision_level /\ decision_level \in Nat
    BY DefinedLevels, Zenon
  <2>2. QED BY <1>1, <2>1
<1>3. PICK l \in L : \A k \in L : l <= k BY <1>2, LeastNatural
<1>4. PICK u \in S : var_level[u] = l BY <1>1, <1>3
<1>5. PICK list : list = assigned(l) OBVIOUS
<1>6. PICK K : K = {k \in 1..Len(list) : \E v \in S : var_level[v] = l /\ list[k].var = v}
  BY Zenon
<1>7. K \in SUBSET Nat /\ K # {}
  <2>1. /\ Len(list) \in Nat
        /\ \E k \in 1..Len(list) : list[k].var = u
    BY <1>4, <1>5, OwnPosition
  <2>2. QED BY <1>4, <1>6, <2>1
<1>8. PICK k \in K : \A j \in K : k <= j BY <1>7, LeastNatural
<1>9. PICK v \in S : var_level[v] = l /\ list[k].var = v BY <1>6, <1>8
<1>10. ASSUME NEW w \in S
       PROVE  /\ var_level[w] >= var_level[v]
              /\ var_level[w] = var_level[v] => ~ListedBefore(w, v)
  <2>1. var_level[w] >= var_level[v]
    <3>1. var_level[w] \in L /\ var_level[v] \in L BY <1>1
    <3>2. QED BY <1>2, <1>3, <1>9, <3>1, Zenon
  <2>2. SUFFICES ASSUME var_level[w] = var_level[v], ListedBefore(w, v)
                 PROVE  FALSE
    BY <2>1
  <2>3. PICK i, j \in 1..Len(list) : i < j /\ list[i].var = w /\ list[j].var = v
    BY <1>5, <1>9, <2>2 DEF ListedBefore
  <2>4. /\ Len(list) \in Nat
        /\ \A a, b \in 1..Len(list) : list[a].var = list[b].var => a = b
    <3>1. v \in Vars /\ is_defined(v) /\ assigned(var_level[v]) = list
      BY <1>5, <1>9, Zenon
    <3>2. QED BY <3>1, OwnPosition
  <2>5. k \in 1..Len(list) BY <1>6, <1>8
  <2>6. j = k BY <1>9, <2>3, <2>4, <2>5
  <2>7. i \in K BY <1>6, <1>9, <2>2, <2>3
  <2>8. QED BY <1>7, <1>8, <2>3, <2>4, <2>6, <2>7
<1>11. QED BY <1>9, <1>10

\* A model of the problem and the theory.
LEMMA ModelFacts ==
  ASSUME DatabaseOK, NEW m \in ModelsOf[Problem]
  PROVE  /\ m \in TheoryAssignments /\ m \in Assignments
         /\ \E rho \in Valuations : \A a \in AtomVars : m[a] = (rho \in AtomModels[a])
         /\ \A c \in Problem : \E lit \in c : TrueIn(m, lit)
         /\ \A lit \in Literals : TrueIn(m, -lit) <=> ~TrueIn(m, lit)
<1>1. m \in TheoryAssignments /\ Satisfies(m, Problem)
  BY DEF DatabaseOK, ModelsOf
<1>2. /\ m \in Assignments
      /\ \E rho \in Valuations : \A a \in AtomVars : m[a] = (rho \in AtomModels[a])
  BY <1>1 DEF TheoryAssignments
<1>3. ASSUME NEW lit \in Literals
      PROVE  TrueIn(m, -lit) <=> ~TrueIn(m, lit)
  <2>1. /\ VarOf(-lit) = VarOf(lit) /\ VarOf(lit) \in BoolVars /\ lit \in Int /\ lit # 0
    BY <1>3, LiteralTypes
  <2>2. m[VarOf(lit)] \in BOOLEAN BY <1>2, <2>1 DEF Assignments
  <2>3. (-lit > 0) <=> ~(lit > 0) BY <2>1
  <2>4. PICK b, pos, neg : b = m[VarOf(lit)] /\ pos = (lit > 0) /\ neg = (-lit > 0)
    OBVIOUS
  <2>5. b \in BOOLEAN BY <2>2, <2>4
  <2>6. (TrueIn(m, lit) <=> b = pos) /\ (TrueIn(m, -lit) <=> b = neg)
    BY <2>1, <2>4 DEF TrueIn
  <2>7. pos \in BOOLEAN /\ neg \in BOOLEAN
    <3>1. (lit > 0) \in BOOLEAN /\ (-lit > 0) \in BOOLEAN OBVIOUS
    <3>2. QED BY <2>4, <3>1
  <2>8. pos # neg BY <2>3, <2>4
  <2>9. QED BY <2>5, <2>6, <2>7, <2>8
<1>4. QED BY <1>1, <1>2, <1>3 DEF Satisfies

\* What follows goes on following while the problem is the same.
LEMMA FollowsStays ==
  ASSUME Problem' = Problem
  PROVE  \A lits : Follows(lits)' <=> Follows(lits)
BY DEF Follows

\* A clause of the problem follows from it.
LEMMA AssertedFollows ==
  ASSUME DatabaseOK, NEW c \in Problem
  PROVE  Follows(c)
BY ModelFacts DEF Follows

\* A valid clause over constraints follows from any problem.
LEMMA ValidFollows ==
  ASSUME DatabaseOK, NEW lits, Valid(lits), \A lit \in lits : VarOf(lit) \in AtomVars
  PROVE  Follows(lits)
<1>1. SUFFICES ASSUME NEW m \in ModelsOf[Problem]
               PROVE  \E lit \in lits : TrueIn(m, lit)
  BY DEF Follows
<1>2. PICK rho \in Valuations : \A a \in AtomVars : m[a] = (rho \in AtomModels[a])
  BY ModelFacts
<1>3. PICK lit \in lits : (rho \in AtomModels[VarOf(lit)]) = (lit > 0)
  BY <1>2 DEF Valid
<1>4. m[VarOf(lit)] = (rho \in AtomModels[VarOf(lit)]) BY <1>2
<1>5. QED BY <1>3, <1>4 DEF TrueIn

\* Resolution.
LEMMA ResolventFollows ==
  ASSUME DatabaseOK, NEW lit \in Literals, NEW other,
         Follows(work), Follows(other), lit \notin other
  PROVE  Follows(Resolvent(lit, other))
<1>1. SUFFICES ASSUME NEW m \in ModelsOf[Problem]
               PROVE  \E x \in Resolvent(lit, other) : TrueIn(m, x)
  BY DEF Follows
<1>2. TrueIn(m, -lit) <=> ~TrueIn(m, lit) BY ModelFacts
<1>3. CASE TrueIn(m, lit)
  <2>1. PICK x \in other : TrueIn(m, x) BY DEF Follows
  <2>2. x # -lit /\ x # lit BY <1>2, <1>3, <2>1
  <2>3. QED BY <2>1, <2>2 DEF Resolvent
<1>4. CASE ~TrueIn(m, lit)
  <2>1. PICK x \in work : TrueIn(m, x) BY DEF Follows
  <2>2. QED BY <1>4, <2>1 DEF Resolvent
<1>5. QED BY <1>3, <1>4

\* What minimisation leaves follows: among the literals of the clause that are
\* true in a model take the one that became false first.  Had it been removed,
\* its reason would have a literal that is true in the model and was false before.
LEMMA KeptFollows ==
  ASSUME LoopInv, DerivedOK, pc = "minimize", minimized.next > Len(minimized.clause)
  PROVE  Follows(ToSet(minimized.kept))
<1>1. PICK c : c = minimized.clause OBVIOUS
<1>2. PICK kept : kept = ToSet(minimized.kept) OBVIOUS
<1>3. /\ TrailInv /\ BoolValued(model) /\ DatabaseOK
      /\ c \in Seq(Literals) /\ Len(c) \in Nat /\ AllFalse(c)
      /\ minimized.next = Len(c) + 1
  <2>1. minimized.next \in 1..(Len(c) + 1) /\ Len(c) \in Nat
    BY <1>1, MinimizeFacts
  <2>2. minimized.next = Len(c) + 1 BY <1>1, <2>1
  <2>3. QED BY <1>1, <2>1, <2>2, MinimizeFacts, InvTypes DEF LoopInv
<1>4. /\ Follows(ToSet(c))
      /\ \A p \in 1..Len(c) : c[p] \in kept \/ ImpliedBy(c[p], ToSet(c))
  <2>1. RemovedAreImplied BY DEF DerivedOK
  <2>2. 1..(minimized.next - 1) = 1..Len(c) BY <1>3
  <2>3. QED BY <1>1, <1>2, <2>1, <2>2, Zenon DEF RemovedAreImplied
<1>5. \A lit : lit \in ToSet(c) <=> \E p \in 1..Len(c) : c[p] = lit
  BY <1>3, ElementsOf
<1>6. \A lit \in ToSet(c) : lit \in Literals /\ False(lit) /\ is_defined(VarOf(lit)) /\ VarOf(lit) \in Vars
  <2>1. TAKE lit \in ToSet(c)
  <2>2. lit \in Literals BY <1>3, ElementsOf
  <2>3. False(lit) BY <1>3, <1>5 DEF AllFalse
  <2>4. is_defined(VarOf(lit)) /\ VarOf(lit) \in Vars
    BY <1>3, <2>2, <2>3, FalseLiterals, LiteralTypes
  <2>5. QED BY <2>2, <2>3, <2>4
<1>7. SUFFICES ASSUME NEW m \in ModelsOf[Problem]
               PROVE  \E lit \in kept : TrueIn(m, lit)
  BY <1>2 DEF Follows
<1>8. PICK S : S = {VarOf(lit) : lit \in {lit \in ToSet(c) : TrueIn(m, lit)}}
  BY Zenon
<1>9. S \in SUBSET Vars /\ S # {} /\ \A v \in S : is_defined(v)
  <2>1. \E lit \in ToSet(c) : TrueIn(m, lit) BY <1>4 DEF Follows
  <2>2. QED BY <1>6, <1>8, <2>1
<1>10. PICK v \in S : \A w \in S :
           /\ var_level[w] >= var_level[v]
           /\ var_level[w] = var_level[v] => ~ListedBefore(w, v)
  BY <1>3, <1>9, FirstOnTrail
<1>11. PICK lit \in ToSet(c) : TrueIn(m, lit) /\ VarOf(lit) = v BY <1>8
<1>12. SUFFICES ASSUME lit \notin kept
                PROVE  FALSE
  BY <1>11
<1>13. ImpliedBy(lit, ToSet(c)) BY <1>4, <1>5, <1>12
<1>14. v \in BoolVars /\ var_reason[v] # NoReason /\ lit \in Literals /\ False(lit)
  BY <1>6, <1>11, <1>13, LiteralTypes DEF ImpliedBy
<1>15. PICK d \in Seq(Literals) :
           /\ var_reason[v] \in ClauseIds /\ d = Clause(var_reason[v])
           /\ is_defined(v) /\ var_level[v] \in 0..decision_level
           /\ Len(d) >= 1 /\ Len(d) \in Nat /\ d[1] = TrueLiteralOf(v)
           /\ \A p \in 2..Len(d) :
                /\ d[p] \in Literals /\ False(d[p]) /\ LevelOf(d[p]) <= var_level[v]
                /\ VarOf(d[p]) # v
                /\ LevelOf(d[p]) = var_level[v] => ListedBefore(VarOf(d[p]), v)
           /\ var_level[v] > 0 => \E p \in 2..Len(d) : LevelOf(d[p]) = var_level[v]
  BY <1>14, ReasonFacts, Zenon
<1>16. d[1] = -lit BY <1>3, <1>11, <1>14, <1>15, TrueLiteralOfFalse
<1>17. ToSet(d) \subseteq ToSet(c) \cup {-lit}
  BY <1>11, <1>13, <1>15 DEF ImpliedBy
<1>18. PICK x \in ToSet(d) : TrueIn(m, x)
  <2>1. Follows(ToSet(d)) BY <1>15 DEF DerivedOK
  <2>2. QED BY <2>1 DEF Follows
<1>19. x # -lit
  <2>1. TrueIn(m, -lit) <=> ~TrueIn(m, lit) BY <1>3, <1>14, ModelFacts
  <2>2. QED BY <1>11, <1>18, <2>1
<1>20. PICK q \in 1..Len(d) : d[q] = x BY <1>15, ElementsOf
<1>21. q \in 2..Len(d) BY <1>15, <1>16, <1>19, <1>20
<1>22. VarOf(x) \in S BY <1>8, <1>17, <1>18, <1>19
<1>23. /\ LevelOf(x) <= var_level[v]
       /\ LevelOf(x) = var_level[v] => ListedBefore(VarOf(x), v)
  BY <1>15, <1>20, <1>21
<1>24. /\ LevelOf(x) >= var_level[v]
       /\ LevelOf(x) = var_level[v] => ~ListedBefore(VarOf(x), v)
  BY <1>10, <1>22 DEF LevelOf
<1>25. LevelOf(x) \in Int /\ var_level[v] \in Int
  BY <1>3, <1>9, <1>22, DefinedLevels DEF LevelOf
<1>26. QED BY <1>23, <1>24, <1>25

\* The parts of DerivedOK, in a state in which the problem is the same.
LEMMA DerivedFrame ==
  ASSUME Problem' = Problem,
         \A id \in ClauseIds' : Follows(ToSet(Clause(id)')),
         \A k \in 1..Len(conflicts') : Follows(ToSet(conflicts'[k])),
         \A k \in 1..Len(lemmas') : Follows(ToSet(lemmas'[k])),
         pc' = "explain" => Follows(blame'),
         pc' = "resolve" => Follows(work'),
         RemovedAreImplied'
  PROVE  DerivedOK'
<1>1. \A lits : Follows(lits)' <=> Follows(lits) BY FollowsStays
<1>2. /\ \A id \in ClauseIds' : Follows(ToSet(Clause(id)))'
      /\ \A k \in 1..Len(conflicts') : Follows(ToSet(conflicts[k]))'
      /\ \A k \in 1..Len(lemmas') : Follows(ToSet(lemmas[k]))'
      /\ pc' = "explain" => Follows(blame)'
      /\ pc' = "resolve" => Follows(work)'
  BY <1>1
<1>3. QED BY <1>2 DEF DerivedOK

\* Steps that derive nothing.
LEMMA NothingDerived ==
  ASSUME DerivedOK, UNCHANGED <<dbVars, lemmas>>,
         conflicts' = conflicts \/ conflicts' = << >>,
         pc' = "explain" => pc = "explain" /\ blame' = blame,
         pc' # "resolve", pc' # "minimize"
  PROVE  DerivedOK'
<1>1. /\ ClauseIds' = ClauseIds /\ Problem' = Problem
      /\ \A id : Clause(id)' = Clause(id)
  BY SameClausesFacts DEF SameClauses
<1>2. /\ \A id \in ClauseIds' : Follows(ToSet(Clause(id)'))
      /\ pc' = "explain" => Follows(blame')
      /\ \A k \in 1..Len(lemmas') : Follows(ToSet(lemmas'[k]))
  BY <1>1 DEF DerivedOK
<1>3. \A k \in 1..Len(conflicts') : Follows(ToSet(conflicts'[k]))
  <2>1. CASE conflicts' = conflicts BY <2>1 DEF DerivedOK
  <2>2. CASE conflicts' = << >>
    <3>1. PICK e : e = << >> OBVIOUS
    <3>2. Len(e) = 0 BY <3>1
    <3>3. QED BY <2>2, <3>1, <3>2
  <2>3. QED BY <2>1, <2>2
<1>4. RemovedAreImplied' BY DEF RemovedAreImplied
<1>5. QED BY <1>1, <1>2, <1>3, <1>4, DerivedFrame

\* The problem is the same when the literals of a clause change places.
LEMMA SameProblem ==
  ASSUME asserted \in ClauseLists, learned \in ClauseLists,
         NEW id \in ClauseIds, NEW c \in Seq(Literals), SetClause(id, c),
         ToSet(c) = ToSet(Clause(id))
  PROVE  /\ Problem' = Problem /\ ClauseIds' = ClauseIds
         /\ \A k \in ClauseIds : ToSet(Clause(k)') = ToSet(Clause(k))
<1>1. /\ Len(asserted') = Len(asserted) /\ asserted' \in ClauseLists
      /\ ClauseIds' = ClauseIds
      /\ \A k \in ClauseIds : ToSet(Clause(k)') = ToSet(Clause(k))
  BY SetClauseEffect
<1>2. Problem = {ToSet(Clause(k)) : k \in 1..Len(asserted)}
      /\ \A k \in 1..Len(asserted) : k \in ClauseIds
  BY ProblemClauses
<1>3. Problem' = {ToSet(Clause(k)') : k \in 1..Len(asserted)}
  <2>1. \A k \in 1..Len(asserted) : Clause(k)' = asserted'[k]
    BY <1>1 DEF Clause
  <2>2. DOMAIN asserted' = 1..Len(asserted) BY <1>1 DEF ClauseLists
  <2>3. Problem' = {ToSet(asserted'[k]) : k \in 1..Len(asserted)}
    BY <2>2 DEF Problem
  <2>4. QED BY <2>1, <2>3
<1>4. QED BY <1>1, <1>2, <1>3

\* A visit changes the places of literals, and finds at most one conflict: the
\* visited clause.
LEMMA VisitDerived ==
  ASSUME LoopInv, DerivedOK, AtWatch, NEW c \in Seq(Literals),
         ToSet(c) = ToSet(VisitedClause),
         SetClause(VisitedId, c) \/ UNCHANGED dbVars,
         conflicts' = conflicts \/ conflicts' = <<c>>,
         UNCHANGED lemmas, pc' \in {"watch", "conflict"}
  PROVE  DerivedOK'
<1>1. PICK id : id = VisitedId OBVIOUS
<1>2. id \in ClauseIds /\ ToSet(c) = ToSet(Clause(id))
  BY <1>1, VisitedFacts
<1>3. /\ Problem' = Problem /\ ClauseIds' = ClauseIds
      /\ \A k \in ClauseIds : ToSet(Clause(k)') = ToSet(Clause(k))
  <2>1. CASE SetClause(id, c) BY <1>2, <2>1, InvTypes, SameProblem
  <2>2. CASE UNCHANGED dbVars
    <3>1. SameClauses BY <2>2 DEF SameClauses
    <3>2. /\ ClauseIds' = ClauseIds /\ Problem' = Problem
          /\ \A k : Clause(k)' = Clause(k)
      BY <3>1, SameClausesFacts
    <3>3. QED BY <3>2
  <2>3. QED BY <1>1, <2>1, <2>2
<1>4. Follows(ToSet(c)) BY <1>2 DEF DerivedOK
<1>5. \A k \in 1..Len(conflicts') : Follows(ToSet(conflicts'[k]))
  <2>1. CASE conflicts' = conflicts BY <2>1 DEF DerivedOK
  <2>2. CASE conflicts' = <<c>>
    <3>1. Len(conflicts') = 1 /\ conflicts'[1] = c BY <2>2
    <3>2. QED BY <1>4, <3>1
  <2>3. QED BY <2>1, <2>2
<1>6. \A k \in ClauseIds' : Follows(ToSet(Clause(k)'))
  BY <1>3 DEF DerivedOK
<1>7. \A k \in 1..Len(lemmas') : Follows(ToSet(lemmas'[k]))
  BY DEF DerivedOK
<1>8. RemovedAreImplied' /\ pc' # "explain" /\ pc' # "resolve"
  BY DEF RemovedAreImplied
<1>9. QED BY <1>3, <1>5, <1>6, <1>7, <1>8, DerivedFrame

\* Propagation of literals derives nothing but conflicts.
LEMMA BoolDerives ==
  ASSUME LoopInv, DerivedOK, BoolStep
  PROVE  DerivedOK'
<1>1. UNCHANGED lemmas BY DEF BoolStep, analysisVars
<1>2. CASE Initialize \/ PopSatisfied \/ BcpDone \/ VisitDone
  BY <1>1, <1>2, NothingDerived
     DEF Initialize, PopSatisfied, BcpDone, VisitDone, EndOfList, bcpVars
<1>3. CASE UnitFalsified \/ SkipSatisfied \/ FindUnit \/ FindFalse
  <2>1. AtWatch /\ pc' \in {"watch", "conflict"}
        /\ (SetClause(VisitedId, VisitedClause) \/ UNCHANGED dbVars)
        /\ (conflicts' = conflicts \/ conflicts' = <<VisitedClause>>)
    BY <1>3 DEF UnitFalsified, SkipSatisfied, FindUnit, FindFalse, Exhausted, AtWatch
  <2>2. VisitedClause \in Seq(Literals) BY <2>1, VisitedFacts
  <2>3. QED BY <1>1, <2>1, <2>2, VisitDerived
<1>4. CASE MoveWatch
  <2>1. PICK d, p : d = VisitedClause /\ p = FirstReplacement(d, Visited[visit.i].index)
    OBVIOUS
  <2>2. /\ AtWatch /\ pc' = "watch" /\ Len(d) > 1 /\ Replacements(d) # {}
        /\ SetClause(VisitedId, Swap(d, 2, p)) /\ conflicts' = conflicts
    BY <1>4, <2>1, Zenon DEF MoveWatch, AtWatch
  <2>3. d \in Seq(Literals) /\ Len(d) \in Nat
        /\ (Len(d) > 2 => Visited[visit.i].index \in 3..Len(d))
    BY <2>1, <2>2, VisitedFacts
  <2>4. p \in 1..Len(d) /\ 2 \in 1..Len(d)
    <3>1. Len(d) > 2 BY <2>2, <2>3 DEF Replacements
    <3>2. Visited[visit.i].index \in Int BY <2>3, <3>1
    <3>3. p \in Replacements(d)
      BY <2>1, <2>2, <2>3, <3>2, ReplacementFound
    <3>4. QED BY <2>3, <3>1, <3>3 DEF Replacements
  <2>5. Swap(d, 2, p) \in Seq(Literals) /\ ToSet(Swap(d, 2, p)) = ToSet(d)
    BY <2>3, <2>4, SwapEffect
  <2>6. QED BY <1>1, <2>1, <2>2, <2>5, VisitDerived
<1>5. QED BY <1>2, <1>3, <1>4 DEF BoolStep, BoolPropagate

\* The explanations are valid clauses over constraints.
LEMMA BlameFollows ==
  ASSUME LoopInv, NEW r \in RealVars, NEW lemma \in Explanations(r)
  PROVE  Follows(lemma)
<1>1. Valid(lemma) BY Zenon DEF Explanations
<1>2. \A lit \in lemma : VarOf(lit) \in AtomVars BY ExplanationFalse
<1>3. DatabaseOK BY DEF LoopInv
<1>4. QED BY <1>1, <1>2, <1>3, ValidFollows

\* The conflicts of the arithmetic plugin follow from the theory.
LEMMA LraDerives ==
  ASSUME LoopInv, DerivedOK, LraStep
  PROVE  DerivedOK'
<1>1. /\ UNCHANGED <<dbVars, lemmas>>
      /\ LraPropagate \/ LraBlame \/ LraDerive \/ LraReport \/ LraConflict
  BY DEF LraStep, LraPropagateStep, analysisVars
<1>2. /\ Problem' = Problem
      /\ \A id \in ClauseIds' : Follows(ToSet(Clause(id)'))
      /\ \A k \in 1..Len(lemmas') : Follows(ToSet(lemmas'[k]))
  <2>1. /\ ClauseIds' = ClauseIds /\ Problem' = Problem
        /\ \A id : Clause(id)' = Clause(id)
    BY <1>1, SameClausesFacts DEF SameClauses
  <2>2. QED BY <1>1, <2>1 DEF DerivedOK
<1>3. CASE LraPropagate \/ LraDerive \/ LraConflict
  BY <1>1, <1>3, NothingDerived DEF LraPropagate, LraDerive, LraConflict, lraVars
<1>4. CASE LraBlame
  <2>1. PICK r \in RealVars : blame' \in Explanations(r)
    BY <1>4 DEF LraBlame
  <2>2. Follows(blame') BY <2>1, BlameFollows
  <2>3. pc' = "explain" /\ conflicts' = conflicts BY <1>4 DEF LraBlame
  <2>4. \A k \in 1..Len(conflicts') : Follows(ToSet(conflicts'[k]))
    BY <2>3 DEF DerivedOK
  <2>5. RemovedAreImplied' BY <2>3 DEF RemovedAreImplied
  <2>6. QED BY <1>2, <2>2, <2>3, <2>4, <2>5, DerivedFrame
<1>5. CASE LraReport
  <2>1. PICK c : c = SortedList(blame, IndexBefore) OBVIOUS
  <2>2. pc = "explain" /\ pc' = "theory" /\ conflicts' = Append(conflicts, c)
    BY <1>5, <2>1 DEF LraReport
  <2>3. blame \in SUBSET Literals /\ conflicts \in ClauseLists
    BY DEF LoopInv, SolverTypeOK
  <2>4. c \in Seq(Literals) /\ ToSet(c) = blame
    <3>1. /\ SortedList(blame, IndexBefore) \in Seq(Literals)
          /\ ToSet(SortedList(blame, IndexBefore)) = blame
      BY <2>3, SortedByIndex
    <3>2. QED BY <2>1, <3>1
  <2>5. Follows(ToSet(c)) BY <2>2, <2>4 DEF DerivedOK
  <2>6. /\ Len(conflicts') = Len(conflicts) + 1 /\ Len(conflicts) \in Nat
        /\ conflicts'[Len(conflicts) + 1] = c
        /\ \A k \in 1..Len(conflicts) : conflicts'[k] = conflicts[k]
    BY <2>2, <2>3, <2>4, AppendEffect DEF ClauseLists
  <2>7. \A k \in 1..Len(conflicts') : Follows(ToSet(conflicts'[k]))
    BY <2>5, <2>6 DEF DerivedOK
  <2>8. RemovedAreImplied' BY <2>2 DEF RemovedAreImplied
  <2>9. QED BY <1>2, <2>2, <2>7, <2>8, DerivedFrame
<1>6. QED BY <1>1, <1>3, <1>4, <1>5

\* What a step of conflict analysis leaves alone.
LEMMA AnalysisKeeps ==
  ASSUME DerivedOK, AnalysisStep
  PROVE  /\ Problem' = Problem /\ UNCHANGED trailVars
         /\ \A id : Clause(id)' = Clause(id)
         /\ \A id \in ClauseIds' : Follows(ToSet(Clause(id)'))
<1>1. UNCHANGED <<dbVars, trailVars>>
  BY DEF AnalysisStep, AnalyzeConflicts
<1>2. /\ ClauseIds' = ClauseIds /\ Problem' = Problem
      /\ \A id : Clause(id)' = Clause(id)
  BY <1>1, SameClausesFacts DEF SameClauses
<1>3. QED BY <1>1, <1>2 DEF DerivedOK

\* The conflict that is analysed first.
LEMMA BeginDerives ==
  ASSUME LoopInv, DerivedOK, AnalysisStep, BeginAnalysis
  PROVE  DerivedOK'
<1>1. /\ pc = "conflict" /\ pc' = "resolve" /\ work' = ToSet(Head(conflicts))
      /\ conflicts' = Tail(conflicts) /\ lemmas' = lemmas
  BY DEF BeginAnalysis
<1>2. conflicts \in ClauseLists /\ conflicts # << >>
  BY <1>1 DEF LoopInv, SolverTypeOK, ConflictsOK
<1>3. /\ Len(conflicts) \in Nat \ {0} /\ Head(conflicts) = conflicts[1]
      /\ Len(conflicts') = Len(conflicts) - 1
      /\ \A k \in 1..Len(conflicts') : conflicts'[k] = conflicts[k + 1]
  BY <1>1, <1>2 DEF ClauseLists
<1>4. Follows(work') /\ \A k \in 1..Len(conflicts') : Follows(ToSet(conflicts'[k]))
  BY <1>1, <1>3 DEF DerivedOK
<1>5. RemovedAreImplied' /\ \A k \in 1..Len(lemmas') : Follows(ToSet(lemmas'[k]))
  BY <1>1 DEF RemovedAreImplied, DerivedOK
<1>6. QED BY <1>1, <1>4, <1>5, AnalysisKeeps, DerivedFrame

\* Resolution with the reason of a literal of the conflict.
LEMMA ResolveDerives ==
  ASSUME LoopInv, DerivedOK, AnalysisStep, ResolveStep
  PROVE  DerivedOK'
<1>1. PICK entry : entry = assigned(top_level)[position] OBVIOUS
<1>2. /\ pc = "resolve" /\ pc' = "resolve" /\ position > 0
      /\ conflicts' = conflicts /\ lemmas' = lemmas
      /\ work' = IF CanResolve(entry)
                   THEN Resolvent(FalsifiedBy(entry), ToSet(Clause(entry.reason)))
                   ELSE work
  BY <1>1 DEF ResolveStep
<1>3. /\ TrailInv /\ BoolValued(model) /\ DatabaseOK /\ work \subseteq Literals
      /\ top_level \in 0..decision_level /\ position \in 1..Len(assigned(top_level))
  <2>1. /\ top_level \in Nat /\ top_level <= decision_level
        /\ position \in Nat /\ position <= Len(assigned(top_level))
    BY <1>2 DEF LoopInv, SolverTypeOK, ResolveOK
  <2>2. decision_level \in Nat BY InvTypes
  <2>3. Len(assigned(top_level)) \in Nat
    BY <2>1, <2>2, InvTypes, ListTypes
  <2>4. QED BY <1>2, <2>1, <2>2, <2>3, InvTypes DEF LoopInv, SolverTypeOK
<1>4. Follows(work) BY <1>2 DEF DerivedOK
<1>5. Follows(work')
  <2>1. CASE ~CanResolve(entry) BY <1>2, <1>4, <2>1
  <2>2. CASE CanResolve(entry)
    <3>1. PICK v, lit : v = entry.var /\ lit = FalsifiedBy(entry)
      OBVIOUS
    <3>2. v \in BoolVars /\ var_reason[v] # NoReason /\ lit \in work
          /\ entry.reason = var_reason[v] /\ lit = -TrueLiteralOf(v)
      BY <1>1, <1>3, <2>2, <3>1, EntryFacts DEF CanResolve, FalsifiedBy
    <3>3. PICK c \in Seq(Literals) :
            /\ var_reason[v] \in ClauseIds /\ c = Clause(var_reason[v])
            /\ Len(c) >= 1 /\ Len(c) \in Nat /\ c[1] = TrueLiteralOf(v)
            /\ \A p \in 2..Len(c) : VarOf(c[p]) # v
      BY <3>2, ReasonFacts
    <3>4. TrueLiteralOf(v) \in Literals /\ VarOf(TrueLiteralOf(v)) = v
      BY <1>3, <3>2, TrueLiteral
    <3>5. lit \in Literals /\ lit # c[1] /\ VarOf(lit) = v
      BY <3>2, <3>3, <3>4, LiteralTypes
    <3>6. lit \notin ToSet(c)
      <4>1. SUFFICES ASSUME NEW p \in 1..Len(c), c[p] = lit
                     PROVE  FALSE
        BY <3>3, ElementsOf
      <4>2. p \in 2..Len(c) BY <3>3, <3>5, <4>1
      <4>3. QED BY <3>3, <3>5, <4>1, <4>2
    <3>7. Follows(ToSet(c)) BY <3>3 DEF DerivedOK
    <3>8. PICK other : other = ToSet(c) OBVIOUS
    <3>9. Follows(Resolvent(lit, other))
      BY <1>3, <1>4, <3>5, <3>6, <3>7, <3>8, ResolventFollows
    <3>10. QED BY <1>2, <2>2, <3>1, <3>2, <3>3, <3>8, <3>9
  <2>3. QED BY <2>1, <2>2
<1>6. /\ RemovedAreImplied'
      /\ \A k \in 1..Len(lemmas') : Follows(ToSet(lemmas'[k]))
      /\ \A k \in 1..Len(conflicts') : Follows(ToSet(conflicts'[k]))
  BY <1>2 DEF RemovedAreImplied, DerivedOK
<1>7. QED BY <1>2, <1>5, <1>6, AnalysisKeeps, DerivedFrame

\* The clause that minimisation starts from has the literals of the conflict.
LEMMA FinishDerives ==
  ASSUME LoopInv, DerivedOK, AnalysisStep, FinishAnalysis
  PROVE  DerivedOK'
<1>1. PICK c, level : c = SortedList(work, HigherLevelFirst) /\ level = BacktrackLevel(c)
  OBVIOUS
<1>2. /\ pc = "resolve" /\ pc' = "minimize"
      /\ conflicts' = conflicts /\ lemmas' = lemmas
      /\ minimized' = [clause |-> c, kept |-> << >>, next |-> 1, level |-> level]
  BY <1>1 DEF FinishAnalysis
<1>3. ToSet(c) = work
  <2>1. work \in SUBSET Literals /\ \A lit \in work : False(lit)
    BY <1>2, Zenon DEF LoopInv, SolverTypeOK, ResolveOK
  <2>2. ToSet(SortedList(work, HigherLevelFirst)) = work
    BY <2>1, SortedByLevel
  <2>3. QED BY <1>1, <2>2
<1>4. Follows(ToSet(c)) BY <1>2, <1>3 DEF DerivedOK
<1>5. Follows(ToSet(minimized.clause))'
  <2>1. \A lits : Follows(lits)' <=> Follows(lits)
    BY AnalysisKeeps, FollowsStays
  <2>2. QED BY <1>2, <1>4, <2>1
<1>6. RemovedAreImplied'
  <2>1. minimized'.next = 1 /\ 1..(1 - 1) = {} BY <1>2
  <2>2. 1..(minimized'.next - 1) = {} BY <2>1
  <2>3. QED BY <1>5, <2>2 DEF RemovedAreImplied
<1>7. /\ \A k \in 1..Len(lemmas') : Follows(ToSet(lemmas'[k]))
      /\ \A k \in 1..Len(conflicts') : Follows(ToSet(conflicts'[k]))
  BY <1>2 DEF DerivedOK
<1>8. QED BY <1>2, <1>6, <1>7, AnalysisKeeps, DerivedFrame

\* A literal is removed only if the others of its reason are in the clause.
LEMMA MinimizeDerives ==
  ASSUME LoopInv, DerivedOK, AnalysisStep, MinimizeStep
  PROVE  DerivedOK'
<1>1. PICK c, kept, next : c = minimized.clause /\ kept = minimized.kept /\ next = minimized.next
  OBVIOUS
<1>2. PICK lit : lit = c[next] OBVIOUS
<1>3. /\ c \in Seq(Literals) /\ kept \in Seq(Literals) /\ next \in 1..(Len(c) + 1)
      /\ Len(c) \in Nat /\ ToSet(Contents) \subseteq ToSet(c)
      /\ pc = "minimize" /\ pc' = "minimize" /\ next <= Len(c)
  BY <1>1, MinimizeFacts DEF MinimizeStep
<1>4. /\ conflicts' = conflicts /\ lemmas' = lemmas
      /\ minimized'.clause = c /\ minimized'.next = next + 1
      /\ minimized'.kept = IF Redundant(lit) THEN kept ELSE Append(kept, lit)
  <2>1. minimized \in [clause : Seq(Literals), kept : Seq(Literals), next : Nat, level : Int]
    BY DEF LoopInv, SolverTypeOK
  <2>2. QED BY <1>1, <1>2, <2>1 DEF MinimizeStep
<1>5. lit \in Literals BY <1>2, <1>3
<1>6. PICK d : d = minimized'.kept OBVIOUS
<1>7. /\ \A x \in ToSet(kept) : x \in ToSet(d)
      /\ ~Redundant(lit) => lit \in ToSet(d)
  <2>1. CASE Redundant(lit) BY <1>4, <1>6, <2>1
  <2>2. CASE ~Redundant(lit)
    <3>1. d = Append(kept, lit) BY <1>4, <1>6, <2>2
    <3>2. /\ d \in Seq(Literals) /\ Len(d) = Len(kept) + 1 /\ Len(kept) \in Nat
          /\ d[Len(kept) + 1] = lit /\ \A k \in 1..Len(kept) : d[k] = kept[k]
      BY <1>3, <1>5, <3>1, AppendEffect
    <3>3. \A x : x \in ToSet(d) <=> \E k \in 1..Len(d) : d[k] = x
      BY <3>2, ElementsOf
    <3>4. \A x : x \in ToSet(kept) <=> \E k \in 1..Len(kept) : kept[k] = x
      BY <1>3, ElementsOf
    <3>5. QED BY <3>2, <3>3, <3>4
  <2>3. QED BY <2>1, <2>2
<1>8. \A x : ImpliedBy(x, ToSet(c)) => ImpliedBy(x, ToSet(c))'
  BY <1>1, <1>4, AnalysisKeeps DEF ImpliedBy, trailVars
<1>9. Redundant(lit) => ImpliedBy(lit, ToSet(c))
  BY <1>3 DEF Redundant, ImpliedBy
<1>10. /\ Follows(ToSet(c))
       /\ \A p \in 1..(next - 1) : c[p] \in ToSet(kept) \/ ImpliedBy(c[p], ToSet(c))
  BY <1>1, <1>3 DEF DerivedOK, RemovedAreImplied
<1>11. Follows(ToSet(minimized.clause))'
  <2>1. \A lits : Follows(lits)' <=> Follows(lits)
    BY AnalysisKeeps, FollowsStays
  <2>2. QED BY <1>4, <1>10, <2>1
<1>12. ASSUME NEW p \in 1..(minimized'.next - 1)
       PROVE  c[p] \in ToSet(d) \/ ImpliedBy(c[p], ToSet(c))'
  <2>1. p \in 1..(next - 1) \/ (p = next /\ c[p] = lit)
    BY <1>2, <1>3, <1>4, <1>12
  <2>2. QED BY <1>7, <1>8, <1>9, <1>10, <2>1
<1>13. RemovedAreImplied'
  <2>1. \A p \in 1..(minimized'.next - 1) :
          \/ minimized'.clause[p] \in ToSet(minimized'.kept)
          \/ ImpliedBy(minimized.clause[p], ToSet(minimized.clause))'
    <3>1. TAKE p \in 1..(minimized'.next - 1)
    <3>2. PICK x, s : x = c[p] /\ s = ToSet(c) OBVIOUS
    <3>3. ImpliedBy(x, s)' => ImpliedBy(minimized.clause[p], ToSet(minimized.clause))'
      BY <1>4, <3>2 DEF ImpliedBy
    <3>4. x \in ToSet(d) \/ ImpliedBy(x, s)'
      <4>1. ImpliedBy(c[p], ToSet(c))' => ImpliedBy(x, s)'
        BY <1>1, <1>4, <3>2 DEF ImpliedBy
      <4>2. QED BY <1>12, <3>2, <4>1
    <3>5. QED BY <1>4, <1>6, <3>2, <3>3, <3>4
  <2>2. QED BY <1>11, <2>1 DEF RemovedAreImplied
<1>14. /\ \A k \in 1..Len(lemmas') : Follows(ToSet(lemmas'[k]))
       /\ \A k \in 1..Len(conflicts') : Follows(ToSet(conflicts'[k]))
  BY <1>4 DEF DerivedOK
<1>15. QED BY <1>3, <1>13, <1>14, AnalysisKeeps, DerivedFrame

\* The minimised clause joins the others, replaces them or is dropped.
LEMMA KeepLowestDerives ==
  ASSUME LoopInv, DerivedOK, AnalysisStep, KeepLowest
  PROVE  DerivedOK'
<1>1. PICK kept : kept = minimized.kept OBVIOUS
<1>2. /\ pc = "minimize" /\ minimized.next > Len(minimized.clause)
      /\ pc' \in {"learn", "conflict"} /\ conflicts' = conflicts
      /\ lemmas' = <<kept>> \/ lemmas' = Append(lemmas, kept) \/ lemmas' = lemmas
  BY <1>1 DEF KeepLowest
<1>3. Follows(ToSet(kept)) /\ kept \in Seq(Literals) /\ lemmas \in Seq(Seq(Literals))
  BY <1>1, <1>2, KeptFollows, MinimizeFacts, Zenon DEF LoopInv, SolverTypeOK, ClauseLists
<1>4. \A k \in 1..Len(lemmas') : Follows(ToSet(lemmas'[k]))
  <2>1. CASE lemmas' = <<kept>>
    <3>1. Len(lemmas') = 1 /\ lemmas'[1] = kept BY <2>1
    <3>2. QED BY <1>3, <3>1
  <2>2. CASE lemmas' = Append(lemmas, kept)
    <3>1. /\ Len(lemmas') = Len(lemmas) + 1 /\ Len(lemmas) \in Nat
          /\ lemmas'[Len(lemmas) + 1] = kept
          /\ \A k \in 1..Len(lemmas) : lemmas'[k] = lemmas[k]
      BY <1>3, <2>2, AppendEffect
    <3>2. TAKE k \in 1..Len(lemmas')
    <3>3. CASE k \in 1..Len(lemmas) BY <3>1, <3>3 DEF DerivedOK
    <3>4. CASE k = Len(lemmas) + 1 BY <1>3, <3>1, <3>4
    <3>5. QED BY <3>1, <3>3, <3>4
  <2>3. CASE lemmas' = lemmas BY <2>3 DEF DerivedOK
  <2>4. QED BY <1>2, <2>1, <2>2, <2>3
<1>5. RemovedAreImplied' /\ \A k \in 1..Len(conflicts') : Follows(ToSet(conflicts'[k]))
  BY <1>2 DEF RemovedAreImplied, DerivedOK
<1>6. QED BY <1>2, <1>4, <1>5, AnalysisKeeps, DerivedFrame

\* When asserted clauses stay, so does the problem.
LEMMA AssertedStay ==
  ASSUME UNCHANGED asserted
  PROVE  Problem' = Problem
BY DEF Problem

\* A lemma that is learned follows from the problem.
LEMMA LearnDerives ==
  ASSUME LoopInv, DerivedOK, Learn
  PROVE  DerivedOK'
<1>1. PICK new : new = PreferredLemmas OBVIOUS
<1>2. /\ UNCHANGED <<asserted, conflicts>> /\ learned' = learned \o new
      /\ lemmas' = << >> /\ pc' = "jump"
  BY <1>1 DEF Learn
<1>3. new \in ClauseLists /\ ToSet(new) \subseteq ToSet(lemmas) /\ lemmas \in ClauseLists
  BY <1>1, PreferredAreLemmas DEF LoopInv, SolverTypeOK
<1>4. PICK n : n = Len(asserted) + Len(learned) OBVIOUS
<1>5. Extends(new, n)
  <2>1. Extends(new, Len(asserted) + Len(learned))
    BY <1>2, <1>3, InvTypes, DatabaseExtends, Zenon
  <2>2. QED BY <1>4, <2>1
<1>6. \A k \in 1..Len(new) : Follows(ToSet(new[k]))
  <2>1. TAKE k \in 1..Len(new)
  <2>2. new[k] \in ToSet(new) BY <1>3, ElementsOf DEF ClauseLists
  <2>3. PICK j \in 1..Len(lemmas) : lemmas[j] = new[k]
    BY <1>3, <2>2, ElementsOf, ZenonT(40) DEF ClauseLists
  <2>4. QED BY <2>3 DEF DerivedOK
<1>7. \A id \in ClauseIds' : Follows(ToSet(Clause(id)'))
  BY <1>5, <1>6 DEF Extends, DerivedOK
<1>8. \A k \in 1..Len(lemmas') : Follows(ToSet(lemmas'[k]))
  <2>1. PICK e : e = << >> OBVIOUS
  <2>2. Len(e) = 0 BY <2>1
  <2>3. QED BY <1>2, <2>1, <2>2
<1>9. RemovedAreImplied' /\ \A k \in 1..Len(conflicts') : Follows(ToSet(conflicts'[k]))
  BY <1>2 DEF RemovedAreImplied, DerivedOK
<1>10. QED BY <1>2, <1>7, <1>8, <1>9, AssertedStay, DerivedFrame

\* A restart deletes clauses.
LEMMA RestartDerives ==
  ASSUME LoopInv, DerivedOK, RestartSolver
  PROVE  DerivedOK'
<1>1. /\ UNCHANGED <<asserted, conflicts, lemmas>> /\ learned' = Survivors(learned, old_size)
      /\ pc' = "propagate"
  BY DEF RestartSolver
<1>2. \A id \in ClauseIds' : \E j \in ClauseIds : Clause(id)' = Clause(j)
  BY <1>1, InvTypes, SurvivorsWereClauses
<1>3. \A id \in ClauseIds' : Follows(ToSet(Clause(id)'))
  <2>1. TAKE id \in ClauseIds'
  <2>2. PICK j \in ClauseIds : Clause(id)' = Clause(j) BY <1>2
  <2>3. Follows(ToSet(Clause(j))) BY DEF DerivedOK
  <2>4. QED BY <2>2, <2>3
<1>4. /\ \A k \in 1..Len(lemmas') : Follows(ToSet(lemmas'[k]))
      /\ \A k \in 1..Len(conflicts') : Follows(ToSet(conflicts'[k]))
      /\ RemovedAreImplied'
  BY <1>1 DEF RemovedAreImplied, DerivedOK
<1>5. QED BY <1>1, <1>3, <1>4, AssertedStay, DerivedFrame

\* Steps after which the same has been derived.
LEMMA OthersDerive ==
  ASSUME DerivedOK,
         \/ RoundDone \/ DecideNext \/ AnswerSat \/ AnswerUnsat
         \/ BacktrackWith \/ SplitDecide \/ UnitPropagate \/ UnitsDone
  PROVE  DerivedOK'
<1>1. UNCHANGED <<dbVars, lemmas, conflicts>>
      /\ pc' \in {"propagate", "decide", "done", "split", "unit"}
  BY DEF RoundDone, DecideNext, AnswerSat, AnswerUnsat, Finish, BacktrackWith, SplitDecide,
     UnitPropagate, UnitsDone, analysisVars
<1>2. QED BY <1>1, NothingDerived

\* DerivedOK where nothing changes.
LEMMA SameDerived ==
  ASSUME DerivedOK, UNCHANGED vars
  PROVE  DerivedOK'
<1>1. /\ pc' = pc /\ conflicts' = conflicts /\ lemmas' = lemmas /\ work' = work /\ blame' = blame
      /\ minimized' = minimized /\ var_reason' = var_reason /\ UNCHANGED dbVars
  BY DEF vars, analysisVars, lraVars, trailVars
<1>2. /\ ClauseIds' = ClauseIds /\ Problem' = Problem
      /\ \A id : Clause(id)' = Clause(id)
  BY <1>1, SameClausesFacts DEF SameClauses
<1>3. \A lits : Follows(lits)' <=> Follows(lits) BY <1>2, FollowsStays
<1>4. RemovedAreImplied'
  BY <1>1, <1>2, <1>3 DEF DerivedOK, RemovedAreImplied, ImpliedBy
<1>5. QED BY <1>1, <1>2, <1>4, DerivedFrame DEF DerivedOK

\* Every step of the loop derives only what follows from the problem.
LEMMA DerivedStep ==
  ASSUME LoopInv, DerivedOK, [Next]_vars
  PROVE  DerivedOK'
<1>1. CASE BoolStep BY <1>1, BoolDerives
<1>2. CASE LraStep BY <1>2, LraDerives
<1>3. CASE AnalysisStep
  BY <1>3, BeginDerives, ResolveDerives, FinishDerives, MinimizeDerives, KeepLowestDerives
     DEF AnalysisStep, AnalyzeConflicts
<1>4. CASE Learn BY <1>4, LearnDerives
<1>5. CASE RestartSolver BY <1>5, RestartDerives
<1>6. CASE \/ RoundDone \/ DecideNext \/ AnswerSat \/ AnswerUnsat
           \/ BacktrackWith \/ SplitDecide \/ UnitPropagate \/ UnitsDone
  BY <1>6, OthersDerive
<1>7. CASE UNCHANGED vars BY <1>7, SameDerived
<1>8. QED BY <1>1, <1>2, <1>3, <1>4, <1>5, <1>6, <1>7 DEF Next, Returned

\* At the start there are only the clauses of the problem.
LEMMA DerivedInit ==
  ASSUME Init
  PROVE  DerivedOK
<1>1. LoopInv BY LoopInit
<1>2. /\ learned = << >> /\ conflicts = << >> /\ lemmas = << >> /\ pc = "propagate"
  BY DEF Init, BoolInit, AnalysisInit
<1>3. PICK e : e = << >> OBVIOUS
<1>4. Len(e) = 0 BY <1>3
<1>5. Len(learned) = 0 /\ Len(conflicts) = 0 /\ Len(lemmas) = 0
  BY <1>2, <1>3, <1>4
<1>6. asserted \in ClauseLists /\ learned \in ClauseLists /\ DatabaseOK
  BY <1>1, InvTypes DEF LoopInv
<1>7. ASSUME NEW id \in ClauseIds
      PROVE  Follows(ToSet(Clause(id)))
  <2>1. id \in 1..Len(asserted)
    <3>1. Len(asserted) \in Nat BY <1>6, ClauseTypes
    <3>2. QED BY <1>5, <1>7, <3>1 DEF ClauseIds
  <2>2. ToSet(Clause(id)) \in Problem BY <1>6, <2>1, ProblemClauses
  <2>3. QED BY <1>6, <2>2, AssertedFollows
<1>8. QED BY <1>2, <1>5, <1>7 DEF DerivedOK, RemovedAreImplied

\* Every clause in the database, conflict, and lemma that Solver::check makes,
\* the clauses of an unfinished analysis included, follows from the problem and
\* the theory.
THEOREM DerivedIsInvariant ==
  ASSUME EveryClauseMayBeReason
  PROVE  Spec => []DerivedOK
<1>1. Init => DerivedOK BY DerivedInit
<1>2. LoopInv /\ DerivedOK /\ [Next]_vars => DerivedOK' BY DerivedStep
<1>3. Spec => []LoopInv BY LoopIsInvariant
<1>4. QED BY <1>1, <1>2, <1>3, PTL DEF Spec

\* LearnedIsEntailed: everything learned, every clause under analysis and the
\* result of minimisation follow from the asserted clauses and the theory.
LEMMA EntailedNow ==
  ASSUME LoopInv, DerivedOK
  PROVE  LearnedIsEntailed
<1>1. PICK S : S = {ToSet(learned[i]) : i \in DOMAIN learned}
             \cup {ToSet(c) : c \in ToSet(lemmas)}
             \cup (IF pc = "resolve" THEN {work} ELSE {})
             \cup (IF pc = "minimize" /\ minimized.next > Len(minimized.clause)
                     THEN {ToSet(minimized.kept)} ELSE {})
  BY Zenon
<1>2. asserted \in ClauseLists /\ learned \in ClauseLists /\ lemmas \in ClauseLists
  BY InvTypes DEF LoopInv, SolverTypeOK
<1>3. ASSUME NEW lits \in S
      PROVE  Follows(lits)
  <2>1. CASE \E i \in DOMAIN learned : lits = ToSet(learned[i])
    <3>1. PICK i \in 1..Len(learned) : lits = ToSet(learned[i])
      <4>1. DOMAIN learned = 1..Len(learned)
        BY <1>2, ElementsOf DEF ClauseLists
      <4>2. QED BY <2>1, <4>1
    <3>2. Len(asserted) \in Nat /\ Len(learned) \in Nat
      BY <1>2, ClauseTypes
    <3>3. Len(asserted) + i \in ClauseIds /\ Clause(Len(asserted) + i) = learned[i]
      BY <3>2 DEF ClauseIds, Clause
    <3>4. QED BY <3>1, <3>3 DEF DerivedOK
  <2>2. CASE \E c \in ToSet(lemmas) : lits = ToSet(c)
    <3>1. PICK c \in ToSet(lemmas) : lits = ToSet(c) BY <2>2
    <3>2. PICK k \in 1..Len(lemmas) : lemmas[k] = c
      BY <1>2, ElementsOf DEF ClauseLists
    <3>3. QED BY <3>1, <3>2 DEF DerivedOK
  <2>3. CASE pc = "resolve" /\ lits = work BY <2>3 DEF DerivedOK
  <2>4. CASE pc = "minimize" /\ minimized.next > Len(minimized.clause)
             /\ lits = ToSet(minimized.kept)
    BY <2>4, KeptFollows
  <2>5. QED BY <1>1, <1>3, <2>1, <2>2, <2>3, <2>4
<1>4. Entailed(S) BY <1>3 DEF Entailed, Satisfies, Follows
<1>5. QED BY <1>1, <1>4 DEF LearnedIsEntailed

\* Solver::learn adds only clauses that follow from the problem and the theory.
THEOREM LearnedClausesAreEntailed ==
  ASSUME EveryClauseMayBeReason
  PROVE  Spec => []LearnedIsEntailed
<1>1. LoopInv /\ DerivedOK => LearnedIsEntailed BY EntailedNow
<1>2. Spec => []LoopInv /\ []DerivedOK
  BY LoopIsInvariant, DerivedIsInvariant
<1>3. QED BY <1>1, <1>2, PTL

-----------------------------------------------------------------------------
(* The answers are right.                                                  *)

\* The value of every rational variable stays, goes or is a rational one.
RealsStep ==
  \A r \in RealVars : model'[r] = model[r] \/ model'[r] = Undef \/ model'[r] \in RealValues

\* RealsOK under a step that gives rational variables rational values only.
LEMMA RealsKept ==
  ASSUME RealsOK, RealsStep
  PROVE  RealsOK'
BY DEF RealsOK, RealsStep

\* Only literals are propagated.
LEMMA PropagatesReals ==
  ASSUME LoopInv, NEW x, NEW r, NEW level, Propagates(x, r, level)
  PROVE  RealsStep
<1>1. AssignsVar(VarOf(x), x > 0, r, level) /\ x \in Literals
  BY PropagatesEffect DEF Propagates
<1>2. VarOf(x) \in BoolVars BY <1>1, LiteralTypes
<1>3. QED BY <1>1, <1>2, BoolsAndReals DEF AssignsVar, RealsStep

\* A step that leaves the trail is such a step.
LEMMA SameReals ==
  ASSUME UNCHANGED trailVars
  PROVE  RealsStep
BY DEF RealsStep, trailVars

\* So are the steps of the boolean plugin,
LEMMA BoolReals ==
  ASSUME LoopInv, BoolStep
  PROVE  RealsStep
<1>1. CASE PopSatisfied
  <2>1. PICK x, id : x = Last(satisfied).lit /\ id = Last(satisfied).reason
    OBVIOUS
  <2>2. /\ pc = "bcp" /\ satisfied # << >>
        /\ IF id # NoReason /\ ~is_defined(VarOf(x))
             THEN Propagate(VarOf(x), x > 0, id, decision_level)
             ELSE UNCHANGED trailVars
    BY <1>1, <2>1 DEF PopSatisfied
  <2>3. x \in Literals /\ id \in Reasons \cup {NoReason}
    BY <2>1, <2>2, TopOfStack DEF TopOK
  <2>4. decision_level \in 0..decision_level BY InvTypes
  <2>5. CASE id # NoReason /\ ~is_defined(VarOf(x))
    <3>1. Propagates(x, id, decision_level)
      BY <2>2, <2>3, <2>4, <2>5 DEF Propagates
    <3>2. QED BY <3>1, PropagatesReals
  <2>6. QED BY <2>2, <2>5, SameReals
<1>2. CASE ~PopSatisfied
  <2>1. UNCHANGED trailVars
    BY <1>2, Zenon
       DEF BoolStep, BoolPropagate, Initialize, BcpDone, VisitDone, UnitFalsified,
       SkipSatisfied, MoveWatch, FindUnit, FindFalse
  <2>2. QED BY <2>1, SameReals
<1>3. QED BY <1>1, <1>2

\* those of the arithmetic plugin,
LEMMA LraReals ==
  ASSUME LoopInv, LraStep
  PROVE  RealsStep
<1>1. ASSUME NEW a \in AtomVars, ~is_defined(a), is_fully_assigned(a), PropagateAtom(a)
      PROVE  RealsStep
  <2>1. PICK x, level : Valued(a, x, level) BY <1>1, AtomValued
  <2>2. Propagates(x, NoReason, level) BY <2>1 DEF Valued
  <2>3. QED BY <2>2, PropagatesReals
<1>2. CASE LraPropagate
  <2>1. PICK a \in Propagatable : PropagateAtom(a)
    BY <1>2 DEF LraPropagate
  <2>2. /\ a \in AtomVars /\ ~is_defined(a) /\ is_fully_assigned(a)
    BY <2>1, LraTypes DEF Propagatable
  <2>3. QED BY <1>1, <2>1, <2>2
<1>3. CASE LraDerive
  <2>1. PICK lit \in blame : ~is_defined(VarOf(lit)) /\ PropagateAtom(VarOf(lit))
    BY <1>3 DEF LraDerive
  <2>2. lit \in Literals /\ VarOf(lit) \in AtomVars
    BY <1>3, <2>1 DEF LraDerive, LoopInv, ExplainOK, SolverTypeOK
  <2>3. ~False(lit) BY <2>1, <2>2, InvTypes, FalseLiterals
  <2>4. is_fully_assigned(VarOf(lit))
    BY <1>3, <2>1, <2>3 DEF LraDerive, LoopInv, ExplainOK
  <2>5. QED BY <1>1, <2>1, <2>2, <2>4
<1>4. CASE LraBlame \/ LraReport \/ LraConflict
  BY <1>4, SameReals DEF LraBlame, LraReport, LraConflict
<1>5. QED BY <1>2, <1>3, <1>4 DEF LraStep, LraPropagateStep

\* Rational variables are decided with an allowed value.
LEMMA DecideReals ==
  ASSUME LoopInv, DecideNext \/ SplitDecide
  PROVE  RealsStep
<1>1. model \in [Vars -> Values \cup {Undef}]
  BY InvTypes DEF TrailTypeOK
<1>2. ASSUME NEW v \in Undecided, DecideBool(v)
      PROVE  RealsStep
  BY <1>1, <1>2, BoolsAndReals DEF DecideBool, Decide, RealsStep
<1>3. ASSUME NEW v \in Undecided, DecideReal(v)
      PROVE  RealsStep
  BY <1>1, <1>3, BoolsAndReals DEF DecideReal, Decide, Allowed, RealsStep
<1>4. ASSUME SplitDecide
      PROVE  RealsStep
  <2>1. PICK lit \in choices : Decide(VarOf(lit), lit > 0)
    BY <1>4 DEF SplitDecide
  <2>2. VarOf(lit) \in BoolVars
    BY <2>1, LiteralTypes DEF LoopInv, SolverTypeOK
  <2>3. QED BY <1>1, <2>1, <2>2, BoolsAndReals DEF Decide, RealsStep
<1>5. QED BY <1>2, <1>3, <1>4 DEF DecideNext

\* backtracking and restarting,
LEMMA BacktrackReals ==
  ASSUME LoopInv, BacktrackWith \/ RestartSolver
  PROVE  RealsStep
BY BoolsAndReals DEF BacktrackWith, RestartSolver, Backtrack, Clear, RealsStep

\* and the propagation of learned clauses.
LEMMA UnitReals ==
  ASSUME LoopInv, EveryClauseMayBeReason, UnitPropagate
  PROVE  RealsStep
<1>1. PICK id \in ClauseIds, c \in Seq(Literals), x \in Literals :
           /\ id = Head(todo) /\ c = Clause(id) /\ x = c[1]
           /\ id \in Reasons /\ jump_level = decision_level
  BY NextUnit
<1>2. IF is_defined(VarOf(x)) THEN UNCHANGED trailVars
      ELSE Propagate(VarOf(x), x > 0, id, decision_level)
  BY <1>1 DEF UnitPropagate
<1>3. decision_level \in 0..decision_level BY InvTypes
<1>4. CASE ~is_defined(VarOf(x))
  <2>1. Propagates(x, id, decision_level)
    BY <1>1, <1>2, <1>3, <1>4 DEF Propagates
  <2>2. QED BY <2>1, PropagatesReals
<1>5. QED BY <1>2, <1>4, SameReals

\* Rational variables have rational values, whatever the loop does.
LEMMA RealsAlways ==
  ASSUME EveryClauseMayBeReason
  PROVE  Spec => []RealsOK
<1>1. ASSUME Init PROVE RealsOK
  <2>1. model = [v \in Vars |-> Undef] BY <1>1 DEF Init, TrailInit
  <2>2. QED BY <2>1, BoolsAndReals DEF RealsOK
<1>2. ASSUME LoopInv, RealsOK, [Next]_vars PROVE RealsOK'
  <2>1. CASE AnalysisStep \/ RoundDone \/ AnswerSat \/ AnswerUnsat \/ Learn \/ UnitsDone
             \/ UNCHANGED vars
    <3>1. UNCHANGED trailVars
      BY <2>1 DEF AnalysisStep, AnalyzeConflicts, RoundDone, AnswerSat, AnswerUnsat, Finish, Learn,
         UnitsDone, vars
    <3>2. QED BY <1>2, <3>1, SameReals, RealsKept
  <2>2. CASE BoolStep \/ LraStep \/ DecideNext \/ SplitDecide \/ BacktrackWith \/ RestartSolver
             \/ UnitPropagate
    <3>1. RealsStep
      BY <1>2, <2>2, BoolReals, LraReals, DecideReals, BacktrackReals, UnitReals
    <3>2. QED BY <1>2, <3>1, RealsKept
  <2>3. QED BY <1>2, <2>1, <2>2 DEF Next, Returned
<1>3. QED BY <1>1, <1>2, LoopIsInvariant, PTL DEF Spec

\* The problem is the same all the time.
LEMMA ProblemStays ==
  ASSUME LoopInv, [Next]_vars
  PROVE  Problem' = Problem
<1>1. CASE UNCHANGED asserted BY <1>1, AssertedStay
<1>2. CASE BoolStep
  <2>1. CASE UNCHANGED dbVars BY <1>1, <2>1 DEF dbVars
  <2>2. CASE ~UNCHANGED dbVars
    <3>1. PICK d, p : d = VisitedClause /\ p = FirstReplacement(d, Visited[visit.i].index)
      OBVIOUS
    <3>2. /\ AtWatch
          /\ \/ SetClause(VisitedId, d)
             \/ /\ SetClause(VisitedId, Swap(d, 2, p)) /\ Len(d) > 1 /\ Replacements(d) # {}
      BY <1>2, <2>2, <3>1, Zenon
         DEF BoolStep, BoolPropagate, Initialize, PopSatisfied, BcpDone, VisitDone, UnitFalsified,
             SkipSatisfied, MoveWatch, FindUnit, FindFalse, Exhausted, AtWatch, bcpVars
    <3>3. d \in Seq(Literals) /\ Len(d) \in Nat /\ ToSet(d) = ToSet(Clause(VisitedId))
          /\ VisitedId \in ClauseIds
          /\ (Len(d) > 2 => Visited[visit.i].index \in 3..Len(d))
      BY <3>1, <3>2, VisitedFacts
    <3>4. CASE SetClause(VisitedId, d)
      BY <3>3, <3>4, InvTypes, SameProblem
    <3>5. CASE SetClause(VisitedId, Swap(d, 2, p)) /\ Len(d) > 1 /\ Replacements(d) # {}
      <4>1. Len(d) > 2 BY <3>3, <3>5 DEF Replacements
      <4>2. Visited[visit.i].index \in Int BY <3>3, <4>1
      <4>3. p \in Replacements(d)
        BY <3>1, <3>3, <3>5, <4>2, ReplacementFound
      <4>4. p \in 1..Len(d) /\ 2 \in 1..Len(d)
        BY <3>3, <4>1, <4>3 DEF Replacements
      <4>5. Swap(d, 2, p) \in Seq(Literals) /\ ToSet(Swap(d, 2, p)) = ToSet(d)
        BY <3>3, <4>4, SwapEffect, Zenon
      <4>6. QED BY <3>3, <3>5, <4>5, InvTypes, SameProblem
    <3>6. QED BY <3>2, <3>4, <3>5
  <2>3. QED BY <2>1, <2>2
<1>3. CASE ~BoolStep
  <2>1. UNCHANGED asserted
    BY <1>3 DEF Next, LraStep, LraPropagateStep, RoundDone, DecideNext, AnswerSat, AnswerUnsat,
       Finish, AnalysisStep, AnalyzeConflicts, Learn, RestartSolver, BacktrackWith, SplitDecide,
       UnitPropagate, UnitsDone, Returned, vars, dbVars
  <2>2. QED BY <1>1, <2>1
<1>4. QED BY <1>2, <1>3

\* The valuation of the solver, completed, gives every constraint that exists
\* the value the constraint has on the trail.
LEMMA ValuationFits ==
  ASSUME LoopInv, RealsOK, pc = "decide", Undecided = {}, NEW a \in created
  PROVE  /\ SolverValuation \in Valuations
         /\ is_defined(a) /\ a \in AtomVars
         /\ (SolverValuation \in AtomModels[a]) <=> model[a] = TRUE
<1>1. PICK rho : rho = SolverValuation OBVIOUS
<1>2. rho \in Valuations
  <2>1. \A r \in RealVars : is_defined(r) => model[r] \in RealValues
    BY DEF RealsOK, is_defined
  <2>2. RealVars # {} => (CHOOSE x \in RealValues : TRUE) \in RealValues
    BY ScopeAssumption
  <2>3. QED BY <1>1, <2>1, <2>2 DEF SolverValuation, Valuations
<1>3. a \in AtomVars /\ is_defined(a) /\ model[a] = AtomValue(a)
  BY AllSatisfied, LraTypes
<1>4. \A r \in AtomScope[a] : r \in RealVars /\ is_defined(r) /\ rho[r] = model[r]
  <2>1. TAKE r \in AtomScope[a]
  <2>2. r \in InUse /\ r \in RealVars BY <1>3, LraTypes DEF InUse
  <2>3. is_defined(r) BY <2>2 DEF Undecided
  <2>4. QED BY <1>1, <2>2, <2>3 DEF SolverValuation
<1>5. rho \in AtomModels[a] <=> AtomValue(a)
  <2>1. ASSUME rho \in AtomModels[a] PROVE AtomValue(a)
    BY <1>4, <2>1 DEF AtomValue, Agrees
  <2>2. ASSUME AtomValue(a) PROVE rho \in AtomModels[a]
    <3>1. PICK other \in AtomModels[a] : Agrees(other, a)
      BY <2>2 DEF AtomValue
    <3>2. \A r \in AtomScope[a] : rho[r] = other[r]
      BY <1>4, <3>1 DEF Agrees
    <3>3. QED BY <1>2, <1>3, <3>1, <3>2, ScopeAssumption DEF Valuations
  <2>3. QED BY <2>1, <2>2
<1>6. AtomValue(a) <=> model[a] = TRUE
  <2>1. AtomValue(a) \in BOOLEAN BY DEF AtomValue
  <2>2. QED BY <1>3, <2>1
<1>7. QED BY <1>1, <1>2, <1>3, <1>5, <1>6

\* When nothing is left to decide the problem has a model.
LEMMA SatIsRight ==
  ASSUME LoopInv, RealsOK, pc = "decide", Undecided = {}
  PROVE  Problem \in SatisfiableProblems
<1>1. PICK m : m = SolverModel OBVIOUS
<1>2. PICK rho : rho = SolverValuation OBVIOUS
<1>3. m = [v \in BoolVars |-> IF v \in AtomVars THEN rho \in AtomModels[v] ELSE model[v] = TRUE]
  BY <1>1, <1>2 DEF SolverModel
<1>4. rho \in Valuations
  <2>1. \A r \in RealVars : is_defined(r) => model[r] \in RealValues
    BY DEF RealsOK, is_defined
  <2>2. RealVars # {} => (CHOOSE x \in RealValues : TRUE) \in RealValues
    BY ScopeAssumption
  <2>3. QED BY <1>2, <2>1, <2>2 DEF SolverValuation, Valuations
<1>5. m \in TheoryAssignments
  <2>1. \A a \in AtomVars : a \in BoolVars BY BoolsAndReals
  <2>2. m \in Assignments
    <3>1. \A v \in BoolVars : (rho \in AtomModels[v]) \in BOOLEAN /\ (model[v] = TRUE) \in BOOLEAN
      OBVIOUS
    <3>2. \A v \in BoolVars :
            (IF v \in AtomVars THEN rho \in AtomModels[v] ELSE model[v] = TRUE) \in BOOLEAN
      BY <3>1, Zenon
    <3>3. QED BY <1>3, <3>2, Zenon DEF Assignments
  <2>3. \A a \in AtomVars : m[a] = (rho \in AtomModels[a]) BY <1>3, <2>1
  <2>4. QED BY <1>4, <2>2, <2>3 DEF TheoryAssignments
<1>6. asserted \in ClauseLists /\ learned \in ClauseLists /\ BoolValued(model) /\ TrailInv
      /\ DatabaseOK
  BY InvTypes DEF LoopInv
<1>7. ASSUME NEW c \in Problem
      PROVE  \E lit \in c : TrueIn(m, lit)
  <2>1. PICK id \in 1..Len(asserted) : id \in ClauseIds /\ c = ToSet(Clause(id))
    BY <1>6, <1>7, ProblemClauses
  <2>2. PICK lit \in c : True(lit) BY <2>1, AllSatisfied
  <2>3. Clause(id) \in Seq(Literals) BY <1>6, <2>1, ClauseTypes
  <2>4. lit \in Literals BY <2>1, <2>2, <2>3, ElementsOf
  <2>5. PICK v, pos : v = VarOf(lit) /\ pos = (lit > 0) OBVIOUS
  <2>6. v \in BoolVars /\ v \in Mentioned /\ model[v] = pos /\ pos \in BOOLEAN
    <3>1. v \in Mentioned BY <1>6, <1>7, <2>2, <2>5, ProblemClauses
    <3>2. v \in BoolVars BY <2>4, <2>5, LiteralTypes
    <3>3. pos \in BOOLEAN BY <2>5
    <3>4. model[v] = pos BY <2>2, <2>5 DEF True, TrueIn
    <3>5. QED BY <3>1, <3>2, <3>3, <3>4
  <2>7. m[v] \in BOOLEAN /\ (m[v] = TRUE <=> model[v] = TRUE)
    <3>1. m[v] \in BOOLEAN
      BY <1>5, <2>6 DEF TheoryAssignments, Assignments
    <3>2. CASE v \in AtomVars
      <4>1. v \in created BY <1>6, <2>6, <3>2 DEF DatabaseOK
      <4>2. rho \in AtomModels[v] <=> model[v] = TRUE
        BY <1>2, <4>1, ValuationFits, Zenon
      <4>3. m[v] = (rho \in AtomModels[v]) BY <1>3, <2>6, <3>2
      <4>4. QED BY <3>1, <4>2, <4>3, Zenon
    <3>3. CASE v \notin AtomVars
      <4>1. m[v] = (model[v] = TRUE) BY <1>3, <2>6, <3>3
      <4>2. QED BY <3>1, <4>1, Zenon
    <3>4. QED BY <3>2, <3>3, Zenon
  <2>8. m[v] = pos BY <2>6, <2>7
  <2>9. TrueIn(m, lit) BY <2>5, <2>8 DEF TrueIn
  <2>10. QED BY <2>9
<1>8. Problem \in Problems BY <1>6 DEF DatabaseOK
<1>9. m \in ModelsOf[Problem]
  BY <1>5, <1>7, <1>8 DEF ModelsOf, Satisfies
<1>10. QED BY <1>8, <1>9 DEF SatisfiableProblems

\* Every model of the problem gives the variables assigned at level 0 the value
\* they have: the first that differed would have a reason without a literal
\* that is true in the model.
LEMMA LevelZeroFollows ==
  ASSUME LoopInv, DerivedOK, decision_level = 0, NEW m \in ModelsOf[Problem],
         NEW lit \in Literals, False(lit)
  PROVE  ~TrueIn(m, lit)
<1>1. TrailInv /\ BoolValued(model) /\ DatabaseOK /\ AssignmentsOK
  BY InvTypes DEF LoopInv
<1>2. PICK S : S = {VarOf(x) : x \in {x \in Literals : False(x) /\ TrueIn(m, x)}}
  BY Zenon
<1>3. \A v \in S : v \in BoolVars /\ v \in Vars /\ is_defined(v)
  BY <1>1, <1>2, LiteralTypes, FalseLiterals
<1>4. SUFFICES ASSUME TrueIn(m, lit)
               PROVE  FALSE
  OBVIOUS
<1>5. S \in SUBSET Vars /\ S # {} /\ \A v \in S : is_defined(v)
  BY <1>2, <1>3, <1>4
<1>6. PICK v \in S : \A w \in S :
           /\ var_level[w] >= var_level[v]
           /\ var_level[w] = var_level[v] => ~ListedBefore(w, v)
  BY <1>1, <1>5, FirstOnTrail
<1>7. PICK x \in Literals : False(x) /\ TrueIn(m, x) /\ v = VarOf(x)
  BY <1>2
<1>8. v \in BoolVars /\ var_reason[v] # NoReason
  <2>1. var_level[v] \in 0..decision_level BY <1>1, <1>3, DefinedLevels
  <2>2. ~(var_level[v] > 0) BY <2>1
  <2>3. QED BY <1>1, <1>3, <2>2 DEF AssignmentsOK
<1>9. PICK d \in Seq(Literals) :
           /\ var_reason[v] \in ClauseIds /\ d = Clause(var_reason[v])
           /\ Len(d) >= 1 /\ Len(d) \in Nat /\ d[1] = TrueLiteralOf(v)
           /\ \A p \in 2..Len(d) :
                /\ d[p] \in Literals /\ False(d[p]) /\ LevelOf(d[p]) <= var_level[v]
                /\ LevelOf(d[p]) = var_level[v] => ListedBefore(VarOf(d[p]), v)
  BY <1>8, ReasonFacts
<1>10. d[1] = -x BY <1>1, <1>7, <1>9, TrueLiteralOfFalse
<1>11. PICK y \in ToSet(d) : TrueIn(m, y)
  <2>1. Follows(ToSet(d)) BY <1>9 DEF DerivedOK
  <2>2. QED BY <2>1 DEF Follows
<1>12. y # -x
  <2>1. TrueIn(m, -x) <=> ~TrueIn(m, x) BY <1>1, <1>7, ModelFacts
  <2>2. QED BY <1>7, <1>11, <2>1
<1>13. PICK q \in 1..Len(d) : d[q] = y BY <1>9, ElementsOf
<1>14. q \in 2..Len(d) BY <1>9, <1>10, <1>12, <1>13
<1>15. VarOf(y) \in S /\ y \in Literals /\ False(y)
  BY <1>2, <1>9, <1>11, <1>13, <1>14
<1>16. /\ LevelOf(y) <= var_level[v]
       /\ LevelOf(y) = var_level[v] => ListedBefore(VarOf(y), v)
  BY <1>9, <1>13, <1>14
<1>17. /\ LevelOf(y) >= var_level[v]
       /\ LevelOf(y) = var_level[v] => ~ListedBefore(VarOf(y), v)
  BY <1>6, <1>15 DEF LevelOf
<1>18. LevelOf(y) \in Int /\ var_level[v] \in Int
  BY <1>1, <1>3, <1>15, DefinedLevels DEF LevelOf
<1>19. QED BY <1>16, <1>17, <1>18

\* A conflict at level 0, or an empty lemma, leaves the problem no model.
LEMMA UnsatIsRight ==
  ASSUME LoopInv, DerivedOK, AnswerUnsat
  PROVE  Problem \notin SatisfiableProblems
<1>1. SUFFICES ASSUME NEW m \in ModelsOf[Problem]
               PROVE  FALSE
  BY DEF SatisfiableProblems
<1>2. CASE pc = "conflict" /\ decision_level = 0
  <2>1. conflicts \in ClauseLists /\ conflicts # << >>
    BY <1>2 DEF LoopInv, SolverTypeOK, ConflictsOK
  <2>2. PICK c : c = conflicts[1] OBVIOUS
  <2>3. 1 \in 1..Len(conflicts) /\ c \in Seq(Literals)
    <3>1. Len(conflicts) \in Nat \ {0} BY <2>1 DEF ClauseLists
    <3>2. QED BY <2>1, <2>2, <3>1 DEF ClauseLists
  <2>4. Follows(ToSet(c)) /\ AllFalse(c)
    BY <2>2, <2>3 DEF DerivedOK, LoopInv, ConflictsOK
  <2>5. PICK lit \in ToSet(c) : TrueIn(m, lit) BY <2>4 DEF Follows
  <2>6. lit \in Literals /\ False(lit)
    BY <2>3, <2>4, ElementsOf DEF AllFalse
  <2>7. QED BY <1>2, <2>5, <2>6, LevelZeroFollows
<1>3. CASE pc = "learn" /\ << >> \in ToSet(lemmas)
  <2>1. PICK e : e = << >> OBVIOUS
  <2>2. lemmas \in ClauseLists BY DEF LoopInv, SolverTypeOK
  <2>3. PICK k \in 1..Len(lemmas) : lemmas[k] = e
    BY <1>3, <2>1, <2>2, ElementsOf DEF ClauseLists
  <2>4. Follows(ToSet(e)) BY <2>3 DEF DerivedOK
  <2>5. e \in Seq(Literals) /\ Len(e) = 0
    <3>1. Len(e) = 0 BY <2>1
    <3>2. e \in Seq(Literals) BY <2>1
    <3>3. QED BY <3>1, <3>2
  <2>6. PICK lit \in ToSet(e) : TrueIn(m, lit) BY <2>4 DEF Follows
  <2>7. \E k2 \in 1..Len(e) : e[k2] = lit
    BY <2>5, <2>6, ElementsOf, Zenon
  <2>8. QED BY <2>5, <2>7
<1>4. QED BY <1>2, <1>3 DEF AnswerUnsat

\* The solver answers once, and never wrongly: "sat" only if the problem has a
\* model and "unsat" only if it has none.
THEOREM AnswersAreRight ==
  ASSUME EveryClauseMayBeReason
  PROVE  Spec => AnswersSafely
<1>1. ASSUME Init PROVE V!Init BY <1>1 DEF Init, V!Init
<1>2. ASSUME LoopInv, DerivedOK, RealsOK, [Next]_vars PROVE [V!Answer]_V!vars
  <2>1. Problem' = Problem BY <1>2, ProblemStays
  <2>2. CASE AnswerSat
    <3>1. pc = "decide" /\ Undecided = {} /\ verdict' = "sat"
      BY <2>2 DEF AnswerSat, Finish
    <3>2. verdict = "none" BY <1>2, <3>1, InvTypes
    <3>3. Problem \in SatisfiableProblems BY <1>2, <3>1, SatIsRight
    <3>4. QED BY <2>1, <3>1, <3>2, <3>3 DEF V!Answer
  <2>3. CASE AnswerUnsat
    <3>1. pc # "done" /\ verdict' = "unsat"
      BY <2>3 DEF AnswerUnsat, Finish
    <3>2. verdict = "none" BY <1>2, <3>1, InvTypes
    <3>3. Problem \notin SatisfiableProblems BY <1>2, <2>3, UnsatIsRight
    <3>4. QED BY <2>1, <3>1, <3>2, <3>3 DEF V!Answer
  <2>4. CASE ~AnswerSat /\ ~AnswerUnsat
    <3>1. verdict' = verdict
      BY <1>2, <2>4 DEF Next, BoolStep, LraStep, RoundDone, DecideNext, AnalysisStep, Learn,
         RestartSolver, BacktrackWith, SplitDecide, UnitPropagate, UnitsDone, Returned, vars, loopVars
    <3>2. QED BY <2>1, <3>1 DEF V!vars
  <2>5. QED BY <2>2, <2>3, <2>4
<1>3. Spec => []LoopInv /\ []DerivedOK /\ []RealsOK
  BY LoopIsInvariant, DerivedIsInvariant, RealsAlways
<1>4. QED BY <1>1, <1>2, <1>3, PTL DEF Spec, AnswersSafely

-----------------------------------------------------------------------------
(* The variable order: what its events do to the queue.                    *)

\* Bumping a variable changes scores, never which variables wait.
LEMMA BumpVarKeeps ==
  ASSUME NEW D \in SUBSET Vars, NEW o \in Queueing(D), NEW v \in Vars
  PROVE  BumpVar(o, v) \in Queueing(D)
<1>1. /\ o.vsids \in [Vars -> Nat] /\ o.variables \in [D -> Nat] /\ o.inc \in Nat
  BY DEF Queueing
<1> DEFINE raised == [o.vsids EXCEPT ![v] = @ + o.inc]
<1>2. raised \in [Vars -> Nat] BY <1>1
<1>3. \A x \in Nat : x \div score_threshold \in Nat BY VsidsAssumption
<1>4. ASSUME NEW S, NEW f \in [S -> Nat]
      PROVE  Scaled(f) \in [S -> Nat]
  BY <1>3 DEF Scaled
<1>5. Updated(o.variables, v, raised[v]) \in [D -> Nat]
  BY <1>1, <1>2 DEF Updated
<1> HIDE DEF raised
<1>6. /\ Scaled(raised) \in [Vars -> Nat] /\ Scaled(o.variables) \in [D -> Nat]
      /\ o.inc \div score_threshold \in Nat
  BY <1>1, <1>2, <1>3, <1>4
<1>7. QED BY <1>1, <1>2, <1>5, <1>6 DEF BumpVar, Queueing, raised

\* So does bumping the variables of a literal,
LEMMA BumpLitKeeps ==
  ASSUME NEW D \in SUBSET Vars, NEW o \in Queueing(D), NEW lit \in Literals
  PROVE  BumpLit(o, lit) \in Queueing(D)
<1> DEFINE list == BumpedWith(VarOf(lit))
<1>1. list \in Seq(Vars)
  <2>1. VarOf(lit) \in Vars BY LiteralTypes
  <2>2. ASSUME VarOf(lit) \in AtomVars
        PROVE  SortedList(AtomScope[VarOf(lit)], Sooner) \in Seq(Vars)
    <3> DEFINE S == AtomScope[VarOf(lit)]
               order_ == {pair \in S \X S : pair[1] < pair[2]}
    <3>1. IsFiniteSet(S) /\ S \subseteq Vars /\ S \subseteq Nat
      BY <2>2, VsidsAssumption, BoolsAndReals
    <3>2. \A x, y \in S : <<x, y>> \in order_ <=> x < y OBVIOUS
    <3>3. Ranked(S, order_) \in Seq(S)
      <4>1. \A x \in S : <<x, x>> \notin order_ BY <3>1, <3>2
      <4>2. \A x, y, z \in S : <<x, y>> \in order_ /\ <<y, z>> \in order_ => <<x, z>> \in order_
        BY <3>1, <3>2
      <4>3. \A x, y \in S : x # y => <<x, y>> \in order_ \/ <<y, x>> \in order_
        BY <3>1, <3>2
      <4> HIDE DEF order_, S
      <4>4. QED BY <3>1, <4>1, <4>2, <4>3, RankedSorts
    <3>4. SortedList(S, Sooner) = Ranked(S, order_)
      BY DEF SortedList, Sooner
    <3> HIDE DEF order_
    <3>5. QED BY <3>1, <3>3, <3>4
  <2>3. QED BY <2>1, <2>2 DEF BumpedWith
<1>2. /\ Len(list) \in Nat /\ o \in Queueing(D)
      /\ \A k \in 1..Len(list) : \A p \in Queueing(D) : BumpVar(p, list[k]) \in Queueing(D)
  BY <1>1, BumpVarKeeps
<1> DEFINE S == Queueing(D)
           n == Len(list)
           step == [k \in 1..n |-> [p \in S |-> BumpVar(p, list[k])]]
           Is(f) == f = [k \in 0..n |-> IF k = 0 THEN o ELSE BumpVar(f[k - 1], list[k])]
           g == CHOOSE f : Is(f)
<1>3. BumpLit(o, lit) = g[n] BY DEF BumpLit, Each, list
<1> HIDE DEF list
<1>4. PICK f : IsIterated(f, o, step, n) BY <1>2, IterateExists
<1>5. \A k \in 1..n : \A p \in S : BumpVar(p, list[k]) \in S /\ step[k][p] = BumpVar(p, list[k])
  BY <1>2
<1>14. o \in S BY <1>2
<1> HIDE DEF step, S
<1>6. \A k \in 0..n : f[k] = IF k = 0 THEN o ELSE step[k][f[k - 1]]
  BY <1>4, Zenon DEF IsIterated
<1>7. f[0] \in S /\ \A k \in 1..n : f[k - 1] \in S => f[k] \in S
  <2>1. f[0] \in S BY <1>2, <1>6, <1>14
  <2>2. ASSUME NEW k \in 1..n, f[k - 1] \in S
        PROVE  f[k] \in S
    <3>1. f[k] = step[k][f[k - 1]] BY <1>2, <1>6
    <3>2. QED BY <1>5, <2>2, <3>1, Zenon
  <2>3. QED BY <2>1, <2>2
<1>8. \A k \in 0..n : f[k] \in S BY <1>2, <1>7, StaysIn
<1>9. Is(f)
  <2>1. \A k \in 1..n : k - 1 \in 0..n BY <1>2
  <2>2. \A k \in 0..n : f[k] = IF k = 0 THEN o ELSE BumpVar(f[k - 1], list[k])
    <3>1. TAKE k \in 0..n
    <3>2. CASE k = 0 BY <1>6, <3>2
    <3>3. CASE k # 0
      <4>1. k \in 1..n /\ k - 1 \in 0..n BY <1>2, <3>3
      <4>2. QED BY <1>5, <1>6, <1>8, <3>3, <4>1
    <3>4. QED BY <3>2, <3>3
  <2>3. f = [k \in 0..n |-> IF k = 0 THEN o ELSE step[k][f[k - 1]]]
    BY <1>4 DEF IsIterated
  <2>4. QED BY <2>2, <2>3, Zenon
<1>10. Is(g) BY <1>9, Zenon
<1> HIDE DEF g
<1>11. \A k \in 0..n : g[k] = IF k = 0 THEN o ELSE BumpVar(g[k - 1], list[k])
  BY <1>10, Zenon
<1>12. g[0] \in S /\ \A k \in 1..n : g[k - 1] \in S => g[k] \in S
  BY <1>2, <1>5, <1>11, <1>14
<1>13. \A k \in 0..n : g[k] \in S BY <1>2, <1>12, StaysIn
<1>15. g[n] \in S BY <1>2, <1>13
<1>16. QED BY <1>3, <1>15 DEF S

\* those of a clause,
LEMMA BumpClauseKeeps ==
  ASSUME NEW D \in SUBSET Vars, NEW o \in Queueing(D), NEW list \in Seq(Literals)
  PROVE  BumpClause(o, list) \in Queueing(D)
<1>2. /\ Len(list) \in Nat /\ o \in Queueing(D)
      /\ \A k \in 1..Len(list) : \A p \in Queueing(D) : BumpLit(p, list[k]) \in Queueing(D)
  BY BumpLitKeeps
<1> DEFINE S == Queueing(D)
           n == Len(list)
           step == [k \in 1..n |-> [p \in S |-> BumpLit(p, list[k])]]
           Is(f) == f = [k \in 0..n |-> IF k = 0 THEN o ELSE BumpLit(f[k - 1], list[k])]
           g == CHOOSE f : Is(f)
<1>3. BumpClause(o, list) = g[n] BY DEF BumpClause, Each
<1>4. PICK f : IsIterated(f, o, step, n) BY <1>2, IterateExists
<1>5. \A k \in 1..n : \A p \in S : BumpLit(p, list[k]) \in S /\ step[k][p] = BumpLit(p, list[k])
  BY <1>2
<1>14. o \in S BY <1>2
<1> HIDE DEF step, S
<1>6. \A k \in 0..n : f[k] = IF k = 0 THEN o ELSE step[k][f[k - 1]]
  BY <1>4, Zenon DEF IsIterated
<1>7. f[0] \in S /\ \A k \in 1..n : f[k - 1] \in S => f[k] \in S
  <2>1. f[0] \in S BY <1>2, <1>6, <1>14
  <2>2. ASSUME NEW k \in 1..n, f[k - 1] \in S
        PROVE  f[k] \in S
    <3>1. f[k] = step[k][f[k - 1]] BY <1>2, <1>6
    <3>2. QED BY <1>5, <2>2, <3>1, Zenon
  <2>3. QED BY <2>1, <2>2
<1>8. \A k \in 0..n : f[k] \in S BY <1>2, <1>7, StaysIn
<1>9. Is(f)
  <2>1. \A k \in 1..n : k - 1 \in 0..n BY <1>2
  <2>2. \A k \in 0..n : f[k] = IF k = 0 THEN o ELSE BumpLit(f[k - 1], list[k])
    <3>1. TAKE k \in 0..n
    <3>2. CASE k = 0 BY <1>6, <3>2
    <3>3. CASE k # 0
      <4>1. k \in 1..n /\ k - 1 \in 0..n BY <1>2, <3>3
      <4>2. QED BY <1>5, <1>6, <1>8, <3>3, <4>1
    <3>4. QED BY <3>2, <3>3
  <2>3. f = [k \in 0..n |-> IF k = 0 THEN o ELSE step[k][f[k - 1]]]
    BY <1>4 DEF IsIterated
  <2>4. QED BY <2>2, <2>3, Zenon
<1>10. Is(g) BY <1>9, Zenon
<1> HIDE DEF g
<1>11. \A k \in 0..n : g[k] = IF k = 0 THEN o ELSE BumpLit(g[k - 1], list[k])
  BY <1>10, Zenon
<1>12. g[0] \in S /\ \A k \in 1..n : g[k - 1] \in S => g[k] \in S
  BY <1>2, <1>5, <1>11, <1>14
<1>13. \A k \in 0..n : g[k] \in S BY <1>2, <1>12, StaysIn
<1>15. g[n] \in S BY <1>2, <1>13
<1>16. QED BY <1>3, <1>15 DEF S

\* those of each clause of a list,
LEMMA BumpClausesKeep ==
  ASSUME NEW D \in SUBSET Vars, NEW o \in Queueing(D), NEW list \in ClauseLists
  PROVE  Each(o, list, BumpClause) \in Queueing(D)
<1>2. /\ Len(list) \in Nat /\ o \in Queueing(D)
      /\ \A k \in 1..Len(list) : \A p \in Queueing(D) : BumpClause(p, list[k]) \in Queueing(D)
  BY BumpClauseKeeps DEF ClauseLists
<1> DEFINE S == Queueing(D)
           n == Len(list)
           step == [k \in 1..n |-> [p \in S |-> BumpClause(p, list[k])]]
           Is(f) == f = [k \in 0..n |-> IF k = 0 THEN o ELSE BumpClause(f[k - 1], list[k])]
           g == CHOOSE f : Is(f)
<1>3. Each(o, list, BumpClause) = g[n] BY DEF Each
<1>4. PICK f : IsIterated(f, o, step, n) BY <1>2, IterateExists
<1>5. \A k \in 1..n : \A p \in S : BumpClause(p, list[k]) \in S /\ step[k][p] = BumpClause(p, list[k])
  BY <1>2
<1>14. o \in S BY <1>2
<1> HIDE DEF step, S
<1>6. \A k \in 0..n : f[k] = IF k = 0 THEN o ELSE step[k][f[k - 1]]
  BY <1>4, Zenon DEF IsIterated
<1>7. f[0] \in S /\ \A k \in 1..n : f[k - 1] \in S => f[k] \in S
  <2>1. f[0] \in S BY <1>2, <1>6, <1>14
  <2>2. ASSUME NEW k \in 1..n, f[k - 1] \in S
        PROVE  f[k] \in S
    <3>1. f[k] = step[k][f[k - 1]] BY <1>2, <1>6
    <3>2. QED BY <1>5, <2>2, <3>1, Zenon
  <2>3. QED BY <2>1, <2>2
<1>8. \A k \in 0..n : f[k] \in S BY <1>2, <1>7, StaysIn
<1>9. Is(f)
  <2>1. \A k \in 1..n : k - 1 \in 0..n BY <1>2
  <2>2. \A k \in 0..n : f[k] = IF k = 0 THEN o ELSE BumpClause(f[k - 1], list[k])
    <3>1. TAKE k \in 0..n
    <3>2. CASE k = 0 BY <1>6, <3>2
    <3>3. CASE k # 0
      <4>1. k \in 1..n /\ k - 1 \in 0..n BY <1>2, <3>3
      <4>2. QED BY <1>5, <1>6, <1>8, <3>3, <4>1
    <3>4. QED BY <3>2, <3>3
  <2>3. f = [k \in 0..n |-> IF k = 0 THEN o ELSE step[k][f[k - 1]]]
    BY <1>4 DEF IsIterated
  <2>4. QED BY <2>2, <2>3, Zenon
<1>10. Is(g) BY <1>9, Zenon
<1> HIDE DEF g
<1>11. \A k \in 0..n : g[k] = IF k = 0 THEN o ELSE BumpClause(g[k - 1], list[k])
  BY <1>10, Zenon
<1>12. g[0] \in S /\ \A k \in 1..n : g[k - 1] \in S => g[k] \in S
  BY <1>2, <1>5, <1>11, <1>14
<1>13. \A k \in 0..n : g[k] \in S BY <1>2, <1>12, StaysIn
<1>15. g[n] \in S BY <1>2, <1>13
<1>16. QED BY <1>3, <1>15 DEF S

\* and those of a learned clause, with the decay behind it,
LEMMA BumpAndDecayKeeps ==
  ASSUME NEW D \in SUBSET Vars, NEW o \in Queueing(D), NEW c \in Seq(Literals)
  PROVE  BumpAndDecay(o, c) \in Queueing(D)
<1> DEFINE p == BumpClause(o, c)
<1>1. p \in Queueing(D) BY BumpClauseKeeps
<1> HIDE DEF p
<1>2. p.inc \in Nat BY <1>1 DEF Queueing
<1>3. (p.inc * 105) \div 100 \in Nat BY <1>2
<1>4. QED BY <1>1, <1>3 DEF BumpAndDecay, Decay, Queueing, p

\* once for each clause that is learned.
LEMMA BumpLearnedKeeps ==
  ASSUME NEW D \in SUBSET Vars, NEW o \in Queueing(D), NEW list \in ClauseLists
  PROVE  Each(o, list, BumpAndDecay) \in Queueing(D)
<1>2. /\ Len(list) \in Nat /\ o \in Queueing(D)
      /\ \A k \in 1..Len(list) : \A p \in Queueing(D) : BumpAndDecay(p, list[k]) \in Queueing(D)
  BY BumpAndDecayKeeps DEF ClauseLists
<1> DEFINE S == Queueing(D)
           n == Len(list)
           step == [k \in 1..n |-> [p \in S |-> BumpAndDecay(p, list[k])]]
           Is(f) == f = [k \in 0..n |-> IF k = 0 THEN o ELSE BumpAndDecay(f[k - 1], list[k])]
           g == CHOOSE f : Is(f)
<1>3. Each(o, list, BumpAndDecay) = g[n] BY DEF Each
<1>4. PICK f : IsIterated(f, o, step, n) BY <1>2, IterateExists
<1>5. \A k \in 1..n : \A p \in S : BumpAndDecay(p, list[k]) \in S /\ step[k][p] = BumpAndDecay(p, list[k])
  BY <1>2
<1>14. o \in S BY <1>2
<1> HIDE DEF step, S
<1>6. \A k \in 0..n : f[k] = IF k = 0 THEN o ELSE step[k][f[k - 1]]
  BY <1>4, Zenon DEF IsIterated
<1>7. f[0] \in S /\ \A k \in 1..n : f[k - 1] \in S => f[k] \in S
  <2>1. f[0] \in S BY <1>2, <1>6, <1>14
  <2>2. ASSUME NEW k \in 1..n, f[k - 1] \in S
        PROVE  f[k] \in S
    <3>1. f[k] = step[k][f[k - 1]] BY <1>2, <1>6
    <3>2. QED BY <1>5, <2>2, <3>1, Zenon
  <2>3. QED BY <2>1, <2>2
<1>8. \A k \in 0..n : f[k] \in S BY <1>2, <1>7, StaysIn
<1>9. Is(f)
  <2>1. \A k \in 1..n : k - 1 \in 0..n BY <1>2
  <2>2. \A k \in 0..n : f[k] = IF k = 0 THEN o ELSE BumpAndDecay(f[k - 1], list[k])
    <3>1. TAKE k \in 0..n
    <3>2. CASE k = 0 BY <1>6, <3>2
    <3>3. CASE k # 0
      <4>1. k \in 1..n /\ k - 1 \in 0..n BY <1>2, <3>3
      <4>2. QED BY <1>5, <1>6, <1>8, <3>3, <4>1
    <3>4. QED BY <3>2, <3>3
  <2>3. f = [k \in 0..n |-> IF k = 0 THEN o ELSE step[k][f[k - 1]]]
    BY <1>4 DEF IsIterated
  <2>4. QED BY <2>2, <2>3, Zenon
<1>10. Is(g) BY <1>9, Zenon
<1> HIDE DEF g
<1>11. \A k \in 0..n : g[k] = IF k = 0 THEN o ELSE BumpAndDecay(g[k - 1], list[k])
  BY <1>10, Zenon
<1>12. g[0] \in S /\ \A k \in 1..n : g[k - 1] \in S => g[k] \in S
  BY <1>2, <1>5, <1>11, <1>14
<1>13. \A k \in 0..n : g[k] \in S BY <1>2, <1>12, StaysIn
<1>15. g[n] \in S BY <1>2, <1>13
<1>16. QED BY <1>3, <1>15 DEF S

-----------------------------------------------------------------------------
(* What propagation alone assigns.  A clause that is reordered, learned or *)
(* deleted does not change it.                                             *)

\* When propagation is done, the true literals are closed under it.
LEMMA TruePropagated ==
  ASSUME LoopInv, pc = "decide"
  PROVE  Propagated({lit \in Literals : True(lit)})
<1> DEFINE S == {lit \in Literals : True(lit)}
<1>1. /\ TrailInv /\ BoolValued(model) /\ FalseWatchesOK /\ UnitsOK
      /\ asserted \in ClauseLists /\ learned \in ClauseLists
  BY InvTypes DEF LoopInv
<1>2. \A lit \in S : -lit \notin S BY <1>1, FalseLiterals
<1>3. ASSUME NEW id \in ClauseIds, NEW p \in 1..Len(Clause(id)),
             \A q \in 1..Len(Clause(id)) : q # p => -Clause(id)[q] \in S
      PROVE  Clause(id)[p] \in S
  <2> DEFINE c == Clause(id)
  <2>1. Len(c) \in Nat /\ \A q \in 1..Len(c) : c[q] \in Literals
    BY <1>1, ClauseTypes
  <2> HIDE DEF c
  <2>2. \A q \in 1..Len(c) : q # p => False(c[q])
    BY <1>1, <1>3, <2>1, FalseLiterals DEF c
  <2>3. SUFFICES True(c[p]) BY <2>1 DEF c
  <2>4. CASE Len(c) = 1
    <3>1. p = 1 BY <2>4 DEF c
    <3>2. QED BY <1>1, <2>4, <3>1 DEF UnitsOK, c
  <2>5. CASE Len(c) # 1
    <3>0. Len(c) > 1 /\ p \in 1..Len(c)
      <4>1. p \in 1..Len(c) BY DEF c
      <4>2. \A n \in Nat : \A q \in 1..n : n = 1 \/ n > 1 OBVIOUS
      <4>3. QED BY <2>1, <2>5, <4>1, <4>2, Zenon
    <3>1. ASSUME NEW i \in {1, 2}, False(c[i])
          PROVE  True(c[3 - i])
      BY <1>1, <3>0, <3>1 DEF FalseWatchesOK, Awaits, c
    <3>3. CASE p \in {1, 2}
      <4>1. 3 - p \in {1, 2} /\ 3 - p \in 1..Len(c) /\ 3 - p # p /\ 3 - (3 - p) = p
        BY <2>1, <3>0, <3>3
      <4>2. QED BY <2>2, <3>1, <4>1
    <3>4. CASE p \notin {1, 2}
      <4>1. False(c[1]) /\ False(c[2]) /\ c[1] \in Literals /\ c[2] \in Literals
        BY <2>1, <2>2, <3>0, <3>4
      <4>2. True(c[2]) BY <3>1, <4>1
      <4>3. QED BY <1>1, <4>1, <4>2, FalseLiterals
    <3>5. QED BY <3>3, <3>4
  <2>6. QED BY <2>4, <2>5
<1>4. QED BY <1>2, <1>3 DEF Propagated, Closed

\* What has a value at level 0 has it by propagation alone: otherwise take the
\* first variable for which this fails, and its reason.
LEMMA LevelZeroReturns ==
  ASSUME LoopInv, NEW v \in BoolVars, is_defined(v), var_level[v] = 0
  PROVE  ValueReturns(v)
<1>1. /\ TrailInv /\ BoolValued(model) /\ AssignmentsOK
      /\ BoolVars \subseteq Vars
  BY InvTypes, BoolsAndReals DEF LoopInv
<1>2. SUFFICES ASSUME NEW S \in SUBSET Literals, Propagated(S)
               PROVE  TrueLiteralOf(v) \in S
  BY <1>1, TrueLiteral DEF ValueReturns
<1> DEFINE Bad == {w \in BoolVars : is_defined(w) /\ var_level[w] = 0 /\ TrueLiteralOf(w) \notin S}
<1>3. SUFFICES ASSUME Bad # {}
               PROVE  FALSE
  OBVIOUS
<1>4. Bad \in SUBSET Vars /\ \A w \in Bad : is_defined(w) BY <1>1
<1>5. PICK w \in Bad : \A u \in Bad :
        var_level[u] >= var_level[w] /\ (var_level[u] = var_level[w] => ~ListedBefore(u, w))
  <2> HIDE DEF Bad
  <2>1. QED BY <1>1, <1>3, <1>4, FirstOnTrail
<1>6. w \in BoolVars /\ is_defined(w) /\ var_level[w] = 0 /\ TrueLiteralOf(w) \notin S
  OBVIOUS
<1>7. var_reason[w] # NoReason BY <1>1, <1>6 DEF AssignmentsOK
<1>8. PICK c \in Seq(Literals) :
        /\ var_reason[w] \in ClauseIds /\ c = Clause(var_reason[w])
        /\ Len(c) >= 1 /\ Len(c) \in Nat /\ c[1] = TrueLiteralOf(w)
        /\ \A p \in 2..Len(c) :
             /\ c[p] \in Literals /\ False(c[p]) /\ LevelOf(c[p]) <= var_level[w]
             /\ LevelOf(c[p]) = var_level[w] => ListedBefore(VarOf(c[p]), w)
  BY <1>6, <1>7, ReasonFacts
<1>9. ASSUME NEW p \in 2..Len(c)
      PROVE  -c[p] \in S
  <2> DEFINE u == VarOf(c[p])
  <2>1. c[p] \in Literals /\ u \in BoolVars BY <1>8, LiteralTypes
  <2>2. is_defined(u) /\ var_level[u] = 0 /\ TrueLiteralOf(u) = -c[p]
    <3>1. False(c[p]) /\ LevelOf(c[p]) <= 0 /\ LevelOf(c[p]) \in 0..decision_level
      BY <1>1, <1>6, <1>8, <2>1, FalseLiterals
    <3>2. is_defined(u) /\ TrueLiteralOf(u) = -c[p]
      BY <1>1, <2>1, <3>1, FalseLiterals, TrueLiteralOfFalse
    <3>3. LevelOf(c[p]) = 0
      BY <1>1, <3>1, DefinedLevels, <2>1, BoolsAndReals
    <3>4. QED BY <3>2, <3>3 DEF LevelOf
  <2>3. ListedBefore(u, w) BY <1>6, <1>8, <2>2 DEF LevelOf
  <2>4. u \notin Bad BY <1>5, <1>6, <2>2, <2>3
  <2>5. QED BY <2>1, <2>2, <2>4
<1>10. Closed(c, S) BY <1>2, <1>8 DEF Propagated
<1>11. 1 \in 1..Len(c) /\ \A q \in 1..Len(c) : q # 1 => q \in 2..Len(c)
  BY <1>8
<1>12. c[1] \in S BY <1>9, <1>10, <1>11 DEF Closed
<1>13. QED BY <1>6, <1>8, <1>12

\* The literals of d are those of c in another order.
Reordered(c, d) ==
  /\ \A S \in SUBSET Literals : Closed(d, S) => Closed(c, S)
  /\ Once(c) => Once(d)

\* Two literals of a clause have changed places.
LEMMA SwapReorders ==
  ASSUME NEW s \in Seq(Literals), NEW i \in 1..Len(s), NEW j \in 1..Len(s)
  PROVE  Reordered(s, Swap(s, i, j))
<1> DEFINE t == Swap(s, i, j)
           At(p) == IF p = i THEN j ELSE IF p = j THEN i ELSE p
<1>1. /\ t \in Seq(Literals) /\ Len(t) = Len(s) /\ Len(s) \in Nat /\ t[i] = s[j] /\ t[j] = s[i]
      /\ \A k \in 1..Len(s) : k # i /\ k # j => t[k] = s[k]
  BY SwapEffect
<1> HIDE DEF t
<1>2. \A p \in 1..Len(s) : At(p) \in 1..Len(s) /\ At(At(p)) = p /\ t[At(p)] = s[p] /\ t[p] = s[At(p)]
  BY <1>1
<1>3. \A p, q \in 1..Len(s) : At(p) = At(q) => p = q OBVIOUS
<1> HIDE DEF At
<1>4. ASSUME NEW S \in SUBSET Literals, Closed(t, S), NEW p \in 1..Len(s),
             \A q \in 1..Len(s) : q # p => -s[q] \in S
      PROVE  s[p] \in S
  <2>1. \A q \in 1..Len(t) : q # At(p) => -t[q] \in S
    BY <1>1, <1>2, <1>4
  <2>2. t[At(p)] \in S BY <1>1, <1>2, <1>4, <2>1 DEF Closed
  <2>3. QED BY <1>2, <2>2
<1>5. Once(s) => Once(t) BY <1>1, <1>2, <1>3 DEF Once
<1>6. QED BY <1>4, <1>5 DEF Reordered, Closed, t

\* What is known of the database behind a step of the boolean plugin.
OnlyReorders ==
  /\ ClauseIds' = ClauseIds /\ Len(asserted') = Len(asserted)
  /\ \A id \in ClauseIds : Reordered(Clause(id), Clause(id)')

\* A visit leaves the clause it visits with its literals in another order.
LEMMA VisitReorders ==
  ASSUME LoopInv, AtWatch, NEW c \in Seq(Literals), Reordered(VisitedClause, c),
         NEW id, id = VisitedId, SetClause(id, c)
  PROVE  OnlyReorders
<1>1. asserted \in ClauseLists /\ learned \in ClauseLists BY InvTypes
<1>2. id \in ClauseIds /\ Clause(id) \in Seq(Literals) /\ Len(Clause(id)) \in Nat
  BY VisitedFacts
<1>3. VisitedClause = Clause(id) \/ (Len(Clause(id)) > 1 /\ VisitedClause = Swap(Clause(id), 1, 2))
  BY DEF VisitedClause
<1>4. Reordered(Clause(id), VisitedClause)
  <2> DEFINE d == Clause(id)
  <2>1. Reordered(d, d) BY DEF Reordered
  <2>2. ASSUME Len(d) > 1
        PROVE  Reordered(d, Swap(d, 1, 2))
    <3>1. 1 \in 1..Len(d) /\ 2 \in 1..Len(d) BY <1>2, <2>2
    <3>2. QED BY <1>2, <3>1, SwapReorders
  <2>3. QED BY <1>3, <2>1, <2>2
<1>5. Reordered(Clause(id), c) BY <1>4 DEF Reordered
<1>6. /\ Len(asserted') = Len(asserted) /\ ClauseIds' = ClauseIds /\ Clause(id)' = c
      /\ \A k \in ClauseIds : k # id => Clause(k)' = Clause(k)
  BY <1>1, <1>2, SetClauseEffect
<1>7. ASSUME NEW k \in ClauseIds
      PROVE  Reordered(Clause(k), Clause(k)')
  <2>1. CASE k = id BY <1>5, <1>6, <2>1
  <2>2. CASE k # id
    <3>1. Clause(k)' = Clause(k) BY <1>6, <2>2
    <3>2. QED BY <3>1 DEF Reordered
  <2>3. QED BY <2>1, <2>2
<1>8. QED BY <1>6, <1>7 DEF OnlyReorders

\* The database has not changed.
LEMMA SameReorders ==
  ASSUME UNCHANGED dbVars
  PROVE  OnlyReorders
<1>1. ClauseIds' = ClauseIds /\ \A id : Clause(id)' = Clause(id)
  BY DEF dbVars, ClauseIds, Clause
<1>2. QED BY <1>1 DEF OnlyReorders, Reordered, dbVars

\* The boolean plugin changes the order of literals and nothing else.
LEMMA BoolReorders ==
  ASSUME LoopInv, BoolStep
  PROVE  OnlyReorders
<1>1. ASSUME AtWatch, Reordered(VisitedClause, VisitedClause), SetClause(VisitedId, VisitedClause)
      PROVE  OnlyReorders
  BY <1>1, VisitedFacts, VisitReorders
<1>2. Reordered(VisitedClause, VisitedClause) BY DEF Reordered
<1>3. CASE SkipSatisfied \/ FindUnit \/ FindFalse
  BY <1>1, <1>2, <1>3 DEF SkipSatisfied, FindUnit, FindFalse, Exhausted
<1>4. CASE MoveWatch
  <2> DEFINE p == FirstReplacement(VisitedClause, Visited[visit.i].index)
  <2>1. /\ AtWatch /\ Len(VisitedClause) > 1 /\ Replacements(VisitedClause) # {}
        /\ SetClause(VisitedId, Swap(VisitedClause, 2, p))
    BY <1>4 DEF MoveWatch
  <2>2. /\ VisitedClause \in Seq(Literals) /\ Len(VisitedClause) \in Nat
        /\ Visited \in Seq([clause : Nat, index : Nat]) /\ visit.i \in 1..Len(Visited)
    BY <2>1, VisitedFacts
  <2>3. Visited[visit.i].index \in Int
    <3>1. ASSUME NEW S, NEW s \in Seq(S), NEW i \in 1..Len(s)
          PROVE  s[i] \in S
      OBVIOUS
    <3>2. Visited[visit.i] \in [clause : Nat, index : Nat] BY <2>2, <3>1
    <3>3. QED BY <3>2
  <2>4. p \in 3..Len(VisitedClause)
    <3>1. p \in Replacements(VisitedClause)
      BY <2>1, <2>2, <2>3, ReplacementFound
    <3>2. QED BY <3>1 DEF Replacements
  <2> HIDE DEF p
  <2>5. Reordered(VisitedClause, Swap(VisitedClause, 2, p))
    BY <2>1, <2>2, <2>4, SwapReorders
  <2>6. Swap(VisitedClause, 2, p) \in Seq(Literals)
    <3>1. 2 \in 1..Len(VisitedClause) /\ p \in 1..Len(VisitedClause)
      BY <2>1, <2>2, <2>4
    <3>2. QED BY <2>2, <3>1, SwapEffect
  <2>7. QED BY <2>1, <2>5, <2>6, VisitReorders
<1>5. CASE Initialize \/ PopSatisfied \/ BcpDone \/ VisitDone \/ UnitFalsified
  <2>1. UNCHANGED dbVars
    BY <1>5 DEF Initialize, PopSatisfied, BcpDone, VisitDone, UnitFalsified
  <2>2. QED BY <2>1, SameReorders
<1>6. QED BY <1>3, <1>4, <1>5 DEF BoolStep, BoolPropagate

\* Closed under the clauses behind the step: closed under those before it.
ForcesTheSame == \A S \in SUBSET Literals : Propagated(S)' => Propagated(S)

\* What propagation alone assigns before a step it assigns after it.
LEMMA ReturnsStays ==
  ASSUME ForcesTheSame, NEW v, ValueReturns(v)
  PROVE  ValueReturns(v)'
BY DEF ForcesTheSame, ValueReturns

\* The order of literals does not matter to what propagation concludes.
LEMMA ReorderedForces ==
  ASSUME OnlyReorders
  PROVE  ForcesTheSame
<1>1. SUFFICES ASSUME NEW S \in SUBSET Literals, Propagated(S)'
               PROVE  Propagated(S)
  BY DEF ForcesTheSame
<1>2. ASSUME NEW id \in ClauseIds
      PROVE  Closed(Clause(id), S)
  <2>1. Closed(Clause(id)', S)
    BY <1>1 DEF OnlyReorders, Propagated, Closed
  <2>2. QED BY <2>1 DEF OnlyReorders, Reordered
<1>3. QED BY <1>1, <1>2 DEF Propagated

\* Once a clause is put behind the others, it stays there.
LEMMA LearnForces ==
  ASSUME LoopInv, Learn
  PROVE  ForcesTheSame
<1>1. PICK new : new = PreferredLemmas OBVIOUS
<1>2. UNCHANGED asserted /\ learned' = learned \o new /\ new \in ClauseLists
  BY <1>1, PreferredAreLemmas DEF Learn
<1>3. PICK n : n = Len(asserted) + Len(learned) OBVIOUS
<1>4. Extends(new, n)
  <2>1. Extends(new, Len(asserted) + Len(learned))
    BY <1>2, InvTypes, DatabaseExtends, Zenon
  <2>2. QED BY <1>3, <2>1
<1>5. SUFFICES ASSUME NEW S \in SUBSET Literals, Propagated(S)'
               PROVE  Propagated(S)
  BY DEF ForcesTheSame
<1>6. ASSUME NEW id \in ClauseIds
      PROVE  Closed(Clause(id), S)
  <2>1. id \in ClauseIds' /\ Clause(id)' = Clause(id)
    BY <1>4 DEF Extends
  <2>2. Closed(Clause(id)', S) BY <1>5, <2>1 DEF Propagated, Closed
  <2>3. QED BY <2>1, <2>2
<1>7. QED BY <1>5, <1>6 DEF Propagated

\* The list t still has the i-th learned clause, or one that subsumes it.
Covers(t, i) ==
  \E k \in 1..Len(t) : \E j \in 1..Len(learned) :
    /\ t[k] = learned[j]
    /\ j = i \/ (learned[j] # << >> /\ ToSet(learned[j]) \subseteq ToSet(learned[i]))

\* What a restart leaves subsumes what it deletes.
LEMMA SurvivorSubsumes ==
  ASSUME learned \in ClauseLists, NEW t, t = Survivors(learned, old_size),
         NEW i \in 1..Len(learned)
  PROVE  Covers(t, i)
<1> DEFINE keep == {m \in DOMAIN learned : ~Subsumed(learned, old_size, m)}
<1>1. PICK L : L = Seq(Literals) OBVIOUS
<1>2. learned \in Seq(L) /\ Len(learned) \in Nat /\ DOMAIN learned = 1..Len(learned)
      /\ \A j \in 1..Len(learned) : learned[j] \in Seq(Literals) /\ Len(learned[j]) \in Nat
  BY <1>1 DEF ClauseLists
<1>3. \A j \in 1..Len(learned) : j \in keep => \E k \in 1..Len(t) : t[k] = learned[j]
  <2> HIDE DEF keep
  <2>1. t = Chosen(learned, keep) BY DEF Survivors, keep
  <2>2. learned \in Seq(L) BY <1>2
  <2>3. PICK chosen : chosen = keep OBVIOUS
  <2>4. \A j \in 1..Len(learned) : j \in chosen =>
          \E k \in 1..Len(Chosen(learned, chosen)) : Chosen(learned, chosen)[k] = learned[j]
    BY <2>2, ChosenElements
  <2>5. QED BY <2>1, <2>3, <2>4
<1>4. CASE i \in keep BY <1>3, <1>4 DEF Covers
<1>5. CASE i \notin keep
  <2> DEFINE D == {j \in 1..Len(learned) :
                     learned[j] # << >> /\ ToSet(learned[j]) \subseteq ToSet(learned[i])}
             Sizes == {Len(learned[j]) : j \in D}
  <2>1. D # {} BY <1>2, <1>5 DEF Subsumed, Subsumes
  <2>2. Sizes \in SUBSET Nat /\ Sizes # {} BY <1>2, <2>1
  <2>3. PICK j \in D : \A m \in D : Len(learned[j]) <= Len(learned[m])
    <3> HIDE DEF D
    <3>1. PICK s \in Sizes : \A r \in Sizes : s <= r
      <4> HIDE DEF Sizes
      <4>1. QED BY <2>2, LeastNatural
    <3>2. QED BY <3>1
  <2>4. j \in keep
    <3>1. SUFFICES ASSUME NEW m \in DOMAIN learned, learned[m] # << >>,
                          Subsumes(learned[m], learned[j])
                   PROVE  FALSE
      BY <1>2 DEF Subsumed
    <3>2. m \in 1..Len(learned) /\ ToSet(learned[m]) \subseteq ToSet(learned[j])
          /\ Len(learned[m]) < Len(learned[j])
      BY <1>2, <3>1 DEF Subsumes
    <3>3. m \in D BY <3>1, <3>2
    <3>4. QED BY <1>2, <2>3, <3>2, <3>3
  <2>5. QED BY <1>3, <2>4 DEF Covers
<1>6. QED BY <1>4, <1>5

\* A clause with each literal once does what the clauses around it do.
LEMMA SubsumedClosed ==
  ASSUME NEW S \in SUBSET Literals, \A lit \in S : -lit \notin S,
         NEW c \in Seq(Literals), NEW d \in Seq(Literals),
         c # << >>, Once(c), ToSet(c) \subseteq ToSet(d), Closed(c, S)
  PROVE  Closed(d, S)
<1>1. /\ Len(c) \in Nat /\ Len(d) \in Nat /\ 1 \in 1..Len(c)
      /\ \A q \in 1..Len(c) : c[q] \in Literals /\ \E r \in 1..Len(d) : d[r] = c[q]
  <2>1. \A q \in 1..Len(c) : c[q] \in ToSet(d) BY ElementsOf
  <2>2. QED BY <2>1, ElementsOf
<1>2. ASSUME NEW p \in 1..Len(d), \A q \in 1..Len(d) : q # p => -d[q] \in S
      PROVE  d[p] \in S
  <2>1. \A q \in 1..Len(c) : c[q] # d[p] => -c[q] \in S BY <1>1, <1>2
  <2>2. PICK r \in 1..Len(c) : r = 1 \/ c[r] = d[p] BY <1>1
  <2>3. CASE \E m \in 1..Len(c) : c[m] = d[p]
    <3>1. PICK m \in 1..Len(c) : c[m] = d[p] BY <2>3
    <3>2. \A q \in 1..Len(c) : q # m => -c[q] \in S
      BY <2>1, <3>1 DEF Once
    <3>3. QED BY <3>1, <3>2 DEF Closed
  <2>4. CASE \A m \in 1..Len(c) : c[m] # d[p]
    <3>1. \A q \in 1..Len(c) : -c[q] \in S BY <2>1, <2>4
    <3>2. c[1] \in S /\ -c[1] \in S BY <1>1, <3>1 DEF Closed
    <3>3. QED BY <3>2
  <2>5. QED BY <2>3, <2>4
<1>3. QED BY <1>2 DEF Closed

\* Nor do the clauses that a restart deletes: what is left subsumes them.
LEMMA RestartForces ==
  ASSUME LoopInv, DerivedOnce, RestartSolver
  PROVE  ForcesTheSame
<1>1. UNCHANGED asserted /\ learned' = Survivors(learned, old_size)
  BY DEF RestartSolver
<1>2. asserted \in ClauseLists /\ learned \in ClauseLists BY InvTypes
<1>3. learned' \in ClauseLists BY <1>1, <1>2, SurvivorsWereClauses
<1>4. PICK m, n, n2 : m = Len(asserted) /\ n = Len(learned) /\ n2 = Len(learned')
                      /\ m \in Nat /\ n \in Nat /\ n2 \in Nat
  <2>1. Len(asserted) \in Nat /\ Len(learned) \in Nat
    BY <1>2 DEF ClauseLists
  <2>2. PICK t : t = learned' OBVIOUS
  <2>3. Len(t) \in Nat BY <1>3, <2>2 DEF ClauseLists
  <2>4. QED BY <2>1, <2>2, <2>3, Zenon
<1>5. /\ ClauseIds = 1..(m + n) /\ ClauseIds' = 1..(m + n2)
      /\ \A id \in 1..m : Clause(id) = asserted[id] /\ Clause(id)' = asserted[id]
      /\ \A k \in 1..n : Clause(m + k) = learned[k] /\ m + k \in 1..(m + n) /\ m + k > m
      /\ \A k \in 1..n2 : Clause(m + k)' = learned'[k] /\ m + k \in 1..(m + n2)
  <2>1. \A id \in 1..m : id <= m OBVIOUS
  <2>2. \A k \in Nat : k > 0 => ~(m + k <= m) /\ m + k - m = k BY <1>4
  <2>3. \A k \in 1..n : k \in Nat /\ k > 0 /\ m + k \in 1..(m + n) /\ m + k > m
    BY <1>4
  <2>4. \A k \in 1..n2 : k \in Nat /\ k > 0 /\ m + k \in 1..(m + n2)
    BY <1>4
  <2>5. \A id : Clause(id) = IF id <= m THEN asserted[id] ELSE learned[id - m]
    BY <1>4 DEF Clause
  <2>6. \A id : Clause(id)' = IF id <= m THEN asserted[id] ELSE learned'[id - m]
    BY <1>1, <1>4 DEF Clause
  <2>7. ClauseIds = 1..(m + n) /\ ClauseIds' = 1..(m + n2)
    BY <1>1, <1>4 DEF ClauseIds
  <2>8. \A id \in 1..m : Clause(id) = asserted[id] /\ Clause(id)' = asserted[id]
    BY <2>1, <2>5, <2>6
  <2>9. ASSUME NEW k \in 1..n
        PROVE  Clause(m + k) = learned[k]
    <3>1. PICK id : id = m + k OBVIOUS
    <3>2. ~(id <= m) /\ id - m = k BY <1>4, <3>1
    <3>3. Clause(id) = learned[id - m] BY <2>5, <3>2
    <3>4. QED BY <3>1, <3>2, <3>3
  <2>10. ASSUME NEW k \in 1..n2
        PROVE  Clause(m + k)' = learned'[k]
    <3>1. PICK id : id = m + k OBVIOUS
    <3>2. ~(id <= m) /\ id - m = k BY <1>4, <3>1
    <3>3. Clause(id)' = learned'[id - m] BY <2>6, <3>2
    <3>4. QED BY <3>1, <3>2, <3>3
  <2>11. QED BY <2>3, <2>4, <2>7, <2>8, <2>9, <2>10
<1>6. \A id \in 1..(m + n) : id \in 1..m \/ \E k \in 1..n : id = m + k
  <2>1. \A id \in 1..(m + n) : id \in 1..m \/ (id - m \in 1..n /\ id = m + (id - m))
    BY <1>4
  <2>2. QED BY <2>1
<1>7. SUFFICES ASSUME NEW S \in SUBSET Literals, Propagated(S)'
               PROVE  Propagated(S)
  BY DEF ForcesTheSame
<1>8. \A lit \in S : -lit \notin S BY <1>7 DEF Propagated
<1>9. \A id \in ClauseIds' : Closed(Clause(id)', S)
  BY <1>7 DEF Propagated, Closed
<1>10. ASSUME NEW id \in 1..m
       PROVE  Closed(Clause(id), S)
  <2>1. id \in ClauseIds' BY <1>4, <1>5
  <2>2. Clause(id)' = Clause(id) BY <1>5
  <2>3. QED BY <1>9, <2>1, <2>2
<1>11. ASSUME NEW i \in 1..n
       PROVE  Closed(learned[i], S)
  <2>1. PICK k \in 1..n2, j \in 1..n :
          /\ learned'[k] = learned[j]
          /\ j = i \/ (learned[j] # << >> /\ ToSet(learned[j]) \subseteq ToSet(learned[i]))
    <3>1. PICK t : t = learned' OBVIOUS
    <3>2. t = Survivors(learned, old_size) /\ i \in 1..Len(learned) /\ Len(t) = n2
          /\ learned \in ClauseLists
      BY <1>1, <1>2, <1>4, <3>1
    <3>3. Covers(t, i) BY <3>2, SurvivorSubsumes
    <3>4. QED BY <1>4, <3>1, <3>2, <3>3 DEF Covers
  <2>2. Closed(learned[j], S) BY <1>5, <1>9, <2>1
  <2>3. CASE j = i BY <2>2, <2>3
  <2>4. CASE learned[j] # << >> /\ ToSet(learned[j]) \subseteq ToSet(learned[i])
    <3>1. Once(learned[j]) BY <1>4, <1>5 DEF DerivedOnce
    <3>2. learned[i] \in Seq(Literals) /\ learned[j] \in Seq(Literals)
      BY <1>2, <1>4 DEF ClauseLists
    <3>3. QED BY <1>8, <2>2, <2>4, <3>1, <3>2, SubsumedClosed
  <2>5. QED BY <2>1, <2>3, <2>4
<1>12. \A id \in ClauseIds : Closed(Clause(id), S)
  BY <1>5, <1>6, <1>10, <1>11
<1>13. QED BY <1>8, <1>12 DEF Propagated

\* The steps that leave the database and the lemmas alone.
QuietStep ==
  \/ LraStep \/ RoundDone \/ DecideNext \/ AnswerSat \/ AnswerUnsat
  \/ BacktrackWith \/ SplitDecide \/ UnitPropagate \/ UnitsDone
  \/ UNCHANGED vars

\* They do.
LEMMA QuietSteps ==
  ASSUME QuietStep
  PROVE  UNCHANGED <<dbVars, lemmas>>
BY DEF QuietStep, LraStep, LraPropagateStep, RoundDone, DecideNext, AnswerSat, AnswerUnsat, Finish,
   BacktrackWith, SplitDecide, UnitPropagate, UnitsDone, analysisVars, vars

\* What propagation concludes it will conclude after every step.
LEMMA NextForces ==
  ASSUME LoopInv, DerivedOnce, [Next]_vars
  PROVE  ForcesTheSame
<1>1. CASE BoolStep BY <1>1, BoolReorders, ReorderedForces
<1>2. CASE AnalysisStep \/ QuietStep
  <2>1. UNCHANGED dbVars
    BY <1>2, QuietSteps DEF AnalysisStep, AnalyzeConflicts
  <2>2. QED BY <2>1, SameReorders, ReorderedForces
<1>3. QED BY <1>1, <1>2, LearnForces, RestartForces DEF Next, Returned, QuietStep

\* Reordering literals repeats none.
LEMMA OnceReordered ==
  ASSUME DerivedOnce, OnlyReorders, \A k \in 1..Len(lemmas') : Once(lemmas'[k])
  PROVE  DerivedOnce'
<1>1. ASSUME NEW id \in ClauseIds', id > Len(asserted')
      PROVE  Once(Clause(id)')
  BY <1>1 DEF OnlyReorders, DerivedOnce, Reordered
<1>2. QED BY <1>1 DEF DerivedOnce, Once

\* A clause that analysis yields was sorted by level and variable.
LEMMA KeepLowestOnce ==
  ASSUME LoopInv, DerivedOnce, AnalysisStep, KeepLowest
  PROVE  DerivedOnce'
<1>1. PICK kept : kept = minimized.kept OBVIOUS
<1>2. /\ pc = "minimize"
      /\ lemmas' = <<kept>> \/ lemmas' = Append(lemmas, kept) \/ lemmas' = lemmas
  BY <1>1 DEF KeepLowest
<1>3. kept \in Seq(Literals) /\ AllFalse(kept) /\ Sorted(kept)
  BY <1>1, <1>2, MinimizeFacts
<1>4. Once(kept) BY <1>3, SortedFacts DEF Once
<1>5. lemmas \in Seq(Seq(Literals))
  BY DEF LoopInv, SolverTypeOK, ClauseLists
<1>6. \A k \in 1..Len(lemmas') : Once(lemmas'[k])
  <2>1. CASE lemmas' = <<kept>>
    <3>1. Len(lemmas') = 1 /\ lemmas'[1] = kept BY <2>1
    <3>2. QED BY <1>4, <3>1
  <2>2. CASE lemmas' = Append(lemmas, kept)
    <3>1. /\ Len(lemmas') = Len(lemmas) + 1 /\ Len(lemmas) \in Nat
          /\ lemmas'[Len(lemmas) + 1] = kept
          /\ \A k \in 1..Len(lemmas) : lemmas'[k] = lemmas[k]
      BY <1>3, <1>5, <2>2, AppendEffect
    <3>2. TAKE k \in 1..Len(lemmas')
    <3>3. CASE k \in 1..Len(lemmas) BY <3>1, <3>3 DEF DerivedOnce
    <3>4. CASE k = Len(lemmas) + 1 BY <1>4, <3>1, <3>4
    <3>5. QED BY <3>1, <3>3, <3>4
  <2>3. CASE lemmas' = lemmas BY <2>3 DEF DerivedOnce
  <2>4. QED BY <1>2, <2>1, <2>2, <2>3
<1>7. UNCHANGED dbVars BY DEF AnalysisStep, AnalyzeConflicts
<1>8. QED BY <1>6, <1>7, SameReorders, OnceReordered

\* The clauses learned are those that analysis yielded.
LEMMA LearnOnce ==
  ASSUME LoopInv, DerivedOnce, Learn
  PROVE  DerivedOnce'
<1>1. PICK new : new = PreferredLemmas OBVIOUS
<1>2. UNCHANGED asserted /\ learned' = learned \o new /\ lemmas' = << >>
  BY <1>1 DEF Learn
<1>3. new \in ClauseLists /\ ToSet(new) \subseteq ToSet(lemmas) /\ lemmas \in ClauseLists
  BY <1>1, PreferredAreLemmas DEF LoopInv, SolverTypeOK
<1>4. PICK n : n = Len(asserted) + Len(learned) OBVIOUS
<1>5. Extends(new, n)
  <2>1. Extends(new, Len(asserted) + Len(learned))
    BY <1>2, <1>3, InvTypes, DatabaseExtends, Zenon
  <2>2. QED BY <1>4, <2>1
<1>6. ASSUME NEW k \in 1..Len(new)
      PROVE  Once(new[k])
  <2>1. new[k] \in ToSet(new) BY <1>3, ElementsOf DEF ClauseLists
  <2>2. PICK j \in 1..Len(lemmas) : lemmas[j] = new[k]
    BY <1>3, <2>1, ElementsOf, ZenonT(40) DEF ClauseLists
  <2>3. QED BY <2>2 DEF DerivedOnce
<1>7. ASSUME NEW id \in ClauseIds', id > Len(asserted')
      PROVE  Once(Clause(id)')
  <2>1. CASE id \in 1..n
    BY <1>2, <1>5, <1>7, <2>1 DEF Extends, DerivedOnce
  <2>2. CASE \E k \in 1..Len(new) : id = n + k
    BY <1>5, <1>6, <2>2 DEF Extends
  <2>3. QED BY <1>5, <2>1, <2>2 DEF Extends
<1>8. \A k \in 1..Len(lemmas') : Once(lemmas'[k])
  <2>1. PICK e : e = << >> OBVIOUS
  <2>2. Len(e) = 0 BY <2>1
  <2>3. QED BY <1>2, <2>1, <2>2
<1>9. QED BY <1>7, <1>8 DEF DerivedOnce, Once

\* A restart only deletes clauses.
LEMMA RestartOnce ==
  ASSUME LoopInv, DerivedOnce, RestartSolver
  PROVE  DerivedOnce'
<1>1. UNCHANGED <<asserted, lemmas>> /\ learned' = Survivors(learned, old_size)
  BY DEF RestartSolver
<1>2. asserted \in ClauseLists /\ learned \in ClauseLists BY InvTypes
<1>3. PICK keep : learned' = Chosen(learned, keep) BY <1>1 DEF Survivors
<1>4. PICK L : L = Seq(Literals) OBVIOUS
<1>5. learned \in Seq(L) /\ asserted \in Seq(L)
  BY <1>2, <1>4 DEF ClauseLists
<1>6. /\ Chosen(learned, keep) \in Seq(L)
      /\ \A k \in 1..Len(Chosen(learned, keep)) :
           \E i \in 1..Len(learned) : i \in keep /\ Chosen(learned, keep)[k] = learned[i]
  BY <1>5, ChosenElements
<1>7. PICK t : t = learned' OBVIOUS
<1>8. t \in Seq(L) /\ \A k \in 1..Len(t) : \E i \in 1..Len(learned) : t[k] = learned[i]
  BY <1>3, <1>6, <1>7
<1>9. PICK m, n, n2 : /\ m = Len(asserted) /\ n = Len(learned) /\ n2 = Len(t)
                      /\ m \in Nat /\ n \in Nat /\ n2 \in Nat
  <2>1. Len(asserted) \in Nat /\ Len(learned) \in Nat /\ Len(t) \in Nat
    BY <1>5, <1>8
  <2>2. QED BY <2>1, Zenon
<1>10. \A i \in 1..n : Once(learned[i])
  <2>1. TAKE i \in 1..n
  <2>2. PICK id : id = m + i OBVIOUS
  <2>3. id \in 1..(m + n) /\ id > m /\ ~(id <= m) /\ id - m = i
    BY <1>9, <2>2
  <2>4. Clause(id) = learned[i] /\ id \in ClauseIds
    BY <1>9, <2>3 DEF Clause, ClauseIds
  <2>5. QED BY <1>9, <2>3, <2>4 DEF DerivedOnce
<1>11. ASSUME NEW id \in ClauseIds', id > Len(asserted')
       PROVE  Once(Clause(id)')
  <2>1. id \in 1..(m + n2) /\ id > m
    BY <1>1, <1>7, <1>9, <1>11 DEF ClauseIds
  <2>2. PICK k : k = id - m OBVIOUS
  <2>3. k \in 1..n2 /\ ~(id <= m) BY <1>9, <2>1, <2>2
  <2>4. Clause(id)' = t[k] BY <1>1, <1>7, <1>9, <2>2, <2>3 DEF Clause
  <2>5. PICK i \in 1..n : t[k] = learned[i] BY <1>8, <1>9, <2>3
  <2>6. QED BY <1>10, <2>4, <2>5
<1>12. \A k \in 1..Len(lemmas') : Once(lemmas'[k])
  BY <1>1 DEF DerivedOnce
<1>13. QED BY <1>11, <1>12 DEF DerivedOnce, Once

\* Learned clauses never repeat a literal.
LEMMA OnceStep ==
  ASSUME LoopInv, DerivedOnce, [Next]_vars
  PROVE  DerivedOnce'
<1>1. ASSUME UNCHANGED lemmas
      PROVE  \A k \in 1..Len(lemmas') : Once(lemmas'[k])
  BY <1>1 DEF DerivedOnce
<1>2. CASE BoolStep
  <2>1. UNCHANGED lemmas BY <1>2 DEF BoolStep, analysisVars
  <2>2. QED BY <1>1, <1>2, <2>1, BoolReorders, OnceReordered
<1>3. CASE QuietStep
  <2>1. UNCHANGED dbVars /\ UNCHANGED lemmas BY <1>3, QuietSteps
  <2>2. QED BY <1>1, <2>1, SameReorders, OnceReordered
<1>4. CASE AnalysisStep /\ ~KeepLowest
  <2>1. UNCHANGED dbVars /\ UNCHANGED lemmas
    BY <1>4 DEF AnalysisStep, AnalyzeConflicts, BeginAnalysis, ResolveStep, FinishAnalysis,
       MinimizeStep
  <2>2. QED BY <1>1, <2>1, SameReorders, OnceReordered
<1>5. QED BY <1>2, <1>3, <1>4, KeepLowestOnce, LearnOnce, RestartOnce DEF Next, Returned, QuietStep

-----------------------------------------------------------------------------
(* Why no variable is lost: each one has a value, or waits in the queue,   *)
(* or has its value again by the next decision.                            *)

\* No step but a backtrack or a restart takes a value back.
StaysAssigned == \A v \in Vars : is_defined(v) => is_defined(v)'

\* A variable is given a value, and no other one changes.
LEMMA AssignedStays ==
  ASSUME TrailTypeOK, NEW v, NEW x \in Values,
         model' = [model EXCEPT ![v] = x]
  PROVE  StaysAssigned /\ (v \in Vars => is_defined(v)')
BY UndefAssumption DEF StaysAssigned, is_defined, TrailTypeOK

\* The trail has not changed.
LEMMA SameAssigned ==
  ASSUME UNCHANGED trailVars
  PROVE  StaysAssigned
BY DEF StaysAssigned, is_defined, trailVars

\* The values that boolean variables are given are values.
LEMMA BooleanValues ==
  /\ \A lit \in Literals : (lit > 0) \in Values
  /\ \A a : AtomValue(a) \in Values
<1>1. ASSUME NEW lit \in Literals
      PROVE  (lit > 0) \in Values
  <2>1. lit \in Int BY LiteralTypes
  <2>2. CASE lit > 0
    <3>1. (lit > 0) = TRUE BY <2>1, <2>2
    <3>2. QED BY <3>1, VarsAssumption
  <2>3. CASE ~(lit > 0)
    <3>1. (lit > 0) = FALSE BY <2>1, <2>3
    <3>2. QED BY <3>1, VarsAssumption
  <2>4. QED BY <2>2, <2>3
<1>2. ASSUME NEW a
      PROVE  AtomValue(a) \in Values
  <2>1. AtomValue(a) \in BOOLEAN BY Zenon DEF AtomValue
  <2>2. QED BY <2>1, VarsAssumption
<1>3. QED BY <1>1, <1>2

\* The boolean plugin takes no value back.
LEMMA BoolAssigned ==
  ASSUME LoopInv, BoolStep
  PROVE  StaysAssigned
<1>1. CASE PopSatisfied
  <2>1. PICK x, id : x = Last(satisfied).lit /\ id = Last(satisfied).reason
    OBVIOUS
  <2>2. /\ pc = "bcp" /\ satisfied # << >>
        /\ IF id # NoReason /\ ~is_defined(VarOf(x))
             THEN Propagate(VarOf(x), x > 0, id, decision_level)
             ELSE UNCHANGED trailVars
    BY <1>1, <2>1 DEF PopSatisfied
  <2>3. x \in Literals BY <2>1, <2>2, TopOfStack DEF TopOK
  <2>4. (x > 0) \in Values BY <2>3, BooleanValues
  <2>5. QED BY <2>2, <2>4, InvTypes, SameAssigned, AssignedStays DEF Propagate
<1>2. CASE ~PopSatisfied
  <2>1. UNCHANGED trailVars
    BY <1>2, Zenon
       DEF BoolStep, BoolPropagate, Initialize, BcpDone, VisitDone, UnitFalsified,
       SkipSatisfied, MoveWatch, FindUnit, FindFalse
  <2>2. QED BY <2>1, SameAssigned
<1>3. QED BY <1>1, <1>2

\* A derived constraint gets its value as soon as it exists.
LEMMA LraAssigned ==
  ASSUME LoopInv, LraStep
  PROVE  /\ StaysAssigned
         /\ \A a \in created' \ created : is_defined(a)'
         /\ \A a \in created' \ created : a \in AtomVars /\ \A r \in AtomScope[a] : is_defined(r)
<1>1. ASSUME NEW a \in AtomVars, PropagateAtom(a)
      PROVE  StaysAssigned /\ is_defined(a)'
  <2>1. a \in Vars /\ AtomValue(a) \in Values
    BY BoolsAndReals, BooleanValues
  <2>2. QED BY <1>1, <2>1, InvTypes, AssignedStays DEF PropagateAtom, Propagate
<1>2. CASE LraPropagate
  <2>1. PICK a \in Propagatable : PropagateAtom(a)
    BY <1>2 DEF LraPropagate
  <2>2. a \in AtomVars BY <2>1, LraTypes DEF Propagatable
  <2>3. created' = created BY <1>2 DEF LraPropagate, lraVars
  <2>4. QED BY <1>1, <2>1, <2>2, <2>3
<1>3. CASE LraDerive
  <2>1. PICK lit \in blame : ~is_defined(VarOf(lit)) /\ PropagateAtom(VarOf(lit))
                             /\ created' = created \cup {VarOf(lit)}
    BY <1>3 DEF LraDerive
  <2>2. lit \in Literals /\ VarOf(lit) \in AtomVars
    BY <1>3, <2>1 DEF LraDerive, LoopInv, ExplainOK, SolverTypeOK
  <2>3. ~False(lit) BY <2>1, <2>2, InvTypes, FalseLiterals
  <2>4. is_fully_assigned(VarOf(lit))
    BY <1>3, <2>1, <2>3 DEF LraDerive, LoopInv, ExplainOK
  <2>5. StaysAssigned /\ is_defined(VarOf(lit))' BY <1>1, <2>1, <2>2
  <2>6. QED BY <2>1, <2>2, <2>4, <2>5 DEF is_fully_assigned, Unassigned
<1>4. CASE LraBlame \/ LraReport \/ LraConflict
  BY <1>4, SameAssigned DEF LraBlame, LraReport, LraConflict
<1>5. QED BY <1>2, <1>3, <1>4 DEF LraStep, LraPropagateStep

\* Neither does a decision,
LEMMA DecideAssigned ==
  ASSUME LoopInv, DecideNext \/ SplitDecide
  PROVE  StaysAssigned
<1>1. TrailTypeOK BY InvTypes
<1>2. ASSUME NEW v, DecideBool(v)
      PROVE  StaysAssigned
  <2>1. PhaseOf(v) \in BOOLEAN
    BY <1>2, PhaseAssumption DEF DecideBool, PhaseOf, LoopInv, SolverTypeOK
  <2>2. PhaseOf(v) \in Values BY <2>1, VarsAssumption
  <2>3. QED BY <1>1, <1>2, <2>2, AssignedStays DEF DecideBool, Decide
<1>3. ASSUME NEW v, DecideReal(v)
      PROVE  StaysAssigned
  <2>1. PICK x \in Allowed(v) : Decide(v, x) BY <1>3 DEF DecideReal
  <2>2. x \in Values BY AtomAssumption DEF Allowed
  <2>3. QED BY <1>1, <2>1, <2>2, AssignedStays DEF Decide
<1>4. ASSUME SplitDecide
      PROVE  StaysAssigned
  <2>1. PICK lit \in choices : Decide(VarOf(lit), lit > 0)
    BY <1>4 DEF SplitDecide
  <2>2. (lit > 0) \in Values BY BooleanValues DEF LoopInv, SolverTypeOK
  <2>3. QED BY <1>1, <2>1, <2>2, AssignedStays DEF Decide
<1>5. QED BY <1>2, <1>3, <1>4 DEF DecideNext

\* nor the propagation of a learned clause.
LEMMA UnitAssigned ==
  ASSUME LoopInv, EveryClauseMayBeReason, UnitPropagate
  PROVE  StaysAssigned
<1>1. PICK c \in Seq(Literals), x \in Literals, id \in ClauseIds :
           id = Head(todo) /\ c = Clause(id) /\ x = c[1]
  BY NextUnit
<1>2. \/ UNCHANGED trailVars
      \/ Propagate(VarOf(x), x > 0, Head(todo), jump_level)
  BY <1>1 DEF UnitPropagate
<1>3. (x > 0) \in Values BY BooleanValues
<1>4. QED BY <1>2, <1>3, InvTypes, SameAssigned, AssignedStays DEF Propagate

\* What is pushed is in the queue with its score.
LEMMA PushNewKeeps ==
  ASSUME NEW D \in SUBSET Vars, NEW o \in Queueing(D), NEW new \in SUBSET Vars
  PROVE  PushNew(o, new) \in Queueing(D \cup new)
<1> DEFINE q == [v \in D \cup new |-> IF v \in D THEN o.variables[v] ELSE o.vsids[v]]
<1>1. o.vsids \in [Vars -> Nat] /\ o.variables \in [D -> Nat] /\ o.inc \in Nat
      /\ o = [vsids |-> o.vsids, variables |-> o.variables, inc |-> o.inc]
  BY DEF Queueing
<1>2. q \in [D \cup new -> Nat] BY <1>1
<1>3. DOMAIN o.variables = D BY <1>1
<1>4. PushNew(o, new) = [o EXCEPT !.variables = q] BY <1>3 DEF PushNew
<1>5. [o EXCEPT !.variables = q] = [vsids |-> o.vsids, variables |-> q, inc |-> o.inc]
  BY <1>1
<1>6. QED BY <1>1, <1>2, <1>4, <1>5 DEF Queueing

\* The variables that exist are variables of the solver.
LEMMA InUseTypes ==
  ASSUME LoopInv
  PROVE  InUse \in SUBSET Vars /\ InUse \subseteq BoolVars \cup RealVars
<1>1. Mentioned \subseteq BoolVars
  <2>1. asserted \in ClauseLists /\ learned \in ClauseLists BY InvTypes
  <2>2. ASSUME NEW v \in Mentioned
        PROVE  v \in BoolVars
    <3>1. PICK id \in 1..Len(asserted) : \E lit \in ToSet(Clause(id)) : v = VarOf(lit)
      BY <2>1, ProblemClauses
    <3>2. id \in ClauseIds BY <2>1, ProblemClauses
    <3>3. Clause(id) \in Seq(Literals) BY <2>1, <3>2, ClauseTypes
    <3>4. ToSet(Clause(id)) \subseteq Literals BY <3>3, ElementsOf
    <3>5. QED BY <3>1, <3>4, LiteralTypes
  <2>3. QED BY <2>2
<1>2. /\ created \subseteq AtomVars /\ AtomVars \subseteq BoolVars
      /\ \A a \in created : AtomScope[a] \subseteq RealVars
  BY LraTypes
<1>3. QED BY <1>1, <1>2, BoolsAndReals DEF InUse

\* Only derived constraints and their variables are new.
LEMMA InUseGrows ==
  ASSUME LoopInv, [Next]_vars, NEW v \in InUse'
  PROVE  v \in InUse \/ \E a \in created' \ created : v = a \/ v \in AtomScope[a]
<1>1. Problem' = Problem BY ProblemStays
<1>2. Mentioned' = Mentioned
  <2>1. {ToSet(c) : c \in ToSet(asserted)} = Problem
    BY DEF Problem, ToSet
  <2>2. {ToSet(c) : c \in ToSet(asserted')} = Problem'
    BY DEF Problem, ToSet
  <2>3. QED BY <1>1, <2>1, <2>2 DEF Mentioned
<1>3. v \in Mentioned \/ v \in created' \/ \E a \in created' : v \in AtomScope[a]
  BY <1>2 DEF InUse
<1>4. CASE \E a \in created' : v \in AtomScope[a]
  <2>1. PICK a \in created' : v \in AtomScope[a] BY <1>4
  <2>2. QED BY <2>1 DEF InUse
<1>5. QED BY <1>3, <1>4 DEF InUse

\* What a step has to show of the queue D it leaves.
LEMMA QueueFrame ==
  ASSUME QueueOK, ForcesTheSame, NEW D \in SUBSET Vars, order' \in Queueing(D),
         \A v \in InUse' : v \in InUse \/ is_defined(v)' \/ v \in D,
         \A v \in InUse : is_defined(v) => is_defined(v)' \/ v \in D \/ ValueReturns(v)',
         \A v \in DOMAIN order.variables : v \in D \/ is_defined(v)'
  PROVE  QueueOK'
<1>1. DOMAIN order'.variables = D BY DEF Queueing
<1>2. ASSUME NEW v \in InUse'
      PROVE  is_defined(v)' \/ v \in D \/ ValueReturns(v)'
  <2>1. CASE v \in InUse
    <3>1. is_defined(v) \/ v \in DOMAIN order.variables \/ ValueReturns(v)
      BY <2>1 DEF QueueOK
    <3>2. CASE ValueReturns(v) BY <3>2, ReturnsStays
    <3>3. QED BY <2>1, <3>1, <3>2
  <2>2. QED BY <1>2, <2>1
<1>3. order' \in Queueing(DOMAIN order'.variables) /\ DOMAIN order'.variables \subseteq Vars
  BY <1>1
<1>4. QED BY <1>1, <1>2, <1>3 DEF QueueOK

\* The step of an action that takes no value back and loses no waiting variable.
LEMMA QueueKept ==
  ASSUME LoopInv, QueueOK, ForcesTheSame, [Next]_vars, created' = created,
         StaysAssigned, NEW D \in SUBSET Vars, order' \in Queueing(D),
         \A v \in DOMAIN order.variables : v \in D \/ is_defined(v)
  PROVE  QueueOK'
<1>1. \A v \in InUse' : v \in InUse BY InUseGrows
<1>2. \A v \in DOMAIN order.variables : v \in D \/ is_defined(v)'
  BY DEF StaysAssigned, QueueOK
<1>3. \A v \in InUse : v \in Vars BY InUseTypes
<1>4. QED BY <1>1, <1>2, <1>3, QueueFrame DEF StaysAssigned

\* Propagation: a derived constraint has a value as soon as it is pushed.
LEMMA PropagationQueues ==
  ASSUME LoopInv, QueueOK, ForcesTheSame, Propagation
  PROVE  QueueOK'
<1> DEFINE new == created' \ created
           D == DOMAIN order.variables \cup new
<1>1. [Next]_vars BY DEF Propagation, Next
<1>2. /\ StaysAssigned
      /\ \A a \in new : a \in AtomVars /\ is_defined(a)' /\ \A r \in AtomScope[a] : is_defined(r)
  <2>1. CASE BoolStep BY <2>1, BoolAssigned DEF BoolStep, lraVars
  <2>2. CASE LraStep BY <2>2, LraAssigned
  <2>3. CASE RoundDone BY <2>3, SameAssigned DEF RoundDone, lraVars
  <2>4. QED BY <2>1, <2>2, <2>3 DEF Propagation
<1>3. new \in SUBSET Vars /\ \A a \in new : AtomScope[a] \subseteq Vars
  BY <1>2, BoolsAndReals
<1>4. order' \in Queueing(D) /\ D \in SUBSET Vars
  BY <1>3, PushNewKeeps DEF Propagation, QueueOK
<1> HIDE DEF D
<1>5. ASSUME NEW v \in InUse'
      PROVE  v \in InUse \/ is_defined(v)'
  <2>1. v \in InUse \/ \E a \in new : v = a \/ v \in AtomScope[a]
    BY <1>1, <1>5, InUseGrows
  <2>2. QED BY <1>2, <1>3, <2>1 DEF StaysAssigned
<1>6. \A v \in InUse : v \in Vars BY InUseTypes
<1>7. QED BY <1>2, <1>4, <1>5, <1>6, QueueFrame DEF D, StaysAssigned

\* Types of the scores and of the queue.
LEMMA OrderTypes ==
  ASSUME QueueOK
  PROVE  /\ DOMAIN order.variables \in SUBSET Vars
         /\ order \in Queueing(DOMAIN order.variables)
BY DEF QueueOK

\* pick() loses variables, but only assigned ones.
LEMMA PickQueues ==
  ASSUME LoopInv, QueueOK, ForcesTheSame, Pick
  PROVE  QueueOK'
<1> DEFINE All == DOMAIN order.variables
<1>1. PICK v \in Vars : Top(v) /\ PopAssigned(v) BY DEF Pick
<1> DEFINE D == {w \in All : w = v \/ Q!Precedes(v, w)}
<1>2. [Next]_vars /\ StaysAssigned /\ created' = created
  BY DecideAssigned DEF Pick, Next, DecideNext, lraVars
<1>3. D \in SUBSET Vars /\ D \subseteq All BY OrderTypes
<1>4. order' = [order EXCEPT !.variables = [w \in D |-> order.variables[w]]]
  BY <1>1 DEF PopAssigned
<1>5. \A w \in All : w \in D \/ is_defined(w) BY <1>1 DEF Top, Waiting
<1> HIDE DEF D
<1>6. order' \in Queueing(D) BY <1>3, <1>4, OrderTypes DEF Queueing
<1>7. QED BY <1>2, <1>3, <1>5, <1>6, QueueKept

\* An action that leaves the queue as it is and takes no value back.
LEMMA QuietQueues ==
  ASSUME LoopInv, QueueOK, ForcesTheSame, [Next]_vars, created' = created,
         StaysAssigned, order' \in Queueing(DOMAIN order.variables)
  PROVE  QueueOK'
BY OrderTypes, QueueKept

\* pick() returns none: all that it loses is assigned.
LEMMA PickNoneQueues ==
  ASSUME LoopInv, QueueOK, ForcesTheSame, [Next]_vars, PickNone
  PROVE  QueueOK'
<1> DEFINE nothing == [v \in {} |-> 0]
<1>1. StaysAssigned /\ created' = created
  BY SameAssigned DEF PickNone, Finish, lraVars
<1>2. order' = [order EXCEPT !.variables = nothing] BY DEF PickNone
<1>3. nothing \in [{} -> Nat] OBVIOUS
<1> HIDE DEF nothing
<1>4. order' \in Queueing({}) BY <1>2, <1>3, OrderTypes DEF Queueing
<1>5. \A v \in DOMAIN order.variables : is_defined(v)
  BY DEF PickNone, Waiting
<1>6. QED BY <1>1, <1>4, <1>5, QueueKept

\* A reason that is resolved with has its variables bumped.
LEMMA AnalysisQueues ==
  ASSUME LoopInv, QueueOK, ForcesTheSame, Analysis
  PROVE  QueueOK'
<1>1. [Next]_vars /\ StaysAssigned /\ created' = created
  BY SameAssigned DEF Analysis, AnalysisStep, AnalyzeConflicts, Next, lraVars
<1> DEFINE entry == assigned(top_level)[position]
<1>2. ASSUME pc = "resolve", position > 0, CanResolve(entry)
      PROVE  Clause(entry.reason) \in Seq(Literals)
  <2>0. top_level \in 0..decision_level /\ position \in 1..Len(assigned(top_level))
    BY <1>2, InvTypes DEF LoopInv, SolverTypeOK, ResolveOK
  <2>1. /\ entry.var \in BoolVars /\ entry.var \in Vars /\ is_defined(entry.var)
        /\ entry.reason = var_reason[entry.var] /\ entry.reason # NoReason
    BY <1>2, <2>0, InvTypes, EntryFacts DEF CanResolve
  <2>2. entry.reason \in ClauseIds BY <2>1, ReasonFacts
  <2>3. QED BY <2>2, InvTypes, ClauseTypes
<1>3. CASE order' = order BY <1>1, <1>3, OrderTypes, QuietQueues
<1>4. CASE order' # order
  <2>1. /\ pc = "resolve" /\ position > 0 /\ CanResolve(entry)
        /\ order' = BumpClause(order, Clause(entry.reason))
    BY <1>4 DEF Analysis
  <2>2. order' \in Queueing(DOMAIN order.variables)
    BY <1>2, <2>1, OrderTypes, BumpClauseKeeps
  <2>3. QED BY <1>1, <2>2, QuietQueues
<1>5. QED BY <1>3, <1>4

\* Learned clauses have their variables bumped.
LEMMA LearnQueues ==
  ASSUME LoopInv, QueueOK, ForcesTheSame, LearnAndBump
  PROVE  QueueOK'
<1>1. [Next]_vars /\ StaysAssigned /\ created' = created
  BY SameAssigned DEF LearnAndBump, Learn, Next, lraVars
<1>2. order' \in Queueing(DOMAIN order.variables)
  BY OrderTypes, PreferredAreLemmas, BumpLearnedKeeps DEF LearnAndBump
<1>3. QED BY <1>1, <1>2, QuietQueues

\* The other actions leave the order alone.
LEMMA OtherQueues ==
  ASSUME LoopInv, EveryClauseMayBeReason, QueueOK, ForcesTheSame,
         SplitOnBest \/ Otherwise \/ UNCHANGED vsidsVars
  PROVE  QueueOK'
<1>1. StaysAssigned
  <2>1. CASE SplitOnBest BY <2>1, DecideAssigned DEF SplitOnBest
  <2>2. CASE Otherwise
    BY <2>2, UnitAssigned, SameAssigned
       DEF Otherwise, AnswerUnsat, Finish, UnitsDone, Returned, vars
  <2>3. CASE UNCHANGED vsidsVars
    BY <2>3, SameAssigned DEF vsidsVars, vars
  <2>4. QED BY <2>1, <2>2, <2>3
<1>2. [Next]_vars /\ order' = order
  BY DEF SplitOnBest, Otherwise, vsidsVars, Next
<1>3. created' = created
  BY DEF SplitOnBest, SplitDecide, Otherwise, AnswerUnsat, Finish, UnitPropagate, UnitsDone,
         Returned, vsidsVars, vars, lraVars
<1>4. QED BY <1>1, <1>2, <1>3, OrderTypes, QuietQueues

\* The variables put back are those of the levels that go.
LEMMA PushedBack ==
  ASSUME LoopInv, NEW level \in 0..decision_level
  PROVE  /\ PushBack(level) \in SUBSET Vars
         /\ \A v \in Vars : is_defined(v) /\ var_level[v] > level => v \in PushBack(level)
<1>1. TrailInv /\ TrailTypeOK /\ decision_level \in Nat BY InvTypes
<1>2. PushBack(level) \in SUBSET Vars
  BY <1>1, ListTypes DEF PushBack, VarsIn
<1>3. ASSUME NEW v \in Vars, is_defined(v), var_level[v] > level
      PROVE  v \in PushBack(level)
  <2>1. /\ var_level[v] \in 0..decision_level
        /\ \E k \in 1..Len(assigned(var_level[v])) : assigned(var_level[v])[k].var = v
    BY <1>1, <1>3, OwnPosition
  <2>2. var_level[v] \in (level + 1)..decision_level BY <1>1, <1>3, <2>1
  <2>3. v \in VarsIn(assigned(var_level[v])) BY <2>1 DEF VarsIn
  <2>4. QED BY <1>3, <2>2, <2>3 DEF PushBack
<1>4. QED BY <1>2, <1>3

\* What a backtrack takes a value from has been put back before.
LEMMA BacktrackQueues ==
  ASSUME LoopInv, QueueOK, ForcesTheSame, BacktrackAndPush
  PROVE  QueueOK'
<1> DEFINE All == DOMAIN order.variables
           D == All \cup PushBack(jump_level)
<1>1. [Next]_vars /\ pc = "jump" /\ Backtrack(jump_level) /\ created' = created
  BY DEF BacktrackAndPush, BacktrackWith, Next, lraVars
<1>2. jump_level \in 0..decision_level /\ jump_level \in Int
  BY <1>1, JumpFacts
<1>3. CutsTo(jump_level) BY <1>1, <1>2, InvTypes, BacktrackEffect
<1>4. D \in SUBSET Vars /\ order' \in Queueing(D)
  BY <1>2, OrderTypes, PushedBack, PushNewKeeps DEF BacktrackAndPush
<1>5. ASSUME NEW v \in Vars, is_defined(v)
      PROVE  is_defined(v)' \/ v \in D
  BY <1>2, <1>3, <1>5, PushedBack DEF CutsTo, is_defined
<1>6. \A v \in InUse' : v \in InUse BY <1>1, InUseGrows
<1>7. \A v \in InUse : v \in Vars BY InUseTypes
<1>8. All \subseteq D OBVIOUS
<1> HIDE DEF D, All
<1>9. QED BY <1>4, <1>5, <1>6, <1>7, <1>8, QueueFrame DEF All

\* A restart puts back all but level 0, which propagation restores.
LEMMA RestartQueues ==
  ASSUME LoopInv, QueueOK, ForcesTheSame, RestartAndPush
  PROVE  QueueOK'
<1> DEFINE All == DOMAIN order.variables
           D == All \cup PushBack(0)
<1>1. [Next]_vars /\ created' = created
  BY DEF RestartAndPush, RestartSolver, Next, lraVars
<1>2. 0 \in 0..decision_level BY InvTypes
<1>4. D \in SUBSET Vars /\ order' \in Queueing(D)
  BY <1>2, OrderTypes, PushedBack, PushNewKeeps DEF RestartAndPush
<1>5. ASSUME NEW v \in InUse, is_defined(v)
      PROVE  v \in D \/ ValueReturns(v)'
  <2>0. v \in Vars /\ v \in BoolVars \cup RealVars BY InUseTypes
  <2>1. CASE var_level[v] > 0 BY <1>2, <1>5, <2>0, <2>1, PushedBack
  <2>2. CASE ~(var_level[v] > 0)
    <3>1. var_level[v] = 0 BY <1>5, <2>0, <2>2, InvTypes, DefinedLevels
    <3>2. v \in BoolVars BY <1>5, <2>0, <3>1 DEF LoopInv, AssignmentsOK
    <3>3. ValueReturns(v) BY <1>5, <3>1, <3>2, LevelZeroReturns
    <3>4. QED BY <3>3, ReturnsStays
  <2>3. QED BY <2>1, <2>2
<1>6. \A v \in InUse' : v \in InUse BY <1>1, InUseGrows
<1>7. \A v \in InUse : v \in Vars BY InUseTypes
<1>8. All \subseteq D OBVIOUS
<1> HIDE DEF D, All
<1>9. QED BY <1>4, <1>5, <1>6, <1>7, <1>8, QueueFrame DEF All

\* Every step of the loop with the order keeps QueueOK.
LEMMA QueueStep ==
  ASSUME LoopInv, EveryClauseMayBeReason, QueueOK, ForcesTheSame, [Next]_vars,
         [VsidsNext]_vsidsVars
  PROVE  QueueOK'
BY PropagationQueues, PickQueues, PickNoneQueues, AnalysisQueues, LearnQueues,
   RestartQueues, BacktrackQueues, OtherQueues DEF VsidsNext

\* A variable that propagation alone assigns has its value when the loop decides.
LEMMA NothingLostNow ==
  ASSUME LoopInv, QueueOK
  PROVE  NothingIsLost
<1>1. SUFFICES ASSUME pc = "decide", NEW v \in InUse, ~is_defined(v)
               PROVE  v \in DOMAIN order.variables
  BY DEF NothingIsLost, Undecided
<1> DEFINE S == {lit \in Literals : True(lit)}
<1>2. ~ValueReturns(v)
  <2>1. SUFFICES ASSUME ValueReturns(v)
                 PROVE  FALSE
    OBVIOUS
  <2>2. Propagated(S) /\ S \in SUBSET Literals BY <1>1, TruePropagated
  <2>3. PICK lit \in S : VarOf(lit) = v BY <2>1, <2>2 DEF ValueReturns
  <2>4. QED BY <1>1, <2>3, InvTypes, FalseLiterals
<1>3. QED BY <1>1, <1>2 DEF QueueOK

\* Each action of the loop with the order is an action of the loop.
LEMMA OrderedIsNext ==
  ASSUME LoopInv, QueueOK, [VsidsNext]_vsidsVars
  PROVE  [Next]_vars
<1>1. CASE PickNone
  <2>1. Undecided = {}
    BY <1>1, NothingLostNow DEF PickNone, NothingIsLost, Waiting, Undecided
  <2>2. QED BY <1>1, <2>1 DEF PickNone, AnswerSat, Next
<1>2. CASE ~PickNone
  BY <1>2 DEF VsidsNext, vsidsVars, Next, Propagation, Pick, Analysis, LearnAndBump,
     RestartAndPush, BacktrackAndPush, SplitOnBest, Otherwise
<1>3. QED BY <1>1, <1>2

\* The invariant of the loop with the order is inductive.
LEMMA VsidsStep ==
  ASSUME EveryClauseMayBeReason, VsidsInv, [VsidsNext]_vsidsVars
  PROVE  VsidsInv' /\ [Next]_vars
<1>1. [Next]_vars BY OrderedIsNext DEF VsidsInv
<1>2. LoopInv' BY <1>1, LoopStep DEF VsidsInv
<1>3. DerivedOnce' BY <1>1, OnceStep DEF VsidsInv
<1>4. ForcesTheSame BY <1>1, NextForces DEF VsidsInv
<1>5. QueueOK' BY <1>1, <1>4, QueueStep DEF VsidsInv
<1>6. QED BY <1>1, <1>2, <1>3, <1>5 DEF VsidsInv

\* At the start every variable is in the queue.
LEMMA VsidsStart ==
  ASSUME VsidsInit
  PROVE  VsidsInv
<1>1. Init /\ LoopInv BY LoopInit DEF VsidsInit
<1>2. asserted \in ClauseLists /\ Len(asserted) \in Nat /\ learned = << >> /\ lemmas = << >>
  BY <1>1, InvTypes, ClauseTypes DEF Init, BoolInit, AnalysisInit
<1>3. DerivedOnce BY <1>2 DEF DerivedOnce, ClauseIds
<1>4. InUse \in SUBSET Vars BY <1>1, InUseTypes
<1>5. Unscored \in Queueing(InUse) BY <1>4 DEF Unscored, Queueing, Unit
<1>6. order \in Queueing(InUse)
  BY <1>2, <1>4, <1>5, BumpClausesKeep DEF VsidsInit
<1>7. DOMAIN order.variables = InUse BY <1>6 DEF Queueing
<1>8. QueueOK BY <1>4, <1>6, <1>7 DEF QueueOK
<1>9. QED BY <1>1, <1>3, <1>8 DEF VsidsInv

\* So it always holds.
LEMMA VsidsAlways ==
  ASSUME EveryClauseMayBeReason
  PROVE  VsidsSpec => []VsidsInv
<1>1. VsidsInit => VsidsInv BY VsidsStart
<1>2. VsidsInv /\ [VsidsNext]_vsidsVars => VsidsInv' BY VsidsStep
<1>3. QED BY <1>1, <1>2, PTL DEF VsidsSpec

\* With the order, whenever the loop decides, every variable without a value
\* is in the queue (NothingIsLost): pick() never misses one.
THEOREM VsidsLosesNothing ==
  ASSUME EveryClauseMayBeReason
  PROVE  VsidsSpec => []NothingIsLost
<1>1. VsidsInv => NothingIsLost BY NothingLostNow DEF VsidsInv
<1>2. VsidsSpec => []VsidsInv BY VsidsAlways
<1>3. QED BY <1>1, <1>2, PTL

\* Solver::check with Generalized_vsids takes the steps of Solver::check with
\* any order (ImplementsSolver): what is proved of the loop holds with it.
THEOREM VsidsImplementsSolver ==
  ASSUME EveryClauseMayBeReason
  PROVE  VsidsSpec => ImplementsSolver
<1>1. VsidsInit => Init BY DEF VsidsInit
<1>2. VsidsInv /\ [VsidsNext]_vsidsVars => [Next]_vars BY VsidsStep
<1>3. VsidsSpec => []VsidsInv BY VsidsAlways
<1>4. QED BY <1>1, <1>2, <1>3, PTL DEF VsidsSpec, ImplementsSolver
=============================================================================
