# A verification project for Yaga

Yaga is an SMT solver for propositional logic and quantifier-free linear real
arithmetic, built on MCSat: one trail holds boolean decisions, clause
propagations *and* values of rational variables. This directory holds TLA+
modules for its core, TLC configurations that check them on small instances and
TLAPS proofs. Paths below are relative to the repository (`src/...`).

## 1. The system

| Part | Files | State | Operations |
|---|---|---|---|
| Trail | `src/Trail.*`, `src/Model.h` | lists of assignments per level, level and reason per variable, partial models | decide, propagate (at any open level), backtrack, clear |
| Clause database | `src/Database.h` | asserted and learned clauses | assert, learn, erase |
| Boolean theory | `src/bool` | watch lists, stack of true literals, cached phases | initialize, propagate, decide, on_before_backtrack, on_learned_clause |
| Theory interface | `src/Theory.*` | cursor into the top level | assigned, on_before_backtrack |
| Theory combination | `src/Theory_combination.*` | list of plugins | propagate in rounds, forward events |
| Linear arithmetic | `src/lra` | constraints, watches, bounds with time stamps, cached values | propagate constraints, update bounds, explain conflicts by Fourier-Motzkin elimination, decide values |
| Rational numbers | `src/lra/Long_fraction.*` | a pair of machine words, a GMP rational, or both | arithmetic, comparison, rounding; words while they suffice, GMP otherwise |
| Conflict analysis | `src/Conflict_analysis.*` | clause under resolution | analyze, analyze_final, analyze_with_vars |
| Subsumption | `src/Subsumption.*` | occurrence lists, number of old clauses | minimize, remove_subsumed on restart |
| Solver | `src/Solver.*` | owns all of the above, statistics | check, check_with_model: propagate, analyze, learn, restart or backtrack, decide |
| Variable orders | `src/variable_order` | scores, priority queues | pick, bump, push back on backtrack |
| Restart policies | `src/Restart.h` | countdown, moving averages | should_restart |
| Events | `src/Event_dispatcher.h`, `src/Event_listener.h` | list of listeners | forward init, backtrack, learn, resolve, restart |
| Terms | `src/terms` | the table of terms with its hash table, names | one simplifying constructor per operator; the rewriting of a defined function's body |
| Translation | `src/parser/Solver_wrapper.*`, `src/terms/Term_visitor.h` | literal or variable per term | visit the terms of the assertions, make constraints and clauses, report a model |
| Facade, parser, programs | `src/Yaga.*`, `src/parser`, `src/*_solver.cpp`, `src/Interpolation.*` | scopes of names, definitions | choose plugins, read and print SMT-LIB |

Everything runs on one thread. Components interact through calls and through
shared mutable objects: the plugins write to the trail directly, they hold raw
`Clause*` into the database, they reorder the literals of its clauses in place,
and the solver tells them about backtracks, learned clauses and restarts through
events, *before* (backtrack) or *after* (learn, restart) the change.

### What is hard

The difficulty is not concurrency but long sequences of legal steps that
relate pieces of state kept by different parts:

* an assignment may be recorded *below* the top of the trail (linear constraints
  whose variables were assigned earlier), so a level is not a suffix of time;
* the watch lists are never repaired on backtracking, and rebuilt only when the
  trail is empty; what makes this sound is a relation between watched literals,
  values and levels that no single function states;
* the plugins read only the part of the top level they have not seen, by a cursor
  that must be forgotten exactly when levels are popped;
* one round of propagation can return several conflicts, which are analysed
  against one trail but reduced to one kind of backjump;
* clauses are minimised by an algorithm that reads a vector while it is being
  compacted, after the level to backtrack to has been fixed;
* subsumption compares only pairs that are new since the last restart;
* a problem is rewritten twice before it is solved, by the constructors of terms and
  by the translation to clauses; a mistake there gives the right answer to another
  problem, and no assertion of the solver can notice;
* a fraction has two representations that must agree while both are valid, and
  every operator has cases of its own that test for overflow, each in another way;
* a solver is used for one check after another; what is reset in between is spread
  over three functions, and the trail is in none of them;
* the queue of variables is cleaned lazily: assigned variables stay in it until
  they reach its top, and the backtrack that unassigns a variable has to know
  which ones were lost; scores live twice, in a table and in the queue.

### What makes each part correct

* Trail: tables, models and lists agree; a backtrack keeps exactly what belongs
  to the remaining levels.
* Boolean theory: every clause is watched exactly by its first two literals; at
  a fixpoint no clause is unit or false; every propagated literal is implied, at
  the level of its clause.
* Conflict analysis: the clause stays false and entailed; the jump undoes the
  first literal and nothing else, or undoes a rational decision.
* Subsumption: what is removed is still implied; nothing removable is left.
* Variable orders: the queue always yields its first variable, and every variable
  without a value is in it when the loop wants to decide.
* Rational numbers: every result and every comparison is exact, whatever
  representation the operands have.
* Terms: a constructor returns a term that means what the operator means, in the
  normal form the translation relies on, and never a second copy of a term.
* Translation: the clauses have exactly the models of the assertions.
* Solver: it returns, "sat" exactly when the problem has a model.

## 2. The modules

```
Trail ─ Theory
Clauses ──┬─ BoolTheory (over Theory) ┬─ ConflictAnalysis ─┐
          │                           └─ LinearArithmetic ─┼─ Solver ─ SolverProperties ─┬─ MCSat
          ├─ Subsumption (Lists) ──────────────────────────┘        (Verdict)            └─ MCLra
          └─ SubsumptionAlgorithm (over Subsumption) ─ MCSubsumption, ComponentProofs (CommonLemmas)
SolverProperties ─┬─ Vsids (over ScoreMap) ─ MCVsids
                  └─ Session ─ MCSession
LinearConstraints ─ Bounds (with Theory, Lists) ─ LraPlugin ─ MCLraPlugin, LraPluginProofs (CommonLemmas) ─ LraConflictProofs
SolverProperties ─ PropagationProofs (CommonLemmas) ─ SolverProofs (Vsids)
PriorityQueue (ScoreMap) ─ MCPriorityQueue, ComponentProofs (CommonLemmas)
Fractions ─ Words ─┬─ LongFraction ─ ComponentProofs
                   └─ Terms ─ TermMeaning ─┬─ TermManager ─ MCTerms, TermProofs (CommonLemmas)
                                           ├─ Substitution ─ MCSubstitution
                                           └─ Internalizer (with LinearConstraints) ─ MCInternalizer, InternalizerProofs
```

| Module | Code | How |
|---|---|---|
| `Assignment` | none: the promise of a trail | a number of levels and a partial map from variables to (value, level, reason) |
| `Trail` | `Trail.h`, the models of `Model.h` | one operator per method; a value is set next to every `decide`/`propagate` call in the source, so the two are one operation |
| `Theory` | `Theory.cpp` | the cursor into the top level: what a plugin has not seen yet, and forgetting it on a backtrack |
| `Clauses` | `Literal.h`, `Model.h` | literals are the integers the objects hold; a clause is a sequence, since the first two positions are the watches |
| `BoolTheory` | `bool/Bool_theory.*`, `Database.h` | one visit of one watch is a step: `SkipSatisfied`, `MoveWatch`, `FindUnit`, `FindFalse`, `UnitFalsified`; `PopSatisfied` is one turn of the loop of `propagate`; `Initialize` is `initialize()` |
| `LinearArithmetic` | `lra/Linear_arithmetic.cpp`, `lra/Lra_conflict_analysis.cpp` | arithmetic abstracted to the set of valuations an atom holds in; the trail events kept: `LraPropagate`, `LraBlame` (a variable without allowed value), `LraDerive` (a constraint created by elimination and propagated in the past), `LraReport`, `DecideReal` |
| `LinearConstraints` | `lra/Linear_constraint.h`, `lra/Linear_constraints.h`, `Fm_elimination` | atoms by their position in the repository, their values and the bounds they imply; elimination of a variable; normal form and look-up of a derived constraint |
| `Bounds` | `lra/Variable_bounds.h`, `lra/Bounds.cpp`, time stamps of `Model.h` | the stacks of bounds, the test that an entry is obsolete, lazy removal, `update`, `is_allowed`, the set of changed variables |
| `LraPlugin` | `lra/Linear_arithmetic.cpp`, `lra/Lra_conflict_analysis.cpp` | `propagate()` step by step: `SeeAtom`/`SeeReal` (one assignment read), `MoveWatch`/`VisitUnit`/`VisitAssigned` (one visit of one watch), `CheckBounds` (one changed variable), `Derive`/`DropTrivial` (one combination of the explanation), `Report`; `DecideReal`, with `Tried`, the integers `find_integer` asks about in their order. Around it any clause propagation, any backjump, any restart |
| `LraPluginProofs`, `LraConflictProofs` | | the theorems of section 4: the bounds, watches and values; the conflicts, and the search for a value |
| `ConflictAnalysis` | `Conflict_analysis.*`, `Subsumption::minimize`, `Solver::analyze_conflicts` | one trail entry and one literal of the clause are a step |
| `Subsumption` | `Subsumption.cpp` | the meaning: what survives a restart |
| `SubsumptionAlgorithm` | `Subsumption.cpp` | the two passes, the index, the marks |
| `Lists` | `std::remove_if`, `std::sort` as the code calls them | what they compute, by definitions proofs can use |
| `CommonLemmas` | | what `Chosen` and `SortedList` of `Lists` return, what Euclid's recursion computes, the laws of fractions in lowest terms, and lemmas several proof modules use, on sums, folds, subsets and the least element |
| `Solver` | `Solver.cpp`, `Theory_combination.cpp` | the loop of `check()`; the heuristics are nondeterministic choices |
| `Verdict` | none: the promise of `check()` | one answer, the right one |
| `Session` | `Yaga::init` and `Solver_wrapper::check` | `CheckAgain`: a solver that has answered is initialized for more assertions. What `init` resets is reset, what it forgets is kept |
| `SolverProperties` | | what must hold of a run, and why it does: the inductive invariant `LoopInv`, in named parts |
| `PropagationProofs` | | theorems about the trail; the steps that propagate keep `LoopInv` |
| `SolverProofs` | | the other steps, the theorems about the solver, and those about it with the order of `Vsids` |
| `ScoreMap` | none: the promise of `Variable_priority_queue` | a partial map from variables to scores and the removal of the variable that comes first |
| `PriorityQueue` | `variable_order/Variable_priority_queue.*` | one action per public operation; the loops of `fix_up`, `fix_down` and `rescale` are one action per iteration, `fixing` holding their iterators |
| `Vsids` | `variable_order/Generalized_vsids.*` with `Solver.cpp` | the actions of `Solver` with the events the order hears: bumps on resolution and learning, decay, rescaling, pushing back before a backtrack or a restart, `pick_top`. The queue is the map of `ScoreMap`, which `PriorityQueue` implements |
| `Fractions` | the values of `lra/Long_fraction.h` | numerator and denominator in lowest terms |
| `Words` | the words of `lra/Long_fraction.h`, the constructor from two of them and `inv()` | the casts, the test whether a number fits, and what `inv()`, which tests nothing, makes of a number held in words |
| `LongFraction` | `lra/Long_fraction.h`, `lra/Long_fraction.cpp` | a record of the word part, the GMP part, an empty sequence standing for a part that is not valid, and whether the GMP part has memory. One operator per C++ operator, with its special cases and tests for overflow (`AdditionWord`, `AdditionAssignWord`, ...), one action per operator on registers, any of which may be the same; `exact` is history: the number that ought to be there |
| `ComponentProofs` | | the theorems of section 4 about `PriorityQueue`, `SubsumptionAlgorithm` and `LongFraction` |
| `Terms` | `terms/Term_manager.cpp`, `terms/Terms.*`, `terms/Term_hash_table.cpp`, `terms/Arithmetic_polynomial.h` | one operator per constructor, from a table to a term and the table with the terms made on the way; a polynomial is a function from variables to coefficients |
| `TermMeaning` | none: the reference | the value of every term under a valuation of the declared constants |
| `TermManager` | `Term_manager::mk_term` | one action per constructor, on any terms of the table |
| `TermProofs` | | the theorems of section 4 about the constructors |
| `Internalizer` | `parser/Solver_wrapper.cpp`, `terms/Term_visitor.h` | the stack of the traversal, `NextRoot` and `Descend`, and one action per kind of term: `VisitGeq`, `VisitOr`, `VisitIte`, ...; then the assertions |
| `InternalizerProofs` | | the theorem of section 4 |
| `Substitution` | `terms/Term_rewriter.h`, `resolve` of `parser/Parser_context.cpp` | the stack of the rewriter: `NextChild`, `Rewrite` |
| `MC...` | | instances for TLC |

`pc` in `BoolTheory` names the point of the loop the single thread has reached.
A `Clause*` is the position of the clause, asserted clauses first, so that a
stale pointer is visible as a position that means another clause. Variables are
one set, `BoolVars` and `RealVars` being its two types.

Definitions named `...Kept`, `...Once`, `...IgnoringReason` and the like, marked
*Variation*, are not used by any specification: they are the plausible mistakes
that show the properties can fail.

## 3. The runs

| Run | Instance | Question |
|---|---|---|
| `sat` (10070) | 5 formulas over 4 variables, cached phases, one restart | Does conflict analysis produce false and new clauses, does the loop end with the right answer, and does its trail implement `Assignment`? |
| `lra` (117762) | 3 rational variables, 3 values, 9 atoms, 4 problems that mention some of them | Are learned clauses entailed, is "sat" backed by a model, are propagation and backjumps right when several conflicts per round go to different levels, does the loop use the trail as its contract asks, and is the invariant behind all of it one of every reachable state? |
| `lra_plugin` (1583481) | 5 inputs of 1 to 4 rational variables and up to 3 constraints, 5 with derived ones | Do bounds dropped lazily stay right over backtracks, is every conflict found and what is reported a lemma? Do the watched variables always tell how much of a constraint is assigned, and is its value propagated at its level? Does the search for a value end with the right one? |
| `subsumption` (421391) | 7 clauses over 3 variables, up to 4 learned | Do the incremental passes compute what they should, restart after restart? |
| `priority_queue` (124554) | 6 variables, scores 0 and 1, divided by 2 | Does the heap stay a heap with a right table, loop step by loop step, and implement `ScoreMap`? |
| `vsids` (3192) | 5 formulas over 8 boolean and 2 rational variables, up to two restarts, threshold never reached | Does the lazily cleaned queue ever lose a variable; does the loop with it do what `Solver` does; is the variable decided one of greatest score? |
| `terms` (117886) | 3 boolean constants and any two calls; 2 real constants, the literal -2 and any three; 1 real constant, the literal 1/4 and any three | Do the simplifications of the constructors keep meaning and normal form; is sharing complete? |
| `terms_equation` | as `terms` | a disagreement, below |
| `internalizer` (15360) | 5 tables over 1 boolean and 3 real constants, every boolean term asserted, alone and in pairs | Do the clauses have the models of the assertions? |
| `substitution_children` | 17 bodies, arguments from the whole table | a disagreement, below |
| `long_fraction` (126842) | words of 3 bits, two numbers, numerators and denominators up to 7 explored | Do the two representations agree, and is every result and comparison exact, after any sequence of operations? |
| `second_check` | two assertions, checked one after the other | a disagreement, below |

What they show, property by property:

* `TrailInv`, `BacktrackIsExact`, `ImplementsAssignment`: see section 4. They are checked
  inside the solver runs, with the trail the loop makes: the first two in `lra`, assignments below the top included,
  the third in `sat`, where everything is assigned at the top; the theorem has both.
* `LoopInv`: the inductive invariant of section 4, with types. Its part `WatchInv` says that every clause is
  watched by its first two literals and nothing else, in every state, including in the middle of a visit; its part
  `StackOK` gives the assertions of `propagate()` for a literal taken from the stack.
* `BcpComplete`: when the loop decides, no clause is false or unit. It depends on
  the cursor being reset on every backtrack.
* `FalseWatchIsSafe`: the relation that makes watches survive backtracking. The
  assertion in `falsified()` (the second watch has the highest level) is the
  local step of it.
* `ReasonsImply`: a reason implies its literal, at the level of the clause, and
  its other literals come earlier on that level, which is what makes one backward
  walk over one level enough.
* `ConflictStaysFalse`, `LearnedIsEntailed`, `LearnsSomethingNew`: conflict
  analysis, minimisation and deletion. A clause that repeats a literal is an
  exception to the last: its copies count as two literals, it never propagates,
  and only a conflict removes it.
* `JumpIsJustified`: the assertions of `backtrack_with`, and that every learned
  clause of a UIP jump has exactly its first literal above the target.
* `SatModelCorrect`, `AnswersCorrectly`: the answer. The latter is refinement of
  `Verdict`, termination included.
* `UsesTrailCorrectly`: every step of the solver is a step of `TrailSpec` or leaves
  the trail alone, so the theorems about `TrailSpec` hold of the solver's trail.
* `LraInv`: types, and `WatchConsistency`: between rounds the first two positions of a constraint tell
  whether all, or all but one, of its variables are assigned (the assertions of
  `check_watch_consistency`), though nothing is repaired on a backtrack and a
  derived constraint starts with its variables in the order of their levels.
* `SemanticPropagation`: a constraint whose variables have values has the value
  they give it, at a level a backtrack that keeps them keeps too.
* `BoundsAreBest`: when the loop decides, the top of a stack, once pruned, is the
  tightest bound of all true constraints that lack one variable, strict ones first,
  and the disallowed values are exactly those of the true disequalities. The
  code's own check (`check_bounds_consistency`) compares values only.
* `StacksAreNested`, `ObsoleteForGood`: why removing entries from the top alone is
  enough: an entry once obsolete never comes back in force, and those in force
  lie below the others. Both rest on time stamps that never repeat.
* `DecideFindsValue`: once `check_bounds` has found nothing, the search of `find_integer` ends
  with the allowed integer closest to zero if there is an allowed integer, and else the
  bounds leave room for the halving that follows. `find_integer` counts away from a
  bound, in both directions or in one; a wrong start or direction misses integers or never ends.
* `ConflictsAreLemmas`: a reported conflict is false, has two literals at least, and
  holds under every valuation of a grid larger than the values decided, derived
  constraints and the split of a disequality included.
* `PassesComputeSurvivors`, `SubsumptionInv`, `RemovedAreImplied`: the deletion of
  clauses. The second holds in every state of the passes: `NoSubsumedPairLeft`, no pair is missed;
  `MarksAreJustified`, a clause is emptied only for a pair that had to be compared;
  `IndexIsComplete` and `VisitsAreDone`, how far the pass has come.

* `QueueInv`: the table of positions is right in every state; between operations
  the nodes are a heap; in a loop, which single edge may be out of order.
* `ImplementsScoreMap`: what `pop` removes is the first variable of the map, and the
  loops change nothing a user sees.
* `NothingIsLost`: when the loop wants to decide, every variable without a value is
  in the queue. It does *not* hold between a restart and the next decision:
  `on_before_backtrack(0)` puts back what lies above level 0, but
  `Trail::clear()` unassigns level 0 as well; those variables are propagated
  again before anything is decided, which is what the property states.
* `ImplementsSolver`: with the order every step is a step of `Solver`, so its safety
  properties carry over; in particular "sat" is answered with nothing undecided.
* `PicksBest`: no decision passes over a variable of greater score.

* `TermsInv`: besides types, that no term is in the table twice; and `NormalForm`: what the translation asserts of the terms it meets (`assert` in
  `Internalizer_config::visit` and `internalize_poly`), though it is the constructors that see to it.
* `ConnectivesKeepMeaning`, `ArithmeticKeepsMeaning`: in every reachable table, every constructor
  applied to any of its terms gives a term of the right value under every
  valuation tried. They are stated of the next call: two calls in all for boolean
  constants and three for real ones. Quotients are those that do not depend on a reciprocal `inv()` misses.
* `InternalizerInv`: types, the order of the stack, and `ArgumentsFirst`: the assertions of `Visitor::visit`: arguments before their term,
  every term once, for terms that share arguments.
* `ModelsAreModels`, `NoModelIsLost`: the two halves of "the same models"; with
  `AnswersCorrectly` they make the answer printed the answer to the problem read.

* `PartsAgree`: a valid word part and a valid GMP part are the same number, a valid GMP part
  has memory, and a number that fits words is never left in GMP alone. Equality of fractions
  with words compares words, so it would be wrong without the last.
* `ComputesExactly`, `ComparesExactly`: each operator, in place and not, with one operand
  used twice, gives the exact number, and comparisons see it, for every pair of
  representations. The tests for overflow differ from operator to operator;
  at a width of 3 bits every one of them is taken with both answers.
* `InverseNeedsSmallDenominator`: when `inv()` of a number that has words is exact. `inv()` stores the
  denominator as a word and tests nothing. Its one caller divides a term by a constant
  (`src/terms/Term_manager.cpp:615`): a denominator of 2^31 or more gives a wrong term. So `mk_divides` of `Terms`
  calls `InvOfWords`, the same casts, and `TermManager` divides a term that is not a constant only by the constants whose
  reciprocal they give (`HasQuotient`). Of a number that is in GMP alone `inv()` reads words that are not set; such a divisor
  is left out as well. Constants are divided by `operator/`, which is exact, so any divisor will do.

### Disagreements

`second_check` shows that a second `check()` may answer "sat" for assertions that have no model.
`Yaga::init` (`src/Yaga.h:105` documents it as removing all clauses and variables) empties the
database and replaces the plugins, but no function removes the levels of the trail that a
satisfiable first check left. `init` of the trail's variables keeps their number.
`Bool_theory::propagate` builds its watch lists only when it is told of level 0
(`src/bool/Bool_theory.cpp:91`), which with levels left on the trail it is not, so no clause is ever
read and every variable is decided by its phase. If a propagated literal is on the trail the code may read a clause
that is gone; such a step is not taken.

`PicksBest` holds of `vsids` because no score reaches the threshold there. With `score_threshold = 7`
in `Vsids.cfg` it fails: `bump()` (`src/variable_order/Generalized_vsids.h:161-173`) raises the score and then
*either* rescales *or* gives the new score to the queue, which goes on ordering
the variable by its score from before the bump, while line 69 speaks of "a variable with
the best VSIDS score". It costs quality of decisions, never correctness:
`NothingIsLost` and `ImplementsSolver` do not depend on scores.

`terms_equation` shows that two different terms can have the same polynomial.
`mk_arithmetic_times` returns `x` for `1 * x` when it multiplies a variable by one
(`src/terms/Term_manager.cpp:577`), but not when the coefficient of a product becomes one
(line 592). `2 * x` divided by 2 is then the term `1 * x`. The equation of that
term with `x` fails `assert(p.size() != 0)` (line 371); with assertions off the code reads
the first monomial of an empty polynomial. `MkEq` is not taken in that case, since a
failed assertion ends the program.

`substitution_children` shows that `Rewriter::rewrite` never visits an argument
(`src/terms/Term_rewriter.h:44`): the condition is the negation of the one in
`src/terms/Term_visitor.h:56`. The comment three lines below says that all arguments have
been processed. A function made with `define-fun` is called as if its parameters
were constants of their own, unless its body is a parameter. Two more defects
wait behind the condition, as reading shows and no run does: `VarSubstituteConfig` leaves negated
parameters alone, and `mk_term` on the kind of a negated term makes the positive one.

### Bounds

* `Vars`, `Values`, formulas, atoms: given in the `.cfg` files and `MC` modules. The
  formulas were chosen to reach, between them, unit clauses, repeated literals,
  tautologies, circular search that wraps around, backjumps over several levels,
  semantic splits, derived constraints propagated in the past, several conflicts
  per round, several learned clauses at one level, and clauses minimised by more
  than one literal.
* The variables of a problem are those its clauses mention and the rational ones of
  its constraints (`InUse`); other atoms of the instance exist once a conflict derives
  them.
* `MaxRestarts` bounds restarts (`sat`: 1; `vsids`: 2; the others 0). The restart policy allows
  restarts only after a growing number of conflicts; one arbitrary restart is
  enough for every clause pointer and watch list to be rebuilt once, and
  `SubsumptionAlgorithm` checks the sequence of restarts on its own.
* `MaxLearned` bounds the learned clauses of `SubsumptionAlgorithm`.
* `Reasons` is the set of clause positions and bounds nothing the runs reach.
* Six variables give a 4-ary heap a root, four children and one grandchild, the
  smallest shape with two levels of parents; two scores give ties broken by the
  variable and, divided, the merging of scores. Larger heaps are covered by the
  proofs.
* `score_threshold` is 1e35 in the code. Scores are fixed-point numbers of two
  decimals; a threshold of 1000 is never reached.
* `MaxAtoms` bounds the constraints of `LraPlugin`; a step that would create one more,
  or one with other coefficients than 1 and -1 (`Representable`), is not taken. The inputs derive at most two. `MaxTime` bounds assignments *by the
  environment*, boolean and rational, by the number of variables of the input: enough for every variable to be assigned,
  undone and assigned again with another value, which is what time stamps are for.
  Assignments by the plugin are not bounded; there are finitely many per
  assignment of the environment. Coefficients are 1 and -1 and values 0 and 1, so
  that bounds are integers; the type invariant states it.
* `LraPlugin` may stop: at a model, at a conflict on level 0, or at the bounds above.
  `TermManager` stops at the bound on its calls, `Internalizer` and `Substitution` when they are done.
  Only their runs have deadlock checking off.
* A problem of `TermManager` has a bound on the calls. Two calls of boolean constructors
  make disjunctions of disjunctions; three constants are the most a connective takes.
  Three calls with the literal -2 make coefficients that cancel, become one or become fractions. The
  literal 1/4 has a reciprocal that words of 3 bits (`W = 4`, as in `long_fraction`) do not hold: without `HasQuotient` the
  run finds x / (1/4) wrong. The other runs on terms divide nothing and give `W` a value because `Terms` declares it. Real
  values are -1 and 1/2: comparisons and solved equations come out both ways.
* The problems of `Internalizer` share terms between parents, nest conditional terms,
  meet an atom under a negation first, and give one constraint to two atoms and to
  an atom and a branch. Values are -1, 0 and 1. Coefficients are 1 and -1 as in
  `LinearConstraints`.
* `W` is half the number of words; 4 makes words of 3 bits, from -4 to 3, unsigned ones up
  to 7, double ones up to 31 and 63. `MaxNum` and `MaxDen` bound the numbers an operation is applied
  to, not its results: 7 lies beyond words and at the limit of unsigned ones, so that operands have words, GMP or both. Two
  registers are the most a binary operator reads. The theorems of section 4 hold for
  every width.
* `Turns` bounds the loops of `find_integer` without a last value: more turns than disallowed
  values and strict bounds can refuse.
* Rational values are a finite ordered set. Fourier-Motzkin elimination becomes
  "the fewest fully assigned atoms that make the clause valid over that set";
  every such explanation is tried.

### Fairness

`Spec` has `WF_vars(Next)` and no more: the program is a sequential loop that takes
its next step whenever it has one. Nothing is assumed about which variable,
value, explanation or restart is chosen. `PriorityQueue` needs no fairness: it has
no liveness property, and its loops end because each step moves the iterator.

## 4. The proofs

### The trail

`PropagationProofs` begins with the trail, for every set of variables, values and reasons and any number
of levels, from the two assumptions of `Trail` (`NoReason` is not a reason, `Undef`
is not a value):

* `TrailCorrect`: `TrailSpec => []TrailInv`, its types included. `TrailInv` is inductive: that a
  variable is listed on its own level (`ListedAtOwnLevel`) needs that it has a level
  exactly when it has a value (`DefinedIffLevel`), so that an assigned variable is
  never listed again; that a backtrack meets every variable it must unassign
  needs `ListedAtOwnLevel`; that it unassigns no other needs `ListedBelow`.
* `BacktrackExact`: `TrailSpec => BacktrackIsExact`, from the same invariant.
* `TrailImplementsAssignment`: `TrailSpec => ImplementsAssignment`, the refinement
  of `Assignment`: each step maps to a step or a stutter.

The proofs cite the assumptions of `Trail` and no other. The lemmas `DecideLists`, `PropagateLists` and `BacktrackLists` say what each
operation does to the lists, and `DecideStep`, `PropagateStep`, `BacktrackStep` and
`ClearStep` are the cases of the induction.

### The solver

`PropagationProofs` and `SolverProofs` prove, for every set of boolean and rational variables, every
set of formulas whose clauses are not empty and every kind of constraint, that every run of
`Solver`, with any number of learned clauses, levels, restarts and conflicts per round, satisfies

* `LoopIsInvariant`: `Spec => []LoopInv`, the inductive invariant, and from it
  `SolverTrailCorrect` (`TrailInv`), `WatchesAreCorrect` (`SolverInv`: `WatchInv` and the assertions of `propagate()`), `PropagationIsComplete` (`BcpComplete`),
  `FalseWatchesAreSafe` (`FalseWatchIsSafe`), `ReasonsAreCorrect` (`ReasonsImply`), `ConflictsStayFalse`
  (`ConflictStaysFalse`), `LearnsNewClauses` (`LearnsSomethingNew`), `BackjumpsAreJustified` (`JumpIsJustified`)
  and `ModelsAreCorrect` (`SatModelCorrect`);
* `SolverUsesTrail` (`UsesTrailCorrectly`), so that what was proved about `TrailSpec` holds of the trail that the
  loop and its plugins write to: `SolverBacktracksExactly` and `SolverImplementsAssignment`;
* `DerivedIsInvariant` and `LearnedClausesAreEntailed` (`LearnedIsEntailed`): resolution, minimisation, explanations of
  the arithmetic plugin and deletion derive nothing that does not follow;
* `AnswersAreRight`: `Spec => AnswersSafely`, the part of `Verdict` that is not liveness. The verdict is
  given once and is never "sat" for a problem without a model nor "unsat" for one that has a model.

The hypotheses. `EveryClauseMayBeReason`, `Nat \ {0} \subseteq Reasons`: in the code any clause can be a reason; the
runs bound the number of clauses, which is why it is a hypothesis of the theorems and no assumption of a module.
`ScopeAssumption` of `LinearArithmetic`: a rational variable has some value, and whether a constraint holds depends on
the values of its own variables. Every constraint has a variable: `Linear_constraints::make` turns the others into `0 = 0`, which is not modelled.
`FormulasAssumption`: `Solver_wrapper` asserts no empty clause. The abstraction of the arithmetic
plugin is the one of the runs: an explanation is a valid clause over the constraints.

The invariant. What the code relies on is spread over the whole loop, so `LoopInv` says for every point of it what
is true there. Its parts, and what each is needed for:

* `FalseWatchesOK`: a clause whose watched literal is false has a true one next to it, of a level that is no higher,
  or is still to be looked at (`Awaits`): its assignment is unseen by the cursor, or waits on the stack, or the visit
  has not come to it. `FalseWatchIsSafe` is what is left when nothing waits. A backtrack keeps it, since it removes
  the false literal with the true one or the entries of the level that was to be looked at; that
  new clauses are watched by two literals of the highest levels makes it true of them.
* `StackOK`: what waits on the stack is true or implied *at the current level*; a literal on it
  may become false only through the visit in progress, and then its clause comes later in that visit, which reports
  the conflict: that is why `propagate()` may assert that no literal it takes is false.
* `CursorOK`: the cursor of the boolean plugin fits the trail, whoever has cut or extended it.
* `ReasonsOK`: reasons are clauses whose literals were false before, on the list of their level. Visits reorder
  clauses in place: `Elsewhere` and `VisitPermutes` show that the visited clause is the reason of nothing.
* `AssignmentsOK`: a variable without a reason was decided or stands for a constraint at a level that opened with a
  rational variable. It is why a clause with two literals of its highest level left can only be a split, and why
  a conflict on level 0 resolves to the empty clause.
* `AtomsOK`: a constraint has a value at the highest level of its variables wherever those have values; on the current
  level once the plugin has been asked. Needed for explanations to be false, and for the model of "sat".
* `UnitsOK`: clauses of one literal have no second watch; they are true at level 0 or about to be.
* `ResolveOK`: the entries behind the iterator of the reverse walk need no more resolution. It gives the shape of the
  result, `LemmaOK`: the clause propagates one literal (`IsUip`), splits (`IsSplit`), or is empty.
* `MinimizeOK`: the first literal of each level to become false is never redundant (`FirstStays`), so that minimisation
  keeps the level to backtrack to, which the code has fixed before.
* `JumpOK`, `UnitOK`, `SplitOK`: what was learned fits the level returned to. Several clauses of
  one conflict may force the same literal but not opposite ones.

There is a lemma for each action (`BcpDoneStep`, `PopSatisfiedStep`, `MoveWatchStep`, ...), with a step
for each part that the action disturbs. Their order is that of the loop: `PropagationProofs` has the trail, literals, reasons,
the visit of a watch list, the constraints and the new round; `SolverProofs` the analysis, propagation of learned
clauses, decisions, restart, backtracking and learning, where `LoopStep` joins them.

`DerivedOK` needs for minimisation more than that the result follows: the literals already removed are implied by others of the
clause, removed ones among them, so that the clause that stays follows by the literal of the removed ones that came first on the
trail (`KeptFollows`, from `FirstOnTrail`); minimisation looks at one literal at a time and
never at the circle.
For `AnswersAreRight`, a "sat" is met with `SolverModel`, the valuation on the trail completed by arbitrary values for variables that
have none, and an "unsat" with the levels: when the empty clause is learned or a conflict is on level 0, everything assigned there follows from the
problem (`LevelZeroFollows`).

### The order of the variables

`SolverProofs` ends with the loop that takes its decisions from the queue of `Generalized_vsids`, for any scores and
any threshold (`VsidsAssumption`: variables are numbered and a constraint has finitely many of them; and
`EveryClauseMayBeReason` as above):

* `VsidsLosesNothing`: `VsidsSpec => []NothingIsLost`;
* `VsidsImplementsSolver`: `VsidsSpec => ImplementsSolver`, so that every theorem about the safety of `Solver` holds with the order
  in place of the arbitrary choice. The step that is not a step of `Solver` by its text is `PickNone`, which looks at the queue where
  `AnswerSat` looks at the variables; it needs `NothingIsLost`.

`NothingIsLost` speaks of the point where the loop decides, and is not inductive: a restart clears the trail,
but `on_before_backtrack(.., 0)` puts back only what lies above level 0. What was on level 0 is then neither assigned
nor queued. The invariant is `QueueOK`: a variable has a value, or is in the queue, or *propagation alone gives it one* (`ValueReturns`:
every set of literals that is closed under the clauses assigns it). The rest of the argument is about that:

* `TruePropagated`: where the loop decides, the true literals are such a set (from `FalseWatchesOK` and `UnitsOK`).
* `LevelZeroReturns`: what is on level 0 is there by propagation alone (from `ReasonsOK`, on the first variable of the trail
  for which it would fail).
* `NextForces`: no step takes this back. Reordering a clause does not (`BoolReorders`), learning does not, and a restart does not, since a clause it
  deletes is subsumed by one that stays (`SurvivorSubsumes`). The last needs that no learned clause repeats a literal
  (`DerivedOnce`): `Closed` counts positions, as the watches do, and a clause with a literal twice propagates less than the set of its literals.
* `BumpLearnedKeeps` and the lemmas before it: no bump, decay or rescaling changes which variables are queued.

### The other components

`ComponentProofs` proves about `PriorityQueue`, for every set of variables, numbered by naturals, every
set of scores and every positive factor (`QueueAssumption`):

* `QueueCorrect`: `Spec => []QueueInv`. `QueueInv` is inductive. Its
  part `HeapOrder` says more than the heap order: while `fix_up` or `fix_down` holds a
  node in the wrong place, the parent of that node and its children are in order
  already, so that one swap mends one edge and breaks at most the next;
  and in `rescale` the subtrees behind the index `rest` are heaps. `PositionsAgree`
  is needed since `update` finds its node by the table.
* `QueueImplementsScoreMap`: `Spec => ImplementsScoreMap`. The step that is not
  bookkeeping is `Pop`: the root comes before every other node. `RootIsFirst`
  proves it from the order of neighbours by a minimal counterexample: a node of
  least index that the root does not come before has a parent of smaller index,
  which the root equals or comes before.

`ParentOfChild` and `ChildrenOf` relate `parent` and `children`, `FirstChildExists` is what the inner
loop of `fix_down` computes, `SwapKeeps` is what a swap does to the table; then one
lemma per action (`PushKeeps`, `FixUpKeeps`, ...). `CommonLemmas` holds the
least-element principle.

`ComponentProofs` proves about `SubsumptionAlgorithm`, for any literals, any set of clauses that are not empty and any bound
on their number (`LearnedAssumption`; the solver stops at an empty clause):

* `SubsumptionCorrect`: `SubsumptionSpec => []SubsumptionInv`, which is inductive. The algorithm compares only pairs with a clause newer than the
  last restart, looks for the subsumed clauses in one list of the index, and skips clauses emptied
  on the way, though those might have subsumed others.
  `AllAreMarked` is the heart of it: of the clauses that had to
  remove one, take the shortest; if it was emptied before its visit, a shorter
  one removed it, and had to remove the first as well.
* `RemovedClausesAreImplied`: `SubsumptionSpec => []RemovedAreImplied`, by the shortest clause contained in the
  removed one.
* `PassesAreCorrect`: `SubsumptionSpec => PassesComputeSurvivors`, the clauses that stay and their order.

`Chosen` is a recursive function; in `CommonLemmas`, `ChosenExists`, `ChosenElements` and `ChosenAgree` are proved by a
minimal counterexample, since the induction theorems of the library cannot be used. `BestLiteralExists` shows that the
shortest list of the index is one the clause occurs in.

`LraPluginProofs` proves, for any finite set of rational variables, any input, any bounds and any behaviour of the
loop around the plugin (`RealVarsAssumption`, `PluginAssumption`, and `UndefAssumption` of `Trail`):

* `EntriesAreDated`: `Spec => [](TimesOK /\ EntriesDated)`. The time of an assignment is the clock of its
  model, which only grows, so that a time names one assignment. Every entry of a stack has the time
  of its literal and of the latest other variable of its constraint, both before the clocks.
* `ObsoleteBoundsStay`: `Spec => ObsoleteForGood`. Once the literal or one of the
  variables of an entry is undone, whatever is assigned afterwards is newer than the entry, so
  that the entry never comes back in force; a new entry is never one of the obsolete ones.
* `PluginIsSound`: `Spec => []LraInv`. The constraints stay in normal form and different, and between two rounds the
  watched positions tell how much of a constraint is assigned.
* `StacksStayNested`: `Spec => []StacksAreNested`. The bounds in force lie below the obsolete ones, each better than the
  one below it.
* `ConstraintsPropagate`: `Spec => []SemanticPropagation`. Between two rounds no constraint with all its variables
  assigned is without its value or has the wrong one, and none has it at a level above theirs.
* `BoundsStayBest`: `Spec => []BoundsAreBest`. Where `decide` is asked for a value, what is read from the stacks is the
  tightest that the true constraints imply, and the disallowed values are those of the true disequalities.

The inductive invariant is `PluginInv`. It says, besides, where the variables and constraints of every part
of the state come from: the order of a constraint lists the variables of the constraint, a watch and a
value to be read name one that exists, and so do the constraints combined in a conflict. Without that a new entry
could rest on a variable without a time. `RealsNeedTime` is needed since the
time of an entry is at least zero: an entry that rests on other variables is made only when one of
them was met on the trail, and by then the clock has left zero. `TimesStay`, `DatedStays`,
`ObsoleteStays` and `OthersStay` say what the passing of time keeps; `NewEntryIsDated` is the
step that adds entries; then one lemma per action.

The next two need a second invariant, `LraI`, which contains `PluginInv`. Its parts:

* `LevelsOK`, `RealsFirst`, `AtomsLow`: a rational variable is the decision of its level, and a
  constraint that is listed above its own level was propagated there by its variables, so a backtrack that keeps it
  keeps them. `NextTrail` reduces all actions to nothing, the assignment of a constraint, a decision of a rational
  variable, or a cut.
* `PlacesOK`: what is still to be looked at is on the top level, a rational variable first. So a new value is
  worked through (`Due`) before anything else is decided.
* `WatchesOK` and `WatchesTell`: a constraint is in the lists of its first two variables, once in each; where a
  watched variable has a value that is not `Due`, all others got theirs *no later*. The comparison of levels is
  what makes this survive a backtrack, and it is why the variables of a derived constraint are watched in
  the order of their levels.
* `FormsOK`, `PolysOK`, `StacksOK`: normal forms; what is blamed is about variables that have values.
* `EntriesAbout`, `Nested`: of two entries of a stack, where the upper one is in force so is the
  lower one, it is worse, and it depends on nothing later. The last part (`NoHigher`) is what `StacksAreNested` lacks to be
  inductive: without it a backtrack could undo the lower entry alone.

The last two theorems need a third one, `ValuesInv`, because they support each other: a value that is decided
agrees with the constraints because the bounds are right, and the bounds are right because no constraint with all its
variables assigned was left to guess. Besides `LraI` it has these parts:

* `ValuesGiven`, `ValuesAgree`: a constraint all of whose variables have values, of which no watched one is
  `Due`, has a value; and one that has a value with all its variables has the right one, no higher than they.
* `EntriesRight`: an entry in force has the value its constraint implies now.
* `UnitsCovered`: as soon as a true constraint lacks one variable, and neither it nor its other variables are still to be
  looked at (`Ripe`), an entry in force is as good as what it implies and depends on nothing later (`Serves`). The
  entry may be the constraint's own or a better one that kept it off the stack; that it depends on nothing later is why a
  backtrack cannot take it away and leave the constraint. The invariant speaks of variables that have a value too, as they
  were before they got it: a backtrack undoes them, and nothing is read again then.

`RipeCases` is the step where a constraint comes to lack one variable: it did before, or the step has put what it
implies on the stacks. `KeepsHold` says that a value on the right side of what a constraint implies makes it hold, by
taking the variable out of the sum (`SumSplit`). Sums are folds; `SumTakesOut` in `CommonLemmas` shows that
they do not depend on the order, by a set of least size for which they would.

`LraConflictProofs` proves on top of these, from the same assumptions:

* `ConflictsHold`: `Spec => []ConflictsAreLemmas`. A reported conflict has two literals at least, all false, and holds under
  every assignment of values.
* `ConflictsHoldForAll`: the same over all integers; a run can try a `Grid` of values only.
* `ValuesAreFound`: `Spec => []DecideFindsValue`. Whatever the bounds and however many values are disallowed, the
  search ends with the allowed integer closest to zero, or there is room between two bounds.

The invariant, `ConflictInv`, adds to `ValuesInv` what the analysis keeps while it combines bounds (`Blames`): the
literals blamed so far are false and at least two, each combination still to be dealt with is false under the values of the
trail, and under *every* assignment a blamed literal or one of these combinations holds. When none is left, the clause
itself holds. So each step has to show both that it is sound and that what it makes is false now:

* `CombinedValue`: the value of a combination of two polynomials is the combination of their values, by `SumOfBoth`.
  `ResolveSound` and `InequalitySays` follow: a combination of two bounds says no more than the bounds,
  and a disequality is split into its two strict sides.
* `ResolveFalse`: two bounds that leave no room combine to something false. Their values under the trail are the
  ends they imply (`TightAt`), and the combination is strict where the room is one point.
* `NormalSays`, `LiteralSays`: normal form, with its sign, says of all values what the polynomial said.
* `TruthSays`: a constraint derived is found or made with the value it has, by `ValuesAgree`.

`BoundsBlamed` and `InequalityBlamed` start a conflict; `DeriveBlames` and `DropTrivialBlames` go on with it. `ValuesInv`
is needed to start: what is combined are the tops of the stacks, and only if these are in force with the values their
constraints imply now is the combination false.

`ValuesAreFound` needs the converse, that what must be reported is reported. Its invariant, `RoomInv`, adds to
`ConflictInv` that there is `Room` for a variable where the bounds neither cross nor meet in a disallowed value:

* `RoomBelow`: on every level below the top there is room for every variable, *always*, also while a conflict
  is on its way. A decision is made only where all levels have room, and a backtrack takes the top level off, which is why
  there is room after a backtrack although nothing is checked there again (`TakenOff`, `NoneBefore`).
* `RoomChecked`, `NoneChanged`: while nothing is blamed, each variable that is not still to be checked has
  room on all levels; and none is to be checked once a decision may be made. `NoConflictRoom` is the step of
  `check_bounds`: what it looks at, the tops of the stacks, are the best bounds in force, so if those leave room all do.

What remains is about the search alone. `FoundIs` reduces it to the list of integers tried: it starts at the one closest to
zero and never turns back (`ClosestFirst`), and it contains an allowed one. Where one side is open, `EnoughTurns` is the
pigeonhole: a list of n disallowed values cannot contain n + 1 different ones (`OneNotListed`). Between two bounds all
integers are tried (`TriedBetween`), so if none is allowed the bounds differ.

`InternalizerProofs` proves, for any terms whose arguments are older terms of the same table, which is how `Terms`
adds them (`ProblemsAssumption`), and any assertions:

* `ArgumentsComeFirst`: `Spec => [](StackDescends /\ ArgumentsFirst)`, the assertion of `Visitor::visit` and the
  comment above it. `ArgumentsFirst` is inductive only with `StackDescends`, the indices on the stack decrease from the bottom to
  the top: that is why a term that is met again through another parent, and is not visited yet, cannot
  be on the stack, and why no term is left waiting for itself.

`ComponentProofs` proves about `LongFraction`, for words of any width (`WidthAssumption`) and numbers of any size:

* `PartsAlwaysAgree`: `LongFractionSpec => []PartsAgree`. The invariant is inductive once the types are
  weak enough to be kept without knowing what `gcd` computes: a step stores what `addition` and
  its like return or makes the GMP part of an operand valid, and both keep the parts in agreement.
* `ChecksAreExact`: the macros that test a sum or a difference of double words for overflow
  answer yes exactly when the mathematical result does not fit, for every width.
* `UncheckedArithmeticFits`: products of a word and an unsigned word, and the sums the code
  computes without a test because "it cannot overflow", fit the double word, for every width.

* `AlwaysExact`, `ComparisonsAreExact`, `InverseIsRestricted`: `LongFractionSpec` implies
  `[]ComputesExactly`, `[]ComparesExactly` and `[]InverseNeedsSmallDenominator`, for every width of
  words that hold one (`WidthAssumption`). The inductive invariant `NumbersInv` says
  that every number is a representation (`Means`) of a fraction in lowest terms (`Rat`). The argument:
  * `GcdIs`: Euclid's recursion computes a common divisor that is a sum of multiples of its
    arguments. There is no induction: of all second arguments for which it
    were wrong there is a least one, and its remainder is smaller. That the recursion
    determines a function at all is `EuclidExists`, by the greatest common divisor.
  * Numbers without a common divisor are those with `a * x + b * y = 1` (`Coprime`); in this form they can be
    multiplied and divided. `FracIs` recognizes the fraction in lowest terms by it.
  * Each operation on words overflows or is exact: `AdditionIsExact`, `AdditionAssignIsExact`,
    `SubstractionIsExact`, `MultiplicationIsExact`, `DivisionIsExact`, `InverseIsExact`.
    `+` and `-` keep the common factor of the result in an unsigned word, which is enough since
    it divides what the two denominators have in common (`CommonOfSum`); `+=`
    keeps it in a `lword`, where it may turn negative, and is then saved by the test
    on the denominator (`AdditionAssignOther`).
  * Everything else, the special cases, signs, rounding and comparisons, is exact because
    of these and of `UncheckedArithmeticFits`.

### Terms

`TermProofs` proves about `TermManager`, for any declared constants, any numbers and any number of calls
(`TermManagerAssumption`: numbers and points are fractions in lowest terms; `WidthAssumption`):

* `TermsAreNormal`: `Spec => []TermsInv`. No term is in the table twice, and what the translation to clauses asserts of the
  terms it meets is true of every entry.
* `ConnectivesMeanWhatTheySay`: `Spec => []ConnectivesKeepMeaning`, every row of the table of `mk_bool_ite` included.
* `ArithmeticMeansWhatItSays`: `Spec => []ArithmeticKeepsMeaning`. The run tries two values for a real constant; the theorem
  is for any set `Points` of them, and `PlusSays` to `EqSays` are for all rational values. Quotients are those of
  `HasQuotient`: a constant by any constant, a term by one whose reciprocal `inv()` returns (`InvIsReciprocal`, from the casts, for
  words of any width). `InverseIsRestricted` says that of the divisors held in words no other would do.

The invariant, `TableInv`, says with `WellBuilt` what every entry looks like (`Shape`) and that it is built from older ones. It
is more than `TermsInv`, where the constructors look into terms made before: that the factor of a product is a constant other than
zero and its variable a constant or a conditional term, that a sum has the monomials of
different variables in their order, so that it is the polynomial it came from (`SumPolyIs`, `PolyTermIs`), and that the
only zero is `zero_term`, on which `term_to_poly` relies when it compares handles.

The meaning of a term is stated for its table *and every table that grows from it* (`Grown`), because a constructor
makes terms on the way and later calls add more: `mk_iff` builds three disjunctions, each in the table of the one before.
`Formula` and `Number` say what a constructor returns; `SaysSome`, `SaysIte`, `TimesMeans` and their like what it means.

* `ValuesAre`: `ValuesIn` is a function defined by recursion over the table. That there is one is shown without induction: of
  the lengths of table for which there were none, take the least (`ValuesExist`).
* `OrIs`: sorting and removing false leaves the disjunction as it is. Then each connective by those it is built from
  (`AndSays`, `IffSays`, `PairSays`, ...), `IteSays` for the rows of the table, in their order.
* `PolyValue` is the value of a polynomial, a sum over the finite set of its variables (`RatSum`), which does not depend on
  their order. `MergeValue`, `ScaledValue` and `MonomialValue` are the operations of `Polynomial`; a merge drops what
  cancels (`RatSumOfNonzero`). `SumNumber` relates it to the fold of `ValuesIn` over the arguments of a sum.
* `PolyTermSays` and `TermPolyValue`: turning a polynomial into a term, and a term into a polynomial, keep the value. All
  constructors of arithmetic go through these two.
* `EqualsZeroSays`: the cases of `mk_arithmetic_eq` by the number of monomials, with the equation solved for its variable
  (`RootIs`) or two opposite multiples compared (`OppositeMultiples`).

`CommonLemmas` has the laws of fractions this rests on: each is a statement on integers after
`IsQuotient(p, n, d)`, that p is n/d whatever common factor n and d have (`PlusFractions`, `TimesFractions`, `SameIs`).

For these proofs the constructors that test one case after the other are written as such chains, as in the code, and the
order of arguments is `SortedList` of `Lists`.

### Only model-checked

* That `check()` returns: `AnswersCorrectly` is liveness under fairness. Its safety is `AnswersAreRight`.
* That a variable of greatest score is decided (`PicksBest`): it fails once scores are rescaled.
* What the translation to clauses means (`InternalizerInv`, `ModelsAreModels`, `NoModelIsLost`).

## 5. Not modelled

* `check_with_model`, `analyze_final`, `analyze_with_vars`, `decide_val`, `Interpolation`: an
  unfinished second entry point. Units of the problem may overrule the values given to it, and
  `analyze_final` reads conflicts that the analysis before it has consumed; no
  promise of the code says what should hold, so there is nothing to check against.
* Restart policies: replaced by an arbitrary choice in `Solver`, which is what
  correctness must not depend on. Luby's sequence and the moving averages of `Glucose_restart`
  only decide when.
* `Evsids`, `First_unassigned` and `Combined_order`: `Solver` allows any undefined
  variable, which covers them; what they promise beyond that is which one.
* Linear arithmetic beyond coefficients of 1 and -1; the fractions
  `Linear_arithmetic::decide` tries by halving once no integer is allowed (any allowed value is taken). Overflow of coefficients is
  the subject of `LongFraction`.
* `Fraction.h`: `Yaga.h` includes it, nothing uses it. And the operations of a `Long_fraction` the solver
  does not call: `gcd`, `lcm`, `%`, `divexact`, `fastrat_fdiv_q`, `get_d`; hashing and printing.
  Reading `Long_fraction.h` shows that the constructor from two words divides a negative numerator
  as an unsigned one. `OfWords` models it; all callers but `inv()` pass coprime pairs.
* The options `prop_rational` and `deduce_bounds` are off by default, and
  `prop_unassigned` is enabled nowhere. `is_strict` of a deduced bound and the queue of
  effectively decided variables belong to them.
* The parser: names, scopes, decimal literals, printing. `Internalizer` and `Substitution` start from the terms it builds.
* The hash tables of terms and constraints: what they promise, that equal things are found, is
  what `Terms` and `LinearConstraints` look up.

## 6. Plan

Modelled first, because everything rests on it: the trail, boolean propagation,
conflict analysis and the loop; then what the loop trusts, the deletion of clauses,
the order of variables, the bounds and watches of linear arithmetic; then the way
from terms to clauses; then the numbers below and the sessions above. What is left, in this order:

1. The queue of effectively decided variables of `Generalized_vsids` on top of `Bounds`:
   `push` is called for a variable that may be in the queue, against its precondition;
   then `deduce_bounds`, with coefficients other than 1 and -1.
2. `LraPlugin` shown to do what `LinearArithmetic` allows.
3. `check_with_model`, once it is finished.

Theorems worth proving next: the translation to clauses, atom by atom, on top of `TermProofs`.
