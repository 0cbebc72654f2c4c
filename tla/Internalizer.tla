---------------------------- MODULE Internalizer ----------------------------
(***************************************************************************)
(* From terms to clauses and linear constraints (src/parser/               *)
(* Solver_wrapper.cpp), in the order of the traversal of                   *)
(* src/terms/Term_visitor.h: arguments first, every term once.             *)
(***************************************************************************)
EXTENDS TermMeaning, LinearConstraints

CONSTANTS
  Problems,  \* set of [table, assertions], with coefficients 1 and -1
  Grid       \* the integers properties try for a rational variable

\* Terms refer to terms that were there before them.
WellFounded(T) ==
  \A i \in DOMAIN T : T[i].args \in Seq({t \in 2..(2 * i - 1) : index_of(t) \in DOMAIN T})

ASSUME ProblemsAssumption ==
  \A p \in Problems :
    WellFounded(p.table) /\ p.assertions \in Seq({t \in Nat : index_of(t) \in DOMAIN p.table})

VARIABLES
  table,       \* the terms, not changed any more
  assertions,  \* the asserted terms
  pc,          \* "visit", "assert", "solve" or "unsat"
  worklist,    \* stack of [term, next_child]
  processed,   \* indices of visited terms
  lits,        \* internal_bool_vars: index -> literal of the positive term
  reals,       \* internal_rational_vars: index -> rational variable
  clauses      \* asserted clauses, as sets of literals

problemVars == <<table, assertions>>
visitVars == <<worklist, processed>>
solverVars == <<lits, reals, constraints, clauses>>

vars == <<problemVars, pc, visitVars, solverVars>>

\* A boolean variable that stands for no constraint.
NoConstraint == [coef |-> [r \in {} |-> 0], pred |-> "eq", rhs |-> 0]

-----------------------------------------------------------------------------
(* Translation of the parts.                                               *)

NewBool == Len(constraints) + 1

NewReal == Cardinality(DOMAIN reals)

LitOf(t) == IF is_negated(t) THEN -lits[index_of(t)] ELSE lits[index_of(t)]

\* internalize_poly: a sum over rational variables.
internalize_poly(t) ==
  LET p == term_to_poly(table, t)
      vs == DOMAIN p \ {Undef}
  IN [coef |-> [r \in {reals[index_of(v)] : v \in vs} |->
                  p[CHOOSE v \in vs : reals[index_of(v)] = r][1]],
      const |-> At(p, Undef)[1]]

\* The constraint p pred 0, times 1 or -1.
As(p, pred, mult) ==
  [coef |-> [r \in DOMAIN p.coef |-> mult * p.coef[r]], const |-> mult * p.const, pred |-> pred]

subtract_var(p, r) == [p EXCEPT !.coef = p.coef @@ (r :> -1)]

With(f, i, x) == f @@ (i :> x)

-----------------------------------------------------------------------------
(* The traversal.                                                          *)

Top == Last(worklist)

Current == Top.term

CurrentArgs == get_args(table, Current)

Below == Front(worklist)

NextRoot ==
  /\ pc = "visit"
  /\ worklist = << >>
  /\ \E k \in DOMAIN assertions :
       /\ index_of(assertions[k]) \notin processed
       /\ \A j \in 1..(k - 1) : index_of(assertions[j]) \in processed
       /\ worklist' = <<[term |-> assertions[k], next_child |-> 1]>>
  /\ UNCHANGED <<problemVars, pc, processed, solverVars>>

\* Variation: a child is visited again for each of its parents.
EveryChild(child) == TRUE

ToBeVisited(child) == index_of(child) \notin processed

Descend ==
  /\ worklist # << >>
  /\ Top.next_child <= Len(CurrentArgs)
  /\ LET child == CurrentArgs[Top.next_child]
         counted == Append(Below, [Top EXCEPT !.next_child = @ + 1])
     IN worklist' = IF ToBeVisited(child)
                      THEN Append(counted, [term |-> child, next_child |-> 1]) ELSE counted
  /\ UNCHANGED <<problemVars, pc, processed, solverVars>>

Visiting(kinds) ==
  /\ worklist # << >>
  /\ Top.next_child > Len(CurrentArgs)
  /\ get_kind(table, Current) \in kinds
  /\ processed' = processed \cup {index_of(Current)}
  /\ worklist' = Below
  /\ UNCHANGED <<problemVars, pc>>

\* Constants and sums are read where they are used.
VisitOther ==
  /\ Visiting({"true", "constant", "product", "poly"})
  /\ UNCHANGED solverVars

VisitSymbol ==
  /\ Visiting({"uninterpreted"})
  /\ IF get_type(table, Current) = "bool"
       THEN /\ lits' = With(lits, index_of(Current), NewBool)
            /\ constraints' = Append(constraints, NoConstraint)
            /\ UNCHANGED reals
       ELSE /\ reals' = With(reals, index_of(Current), NewReal)
            /\ UNCHANGED <<lits, constraints>>
  /\ UNCHANGED clauses

\* An atom gets the literal of its constraint.
VisitAtom(p, sign) ==
  /\ Make(p)
  /\ lits' = With(lits, index_of(Current), sign * LiteralFor(p))
  /\ UNCHANGED <<reals, clauses>>

\* Variation: the literal of p < 0 is taken for the atom p >= 0.
GeqSigned(p) ==
  IF is_negated(Current) THEN VisitAtom(As(p, "lt", 1), 1) ELSE VisitAtom(As(p, "leq", -1), 1)

\* p >= 0 is made as -p <= 0, and met under a negation as the negation of
\* p < 0.
GeqAtom(p) ==
  IF is_negated(Current) THEN VisitAtom(As(p, "lt", 1), -1) ELSE VisitAtom(As(p, "leq", -1), 1)

VisitGeq == Visiting({"geq"}) /\ GeqAtom(internalize_poly(CurrentArgs[1]))

VisitEq == Visiting({"eq"}) /\ VisitAtom(As(internalize_poly(CurrentArgs[1]), "eq", 1), 1)

\* The equation between a variable and a variable or a constant.
VisitBinEq ==
  /\ Visiting({"bineq"})
  /\ LET right == internalize_poly(CurrentArgs[2])
         left == internalize_poly(CurrentArgs[1])
     IN VisitAtom([coef |-> left.coef @@ [r \in DOMAIN right.coef |-> -1],
                   const |-> -right.const, pred |-> "eq"], 1)

\* v <=> the disjunction of the arguments.
OrClauses(v, args) == {{v, -a} : a \in args} \cup {{-v} \cup args}

VisitOr ==
  /\ Visiting({"or"})
  /\ LET v == NewBool IN
       /\ lits' = With(lits, index_of(Current), v)
       /\ constraints' = Append(constraints, NoConstraint)
       /\ clauses' = clauses \cup OrClauses(v, {LitOf(a) : a \in ToSet(CurrentArgs)})
  /\ UNCHANGED reals

\* Variation: the branches are exchanged.
IteSwapped(l, true_lit, false_lit) == {{l, true_lit}, {-l, false_lit}}

\* c => (t = v) and ~c => (f = v)
IteClauses(l, true_lit, false_lit) == {{l, false_lit}, {-l, true_lit}}

\* The repository after a constraint was made, and the literal made.
Added(cons, p) ==
  IF \E a \in DOMAIN cons : cons[a] = Normalized(p) THEN cons ELSE Append(cons, Normalized(p))

LitIn(cons, p) == CHOOSE a \in DOMAIN cons : cons[a] = Normalized(p)

VisitIte ==
  /\ Visiting({"ite"})
  /\ LET v == NewReal
         branch(k) == As(subtract_var(internalize_poly(CurrentArgs[k]), v), "eq", 1)
         cons == Added(Added(constraints, branch(2)), branch(3))
     IN /\ reals' = With(reals, index_of(Current), v)
        /\ constraints' = cons
        /\ clauses' = clauses \cup
             IteClauses(LitOf(CurrentArgs[1]), LitIn(cons, branch(2)), LitIn(cons, branch(3)))
  /\ UNCHANGED lits

Visited ==
  /\ pc = "visit"
  /\ worklist = << >>
  /\ \A k \in DOMAIN assertions : index_of(assertions[k]) \in processed
  /\ pc' = "assert"
  /\ UNCHANGED <<problemVars, visitVars, solverVars>>

\* The assertions become unit clauses.
AssertAll ==
  /\ pc = "assert"
  /\ clauses' = clauses \cup {{LitOf(t)} : t \in ToSet(assertions) \ {true_term}}
  /\ pc' = "solve"
  /\ UNCHANGED <<problemVars, visitVars, lits, reals, constraints>>

-----------------------------------------------------------------------------
Init ==
  /\ \E p \in Problems : table = p.table /\ assertions = p.assertions
  /\ pc = IF false_term \in ToSet(assertions) THEN "unsat" ELSE "visit"
  /\ worklist = << >>
  /\ processed = {}
  /\ lits = [i \in {} |-> 0]
  /\ reals = [i \in {} |-> 0]
  /\ constraints = << >>
  /\ clauses = {}

Next ==
  \/ NextRoot \/ Descend \/ Visited \/ AssertAll
  \/ VisitOther \/ VisitSymbol \/ VisitGeq \/ VisitEq \/ VisitBinEq \/ VisitOr \/ VisitIte

Spec == Init /\ [][Next]_vars

-----------------------------------------------------------------------------
(* Properties.                                                             *)

\* The maps are defined on visited terms, variables are numbered without gaps,
\* and clauses are about variables that exist.
InternalizerTypeOK ==
  /\ pc \in {"visit", "assert", "solve", "unsat"}
  /\ DOMAIN lits \cup DOMAIN reals \subseteq processed
  /\ {reals[i] : i \in DOMAIN reals} = 0..(Cardinality(DOMAIN reals) - 1)
  /\ \A i \in DOMAIN lits : AtomOf(lits[i]) \in DOMAIN constraints
  /\ \A c \in clauses : \A l \in c : AtomOf(l) \in DOMAIN constraints
  /\ \A a \in DOMAIN constraints :
       /\ DOMAIN constraints[a].coef \subseteq {reals[i] : i \in DOMAIN reals}
       /\ \A r \in DOMAIN constraints[a].coef : constraints[a].coef[r] \in {-1, 1}

\* "If we are here, we have already processed all children" and "assert(
\* processed.count(current) == 0)" (Visitor::visit): a visited term has
\* visited arguments, and a term on the stack is neither visited nor on the
\* stack a second time, so no term gets two variables.
ArgumentsFirst ==
  /\ \A i \in processed : \A a \in ToSet(table[i].args) : index_of(a) \in processed
  /\ \A j \in DOMAIN worklist :
       /\ index_of(worklist[j].term) \notin processed
       /\ \A k \in DOMAIN worklist : index_of(worklist[k].term) = index_of(worklist[j].term) => k = j
       /\ \A k \in 1..(worklist[j].next_child - 1) :
            LET child == get_args(table, worklist[j].term)[k]
            IN index_of(child) \in processed \/ (j < Len(worklist) /\ worklist[j + 1].term = child)

\* The stack goes from terms down to older ones.
StackDescends ==
  \A j, k \in DOMAIN worklist :
    j < k => index_of(worklist[k].term) < index_of(worklist[j].term)

\* The maps and the stack of the traversal agree.
InternalizerInv == InternalizerTypeOK /\ StackDescends /\ ArgumentsFirst

\* What the solver decides on: rational variables and plain boolean variables.
Plain == {a \in DOMAIN constraints : constraints[a] = NoConstraint}

\* The truth of every boolean variable.
Truth(rho, beta) == beta @@ [a \in DOMAIN constraints \ Plain |-> Satisfied(constraints[a], rho)]

Models(truth) == \A c \in clauses : \E l \in c : Not(truth[AtomOf(l)], l < 0)

SymbolsUsed == {t \in SymbolsOf(table) : index_of(t) \in processed}

\* The model that is reported: values of the uninterpreted constants that were
\* given a variable.
Reported(rho, beta) ==
  [t \in SymbolsUsed |-> IF get_type(table, t) = "bool" THEN beta[lits[index_of(t)]]
                                                      ELSE <<rho[reals[index_of(t)]], 1>>]

\* Constants that no assertion mentions have no variable and no value.
Anything == [t \in SymbolsOf(table) |-> IF get_type(table, t) = "bool" THEN TRUE ELSE Zero]

AssertionsHold(val) == \A k \in DOMAIN assertions : Value(val, assertions[k])

\* A model of the clauses makes every assertion true, so "sat" is right and the
\* values reported are a model (Solver_wrapper::check, Solver_wrapper::model).
ModelsAreModels ==
  pc = "solve" =>
    \A rho \in [{reals[i] : i \in DOMAIN reals} -> Grid], beta \in [Plain -> BOOLEAN] :
      Models(Truth(rho, beta)) => AssertionsHold(ValuesIn(table, Reported(rho, beta) @@ Anything))

\* The values of the variables of the solver that a valuation of terms leads to.
InducedReals(val) ==
  [r \in {reals[i] : i \in DOMAIN reals} |-> val[CHOOSE i \in DOMAIN reals : reals[i] = r][1]]

InducedBools(val) == [a \in Plain |-> val[CHOOSE i \in DOMAIN lits : lits[i] = a]]

\* A valuation that makes the assertions true, extended to the variables that
\* were introduced for disjunctions and conditional terms, is a model of the
\* clauses, so "unsat" is right.
NoModelIsLost ==
  pc \in {"solve", "unsat"} =>
    \A valuation \in ValuationsOf(table, {<<n, 1>> : n \in Grid}) :
      LET val == ValuesIn(table, valuation)
      IN AssertionsHold(val) =>
           pc = "solve" /\ Models(Truth(InducedReals(val), InducedBools(val)))

=============================================================================
