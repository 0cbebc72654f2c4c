------------------------------ MODULE Clauses ------------------------------
(***************************************************************************)
(* Literals and clauses (src/Literal.h, src/Clause.h, src/Model.h).  A     *)
(* boolean variable with ordinal n is the number n + 1 and its literals    *)
(* are n + 1 and -(n + 1), the value a Literal object holds.  A clause is  *)
(* a sequence of literals, because the first two positions of a clause in  *)
(* the database are its watched literals.                                  *)
(***************************************************************************)
EXTENDS Integers, Sequences, SequencesExt

CONSTANT BoolVars  \* boolean variables

ASSUME BoolVarsAssumption == BoolVars \subseteq Nat \ {0} /\ IsFiniteSet(BoolVars)

Literals == BoolVars \cup {-v : v \in BoolVars}

VarOf(lit) == IF lit < 0 THEN -lit ELSE lit

\* Position of a literal in the order of Literal: a variable before its
\* negation, variables by their ordinal.
LitIndex(lit) == 2 * VarOf(lit) + (IF lit < 0 THEN 1 ELSE 0)

\* Lexicographic order of two clauses of the same length.
LexBefore(c, d) ==
  \E i \in DOMAIN c :
    /\ LitIndex(c[i]) < LitIndex(d[i])
    /\ \A j \in 1..(i - 1) : c[j] = d[j]

Swap(s, i, j) == [s EXCEPT ![i] = s[j], ![j] = s[i]]

\* eval() of a literal is optional<bool>: true, false or neither.
TrueIn(m, lit) == m[VarOf(lit)] = (lit > 0)

FalseIn(m, lit) == m[VarOf(lit)] = (lit < 0)

\* The set of total boolean assignments.
Assignments == [BoolVars -> BOOLEAN]

Satisfies(m, clauses) == \A c \in clauses : \E lit \in c : TrueIn(m, lit)
=============================================================================
