---------------------------- MODULE Substitution ----------------------------
(***************************************************************************)
(* A call of a defined function: the parameters of its body are replaced   *)
(* by the arguments of the call (src/parser/Parser_context.cpp resolve,    *)
(* src/terms/Term_rewriter.h).                                             *)
(***************************************************************************)
EXTENDS TermMeaning

CONSTANT Calls  \* set of [table, body, subst_map], subst_map : parameter -> argument

VARIABLES
  table,
  body,           \* the term to rewrite
  subst_map,
  toProcess,      \* stack of [term, next_child]
  processed,      \* rewritten terms
  substitutions,  \* rewritten term -> the term in its place, where they differ
  pc              \* "rewrite" or "done"

callVars == <<body, subst_map>>

vars == <<table, callVars, toProcess, processed, substitutions, pc>>

Top == Last(toProcess)

Children == get_args(table, Top.term)

mk_term(T, kind, args) ==
  CASE kind = "geq"     -> mk_arithmetic_geq(T, args[1], zero_term)
    [] kind = "eq"      -> mk_arithmetic_eq(T, args[1], zero_term)
    [] kind = "bineq"   -> mk_arithmetic_eq(T, args[1], args[2])
    [] kind = "or"      -> mk_or(T, args)
    [] kind = "product" -> mk_arithmetic_times(T, args[1], args[2])
    [] kind = "poly"    -> mk_arithmetic_plus(T, args)
    [] kind = "ite"     -> mk_arithmetic_ite(T, args[1], args[2], args[3])

\* VarSubstituteConfig::rewrite
Replaced(t) ==
  IF ~is_negated(t) /\ get_kind(table, t) = "uninterpreted" /\ t \in DOMAIN subst_map
    THEN subst_map[t] ELSE t

InPlaceOf(t) == IF t \in DOMAIN substitutions THEN substitutions[t] ELSE t

-----------------------------------------------------------------------------
\* The child is visited if it has been processed already.
NextChild ==
  /\ toProcess # << >>
  /\ Top.next_child <= Len(Children)
  /\ LET child == Children[Top.next_child]
         counted == Append(Front(toProcess), [Top EXCEPT !.next_child = @ + 1])
     IN toProcess' = IF child \in processed
                       THEN Append(counted, [term |-> child, next_child |-> 1]) ELSE counted
  /\ UNCHANGED <<table, callVars, processed, substitutions, pc>>

Rewrite ==
  /\ toProcess # << >>
  /\ Top.next_child > Len(Children)
  /\ LET needs_change == \E child \in ToSet(Children) : child \in DOMAIN substitutions
         new == IF needs_change
                  THEN mk_term(table, get_kind(table, Top.term), [k \in DOMAIN Children |-> InPlaceOf(Children[k])])
                  ELSE Kept(table, Top.term)
         rewritten == Replaced(new.term)
     IN /\ table' = new.tab
        /\ substitutions' = IF rewritten # new.term \/ needs_change
                              THEN (Top.term :> rewritten) @@ substitutions ELSE substitutions
  /\ processed' = processed \cup {Top.term}
  /\ toProcess' = Front(toProcess)
  /\ UNCHANGED <<callVars, pc>>

Return ==
  /\ pc = "rewrite"
  /\ toProcess = << >>
  /\ pc' = "done"
  /\ UNCHANGED <<table, callVars, toProcess, processed, substitutions>>

Init ==
  /\ \E c \in Calls : table = c.table /\ body = c.body /\ subst_map = c.subst_map
  /\ toProcess = <<[term |-> body, next_child |-> 1]>>
  /\ processed = {}
  /\ substitutions = << >>
  /\ pc = "rewrite"

Next == NextChild \/ Rewrite \/ Return

Spec == Init /\ [][Next]_vars

-----------------------------------------------------------------------------
\* "If we are here, we have already processed all children" (Rewriter::rewrite):
\* when a term is rewritten, the parameters in its arguments have been replaced.
ChildrenProcessed ==
  toProcess # << >> /\ Top.next_child > Len(Children) => ToSet(Children) \subseteq processed
=============================================================================
