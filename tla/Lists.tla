------------------------------- MODULE Lists -------------------------------
(***************************************************************************)
(* What the library calls on lists in the source compute (std::remove_if,  *)
(* std::erase_if, std::sort), by definitions that proofs can use.          *)
(***************************************************************************)
EXTENDS Naturals, Sequences, FiniteSets, Functions

\* std::remove_if: the elements of s at the positions in keep, in their order.
Chosen(s, keep) ==
  LET chosen[n \in 0..Len(s)] ==
        IF n = 0 THEN << >>
        ELSE IF n \in keep THEN Append(chosen[n - 1], s[n]) ELSE chosen[n - 1]
  IN chosen[Len(s)]

\* std::sort: the lists of the elements of S with nothing behind what it
\* comes before.  The order of elements that compare equal is left open.
SortedBy(S, Before(_, _)) ==
  {s \in Bijection(1..Cardinality(S), S) :
     \A i, j \in DOMAIN s : i < j => ~Before(s[j], s[i])}

\* The elements of a finite set that is strictly ordered by a set of pairs, by
\* the number of elements before each.  (As a tuple: TLC evaluates the elements
\* of a function anew wherever it is applied.)
Ranked(S, order) ==
  SubSeq([k \in 1..Cardinality(S) |->
            CHOOSE x \in S : Cardinality({y \in S : <<y, x>> \in order}) = k - 1],
         1, Cardinality(S))

\* std::sort where no two elements compare equal.
SortedList(S, Before(_, _)) ==
  LET order == {pair \in S \X S : Before(pair[1], pair[2])} IN Ranked(S, order)
=============================================================================
