------------------------------- MODULE Orders -------------------------------
(***************************************************************************)
(* std::sort, as the orders of the code need it: they compare down to an   *)
(* index, so that no two members of a range are equivalent.                *)
(***************************************************************************)
EXTENDS Integers, SequencesExt

\* The place of a member is the number of those that precede it.  Where the
\* comparison is no strict order the result is undefined; then it is some
\* arrangement of the range.
SortedBy(S, precedes) ==
  LET n == Cardinality(S)
      place == [x \in S |-> 1 + Cardinality({y \in S : <<y, x>> \in precedes})]
  IN  IF Range(place) = 1 .. n THEN [k \in 1 .. n |-> CHOOSE x \in S : place[x] = k]
      ELSE SetToSeq(S)

\* The members of a set of numbers, from the least to the greatest.
Ascending(S) == SortedBy(S, {pair \in S \X S : pair[1] < pair[2]})

\* The elements of a sequence at some of its places, in their order.
ElementsAt(seq, places) ==
  LET order == Ascending(places)
  IN  [k \in DOMAIN order |-> seq[order[k]]]
=============================================================================
