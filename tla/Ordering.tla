------------------------------- MODULE Ordering -------------------------------
(***************************************************************************)
(* Rows in order: what sort_by and ORDER BY return of a set whose elements *)
(* are all told apart. SetToSortSeq returns the same; it rests on SortSeq, *)
(* of which the provers know nothing.                                      *)
(***************************************************************************)
EXTENDS Naturals, FiniteSets

\* Each element comes after those that are ahead of it.
InOrder(S, ahead(_, _)) ==
  [i \in 1..Cardinality(S) |-> CHOOSE a \in S : Cardinality({b \in S : ahead(b, a)}) = i - 1]
=============================================================================
