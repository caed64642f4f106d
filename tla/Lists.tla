------------------------------- MODULE Lists --------------------------------
(***************************************************************************)
(* What append-in-a-loop, sort.Slice and a filter leave behind, stated by  *)
(* the place of each element: the k-th is the one k - 1 others precede.    *)
(* SelectSeq, SortSeq and what the community modules build from them have  *)
(* no definition the provers can use.                                      *)
(***************************************************************************)
EXTENDS Integers, Sequences, FiniteSets

Ahead(S, R, i) == {j \in S : <<j, i>> \in R}

\* The elements of S, smallest first; R is a strict total order on S.
Ranked(S, R) ==
  [k \in 1..Cardinality(S) |-> CHOOSE i \in S : Cardinality(Ahead(S, R, i)) = k - 1]

Ascending(S) == {p \in S \X S : p[1] < p[2]}

\* The elements of a set of numbers in ascending order.
InOrder(S) == Ranked(S, Ascending(S))

\* The entries of s at the positions S, in the order they stand in.
Filtered(s, S) == LET at == InOrder(S) IN [k \in DOMAIN at |-> s[at[k]]]

=============================================================================
