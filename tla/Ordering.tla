------------------------------ MODULE Ordering ------------------------------
(***************************************************************************)
(* Python's sorted(): the elements of a finite set from the first to the   *)
(* last.  Rows that compare equal are told apart by their place, as a      *)
(* stable sort does; the place is the last component of a row.             *)
(***************************************************************************)
EXTENDS Integers, FiniteSets

\* The i-th element has i - 1 elements before it in R, a total order of S.
Ranked(S, R) == [i \in 1 .. Cardinality(S) |-> CHOOSE x \in S : Cardinality({y \in S : <<y, x>> \in R}) = i - 1]

\* Numbers, and rows of three numbers in lexicographic order.
Less(S) == {p \in S \X S : p[1] < p[2]}
Precedes(a, b) == a[1] < b[1] \/ (a[1] = b[1] /\ (a[2] < b[2] \/ (a[2] = b[2] /\ a[3] < b[3])))
Earlier(S) == {p \in S \X S : Precedes(p[1], p[2])}
=============================================================================
