----------------------------- MODULE Positions -----------------------------
(***************************************************************************)
(* Places in a sequence, in their order, and what stands at them: what     *)
(* SetToSortSeq and SelectSeq give, by definitions that can be reasoned    *)
(* about (the prover knows nothing of SortSeq and SelectSeq).              *)
(***************************************************************************)
EXTENDS Integers, FiniteSets

\* The members of a finite set of integers, the least one first.
Ascending(S) ==
  [k \in 1..Cardinality(S) |-> CHOOSE i \in S : Cardinality({j \in S : j < i}) = k - 1]

\* The elements of s at the places in S.
Selected(s, S) == LET order == Ascending(S) IN [k \in DOMAIN order |-> s[order[k]]]

=============================================================================
