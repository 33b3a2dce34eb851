------------------------------ MODULE Selection -----------------------------
(***************************************************************************)
(* What Vec::retain and Iterator::filter keep of a sequence, as a function *)
(* of the places that are kept.                                            *)
(***************************************************************************)
EXTENDS Naturals, Sequences, FiniteSets

\* The k-th smallest number of I.
NthOf(I, k) == CHOOSE i \in I : Cardinality({j \in I : j <= i}) = k

\* The elements of s at the places in I, in their order.
Kept(s, I) == [k \in 1..Cardinality(I) |-> s[NthOf(I, k)]]
=============================================================================
