------------------------------- MODULE Ordered -------------------------------
(***************************************************************************)
(* Sequences in the order of their positions, as definitions that proofs   *)
(* can take apart: the library's SelectSeq and SetToSortSeq cannot be.     *)
(***************************************************************************)
EXTENDS Integers, FiniteSets

(* The members of a finite set of integers, from the least.                 *)
InOrder(S) ==
  [n \in 1 .. Cardinality(S) |-> CHOOSE x \in S : Cardinality({y \in S : y < x}) = n - 1]

(* What a sequence has at some of its positions.                            *)
Picked(s, positions) ==
  LET at == InOrder(positions) IN [n \in DOMAIN at |-> s[at[n]]]
=============================================================================
