----------------------------- MODULE MCMediation -----------------------------
(* Instances of Mediation for TLC: the paths of a payment.                 *)
EXTENDS Mediation

CONSTANTS A, B, C, T

(* A - B - T *)
Line == [n \in {A, B, T} |-> CASE n = A -> <<B>> [] n = B -> <<T>> [] n = T -> <<>>]

(* A - B - T, and B prefers C, which leads nowhere and refunds.            *)
DeadEnd ==
  [n \in {A, B, C, T} |->
     CASE n = A -> <<B>> [] n = B -> <<C, T>> [] n = C -> <<>> [] n = T -> <<>>]
=============================================================================
