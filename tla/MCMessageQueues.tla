--------------------------- MODULE MCMessageQueues ---------------------------
(* Instances of MessageQueues for TLC.                                     *)
EXTENDS MessageQueues

(* A sends, B only answers.                                                *)
TwoAndNone == [n \in {A, B} |-> IF n = A THEN 2 ELSE 0]
OneAndNone == [n \in {A, B} |-> IF n = A THEN 1 ELSE 0]
None       == [n \in {A, B} |-> 0]
=============================================================================
