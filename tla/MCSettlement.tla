---------------------------- MODULE MCSettlement ----------------------------
EXTENDS Settlement

NoLocks == {}

(* The first proof of A has a lock, the second one has paid it. *)
FirstProofLocked == {<<A, 1>>}
=============================================================================
