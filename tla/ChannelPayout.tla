---------------------------- MODULE ChannelPayout ----------------------------
(***************************************************************************)
(* What closing a channel promises its two participants: a node accepts    *)
(* balance proofs until it gives up the channel, and the settlement pays   *)
(* each of them by the last proof it accepted.                             *)
(***************************************************************************)
EXTENDS Integers

CONSTANT Participants

VARIABLES
  claims,   \* nonce of the last balance proof a participant accepted
  frozen,   \* participants that accept no more
  payout    \* the nonces the settlement paid by, NotPaid before

vars == <<claims, frozen, payout>>

NotPaid == [n \in Participants |-> -1]

Init ==
  /\ claims = [n \in Participants |-> 0]
  /\ frozen = {}
  /\ payout = NotPaid

Accept(n) ==
  /\ n \notin frozen
  /\ claims' = [claims EXCEPT ![n] = @ + 1]
  /\ UNCHANGED <<frozen, payout>>

Freeze(n) ==
  /\ frozen' = frozen \cup {n}
  /\ UNCHANGED <<claims, payout>>

Pay ==
  /\ frozen = Participants
  /\ payout = NotPaid
  /\ payout' = claims
  /\ UNCHANGED <<claims, frozen>>

Next == (\E n \in Participants : Accept(n) \/ Freeze(n)) \/ Pay

Spec == Init /\ [][Next]_vars
=============================================================================
