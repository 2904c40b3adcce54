------------------------------ MODULE MCChannel ------------------------------
(* Instances of Channel for TLC.                                           *)
EXTENDS Channel

CONSTANTS s1, s2

MCLock(s, amount, expiration) ==
  [secrethash |-> s, amount |-> amount, expiration |-> expiration]

(* A payment that can expire, and one under the same secret that lives long *)
(* enough to spend a confirmed deposit.                                     *)
EarlyAndLate == {MCLock(s1, 1, 1), MCLock(s1, 2, 4)}

(* Two payments in flight at the same time, of which the first can expire  *)
(* while the second is registered.                                         *)
TwoLocks == {MCLock(s1, 1, 1), MCLock(s2, 2, 2)}

Deposit30 == [n \in {Alice, Bob} |-> IF n = Alice THEN 3 ELSE 0]

Deposit10 == [n \in {Alice, Bob} |-> IF n = Alice THEN 1 ELSE 0]
=============================================================================
