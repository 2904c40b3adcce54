---------------------------- MODULE ChannelState ----------------------------
(***************************************************************************)
(* The state one node keeps for one participant of a payment channel (the  *)
(* class NettingChannelEndState of raiden/transfer/state.py) and the pure  *)
(* functions of raiden/transfer/channel.py over it: balances, the pending  *)
(* locks, the balance proofs and the checks a received balance proof has   *)
(* to pass.                                                                *)
(*                                                                         *)
(* Abstractions.  A lock is a member of the finite set Locks; its lockhash *)
(* is the lock itself.  A merkle tree is the set of its leaves and its     *)
(* root is that set: compute_layers sorts the leaves and refuses           *)
(* duplicates, and keccak is taken to be injective.  A signature is the    *)
(* "from" field of a message.  A missing balance proof has nonce 0, which  *)
(* get_next_nonce keeps free for that purpose.                             *)
(***************************************************************************)
EXTENDS Integers, FiniteSets

CONSTANTS
  Locks,                     \* locks callers may create: records with the
                             \* fields secrethash, amount and expiration
  UINT256_MAX,               \* largest value the contracts can represent
  MAXIMUM_PENDING_TRANSFERS, \* largest number of leaves of a merkle tree
  DEFAULT_NUMBER_OF_BLOCK_CONFIRMATIONS

Secrethashes == {l.secrethash : l \in Locks}

ASSUME LocksAssumption ==
  /\ IsFiniteSet(Locks)
  /\ \A l \in Locks : l.amount \in Nat \ {0} /\ l.expiration \in Nat

ASSUME LimitsAssumption ==
  /\ UINT256_MAX \in Nat
  /\ MAXIMUM_PENDING_TRANSFERS \in Nat
  /\ DEFAULT_NUMBER_OF_BLOCK_CONFIRMATIONS \in Nat \ {0}

(***************************************************************************)
(* The sum of the amounts of a set of locks.                               *)
(***************************************************************************)
AmountOf[S \in SUBSET Locks] ==
  IF S = {} THEN 0
            ELSE LET l == CHOOSE x \in S : TRUE IN l.amount + AmountOf[S \ {l}]

BalanceProof ==
  [nonce : Nat, transferred_amount : Nat, locked_amount : Nat,
   locksroot : SUBSET Locks]

EndState ==
  [contract_balance : Nat, balance_proof : BalanceProof,
   merkletree : SUBSET Locks, lockedlocks : SUBSET Locks,
   unlockedlocks : SUBSET Locks, onchain_unlockedlocks : SUBSET Locks]

NoBalanceProof ==
  [nonce |-> 0, transferred_amount |-> 0, locked_amount |-> 0, locksroot |-> {}]

NewEndState(contract_balance) ==
  [contract_balance |-> contract_balance, balance_proof |-> NoBalanceProof,
   merkletree |-> {}, lockedlocks |-> {}, unlockedlocks |-> {},
   onchain_unlockedlocks |-> {}]

-----------------------------------------------------------------------------
(* Pending locks.  The three dictionaries keyed by secrethash are sets of  *)
(* locks; Keyed(d, s) is the entry of dictionary d for secrethash s.       *)

Keyed(d, secrethash) == {l \in d : l.secrethash = secrethash}

Without(d, secrethash) == {l \in d : l.secrethash # secrethash}

pending_locks(end) ==
  end.lockedlocks \cup end.unlockedlocks \cup end.onchain_unlockedlocks

is_lock_pending(end, secrethash) == Keyed(pending_locks(end), secrethash) # {}

is_secret_known(end, secrethash) ==
  Keyed(end.unlockedlocks \cup end.onchain_unlockedlocks, secrethash) # {}

(* The lock get_lock returns, as a set that is empty when it returns None. *)
get_lock(end, secrethash) ==
  IF Keyed(end.lockedlocks, secrethash) # {}
  THEN Keyed(end.lockedlocks, secrethash)
  ELSE IF Keyed(end.unlockedlocks, secrethash) # {}
       THEN Keyed(end.unlockedlocks, secrethash)
       ELSE Keyed(end.onchain_unlockedlocks, secrethash)

get_sender_expiration_threshold(lock) ==
  lock.expiration + 2 * DEFAULT_NUMBER_OF_BLOCK_CONFIRMATIONS

(* Fault: the receiver waits longer than the sender.                       *)
Fault_get_receiver_expiration_threshold(lock) ==
  lock.expiration + 3 * DEFAULT_NUMBER_OF_BLOCK_CONFIRMATIONS

get_receiver_expiration_threshold(lock) ==
  lock.expiration + DEFAULT_NUMBER_OF_BLOCK_CONFIRMATIONS

is_lock_expired(end, lock, block_number, threshold) ==
  /\ Keyed(end.onchain_unlockedlocks, lock.secrethash) = {}
  /\ block_number >= threshold

is_transaction_confirmed(transaction_block, block_number) ==
  block_number > transaction_block + DEFAULT_NUMBER_OF_BLOCK_CONFIRMATIONS

(* A well-formed end state: each leaf of the merkle tree is in exactly one *)
(* dictionary, no two of them under the same secrethash, and the balance   *)
(* proof has the root and the sum of the leaves.                           *)
Coherent(end) ==
  /\ end.merkletree = pending_locks(end)
  /\ end.lockedlocks \cap end.unlockedlocks = {}
  /\ end.lockedlocks \cap end.onchain_unlockedlocks = {}
  /\ end.unlockedlocks \cap end.onchain_unlockedlocks = {}
  /\ \A k, l \in end.merkletree : k.secrethash = l.secrethash => k = l
  /\ end.balance_proof.locksroot = end.merkletree
  /\ end.balance_proof.locked_amount = AmountOf[end.merkletree]

-----------------------------------------------------------------------------
(* Balances.                                                               *)

get_amount_locked(end) ==
  AmountOf[end.lockedlocks] + AmountOf[end.unlockedlocks]
    + AmountOf[end.onchain_unlockedlocks]

get_balance(sender, receiver) ==
  sender.contract_balance - sender.balance_proof.transferred_amount
    + receiver.balance_proof.transferred_amount

get_next_nonce(end) == end.balance_proof.nonce + 1

Smaller(a, b) == IF a <= b THEN a ELSE b

(* Fault: a lock that is still pending is counted as received.             *)
Fault_get_distributable(sender, receiver) ==
  Smaller(UINT256_MAX, get_balance(sender, receiver) + get_amount_locked(receiver)
                         - get_amount_locked(sender))

get_distributable(sender, receiver) ==
  LET committed == sender.balance_proof.transferred_amount + get_amount_locked(sender)
      overflow_limit == IF committed <= UINT256_MAX THEN UINT256_MAX - committed ELSE 0
  IN  Smaller(overflow_limit, get_balance(sender, receiver) - get_amount_locked(sender))

update_contract_balance(end, contract_balance) ==
  IF contract_balance > end.contract_balance
  THEN [end EXCEPT !.contract_balance = contract_balance]
  ELSE end

-----------------------------------------------------------------------------
(* What a new balance proof of `end` contains when it adds, claims or      *)
(* drops a lock (create_sendlockedtransfer, create_unlock,                 *)
(* create_sendexpiredlock).                                                *)

balance_proof_with(end, lock) ==
  [nonce |-> get_next_nonce(end),
   transferred_amount |-> end.balance_proof.transferred_amount,
   locked_amount |-> get_amount_locked(end) + lock.amount,
   locksroot |-> end.merkletree \cup {lock}]

(* Fault: a claim is signed with the nonce of the previous balance proof.  *)
Fault_nonce_balance_proof_claiming(end, lock) ==
  [nonce |-> end.balance_proof.nonce,
   transferred_amount |-> end.balance_proof.transferred_amount + lock.amount,
   locked_amount |-> get_amount_locked(end) - lock.amount,
   locksroot |-> end.merkletree \ {lock}]

(* Fault: the amount is subtracted from a sum that no longer has the lock. *)
Fault_amount_balance_proof_claiming(end, lock) ==
  [nonce |-> get_next_nonce(end),
   transferred_amount |-> end.balance_proof.transferred_amount + lock.amount,
   locked_amount |-> get_amount_locked(end) - 2 * lock.amount,
   locksroot |-> end.merkletree \ {lock}]

balance_proof_claiming(end, lock) ==
  [nonce |-> get_next_nonce(end),
   transferred_amount |-> end.balance_proof.transferred_amount + lock.amount,
   locked_amount |-> get_amount_locked(end) - lock.amount,
   locksroot |-> end.merkletree \ {lock}]

balance_proof_without(end, lock) ==
  [nonce |-> get_next_nonce(end),
   transferred_amount |-> end.balance_proof.transferred_amount,
   locked_amount |-> get_amount_locked(end) - lock.amount,
   locksroot |-> end.merkletree \ {lock}]

(* The updates of an end state once a balance proof is sent or accepted.   *)

add_lock(end, balance_proof, lock) ==
  [end EXCEPT !.balance_proof = balance_proof,
              !.merkletree = @ \cup {lock},
              !.lockedlocks = Without(@, lock.secrethash) \cup {lock}]

(* A claimed lock leaves every dictionary (_del_lock).                     *)
claim_lock(end, balance_proof, lock) ==
  [end EXCEPT !.balance_proof = balance_proof,
              !.merkletree = @ \ {lock},
              !.lockedlocks = Without(@, lock.secrethash),
              !.unlockedlocks = Without(@, lock.secrethash),
              !.onchain_unlockedlocks = Without(@, lock.secrethash)]

(* Fault: only a lock whose secret is unknown is deleted.                  *)
Fault_drop_lock(end, balance_proof, lock) ==
  [end EXCEPT !.balance_proof = balance_proof,
              !.merkletree = @ \ {lock},
              !.lockedlocks = Without(@, lock.secrethash)]

(* Fault: an expired lock takes those registered on chain with it.         *)
Fault_cleared_drop_lock(end, balance_proof, lock) ==
  [end EXCEPT !.balance_proof = balance_proof,
              !.merkletree = @ \ {lock},
              !.lockedlocks = Without(@, lock.secrethash),
              !.unlockedlocks = Without(@, lock.secrethash),
              !.onchain_unlockedlocks = {}]

(* An expired lock leaves the two off-chain ones (_del_unclaimed_lock).    *)
drop_lock(end, balance_proof, lock) ==
  [end EXCEPT !.balance_proof = balance_proof,
              !.merkletree = @ \ {lock},
              !.lockedlocks = Without(@, lock.secrethash),
              !.unlockedlocks = Without(@, lock.secrethash)]

-----------------------------------------------------------------------------
(* Secrets.                                                                *)

register_secret_endstate(end, secrethash) ==
  [end EXCEPT !.lockedlocks = Without(@, secrethash),
              !.unlockedlocks = IF Keyed(end.lockedlocks, secrethash) = {}
                                THEN @
                                ELSE Without(@, secrethash)
                                       \cup Keyed(end.lockedlocks, secrethash)]

(* Fault: a registration in the block of the expiration is ignored.        *)
Fault_register_onchain_secret_endstate(end, secrethash, secret_reveal_block_number) ==
  LET pending == Keyed(end.unlockedlocks \cup end.lockedlocks, secrethash)
      in_time == {l \in pending : l.expiration > secret_reveal_block_number}
  IN  IF in_time = {}
      THEN end
      ELSE [end EXCEPT !.lockedlocks = Without(@, secrethash),
                       !.unlockedlocks = Without(@, secrethash),
                       !.onchain_unlockedlocks = Without(@, secrethash) \cup in_time]

(* The unlocked entry wins over the locked one, and a registration mined   *)
(* after the lock expired is ignored.                                      *)
register_onchain_secret_endstate(end, secrethash, secret_reveal_block_number) ==
  LET pending == IF Keyed(end.unlockedlocks, secrethash) # {}
                 THEN Keyed(end.unlockedlocks, secrethash)
                 ELSE Keyed(end.lockedlocks, secrethash)
      in_time == {l \in pending : l.expiration >= secret_reveal_block_number}
  IN  IF in_time = {}
      THEN end
      ELSE [end EXCEPT !.lockedlocks = Without(@, secrethash),
                       !.unlockedlocks = Without(@, secrethash),
                       !.onchain_unlockedlocks = Without(@, secrethash) \cup in_time]

-----------------------------------------------------------------------------
(* The checks of a received balance proof.  `sender` is the receiver's     *)
(* view of the sender (partner_state), `receiver` its own end (our_state). *)

is_balance_proof_usable_onchain(balance_proof, sender) ==
  /\ balance_proof.transferred_amount + balance_proof.locked_amount <= UINT256_MAX
  /\ balance_proof.nonce = get_next_nonce(sender)

valid_lockedtransfer_check(sender, receiver, balance_proof, lock) ==
  /\ is_balance_proof_usable_onchain(balance_proof, sender)
  /\ lock \notin sender.merkletree
  /\ Cardinality(sender.merkletree \cup {lock}) <= MAXIMUM_PENDING_TRANSFERS
  /\ balance_proof.locksroot = sender.merkletree \cup {lock}
  /\ balance_proof.transferred_amount = sender.balance_proof.transferred_amount
  /\ balance_proof.locked_amount = get_amount_locked(sender) + lock.amount
  /\ lock.amount <= get_distributable(sender, receiver)

is_valid_unlock(sender, balance_proof, secrethash) ==
  \E lock \in get_lock(sender, secrethash) :
    /\ lock \in sender.merkletree
    /\ is_balance_proof_usable_onchain(balance_proof, sender)
    /\ balance_proof.locksroot = sender.merkletree \ {lock}
    /\ balance_proof.transferred_amount =
         sender.balance_proof.transferred_amount + lock.amount
    /\ balance_proof.locked_amount = get_amount_locked(sender) - lock.amount

is_valid_lock_expired(sender, receiver, balance_proof, secrethash, block_number) ==
  /\ Keyed(sender.onchain_unlockedlocks, secrethash) = {}
  /\ \E lock \in get_lock(sender, secrethash) :
       /\ is_balance_proof_usable_onchain(balance_proof, sender)
       /\ lock \in sender.merkletree
       /\ is_lock_expired(receiver, lock, block_number,
                          get_receiver_expiration_threshold(lock))
       /\ balance_proof.locksroot = sender.merkletree \ {lock}
       /\ balance_proof.transferred_amount = sender.balance_proof.transferred_amount
       /\ balance_proof.locked_amount = get_amount_locked(sender) - lock.amount
=============================================================================
