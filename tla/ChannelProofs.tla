---------------------------- MODULE ChannelProofs ----------------------------
(***************************************************************************)
(* Proofs about Channel, for any locks, deposits, bounds and number of     *)
(* confirmations.                                                          *)
(***************************************************************************)
EXTENDS Channel, ChannelStateProofs

LEMMA PartnerType ==
  ASSUME NEW n \in Nodes
  PROVE  Partner(n) \in Nodes /\ Partner(n) # n /\ Partner(Partner(n)) = n
BY ParticipantsAssumption DEF Nodes, Partner

(* Balance proofs never commit to two locks with the same secrethash.      *)
MessagesDistinct ==
  \A msg \in msgs : Distinct(msg.balance_proof.locksroot)

(* The first inductive invariant: types and well-formed end states.        *)
WellFormed == TypeOK /\ LocksCoherent /\ MessagesDistinct

LEMMA InitWellFormed == Init => WellFormed
<1> SUFFICES ASSUME Init
             PROVE  WellFormed
  OBVIOUS
<1>1. AmountOf[{}] = 0
  BY AmountEquation DEF Equation
<1>2. \A b \in Nat : NewEndState(b) \in EndState /\ Coherent(NewEndState(b))
  BY <1>1 DEF NewEndState, NoBalanceProof, EndState, BalanceProof, Coherent, pending_locks
<1>3. \A n \in Nodes : InitialDeposit[n] \in Nat /\ InitialDeposit[Partner(n)] \in Nat
  BY DepositsAssumption, PartnerType
<1>4. TypeOK
  BY <1>2, <1>3, LimitsAssumption DEF Init, TypeOK
<1>5. LocksCoherent
  BY <1>2, <1>3 DEF Init, LocksCoherent
<1>6. MessagesDistinct
  BY DEF Init, MessagesDistinct
<1> QED
  BY <1>4, <1>5, <1>6 DEF WellFormed

-----------------------------------------------------------------------------
(* What a node sends is a balance proof, and it updates its own end to a   *)
(* well-formed one.                                                        *)

LEMMA SendLockLemma ==
  ASSUME WellFormed, NEW n \in Nodes, NEW lock \in Locks, CanSendLock(n, lock)
  PROVE  LET end == our_state[n]
             bp  == balance_proof_with(end, lock)
         IN  /\ end \in EndState /\ Coherent(end)
             /\ lock \notin end.merkletree
             /\ bp \in BalanceProof
             /\ Distinct(bp.locksroot)
             /\ add_lock(end, bp, lock) \in EndState
             /\ Coherent(add_lock(end, bp, lock))
<1> DEFINE end == our_state[n]
           bp  == balance_proof_with(end, lock)
<1>1. end \in EndState /\ Coherent(end)
  BY DEF WellFormed, TypeOK, LocksCoherent
<1>2. \A l \in end.merkletree : l.secrethash # lock.secrethash
  BY <1>1 DEF CanSendLock, is_lock_pending, Keyed, Coherent
<1>3. get_amount_locked(end) \in Nat
  BY <1>1, AmountLocked
<1>4. lock.amount \in Nat
  BY LocksAssumption
<1>5. bp \in BalanceProof
  BY <1>1, <1>3, <1>4 DEF balance_proof_with, get_next_nonce, BalanceProof, EndState
<1>6. /\ bp.locksroot = end.merkletree \cup {lock}
      /\ bp.locked_amount = get_amount_locked(end) + lock.amount
  BY DEF balance_proof_with
<1> HIDE DEF bp, end
<1>7. Distinct(end.merkletree \cup {lock})
  BY <1>1, <1>2 DEF Distinct, Coherent
<1>8. add_lock(end, bp, lock) \in EndState /\ Coherent(add_lock(end, bp, lock))
  BY <1>1, <1>2, <1>5, <1>6, <1>7, AddLockCoherent
<1> QED
  BY <1>1, <1>2, <1>5, <1>6, <1>7, <1>8 DEF bp, end

(* The lock get_lock finds is a leaf.                                      *)
LEMMA GetLockInTree ==
  ASSUME NEW end \in EndState, Coherent(end), NEW s, NEW lock \in get_lock(end, s)
  PROVE  lock \in end.merkletree /\ lock.secrethash = s
BY DEF get_lock, Keyed, Coherent, pending_locks

LEMMA SendUnlockLemma ==
  ASSUME WellFormed, NEW n \in Nodes, NEW lock \in our_state[n].merkletree
  PROVE  LET end == our_state[n]
             bp  == balance_proof_claiming(end, lock)
         IN  /\ bp \in BalanceProof
             /\ Distinct(bp.locksroot)
             /\ claim_lock(end, bp, lock) \in EndState
             /\ Coherent(claim_lock(end, bp, lock))
<1> DEFINE end == our_state[n]
           bp  == balance_proof_claiming(end, lock)
<1>1. end \in EndState /\ Coherent(end)
  BY DEF WellFormed, TypeOK, LocksCoherent
<1>3. get_amount_locked(end) - lock.amount \in Nat
  BY <1>1, AmountLeft
<1>4. lock.amount \in Nat
  BY <1>1, AmountLeft
<1>5. bp \in BalanceProof
  BY <1>1, <1>3, <1>4 DEF balance_proof_claiming, get_next_nonce, BalanceProof, EndState
<1>6. /\ bp.locksroot = end.merkletree \ {lock}
      /\ bp.locked_amount = get_amount_locked(end) - lock.amount
  BY DEF balance_proof_claiming
<1> HIDE DEF bp
<1>7. Distinct(bp.locksroot)
  BY <1>1, <1>6 DEF Distinct, Coherent
<1>8. claim_lock(end, bp, lock) \in EndState /\ Coherent(claim_lock(end, bp, lock))
  BY <1>1, <1>5, <1>6, ClaimLockCoherent
<1> QED
  BY <1>5, <1>7, <1>8 DEF bp

LEMMA SendExpiredLemma ==
  ASSUME WellFormed, NEW n \in Nodes,
         NEW lock \in our_state[n].lockedlocks \cup our_state[n].unlockedlocks
  PROVE  LET end == our_state[n]
             bp  == balance_proof_without(end, lock)
         IN  /\ bp \in BalanceProof
             /\ Distinct(bp.locksroot)
             /\ drop_lock(end, bp, lock) \in EndState
             /\ Coherent(drop_lock(end, bp, lock))
<1> DEFINE end == our_state[n]
           bp  == balance_proof_without(end, lock)
<1>1. end \in EndState /\ Coherent(end)
  BY DEF WellFormed, TypeOK, LocksCoherent
<1>2. end.merkletree \in SUBSET Locks /\ lock \in end.merkletree
  BY <1>1 DEF EndState, Coherent, pending_locks
<1>3. get_amount_locked(end) - lock.amount \in Nat
  BY <1>1, <1>2, AmountLeft
<1>5. bp \in BalanceProof
  BY <1>1, <1>3 DEF balance_proof_without, get_next_nonce, BalanceProof, EndState
<1>6. /\ bp.locksroot = end.merkletree \ {lock}
      /\ bp.locked_amount = get_amount_locked(end) - lock.amount
  BY DEF balance_proof_without
<1> HIDE DEF bp
<1>7. Distinct(bp.locksroot)
  BY <1>1, <1>6 DEF Distinct, Coherent
<1>8. drop_lock(end, bp, lock) \in EndState /\ Coherent(drop_lock(end, bp, lock))
  BY <1>1, <1>5, <1>6, DropLockCoherent
<1> QED
  BY <1>5, <1>7, <1>8 DEF bp

(* A received balance proof that passes its check updates the view of the  *)
(* partner to a well-formed one.                                           *)

LEMMA ReceiveLockLemma ==
  ASSUME WellFormed, NEW n \in Nodes, NEW msg \in msgs,
         valid_lockedtransfer_check(partner_state[n], our_state[n],
                                    msg.balance_proof, msg.lock)
  PROVE  LET new == add_lock(partner_state[n], msg.balance_proof, msg.lock)
         IN  new \in EndState /\ Coherent(new)
<1>1. partner_state[n] \in EndState /\ Coherent(partner_state[n])
  BY DEF WellFormed, TypeOK, LocksCoherent
<1>2. msg.balance_proof \in BalanceProof /\ msg.lock \in Locks
  BY DEF WellFormed, TypeOK, Message
<1>3. Distinct(partner_state[n].merkletree \cup {msg.lock})
  BY DEF WellFormed, MessagesDistinct, valid_lockedtransfer_check
<1> QED
  BY <1>1, <1>2, <1>3, AddLockCoherent DEF valid_lockedtransfer_check

LEMMA ReceiveUnlockLemma ==
  ASSUME WellFormed, NEW n \in Nodes, NEW msg \in msgs,
         NEW lock \in get_lock(partner_state[n], msg.lock.secrethash),
         is_valid_unlock(partner_state[n], msg.balance_proof, msg.lock.secrethash)
  PROVE  LET new == claim_lock(partner_state[n], msg.balance_proof, lock)
         IN  new \in EndState /\ Coherent(new)
<1> DEFINE end == partner_state[n]
           s == msg.lock.secrethash
<1>1. end \in EndState /\ Coherent(end)
  BY DEF WellFormed, TypeOK, LocksCoherent
<1>2. msg.balance_proof \in BalanceProof
  BY DEF WellFormed, TypeOK, Message
<1>3. PICK k \in get_lock(end, s) :
        /\ msg.balance_proof.locksroot = end.merkletree \ {k}
        /\ msg.balance_proof.locked_amount = get_amount_locked(end) - k.amount
  BY DEF is_valid_unlock
<1>4. k = lock /\ lock \in end.merkletree
  BY <1>1, GetLockInTree DEF Coherent
<1> HIDE DEF end
<1> QED
  BY <1>1, <1>2, <1>3, <1>4, ClaimLockCoherent DEF end

LEMMA ReceiveExpiredLemma ==
  ASSUME WellFormed, NEW n \in Nodes, NEW msg \in msgs,
         NEW lock \in get_lock(partner_state[n], msg.lock.secrethash),
         is_valid_lock_expired(partner_state[n], our_state[n], msg.balance_proof,
                               msg.lock.secrethash, block_number[n])
  PROVE  LET new == drop_lock(partner_state[n], msg.balance_proof, lock)
         IN  new \in EndState /\ Coherent(new)
<1> DEFINE end == partner_state[n]
           s == msg.lock.secrethash
<1>1. end \in EndState /\ Coherent(end)
  BY DEF WellFormed, TypeOK, LocksCoherent
<1>2. msg.balance_proof \in BalanceProof
  BY DEF WellFormed, TypeOK, Message
<1>3. PICK k \in get_lock(end, s) :
        /\ msg.balance_proof.locksroot = end.merkletree \ {k}
        /\ msg.balance_proof.locked_amount = get_amount_locked(end) - k.amount
  BY DEF is_valid_lock_expired
<1>4. k = lock
  BY <1>1, GetLockInTree DEF Coherent
<1>5. lock \in end.lockedlocks \cup end.unlockedlocks
  BY DEF is_valid_lock_expired, get_lock, Keyed
<1> HIDE DEF end
<1> QED
  BY <1>1, <1>2, <1>3, <1>4, <1>5, DropLockCoherent DEF end

-----------------------------------------------------------------------------
(* Every step preserves the types and the well-formed end states.          *)
LEMMA NextWellFormed == WellFormed /\ [Next]_vars => WellFormed'
<1> SUFFICES ASSUME WellFormed, [Next]_vars
             PROVE  WellFormed'
  OBVIOUS
<1> USE DEF WellFormed
<1>0. ASSUME NEW n \in Nodes, NEW end \in EndState, Coherent(end), NEW type \in
               {"LockedTransfer", "RefundTransfer", "Unlock", "LockExpired"},
             NEW lock \in Locks, NEW bp \in BalanceProof, Distinct(bp.locksroot),
             our_state' = [our_state EXCEPT ![n] = end], Send(n, type, lock, bp),
             UNCHANGED <<partner_state, opened, chainVars, viewVars>>
      PROVE  WellFormed'
  <2>1. TypeOK'
    BY <1>0 DEF TypeOK, Send, Message, chainVars, viewVars
  <2>2. LocksCoherent'
    BY <1>0 DEF TypeOK, LocksCoherent
  <2>3. MessagesDistinct'
    BY <1>0 DEF MessagesDistinct, Send
  <2> QED
    BY <2>1, <2>2, <2>3
<1>1. ASSUME NEW n \in Nodes, NEW end \in EndState, Coherent(end),
             partner_state' = [partner_state EXCEPT ![n] = end],
             UNCHANGED <<our_state, opened, msgs, chainVars, viewVars>>
      PROVE  WellFormed'
  <2>1. TypeOK'
    BY <1>1 DEF TypeOK, chainVars, viewVars
  <2>2. LocksCoherent'
    BY <1>1 DEF TypeOK, LocksCoherent
  <2>3. MessagesDistinct'
    BY <1>1 DEF MessagesDistinct
  <2> QED
    BY <2>1, <2>2, <2>3
<1>2. ASSUME NEW n \in Nodes, NEW lock \in Locks, SendLockedTransfer(n, lock)
      PROVE  WellFormed'
  BY <1>0, <1>2, SendLockLemma DEF SendLockedTransfer
<1>3. ASSUME NEW n \in Nodes, NEW lock \in Locks, SendRefundTransfer(n, lock)
      PROVE  WellFormed'
  BY <1>0, <1>3, SendLockLemma DEF SendRefundTransfer
<1>4. ASSUME NEW n \in Nodes, NEW lock \in Locks, SendUnlock(n, lock)
      PROVE  WellFormed'
  <2>1. lock \in our_state[n].merkletree
    BY <1>4, GetLockInTree DEF SendUnlock, TypeOK, LocksCoherent
  <2> QED
    BY <1>0, <1>4, <2>1, SendUnlockLemma DEF SendUnlock
<1>5. ASSUME NEW n \in Nodes, NEW lock \in Locks, SendLockExpired(n, lock)
      PROVE  WellFormed'
  BY <1>0, <1>5, SendExpiredLemma DEF SendLockExpired
<1>6. ASSUME NEW n \in Nodes, NEW msg \in msgs, ReceiveLockedTransfer(n, msg)
      PROVE  WellFormed'
  BY <1>1, <1>6, ReceiveLockLemma DEF ReceiveLockedTransfer
<1>7. ASSUME NEW n \in Nodes, NEW msg \in msgs, ReceiveRefundTransfer(n, msg)
      PROVE  WellFormed'
  BY <1>1, <1>7, ReceiveLockLemma DEF ReceiveRefundTransfer
<1>8. ASSUME NEW n \in Nodes, NEW msg \in msgs, ReceiveUnlock(n, msg)
      PROVE  WellFormed'
  BY <1>1, <1>8, ReceiveUnlockLemma DEF ReceiveUnlock
<1>9. ASSUME NEW n \in Nodes, NEW msg \in msgs, ReceiveLockExpired(n, msg)
      PROVE  WellFormed'
  BY <1>1, <1>9, ReceiveExpiredLemma DEF ReceiveLockExpired
<1>10. ASSUME NEW n \in Nodes, NEW s \in Secrethashes, RegisterOffchainSecret(n, s)
       PROVE  WellFormed'
  <2>1. TypeOK'
    BY <1>10, RegisterSecretCoherent
    DEF TypeOK, LocksCoherent, RegisterOffchainSecret, chainVars, viewVars
  <2>2. LocksCoherent'
    BY <1>10, RegisterSecretCoherent DEF TypeOK, LocksCoherent, RegisterOffchainSecret
  <2>3. MessagesDistinct'
    BY <1>10 DEF MessagesDistinct, RegisterOffchainSecret
  <2> QED
    BY <2>1, <2>2, <2>3
<1>11. ASSUME NEW n \in Nodes, NEW s \in Secrethashes, RegisterOnchainSecret(n, s)
       PROVE  WellFormed'
  <2>0. registered[s] \in Nat
    BY DEF TypeOK
  <2>1. TypeOK'
    BY <1>11, <2>0, RegisterOnchainCoherent
    DEF TypeOK, LocksCoherent, RegisterOnchainSecret, chainVars
  <2>2. LocksCoherent'
    BY <1>11, <2>0, RegisterOnchainCoherent DEF TypeOK, LocksCoherent, RegisterOnchainSecret
  <2>3. MessagesDistinct'
    BY <1>11 DEF MessagesDistinct, RegisterOnchainSecret
  <2> QED
    BY <2>1, <2>2, <2>3
<1>12. ASSUME NEW n \in Nodes, NEW ds \in SUBSET deposits, ApplyDeposits(n, ds)
       PROVE  /\ our_state' \in [Nodes -> EndState]
              /\ partner_state' \in [Nodes -> EndState]
              /\ LocksCoherent'
  <2>1. \A end \in EndState, p \in Nodes : Largest(BalancesAfter(end, ds, p)) \subseteq Nat
    BY DEF TypeOK, DepositTransaction, Largest, BalancesAfter, EndState
  <2>2. PICK ours \in Nat, theirs \in Nat :
          /\ our_state' = [our_state EXCEPT ![n] = update_contract_balance(@, ours)]
          /\ partner_state' = [partner_state EXCEPT ![n] = update_contract_balance(@, theirs)]
    BY <1>12, <2>1, PartnerType DEF ApplyDeposits, TypeOK
  <2> QED
    BY <2>2, UpdateBalanceCoherent DEF TypeOK, LocksCoherent
<1>13. ASSUME NEW n \in Nodes, NEW d \in deposits, ReceiveNewBalance(n, d)
       PROVE  WellFormed'
  <2>1. /\ our_state' \in [Nodes -> EndState]
        /\ partner_state' \in [Nodes -> EndState]
        /\ LocksCoherent'
        /\ deposit_queue' \in [Nodes -> SUBSET deposits]
    <3>1. CASE is_transaction_confirmed(d.block, block_number[n])
      BY <1>12, <1>13, <3>1 DEF ReceiveNewBalance, TypeOK
    <3>2. CASE ~ is_transaction_confirmed(d.block, block_number[n])
      BY <1>13, <3>2 DEF ReceiveNewBalance, TypeOK, LocksCoherent, endVars
    <3> QED
      BY <3>1, <3>2
  <2>2. TypeOK'
    BY <1>13, <2>1 DEF ReceiveNewBalance, TypeOK, chainVars
  <2>3. MessagesDistinct'
    BY <1>13 DEF MessagesDistinct, ReceiveNewBalance
  <2> QED
    BY <2>1, <2>2, <2>3
<1>14. ASSUME NEW n \in Nodes, NEW b \in 1..confirmed_block_number, HandleBlock(n, b)
       PROVE  WellFormed'
  <2> DEFINE due == {d \in deposit_queue[n] : is_transaction_confirmed(d.block, b)}
  <2>1. due \in SUBSET deposits
    BY DEF TypeOK
  <2>2. ApplyDeposits(n, due)
    BY <1>14 DEF HandleBlock
  <2>3. /\ our_state' \in [Nodes -> EndState]
        /\ partner_state' \in [Nodes -> EndState]
        /\ LocksCoherent'
    BY <1>12, <2>1, <2>2
  <2>4. b \in Nat
    BY LimitsAssumption DEF TypeOK, confirmed_block_number
  <2>5. TypeOK'
    BY <1>14, <2>3, <2>4 DEF HandleBlock, TypeOK, chainVars
  <2>6. MessagesDistinct'
    BY <1>14 DEF MessagesDistinct, HandleBlock
  <2> QED
    BY <2>3, <2>5, <2>6
<1>15. ASSUME NEW n \in Nodes, LeaveOpened(n)
       PROVE  WellFormed'
  BY <1>15 DEF LeaveOpened, TypeOK, LocksCoherent, MessagesDistinct, endVars, chainVars, viewVars
<1>16. CASE MineBlock
  BY <1>16 DEF MineBlock, TypeOK, LocksCoherent, MessagesDistinct, endVars, viewVars
<1>17. ASSUME NEW s \in Secrethashes, RegisterSecret(s)
       PROVE  WellFormed'
  BY <1>17 DEF RegisterSecret, TypeOK, LocksCoherent, MessagesDistinct, endVars, viewVars
<1>18. ASSUME NEW n \in Nodes, NEW amount \in DepositAmounts, Deposit(n, amount)
       PROVE  WellFormed'
  <2>1. OnchainDeposits(n) \subseteq Nat
    BY DepositsAssumption DEF OnchainDeposits, TypeOK, DepositTransaction
  <2>2. PICK total \in Nat :
          deposits' = deposits \cup {[participant |-> n, contract_balance |-> total + amount,
                                      block |-> latest]}
    BY <1>18, <2>1 DEF Deposit, Largest
  <2>3. deposits' \subseteq DepositTransaction /\ deposits \subseteq deposits'
    BY <2>2, DepositsAssumption DEF TypeOK, DepositTransaction
  <2>4. TypeOK'
    BY <1>18, <2>3 DEF Deposit, TypeOK, endVars, viewVars
  <2>5. LocksCoherent' /\ MessagesDistinct'
    BY <1>18 DEF Deposit, LocksCoherent, MessagesDistinct, endVars
  <2> QED
    BY <2>4, <2>5
<1>19. CASE UNCHANGED vars
  BY <1>19 DEF vars, TypeOK, LocksCoherent, MessagesDistinct, endVars, chainVars, viewVars
<1> QED
  BY <1>2, <1>3, <1>4, <1>5, <1>6, <1>7, <1>8, <1>9, <1>10, <1>11, <1>13, <1>14,
     <1>15, <1>16, <1>17, <1>18, <1>19
  DEF Next, ChainNext, SendNext, ReceiveNext, ViewNext

LEMMA SpecWellFormed == Spec => []WellFormed
<1> QED
  BY InitWellFormed, NextWellFormed, PTL DEF Spec

-----------------------------------------------------------------------------
(* The history of the balance proofs.                                      *)

(* The balance proofs that n signed, or none.                              *)
Signed(n) == {NoBalanceProof} \cup {k.balance_proof : k \in SentBy(n)}

Committed(bp) == bp.transferred_amount + bp.locked_amount

(* The message m leads from the balance proof bp to its own.               *)
Follows(bp, m) ==
  /\ m.balance_proof.nonce = bp.nonce + 1
  /\ m.type \in {"LockedTransfer", "RefundTransfer"} =>
       /\ m.lock \notin bp.locksroot
       /\ m.balance_proof.locksroot = bp.locksroot \cup {m.lock}
       /\ Cardinality(m.balance_proof.locksroot) <= MAXIMUM_PENDING_TRANSFERS
       /\ m.balance_proof.transferred_amount = bp.transferred_amount
       /\ m.balance_proof.locked_amount = bp.locked_amount + m.lock.amount
  /\ m.type \in {"Unlock", "LockExpired"} =>
       /\ m.lock \in bp.locksroot
       /\ m.balance_proof.locksroot = bp.locksroot \ {m.lock}
       /\ m.balance_proof.locked_amount = bp.locked_amount - m.lock.amount
       /\ m.balance_proof.transferred_amount =
            IF m.type = "Unlock" THEN bp.transferred_amount + m.lock.amount
            ELSE bp.transferred_amount

(* What n has promised is covered by its deposit and its income.           *)
Covered(n, bp) ==
  /\ Committed(bp) <= UINT256_MAX
  /\ Committed(bp)
       <= our_state[n].contract_balance + partner_state[n].balance_proof.transferred_amount

(* Every balance proof held is one that was sent.                          *)
ViewInv ==
  \A n \in Nodes : /\ our_state[n].balance_proof \in Signed(n)
                   /\ partner_state[Partner(n)].balance_proof \in Signed(n)

(* The messages of a node are a sequence, each made from the one before.   *)
SequenceInv ==
  \A n \in Nodes :
    /\ \A k, m \in SentBy(n) : k.balance_proof.nonce = m.balance_proof.nonce => k = m
    /\ \A m \in SentBy(n) :
         /\ m.balance_proof.nonce >= 1
         /\ m.balance_proof.nonce <= our_state[n].balance_proof.nonce
         /\ m.balance_proof.transferred_amount <= our_state[n].balance_proof.transferred_amount
         /\ \E bp \in Signed(n) : Follows(bp, m)
         /\ \A l \in m.balance_proof.locksroot : \E k \in SentBy(n) : k.lock = l

(* Every message is covered, however old.                                  *)
CoverageInv ==
  \A n \in Nodes :
    /\ our_state[n].contract_balance \in OnchainDeposits(n)
    /\ \A m \in SentBy(n) : Covered(n, m.balance_proof)

HistoryInv == ViewInv /\ SequenceInv /\ CoverageInv

(* A step sends a message, accepts one, or leaves all balance proofs.      *)
SendKind(n, m) ==
  /\ m \in Message /\ m.from = n /\ msgs' = msgs \cup {m}
  /\ Follows(our_state[n].balance_proof, m)
  /\ m.type \in {"LockedTransfer", "RefundTransfer"} => Covered(n, m.balance_proof)
  /\ our_state'[n].balance_proof = m.balance_proof
  /\ our_state'[n].contract_balance = our_state[n].contract_balance
  /\ \A k \in Nodes \ {n} : our_state'[k] = our_state[k]
  /\ UNCHANGED <<partner_state, deposits>>

ReceiveKind(n, m) ==
  /\ m \in msgs /\ m.from = Partner(n)
  /\ partner_state'[n].balance_proof = m.balance_proof
  /\ partner_state[n].balance_proof.transferred_amount <= m.balance_proof.transferred_amount
  /\ \A k \in Nodes \ {n} : partner_state'[k] = partner_state[k]
  /\ UNCHANGED <<our_state, msgs, deposits>>

QuietKind ==
  /\ \A n \in Nodes :
       /\ our_state'[n].balance_proof = our_state[n].balance_proof
       /\ partner_state'[n].balance_proof = partner_state[n].balance_proof
       /\ our_state'[n].contract_balance >= our_state[n].contract_balance
       /\ \/ our_state'[n].contract_balance = our_state[n].contract_balance
          \/ our_state'[n].contract_balance \in OnchainDeposits(n)
  /\ msgs' = msgs /\ deposits \subseteq deposits'

(* What the updates of an end state leave alone.                           *)
LEMMA NewProof ==
  ASSUME NEW end \in EndState, NEW bp, NEW lock
  PROVE  /\ add_lock(end, bp, lock).balance_proof = bp
         /\ add_lock(end, bp, lock).contract_balance = end.contract_balance
         /\ claim_lock(end, bp, lock).balance_proof = bp
         /\ claim_lock(end, bp, lock).contract_balance = end.contract_balance
         /\ drop_lock(end, bp, lock).balance_proof = bp
         /\ drop_lock(end, bp, lock).contract_balance = end.contract_balance
BY DEF EndState, add_lock, claim_lock, drop_lock

LEMMA SameProof ==
  ASSUME NEW end \in EndState, NEW s, NEW b
  PROVE  /\ register_secret_endstate(end, s).balance_proof = end.balance_proof
         /\ register_secret_endstate(end, s).contract_balance = end.contract_balance
         /\ register_onchain_secret_endstate(end, s, b).balance_proof = end.balance_proof
         /\ register_onchain_secret_endstate(end, s, b).contract_balance = end.contract_balance
         /\ update_contract_balance(end, b).balance_proof = end.balance_proof
<1>1. /\ register_secret_endstate(end, s).balance_proof = end.balance_proof
      /\ register_secret_endstate(end, s).contract_balance = end.contract_balance
  BY DEF EndState, register_secret_endstate
<1>2. /\ register_onchain_secret_endstate(end, s, b).balance_proof = end.balance_proof
      /\ register_onchain_secret_endstate(end, s, b).contract_balance = end.contract_balance
  BY DEF EndState, register_onchain_secret_endstate
<1>3. update_contract_balance(end, b).balance_proof = end.balance_proof
  BY DEF EndState, update_contract_balance
<1> QED
  BY <1>1, <1>2, <1>3

(* The balance proof of a coherent end says what is in its tree.           *)
LEMMA ProofShows ==
  ASSUME NEW end \in EndState, Coherent(end)
  PROVE  /\ end.balance_proof \in BalanceProof
         /\ end.balance_proof.nonce \in Nat /\ end.balance_proof.transferred_amount \in Nat
         /\ end.balance_proof.locked_amount \in Nat /\ end.contract_balance \in Nat
         /\ end.balance_proof.locksroot = end.merkletree
         /\ end.balance_proof.locked_amount = get_amount_locked(end)
<1>1. end.balance_proof \in BalanceProof /\ end.contract_balance \in Nat
  BY DEF EndState
<1>2. get_amount_locked(end) = AmountOf[end.merkletree]
  BY AmountLocked
<1> QED
  BY <1>1, <1>2 DEF Coherent, BalanceProof

LEMMA Ends ==
  ASSUME WellFormed, NEW n \in Nodes
  PROVE  /\ our_state[n] \in EndState /\ Coherent(our_state[n])
         /\ partner_state[n] \in EndState /\ Coherent(partner_state[n])
BY DEF WellFormed, TypeOK, LocksCoherent

LEMMA SendLockKind ==
  ASSUME WellFormed, NEW n \in Nodes, NEW lock \in Locks, CanSendLock(n, lock),
         NEW type \in {"LockedTransfer", "RefundTransfer"},
         our_state' = [our_state EXCEPT ![n] =
                         add_lock(our_state[n], balance_proof_with(our_state[n], lock), lock)],
         Send(n, type, lock, balance_proof_with(our_state[n], lock)),
         UNCHANGED <<partner_state, chainVars>>
  PROVE  \E m : SendKind(n, m)
<1> DEFINE end == our_state[n]
           bp  == balance_proof_with(end, lock)
           m   == [from |-> n, type |-> type, lock |-> lock, balance_proof |-> bp]
<1>1. /\ end \in EndState /\ Coherent(end) /\ lock \notin end.merkletree /\ bp \in BalanceProof
  BY SendLockLemma
<1>2. /\ end.balance_proof.nonce \in Nat /\ end.balance_proof.transferred_amount \in Nat
      /\ end.balance_proof.locked_amount \in Nat /\ end.contract_balance \in Nat
      /\ end.balance_proof.locksroot = end.merkletree
      /\ end.balance_proof.locked_amount = get_amount_locked(end)
      /\ partner_state[n].balance_proof.transferred_amount \in Nat
  BY <1>1, Ends, ProofShows
<1>3. lock.amount \in Nat /\ lock.amount >= 1
  BY LocksAssumption
<1>4. /\ bp.nonce = end.balance_proof.nonce + 1
      /\ bp.transferred_amount = end.balance_proof.transferred_amount
      /\ bp.locked_amount = end.balance_proof.locked_amount + lock.amount
      /\ bp.locksroot = end.balance_proof.locksroot \cup {lock}
  BY <1>2 DEF balance_proof_with, get_next_nonce
<1>5. Cardinality(bp.locksroot) <= MAXIMUM_PENDING_TRANSFERS
  <2>1. end.merkletree \in SUBSET Locks
    BY <1>1 DEF EndState
  <2>2. IsFiniteSet(end.merkletree)
    BY <2>1, LocksAssumption, FS_Subset
  <2>3. Cardinality(end.merkletree \cup {lock}) = Cardinality(end.merkletree) + 1
    BY <1>1, <2>2, FS_AddElement
  <2>4. Cardinality(end.merkletree) < MAXIMUM_PENDING_TRANSFERS
    BY DEF CanSendLock
  <2>5. Cardinality(end.merkletree) \in Nat
    BY <2>2, FS_CardinalityType
  <2> QED
    BY <1>2, <1>4, <2>3, <2>4, <2>5, LimitsAssumption
<1>6. Covered(n, bp)
  <2>1. lock.amount <= get_distributable(end, partner_state[n])
    BY DEF CanSendLock
  <2> DEFINE t == end.balance_proof.transferred_amount
             a == end.balance_proof.locked_amount
             e == partner_state[n].balance_proof.transferred_amount
             c == end.contract_balance
  <2>2. get_distributable(end, partner_state[n])
          = Smaller(IF t + a <= UINT256_MAX THEN UINT256_MAX - (t + a) ELSE 0, c - t + e - a)
    BY <1>2 DEF get_distributable, get_balance
  <2>3. t \in Nat /\ a \in Nat /\ e \in Nat /\ c \in Nat
    BY <1>2
  <2>4. Committed(bp) = t + a + lock.amount
    BY <1>3, <1>4, <2>3 DEF Committed
  <2> HIDE DEF t, a, e, c, bp
  <2>5. Committed(bp) <= UINT256_MAX /\ Committed(bp) <= c + e
    BY <1>3, <2>1, <2>2, <2>3, <2>4, LimitsAssumption DEF Smaller
  <2> QED
    BY <2>5 DEF Covered, c, e
<1> HIDE DEF bp
<1>7. m \in Message
  BY <1>1 DEF Message
<1>8. Follows(end.balance_proof, m)
  BY <1>1, <1>2, <1>4, <1>5 DEF Follows
<1>9. /\ our_state'[n] = add_lock(end, bp, lock)
      /\ \A k \in Nodes \ {n} : our_state'[k] = our_state[k]
  BY DEF bp, WellFormed, TypeOK
<1>10. our_state'[n].balance_proof = bp /\ our_state'[n].contract_balance = end.contract_balance
  BY <1>1, <1>9, NewProof
<1>11. msgs' = msgs \cup {m} /\ UNCHANGED <<partner_state, deposits>>
  BY DEF Send, bp, chainVars
<1>12. SendKind(n, m)
  BY <1>6, <1>7, <1>8, <1>9, <1>10, <1>11 DEF SendKind
<1> QED
  BY <1>12

(* The same for the two messages that remove a lock.                       *)
LEMMA SendRemovalKind ==
  ASSUME WellFormed, NEW n \in Nodes, NEW lock \in our_state[n].merkletree,
         NEW type \in {"Unlock", "LockExpired"}, NEW bp \in BalanceProof, NEW new,
         bp = IF type = "Unlock" THEN balance_proof_claiming(our_state[n], lock)
              ELSE balance_proof_without(our_state[n], lock),
         new.balance_proof = bp, new.contract_balance = our_state[n].contract_balance,
         our_state' = [our_state EXCEPT ![n] = new],
         Send(n, type, lock, bp), UNCHANGED <<partner_state, chainVars>>
  PROVE  \E m : SendKind(n, m)
<1> DEFINE end == our_state[n]
           m   == [from |-> n, type |-> type, lock |-> lock, balance_proof |-> bp]
<1>1. /\ end \in EndState /\ Coherent(end) /\ lock \in Locks
  BY Ends, AmountLeft
<1>2. /\ end.balance_proof.locksroot = end.merkletree
      /\ end.balance_proof.locked_amount = get_amount_locked(end)
  BY <1>1, ProofShows
<1>3. /\ bp.nonce = end.balance_proof.nonce + 1
      /\ bp.locked_amount = end.balance_proof.locked_amount - lock.amount
      /\ bp.locksroot = end.balance_proof.locksroot \ {lock}
      /\ bp.transferred_amount = IF type = "Unlock"
                                 THEN end.balance_proof.transferred_amount + lock.amount
                                 ELSE end.balance_proof.transferred_amount
  BY <1>2 DEF balance_proof_claiming, balance_proof_without, get_next_nonce
<1>4. m \in Message
  BY <1>1 DEF Message
<1>5. Follows(end.balance_proof, m)
  BY <1>2, <1>3 DEF Follows
<1>6. our_state'[n] = new /\ \A k \in Nodes \ {n} : our_state'[k] = our_state[k]
  BY DEF WellFormed, TypeOK
<1>7. msgs' = msgs \cup {m} /\ UNCHANGED <<partner_state, deposits>>
  BY DEF Send, chainVars
<1>8. SendKind(n, m)
  BY <1>4, <1>5, <1>6, <1>7 DEF SendKind
<1> QED
  BY <1>8

(* Accepting a message.                                                    *)
LEMMA AcceptKind ==
  ASSUME WellFormed, NEW n \in Nodes, NEW msg \in msgs, msg.from = Partner(n), NEW new,
         new.balance_proof = msg.balance_proof,
         partner_state[n].balance_proof.transferred_amount
           <= msg.balance_proof.transferred_amount,
         partner_state' = [partner_state EXCEPT ![n] = new],
         UNCHANGED <<our_state, msgs, chainVars>>
  PROVE  ReceiveKind(n, msg)
<1>1. partner_state'[n] = new /\ \A k \in Nodes \ {n} : partner_state'[k] = partner_state[k]
  BY DEF WellFormed, TypeOK
<1> QED
  BY <1>1 DEF ReceiveKind, chainVars

LEMMA ReceiveStepKind ==
  ASSUME WellFormed, NEW n \in Nodes, NEW msg \in msgs,
         \/ ReceiveLockedTransfer(n, msg) \/ ReceiveRefundTransfer(n, msg)
         \/ ReceiveUnlock(n, msg) \/ ReceiveLockExpired(n, msg)
  PROVE  ReceiveKind(n, msg)
<1> DEFINE end == partner_state[n]
           bp  == msg.balance_proof
<1>1. end \in EndState /\ end.balance_proof.transferred_amount \in Nat
  BY Ends, ProofShows
<1>2. \A lock \in Locks : lock.amount \in Nat
  BY LocksAssumption
<1>3. \A s : \A lock \in get_lock(end, s) : lock \in Locks
  BY <1>1 DEF get_lock, Keyed, EndState
<1>4. CASE ReceiveLockedTransfer(n, msg) \/ ReceiveRefundTransfer(n, msg)
  <2>1. /\ msg.from = Partner(n)
        /\ partner_state' = [partner_state EXCEPT ![n] = add_lock(end, bp, msg.lock)]
        /\ bp.transferred_amount = end.balance_proof.transferred_amount
        /\ UNCHANGED <<our_state, msgs, chainVars>>
    BY <1>4 DEF ReceiveLockedTransfer, ReceiveRefundTransfer, FromPartner,
                valid_lockedtransfer_check
  <2>2. add_lock(end, bp, msg.lock).balance_proof = bp
    BY <1>1, NewProof
  <2> HIDE DEF end, bp
  <2>3. end.balance_proof.transferred_amount <= bp.transferred_amount
    BY <1>1, <2>1
  <2> QED
    BY <2>1, <2>2, <2>3, AcceptKind DEF end, bp
<1>5. CASE ReceiveUnlock(n, msg)
  <2>1. PICK lock \in get_lock(end, msg.lock.secrethash) :
          partner_state' = [partner_state EXCEPT ![n] = claim_lock(end, bp, lock)]
    BY <1>5 DEF ReceiveUnlock
  <2>2. PICK k \in get_lock(end, msg.lock.secrethash) :
          bp.transferred_amount = end.balance_proof.transferred_amount + k.amount
    BY <1>5 DEF ReceiveUnlock, is_valid_unlock
  <2>3. msg.from = Partner(n) /\ UNCHANGED <<our_state, msgs, chainVars>>
    BY <1>5 DEF ReceiveUnlock, FromPartner
  <2>4. claim_lock(end, bp, lock).balance_proof = bp
    BY <1>1, NewProof
  <2>5. end.balance_proof.transferred_amount <= bp.transferred_amount
    BY <1>1, <1>2, <1>3, <2>2
  <2> QED
    BY <2>1, <2>3, <2>4, <2>5, AcceptKind
<1>6. CASE ReceiveLockExpired(n, msg)
  <2>1. PICK lock \in get_lock(end, msg.lock.secrethash) :
          partner_state' = [partner_state EXCEPT ![n] = drop_lock(end, bp, lock)]
    BY <1>6 DEF ReceiveLockExpired
  <2>2. bp.transferred_amount = end.balance_proof.transferred_amount
    BY <1>6 DEF ReceiveLockExpired, is_valid_lock_expired
  <2>3. msg.from = Partner(n) /\ UNCHANGED <<our_state, msgs, chainVars>>
    BY <1>6 DEF ReceiveLockExpired, FromPartner
  <2>4. drop_lock(end, bp, lock).balance_proof = bp
    BY <1>1, NewProof
  <2>5. end.balance_proof.transferred_amount <= bp.transferred_amount
    BY <1>1, <2>2
  <2> QED
    BY <2>1, <2>3, <2>4, <2>5, AcceptKind
<1> QED
  BY <1>4, <1>5, <1>6

(* Deposits raise the contract balance to one the contract has recorded.   *)
LEMMA DepositsKind ==
  ASSUME WellFormed, NEW n \in Nodes, NEW ds \in SUBSET deposits, ApplyDeposits(n, ds),
         UNCHANGED <<msgs, deposits>>
  PROVE  QuietKind
<1>1. our_state[n] \in EndState /\ partner_state[n] \in EndState
  BY Ends
<1>2. PICK ours \in Largest(BalancesAfter(our_state[n], ds, n)),
           theirs \in Largest(BalancesAfter(partner_state[n], ds, Partner(n))) :
        /\ our_state' = [our_state EXCEPT ![n] = update_contract_balance(our_state[n], ours)]
        /\ partner_state' =
             [partner_state EXCEPT ![n] = update_contract_balance(partner_state[n], theirs)]
  BY DEF ApplyDeposits
<1>3. ours \in {our_state[n].contract_balance} \cup OnchainDeposits(n) /\ ours \in Nat
  <2>1. ours \in BalancesAfter(our_state[n], ds, n)
    BY DEF Largest
  <2>2. \A d \in deposits : d.contract_balance \in Nat
    BY DEF WellFormed, TypeOK, DepositTransaction
  <2> QED
    BY <1>1, <2>1, <2>2 DEF BalancesAfter, OnchainDeposits, EndState
<1>4. /\ our_state'[n] = update_contract_balance(our_state[n], ours)
      /\ partner_state'[n] = update_contract_balance(partner_state[n], theirs)
      /\ \A k \in Nodes \ {n} : our_state'[k] = our_state[k] /\ partner_state'[k] = partner_state[k]
  BY <1>2 DEF WellFormed, TypeOK
<1>5. /\ our_state'[n].balance_proof = our_state[n].balance_proof
      /\ partner_state'[n].balance_proof = partner_state[n].balance_proof
  BY <1>1, <1>4, SameProof
<1>6. /\ our_state'[n].contract_balance >= our_state[n].contract_balance
      /\ \/ our_state'[n].contract_balance = our_state[n].contract_balance
         \/ our_state'[n].contract_balance \in OnchainDeposits(n)
  <2>1. our_state[n].contract_balance \in Nat
    BY <1>1 DEF EndState
  <2>2. CASE ours > our_state[n].contract_balance
    <3>1. our_state'[n].contract_balance = ours
      BY <1>1, <1>4, <2>2 DEF update_contract_balance, EndState
    <3> QED
      BY <1>3, <2>1, <2>2, <3>1
  <2>3. CASE ~ (ours > our_state[n].contract_balance)
    <3>1. our_state'[n] = our_state[n]
      BY <1>4, <2>3 DEF update_contract_balance
    <3> QED
      BY <2>1, <3>1
  <2> QED
    BY <2>2, <2>3
<1>7. \A k \in Nodes : our_state[k].contract_balance \in Nat
  BY Ends DEF EndState
<1>8. ASSUME NEW k \in Nodes
      PROVE  /\ our_state'[k].balance_proof = our_state[k].balance_proof
             /\ partner_state'[k].balance_proof = partner_state[k].balance_proof
             /\ our_state'[k].contract_balance >= our_state[k].contract_balance
             /\ \/ our_state'[k].contract_balance = our_state[k].contract_balance
                \/ our_state'[k].contract_balance \in OnchainDeposits(k)
  <2>1. CASE k = n
    BY <1>5, <1>6, <2>1
  <2>2. CASE k # n
    <3>1. our_state'[k] = our_state[k] /\ partner_state'[k] = partner_state[k]
      BY <1>4, <2>2
    <3> QED
      BY <1>7, <3>1
  <2> QED
    BY <2>1, <2>2
<1> QED
  BY <1>8 DEF QuietKind

(* A step that leaves both end states of a node, or only moves locks.      *)
LEMMA SameEndsKind ==
  ASSUME WellFormed, UNCHANGED <<endVars, msgs>>, deposits \subseteq deposits'
  PROVE  QuietKind
<1>1. \A k \in Nodes : our_state[k].contract_balance \in Nat
  BY Ends DEF EndState
<1> QED
  BY <1>1 DEF QuietKind, endVars

LEMMA SecretKind ==
  ASSUME WellFormed, NEW n \in Nodes, NEW s \in Secrethashes,
         RegisterOffchainSecret(n, s) \/ RegisterOnchainSecret(n, s)
  PROVE  QuietKind
<1>1. our_state[n] \in EndState /\ partner_state[n] \in EndState
  BY Ends
<1>2. /\ our_state' = [our_state EXCEPT ![n] = our_state'[n]]
      /\ partner_state' = [partner_state EXCEPT ![n] = partner_state'[n]]
      /\ UNCHANGED <<msgs, deposits>>
  BY DEF RegisterOffchainSecret, RegisterOnchainSecret, chainVars, WellFormed, TypeOK
<1>3. /\ our_state'[n].balance_proof = our_state[n].balance_proof
      /\ our_state'[n].contract_balance = our_state[n].contract_balance
      /\ partner_state'[n].balance_proof = partner_state[n].balance_proof
  <2>1. CASE RegisterOffchainSecret(n, s)
    <3>1. /\ our_state'[n] = register_secret_endstate(our_state[n], s)
          /\ partner_state'[n] = register_secret_endstate(partner_state[n], s)
      BY <2>1 DEF RegisterOffchainSecret, WellFormed, TypeOK
    <3> QED
      BY <1>1, <3>1, SameProof
  <2>2. CASE RegisterOnchainSecret(n, s)
    <3>1. /\ our_state'[n] = register_onchain_secret_endstate(our_state[n], s, registered[s])
          /\ partner_state'[n]
               = register_onchain_secret_endstate(partner_state[n], s, registered[s])
      BY <2>2 DEF RegisterOnchainSecret, WellFormed, TypeOK
    <3> QED
      BY <1>1, <3>1, SameProof
  <2> QED
    BY <2>1, <2>2
<1>4. \A k \in Nodes \ {n} : our_state'[k] = our_state[k] /\ partner_state'[k] = partner_state[k]
  BY <1>2 DEF WellFormed, TypeOK
<1>5. \A k \in Nodes : our_state[k].contract_balance \in Nat
  BY Ends DEF EndState
<1>6. ASSUME NEW k \in Nodes
      PROVE  /\ our_state'[k].balance_proof = our_state[k].balance_proof
             /\ partner_state'[k].balance_proof = partner_state[k].balance_proof
             /\ our_state'[k].contract_balance = our_state[k].contract_balance
  <2>1. CASE k = n
    BY <1>3, <2>1
  <2>2. CASE k # n
    BY <1>4, <2>2
  <2> QED
    BY <2>1, <2>2
<1> QED
  BY <1>2, <1>5, <1>6 DEF QuietKind

LEMMA StepKinds ==
  ASSUME WellFormed, [Next]_vars
  PROVE  \/ \E n \in Nodes : \E m : SendKind(n, m)
         \/ \E n \in Nodes, m \in msgs : ReceiveKind(n, m)
         \/ QuietKind
<1>1. ASSUME NEW n \in Nodes, NEW lock \in Locks,
             SendLockedTransfer(n, lock) \/ SendRefundTransfer(n, lock)
      PROVE  \E m : SendKind(n, m)
  BY <1>1, SendLockKind DEF SendLockedTransfer, SendRefundTransfer
<1>2. ASSUME NEW n \in Nodes, NEW lock \in Locks, SendUnlock(n, lock)
      PROVE  \E m : SendKind(n, m)
  <2> DEFINE bp == balance_proof_claiming(our_state[n], lock)
             new == claim_lock(our_state[n], bp, lock)
  <2>1. lock \in our_state[n].merkletree
    BY <1>2, Ends, GetLockInTree DEF SendUnlock
  <2>2. bp \in BalanceProof
    BY <2>1, SendUnlockLemma
  <2>3. /\ our_state' = [our_state EXCEPT ![n] = new] /\ Send(n, "Unlock", lock, bp)
        /\ UNCHANGED <<partner_state, chainVars>>
    BY <1>2 DEF SendUnlock
  <2>4. new.balance_proof = bp /\ new.contract_balance = our_state[n].contract_balance
    BY Ends, NewProof
  <2> HIDE DEF new
  <2> QED
    BY <2>1, <2>2, <2>3, <2>4, SendRemovalKind
<1>3. ASSUME NEW n \in Nodes, NEW lock \in Locks, SendLockExpired(n, lock)
      PROVE  \E m : SendKind(n, m)
  <2> DEFINE bp == balance_proof_without(our_state[n], lock)
             new == drop_lock(our_state[n], bp, lock)
  <2>1. lock \in our_state[n].lockedlocks \cup our_state[n].unlockedlocks
    BY <1>3 DEF SendLockExpired
  <2>2. lock \in our_state[n].merkletree
    BY <2>1, Ends DEF Coherent, pending_locks
  <2>3. bp \in BalanceProof
    BY <2>1, SendExpiredLemma
  <2>4. /\ our_state' = [our_state EXCEPT ![n] = new] /\ Send(n, "LockExpired", lock, bp)
        /\ UNCHANGED <<partner_state, chainVars>>
    BY <1>3 DEF SendLockExpired
  <2>5. new.balance_proof = bp /\ new.contract_balance = our_state[n].contract_balance
    BY Ends, NewProof
  <2> HIDE DEF new
  <2> QED
    BY <2>2, <2>3, <2>4, <2>5, SendRemovalKind
<1>4. ASSUME NEW n \in Nodes, NEW d \in deposits, ReceiveNewBalance(n, d)
      PROVE  QuietKind
  <2>1. UNCHANGED <<msgs, deposits>> /\ (ApplyDeposits(n, {d}) \/ UNCHANGED endVars)
    BY <1>4 DEF ReceiveNewBalance, chainVars
  <2> QED
    BY <2>1, DepositsKind, SameEndsKind
<1>5. ASSUME NEW n \in Nodes, NEW b \in 1 .. confirmed_block_number, HandleBlock(n, b)
      PROVE  QuietKind
  <2> DEFINE due == {d \in deposit_queue[n] : is_transaction_confirmed(d.block, b)}
  <2>1. UNCHANGED <<msgs, deposits>> /\ ApplyDeposits(n, due) /\ due \in SUBSET deposits
    BY <1>5 DEF HandleBlock, chainVars, WellFormed, TypeOK
  <2> QED
    BY <2>1, DepositsKind
<1>6. ASSUME \/ \E n \in Nodes : LeaveOpened(n)
             \/ ChainNext
             \/ UNCHANGED vars
      PROVE  QuietKind
  <2>1. UNCHANGED <<endVars, msgs>> /\ deposits \subseteq deposits'
    BY <1>6 DEF LeaveOpened, ChainNext, MineBlock, RegisterSecret, Deposit, chainVars, vars
  <2> QED
    BY <2>1, SameEndsKind
<1> QED
  BY <1>1, <1>2, <1>3, <1>4, <1>5, <1>6, ReceiveStepKind, SecretKind
  DEF Next, SendNext, ReceiveNext, ViewNext

LEMMA InitHistory == Init => HistoryInv
<1> SUFFICES ASSUME Init
             PROVE  HistoryInv
  OBVIOUS
<1>1. \A n \in Nodes : SentBy(n) = {}
  BY DEF Init, SentBy
<1>2. \A n \in Nodes : /\ our_state[n].balance_proof = NoBalanceProof
                       /\ partner_state[Partner(n)].balance_proof = NoBalanceProof
                       /\ our_state[n].contract_balance = InitialDeposit[n]
  BY PartnerType DEF Init, NewEndState
<1> QED
  BY <1>1, <1>2 DEF HistoryInv, ViewInv, SequenceInv, CoverageInv, Signed, OnchainDeposits

(* Types of what is held and sent.                                         *)
LEMMA ProofTypes ==
  ASSUME WellFormed, NEW n \in Nodes
  PROVE  /\ our_state[n].balance_proof \in BalanceProof
         /\ partner_state[n].balance_proof \in BalanceProof
         /\ our_state[n].contract_balance \in Nat
         /\ \A m \in SentBy(n) : m \in Message /\ m.balance_proof \in BalanceProof /\ m.lock \in Locks
         /\ \A bp \in BalanceProof : /\ bp.nonce \in Nat /\ bp.transferred_amount \in Nat
                                     /\ bp.locked_amount \in Nat /\ Committed(bp) \in Nat
                                     /\ bp.locksroot \in SUBSET Locks
         /\ NoBalanceProof \in BalanceProof
<1>1. /\ our_state[n].balance_proof \in BalanceProof
      /\ partner_state[n].balance_proof \in BalanceProof
      /\ our_state[n].contract_balance \in Nat
  BY Ends DEF EndState
<1>2. \A m \in SentBy(n) : m \in Message /\ m.balance_proof \in BalanceProof /\ m.lock \in Locks
  BY DEF WellFormed, TypeOK, Message, SentBy
<1>3. \A bp \in BalanceProof : /\ bp.nonce \in Nat /\ bp.transferred_amount \in Nat
                               /\ bp.locked_amount \in Nat /\ bp.locksroot \in SUBSET Locks
  BY DEF BalanceProof
<1>4. \A bp \in BalanceProof : Committed(bp) \in Nat
  BY <1>3 DEF Committed
<1>5. NoBalanceProof \in BalanceProof
  BY DEF NoBalanceProof, BalanceProof
<1> QED
  BY <1>1, <1>2, <1>3, <1>4, <1>5

(* A balance proof of n is no newer than the one n holds.                  *)
LEMMA ProofIsPast ==
  ASSUME WellFormed, SequenceInv, NEW n \in Nodes, NEW bp \in Signed(n)
  PROVE  /\ bp.nonce <= our_state[n].balance_proof.nonce
         /\ bp.transferred_amount <= our_state[n].balance_proof.transferred_amount
<1>1. /\ our_state[n].balance_proof.nonce \in Nat
      /\ our_state[n].balance_proof.transferred_amount \in Nat
  BY ProofTypes
<1>2. CASE bp = NoBalanceProof
  BY <1>1, <1>2 DEF NoBalanceProof
<1>3. CASE \E k \in SentBy(n) : k.balance_proof = bp
  BY <1>3 DEF SequenceInv
<1> QED
  BY <1>2, <1>3 DEF Signed

(* A message is signed with a new nonce and is covered.                    *)
LEMMA SendHistory ==
  ASSUME WellFormed, HistoryInv, NEW n \in Nodes, NEW m, SendKind(n, m)
  PROVE  HistoryInv'
<1> DEFINE old == our_state[n].balance_proof
           bp  == m.balance_proof
<1>1. /\ m \in Message /\ m.from = n /\ msgs' = msgs \cup {m} /\ Follows(old, m)
      /\ m.type \in {"LockedTransfer", "RefundTransfer"} => Covered(n, bp)
      /\ our_state'[n].balance_proof = bp
      /\ our_state'[n].contract_balance = our_state[n].contract_balance
      /\ \A k \in Nodes \ {n} : our_state'[k] = our_state[k]
      /\ partner_state' = partner_state /\ deposits' = deposits
  BY DEF SendKind
<1>2. ViewInv /\ SequenceInv /\ CoverageInv
  BY DEF HistoryInv
<1>3. SentBy(n)' = SentBy(n) \cup {m} /\ \A k \in Nodes \ {n} : SentBy(k)' = SentBy(k)
  BY <1>1 DEF SentBy
<1>4. \A k \in Nodes : our_state'[k].contract_balance = our_state[k].contract_balance
  BY <1>1
<1>5. Signed(n)' = Signed(n) \cup {bp} /\ \A k \in Nodes \ {n} : Signed(k)' = Signed(k)
  BY <1>3 DEF Signed
<1>6. /\ old \in BalanceProof /\ old.nonce \in Nat /\ old.transferred_amount \in Nat
      /\ old.locked_amount \in Nat
  BY ProofTypes
<1>7. /\ bp \in BalanceProof /\ bp.nonce \in Nat /\ bp.transferred_amount \in Nat
      /\ m.lock \in Locks /\ m.lock.amount \in Nat /\ bp.locked_amount \in Nat
  BY <1>1, LocksAssumption DEF Message, BalanceProof
<1>8. bp.nonce = old.nonce + 1 /\ old.transferred_amount <= bp.transferred_amount
  <2>1. bp.nonce = old.nonce + 1
    BY <1>1 DEF Follows
  <2>2. bp.transferred_amount \in {old.transferred_amount, old.transferred_amount + m.lock.amount}
    BY <1>1 DEF Follows, Message
  <2> QED
    BY <1>6, <1>7, <2>1, <2>2
<1>9. ViewInv'
  <2>1. ASSUME NEW k \in Nodes
        PROVE  /\ our_state'[k].balance_proof \in Signed(k)'
               /\ partner_state[Partner(k)].balance_proof \in Signed(k)'
    <3>1. our_state[k].balance_proof \in Signed(k)
          /\ partner_state[Partner(k)].balance_proof \in Signed(k)
      BY <1>2 DEF ViewInv
    <3>2. CASE k = n
      BY <1>1, <1>5, <3>1, <3>2
    <3>3. CASE k # n
      BY <1>1, <1>5, <3>1, <3>3
    <3> QED
      BY <3>2, <3>3
  <2> QED
    BY <1>1, <2>1 DEF ViewInv
<1>10. SequenceInv'
  <2>1. ASSUME NEW k \in Nodes, k # n
        PROVE  /\ SentBy(k)' = SentBy(k) /\ our_state'[k] = our_state[k]
               /\ Signed(k)' = Signed(k)
    BY <1>1, <1>3, <1>5, <2>1
  <2>2. \A h \in SentBy(n) : /\ h.balance_proof.nonce \in Nat /\ h.balance_proof.nonce >= 1
                             /\ h.balance_proof.nonce <= old.nonce
                             /\ h.balance_proof.transferred_amount \in Nat
                             /\ h.balance_proof.transferred_amount <= old.transferred_amount
    BY <1>2, ProofTypes DEF SequenceInv
  <2>3. \A h, g \in SentBy(n) \cup {m} : h.balance_proof.nonce = g.balance_proof.nonce => h = g
    <3>1. \A h \in SentBy(n) : h.balance_proof.nonce # bp.nonce
      BY <1>6, <1>7, <1>8, <2>2
    <3> QED
      BY <1>2, <3>1 DEF SequenceInv
  <2>4. \A h \in SentBy(n) \cup {m} : /\ h.balance_proof.nonce >= 1
                                      /\ h.balance_proof.nonce <= bp.nonce
                                      /\ h.balance_proof.transferred_amount <= bp.transferred_amount
    BY <1>6, <1>7, <1>8, <2>2
  <2>5. \A h \in SentBy(n) \cup {m} : \E q \in Signed(n)' : Follows(q, h)
    <3>1. old \in Signed(n)
      BY <1>2 DEF ViewInv
    <3>2. \A h \in SentBy(n) : \E q \in Signed(n) : Follows(q, h)
      BY <1>2 DEF SequenceInv
    <3>3. Signed(n) \subseteq Signed(n)'
      BY <1>5
    <3> HIDE DEF old
    <3>4. Follows(old, m)
      BY <1>1 DEF old
    <3> QED
      BY <3>1, <3>2, <3>3, <3>4
  <2>6. \A h \in SentBy(n) \cup {m} : \A l \in h.balance_proof.locksroot :
          \E k \in SentBy(n) \cup {m} : k.lock = l
    <3>1. \A h \in SentBy(n) : \A l \in h.balance_proof.locksroot : \E k \in SentBy(n) : k.lock = l
      BY <1>2 DEF SequenceInv
    <3>2. \A l \in old.locksroot : \E k \in SentBy(n) : k.lock = l
      <4>1. old = NoBalanceProof \/ \E k \in SentBy(n) : k.balance_proof = old
        BY <1>2 DEF ViewInv, Signed
      <4> QED
        BY <3>1, <4>1 DEF NoBalanceProof
    <3>3. bp.locksroot \subseteq old.locksroot \cup {m.lock}
      BY <1>1 DEF Follows, Message
    <3> QED
      BY <3>1, <3>2, <3>3
  <2>7. ASSUME NEW k \in Nodes
        PROVE  /\ \A h, g \in SentBy(k)' : h.balance_proof.nonce = g.balance_proof.nonce => h = g
               /\ \A h \in SentBy(k)' :
                    /\ h.balance_proof.nonce >= 1
                    /\ h.balance_proof.nonce <= our_state'[k].balance_proof.nonce
                    /\ h.balance_proof.transferred_amount
                         <= our_state'[k].balance_proof.transferred_amount
                    /\ \E q \in Signed(k)' : Follows(q, h)
                    /\ \A l \in h.balance_proof.locksroot : \E g \in SentBy(k)' : g.lock = l
    <3>1. CASE k = n
      BY <1>1, <1>3, <2>3, <2>4, <2>5, <2>6, <3>1
    <3>2. CASE k # n
      BY <1>2, <2>1, <3>2 DEF SequenceInv
    <3> QED
      BY <3>1, <3>2
  <2> QED
    BY <2>7 DEF SequenceInv, Follows
<1>11. CoverageInv'
  <2>1. \A k \in Nodes : OnchainDeposits(k)' = OnchainDeposits(k)
    BY <1>1 DEF OnchainDeposits
  <2>2. \A k \in Nodes : \A q : Covered(k, q)' <=> Covered(k, q)
    BY <1>1, <1>4 DEF Covered
  <2>3. Covered(n, bp)
    <3>1. CASE m.type \in {"LockedTransfer", "RefundTransfer"}
      BY <1>1, <3>1
    <3>2. CASE m.type \in {"Unlock", "LockExpired"}
      <4>1. Covered(n, old)
        <5>1. CASE old = NoBalanceProof
          <6>1. Committed(old) = 0
            BY <5>1 DEF Committed, NoBalanceProof
          <6>2. /\ our_state[n].contract_balance \in Nat
                /\ partner_state[n].balance_proof.transferred_amount \in Nat
            BY ProofTypes
          <6> QED
            BY <6>1, <6>2, LimitsAssumption DEF Covered
        <5>2. CASE \E k \in SentBy(n) : k.balance_proof = old
          BY <1>2, <5>2 DEF CoverageInv
        <5> QED
          BY <1>2, <5>1, <5>2 DEF ViewInv, Signed
      <4>2. Committed(bp) <= Committed(old) /\ Committed(bp) \in Nat /\ Committed(old) \in Nat
        <5>1. /\ bp.locked_amount = old.locked_amount - m.lock.amount
              /\ bp.transferred_amount \in
                   {old.transferred_amount, old.transferred_amount + m.lock.amount}
          BY <1>1, <3>2 DEF Follows
        <5> HIDE DEF old, bp
        <5> QED
          BY <1>6, <1>7, <5>1 DEF Committed
      <4>3. /\ our_state[n].contract_balance \in Nat
            /\ partner_state[n].balance_proof.transferred_amount \in Nat
        BY ProofTypes
      <4> QED
        BY <4>1, <4>2, <4>3, LimitsAssumption DEF Covered
    <3> QED
      BY <1>1, <3>1, <3>2 DEF Message
  <2> QED
    BY <1>2, <1>3, <1>4, <2>1, <2>2, <2>3 DEF CoverageInv
<1> QED
  BY <1>9, <1>10, <1>11 DEF HistoryInv

(* The view of the partner moves to a balance proof the partner sent.      *)
LEMMA ReceiveHistory ==
  ASSUME WellFormed, HistoryInv, NEW n \in Nodes, NEW m \in msgs, ReceiveKind(n, m)
  PROVE  HistoryInv'
<1>1. /\ m.from = Partner(n)
      /\ partner_state'[n].balance_proof = m.balance_proof
      /\ partner_state[n].balance_proof.transferred_amount <= m.balance_proof.transferred_amount
      /\ \A k \in Nodes \ {n} : partner_state'[k] = partner_state[k]
      /\ our_state' = our_state /\ msgs' = msgs /\ deposits' = deposits
  BY DEF ReceiveKind
<1>2. /\ \A k : SentBy(k)' = SentBy(k)
      /\ \A k : Signed(k)' = Signed(k)
      /\ \A k : OnchainDeposits(k)' = OnchainDeposits(k)
  BY <1>1 DEF SentBy, Signed, OnchainDeposits
<1>3. ViewInv /\ SequenceInv /\ CoverageInv
  BY DEF HistoryInv
<1>4. ViewInv'
  <2>1. ASSUME NEW k \in Nodes
        PROVE  partner_state'[Partner(k)].balance_proof \in Signed(k)
    <3>1. CASE Partner(k) = n
      <4>1. m \in SentBy(k)
        BY <1>1, <3>1, PartnerType DEF SentBy
      <4> QED
        BY <1>1, <3>1, <4>1 DEF Signed
    <3>2. CASE Partner(k) # n
      <4>1. partner_state'[Partner(k)] = partner_state[Partner(k)]
        BY <1>1, <3>2, PartnerType
      <4> QED
        BY <1>3, <4>1 DEF ViewInv
    <3> QED
      BY <3>1, <3>2
  <2> QED
    BY <1>1, <1>2, <1>3, <2>1 DEF ViewInv, Signed
<1>5. SequenceInv'
  BY <1>1, <1>2, <1>3 DEF SequenceInv, Follows
<1>6. CoverageInv'
  <2>1. \A k \in Nodes : partner_state[k].balance_proof.transferred_amount
                           <= partner_state'[k].balance_proof.transferred_amount
    <3>1. \A k \in Nodes : partner_state[k].balance_proof.transferred_amount \in Nat
      BY ProofTypes
    <3>2. ASSUME NEW k \in Nodes
          PROVE  partner_state[k].balance_proof.transferred_amount
                   <= partner_state'[k].balance_proof.transferred_amount
      <4>1. CASE k = n
        BY <1>1, <4>1
      <4>2. CASE k # n
        <5>1. partner_state'[k] = partner_state[k]
          BY <1>1, <4>2
        <5> QED
          BY <3>1, <5>1
      <4> QED
        BY <4>1, <4>2
    <3> QED
      BY <3>2
  <2>2. \A k \in Nodes : /\ partner_state[k].balance_proof.transferred_amount \in Nat
                         /\ our_state[k].contract_balance \in Nat
    BY ProofTypes
  <2>3. \A k \in Nodes : partner_state'[k].balance_proof.transferred_amount \in Nat
    <3>1. m.balance_proof.transferred_amount \in Nat
      BY DEF WellFormed, TypeOK, Message, BalanceProof
    <3>2. ASSUME NEW k \in Nodes
          PROVE  partner_state'[k].balance_proof.transferred_amount \in Nat
      <4>1. CASE k = n
        BY <1>1, <3>1, <4>1
      <4>2. CASE k # n
        <5>1. partner_state'[k] = partner_state[k]
          BY <1>1, <4>2
        <5> QED
          BY <2>2, <5>1
      <4> QED
        BY <4>1, <4>2
    <3> QED
      BY <3>2
  <2>4. ASSUME NEW k \in Nodes, NEW q \in BalanceProof, Covered(k, q)
        PROVE  /\ Committed(q) <= UINT256_MAX
               /\ Committed(q) <= our_state[k].contract_balance
                                    + partner_state'[k].balance_proof.transferred_amount
    <3>1. Committed(q) \in Nat
      BY ProofTypes
    <3> QED
      BY <2>1, <2>2, <2>3, <2>4, <3>1 DEF Covered
  <2>5. \A k \in Nodes : \A h \in SentBy(k) : h.balance_proof \in BalanceProof
    BY ProofTypes
  <2> QED
    BY <1>1, <1>2, <1>3, <2>4, <2>5 DEF CoverageInv, Covered, Committed
<1> QED
  BY <1>4, <1>5, <1>6 DEF HistoryInv

(* The rest only raises contract balances.                                 *)
LEMMA QuietHistory ==
  ASSUME WellFormed, WellFormed', HistoryInv, QuietKind
  PROVE  HistoryInv'
<1>1. ViewInv /\ SequenceInv /\ CoverageInv
  BY DEF HistoryInv
<1>2. /\ \A k : SentBy(k)' = SentBy(k)
      /\ \A k : Signed(k)' = Signed(k)
      /\ \A k : OnchainDeposits(k) \subseteq OnchainDeposits(k)'
  BY DEF QuietKind, SentBy, Signed, OnchainDeposits
<1>3. ViewInv'
  BY <1>1, <1>2, PartnerType DEF ViewInv, QuietKind, Signed
<1>4. SequenceInv'
  BY <1>1, <1>2 DEF SequenceInv, QuietKind, Follows
<1>5. CoverageInv'
  <2>1. ASSUME NEW k \in Nodes, NEW q \in BalanceProof, Covered(k, q)
        PROVE  /\ Committed(q) <= UINT256_MAX
               /\ Committed(q) <= our_state'[k].contract_balance
                                    + partner_state'[k].balance_proof.transferred_amount
    <3>1. /\ Committed(q) \in Nat /\ our_state[k].contract_balance \in Nat
          /\ partner_state[k].balance_proof.transferred_amount \in Nat
      BY ProofTypes
    <3>2. our_state'[k].contract_balance \in Nat
      BY DEF WellFormed, TypeOK, EndState
    <3>3. /\ our_state'[k].contract_balance >= our_state[k].contract_balance
          /\ partner_state'[k].balance_proof = partner_state[k].balance_proof
      BY DEF QuietKind
    <3> QED
      BY <2>1, <3>1, <3>2, <3>3 DEF Covered
  <2>2. \A k \in Nodes : \A h \in SentBy(k) : h.balance_proof \in BalanceProof
    BY ProofTypes
  <2>3. \A k \in Nodes : our_state'[k].contract_balance \in OnchainDeposits(k)'
    BY <1>1, <1>2 DEF CoverageInv, QuietKind
  <2> QED
    BY <1>1, <1>2, <2>1, <2>2, <2>3 DEF CoverageInv, Covered, Committed
<1> QED
  BY <1>3, <1>4, <1>5 DEF HistoryInv

LEMMA NextHistory == WellFormed /\ HistoryInv /\ [Next]_vars => HistoryInv'
BY StepKinds, NextWellFormed, SendHistory, ReceiveHistory, QuietHistory

LEMMA SpecHistory == Spec => [](WellFormed /\ HistoryInv)
<1> QED
  BY InitWellFormed, NextWellFormed, InitHistory, NextHistory, PTL DEF Spec

-----------------------------------------------------------------------------
(* Registered secrets and expired locks.                                   *)

Offchain(end) == end.lockedlocks \cup end.unlockedlocks

(* A node is behind the chain by the confirmations, has processed the      *)
(* registrations up to its block, and announces an expiration late.        *)
BlocksInv ==
  /\ \A n \in Nodes :
       /\ block_number[n] + DEFAULT_NUMBER_OF_BLOCK_CONFIRMATIONS <= latest
       /\ \A s \in revealed[n] : registered[s] # 0
       /\ \A s \in Secrethashes :
            registered[s] # 0 /\ registered[s] <= block_number[n] => s \in revealed[n]
  /\ \A m \in msgs : m.type = "LockExpired" =>
       get_sender_expiration_threshold(m.lock) <= block_number[m.from]

(* A lock whose registration was processed is among the claimable ones if  *)
(* and only if the registration was in time.                               *)
RevealInv ==
  \A n \in Nodes :
    /\ \A l \in Offchain(our_state[n]) :
         l.secrethash \in revealed[n] => registered[l.secrethash] > l.expiration
    /\ \A l \in our_state[n].onchain_unlockedlocks \cup partner_state[n].onchain_unlockedlocks :
         registered[l.secrethash] # 0 /\ registered[l.secrethash] <= l.expiration

ClaimInv == BlocksInv /\ RevealInv /\ NoExpiryOfRegistered

LEMMA InitClaim == Init => ClaimInv
<1> SUFFICES ASSUME Init
             PROVE  ClaimInv
  OBVIOUS
<1>1. \A n \in Nodes : /\ Offchain(our_state[n]) = {}
                       /\ our_state[n].onchain_unlockedlocks = {}
                       /\ partner_state[n].onchain_unlockedlocks = {}
  BY DEF Init, NewEndState, Offchain
<1>2. msgs = {} /\ \A n \in Nodes : block_number[n] = 0 /\ revealed[n] = {}
  BY DEF Init
<1>3. latest = DEFAULT_NUMBER_OF_BLOCK_CONFIRMATIONS /\ \A s \in Secrethashes : registered[s] = 0
  BY DEF Init
<1>4. 0 + DEFAULT_NUMBER_OF_BLOCK_CONFIRMATIONS <= DEFAULT_NUMBER_OF_BLOCK_CONFIRMATIONS
  BY LimitsAssumption
<1> QED
  BY <1>1, <1>2, <1>3, <1>4 DEF ClaimInv, BlocksInv, RevealInv, NoExpiryOfRegistered

(* Where the updates of an end state move its locks.                       *)
LEMMA MovedLocks ==
  ASSUME NEW end \in EndState, NEW bp, NEW lock
  PROVE  /\ Offchain(add_lock(end, bp, lock)) \subseteq Offchain(end) \cup {lock}
         /\ add_lock(end, bp, lock).onchain_unlockedlocks = end.onchain_unlockedlocks
         /\ Offchain(claim_lock(end, bp, lock)) \subseteq Offchain(end)
         /\ claim_lock(end, bp, lock).onchain_unlockedlocks
              = Without(end.onchain_unlockedlocks, lock.secrethash)
         /\ Offchain(drop_lock(end, bp, lock)) \subseteq Offchain(end)
         /\ drop_lock(end, bp, lock).onchain_unlockedlocks = end.onchain_unlockedlocks
<1>1. /\ Offchain(add_lock(end, bp, lock)) \subseteq Offchain(end) \cup {lock}
      /\ add_lock(end, bp, lock).onchain_unlockedlocks = end.onchain_unlockedlocks
  BY DEF EndState, add_lock, Offchain, Without
<1>2. /\ Offchain(claim_lock(end, bp, lock)) \subseteq Offchain(end)
      /\ claim_lock(end, bp, lock).onchain_unlockedlocks
           = Without(end.onchain_unlockedlocks, lock.secrethash)
  BY DEF EndState, claim_lock, Offchain, Without
<1>3. /\ Offchain(drop_lock(end, bp, lock)) \subseteq Offchain(end)
      /\ drop_lock(end, bp, lock).onchain_unlockedlocks = end.onchain_unlockedlocks
  BY DEF EndState, drop_lock, Offchain, Without
<1> QED
  BY <1>1, <1>2, <1>3

LEMMA KeptLocks ==
  ASSUME NEW end \in EndState, NEW x
  PROVE  /\ Offchain(register_secret_endstate(end, x)) \subseteq Offchain(end)
         /\ register_secret_endstate(end, x).onchain_unlockedlocks = end.onchain_unlockedlocks
         /\ Offchain(update_contract_balance(end, x)) = Offchain(end)
         /\ update_contract_balance(end, x).onchain_unlockedlocks = end.onchain_unlockedlocks
<1>1. /\ Offchain(register_secret_endstate(end, x)) \subseteq Offchain(end)
      /\ register_secret_endstate(end, x).onchain_unlockedlocks = end.onchain_unlockedlocks
  BY DEF EndState, register_secret_endstate, Offchain, Without, Keyed
<1>2. /\ Offchain(update_contract_balance(end, x)) = Offchain(end)
      /\ update_contract_balance(end, x).onchain_unlockedlocks = end.onchain_unlockedlocks
  BY DEF EndState, update_contract_balance, Offchain
<1> QED
  BY <1>1, <1>2

(* A registration takes the lock of its secret to the claimable ones, or   *)
(* leaves it because it is too late; it takes none from them.              *)
LEMMA ClaimableLocks ==
  ASSUME NEW end \in EndState, Coherent(end), NEW s, NEW b \in Nat
  PROVE  LET new == register_onchain_secret_endstate(end, s, b)
         IN  /\ Offchain(new) \subseteq Offchain(end)
             /\ \A l \in Offchain(new) : l.secrethash = s => b > l.expiration
             /\ \A l \in new.onchain_unlockedlocks :
                  l \in end.onchain_unlockedlocks \/ (l.secrethash = s /\ b <= l.expiration)
             /\ end.onchain_unlockedlocks \subseteq new.onchain_unlockedlocks
<1> DEFINE new == register_onchain_secret_endstate(end, s, b)
           pending == IF Keyed(end.unlockedlocks, s) # {}
                      THEN Keyed(end.unlockedlocks, s)
                      ELSE Keyed(end.lockedlocks, s)
           in_time == {l \in pending : l.expiration >= b}
<1>1. pending \subseteq Offchain(end) /\ \A l \in pending : l.secrethash = s
  BY DEF Keyed, Offchain
<1>2. \A l \in Offchain(end) : l \in end.merkletree /\ l \notin end.onchain_unlockedlocks
                               /\ l \in Locks
  BY DEF Coherent, Offchain, pending_locks, EndState
<1>3. \A k, l \in end.merkletree : k.secrethash = l.secrethash => k = l
  BY DEF Coherent
<1>4. \A l \in Offchain(end) : l.secrethash = s => l \in pending
  <2>1. \A l \in Offchain(end) : l.secrethash = s => pending # {}
    BY DEF Keyed, Offchain
  <2> HIDE DEF pending
  <2> QED
    BY <1>1, <1>2, <1>3, <2>1
<1>5. \A l \in Locks : l.expiration \in Nat
  BY LocksAssumption
<1>6. CASE in_time = {}
  <2>1. new = end
    BY <1>6 DEF register_onchain_secret_endstate
  <2>2. \A l \in pending : b > l.expiration
    <3> HIDE DEF pending
    <3> QED
      BY <1>1, <1>2, <1>5, <1>6
  <2> HIDE DEF new, pending
  <2> QED
    BY <1>4, <2>1, <2>2 DEF new
<1>7. CASE in_time # {}
  <2>1. new = [end EXCEPT !.lockedlocks = Without(end.lockedlocks, s),
                          !.unlockedlocks = Without(end.unlockedlocks, s),
                          !.onchain_unlockedlocks = Without(end.onchain_unlockedlocks, s)
                                                      \cup in_time]
    BY <1>7 DEF register_onchain_secret_endstate
  <2>2. PICK k \in pending : k.expiration >= b
    BY <1>7
  <2> HIDE DEF in_time, new, pending
  <2>3. /\ new.lockedlocks = Without(end.lockedlocks, s)
        /\ new.unlockedlocks = Without(end.unlockedlocks, s)
        /\ new.onchain_unlockedlocks = Without(end.onchain_unlockedlocks, s) \cup in_time
    BY <2>1 DEF EndState
  <2>4. \A l \in Offchain(new) : l \in Offchain(end) /\ l.secrethash # s
    BY <2>3 DEF Offchain, Without
  <2>5. \A l \in in_time : l.secrethash = s /\ b <= l.expiration
    BY <1>1, <1>2, <1>5 DEF in_time
  <2>6. \A l \in end.onchain_unlockedlocks : l.secrethash # s
    <3>1. k \in Offchain(end) /\ k.secrethash = s
      BY <1>1, <2>2
    <3>2. end.onchain_unlockedlocks \subseteq end.merkletree
      BY DEF Coherent, pending_locks
    <3> QED
      BY <1>2, <1>3, <3>1, <3>2
  <2>7. Without(end.onchain_unlockedlocks, s) = end.onchain_unlockedlocks
    BY <2>6 DEF Without
  <2> QED
    BY <2>3, <2>4, <2>5, <2>7 DEF new
<1> QED
  BY <1>6, <1>7

(* The steps that learn nothing new of the chain.                          *)
LEMMA LocksOnly ==
  ASSUME WellFormed, ClaimInv,
         UNCHANGED <<latest, registered, revealed, block_number>>,
         \A n \in Nodes :
           /\ \A l \in Offchain(our_state'[n]) :
                l \in Offchain(our_state[n]) \/ (l \in Locks /\ registered[l.secrethash] = 0)
           /\ our_state'[n].onchain_unlockedlocks \subseteq our_state[n].onchain_unlockedlocks
           /\ partner_state'[n].onchain_unlockedlocks \subseteq partner_state[n].onchain_unlockedlocks,
         \A m \in msgs' : m \in msgs \/ m.type # "LockExpired"
           \/ /\ get_sender_expiration_threshold(m.lock) <= block_number[m.from]
              /\ \/ registered[m.lock.secrethash] = 0
                 \/ registered[m.lock.secrethash] > m.lock.expiration
  PROVE  ClaimInv'
<1>1. BlocksInv'
  BY DEF ClaimInv, BlocksInv, get_sender_expiration_threshold
<1>2. NoExpiryOfRegistered'
  BY DEF ClaimInv, NoExpiryOfRegistered
<1>3. RevealInv'
  <2>1. ASSUME NEW n \in Nodes
        PROVE  /\ \A l \in Offchain(our_state'[n]) :
                    l.secrethash \in revealed[n] => registered[l.secrethash] > l.expiration
               /\ \A l \in our_state'[n].onchain_unlockedlocks
                             \cup partner_state'[n].onchain_unlockedlocks :
                    registered[l.secrethash] # 0 /\ registered[l.secrethash] <= l.expiration
    <3>1. \A s \in revealed[n] : registered[s] # 0
      BY DEF ClaimInv, BlocksInv
    <3> QED
      BY <3>1 DEF ClaimInv, RevealInv
  <2> QED
    BY <2>1 DEF RevealInv, Offchain
<1> QED
  BY <1>1, <1>2, <1>3 DEF ClaimInv

(* A node only announces an expiration that no registration in time can    *)
(* contradict: it has processed the registrations up to then.              *)
LEMMA ExpiryIsFinal ==
  ASSUME WellFormed, ClaimInv, NEW n \in Nodes, NEW lock \in Offchain(our_state[n]),
         block_number[n] >= get_sender_expiration_threshold(lock)
  PROVE  registered[lock.secrethash] = 0 \/ registered[lock.secrethash] > lock.expiration
<1>1. lock \in Locks /\ lock.secrethash \in Secrethashes /\ lock.expiration \in Nat
  BY Ends, LocksAssumption DEF Offchain, EndState, Secrethashes
<1>2. registered[lock.secrethash] \in Nat /\ block_number[n] \in Nat
  BY <1>1 DEF WellFormed, TypeOK
<1>3. block_number[n] >= lock.expiration
  BY <1>1, <1>2, LimitsAssumption DEF get_sender_expiration_threshold
<1>4. CASE registered[lock.secrethash] # 0 /\ registered[lock.secrethash] <= lock.expiration
  <2>1. registered[lock.secrethash] <= block_number[n]
    BY <1>1, <1>2, <1>3, <1>4
  <2>2. lock.secrethash \in revealed[n]
    BY <1>1, <1>4, <2>1 DEF ClaimInv, BlocksInv
  <2> QED
    BY <2>2 DEF ClaimInv, RevealInv
<1> QED
  BY <1>1, <1>2, <1>4

(* Sending touches one end and adds one message.                           *)
LEMMA SendClaim ==
  ASSUME WellFormed, ClaimInv, NEW n \in Nodes, NEW new, NEW type, NEW lock, NEW bp,
         our_state' = [our_state EXCEPT ![n] = new], Send(n, type, lock, bp),
         UNCHANGED <<partner_state, chainVars, viewVars>>,
         \A l \in Offchain(new) :
           l \in Offchain(our_state[n]) \/ (l \in Locks /\ registered[l.secrethash] = 0),
         new.onchain_unlockedlocks \subseteq our_state[n].onchain_unlockedlocks,
         \/ type # "LockExpired"
         \/ /\ get_sender_expiration_threshold(lock) <= block_number[n]
            /\ registered[lock.secrethash] = 0 \/ registered[lock.secrethash] > lock.expiration
  PROVE  ClaimInv'
<1>1. our_state'[n] = new /\ \A k \in Nodes \ {n} : our_state'[k] = our_state[k]
  BY DEF WellFormed, TypeOK
<1>2. ASSUME NEW k \in Nodes
      PROVE  /\ \A l \in Offchain(our_state'[k]) :
                  l \in Offchain(our_state[k]) \/ (l \in Locks /\ registered[l.secrethash] = 0)
             /\ our_state'[k].onchain_unlockedlocks \subseteq our_state[k].onchain_unlockedlocks
             /\ partner_state'[k].onchain_unlockedlocks
                  \subseteq partner_state[k].onchain_unlockedlocks
  <2>1. CASE k = n
    BY <1>1, <2>1
  <2>2. CASE k # n
    BY <1>1, <2>2
  <2> QED
    BY <2>1, <2>2
<1>3. \A m \in msgs' : m \in msgs \/ m.type # "LockExpired"
        \/ /\ get_sender_expiration_threshold(m.lock) <= block_number[m.from]
           /\ \/ registered[m.lock.secrethash] = 0
              \/ registered[m.lock.secrethash] > m.lock.expiration
  BY DEF Send
<1>4. UNCHANGED <<latest, registered, revealed, block_number>>
  BY DEF chainVars, viewVars
<1> QED
  BY <1>2, <1>3, <1>4, LocksOnly

(* Accepting a message takes no lock to the claimable ones.                *)
LEMMA ReceiveClaim ==
  ASSUME WellFormed, ClaimInv, NEW n \in Nodes, NEW new,
         partner_state' = [partner_state EXCEPT ![n] = new],
         UNCHANGED <<our_state, msgs, chainVars, viewVars>>,
         new.onchain_unlockedlocks \subseteq partner_state[n].onchain_unlockedlocks
  PROVE  ClaimInv'
<1>1. partner_state'[n] = new /\ \A k \in Nodes \ {n} : partner_state'[k] = partner_state[k]
  BY DEF WellFormed, TypeOK
<1>2. ASSUME NEW k \in Nodes
      PROVE  partner_state'[k].onchain_unlockedlocks
               \subseteq partner_state[k].onchain_unlockedlocks
  <2>1. CASE k = n
    BY <1>1, <2>1
  <2>2. CASE k # n
    BY <1>1, <2>2
  <2> QED
    BY <2>1, <2>2
<1>3. UNCHANGED <<our_state, msgs, latest, registered, revealed, block_number>>
  BY DEF chainVars, viewVars
<1> QED
  BY <1>2, <1>3, LocksOnly

(* Deposits move no lock.                                                  *)
LEMMA DepositsLocks ==
  ASSUME WellFormed, NEW n \in Nodes, NEW ds, ApplyDeposits(n, ds), NEW k \in Nodes
  PROVE  /\ Offchain(our_state'[k]) = Offchain(our_state[k])
         /\ our_state'[k].onchain_unlockedlocks = our_state[k].onchain_unlockedlocks
         /\ partner_state'[k].onchain_unlockedlocks = partner_state[k].onchain_unlockedlocks
<1>1. PICK ours, theirs :
        /\ our_state' = [our_state EXCEPT ![n] = update_contract_balance(our_state[n], ours)]
        /\ partner_state' =
             [partner_state EXCEPT ![n] = update_contract_balance(partner_state[n], theirs)]
  BY DEF ApplyDeposits
<1>2. CASE k = n
  <2>1. /\ our_state'[n] = update_contract_balance(our_state[n], ours)
        /\ partner_state'[n] = update_contract_balance(partner_state[n], theirs)
    BY <1>1 DEF WellFormed, TypeOK
  <2>2. our_state[n] \in EndState /\ partner_state[n] \in EndState
    BY Ends
  <2> QED
    BY <1>2, <2>1, <2>2, KeptLocks
<1>3. CASE k # n
  <2>1. our_state'[k] = our_state[k] /\ partner_state'[k] = partner_state[k]
    BY <1>1, <1>3 DEF WellFormed, TypeOK
  <2> QED
    BY <2>1
<1> QED
  BY <1>2, <1>3

LEMMA SendStepClaim ==
  ASSUME WellFormed, ClaimInv, NEW n \in Nodes, SendNext(n)
  PROVE  ClaimInv'
<1> DEFINE end == our_state[n]
<1>1. PICK lock \in Locks : \/ SendLockedTransfer(n, lock) \/ SendRefundTransfer(n, lock)
                            \/ SendUnlock(n, lock) \/ SendLockExpired(n, lock)
  BY DEF SendNext
<1>2. \A q, l :
        /\ Offchain(add_lock(end, q, l)) \subseteq Offchain(end) \cup {l}
        /\ add_lock(end, q, l).onchain_unlockedlocks = end.onchain_unlockedlocks
        /\ Offchain(claim_lock(end, q, l)) \subseteq Offchain(end)
        /\ claim_lock(end, q, l).onchain_unlockedlocks
             = Without(end.onchain_unlockedlocks, l.secrethash)
        /\ Offchain(drop_lock(end, q, l)) \subseteq Offchain(end)
        /\ drop_lock(end, q, l).onchain_unlockedlocks = end.onchain_unlockedlocks
  BY Ends, MovedLocks
<1>3. CASE SendLockedTransfer(n, lock) \/ SendRefundTransfer(n, lock)
  <2> DEFINE bp == balance_proof_with(end, lock)
             new == add_lock(end, bp, lock)
  <2>1. registered[lock.secrethash] = 0
    BY <1>3 DEF SendLockedTransfer, SendRefundTransfer, CanSendLock
  <2>2. /\ our_state' = [our_state EXCEPT ![n] = new]
        /\ \E type \in {"LockedTransfer", "RefundTransfer"} : Send(n, type, lock, bp)
        /\ UNCHANGED <<partner_state, chainVars, viewVars>>
    BY <1>3 DEF SendLockedTransfer, SendRefundTransfer
  <2>3. /\ Offchain(new) \subseteq Offchain(end) \cup {lock}
        /\ new.onchain_unlockedlocks = end.onchain_unlockedlocks
    BY <1>2
  <2> HIDE DEF new, bp
  <2> QED
    BY <2>1, <2>2, <2>3, SendClaim
<1>4. CASE SendUnlock(n, lock)
  <2> DEFINE bp == balance_proof_claiming(end, lock)
             new == claim_lock(end, bp, lock)
  <2>1. /\ our_state' = [our_state EXCEPT ![n] = new]
        /\ Send(n, "Unlock", lock, bp)
        /\ UNCHANGED <<partner_state, chainVars, viewVars>>
    BY <1>4 DEF SendUnlock
  <2>2. /\ Offchain(new) \subseteq Offchain(end)
        /\ new.onchain_unlockedlocks = Without(end.onchain_unlockedlocks, lock.secrethash)
    BY <1>2
  <2>3. new.onchain_unlockedlocks \subseteq end.onchain_unlockedlocks
    BY <2>2 DEF Without
  <2> HIDE DEF new, bp
  <2> QED
    BY <2>1, <2>2, <2>3, SendClaim
<1>5. CASE SendLockExpired(n, lock)
  <2> DEFINE bp == balance_proof_without(end, lock)
             new == drop_lock(end, bp, lock)
  <2>1. /\ our_state' = [our_state EXCEPT ![n] = new]
        /\ Send(n, "LockExpired", lock, bp)
        /\ UNCHANGED <<partner_state, chainVars, viewVars>>
    BY <1>5 DEF SendLockExpired
  <2>2. /\ Offchain(new) \subseteq Offchain(end)
        /\ new.onchain_unlockedlocks = end.onchain_unlockedlocks
    BY <1>2
  <2>3. lock \in Offchain(end) /\ block_number[n] >= get_sender_expiration_threshold(lock)
    BY <1>5 DEF SendLockExpired, Offchain, is_lock_expired
  <2>4. registered[lock.secrethash] = 0 \/ registered[lock.secrethash] > lock.expiration
    BY <2>3, ExpiryIsFinal
  <2>5. get_sender_expiration_threshold(lock) \in Nat /\ block_number[n] \in Nat
    BY LocksAssumption, LimitsAssumption DEF get_sender_expiration_threshold, WellFormed, TypeOK
  <2>6. get_sender_expiration_threshold(lock) <= block_number[n]
    BY <2>3, <2>5
  <2> HIDE DEF new, bp
  <2> QED
    BY <2>1, <2>2, <2>4, <2>6, SendClaim
<1> QED
  BY <1>1, <1>3, <1>4, <1>5

LEMMA ReceiveStepClaim ==
  ASSUME WellFormed, ClaimInv, NEW n \in Nodes, ReceiveNext(n)
  PROVE  ClaimInv'
<1> DEFINE end == partner_state[n]
<1>1. PICK msg \in msgs : \/ ReceiveLockedTransfer(n, msg) \/ ReceiveRefundTransfer(n, msg)
                          \/ ReceiveUnlock(n, msg) \/ ReceiveLockExpired(n, msg)
  BY DEF ReceiveNext
<1>2. /\ UNCHANGED <<our_state, msgs, chainVars, viewVars>>
      /\ \E lock, new :
           /\ partner_state' = [partner_state EXCEPT ![n] = new]
           /\ \/ new = add_lock(end, msg.balance_proof, lock)
              \/ new = claim_lock(end, msg.balance_proof, lock)
              \/ new = drop_lock(end, msg.balance_proof, lock)
  BY <1>1 DEF ReceiveLockedTransfer, ReceiveRefundTransfer, ReceiveUnlock, ReceiveLockExpired
<1>3. PICK lock, new :
        /\ partner_state' = [partner_state EXCEPT ![n] = new]
        /\ \/ new = add_lock(end, msg.balance_proof, lock)
           \/ new = claim_lock(end, msg.balance_proof, lock)
           \/ new = drop_lock(end, msg.balance_proof, lock)
  BY <1>2
<1>4. \A q, l :
        /\ Offchain(add_lock(end, q, l)) \subseteq Offchain(end) \cup {l}
        /\ add_lock(end, q, l).onchain_unlockedlocks = end.onchain_unlockedlocks
        /\ Offchain(claim_lock(end, q, l)) \subseteq Offchain(end)
        /\ claim_lock(end, q, l).onchain_unlockedlocks
             = Without(end.onchain_unlockedlocks, l.secrethash)
        /\ Offchain(drop_lock(end, q, l)) \subseteq Offchain(end)
        /\ drop_lock(end, q, l).onchain_unlockedlocks = end.onchain_unlockedlocks
  BY Ends, MovedLocks
<1>5. \/ new.onchain_unlockedlocks = end.onchain_unlockedlocks
      \/ new.onchain_unlockedlocks = Without(end.onchain_unlockedlocks, lock.secrethash)
  BY <1>3, <1>4
<1>6. new.onchain_unlockedlocks \subseteq end.onchain_unlockedlocks
  BY <1>5 DEF Without
<1> QED
  BY <1>2, <1>3, <1>6, ReceiveClaim

(* What a node learns of secrets, deposits and blocks.                     *)
LEMMA OffchainClaim ==
  ASSUME WellFormed, ClaimInv, NEW n \in Nodes, NEW s \in Secrethashes,
         RegisterOffchainSecret(n, s)
  PROVE  ClaimInv'
<1>1. /\ our_state'[n] = register_secret_endstate(our_state[n], s)
      /\ partner_state'[n] = register_secret_endstate(partner_state[n], s)
      /\ \A k \in Nodes \ {n} : our_state'[k] = our_state[k] /\ partner_state'[k] = partner_state[k]
      /\ UNCHANGED <<msgs, latest, registered, revealed, block_number>>
  BY DEF RegisterOffchainSecret, WellFormed, TypeOK, chainVars, viewVars
<1>2. ASSUME NEW k \in Nodes
      PROVE  /\ Offchain(our_state'[k]) \subseteq Offchain(our_state[k])
             /\ our_state'[k].onchain_unlockedlocks = our_state[k].onchain_unlockedlocks
             /\ partner_state'[k].onchain_unlockedlocks = partner_state[k].onchain_unlockedlocks
  <2>1. our_state[n] \in EndState /\ partner_state[n] \in EndState
    BY Ends
  <2>2. CASE k = n
    BY <1>1, <2>1, <2>2, KeptLocks
  <2>3. CASE k # n
    <3>1. our_state'[k] = our_state[k] /\ partner_state'[k] = partner_state[k]
      BY <1>1, <2>3
    <3> QED
      BY <3>1
  <2> QED
    BY <2>2, <2>3
<1> QED
  BY <1>1, <1>2, LocksOnly

LEMMA OnchainClaim ==
  ASSUME WellFormed, ClaimInv, NEW n \in Nodes, NEW s \in Secrethashes,
         RegisterOnchainSecret(n, s)
  PROVE  ClaimInv'
<1>1. /\ our_state'[n] = register_onchain_secret_endstate(our_state[n], s, registered[s])
      /\ partner_state'[n] = register_onchain_secret_endstate(partner_state[n], s, registered[s])
      /\ \A k \in Nodes \ {n} : our_state'[k] = our_state[k] /\ partner_state'[k] = partner_state[k]
      /\ UNCHANGED <<msgs, latest, registered, block_number>>
      /\ revealed'[n] = revealed[n] \cup {s}
      /\ \A k \in Nodes \ {n} : revealed'[k] = revealed[k]
  BY DEF RegisterOnchainSecret, WellFormed, TypeOK, chainVars
<1>2. registered[s] # 0 /\ registered[s] \in Nat
  BY DEF RegisterOnchainSecret, WellFormed, TypeOK
<1>3. BlocksInv'
  <2>1. ASSUME NEW k \in Nodes
        PROVE  /\ revealed[k] \subseteq revealed'[k]
               /\ \A x \in revealed'[k] : registered[x] # 0
    <3>1. \A x \in revealed[k] : registered[x] # 0
      BY DEF ClaimInv, BlocksInv
    <3>2. CASE k = n
      BY <1>1, <1>2, <3>1, <3>2
    <3>3. CASE k # n
      BY <1>1, <3>1, <3>3
    <3> QED
      BY <3>2, <3>3
  <2> QED
    BY <1>1, <2>1 DEF ClaimInv, BlocksInv, get_sender_expiration_threshold
<1>4. NoExpiryOfRegistered'
  BY <1>1 DEF ClaimInv, NoExpiryOfRegistered
<1>5. ASSUME NEW k \in Nodes
      PROVE  /\ \A l \in Offchain(our_state'[k]) :
                  l.secrethash \in revealed'[k] => registered[l.secrethash] > l.expiration
             /\ \A l \in our_state'[k].onchain_unlockedlocks
                           \cup partner_state'[k].onchain_unlockedlocks :
                  registered[l.secrethash] # 0 /\ registered[l.secrethash] <= l.expiration
  <2>1. /\ \A l \in Offchain(our_state[k]) :
             l.secrethash \in revealed[k] => registered[l.secrethash] > l.expiration
        /\ \A l \in our_state[k].onchain_unlockedlocks \cup partner_state[k].onchain_unlockedlocks :
             registered[l.secrethash] # 0 /\ registered[l.secrethash] <= l.expiration
    BY DEF ClaimInv, RevealInv
  <2>2. CASE k = n
    <3>1. /\ our_state[n] \in EndState /\ Coherent(our_state[n])
          /\ partner_state[n] \in EndState /\ Coherent(partner_state[n])
      BY Ends
    <3>2. /\ Offchain(our_state'[n]) \subseteq Offchain(our_state[n])
          /\ \A l \in Offchain(our_state'[n]) : l.secrethash = s => registered[s] > l.expiration
          /\ \A l \in our_state'[n].onchain_unlockedlocks :
               \/ l \in our_state[n].onchain_unlockedlocks
               \/ l.secrethash = s /\ registered[s] <= l.expiration
      BY <1>1, <1>2, <3>1, ClaimableLocks
    <3>3. \A l \in partner_state'[n].onchain_unlockedlocks :
            \/ l \in partner_state[n].onchain_unlockedlocks
            \/ l.secrethash = s /\ registered[s] <= l.expiration
      BY <1>1, <1>2, <3>1, ClaimableLocks
    <3> QED
      BY <1>1, <1>2, <2>1, <2>2, <3>2, <3>3
  <2>3. CASE k # n
    <3>1. /\ our_state'[k] = our_state[k] /\ partner_state'[k] = partner_state[k]
          /\ revealed'[k] = revealed[k]
      BY <1>1, <2>3
    <3> QED
      BY <2>1, <3>1
  <2> QED
    BY <2>2, <2>3
<1>6. RevealInv'
  BY <1>1, <1>5 DEF RevealInv, Offchain
<1> QED
  BY <1>3, <1>4, <1>6 DEF ClaimInv

LEMMA BlockClaim ==
  ASSUME WellFormed, ClaimInv, NEW n \in Nodes, NEW b \in 1 .. confirmed_block_number,
         HandleBlock(n, b)
  PROVE  ClaimInv'
<1>1. /\ block_number[n] < b /\ b <= latest - DEFAULT_NUMBER_OF_BLOCK_CONFIRMATIONS
      /\ \A s \in Secrethashes : registered[s] # 0 /\ registered[s] <= b => s \in revealed[n]
      /\ block_number'[n] = b /\ \A k \in Nodes \ {n} : block_number'[k] = block_number[k]
      /\ UNCHANGED <<msgs, latest, registered, revealed>>
  BY DEF HandleBlock, confirmed_block_number, WellFormed, TypeOK, chainVars
<1>2. /\ latest \in Nat /\ DEFAULT_NUMBER_OF_BLOCK_CONFIRMATIONS \in Nat /\ b \in Int
      /\ \A k \in Nodes : block_number[k] \in Nat
  BY LimitsAssumption DEF WellFormed, TypeOK, confirmed_block_number
<1>3. ASSUME NEW k \in Nodes
      PROVE  /\ block_number[k] <= block_number'[k]
             /\ block_number'[k] \in Int
             /\ block_number'[k] + DEFAULT_NUMBER_OF_BLOCK_CONFIRMATIONS <= latest
             /\ \A s \in Secrethashes :
                  registered[s] # 0 /\ registered[s] <= block_number'[k] => s \in revealed[k]
  <2>1. CASE k = n
    BY <1>1, <1>2, <2>1
  <2>2. CASE k # n
    <3>1. block_number'[k] = block_number[k]
      BY <1>1, <2>2
    <3> QED
      BY <1>2, <3>1 DEF ClaimInv, BlocksInv
  <2> QED
    BY <2>1, <2>2
<1>4. ASSUME NEW m \in msgs, m.type = "LockExpired"
      PROVE  m.lock.expiration + 2 * DEFAULT_NUMBER_OF_BLOCK_CONFIRMATIONS <= block_number'[m.from]
  <2>1. m.from \in Nodes /\ m.lock.expiration \in Nat
    BY LocksAssumption DEF WellFormed, TypeOK, Message
  <2>2. m.lock.expiration + 2 * DEFAULT_NUMBER_OF_BLOCK_CONFIRMATIONS <= block_number[m.from]
    BY <1>4 DEF ClaimInv, BlocksInv, get_sender_expiration_threshold
  <2> QED
    BY <1>2, <1>3, <2>1, <2>2
<1>5. BlocksInv'
  BY <1>1, <1>3, <1>4 DEF ClaimInv, BlocksInv, get_sender_expiration_threshold
<1>6. NoExpiryOfRegistered'
  BY <1>1 DEF ClaimInv, NoExpiryOfRegistered
<1>7. \A k \in Nodes :
        /\ Offchain(our_state'[k]) = Offchain(our_state[k])
        /\ our_state'[k].onchain_unlockedlocks = our_state[k].onchain_unlockedlocks
        /\ partner_state'[k].onchain_unlockedlocks = partner_state[k].onchain_unlockedlocks
  BY DepositsLocks DEF HandleBlock
<1>8. RevealInv'
  BY <1>1, <1>7 DEF ClaimInv, RevealInv, Offchain
<1> QED
  BY <1>5, <1>6, <1>8 DEF ClaimInv

(* A registration is mined in the latest block, which is later than every  *)
(* expiration announced so far.                                            *)
LEMMA RegistrationClaim ==
  ASSUME WellFormed, ClaimInv, NEW s \in Secrethashes, RegisterSecret(s)
  PROVE  ClaimInv'
<1>1. /\ registered[s] = 0 /\ registered'[s] = latest
      /\ \A x \in Secrethashes \ {s} : registered'[x] = registered[x]
      /\ UNCHANGED <<our_state, partner_state, msgs, latest, revealed, block_number>>
  BY DEF RegisterSecret, WellFormed, TypeOK, endVars, viewVars
<1>2. /\ latest \in Nat /\ DEFAULT_NUMBER_OF_BLOCK_CONFIRMATIONS \in Nat
      /\ DEFAULT_NUMBER_OF_BLOCK_CONFIRMATIONS >= 1 /\ \A k \in Nodes : block_number[k] \in Nat
  BY LimitsAssumption DEF WellFormed, TypeOK
<1>3. \A k \in Nodes : block_number[k] + DEFAULT_NUMBER_OF_BLOCK_CONFIRMATIONS <= latest
  BY DEF ClaimInv, BlocksInv
<1>4. \A k \in Nodes : block_number[k] < latest /\ s \notin revealed[k]
  BY <1>1, <1>2, <1>3 DEF ClaimInv, BlocksInv
<1>5. BlocksInv'
  <2>1. ASSUME NEW k \in Nodes
        PROVE  /\ \A x \in revealed[k] : registered'[x] # 0
               /\ \A x \in Secrethashes :
                    registered'[x] # 0 /\ registered'[x] <= block_number[k] => x \in revealed[k]
    <3>1. revealed[k] \subseteq Secrethashes
      BY DEF WellFormed, TypeOK
    <3>2. ~ (latest <= block_number[k])
      BY <1>2, <1>4
    <3> QED
      BY <1>1, <1>4, <3>1, <3>2 DEF ClaimInv, BlocksInv
  <2> QED
    BY <1>1, <2>1 DEF ClaimInv, BlocksInv, get_sender_expiration_threshold
<1>6. NoExpiryOfRegistered'
  <2>1. ASSUME NEW m \in msgs, m.type = "LockExpired"
        PROVE  \/ registered'[m.lock.secrethash] = 0
               \/ registered'[m.lock.secrethash] > m.lock.expiration
    <3>1. m.from \in Nodes /\ m.lock.expiration \in Nat /\ m.lock.secrethash \in Secrethashes
      BY LocksAssumption DEF WellFormed, TypeOK, Message, Secrethashes
    <3>2. m.lock.expiration + 2 * DEFAULT_NUMBER_OF_BLOCK_CONFIRMATIONS <= block_number[m.from]
      BY <2>1 DEF ClaimInv, BlocksInv, get_sender_expiration_threshold
    <3>3. latest > m.lock.expiration
      BY <1>2, <1>4, <3>1, <3>2
    <3> QED
      BY <1>1, <2>1, <3>1, <3>3 DEF ClaimInv, NoExpiryOfRegistered
  <2> QED
    BY <1>1, <2>1 DEF NoExpiryOfRegistered
<1>7. RevealInv'
  <2>1. ASSUME NEW k \in Nodes
        PROVE  /\ \A l \in Offchain(our_state[k]) :
                    l.secrethash \in revealed[k] => registered'[l.secrethash] > l.expiration
               /\ \A l \in our_state[k].onchain_unlockedlocks
                             \cup partner_state[k].onchain_unlockedlocks :
                    registered'[l.secrethash] # 0 /\ registered'[l.secrethash] <= l.expiration
    <3>1. \A l \in Locks : l.secrethash \in Secrethashes
      BY DEF Secrethashes
    <3>2. /\ Offchain(our_state[k]) \subseteq Locks
          /\ our_state[k].onchain_unlockedlocks \subseteq Locks
          /\ partner_state[k].onchain_unlockedlocks \subseteq Locks
      BY Ends DEF EndState, Offchain
    <3> QED
      BY <1>1, <1>4, <3>1, <3>2 DEF ClaimInv, RevealInv
  <2> QED
    BY <1>1, <2>1 DEF RevealInv, Offchain
<1> QED
  BY <1>5, <1>6, <1>7 DEF ClaimInv

LEMMA NextClaim == WellFormed /\ ClaimInv /\ [Next]_vars => ClaimInv'
<1> SUFFICES ASSUME WellFormed, ClaimInv, [Next]_vars
             PROVE  ClaimInv'
  OBVIOUS
<1>1. ASSUME UNCHANGED <<endVars, msgs, registered, revealed, block_number>>, latest' = latest
      PROVE  ClaimInv'
  BY <1>1, LocksOnly DEF endVars
<1>2. ASSUME NEW n \in Nodes, NEW d \in deposits, ReceiveNewBalance(n, d)
      PROVE  ClaimInv'
  <2>1. /\ UNCHANGED <<msgs, latest, registered, revealed, block_number>>
        /\ ApplyDeposits(n, {d}) \/ UNCHANGED endVars
    BY <1>2 DEF ReceiveNewBalance, chainVars
  <2>2. CASE ApplyDeposits(n, {d})
    BY <2>1, <2>2, DepositsLocks, LocksOnly
  <2>3. CASE UNCHANGED endVars
    BY <1>1, <2>1, <2>3
  <2> QED
    BY <2>1, <2>2, <2>3
<1>3. CASE MineBlock
  <2>1. /\ latest' = latest + 1 /\ latest \in Nat
        /\ UNCHANGED <<our_state, partner_state, msgs, registered, revealed, block_number>>
        /\ \A n \in Nodes : block_number[n] \in Nat
        /\ DEFAULT_NUMBER_OF_BLOCK_CONFIRMATIONS \in Nat
    BY <1>3, LimitsAssumption DEF MineBlock, endVars, viewVars, WellFormed, TypeOK
  <2>2. \A n \in Nodes : block_number[n] + DEFAULT_NUMBER_OF_BLOCK_CONFIRMATIONS <= latest'
    BY <2>1 DEF ClaimInv, BlocksInv
  <2>3. BlocksInv'
    BY <2>1, <2>2 DEF ClaimInv, BlocksInv, get_sender_expiration_threshold
  <2>4. RevealInv' /\ NoExpiryOfRegistered'
    BY <2>1 DEF ClaimInv, RevealInv, NoExpiryOfRegistered, Offchain
  <2> QED
    BY <2>3, <2>4 DEF ClaimInv
<1>4. ASSUME NEW n \in Nodes, LeaveOpened(n)
      PROVE  ClaimInv'
  BY <1>1, <1>4 DEF LeaveOpened, chainVars, viewVars
<1>5. ASSUME NEW n \in Nodes, NEW amount \in DepositAmounts, Deposit(n, amount)
      PROVE  ClaimInv'
  BY <1>1, <1>5 DEF Deposit, viewVars
<1>6. CASE UNCHANGED vars
  BY <1>1, <1>6 DEF vars, chainVars, viewVars
<1> QED
  BY <1>2, <1>3, <1>4, <1>5, <1>6, SendStepClaim, ReceiveStepClaim, OffchainClaim, OnchainClaim,
     BlockClaim, RegistrationClaim
  DEF Next, ChainNext, ViewNext

LEMMA SpecClaim == Spec => [](WellFormed /\ HistoryInv /\ ClaimInv)
<1> QED
  BY SpecHistory, InitClaim, NextClaim, PTL DEF Spec

-----------------------------------------------------------------------------
(* The next message of the partner passes the checks.                      *)

(* It was made from the balance proof the receiver holds.                  *)
LEMMA NextMessage ==
  ASSUME WellFormed, HistoryInv, NEW n \in Nodes, NEW m \in SentBy(Partner(n)),
         m.balance_proof.nonce = get_next_nonce(partner_state[n])
  PROVE  /\ Follows(partner_state[n].balance_proof, m)
         /\ Covered(Partner(n), m.balance_proof)
         /\ is_balance_proof_usable_onchain(m.balance_proof, partner_state[n])
<1> DEFINE p   == Partner(n)
           cur == partner_state[n].balance_proof
<1>1. p \in Nodes /\ Partner(p) = n
  BY PartnerType
<1>2. cur \in Signed(p)
  BY <1>1 DEF HistoryInv, ViewInv
<1>3. PICK bp \in Signed(p) : Follows(bp, m)
  BY <1>1 DEF HistoryInv, SequenceInv
<1>4. \A q \in Signed(p) : q.nonce \in Nat
  BY <1>1, ProofTypes DEF Signed
<1>5. bp.nonce = cur.nonce
  <2>1. m.balance_proof.nonce = bp.nonce + 1 /\ m.balance_proof.nonce = cur.nonce + 1
    BY <1>3 DEF Follows, get_next_nonce
  <2> HIDE DEF cur
  <2> QED
    BY <1>2, <1>4, <2>1
<1>6. bp = cur
  <2>1. /\ \A k, h \in SentBy(p) : k.balance_proof.nonce = h.balance_proof.nonce => k = h
        /\ \A k \in SentBy(p) : k.balance_proof.nonce >= 1
    BY <1>1 DEF HistoryInv, SequenceInv
  <2>2. NoBalanceProof.nonce = 0
    BY DEF NoBalanceProof
  <2> HIDE DEF cur, p
  <2> QED
    BY <1>2, <1>5, <2>1, <2>2 DEF Signed
<1>7. Covered(p, m.balance_proof)
  BY <1>1 DEF HistoryInv, CoverageInv
<1>8. is_balance_proof_usable_onchain(m.balance_proof, partner_state[n])
  BY <1>7 DEF Covered, Committed, is_balance_proof_usable_onchain
<1> QED
  BY <1>3, <1>6, <1>7, <1>8

(* A leaf is found by its secrethash.                                      *)
LEMMA LeafIsFound ==
  ASSUME NEW end \in EndState, Coherent(end), NEW lock \in end.merkletree
  PROVE  lock \in get_lock(end, lock.secrethash)
<1>1. \A k \in pending_locks(end) : k.secrethash = lock.secrethash => k = lock
  BY DEF Coherent
<1>2. lock \in pending_locks(end)
  BY DEF Coherent
<1> QED
  BY <1>1, <1>2 DEF get_lock, Keyed, pending_locks

(* A transfer: the sender could afford it with an older view of what it    *)
(* receives than the receiver has of what it paid.                         *)
LEMMA TransferPasses ==
  ASSUME WellFormed, HistoryInv, NEW n \in Nodes, NEW m \in SentBy(Partner(n)),
         m.balance_proof.nonce = get_next_nonce(partner_state[n]),
         m.type \in {"LockedTransfer", "RefundTransfer"}
  PROVE  valid_lockedtransfer_check(
           update_contract_balance(partner_state[n], our_state[Partner(n)].contract_balance),
           our_state[n], m.balance_proof, m.lock)
<1> DEFINE p    == Partner(n)
           view == partner_state[n]
           end  == update_contract_balance(view, our_state[p].contract_balance)
           bp   == m.balance_proof
<1>1. p \in Nodes /\ Partner(p) = n
  BY PartnerType
<1>2. /\ Follows(view.balance_proof, m) /\ Covered(p, bp)
      /\ is_balance_proof_usable_onchain(bp, view)
  BY NextMessage
<1>3. /\ view \in EndState /\ Coherent(view)
      /\ view.balance_proof.transferred_amount \in Nat
      /\ view.balance_proof.locked_amount \in Nat /\ view.contract_balance \in Nat
      /\ view.balance_proof.locksroot = view.merkletree
      /\ view.balance_proof.locked_amount = get_amount_locked(view)
  BY Ends, ProofShows
<1>4. our_state[p].contract_balance \in Nat
  BY <1>1, ProofTypes
<1>5. /\ end.balance_proof = view.balance_proof /\ end.merkletree = view.merkletree
      /\ get_amount_locked(end) = get_amount_locked(view)
  BY <1>3 DEF update_contract_balance, get_amount_locked, EndState
<1>6. /\ end.contract_balance \in Nat
      /\ our_state[p].contract_balance <= end.contract_balance
  <2>1. CASE our_state[p].contract_balance > view.contract_balance
    <3>1. end.contract_balance = our_state[p].contract_balance
      BY <1>3, <2>1 DEF update_contract_balance, EndState
    <3> QED
      BY <1>4, <3>1
  <2>2. CASE ~ (our_state[p].contract_balance > view.contract_balance)
    <3>1. end = view
      BY <2>2 DEF update_contract_balance
    <3> QED
      BY <1>3, <1>4, <2>2, <3>1
  <2> QED
    BY <2>1, <2>2
<1>7. /\ m.lock \notin end.merkletree
      /\ bp.locksroot = end.merkletree \cup {m.lock}
      /\ Cardinality(end.merkletree \cup {m.lock}) <= MAXIMUM_PENDING_TRANSFERS
      /\ bp.transferred_amount = end.balance_proof.transferred_amount
      /\ bp.locked_amount = get_amount_locked(end) + m.lock.amount
  <2> HIDE DEF end, view
  <2> QED
    BY <1>2, <1>3, <1>5 DEF Follows
<1>8. is_balance_proof_usable_onchain(bp, end)
  <2> HIDE DEF end, view, bp
  <2> QED
    BY <1>2, <1>5 DEF is_balance_proof_usable_onchain, get_next_nonce
<1>9. m.lock.amount <= get_distributable(end, our_state[n])
  <2> DEFINE t == view.balance_proof.transferred_amount
             a == view.balance_proof.locked_amount
             e == our_state[n].balance_proof.transferred_amount
             o == partner_state[p].balance_proof.transferred_amount
             c == end.contract_balance
             d == our_state[p].contract_balance
             x == m.lock.amount
  <2>1. get_distributable(end, our_state[n])
          = Smaller(IF t + a <= UINT256_MAX THEN UINT256_MAX - (t + a) ELSE 0, c - t + e - a)
    <3>1. /\ end.balance_proof.transferred_amount = t /\ get_amount_locked(end) = a
          /\ t \in Nat /\ a \in Nat /\ c \in Nat /\ e \in Nat
      BY <1>3, <1>5, <1>6, ProofTypes
    <3> HIDE DEF end, t, a
    <3>2. get_balance(end, our_state[n]) = c - t + e
      BY <3>1 DEF get_balance
    <3> HIDE DEF c, e
    <3> QED
      BY <3>1, <3>2, LimitsAssumption DEF get_distributable, Smaller
  <2>2. t \in Nat /\ a \in Nat /\ c \in Nat /\ d \in Nat /\ d <= c
    BY <1>3, <1>4, <1>6
  <2>3. e \in Nat /\ o \in Nat
    BY <1>1, ProofTypes
  <2>4. x \in Nat
    BY <1>1, ProofTypes, LocksAssumption
  <2>5. o <= e
    <3>1. partner_state[p].balance_proof \in Signed(n)
      BY DEF HistoryInv, ViewInv
    <3> QED
      BY <3>1, ProofIsPast DEF HistoryInv
  <2>6. Committed(bp) = t + (a + x)
    BY <1>2 DEF Follows, Committed
  <2>7. Committed(bp) <= UINT256_MAX /\ Committed(bp) <= d + o
    BY <1>2 DEF Covered
  <2> HIDE DEF t, a, e, o, c, d, x, bp, end
  <2>8. x <= Smaller(IF t + a <= UINT256_MAX THEN UINT256_MAX - (t + a) ELSE 0, c - t + e - a)
    BY <2>2, <2>3, <2>4, <2>5, <2>6, <2>7, LimitsAssumption DEF Smaller
  <2> QED
    BY <2>1, <2>8 DEF x
<1> HIDE DEF end, bp
<1>10. valid_lockedtransfer_check(end, our_state[n], bp, m.lock)
  BY <1>7, <1>8, <1>9 DEF valid_lockedtransfer_check
<1> QED
  BY <1>10 DEF end, bp

LEMMA UnlockPasses ==
  ASSUME WellFormed, HistoryInv, NEW n \in Nodes, NEW m \in SentBy(Partner(n)),
         m.balance_proof.nonce = get_next_nonce(partner_state[n]), m.type = "Unlock"
  PROVE  is_valid_unlock(partner_state[n], m.balance_proof, m.lock.secrethash)
<1> DEFINE view == partner_state[n]
<1>1. Follows(view.balance_proof, m) /\ is_balance_proof_usable_onchain(m.balance_proof, view)
  BY NextMessage
<1>2. /\ view \in EndState /\ Coherent(view)
      /\ view.balance_proof.locksroot = view.merkletree
      /\ view.balance_proof.locked_amount = get_amount_locked(view)
  BY Ends, ProofShows
<1> HIDE DEF view
<1>3. /\ m.lock \in view.merkletree
      /\ m.balance_proof.locksroot = view.merkletree \ {m.lock}
      /\ m.balance_proof.transferred_amount = view.balance_proof.transferred_amount + m.lock.amount
      /\ m.balance_proof.locked_amount = get_amount_locked(view) - m.lock.amount
  BY <1>1, <1>2 DEF Follows
<1>4. m.lock \in get_lock(view, m.lock.secrethash)
  BY <1>2, <1>3, LeafIsFound
<1>5. is_valid_unlock(view, m.balance_proof, m.lock.secrethash)
  BY <1>1, <1>3, <1>4 DEF is_valid_unlock
<1> QED
  BY <1>5 DEF view

(* An expiry: neither view of the lock can be claimable, and the receiver  *)
(* has a smaller threshold than the sender.                                *)
LEMMA ExpiryPasses ==
  ASSUME WellFormed, HistoryInv, ClaimInv, NEW n \in Nodes, NEW m \in SentBy(Partner(n)),
         m.balance_proof.nonce = get_next_nonce(partner_state[n]), m.type = "LockExpired",
         ~ SecretReused(m)
  PROVE  is_valid_lock_expired(partner_state[n], our_state[n], m.balance_proof,
                               m.lock.secrethash, block_number[Partner(n)])
<1> DEFINE p    == Partner(n)
           view == partner_state[n]
           mine == our_state[n]
           s    == m.lock.secrethash
<1>1. p \in Nodes /\ m \in msgs /\ m.from = p
  BY PartnerType DEF SentBy
<1>2. Follows(view.balance_proof, m) /\ is_balance_proof_usable_onchain(m.balance_proof, view)
  BY NextMessage
<1>3. /\ view \in EndState /\ Coherent(view)
      /\ view.balance_proof.locksroot = view.merkletree
      /\ view.balance_proof.locked_amount = get_amount_locked(view)
      /\ mine \in EndState /\ Coherent(mine)
      /\ mine.balance_proof.locksroot = mine.merkletree
  BY Ends, ProofShows
<1>4. \A l \in view.onchain_unlockedlocks \cup mine.onchain_unlockedlocks :
        registered[l.secrethash] # 0 /\ registered[l.secrethash] <= l.expiration
  BY DEF ClaimInv, RevealInv
<1>5. m.lock \in Locks /\ m.lock.expiration \in Nat /\ registered[s] \in Nat
  BY <1>1, ProofTypes, LocksAssumption DEF WellFormed, TypeOK, Secrethashes
<1>6. ~ (registered[s] # 0 /\ registered[s] <= m.lock.expiration)
  <2>1. registered[s] = 0 \/ registered[s] > m.lock.expiration
    BY <1>1 DEF ClaimInv, NoExpiryOfRegistered
  <2> HIDE DEF s
  <2> QED
    BY <1>5, <2>1
<1>7. m.lock \notin view.onchain_unlockedlocks \cup mine.onchain_unlockedlocks
  BY <1>4, <1>6
<1>8. /\ m.lock \in view.merkletree
      /\ m.balance_proof.locksroot = view.merkletree \ {m.lock}
      /\ m.balance_proof.transferred_amount = view.balance_proof.transferred_amount
      /\ m.balance_proof.locked_amount = get_amount_locked(view) - m.lock.amount
  <2> HIDE DEF view
  <2> QED
    BY <1>2, <1>3 DEF Follows
<1>9. m.lock \in get_lock(view, s)
  BY <1>3, <1>8, LeafIsFound
<1>10. Keyed(view.onchain_unlockedlocks, s) = {}
  <2>1. \A l \in view.onchain_unlockedlocks : l.secrethash = s => l = m.lock
    BY <1>3, <1>8 DEF Coherent, pending_locks
  <2> QED
    BY <1>7, <2>1 DEF Keyed
<1>11. Keyed(mine.onchain_unlockedlocks, s) = {}
  <2>1. SUFFICES ASSUME NEW l \in mine.onchain_unlockedlocks, l.secrethash = s
                 PROVE  FALSE
    BY DEF Keyed
  <2>2. l \in mine.balance_proof.locksroot
    BY <1>3 DEF Coherent, pending_locks
  <2>3. mine.balance_proof \in Signed(n)
    BY DEF HistoryInv, ViewInv
  <2>4. mine.balance_proof # NoBalanceProof
    BY <2>2 DEF NoBalanceProof
  <2>5. PICK h \in SentBy(n) : h.balance_proof = mine.balance_proof
    BY <2>3, <2>4 DEF Signed
  <2>6. PICK k \in SentBy(n) : k.lock = l
    BY <2>2, <2>5 DEF HistoryInv, SequenceInv
  <2>7. k \in msgs /\ l # m.lock
    BY <1>7, <2>6 DEF SentBy
  <2> QED
    BY <1>1, <2>1, <2>6, <2>7 DEF SecretReused
<1>12. block_number[p] >= get_receiver_expiration_threshold(m.lock)
  <2>1. get_sender_expiration_threshold(m.lock) <= block_number[p]
    BY <1>1 DEF ClaimInv, BlocksInv
  <2>2. block_number[p] \in Nat
    BY <1>1 DEF WellFormed, TypeOK
  <2> HIDE DEF p
  <2> QED
    BY <1>5, <2>1, <2>2, LimitsAssumption
    DEF get_sender_expiration_threshold, get_receiver_expiration_threshold
<1>13. is_lock_expired(mine, m.lock, block_number[p], get_receiver_expiration_threshold(m.lock))
  BY <1>11, <1>12 DEF is_lock_expired
<1> HIDE DEF view, mine, p
<1>14. is_valid_lock_expired(view, mine, m.balance_proof, s, block_number[p])
  BY <1>2, <1>8, <1>9, <1>10, <1>13 DEF is_valid_lock_expired
<1> QED
  BY <1>14 DEF view, mine, p

(* Every variable keeps its type in every behaviour of the channel.        *)
THEOREM TypeCorrect == Spec => []TypeOK
<1> QED
  BY SpecWellFormed, PTL DEF WellFormed

(* All four end states stay well formed, for any number of locks, messages *)
(* and interleavings: every leaf of a merkle tree can be found when it has *)
(* to be unlocked on chain, and the balance proof commits to these leaves. *)
THEOREM LocksStayCoherent == Spec => []LocksCoherent
<1> QED
  BY SpecWellFormed, PTL DEF WellFormed

(* What a node believes of its partner is what the partner was when it     *)
(* sent that nonce, and no nonce is signed twice, whatever is lost,        *)
(* repeated and reordered: what valid_lockedtransfer_check and the other   *)
(* checks compare a balance proof with.                                    *)
THEOREM PartnerViewStaysPast == Spec => []PartnerViewIsPast
<1>1. WellFormed /\ HistoryInv => PartnerViewIsPast
  <2> SUFFICES ASSUME WellFormed, HistoryInv, NEW n \in Nodes
               PROVE  LET mine == our_state[n].balance_proof
                          seen == partner_state[Partner(n)].balance_proof
                      IN  /\ \A k, m \in SentBy(n) :
                               k.balance_proof.nonce = m.balance_proof.nonce => k = m
                          /\ \A m \in SentBy(n) : m.balance_proof.nonce <= mine.nonce
                          /\ seen = NoBalanceProof \/ \E m \in SentBy(n) : m.balance_proof = seen
                          /\ seen.nonce = mine.nonce => seen = mine
    BY DEF PartnerViewIsPast
  <2> DEFINE mine == our_state[n].balance_proof
             seen == partner_state[Partner(n)].balance_proof
  <2>1. /\ \A k, m \in SentBy(n) : k.balance_proof.nonce = m.balance_proof.nonce => k = m
        /\ \A m \in SentBy(n) : m.balance_proof.nonce <= mine.nonce /\ m.balance_proof.nonce >= 1
    BY DEF HistoryInv, SequenceInv
  <2>2. mine \in Signed(n) /\ seen \in Signed(n)
    BY DEF HistoryInv, ViewInv
  <2>3. NoBalanceProof.nonce = 0
    BY DEF NoBalanceProof
  <2>4. seen.nonce = mine.nonce => seen = mine
    <3> HIDE DEF seen, mine
    <3> QED
      BY <2>1, <2>2, <2>3 DEF Signed
  <2> QED
    BY <2>1, <2>2, <2>4 DEF Signed
<1> QED
  BY <1>1, SpecHistory, PTL

(* Whatever two balance proofs the nodes take to the contract, each is     *)
(* covered by the deposit of its signer and what the other one pays it:    *)
(* get_distributable keeps enough back although the views differ in age.   *)
THEOREM BalanceProofsStayCovered == Spec => []BalanceProofsCovered
<1>1. WellFormed /\ HistoryInv => BalanceProofsCovered
  <2> SUFFICES ASSUME WellFormed, HistoryInv, NEW n \in Nodes
               PROVE  LET spent  == partner_state[Partner(n)].balance_proof
                          earned == partner_state[n].balance_proof
                      IN  \E total \in OnchainDeposits(n) :
                            spent.transferred_amount + spent.locked_amount
                              <= total + earned.transferred_amount
    BY DEF BalanceProofsCovered
  <2> DEFINE spent  == partner_state[Partner(n)].balance_proof
             earned == partner_state[n].balance_proof
             total  == our_state[n].contract_balance
  <2>1. total \in OnchainDeposits(n) /\ \A m \in SentBy(n) : Covered(n, m.balance_proof)
    BY DEF HistoryInv, CoverageInv
  <2>2. spent = NoBalanceProof \/ \E m \in SentBy(n) : m.balance_proof = spent
    BY DEF HistoryInv, ViewInv, Signed
  <2>3. total \in Nat /\ earned.transferred_amount \in Nat
    BY ProofTypes
  <2>4. Committed(spent) <= total + earned.transferred_amount
    <3>1. CASE spent = NoBalanceProof
      <4>1. Committed(spent) = 0
        BY <3>1 DEF Committed, NoBalanceProof
      <4> QED
        BY <2>3, <4>1
    <3>2. CASE \E m \in SentBy(n) : m.balance_proof = spent
      BY <2>1, <3>2 DEF Covered
    <3> QED
      BY <2>2, <3>1, <3>2
  <2> QED
    BY <2>1, <2>4 DEF Committed
<1> QED
  BY <1>1, SpecHistory, PTL
(* A node never announces the expiry of a lock that the receiver can claim *)
(* on chain: is_lock_expired waits until every registration in time has    *)
(* been confirmed and processed, whatever the pace of the two nodes.       *)
THEOREM RegisteredNeverExpires == Spec => []NoExpiryOfRegistered
<1> QED
  BY SpecClaim, PTL DEF ClaimInv
(* A received lock whose secret was registered in time leaves the view of  *)
(* the partner only when an Unlock pays it: drop_lock keeps away from the  *)
(* claimable locks, and is_valid_unlock insists on the amount.             *)
THEOREM ClaimableLeavesPaid == Spec => OnlyPaymentRemovesClaimable
<1> DEFINE Step ==
             \A n \in Nodes : \A lock \in partner_state[n].onchain_unlockedlocks :
               \/ lock \in partner_state'[n].onchain_unlockedlocks
               \/ partner_state'[n].balance_proof.transferred_amount
                    = partner_state[n].balance_proof.transferred_amount + lock.amount
<1>1. ASSUME UNCHANGED partner_state
      PROVE  Step
  BY <1>1
<1>2. ASSUME WellFormed, NEW n \in Nodes, NEW new,
             partner_state' = [partner_state EXCEPT ![n] = new],
             \A lock \in partner_state[n].onchain_unlockedlocks :
               \/ lock \in new.onchain_unlockedlocks
               \/ new.balance_proof.transferred_amount
                    = partner_state[n].balance_proof.transferred_amount + lock.amount
      PROVE  Step
  <2>1. partner_state'[n] = new /\ \A k \in Nodes \ {n} : partner_state'[k] = partner_state[k]
    BY <1>2 DEF WellFormed, TypeOK
  <2>2. SUFFICES ASSUME NEW k \in Nodes, NEW lock \in partner_state[k].onchain_unlockedlocks
                 PROVE  \/ lock \in partner_state'[k].onchain_unlockedlocks
                        \/ partner_state'[k].balance_proof.transferred_amount
                             = partner_state[k].balance_proof.transferred_amount + lock.amount
    OBVIOUS
  <2>3. CASE k = n
    BY <1>2, <2>1, <2>3
  <2>4. CASE k # n
    BY <2>1, <2>4
  <2> QED
    BY <2>3, <2>4
<1> HIDE DEF Step
<1>3. ASSUME WellFormed, NEW n \in Nodes, NEW msg \in msgs,
             \/ ReceiveLockedTransfer(n, msg) \/ ReceiveRefundTransfer(n, msg)
             \/ ReceiveLockExpired(n, msg)
      PROVE  Step
  <2> DEFINE end == partner_state[n]
  <2>1. PICK lock, new :
          /\ partner_state' = [partner_state EXCEPT ![n] = new]
          /\ \/ new = add_lock(end, msg.balance_proof, lock)
             \/ new = drop_lock(end, msg.balance_proof, lock)
    BY <1>3 DEF ReceiveLockedTransfer, ReceiveRefundTransfer, ReceiveLockExpired
  <2>2. new.onchain_unlockedlocks = end.onchain_unlockedlocks
    BY <1>3, <2>1, Ends, MovedLocks
  <2> QED
    BY <1>2, <1>3, <2>1, <2>2
<1>4. ASSUME WellFormed, NEW n \in Nodes, NEW msg \in msgs, ReceiveUnlock(n, msg)
      PROVE  Step
  <2> DEFINE end == partner_state[n]
             bp  == msg.balance_proof
  <2>1. PICK lock \in get_lock(end, msg.lock.secrethash) :
          partner_state' = [partner_state EXCEPT ![n] = claim_lock(end, bp, lock)]
    BY <1>4 DEF ReceiveUnlock
  <2>2. PICK k \in get_lock(end, msg.lock.secrethash) :
          bp.transferred_amount = end.balance_proof.transferred_amount + k.amount
    BY <1>4 DEF ReceiveUnlock, is_valid_unlock
  <2>3. end \in EndState /\ Coherent(end)
    BY <1>4, Ends
  <2>4. /\ lock \in end.merkletree /\ lock.secrethash = msg.lock.secrethash
        /\ k \in end.merkletree /\ k.secrethash = msg.lock.secrethash
    BY <2>3, GetLockInTree
  <2>5. \A l \in end.onchain_unlockedlocks : l.secrethash = lock.secrethash => l = k
    BY <2>3, <2>4 DEF Coherent, pending_locks
  <2>6. /\ claim_lock(end, bp, lock).balance_proof = bp
        /\ claim_lock(end, bp, lock).onchain_unlockedlocks
             = Without(end.onchain_unlockedlocks, lock.secrethash)
    BY <2>3, NewProof, MovedLocks
  <2> HIDE DEF end, bp
  <2>7. \A l \in end.onchain_unlockedlocks :
          \/ l \in claim_lock(end, bp, lock).onchain_unlockedlocks
          \/ claim_lock(end, bp, lock).balance_proof.transferred_amount
               = end.balance_proof.transferred_amount + l.amount
    BY <2>2, <2>5, <2>6 DEF Without
  <2> QED
    BY <1>2, <1>4, <2>1, <2>7 DEF end
<1>5. ASSUME WellFormed, NEW n \in Nodes, NEW s \in Secrethashes, RegisterOffchainSecret(n, s)
      PROVE  Step
  <2>1. partner_state' = [partner_state EXCEPT ![n] = register_secret_endstate(partner_state[n], s)]
    BY <1>5 DEF RegisterOffchainSecret
  <2>2. register_secret_endstate(partner_state[n], s).onchain_unlockedlocks
          = partner_state[n].onchain_unlockedlocks
    BY <1>5, Ends, KeptLocks
  <2> QED
    BY <1>2, <1>5, <2>1, <2>2
<1>6. ASSUME WellFormed, NEW n \in Nodes, NEW s \in Secrethashes, RegisterOnchainSecret(n, s)
      PROVE  Step
  <2> DEFINE new == register_onchain_secret_endstate(partner_state[n], s, registered[s])
  <2>1. partner_state' = [partner_state EXCEPT ![n] = new]
    BY <1>6 DEF RegisterOnchainSecret
  <2>2. registered[s] \in Nat
    BY <1>6 DEF WellFormed, TypeOK
  <2>3. partner_state[n].onchain_unlockedlocks \subseteq new.onchain_unlockedlocks
    BY <1>6, <2>2, Ends, ClaimableLocks
  <2> HIDE DEF new
  <2> QED
    BY <1>2, <1>6, <2>1, <2>3
<1>7. ASSUME WellFormed, NEW n \in Nodes, NEW ds, ApplyDeposits(n, ds)
      PROVE  Step
  <2>1. \A k \in Nodes : partner_state'[k].onchain_unlockedlocks
                           = partner_state[k].onchain_unlockedlocks
    BY <1>7, DepositsLocks
  <2> QED
    BY <2>1 DEF Step
<1>8. WellFormed /\ Next => Step
  <2> SUFFICES ASSUME WellFormed, Next
               PROVE  Step
    OBVIOUS
  <2>1. ASSUME NEW n \in Nodes, SendNext(n) \/ LeaveOpened(n)
        PROVE  Step
    BY <1>1, <2>1 DEF SendNext, SendLockedTransfer, SendRefundTransfer, SendUnlock,
                      SendLockExpired, LeaveOpened, endVars
  <2>2. ASSUME ChainNext
        PROVE  Step
    BY <1>1, <2>2 DEF ChainNext, MineBlock, RegisterSecret, Deposit, endVars
  <2>3. ASSUME NEW n \in Nodes, NEW d \in deposits, ReceiveNewBalance(n, d)
        PROVE  Step
    <3>1. ApplyDeposits(n, {d}) \/ UNCHANGED partner_state
      BY <2>3 DEF ReceiveNewBalance, endVars
    <3> QED
      BY <1>1, <1>7, <3>1
  <2>4. ASSUME NEW n \in Nodes, NEW b, HandleBlock(n, b)
        PROVE  Step
    BY <1>7, <2>4 DEF HandleBlock
  <2> QED
    BY <1>3, <1>4, <1>5, <1>6, <2>1, <2>2, <2>3, <2>4 DEF Next, ReceiveNext, ViewNext
<1>9. WellFormed /\ [Next]_vars => [Step]_vars
  BY <1>8
<1>10. Spec => [][Step]_vars
  BY <1>9, SpecWellFormed, PTL DEF Spec
<1> QED
  BY <1>10, PTL DEF OnlyPaymentRemovesClaimable, Step
(* A channel never gets stuck: what one node may send, given what it knows *)
(* of deposits, payments and blocks, the checks of the other accept as     *)
(* soon as it has caught up, for any interleaving, any delay and any       *)
(* number of transfers, as long as no secret is used for two locks.        *)
THEOREM ChannelNeverStuck == Spec => []NeverStuck
<1>1. WellFormed /\ HistoryInv /\ ClaimInv => NeverStuck
  <2> SUFFICES ASSUME WellFormed, HistoryInv, ClaimInv, NEW n \in Nodes,
                      NEW m \in SentBy(Partner(n)),
                      m.balance_proof.nonce = get_next_nonce(partner_state[n]),
                      ~ SecretReused(m)
               PROVE  PassesChecks(n, m)
    BY DEF NeverStuck
  <2>1. m.type \in {"LockedTransfer", "RefundTransfer", "Unlock", "LockExpired"}
    BY DEF WellFormed, TypeOK, Message, SentBy
  <2>2. CASE m.type \in {"LockedTransfer", "RefundTransfer"}
    BY <2>2, TransferPasses DEF PassesChecks
  <2>3. CASE m.type = "Unlock"
    BY <2>3, UnlockPasses DEF PassesChecks
  <2>4. CASE m.type = "LockExpired"
    BY <2>4, ExpiryPasses DEF PassesChecks
  <2> QED
    BY <2>1, <2>2, <2>3, <2>4
<1> QED
  BY <1>1, SpecClaim, PTL
==============================================================================
