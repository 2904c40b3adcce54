------------------------------- MODULE Channel -------------------------------
(***************************************************************************)
(* The off-chain protocol of one payment channel between two honest nodes, *)
(* as raiden/transfer/channel.py runs it at both ends.  Each node keeps    *)
(* its own end state and its view of the partner's; every change of an end *)
(* travels to the partner as a balance proof with the next nonce.          *)
(*                                                                         *)
(* The network loses, repeats, delays and reorders: msgs keeps every       *)
(* message ever sent and the partner may handle any of them at any time,   *)
(* any number of times.  The blockchain is a height, the block in which    *)
(* each secret was registered and the deposits; every node follows it at   *)
(* its own pace, with all the events up to a block applied before that     *)
(* block (raiden_service._callback_new_block).                             *)
(***************************************************************************)
EXTENDS ChannelState

CONSTANTS
  Alice, Bob,       \* the two participants
  InitialDeposit,   \* contract balance of each when the channel is first used
  DepositAmounts,   \* amounts a later deposit may add
  MaxDeposits,      \* bound: number of later deposits
  MaxBlock,         \* bound: height of the chain
  MaxNonce          \* bound: balance proofs each node sends

Nodes == {Alice, Bob}

Partner(n) == IF n = Alice THEN Bob ELSE Alice

ASSUME ParticipantsAssumption == Alice # Bob

ASSUME DepositsAssumption ==
  /\ InitialDeposit \in [Nodes -> Nat]
  /\ DepositAmounts \subseteq Nat \ {0}

VARIABLES
  our_state,      \* our_state[n]: the end state n keeps for itself
  partner_state,  \* partner_state[n]: the end state n keeps for its partner
  opened,         \* opened[n]: get_status at n is CHANNEL_STATE_OPENED
  msgs,           \* every balance proof message sent so far
  latest,         \* number of the latest block
  registered,     \* registered[s]: block in which secret s was registered, or 0
  deposits,       \* deposits made on chain after the first one
  block_number,   \* block_number[n]: ChainState.block_number at n
  revealed,       \* revealed[n]: secret registrations n has processed
  noticed,        \* noticed[n]: deposits n has processed
  deposit_queue   \* deposit_queue[n]: deposits n waits to be confirmed

endVars   == <<our_state, partner_state>>
chainVars == <<latest, registered, deposits>>
viewVars  == <<block_number, revealed, noticed, deposit_queue>>
vars      == <<endVars, opened, msgs, chainVars, viewVars>>

Message ==
  [from : Nodes,
   type : {"LockedTransfer", "RefundTransfer", "Unlock", "LockExpired"},
   lock : Locks, balance_proof : BalanceProof]

DepositTransaction ==
  [participant : Nodes, contract_balance : Nat, block : Nat]

confirmed_block_number == latest - DEFAULT_NUMBER_OF_BLOCK_CONFIRMATIONS

(* The contract's record of the deposit of n.                              *)
OnchainDeposits(n) ==
  {InitialDeposit[n]} \cup {d.contract_balance : d \in {x \in deposits : x.participant = n}}

Init ==
  /\ our_state = [n \in Nodes |-> NewEndState(InitialDeposit[n])]
  /\ partner_state = [n \in Nodes |-> NewEndState(InitialDeposit[Partner(n)])]
  /\ opened = [n \in Nodes |-> TRUE]
  /\ msgs = {}
  /\ latest = DEFAULT_NUMBER_OF_BLOCK_CONFIRMATIONS
  /\ registered = [s \in Secrethashes |-> 0]
  /\ deposits = {}
  /\ block_number = [n \in Nodes |-> 0]
  /\ revealed = [n \in Nodes |-> {}]
  /\ noticed = [n \in Nodes |-> {}]
  /\ deposit_queue = [n \in Nodes |-> {}]

-----------------------------------------------------------------------------
(* Sending.  The guards are the assertions of the create_* functions and   *)
(* what their callers, the payment tasks, make sure of.                    *)

Send(n, type, lock, balance_proof) ==
  msgs' = msgs \cup {[from |-> n, type |-> type, lock |-> lock,
                      balance_proof |-> balance_proof]}

CanSendLock(n, lock) ==
  /\ opened[n]
  /\ our_state[n].balance_proof.nonce < MaxNonce
  /\ lock.amount <= get_distributable(our_state[n], partner_state[n])
  /\ Cardinality(our_state[n].merkletree) < MAXIMUM_PENDING_TRANSFERS
  /\ ~ is_lock_pending(our_state[n], lock.secrethash)
  /\ lock.expiration > block_number[n]
  /\ registered[lock.secrethash] = 0

(* send_lockedtransfer: a payment task has a single lock per secrethash,   *)
(* and a secret, drawn at random by its initiator, pays in one direction.  *)
SendLockedTransfer(n, lock) ==
  /\ CanSendLock(n, lock)
  /\ ~ is_lock_pending(partner_state[n], lock.secrethash)
  /\ \A msg \in msgs :
       msg.type = "LockedTransfer" /\ msg.lock.secrethash = lock.secrethash
         => msg.from = n
  /\ LET balance_proof == balance_proof_with(our_state[n], lock)
     IN  /\ our_state' = [our_state EXCEPT ![n] = add_lock(@, balance_proof, lock)]
         /\ Send(n, "LockedTransfer", lock, balance_proof)
  /\ UNCHANGED <<partner_state, opened, chainVars, viewVars>>

(* send_refundtransfer: the lock received is sent back to its sender.      *)
SendRefundTransfer(n, lock) ==
  /\ CanSendLock(n, lock)
  /\ lock \in partner_state[n].lockedlocks
  /\ LET balance_proof == balance_proof_with(our_state[n], lock)
     IN  /\ our_state' = [our_state EXCEPT ![n] = add_lock(@, balance_proof, lock)]
         /\ Send(n, "RefundTransfer", lock, balance_proof)
  /\ UNCHANGED <<partner_state, opened, chainVars, viewVars>>

(* send_unlock, once the secret is known off or on chain.                  *)
SendUnlock(n, lock) ==
  /\ opened[n]
  /\ our_state[n].balance_proof.nonce < MaxNonce
  /\ is_secret_known(our_state[n], lock.secrethash)
  /\ lock \in get_lock(our_state[n], lock.secrethash)
  /\ LET balance_proof == balance_proof_claiming(our_state[n], lock)
     IN  /\ our_state' = [our_state EXCEPT ![n] = claim_lock(@, balance_proof, lock)]
         /\ Send(n, "Unlock", lock, balance_proof)
  /\ UNCHANGED <<partner_state, opened, chainVars, viewVars>>

(* events_for_expired_lock.                                                *)
SendLockExpired(n, lock) ==
  /\ opened[n]
  /\ our_state[n].balance_proof.nonce < MaxNonce
  /\ lock \in our_state[n].lockedlocks \cup our_state[n].unlockedlocks
  /\ is_lock_expired(our_state[n], lock, block_number[n],
                     get_sender_expiration_threshold(lock))
  /\ LET balance_proof == balance_proof_without(our_state[n], lock)
     IN  /\ our_state' = [our_state EXCEPT ![n] = drop_lock(@, balance_proof, lock)]
         /\ Send(n, "LockExpired", lock, balance_proof)
  /\ UNCHANGED <<partner_state, opened, chainVars, viewVars>>

-----------------------------------------------------------------------------
(* Receiving.  A message that fails its check leaves the channel as it is. *)

FromPartner(n, msg, type) ==
  /\ opened[n]
  /\ msg \in msgs
  /\ msg.from = Partner(n)
  /\ msg.type = type

(* handle_message_lockedtransfer ignores a transfer whose secret is        *)
(* registered in the latest block.                                         *)
ReceiveLockedTransfer(n, msg) ==
  /\ FromPartner(n, msg, "LockedTransfer")
  /\ registered[msg.lock.secrethash] = 0
  /\ valid_lockedtransfer_check(partner_state[n], our_state[n], msg.balance_proof, msg.lock)
  /\ partner_state' = [partner_state EXCEPT ![n] = add_lock(@, msg.balance_proof, msg.lock)]
  /\ UNCHANGED <<our_state, opened, msgs, chainVars, viewVars>>

(* handle_refundtransfer: the refund matches a transfer this node sent.    *)
ReceiveRefundTransfer(n, msg) ==
  /\ FromPartner(n, msg, "RefundTransfer")
  /\ valid_lockedtransfer_check(partner_state[n], our_state[n], msg.balance_proof, msg.lock)
  /\ \E sent \in msgs : sent.from = n /\ sent.lock = msg.lock
  /\ partner_state' = [partner_state EXCEPT ![n] = add_lock(@, msg.balance_proof, msg.lock)]
  /\ UNCHANGED <<our_state, opened, msgs, chainVars, viewVars>>

ReceiveUnlock(n, msg) ==
  /\ FromPartner(n, msg, "Unlock")
  /\ is_valid_unlock(partner_state[n], msg.balance_proof, msg.lock.secrethash)
  /\ \E lock \in get_lock(partner_state[n], msg.lock.secrethash) :
       partner_state' = [partner_state EXCEPT ![n] = claim_lock(@, msg.balance_proof, lock)]
  /\ UNCHANGED <<our_state, opened, msgs, chainVars, viewVars>>

ReceiveLockExpired(n, msg) ==
  /\ FromPartner(n, msg, "LockExpired")
  /\ is_valid_lock_expired(partner_state[n], our_state[n], msg.balance_proof,
                           msg.lock.secrethash, block_number[n])
  /\ \E lock \in get_lock(partner_state[n], msg.lock.secrethash) :
       partner_state' = [partner_state EXCEPT ![n] = drop_lock(@, msg.balance_proof, lock)]
  /\ UNCHANGED <<our_state, opened, msgs, chainVars, viewVars>>

-----------------------------------------------------------------------------
(* Secrets, deposits and blocks as a node learns of them.                  *)

(* register_offchain_secret, by the task that received the secret.         *)
RegisterOffchainSecret(n, s) ==
  /\ Keyed(our_state[n].lockedlocks \cup partner_state[n].lockedlocks, s) # {}
  /\ our_state' = [our_state EXCEPT ![n] = register_secret_endstate(@, s)]
  /\ partner_state' = [partner_state EXCEPT ![n] = register_secret_endstate(@, s)]
  /\ UNCHANGED <<opened, msgs, chainVars, viewVars>>

(* register_onchain_secret, when a confirmed registration is polled.       *)
RegisterOnchainSecret(n, s) ==
  /\ registered[s] # 0
  /\ registered[s] <= confirmed_block_number
  /\ s \notin revealed[n]
  /\ our_state' =
       [our_state EXCEPT ![n] = register_onchain_secret_endstate(@, s, registered[s])]
  /\ partner_state' =
       [partner_state EXCEPT ![n] = register_onchain_secret_endstate(@, s, registered[s])]
  /\ revealed' = [revealed EXCEPT ![n] = @ \cup {s}]
  /\ UNCHANGED <<opened, msgs, chainVars, block_number, noticed, deposit_queue>>

(* apply_channel_newbalance for each deposit of ds: an end state keeps the *)
(* largest of its contract balance and the totals of its participant.      *)
Largest(S) == {b \in S : \A c \in S : c <= b}

BalancesAfter(end, ds, participant) ==
  {end.contract_balance} \cup
    {d.contract_balance : d \in {x \in ds : x.participant = participant}}

(* Fault: a deposit is booked for the wrong participant.                   *)
Fault_ApplyDeposits(n, ds) ==
  \E ours \in Largest(BalancesAfter(our_state[n], ds, Partner(n))),
     theirs \in Largest(BalancesAfter(partner_state[n], ds, n)) :
    /\ our_state' = [our_state EXCEPT ![n] = update_contract_balance(@, ours)]
    /\ partner_state' = [partner_state EXCEPT ![n] = update_contract_balance(@, theirs)]

(* Fault: the deposits of the partner are forgotten.                       *)
Fault_own_ApplyDeposits(n, ds) ==
  \E ours \in Largest(BalancesAfter(our_state[n], ds, n)) :
    /\ our_state' = [our_state EXCEPT ![n] = update_contract_balance(@, ours)]
    /\ UNCHANGED partner_state

ApplyDeposits(n, ds) ==
  \E ours \in Largest(BalancesAfter(our_state[n], ds, n)),
     theirs \in Largest(BalancesAfter(partner_state[n], ds, Partner(n))) :
    /\ our_state' = [our_state EXCEPT ![n] = update_contract_balance(@, ours)]
    /\ partner_state' = [partner_state EXCEPT ![n] = update_contract_balance(@, theirs)]

(* handle_channel_newbalance: applied at once when confirmed, else queued. *)
ReceiveNewBalance(n, d) ==
  /\ d \in deposits \ noticed[n]
  /\ d.block <= confirmed_block_number
  /\ noticed' = [noticed EXCEPT ![n] = @ \cup {d}]
  /\ IF is_transaction_confirmed(d.block, block_number[n])
     THEN /\ ApplyDeposits(n, {d})
          /\ UNCHANGED deposit_queue
     ELSE /\ deposit_queue' = [deposit_queue EXCEPT ![n] = @ \cup {d}]
          /\ UNCHANGED endVars
  /\ UNCHANGED <<opened, msgs, chainVars, block_number, revealed>>

(* A Block is dispatched after the events up to it; the queued deposits it *)
(* confirms are applied.                                                   *)
HandleBlock(n, b) ==
  /\ block_number[n] < b
  /\ b <= confirmed_block_number
  /\ \A s \in Secrethashes :
       registered[s] # 0 /\ registered[s] <= b => s \in revealed[n]
  /\ \A d \in deposits : d.block <= b => d \in noticed[n]
  /\ LET due == {d \in deposit_queue[n] : is_transaction_confirmed(d.block, b)}
     IN  /\ ApplyDeposits(n, due)
         /\ deposit_queue' = [deposit_queue EXCEPT ![n] = @ \ due]
  /\ block_number' = [block_number EXCEPT ![n] = b]
  /\ UNCHANGED <<opened, msgs, chainVars, revealed, noticed>>

(* The channel stops being open at n: events_for_close or                  *)
(* handle_channel_closed.                                                  *)
LeaveOpened(n) ==
  /\ opened[n]
  /\ opened' = [opened EXCEPT ![n] = FALSE]
  /\ UNCHANGED <<endVars, msgs, chainVars, viewVars>>

-----------------------------------------------------------------------------
(* The blockchain (external).                                              *)

MineBlock ==
  /\ latest < MaxBlock
  /\ latest' = latest + 1
  /\ UNCHANGED <<endVars, opened, msgs, registered, deposits, viewVars>>

(* By whoever knows the secret, at any time.                               *)
RegisterSecret(s) ==
  /\ registered[s] = 0
  /\ registered' = [registered EXCEPT ![s] = latest]
  /\ UNCHANGED <<endVars, opened, msgs, latest, deposits, viewVars>>

Deposit(n, amount) ==
  /\ Cardinality(deposits) < MaxDeposits
  /\ \E total \in Largest(OnchainDeposits(n)) :
       deposits' = deposits \cup {[participant |-> n, contract_balance |-> total + amount,
                                   block |-> latest]}
  /\ UNCHANGED <<endVars, opened, msgs, latest, registered, viewVars>>

-----------------------------------------------------------------------------
ChainNext ==
  \/ MineBlock
  \/ \E s \in Secrethashes : RegisterSecret(s)
  \/ \E n \in Nodes, amount \in DepositAmounts : Deposit(n, amount)

SendNext(n) ==
  \E lock \in Locks :
    \/ SendLockedTransfer(n, lock)
    \/ SendRefundTransfer(n, lock)
    \/ SendUnlock(n, lock)
    \/ SendLockExpired(n, lock)

ReceiveNext(n) ==
  \E msg \in msgs :
    \/ ReceiveLockedTransfer(n, msg)
    \/ ReceiveRefundTransfer(n, msg)
    \/ ReceiveUnlock(n, msg)
    \/ ReceiveLockExpired(n, msg)

ViewNext(n) ==
  \/ \E s \in Secrethashes : RegisterOffchainSecret(n, s)
  \/ \E s \in Secrethashes : RegisterOnchainSecret(n, s)
  \/ \E d \in deposits : ReceiveNewBalance(n, d)
  \/ \E b \in 1..confirmed_block_number : HandleBlock(n, b)

Next ==
  \/ ChainNext
  \/ \E n \in Nodes : SendNext(n) \/ ReceiveNext(n) \/ ViewNext(n) \/ LeaveOpened(n)

Spec == Init /\ [][Next]_vars

(***************************************************************************)
(* Fairness: the transport retries a message until its receiver answers it *)
(* with Processed, which it does once it accepted it, and the alarm task   *)
(* polls the chain for ever.  Nobody has to pay, claim or deposit.         *)
(***************************************************************************)
Fairness ==
  \A n \in Nodes :
    /\ WF_vars(ReceiveNext(n))
    /\ WF_vars(\E s \in Secrethashes : RegisterOnchainSecret(n, s))
    /\ WF_vars(\E d \in deposits : ReceiveNewBalance(n, d))
    /\ WF_vars(\E b \in 1..confirmed_block_number : HandleBlock(n, b))

FairSpec == Spec /\ Fairness

-----------------------------------------------------------------------------
(* Properties.                                                             *)

(* Every variable keeps its type.                                          *)
TypeOK ==
  /\ our_state \in [Nodes -> EndState]
  /\ partner_state \in [Nodes -> EndState]
  /\ opened \in [Nodes -> BOOLEAN]
  /\ msgs \subseteq Message
  /\ latest \in Nat
  /\ registered \in [Secrethashes -> Nat]
  /\ deposits \subseteq DepositTransaction
  /\ block_number \in [Nodes -> Nat]
  /\ revealed \in [Nodes -> SUBSET Secrethashes]
  /\ noticed \in [Nodes -> SUBSET deposits]
  /\ deposit_queue \in [Nodes -> SUBSET deposits]

(* The locks of every end state and its balance proof tell the same story  *)
(* (Coherent): get_batch_unlock looks every leaf of the merkle tree up in  *)
(* the dictionaries and fails with a KeyError, leaving the locks           *)
(* unclaimable on chain, otherwise.                                        *)
LocksCoherent ==
  \A n \in Nodes : Coherent(our_state[n]) /\ Coherent(partner_state[n])

SentBy(n) == {msg \in msgs : msg.from = n}

(* What a node believes of its partner is what the partner really was when *)
(* it sent that nonce: the balance proof it holds is one the partner       *)
(* signed, no nonce was signed twice, and with equal nonces both ends have *)
(* the same locks and the same transferred amount.                         *)
PartnerViewIsPast ==
  \A n \in Nodes :
    LET mine == our_state[n].balance_proof
        seen == partner_state[Partner(n)].balance_proof
    IN  /\ \A k, m \in SentBy(n) : k.balance_proof.nonce = m.balance_proof.nonce => k = m
        /\ \A m \in SentBy(n) : m.balance_proof.nonce <= mine.nonce
        /\ seen = NoBalanceProof \/ \E m \in SentBy(n) : m.balance_proof = seen
        /\ seen.nonce = mine.nonce => seen = mine

(* Whatever balance proofs the two nodes hold when they go on chain, each  *)
(* participant's transferred and locked amounts are covered by its own     *)
(* deposit and by what the other balance proof transfers to it, although   *)
(* the two views are of different ages.  The settlement computed by the    *)
(* contract then never has to cut a payment short.                         *)
BalanceProofsCovered ==
  \A n \in Nodes :
    LET spent  == partner_state[Partner(n)].balance_proof
        earned == partner_state[n].balance_proof
    IN  \E total \in OnchainDeposits(n) :
          spent.transferred_amount + spent.locked_amount
            <= total + earned.transferred_amount

(* A transfer that the registration of its secret overtook: the message    *)
(* handler of the recipient ignores it, whatever the channel would say.    *)
Overtaken(msg) == msg.type = "LockedTransfer" /\ registered[msg.lock.secrethash] # 0

PassesChecks(n, msg) ==
  CASE msg.type \in {"LockedTransfer", "RefundTransfer"} ->
         valid_lockedtransfer_check(
           update_contract_balance(partner_state[n], our_state[Partner(n)].contract_balance),
           our_state[n], msg.balance_proof, msg.lock)
    [] msg.type = "Unlock" ->
         is_valid_unlock(partner_state[n], msg.balance_proof, msg.lock.secrethash)
    [] msg.type = "LockExpired" ->
         is_valid_lock_expired(partner_state[n], our_state[n], msg.balance_proof,
                               msg.lock.secrethash, block_number[Partner(n)])

(* A LockExpired of one of two locks that were paid with the same secret.  *)
(* A node draws a new secret for every attempt to pay, but its user may    *)
(* hand it one that was used before; is_valid_lock_expired then looks at   *)
(* the registration of the wrong lock.                                     *)
SecretReused(msg) ==
  /\ msg.type = "LockExpired"
  /\ \E k, m \in msgs : /\ k.lock.secrethash = msg.lock.secrethash
                        /\ m.lock.secrethash = msg.lock.secrethash
                        /\ k.lock # m.lock

(* A channel never gets stuck by the checks of channel.py: while a node    *)
(* has the channel open, the next message of its partner passes all of     *)
(* them that waiting cannot make true.  A transfer is only ever refused    *)
(* because a deposit is not confirmed yet, a LockExpired because the       *)
(* expiration is not, unless a secret is used for two locks.               *)
NeverStuck ==
  \A n \in Nodes : opened[n] =>
    \A msg \in SentBy(Partner(n)) :
      msg.balance_proof.nonce = get_next_nonce(partner_state[n])
        => PassesChecks(n, msg) \/ SecretReused(msg)

(* A received lock whose secret was registered on chain in time leaves the *)
(* channel only against payment: no step, not even a LockExpired of the    *)
(* partner, removes it without raising the transferred amount by it.       *)
OnlyPaymentRemovesClaimable ==
  [][\A n \in Nodes : \A lock \in partner_state[n].onchain_unlockedlocks :
       \/ lock \in partner_state'[n].onchain_unlockedlocks
       \/ partner_state'[n].balance_proof.transferred_amount
            = partner_state[n].balance_proof.transferred_amount + lock.amount]_vars

(* The same promise seen from the sender: it never announces the expiry of *)
(* a lock that the receiver can claim on chain.                            *)
NoExpiryOfRegistered ==
  \A msg \in msgs :
    msg.type = "LockExpired" =>
      \/ registered[msg.lock.secrethash] = 0
      \/ registered[msg.lock.secrethash] > msg.lock.expiration

(* Every balance proof a node sent is accepted by its partner in the end:  *)
(* no transfer, unlock or expiry is lost however the network treats it,    *)
(* unless the partner stops using the channel, ignores a transfer that the *)
(* registration of its secret overtook, or refuses the LockExpired of a    *)
(* secret used twice.                                                      *)
EventuallyInSync ==
  \A n \in Nodes : \A k \in 1..MaxNonce :
    our_state[n].balance_proof.nonce >= k
      ~> \/ partner_state[Partner(n)].balance_proof.nonce >= k
         \/ ~ opened[Partner(n)]
         \/ \E msg \in SentBy(n) :
              /\ Overtaken(msg) \/ SecretReused(msg)
              /\ msg.balance_proof.nonce > partner_state[Partner(n)].balance_proof.nonce
=============================================================================
