------------------------------ MODULE Mediation ------------------------------
(***************************************************************************)
(* One mediated payment: the payment tasks of its initiator, its mediators *)
(* and its target (raiden/transfer/mediated_transfer/), the locks they     *)
(* keep in their channels, the secret on and off chain, and time.          *)
(*                                                                         *)
(* A channel is reduced to the one lock of this payment in each direction: *)
(* sent[<<a, b>>] is its status in a's own end state, received[<<a, b>>]   *)
(* in b's view of a.  Module Channel shows that the balance proofs behind  *)
(* these changes are accepted in the order they are sent, so a message is  *)
(* not kept: it is what `sent' has and `received' has not.  Secret         *)
(* requests and reveals are kept for ever: they can be late and repeated.  *)
(* All channels stay open, no fee is taken, and whether a partner is       *)
(* reachable and has capacity is a choice made when a route is needed.     *)
(***************************************************************************)
EXTENDS Integers, Sequences, FiniteSets

CONSTANTS
  Nodes, Initiator, Target, NoNode,
  Routes,          \* Routes[n]: next hops n may use, from best to worst
  REVEAL_TIMEOUT,
  DEFAULT_NUMBER_OF_BLOCK_CONFIRMATIONS,
  MAX_LAG,         \* confirmed blocks a node may be behind when one is mined
  MINING_DELAY,    \* blocks until a transaction is mined, at most
  MaxBlock,        \* bound: height of the chain
  MaxNodeChanges   \* bound: times a waiting transfer is tried again

ASSUME RolesAssumption ==
  /\ IsFiniteSet(Nodes)
  /\ Initiator \in Nodes /\ Target \in Nodes \ {Initiator} /\ NoNode \notin Nodes
  /\ Routes \in [Nodes -> Seq(Nodes)]

(* reveal_timeout is how long a node needs at most to get a secret mined.  *)
ASSUME TimingAssumption ==
  /\ MAX_LAG \in Nat
  /\ MINING_DELAY \in Nat \ {0}
  /\ DEFAULT_NUMBER_OF_BLOCK_CONFIRMATIONS \in Nat \ {0}
  /\ REVEAL_TIMEOUT \in Nat
  /\ REVEAL_TIMEOUT >= DEFAULT_NUMBER_OF_BLOCK_CONFIRMATIONS + MAX_LAG + MINING_DELAY

Mediators == Nodes \ {Initiator, Target}

Hops(n) == {Routes[n][i] : i \in DOMAIN Routes[n]}

Directions == {d \in Nodes \X Nodes : d[2] \in Hops(d[1]) \/ d[1] \in Hops(d[2])}

VARIABLES
  sent, received,    \* status of the lock at its sender and at its receiver
  initiator,         \* InitiatorTransferState, and whether the payment succeeded
  mediators,         \* mediators[n]: MediatorTransferState of n
  target,            \* TargetTransferState
  secret_request,    \* the target sent its SecretRequest
  reveals,           \* <<a, b>>: a sent a RevealSecret to b
  expiration,        \* of the lock, the same in every channel
  latest,            \* number of the latest block
  registered,        \* block in which the secret was registered, or 0
  transactions,      \* transactions[n]: when n sent a registration, or 0
  block_number,      \* block_number[n]: ChainState.block_number at n
  noticed,           \* nodes that processed the registration
  node_changes,      \* waiting transfers tried again so far
  stopped            \* mediators whose node an assertion has ended

locks    == <<sent, received>>
tasks    == <<initiator, mediators, target>>
messages == <<secret_request, reveals>>
chain    == <<latest, registered>>
vars     == <<locks, tasks, messages, expiration, chain, transactions,
              block_number, noticed, node_changes, stopped>>

Pending == {"locked", "unlocked", "onchain"}

LockStatus == Pending \cup {"none", "claimed", "expired"}

STATE_SECRET_KNOWN ==
  {"payee_secret_revealed", "payee_contract_unlock", "payee_balance_proof",
   "payer_secret_revealed", "payer_waiting_unlock", "payer_balance_proof"}

STATE_TRANSFER_PAID ==
  {"payee_contract_unlock", "payee_balance_proof", "payer_balance_proof"}

STATE_TRANSFER_FINAL ==
  STATE_TRANSFER_PAID \cup {"payee_expired", "payer_expired"}

MediationPairState ==
  [payer : Nodes, payee : Nodes,
   payer_state : {"payer_pending", "payer_secret_revealed",
                  "payer_waiting_secret_reveal", "payer_balance_proof", "payer_expired"},
   payee_state : {"payee_pending", "payee_secret_revealed",
                  "payee_balance_proof", "payee_expired"}]

MediationPair(payer, payee) ==
  [payer |-> payer, payee |-> payee,
   payer_state |-> "payer_pending", payee_state |-> "payee_pending"]

NoMediatorTask ==
  [active |-> FALSE, transfers_pair |-> <<>>, waiting_transfer |-> NoNode, secret |-> FALSE]

confirmed_block_number == latest - DEFAULT_NUMBER_OF_BLOCK_CONFIRMATIONS

Init ==
  /\ sent = [d \in Directions |-> "none"]
  /\ received = [d \in Directions |-> "none"]
  /\ initiator = [active |-> FALSE, received_secret_request |-> FALSE, success |-> FALSE]
  /\ mediators = [n \in Mediators |-> NoMediatorTask]
  /\ target = [active |-> FALSE, state |-> "secret_request"]
  /\ secret_request = FALSE
  /\ reveals = {}
  /\ expiration = 0
  /\ latest = 1 + DEFAULT_NUMBER_OF_BLOCK_CONFIRMATIONS
  /\ registered = 0
  /\ transactions = [n \in Nodes |-> 0]
  /\ block_number = [n \in Nodes |-> 1]
  /\ noticed = {}
  /\ node_changes = 0
  /\ stopped = {}

-----------------------------------------------------------------------------
(* Conditions on locks.                                                    *)

(* Fault: waits one block longer.                                          *)
Fault_is_safe_to_wait(b) == expiration - b >= REVEAL_TIMEOUT

(* There are more than enough blocks to safely unlock on chain.            *)
is_safe_to_wait(b) == expiration - b > REVEAL_TIMEOUT

sender_threshold == expiration + 2 * DEFAULT_NUMBER_OF_BLOCK_CONFIRMATIONS

receiver_threshold == expiration + DEFAULT_NUMBER_OF_BLOCK_CONFIRMATIONS

is_lock_expired(status, b, threshold) == status # "onchain" /\ b >= threshold

(* is_transfer_expired asks the node's own end of the channel with the     *)
(* payer, where the lock of the payer is not.                              *)
OwnStatus(n, p) == IF <<n, p>> \in Directions THEN sent[<<n, p>>] ELSE "none"

is_transfer_expired(n, payer, b) ==
  is_lock_expired(OwnStatus(n, payer), b, sender_threshold)

(* register_secret_endstate.                                               *)
WithSecret(status) == IF status = "locked" THEN "unlocked" ELSE status

(* Fault: a secret registered in the block of the expiration is late.      *)
Fault_WithRegistration(status) ==
  IF status \in {"locked", "unlocked"} /\ registered < expiration
  THEN "onchain" ELSE status

(* register_onchain_secret_endstate.                                       *)
WithRegistration(status) ==
  IF status \in {"locked", "unlocked"} /\ registered <= expiration
  THEN "onchain" ELSE status

Learning     == [status \in LockStatus |-> WithSecret(status)]
Registration == [status \in LockStatus |-> WithRegistration(status)]
Expiration   == [status \in LockStatus |-> "expired"]

(* The statuses after `change' at n, in its channels with the nodes qs.    *)
SentAt(n, qs, change) ==
  [d \in Directions |-> IF d[1] = n /\ d[2] \in qs THEN change[sent[d]] ELSE sent[d]]

ReceivedAt(n, qs, change) ==
  [d \in Directions |-> IF d[2] = n /\ d[1] \in qs THEN change[received[d]] ELSE received[d]]

ChannelSecret(n) == [transactions EXCEPT ![n] = IF @ = 0 THEN latest ELSE @]

-----------------------------------------------------------------------------
(* The initiator.                                                          *)

InitiatorHop == {b \in Nodes : <<Initiator, b>> \in Directions
                               /\ sent[<<Initiator, b>>] # "none"}

(* try_new_route: the lock expires after two reveal timeouts.              *)
InitInitiator(hop) ==
  /\ InitiatorHop = {}
  /\ block_number[Initiator] = 1
  /\ hop \in Hops(Initiator)
  /\ expiration' = block_number[Initiator] + 2 * REVEAL_TIMEOUT
  /\ sent' = [sent EXCEPT ![<<Initiator, hop>>] = "locked"]
  /\ initiator' = [initiator EXCEPT !.active = TRUE]
  /\ UNCHANGED <<received, mediators, target, messages, chain, transactions,
                 block_number, noticed, node_changes, stopped>>

(* handle_secretrequest: the first request is answered with the secret.    *)
InitiatorSecretRequest ==
  /\ initiator.active
  /\ secret_request
  /\ ~ initiator.received_secret_request
  /\ initiator' = [initiator EXCEPT !.received_secret_request = TRUE]
  /\ reveals' = reveals \cup {<<Initiator, Target>>}
  /\ UNCHANGED <<locks, mediators, target, secret_request, expiration, chain,
                 transactions, block_number, noticed, node_changes, stopped>>

(* events_for_unlock_lock, after which the task ends.                      *)
InitiatorPays(hop) ==
  /\ sent' = [sent EXCEPT ![<<Initiator, hop>>] = "claimed"]
  /\ initiator' = [initiator EXCEPT !.active = FALSE, !.success = TRUE]

InitiatorSecretReveal(hop) ==
  /\ initiator.active
  /\ hop \in InitiatorHop
  /\ <<hop, Initiator>> \in reveals
  /\ InitiatorPays(hop)
  /\ UNCHANGED <<received, mediators, target, messages, expiration, chain,
                 transactions, block_number, noticed, node_changes, stopped>>

-----------------------------------------------------------------------------
(* The mediators.                                                          *)

PairsOf(m) == {m.transfers_pair[i] : i \in DOMAIN m.transfers_pair}

MapPairs(pairs, Update(_)) == [i \in DOMAIN pairs |-> Update(pairs[i])]

(* The partners in whose channels the task of a mediator may have a lock.  *)
PartnersOf(m) ==
  {p.payer : p \in PairsOf(m)} \cup {p.payee : p \in PairsOf(m)}
    \cup ({m.waiting_transfer} \ {NoNode})

(* Fault: the task ends once its payers are done.                          *)
Fault_clear_if_finalized(n, m, snt, rcv) ==
  IF \E p \in PairsOf(m) : rcv[<<p.payer, n>>] \in Pending
  THEN m ELSE NoMediatorTask

(* The task ends once none of its locks is pending.                        *)
clear_if_finalized(n, m, snt, rcv) ==
  IF \/ \E p \in PairsOf(m) : rcv[<<p.payer, n>>] \in Pending
     \/ \E p \in PairsOf(m) : snt[<<n, p.payee>>] \in Pending
     \/ m.waiting_transfer # NoNode /\ rcv[<<m.waiting_transfer, n>>] \in Pending
  THEN m ELSE NoMediatorTask

Mediate(n, m, snt, rcv) ==
  /\ sent' = snt
  /\ received' = rcv
  /\ mediators' = [mediators EXCEPT ![n] = clear_if_finalized(n, m, snt, rcv)]
  /\ UNCHANGED stopped

(* An assertion fails.  The state change is in the log already, so that    *)
(* every restart replays it and fails again: the node is gone for good.    *)
Stop(n) ==
  /\ stopped' = stopped \cup {n}
  /\ UNCHANGED <<locks, mediators>>

(* sanity_check: a transfer is paid only with the secret, and a pair after *)
(* the first is paid for by the refund of the pair before it.  Only the    *)
(* handlers that add a pair or take an Unlock could break it.              *)
sanity_check(m) ==
  LET pairs == m.transfers_pair
  IN  /\ \A p \in PairsOf(m) :
           {p.payee_state, p.payer_state} \cap STATE_TRANSFER_PAID # {} => m.secret
      /\ \A i \in 1..(Len(pairs) - 1) : pairs[i].payee = pairs[i + 1].payer

(* The assertions of send_refundtransfer and create_sendlockedtransfer: a  *)
(* refund is for a lock that is known and pending, and sent only once.     *)
can_refund(n, payer, rcv) ==
  rcv[<<payer, n>>] = "locked" /\ OwnStatus(n, payer) \notin Pending

(* is_channel_usable: as far as time is concerned.                         *)
is_channel_usable(n) == expiration - block_number[n] > REVEAL_TIMEOUT

filter_used_routes(m, routes) ==
  routes \ ({p.payer : p \in PairsOf(m)} \cup {p.payee : p \in PairsOf(m)})

(* Fault: a new attempt is made with the transfer of the first payer.      *)
Fault_mediate_transfer(n, m, payer, routes, rcv) ==
  LET original == IF m.transfers_pair = <<>> THEN payer ELSE m.transfers_pair[1].payer
      payees   == IF is_channel_usable(n)
                  THEN filter_used_routes(m, routes) \cup {original} ELSE {}
      paired(payee) == [m EXCEPT !.transfers_pair = Append(@, MediationPair(original, payee))]
  IN  \/ \E payee \in payees :
           IF /\ payee = original => can_refund(n, original, rcv)
              /\ sanity_check(paired(payee))
           THEN Mediate(n, paired(payee), [sent EXCEPT ![<<n, payee>>] = "locked"], rcv)
           ELSE Stop(n)
      \/ Mediate(n, [m EXCEPT !.waiting_transfer = payer], sent, rcv)

(* mediate_transfer: forward on a route not used before, else send the     *)
(* transfer back to the first payer, else let it wait.  A waiting transfer *)
(* is not forgotten when it is forwarded.                                  *)
mediate_transfer(n, m, payer, routes, rcv) ==
  LET original == IF m.transfers_pair = <<>> THEN payer ELSE m.transfers_pair[1].payer
      payees   == IF is_channel_usable(n)
                  THEN filter_used_routes(m, routes) \cup {original} ELSE {}
      paired(payee) == [m EXCEPT !.transfers_pair = Append(@, MediationPair(payer, payee))]
  IN  \/ \E payee \in payees :
           IF /\ payee = original => can_refund(n, original, rcv)
              /\ sanity_check(paired(payee))
           THEN Mediate(n, paired(payee), [sent EXCEPT ![<<n, payee>>] = "locked"], rcv)
           ELSE Stop(n)
      \/ Mediate(n, [m EXCEPT !.waiting_transfer = payer], sent, rcv)

(* handle_init.  The message handler ignores a transfer whose secret is    *)
(* already registered.                                                     *)
InitMediator(n, payer) ==
  /\ ~ mediators[n].active
  /\ <<payer, n>> \in Directions
  /\ sent[<<payer, n>>] # "none"
  /\ received[<<payer, n>>] = "none"
  /\ sent[<<n, payer>>] = "none"
  /\ registered = 0
  /\ mediate_transfer(n, [NoMediatorTask EXCEPT !.active = TRUE], payer, Hops(n),
                      [received EXCEPT ![<<payer, n>>] = "locked"])
  /\ UNCHANGED <<initiator, target, messages, expiration, chain, transactions,
                 block_number, noticed, node_changes>>

(* handle_refundtransfer: only the last transfer can be refunded.  The     *)
(* initiator never takes a refund: initiator_manager looks its channel up  *)
(* by channel identifier in a map of node addresses and finds none.        *)
ReceiveTransferRefund(n, payer) ==
  /\ mediators[n].active
  /\ ~ mediators[n].secret
  /\ LET pairs == mediators[n].transfers_pair
     IN  pairs # <<>> /\ pairs[Len(pairs)].payee = payer
  /\ sent[<<payer, n>>] # "none"
  /\ received[<<payer, n>>] = "none"
  /\ mediate_transfer(n, mediators[n], payer, Hops(n),
                      [received EXCEPT ![<<payer, n>>] = "locked"])
  /\ UNCHANGED <<initiator, target, messages, expiration, chain, transactions,
                 block_number, noticed, node_changes>>

(* handle_node_change_network_state: a hop came online, the waiting        *)
(* transfer is tried again with that hop as the only route.                *)
NodeChangeNetworkState(n, hop) ==
  /\ node_changes < MaxNodeChanges
  /\ mediators[n].waiting_transfer # NoNode
  /\ hop \in Hops(n)
  /\ mediate_transfer(n, mediators[n], mediators[n].waiting_transfer, {hop}, received)
  /\ node_changes' = node_changes + 1
  /\ UNCHANGED <<initiator, target, messages, expiration, chain, transactions,
                 block_number, noticed>>

(* The steps of secret_learned on the pairs, in the order of the code.     *)

(* Fault: a state of the payer is set for the payee.                       *)
Fault_set_offchain_reveal_state(pairs, payee) ==
  MapPairs(pairs, LAMBDA p : IF p.payee = payee
                             THEN [p EXCEPT !.payee_state = "payer_secret_revealed"]
                             ELSE p)

set_offchain_reveal_state(pairs, payee) ==
  MapPairs(pairs, LAMBDA p : IF p.payee = payee
                             THEN [p EXCEPT !.payee_state = "payee_secret_revealed"]
                             ELSE p)

should_send_secret(p) ==
  p.payee_state \in STATE_SECRET_KNOWN /\ p.payer_state = "payer_pending"

events_for_secretreveal(pairs) ==
  MapPairs(pairs, LAMBDA p : IF should_send_secret(p)
                             THEN [p EXCEPT !.payer_state = "payer_secret_revealed"]
                             ELSE p)

(* The payee is not paid off chain in the danger zone of the payer's lock. *)
should_send_balanceproof_to_payee(p, b) ==
  /\ p.payee_state \in STATE_SECRET_KNOWN \ STATE_TRANSFER_PAID
  /\ is_safe_to_wait(b)

events_for_balanceproof(pairs, b) ==
  MapPairs(pairs, LAMBDA p : IF should_send_balanceproof_to_payee(p, b)
                             THEN [p EXCEPT !.payee_state = "payee_balance_proof"]
                             ELSE p)

Paid(n, snt, pairs, b) ==
  [d \in Directions |->
     IF d[1] = n /\ \E i \in DOMAIN pairs : pairs[i].payee = d[2]
                                            /\ should_send_balanceproof_to_payee(pairs[i], b)
     THEN "claimed" ELSE snt[d]]

(* handle_offchain_secretreveal: only the first reveal counts.             *)
MediatorSecretReveal(n, sender) ==
  LET m      == mediators[n]
      last   == m.transfers_pair[Len(m.transfers_pair)]
      known  == set_offchain_reveal_state(m.transfers_pair, sender)
      told   == events_for_secretreveal(known)
      b      == block_number[n]
  IN  /\ m.active
      /\ <<sender, n>> \in reveals
      /\ m.transfers_pair # <<>>
      /\ ~ m.secret
      /\ ~ is_transfer_expired(n, last.payer, b)
      /\ reveals' = reveals \cup
           {<<n, known[i].payer>> : i \in {j \in DOMAIN known : should_send_secret(known[j])}}
      /\ Mediate(n, [m EXCEPT !.secret = TRUE,
                              !.transfers_pair = events_for_balanceproof(told, b)],
                 Paid(n, SentAt(n, PartnersOf(m), Learning), told, b),
                 ReceivedAt(n, PartnersOf(m), Learning))
      /\ UNCHANGED <<initiator, target, secret_request, expiration, chain,
                     transactions, block_number, noticed, node_changes>>

(* handle_unlock: the channel takes the Unlock for the first pair of the   *)
(* payer, for another one its nonce is used.                               *)
MediatorUnlock(n, payer) ==
  LET m     == mediators[n]
      pairs == m.transfers_pair
      first == {i \in DOMAIN pairs : /\ pairs[i].payer = payer
                                     /\ \A j \in 1..(i - 1) : pairs[j].payer # payer}
      paid  == [m EXCEPT !.transfers_pair =
                  [i \in DOMAIN pairs |-> IF i \in first
                                          THEN [pairs[i] EXCEPT !.payer_state = "payer_balance_proof"]
                                          ELSE pairs[i]]]
  IN  /\ payer \in {p.payer : p \in PairsOf(m)}
      /\ sent[<<payer, n>>] = "claimed"
      /\ received[<<payer, n>>] \in Pending
      /\ IF sanity_check(paid)
         THEN Mediate(n, paid, sent, [received EXCEPT ![<<payer, n>>] = "claimed"])
         ELSE Stop(n)
      /\ UNCHANGED <<initiator, target, messages, expiration, chain, transactions,
                     block_number, noticed, node_changes>>

(* handle_receive_lock_expired of a channel (channel.py).                  *)
AcceptsLockExpired(n, payer) ==
  /\ <<payer, n>> \in Directions
  /\ sent[<<payer, n>>] = "expired"
  /\ received[<<payer, n>>] \in Pending \ {"onchain"}
  /\ is_lock_expired(OwnStatus(n, payer), block_number[n], receiver_threshold)

(* handle_lock_expired.                                                    *)
MediatorLockExpired(n, payer) ==
  LET m   == mediators[n]
      rcv == [received EXCEPT ![<<payer, n>>] = "expired"]
  IN  /\ payer \in {p.payer : p \in PairsOf(m)} \cup {m.waiting_transfer}
      /\ AcceptsLockExpired(n, payer)
      /\ Mediate(n, [m EXCEPT !.transfers_pair =
                       MapPairs(@, LAMBDA p : IF rcv[<<p.payer, n>>] \notin Pending
                                              THEN [p EXCEPT !.payer_state = "payer_expired"]
                                              ELSE p)],
                 sent, rcv)
      /\ UNCHANGED <<initiator, target, messages, expiration, chain, transactions,
                     block_number, noticed, node_changes>>

-----------------------------------------------------------------------------
(* The target.                                                             *)

TargetPayer == {a \in Nodes : <<a, Target>> \in Directions
                              /\ received[<<a, Target>>] # "none"}

(* handle_inittarget: the secret is asked for while there is time to       *)
(* unlock on chain.                                                        *)
InitTarget(payer) ==
  /\ TargetPayer = {}
  /\ <<payer, Target>> \in Directions
  /\ sent[<<payer, Target>>] # "none"
  /\ registered = 0
  /\ received' = [received EXCEPT ![<<payer, Target>>] = "locked"]
  /\ target' = [active |-> TRUE, state |-> "secret_request"]
  /\ secret_request' = is_safe_to_wait(block_number[Target])
  /\ UNCHANGED <<sent, initiator, mediators, reveals, expiration, chain,
                 transactions, block_number, noticed, node_changes, stopped>>

(* handle_offchain_secretreveal: the secret is passed on to the payer.     *)
TargetSecretReveal(payer) ==
  /\ target.active
  /\ payer \in TargetPayer
  /\ <<Initiator, Target>> \in reveals
  /\ ~ is_transfer_expired(Target, payer, block_number[Target])
  /\ received' = ReceivedAt(Target, {payer}, Learning)
  /\ target' = [target EXCEPT !.state = "reveal_secret"]
  /\ reveals' = reveals \cup {<<Target, payer>>}
  /\ UNCHANGED <<sent, initiator, mediators, secret_request, expiration, chain,
                 transactions, block_number, noticed, node_changes, stopped>>

TargetUnlock(payer) ==
  /\ target.active
  /\ payer \in TargetPayer
  /\ sent[<<payer, Target>>] = "claimed"
  /\ received' = [received EXCEPT ![<<payer, Target>>] = "claimed"]
  /\ target' = [target EXCEPT !.active = FALSE]
  /\ UNCHANGED <<sent, initiator, mediators, messages, expiration, chain,
                 transactions, block_number, noticed, node_changes, stopped>>

TargetLockExpired(payer) ==
  /\ target.active
  /\ AcceptsLockExpired(Target, payer)
  /\ received' = [received EXCEPT ![<<payer, Target>>] = "expired"]
  /\ target' = [target EXCEPT !.active = FALSE]
  /\ UNCHANGED <<sent, initiator, mediators, messages, expiration, chain,
                 transactions, block_number, noticed, node_changes, stopped>>

-----------------------------------------------------------------------------
(* The registration of the secret, as the alarm task of a node polls it.   *)

Polls(n) ==
  /\ registered # 0
  /\ registered <= confirmed_block_number
  /\ n \notin noticed
  /\ noticed' = noticed \cup {n}

(* handle_onchain_secretreveal of the initiator pays at once.              *)
InitiatorOnchainReveal ==
  /\ Polls(Initiator)
  /\ IF initiator.active /\ registered <= expiration
     THEN \E hop \in InitiatorHop : InitiatorPays(hop)
     ELSE UNCHANGED <<sent, initiator>>
  /\ UNCHANGED <<received, mediators, target, messages, expiration, chain,
                 transactions, block_number, node_changes, stopped>>

(* Of a mediator: the payee states are left as they are, and a payee is    *)
(* paid if the secret was registered before the danger zone.               *)
MediatorOnchainReveal(n) ==
  LET m == mediators[n]
  IN  /\ Polls(n)
      /\ IF m.active
         THEN Mediate(n, [m EXCEPT !.secret = TRUE,
                                   !.transfers_pair = events_for_balanceproof(@, registered)],
                      Paid(n, SentAt(n, PartnersOf(m), Registration),
                           m.transfers_pair, registered),
                      ReceivedAt(n, PartnersOf(m), Registration))
         ELSE UNCHANGED <<locks, mediators, stopped>>
      /\ UNCHANGED <<initiator, target, messages, expiration, chain, transactions,
                     block_number, node_changes>>

TargetOnchainReveal ==
  /\ Polls(Target)
  /\ IF target.active
     THEN /\ received' = ReceivedAt(Target, TargetPayer, Registration)
          /\ target' = [target EXCEPT !.state = "onchain_unlock"]
     ELSE UNCHANGED <<received, target>>
  /\ UNCHANGED <<sent, initiator, mediators, messages, expiration, chain,
                 transactions, block_number, node_changes, stopped>>

-----------------------------------------------------------------------------
(* A confirmed block, after the events up to it.                           *)

NextBlock(n, b) ==
  /\ block_number[n] < b
  /\ b <= confirmed_block_number
  /\ registered # 0 /\ registered <= b => n \in noticed
  /\ block_number' = [block_number EXCEPT ![n] = b]

(* initiator.handle_block: an expired lock ends the task.                  *)
InitiatorBlock(b) ==
  /\ NextBlock(Initiator, b)
  /\ IF \E hop \in InitiatorHop :
          /\ initiator.active
          /\ sent[<<Initiator, hop>>] = "locked"
          /\ is_lock_expired(sent[<<Initiator, hop>>], b, sender_threshold)
     THEN /\ sent' = SentAt(Initiator, InitiatorHop, Expiration)
          /\ initiator' = [initiator EXCEPT !.active = FALSE]
     ELSE UNCHANGED <<sent, initiator>>
  /\ UNCHANGED <<received, mediators, target, messages, expiration, chain,
                 transactions, noticed, node_changes, stopped>>

(* target.handle_block.                                                    *)
TargetBlock(b) ==
  /\ NextBlock(Target, b)
  /\ IF target.active
     THEN \E payer \in TargetPayer :
            LET status == received[<<payer, Target>>]
                expired == is_lock_expired(OwnStatus(Target, payer), b, receiver_threshold)
                reveal == /\ ~ (expired /\ target.state # "expired")
                          /\ status = "unlocked"
                          /\ ~ is_safe_to_wait(b)
                          /\ target.state # "onchain_secret_reveal"
            IN  /\ target' = [target EXCEPT !.state =
                                IF expired /\ @ # "expired" THEN "expired"
                                ELSE IF reveal THEN "onchain_secret_reveal" ELSE @]
                /\ transactions' = IF reveal THEN ChannelSecret(Target) ELSE transactions
     ELSE UNCHANGED <<target, transactions>>
  /\ UNCHANGED <<locks, initiator, mediators, messages, expiration, chain,
                 noticed, node_changes, stopped>>

(* The steps of mediator.handle_block on the pairs, in order.              *)

(* Fault: a lock expires only while its secret is unknown.                 *)
Fault_LockHasExpired(n, p, b) ==
  /\ sent[<<n, p.payee>>] = "locked"
  /\ is_lock_expired(sent[<<n, p.payee>>], b, sender_threshold)

LockHasExpired(n, p, b) ==
  /\ sent[<<n, p.payee>>] \in {"locked", "unlocked"}
  /\ is_lock_expired(sent[<<n, p.payee>>], b, sender_threshold)

events_to_remove_expired_locks(n, pairs, b) ==
  MapPairs(pairs, LAMBDA p : IF LockHasExpired(n, p, b)
                             THEN [p EXCEPT !.payee_state = "payee_expired"]
                             ELSE p)

is_pending_pair(p) ==
  p.payee_state \notin STATE_TRANSFER_FINAL \/ p.payer_state \notin STATE_TRANSFER_FINAL

in_dangerzone(n, p, b) ==
  /\ is_pending_pair(p)
  /\ ~ is_safe_to_wait(b)
  /\ received[<<p.payer, n>>] \in {"unlocked", "onchain"}

events_for_onchain_secretreveal_if_dangerzone(n, pairs, b) ==
  MapPairs(pairs, LAMBDA p : IF in_dangerzone(n, p, b)
                             THEN [p EXCEPT !.payer_state = "payer_waiting_secret_reveal"]
                             ELSE p)

has_secret_registration_started(n, pairs) ==
  \E i \in DOMAIN pairs : \/ received[<<pairs[i].payer, n>>] = "onchain"
                          \/ pairs[i].payer_state = "payer_waiting_secret_reveal"

events_for_expired_pairs(n, pairs, b) ==
  MapPairs(pairs, LAMBDA p : IF is_pending_pair(p) /\ is_transfer_expired(n, p.payer, b)
                             THEN [p EXCEPT !.payer_state = "payer_expired"]
                             ELSE p)

MediatorBlock(n, b) ==
  LET m        == mediators[n]
      removed  == events_to_remove_expired_locks(n, m.transfers_pair, b)
      revealed == events_for_onchain_secretreveal_if_dangerzone(n, removed, b)
      lost     == {p.payee : p \in {q \in PairsOf(m) : LockHasExpired(n, q, b)}}
      reveal   == /\ ~ has_secret_registration_started(n, removed)
                  /\ \E i \in DOMAIN removed : in_dangerzone(n, removed[i], b)
  IN  /\ NextBlock(n, b)
      /\ IF m.active
         THEN /\ Mediate(n, [m EXCEPT !.transfers_pair =
                               events_for_expired_pairs(n, revealed, b)],
                         SentAt(n, lost, Expiration), received)
              /\ transactions' = IF reveal THEN ChannelSecret(n) ELSE transactions
         ELSE UNCHANGED <<locks, mediators, transactions, stopped>>
      /\ UNCHANGED <<initiator, target, messages, expiration, chain, noticed,
                     node_changes>>

-----------------------------------------------------------------------------
(* The blockchain (external): blocks come no faster than the running nodes *)
(* follow, and a registration is mined within MINING_DELAY blocks.         *)
MineBlock ==
  /\ latest < MaxBlock
  /\ \A n \in Nodes \ stopped : confirmed_block_number - block_number[n] <= MAX_LAG
  /\ latest' = latest + 1
  /\ LET sent_at == {transactions[n] : n \in Nodes} \ {0}
         due     == \E h \in sent_at : latest' >= h + MINING_DELAY
     IN  \/ registered = 0 /\ sent_at # {} /\ registered' = latest'
         \/ (registered # 0 \/ ~ due) /\ registered' = registered
  /\ UNCHANGED <<locks, tasks, messages, expiration, transactions, block_number,
                 noticed, node_changes, stopped>>

-----------------------------------------------------------------------------
InitiatorNext ==
  \/ \E hop \in Nodes : InitInitiator(hop) \/ InitiatorSecretReveal(hop)
  \/ InitiatorSecretRequest
  \/ InitiatorOnchainReveal
  \/ \E b \in 1..confirmed_block_number : InitiatorBlock(b)

MediatorNext(n) ==
  \/ \E p \in Nodes : \/ InitMediator(n, p)
                      \/ ReceiveTransferRefund(n, p)
                      \/ NodeChangeNetworkState(n, p)
                      \/ MediatorSecretReveal(n, p)
                      \/ MediatorUnlock(n, p)
                      \/ MediatorLockExpired(n, p)
  \/ MediatorOnchainReveal(n)
  \/ \E b \in 1..confirmed_block_number : MediatorBlock(n, b)

TargetNext ==
  \/ \E p \in Nodes : InitTarget(p) \/ TargetSecretReveal(p)
                        \/ TargetUnlock(p) \/ TargetLockExpired(p)
  \/ TargetOnchainReveal
  \/ \E b \in 1..confirmed_block_number : TargetBlock(b)

Next ==
  \/ MineBlock
  \/ InitiatorNext
  \/ TargetNext
  \/ \E n \in Mediators \ stopped : MediatorNext(n)

Spec == Init /\ [][Next]_vars

(* The steps of the running nodes that the polled chain and the messages   *)
(* retried by running nodes ask for.                                       *)
Progress ==
  \/ MineBlock
  \/ InitiatorSecretRequest
  \/ InitiatorOnchainReveal
  \/ TargetOnchainReveal
  \/ \E p \in Nodes : TargetSecretReveal(p)
  \/ \E p \in Nodes \ stopped :
       \/ InitiatorSecretReveal(p)
       \/ InitTarget(p) \/ TargetUnlock(p) \/ TargetLockExpired(p)
       \/ \E n \in Mediators \ stopped :
            \/ InitMediator(n, p)
            \/ ReceiveTransferRefund(n, p)
            \/ MediatorSecretReveal(n, p)
            \/ MediatorUnlock(n, p)
            \/ MediatorLockExpired(n, p)
  \/ \E b \in 1..confirmed_block_number : InitiatorBlock(b) \/ TargetBlock(b)
  \/ \E n \in Mediators \ stopped :
       \/ MediatorOnchainReveal(n)
       \/ \E b \in 1..confirmed_block_number : MediatorBlock(n, b)

(***************************************************************************)
(* Fairness: a node that runs follows the chain and takes what a running   *)
(* node retries until it is answered, and the chain grows.  Nobody has to  *)
(* start a payment or to come online again.  One condition for all of them *)
(* is enough: no step can be undone, so it says that they go on until none *)
(* is left.                                                                *)
(***************************************************************************)
Fairness == WF_vars(Progress)

FairSpec == Spec /\ Fairness

-----------------------------------------------------------------------------
(* Properties.                                                             *)

(* Every variable keeps its type.                                          *)
TypeOK ==
  /\ sent \in [Directions -> LockStatus]
  /\ received \in [Directions -> LockStatus]
  /\ initiator \in [active : BOOLEAN, received_secret_request : BOOLEAN, success : BOOLEAN]
  /\ \A n \in Mediators :
       /\ mediators[n].active \in BOOLEAN
       /\ PairsOf(mediators[n]) \subseteq MediationPairState
       /\ mediators[n].waiting_transfer \in Nodes \cup {NoNode}
       /\ mediators[n].secret \in BOOLEAN
  /\ target \in [active : BOOLEAN,
                 state : {"secret_request", "reveal_secret", "onchain_secret_reveal",
                          "onchain_unlock", "expired"}]
  /\ secret_request \in BOOLEAN
  /\ reveals \subseteq Nodes \X Nodes
  /\ expiration \in Nat /\ latest \in Nat /\ registered \in Nat
  /\ transactions \in [Nodes -> Nat]
  /\ block_number \in [Nodes -> Nat]
  /\ noticed \subseteq Nodes
  /\ node_changes \in Nat
  /\ stopped \subseteq Mediators

RegisteredInTime == registered # 0 /\ registered <= expiration

PaidBy(n) ==
  {d \in Directions : /\ d[1] = n
                      /\ \/ sent[d] = "claimed"
                         \/ sent[d] \in Pending /\ RegisteredInTime}

CoveredFor(n) ==
  {d \in Directions :
     /\ d[2] = n
     /\ \/ received[d] = "claimed"
        \/ received[d] \in Pending /\ RegisteredInTime
        \/ received[d] = "unlocked" /\ registered = 0 /\ latest < expiration}

(* If the payee has been paid, then the payer must pay too: at any moment, *)
(* the locks a mediator has paid, or that can be claimed from it on chain, *)
(* are no more than the locks it was paid or can itself claim on chain,    *)
(* those for which it knows the secret and still has time included.  That  *)
(* is so unless a waiting transfer is tried a second time: the code keeps  *)
(* it waiting when it is forwarded, and forwards it again.                 *)
MediatorNeverLoses ==
  node_changes <= 1 =>
    \A n \in Mediators : Cardinality(PaidBy(n)) <= Cardinality(CoveredFor(n))

(* On-chain unlocks are atomic: the lock expires at the same block in      *)
(* every channel, so once the secret was registered in time no channel     *)
(* along the path lets its lock expire.                                    *)
OnchainUnlocksAtomic ==
  registered # 0 /\ registered <= expiration =>
    \A d \in Directions : sent[d] # "expired" /\ received[d] # "expired"

HasTask(n) ==
  CASE n = Initiator -> initiator.active
    [] n = Target    -> target.active
    [] OTHER         -> mediators[n].active

(* A payment task lives as long as its locks: messages and registrations   *)
(* reach a channel only through the task of their secrethash, a lock that  *)
(* outlived its task could neither be claimed nor expire off chain.        *)
LocksHaveTasks ==
  \A d \in Directions :
    /\ sent[d] \in {"locked", "unlocked"} => HasTask(d[1])
    /\ received[d] \in {"locked", "unlocked"} => HasTask(d[2])

(* However messages are delayed, a moment comes from which on no lock of a *)
(* running node is open: each was paid, was registered on chain or         *)
(* expired.  The locks of a mediator that an assertion ended are not.      *)
EveryLockResolved ==
  <>[](\A d \in Directions :
         sent[d] \in {"locked", "unlocked"} => d[1] \in stopped)

(* The initiator pays as soon as it sees the secret on chain, and n takes  *)
(* the Unlock before it has read the registration, or a RevealSecret.      *)
UnlockedBeforeSecret(n) ==
  /\ RegisteredInTime /\ n \notin noticed /\ ~ mediators[n].secret
  /\ \E p \in PairsOf(mediators[n]) : p.payer = Initiator
  /\ sent[<<Initiator, n>>] = "claimed" /\ received[<<Initiator, n>>] \in Pending

(* A waiting transfer that is the payer of a pair already is tried again.  *)
ForwardedTwice(n) ==
  /\ node_changes > 1
  /\ mediators[n].waiting_transfer \in {p.payer : p \in PairsOf(mediators[n])}

(* What the assertions of the mediator say of it, "Check invariants that   *)
(* must hold", and the two ways in which they fail and end the node: an    *)
(* Unlock of the initiator outruns the secret, or a hop comes online a     *)
(* second time and the transfer that waited is sent out again.             *)
SanityChecksHold ==
  \A n \in stopped : UnlockedBeforeSecret(n) \/ ForwardedTwice(n)
=============================================================================
