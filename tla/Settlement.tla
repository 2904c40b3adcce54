----------------------------- MODULE Settlement -----------------------------
(***************************************************************************)
(* The end of a channel: close, update, settle and unlock.  Two nodes run  *)
(* the channel's state machine (transfer/channel.py), the queue of pending *)
(* transactions of the chain state (transfer/node.py), the handlers that   *)
(* send them (raiden_event_handler.py, network/proxies/token_network.py)   *)
(* and the handlers of the contract's events; the contract and the pool    *)
(* of transactions are external.  A node may crash between any two steps:  *)
(* the chain state is written ahead, the greenlets that send are lost.     *)
(*                                                                         *)
(* A balance proof is its nonce, and ProofsWithLocks tells whose proofs    *)
(* have pending locks.  Errors of the proxies, recoverable or not, are     *)
(* logged, as the production environment does (_handle_event).             *)
(***************************************************************************)
EXTENDS Integers, Sequences, FiniteSets

CONSTANTS
  A, B,              \* the two participants
  MaxNonce,          \* bound on the balance proofs of a participant
  ProofsWithLocks,   \* <<participant, nonce>> of the proofs with a locksroot
  SETTLE_TIMEOUT,
  LastOpenBlock,     \* bound: the chain waits here for the channel to close
  MaxCrashes         \* bound on crashes

Nodes == {A, B}

ASSUME SettlementAssumption ==
  /\ A # B
  /\ MaxNonce \in Nat
  /\ ProofsWithLocks \subseteq Nodes \X (1..MaxNonce)
  /\ SETTLE_TIMEOUT \in Nat \ {0}
  /\ LastOpenBlock \in Nat /\ LastOpenBlock >= 2
  /\ MaxCrashes \in Nat

VARIABLES
  block,        \* the block being mined; the latest one is before it
  channel,      \* the contract: "opened", "closed" or "settled"
  closer,       \* the participant that closed, once it is closed
  closeBlock,
  onchain,      \* nonce of the proof of a participant the contract holds
  logs,         \* the events of the contract
  txpool,       \* transactions that wait to be mined
  status,       \* get_status of a node's channel, "removed" at the end
  accepted,     \* nonce of the partner's last proof a node accepted
  finished,     \* close_transaction.finished_block_number, 0 before
  pending,      \* pending_transactions of a node's chain state
  view,         \* block number of a node's chain state
  seen,         \* events of the contract a node has handled
  phase,        \* "down", "syncing", "sending" or "running"
  calls,        \* transactions a node is sending, by greenlets or at start
  crashes

chain  == <<block, channel, closer, closeBlock, onchain, logs>>
state  == <<status, accepted, finished, pending, view>>
vars   == <<chain, txpool, state, seen, phase, calls, crashes>>

Partner(n) == IF n = A THEN B ELSE A

Close(nonce)  == [kind |-> "close", nonce |-> nonce]
Update(nonce) == [kind |-> "update", nonce |-> nonce]
Settle        == [kind |-> "settle", nonce |-> 0]
Unlock        == [kind |-> "unlock", nonce |-> 0]

(* A close may come without a proof, an update may not.                    *)
Transaction ==
       {Close(nonce) : nonce \in 0..MaxNonce}
  \cup {Update(nonce) : nonce \in 1..MaxNonce}
  \cup {Settle, Unlock}

Call == [tx : Transaction, stage : {"check", "poll"}]

Init ==
  /\ block = 2
  /\ channel = "opened"
  /\ closer = A
  /\ closeBlock = 0
  /\ onchain = [n \in Nodes |-> 0]
  /\ logs = <<>>
  /\ txpool = {}
  /\ status = [n \in Nodes |-> "opened"]
  /\ accepted = [n \in Nodes |-> 0]
  /\ finished = [n \in Nodes |-> 0]
  /\ pending = [n \in Nodes |-> {}]
  /\ view = [n \in Nodes |-> 1]
  /\ seen = [n \in Nodes |-> 0]
  /\ phase = [n \in Nodes |-> "running"]
  /\ calls = [n \in Nodes |-> {}]
  /\ crashes = 0

-----------------------------------------------------------------------------
(* The contract (external).                                                *)

SettlementEnd == closeBlock + SETTLE_TIMEOUT

(* Whether a transaction would succeed in the current block; the estimate  *)
(* of its gas fails exactly when it would not.                             *)
Accepts(n, tx) ==
  CASE tx.kind = "close"  -> channel = "opened"
    [] tx.kind = "update" -> /\ channel = "closed"
                             /\ block <= SettlementEnd
                             /\ closer # n
                             /\ tx.nonce > onchain[Partner(n)]
    [] tx.kind = "settle" -> channel = "closed" /\ block > SettlementEnd

Event(type) == [type |-> type, block |-> block]

Execute(n, tx) ==
  /\ logs' = Append(logs, Event(tx.kind))
  /\ channel' = CASE tx.kind = "close" -> "closed"
                  [] tx.kind = "settle" -> "settled"
                  [] OTHER -> channel
  /\ closer' = IF tx.kind = "close" THEN n ELSE closer
  /\ closeBlock' = IF tx.kind = "close" THEN block ELSE closeBlock
  /\ onchain' = IF tx.kind = "settle" THEN onchain
                ELSE [onchain EXCEPT ![Partner(n)] = tx.nonce]
  /\ UNCHANGED block

(* A transaction sent twice is one element of the pool: once one of the    *)
(* two is mined, the other is reverted.                                    *)
Mine(n, tx) ==
  /\ <<n, tx>> \in txpool
  /\ txpool' = txpool \ {<<n, tx>>}
  /\ IF Accepts(n, tx) THEN Execute(n, tx) ELSE UNCHANGED chain
  /\ UNCHANGED <<state, seen, phase, calls, crashes>>

(* The participants whose locksroot the settlement leaves in the contract: *)
(* nobody unlocks, so it is the same at every later block.                 *)
LockedOnChain == {n \in Nodes : <<n, onchain[n]>> \in ProofsWithLocks}

(* The scheduling the settle timeout stands for: it is long enough for the *)
(* participant that did not close to be up, to see the event and to have   *)
(* the transaction it sends mined.                                         *)
UpdateInTime ==
  LET n == Partner(closer) IN
    /\ phase[n] = "running"
    /\ finished[n] # 0
    /\ \A c \in calls[n] : c.tx.kind # "update"
    /\ \A entry \in txpool : entry[2].kind # "update"

(* The next block.  It is bounded by the last one that changes anything.   *)
Tick ==
  /\ channel = "opened" => block < LastOpenBlock
  /\ channel = "closed" => /\ block <= SettlementEnd + 1
                           /\ block = SettlementEnd => UpdateInTime
  /\ channel = "settled" => logs[Len(logs)].block = block
  /\ block' = block + 1
  /\ UNCHANGED <<channel, closer, closeBlock, onchain, logs, txpool,
                 state, seen, phase, calls, crashes>>

-----------------------------------------------------------------------------
(* Balance proofs and the request to close.                                *)

(* Fault: the status of the channel is not looked at.                      *)
Fault_is_balance_proof_usable_onchain(n) == status[n] # "removed"

is_balance_proof_usable_onchain(n) == status[n] = "opened"

(* The partner's next balance proof arrives; it may have been sent before  *)
(* the partner knew of anything.                                           *)
Accept(n) ==
  /\ phase[n] = "running"
  /\ accepted[n] < MaxNonce
  /\ is_balance_proof_usable_onchain(n)
  /\ accepted' = [accepted EXCEPT ![n] = @ + 1]
  /\ UNCHANGED <<chain, txpool, status, finished, pending, view, seen, phase,
                 calls, crashes>>

(* Events of a state change: update_queues appends them to the pending     *)
(* transactions, and a greenlet is spawned for each one unless the node is *)
(* still starting.                                                         *)
Emit(n, transactions) ==
  calls' = IF phase[n] = "running"
           THEN [calls EXCEPT ![n] = @ \cup [tx : transactions, stage : {"check"}]]
           ELSE calls

(* ActionChannelClose: the proof the close will use is fixed here.         *)
ActionChannelClose(n) ==
  /\ phase[n] = "running"
  /\ status[n] \in {"opened", "closing"}
  /\ status' = [status EXCEPT ![n] = "closing"]
  /\ pending' = [pending EXCEPT ![n] = @ \cup {Close(accepted[n])}]
  /\ Emit(n, {Close(accepted[n])})
  /\ UNCHANGED <<chain, txpool, accepted, finished, view, seen, phase, crashes>>

-----------------------------------------------------------------------------
(* Sending a transaction.                                                  *)

(* At start the pending transactions are sent one after the other, later   *)
(* by a greenlet each.                                                     *)
MayStart(n) ==
  \/ phase[n] = "running"
  \/ phase[n] = "sending" /\ \A c \in calls[n] : c.stage = "check"

(* A call of the proxy: estimate the gas and send, or end with an error    *)
(* that is logged.                                                         *)
Transact(n, tx) ==
  LET call == [tx |-> tx, stage |-> "check"] IN
    /\ call \in calls[n]
    /\ MayStart(n)
    /\ IF Accepts(n, tx)
         THEN /\ txpool' = txpool \cup {<<n, tx>>}
              /\ calls' = [calls EXCEPT ![n] =
                             (@ \ {call}) \cup {[tx |-> tx, stage |-> "poll"]}]
         ELSE /\ calls' = [calls EXCEPT ![n] = @ \ {call}]
              /\ UNCHANGED txpool
    /\ UNCHANGED <<chain, state, seen, phase, crashes>>

CallClose(n) == \E nonce \in 0..MaxNonce : Transact(n, Close(nonce))

CallUpdateTransfer(n) == \E nonce \in 1..MaxNonce : Transact(n, Update(nonce))

CallSettle(n) == Transact(n, Settle)

(* The poll ends once the transaction is mined; a reverted one is logged.  *)
Polled(n, tx) ==
  LET call == [tx |-> tx, stage |-> "poll"] IN
    /\ call \in calls[n]
    /\ <<n, tx>> \notin txpool
    /\ calls' = [calls EXCEPT ![n] = @ \ {call}]
    /\ UNCHANGED <<chain, txpool, state, seen, phase, crashes>>

(* handle_contract_send_channelunlock restores the channel of the locksroot*)
(* with a view that does not exist: the AttributeError stops the node.     *)
SendUnlock(n) ==
  /\ [tx |-> Unlock, stage |-> "check"] \in calls[n]
  /\ MayStart(n)
  /\ phase' = [phase EXCEPT ![n] = "down"]
  /\ calls' = [calls EXCEPT ![n] = {}]
  /\ UNCHANGED <<chain, txpool, state, seen, crashes>>

-----------------------------------------------------------------------------
(* Events of the contract and blocks.                                      *)

(* Fault: an update is not invalidated by the settlement.                  *)
Fault_is_transaction_invalidated(tx, type) == tx.kind # type

(* update_queues: a close or a settle is satisfied by the event, an update *)
(* is invalidated by the settlement.  (is_transaction_expired would drop   *)
(* an update after the window: the next event of the channel then is the   *)
(* settlement.)                                                            *)
is_transaction_pending(tx, type) ==
  /\ tx.kind # type
  /\ ~ (tx.kind = "update" /\ type = "settle")

StillPending(n, type) == {tx \in pending[n] : is_transaction_pending(tx, type)}

(* Fault: only a node that was not closing itself sends the update.        *)
Fault_call_update(n) ==
  closer # n /\ accepted[n] > 0 /\ status[n] = "opened"

(* Fault: it is not asked whether there is a balance proof.                *)
Fault_without_balance_proof(n) == closer # n

call_update(n) == closer # n /\ accepted[n] > 0

(* ContractReceiveChannelClosed: the first one counts, later ones find no  *)
(* channel in the network graph.                                           *)
handle_channel_closed(n, e) ==
  LET update == IF call_update(n) THEN {Update(accepted[n])} ELSE {} IN
    IF status[n] \in {"opened", "closing"}
      THEN /\ status' = [status EXCEPT ![n] = "closed"]
           /\ finished' = [finished EXCEPT ![n] = e.block]
           /\ pending' = [pending EXCEPT ![n] = StillPending(n, "close") \cup update]
           /\ Emit(n, update)
      ELSE UNCHANGED <<status, finished, pending, calls>>

(* The event names the closing participant only.  The closer finds its     *)
(* channel and has no update to clear; the other node finds none, because  *)
(* the close removed it from the graph the search goes through, and its    *)
(* update stays pending.                                                   *)
handle_channel_update_transfer(n) ==
  UNCHANGED <<status, finished, pending, calls>>

(* Fault: only the node's own locksroot is looked at.                      *)
Fault_should_clear_channel(n) == n \notin LockedOnChain

should_clear_channel(n) == LockedOnChain = {}

handle_channel_settled(n) ==
  IF status[n] = "removed"
    THEN UNCHANGED <<status, finished, pending, calls>>
    ELSE LET unlock == IF should_clear_channel(n) THEN {} ELSE {Unlock} IN
      /\ status' = [status EXCEPT ![n] =
                      IF should_clear_channel(n) THEN "removed" ELSE "settled"]
      /\ pending' = [pending EXCEPT ![n] = StillPending(n, "settle") \cup unlock]
      /\ Emit(n, unlock)
      /\ UNCHANGED finished

(* The next event of the poll, while synchronizing or from the alarm task. *)
HandleEvent(n) ==
  /\ phase[n] \in {"syncing", "running"}
  /\ seen[n] < Len(logs)
  /\ logs[seen[n] + 1].block < block
  /\ LET e == logs[seen[n] + 1] IN
       CASE e.type = "close"  -> handle_channel_closed(n, e)
         [] e.type = "update" -> handle_channel_update_transfer(n)
         [] e.type = "settle" -> handle_channel_settled(n)
  /\ seen' = [seen EXCEPT ![n] = @ + 1]
  /\ UNCHANGED <<chain, txpool, accepted, view, phase, crashes>>

AllSeen(n, b) == \A i \in seen[n] + 1..Len(logs) : logs[i].block > b

(* The settle transactions of a Block.                                     *)
settles(n, b) ==
  {tx \in {Settle} : status[n] = "closed" /\ b > finished[n] + SETTLE_TIMEOUT}

handle_block(n, b) ==
  /\ view' = [view EXCEPT ![n] = b]
  /\ status' = [status EXCEPT ![n] = IF settles(n, b) = {} THEN @ ELSE "settling"]
  /\ pending' = [pending EXCEPT ![n] = @ \cup settles(n, b)]
  /\ UNCHANGED <<chain, txpool, accepted, finished, seen, crashes>>

(* The alarm task: the block comes after the events up to it.              *)
HandleBlock(n, b) ==
  /\ phase[n] = "running"
  /\ b \in view[n] + 1..block - 1
  /\ AllSeen(n, b)
  /\ handle_block(n, b)
  /\ Emit(n, settles(n, b))
  /\ UNCHANGED phase

-----------------------------------------------------------------------------
(* Crash and restart.                                                      *)

Crash(n) ==
  /\ phase[n] # "down"
  /\ crashes < MaxCrashes
  /\ crashes' = crashes + 1
  /\ phase' = [phase EXCEPT ![n] = "down"]
  /\ calls' = [calls EXCEPT ![n] = {}]
  /\ UNCHANGED <<chain, txpool, state, seen>>

(* The filters start at the block of the restored chain state, so the      *)
(* events of that block come again.                                        *)
Restart(n) ==
  /\ phase[n] = "down"
  /\ phase' = [phase EXCEPT ![n] = "syncing"]
  /\ seen' = [seen EXCEPT ![n] =
                Cardinality({i \in 1..Len(logs) : logs[i].block < view[n]})]
  /\ UNCHANGED <<chain, txpool, state, calls, crashes>>

(* Fault: only what this process has sent itself is sent.                  *)
Fault_initialize_transactions_queues(n, transactions) ==
  [tx : transactions \ pending[n], stage : {"check"}]

initialize_transactions_queues(n, transactions) ==
  [tx : transactions, stage : {"check"}]

(* The end of the first run of the alarm task: the block it polled, which  *)
(* may be the one of the restored state, then every pending transaction.   *)
FirstRun(n, b) ==
  /\ phase[n] = "syncing"
  /\ b \in view[n]..block - 1
  /\ AllSeen(n, b)
  /\ handle_block(n, b)
  /\ calls' = [calls EXCEPT ![n] = initialize_transactions_queues(n, pending'[n])]
  /\ phase' = [phase EXCEPT ![n] = "sending"]

Started(n) ==
  /\ phase[n] = "sending"
  /\ calls[n] = {}
  /\ phase' = [phase EXCEPT ![n] = "running"]
  /\ UNCHANGED <<chain, txpool, state, seen, calls, crashes>>

-----------------------------------------------------------------------------
Next ==
  \/ Tick
  \/ \E n \in Nodes :
       \/ \E tx \in Transaction : Mine(n, tx)
       \/ Accept(n)
       \/ ActionChannelClose(n)
       \/ CallClose(n) \/ CallUpdateTransfer(n) \/ CallSettle(n) \/ SendUnlock(n)
       \/ \E tx \in Transaction : Polled(n, tx)
       \/ HandleEvent(n)
       \/ \E b \in 1..block : HandleBlock(n, b) \/ FirstRun(n, b)
       \/ Crash(n) \/ Restart(n) \/ Started(n)

Spec == Init /\ [][Next]_vars

(* A node that is down is started again, its greenlets run, the alarm task *)
(* polls, the chain grows and mines what is in its pool.                   *)
Fairness ==
  /\ WF_vars(Tick)
  /\ \A n \in Nodes :
       /\ \A tx \in Transaction : WF_vars(Mine(n, tx))
       /\ WF_vars(CallClose(n)) /\ WF_vars(CallUpdateTransfer(n))
       /\ WF_vars(CallSettle(n)) /\ WF_vars(SendUnlock(n))
       /\ WF_vars(\E tx \in Transaction : Polled(n, tx))
       /\ WF_vars(HandleEvent(n))
       /\ WF_vars(\E b \in 1..block : HandleBlock(n, b) \/ FirstRun(n, b))
       /\ WF_vars(Restart(n))
       /\ WF_vars(Started(n))

FairSpec == Spec /\ Fairness

-----------------------------------------------------------------------------
(* The types of the contract and of the nodes.                             *)
LogEntry == [type : {"close", "update", "settle"}, block : Nat]

ChainType ==
  /\ block \in Nat
  /\ channel \in {"opened", "closed", "settled"}
  /\ closer \in Nodes
  /\ closeBlock \in Nat
  /\ onchain \in [Nodes -> 0..MaxNonce]
  /\ logs \in Seq(LogEntry)
  /\ txpool \subseteq Nodes \X Transaction

StateType ==
  /\ status \in [Nodes -> {"opened", "closing", "closed", "settling", "settled",
                           "removed"}]
  /\ accepted \in [Nodes -> 0..MaxNonce]
  /\ finished \in [Nodes -> Nat]
  /\ pending \in [Nodes -> SUBSET Transaction]
  /\ view \in [Nodes -> Nat]

ProcessType ==
  /\ seen \in [Nodes -> 0..Len(logs)]
  /\ phase \in [Nodes -> {"down", "syncing", "sending", "running"}]
  /\ calls \in [Nodes -> SUBSET Call]
  /\ crashes \in 0..MaxCrashes

(* The type of the state: what a node waits for is a transaction of the    *)
(* channel, and a node handles no event the contract has not emitted.      *)
TypeOK == ChainType /\ StateType /\ ProcessType

(* Whatever a node still has to do on chain is among the pending           *)
(* transactions of its chain state, the only place a restart finds it: the *)
(* close while the channel is open, the update while the contract does not *)
(* hold the last proof, the settle and the unlock until they are done.     *)
Owes(n, kind) ==
  CASE kind = "close"  -> status[n] = "closing" /\ channel = "opened"
    [] kind = "update" -> /\ status[n] \in {"closed", "settling"}
                          /\ closer # n
                          /\ channel = "closed"
                          /\ onchain[Partner(n)] < accepted[n]
    [] kind = "settle" -> status[n] = "settling" /\ channel = "closed"
    [] kind = "unlock" -> status[n] = "settled"

OwedIsPending ==
  \A n \in Nodes : \A kind \in {"close", "update", "settle", "unlock"} :
    Owes(n, kind) => \E tx \in pending[n] : tx.kind = kind

(* A node forgets a channel only when nothing of it is left to unlock on   *)
(* chain, for either participant (handle_channel_settled).                 *)
ForgottenOnlyWhenEmpty ==
  \A n \in Nodes : status[n] = "removed" => channel = "settled" /\ LockedOnChain = {}

(* A transaction that can no longer have an effect is not sent for ever:   *)
(* once the channel is settled and its locks are gone, nothing is pending. *)
NothingLeftPending ==
  \A n \in Nodes : status[n] = "removed" => pending[n] = {}

(* The settlement pays both participants by the last balance proof they    *)
(* accepted, however the closes race, and a node accepts nothing more once *)
(* its own close has fixed the proof it is paid by.                        *)
Payout == INSTANCE ChannelPayout WITH
  Participants <- Nodes,
  claims       <- accepted,
  frozen       <- {n \in Nodes : status[n] # "opened"},
  payout       <- [n \in Nodes |-> IF channel = "settled" THEN onchain[Partner(n)]
                                                          ELSE -1]

PaysLastAccepted == Payout!Spec

(* A channel one of the nodes wants closed is settled in the end, through  *)
(* crashes and whichever node's transactions win.                          *)
ClosingSettles ==
  (\E n \in Nodes : status[n] = "closing") ~> (channel = "settled")

(* What the long running settlement test waits for: the locks of a settled *)
(* channel are unlocked by the nodes, and nothing stays pending for them.  *)
UnlocksSettledLocks ==
  \A n \in Nodes : (Unlock \in pending[n]) ~> (Unlock \notin pending[n])
=============================================================================
