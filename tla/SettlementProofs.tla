-------------------------- MODULE SettlementProofs --------------------------
(***************************************************************************)
(* Proofs about Settlement, for any proofs with locks, timeout and bounds: *)
(* its safety invariants, and that it implements ChannelPayout.            *)
(***************************************************************************)
EXTENDS Settlement, FiniteSetTheorems, SequenceTheorems, TLAPS

(* A status before the close event was handled.                            *)
Unclosed == {"opened", "closing"}

(* What a node may still put on chain: pending, being sent, or in the pool.*)
Sent(n, tx) ==
  \/ tx \in pending[n]
  \/ \E c \in calls[n] : c.tx = tx
  \/ <<n, tx>> \in txpool

(* The log of the contract starts with the close.                          *)
LogsInv ==
  /\ block >= 2
  /\ channel = "opened" <=> logs = <<>>
  /\ logs # <<>> => logs[1].type = "close"
  /\ \A i \in 1..Len(logs) :
       /\ logs[i].block \in 2..block
       /\ logs[i].type = "settle" => channel = "settled"
  /\ channel = "settled" => block > SettlementEnd

(* A node that has not handled the close has handled nothing, and a restart*)
(* will not skip the close.                                                *)
ViewInv ==
  \A n \in Nodes :
    /\ view[n] < block
    /\ status[n] \in Unclosed =>
         /\ seen[n] = 0
         /\ \A i \in 1..Len(logs) : logs[i].block > view[n]

(* A node knows no more than the contract.                                 *)
StatusInv ==
  \A n \in Nodes :
    /\ status[n] \in Unclosed <=> finished[n] = 0
    /\ status[n] \notin Unclosed => channel # "opened"
    /\ status[n] \in {"settled", "removed"} => channel = "settled"

(* A close or an update carries the last proof the node accepts.           *)
SentInv ==
  \A n \in Nodes :
    /\ \A k \in 0..MaxNonce :
         /\ Sent(n, Close(k)) => status[n] # "opened" /\ k = accepted[n]
         /\ Close(k) \in pending[n] => status[n] = "closing"
         /\ Sent(n, Update(k)) => status[n] \notin Unclosed /\ k = accepted[n]
    /\ Unlock \in pending[n] => channel = "settled" /\ LockedOnChain # {}
    /\ <<n, Unlock>> \notin txpool

(* The contract holds the closer's proof, and of the other participant     *)
(* none or the last one.                                                   *)
OnchainInv ==
  /\ channel = "opened" => \A n \in Nodes : onchain[n] = 0
  /\ channel # "opened" =>
       /\ status[closer] # "opened"
       /\ onchain[Partner(closer)] = accepted[closer]
       /\ onchain[closer] # 0 => /\ onchain[closer] = accepted[Partner(closer)]
                                 /\ status[Partner(closer)] # "opened"

(* A call that is being made, or waits for a transaction of the pool.      *)
Underway(n, tx) ==
  \/ [tx |-> tx, stage |-> "check"] \in calls[n]
  \/ [tx |-> tx, stage |-> "poll"] \in calls[n] /\ <<n, tx>> \in txpool

(* The update of the participant that did not close is pending, then under *)
(* way, and done when the settlement window ends.                          *)
UpdateInv ==
  channel # "opened" =>
    LET n == Partner(closer) IN
      /\ (channel = "closed" /\ status[n] \notin Unclosed /\ accepted[n] > 0)
           => Update(accepted[n]) \in pending[n]
      /\ (/\ channel = "closed" /\ block <= SettlementEnd
          /\ status[n] \notin Unclosed /\ phase[n] \in {"sending", "running"}
          /\ onchain[closer] # accepted[n])
           => Underway(n, Update(accepted[n]))
      /\ block > SettlementEnd
           => status[n] \notin Unclosed /\ onchain[closer] = accepted[n]

IInv ==
  /\ TypeOK /\ LogsInv /\ ViewInv /\ StatusInv
  /\ SentInv /\ OnchainInv /\ UpdateInv
  /\ OwedIsPending /\ ForgottenOnlyWhenEmpty /\ NothingLeftPending

-----------------------------------------------------------------------------
(* The operators of the model.                                             *)

LEMMA PartnerType ==
  ASSUME NEW n \in Nodes
  PROVE  Partner(n) \in Nodes /\ Partner(n) # n /\ Partner(Partner(n)) = n
BY SettlementAssumption DEF Nodes, Partner

LEMMA OnlyTwo ==
  ASSUME NEW n \in Nodes, NEW m \in Nodes, m # n
  PROVE  m = Partner(n)
BY SettlementAssumption DEF Nodes, Partner

LEMMA TransactionType ==
  /\ \A k \in 0..MaxNonce : Close(k) \in Transaction
  /\ \A k \in 0..MaxNonce : k > 0 => Update(k) \in Transaction
  /\ Settle \in Transaction /\ Unlock \in Transaction
BY SettlementAssumption DEF Transaction

(* The kinds tell the transactions apart.                                  *)
LEMMA TransactionKinds ==
  /\ \A k : Close(k).kind = "close" /\ Close(k).nonce = k
  /\ \A k : Update(k).kind = "update" /\ Update(k).nonce = k
  /\ Settle.kind = "settle" /\ Unlock.kind = "unlock"
BY DEF Close, Update, Settle, Unlock

LEMMA TransactionCases ==
  ASSUME NEW tx \in Transaction
  PROVE  \/ \E k \in 0..MaxNonce : tx = Close(k)
         \/ \E k \in 1..MaxNonce : tx = Update(k)
         \/ tx = Settle \/ tx = Unlock
BY DEF Transaction

(* What mining a transaction does to the contract.                         *)
MinedClose(n, k) ==
  /\ channel = "opened" /\ channel' = "closed"
  /\ closer' = n /\ closeBlock' = block
  /\ onchain' = [onchain EXCEPT ![Partner(n)] = k]
  /\ logs' = Append(logs, [type |-> "close", block |-> block])

MinedUpdate(n, k) ==
  /\ channel = "closed" /\ channel' = "closed"
  /\ block <= SettlementEnd /\ closer # n /\ k > onchain[Partner(n)]
  /\ onchain' = [onchain EXCEPT ![Partner(n)] = k]
  /\ logs' = Append(logs, [type |-> "update", block |-> block])
  /\ UNCHANGED <<closer, closeBlock>>

MinedSettle ==
  /\ channel = "closed" /\ channel' = "settled"
  /\ block > SettlementEnd
  /\ logs' = Append(logs, [type |-> "settle", block |-> block])
  /\ UNCHANGED <<closer, closeBlock, onchain>>

LEMMA MineCases ==
  ASSUME SentInv, NEW n \in Nodes, NEW tx \in Transaction, Mine(n, tx)
  PROVE  /\ <<n, tx>> \in txpool /\ txpool' = txpool \ {<<n, tx>>}
         /\ UNCHANGED <<block, state, seen, phase, calls, crashes>>
         /\ \/ ~ Accepts(n, tx) /\ UNCHANGED chain
            \/ \E k \in 0..MaxNonce : tx = Close(k) /\ MinedClose(n, k)
            \/ \E k \in 1..MaxNonce : tx = Update(k) /\ MinedUpdate(n, k)
            \/ tx = Settle /\ MinedSettle
<1>1. tx # Unlock
  BY DEF SentInv, Mine
<1>2. CASE ~ Accepts(n, tx)
  BY <1>2 DEF Mine, chain
<1>3. CASE Accepts(n, tx)
  <2>1. Execute(n, tx)
    BY <1>3 DEF Mine
  <2>2. ASSUME NEW k \in 0..MaxNonce, tx = Close(k)
        PROVE  MinedClose(n, k)
    BY <1>3, <2>1, <2>2, TransactionKinds DEF Accepts, Execute, Event, MinedClose
  <2>3. ASSUME NEW k \in 1..MaxNonce, tx = Update(k)
        PROVE  MinedUpdate(n, k)
    BY <1>3, <2>1, <2>3, TransactionKinds DEF Accepts, Execute, Event, MinedUpdate
  <2>4. ASSUME tx = Settle
        PROVE  MinedSettle
    BY <1>3, <2>1, <2>4, TransactionKinds DEF Accepts, Execute, Event, MinedSettle
  <2>5. UNCHANGED block
    BY <2>1 DEF Execute
  <2> QED
    BY <1>1, <2>2, <2>3, <2>4, <2>5, TransactionCases DEF Mine
<1> QED
  BY <1>2, <1>3

-----------------------------------------------------------------------------
(* The initial states.                                                     *)

LEMMA InitIInv == Init => IInv
<1> SUFFICES ASSUME Init
             PROVE  IInv
  OBVIOUS
<1> USE SettlementAssumption DEF Init
<1>1. TypeOK
  BY DEF TypeOK, ChainType, StateType, ProcessType, Nodes
<1>2. LogsInv /\ ViewInv /\ StatusInv
  BY DEF LogsInv, ViewInv, StatusInv, Unclosed
<1>3. SentInv /\ OnchainInv /\ UpdateInv
  BY DEF SentInv, Sent, OnchainInv, UpdateInv
<1>4. OwedIsPending /\ ForgottenOnlyWhenEmpty /\ NothingLeftPending
  BY DEF OwedIsPending, Owes, ForgottenOnlyWhenEmpty, NothingLeftPending
<1> QED
  BY <1>1, <1>2, <1>3, <1>4 DEF IInv

-----------------------------------------------------------------------------
(* Every step keeps the types.                                             *)

LEMMA SettlesType ==
  ASSUME NEW n \in Nodes, NEW b
  PROVE  settles(n, b) \subseteq {Settle} /\ (settles(n, b) = {} \/ settles(n, b) = {Settle})
BY DEF settles

LEMMA EmitType ==
  ASSUME TypeOK, NEW n \in Nodes, NEW txs \in SUBSET Transaction, Emit(n, txs)
  PROVE  calls' \in [Nodes -> SUBSET Call]
<1>1. [tx : txs, stage : {"check"}] \subseteq Call
  BY DEF Call
<1> QED
  BY <1>1 DEF TypeOK, ProcessType, Emit

LEMMA MineType ==
  ASSUME TypeOK, SentInv, NEW n \in Nodes, NEW tx \in Transaction, Mine(n, tx)
  PROVE  TypeOK'
<1>1. Partner(n) \in Nodes
  BY PartnerType
<1>2. /\ txpool' \subseteq txpool
      /\ UNCHANGED <<block, state, seen, phase, calls, crashes>>
  BY MineCases
<1>3. StateType'
  BY <1>2 DEF TypeOK, StateType, state
<1>4. ASSUME NEW type \in {"close", "update", "settle"},
             logs' = Append(logs, [type |-> type, block |-> block])
      PROVE  logs' \in Seq(LogEntry) /\ Len(logs') = Len(logs) + 1
  <2>1. [type |-> type, block |-> block] \in LogEntry
    BY DEF LogEntry, TypeOK, ChainType
  <2> QED
    BY <1>4, <2>1, AppendProperties DEF TypeOK, ChainType
<1>5. ASSUME NEW k \in 0..MaxNonce, onchain' = [onchain EXCEPT ![Partner(n)] = k]
      PROVE  onchain' \in [Nodes -> 0..MaxNonce]
  BY <1>1, <1>5 DEF TypeOK, ChainType
<1>6. ASSUME NEW k \in 0..MaxNonce, MinedClose(n, k)
      PROVE  ChainType' /\ Len(logs') = Len(logs) + 1
  BY <1>2, <1>4, <1>5, <1>6 DEF TypeOK, ChainType, MinedClose
<1>7. ASSUME NEW k \in 0..MaxNonce, MinedUpdate(n, k)
      PROVE  ChainType' /\ Len(logs') = Len(logs) + 1
  BY <1>2, <1>4, <1>5, <1>7 DEF TypeOK, ChainType, MinedUpdate
<1>8. MinedSettle => ChainType' /\ Len(logs') = Len(logs) + 1
  BY <1>2, <1>4 DEF TypeOK, ChainType, MinedSettle
<1>9. UNCHANGED chain => ChainType' /\ Len(logs') = Len(logs)
  BY <1>2 DEF TypeOK, ChainType, chain
<1>10. ChainType' /\ Len(logs') \in {Len(logs), Len(logs) + 1}
  <2>1. 1..MaxNonce \subseteq 0..MaxNonce
    OBVIOUS
  <2> QED
    BY <1>6, <1>7, <1>8, <1>9, <2>1, MineCases
<1>11. Len(logs) \in Nat
  BY LenProperties DEF TypeOK, ChainType
<1>12. seen' \in [Nodes -> 0..Len(logs')]
  BY <1>2, <1>10, <1>11 DEF TypeOK, ProcessType
<1>13. ProcessType'
  BY <1>2, <1>12 DEF TypeOK, ProcessType
<1> QED
  BY <1>3, <1>10, <1>13 DEF TypeOK

LEMMA HandleEventType ==
  ASSUME TypeOK, NEW n \in Nodes, HandleEvent(n)
  PROVE  TypeOK'
<1> DEFINE e == logs[seen[n] + 1]
<1>1. Len(logs) \in Nat /\ \A i \in 1..Len(logs) : logs[i] \in LogEntry
  BY LenProperties, ElementOfSeq DEF TypeOK, ChainType
<1>2. seen[n] + 1 \in 1..Len(logs)
  BY <1>1 DEF HandleEvent, TypeOK, ProcessType
<1>3. e.type \in {"close", "update", "settle"} /\ e.block \in Nat
  BY <1>1, <1>2 DEF LogEntry
<1>4. \A type : StillPending(n, type) \subseteq Transaction
  BY DEF StillPending, TypeOK, StateType
<1> HIDE DEF e
<1>5. ASSUME handle_channel_closed(n, e)
      PROVE  StateType' /\ calls' \in [Nodes -> SUBSET Call]
  <2> DEFINE update == IF call_update(n) THEN {Update(accepted[n])} ELSE {}
  <2>1. update \in SUBSET Transaction
    BY TransactionType DEF call_update, TypeOK, StateType
  <2>2. CASE status[n] \in {"opened", "closing"}
    <3> HIDE DEF update
    <3>1. /\ status' = [status EXCEPT ![n] = "closed"]
          /\ finished' = [finished EXCEPT ![n] = e.block]
          /\ pending' = [pending EXCEPT ![n] = StillPending(n, "close") \cup update]
          /\ Emit(n, update)
      BY <1>5, <2>2 DEF handle_channel_closed, update
    <3>2. calls' \in [Nodes -> SUBSET Call]
      BY <2>1, <3>1, EmitType
    <3>3. UNCHANGED <<accepted, view>>
      BY DEF HandleEvent
    <3> QED
      BY <1>3, <1>4, <2>1, <3>1, <3>2, <3>3 DEF TypeOK, StateType
  <2>3. CASE status[n] \notin {"opened", "closing"}
    BY <1>5, <2>3 DEF handle_channel_closed, HandleEvent, TypeOK, StateType, ProcessType
  <2> QED
    BY <2>2, <2>3
<1>6. ASSUME handle_channel_update_transfer(n)
      PROVE  StateType' /\ calls' \in [Nodes -> SUBSET Call]
  BY <1>6 DEF handle_channel_update_transfer, HandleEvent, TypeOK, StateType, ProcessType
<1>7. ASSUME handle_channel_settled(n)
      PROVE  StateType' /\ calls' \in [Nodes -> SUBSET Call]
  <2>1. CASE status[n] = "removed"
    BY <1>7, <2>1 DEF handle_channel_settled, HandleEvent, TypeOK, StateType, ProcessType
  <2>2. CASE status[n] # "removed"
    <3> DEFINE unlock == IF should_clear_channel(n) THEN {} ELSE {Unlock}
    <3>1. unlock \in SUBSET Transaction
      BY TransactionType
    <3>2. /\ status' = [status EXCEPT ![n] =
                          IF should_clear_channel(n) THEN "removed" ELSE "settled"]
          /\ pending' = [pending EXCEPT ![n] = StillPending(n, "settle") \cup unlock]
          /\ Emit(n, unlock)
      BY <1>7, <2>2 DEF handle_channel_settled
    <3>3. UNCHANGED <<finished, accepted, view>>
      BY <1>7, <2>2 DEF handle_channel_settled, HandleEvent
    <3> HIDE DEF unlock
    <3>4. calls' \in [Nodes -> SUBSET Call]
      BY <3>1, <3>2, EmitType
    <3> QED
      BY <1>4, <3>1, <3>2, <3>3, <3>4 DEF TypeOK, StateType
  <2> QED
    BY <2>1, <2>2
<1>8. StateType' /\ calls' \in [Nodes -> SUBSET Call]
  BY <1>3, <1>5, <1>6, <1>7 DEF HandleEvent, e
<1>9. ChainType'
  BY DEF HandleEvent, TypeOK, ChainType, chain
<1>10. UNCHANGED <<logs, phase, crashes>> /\ seen' = [seen EXCEPT ![n] = @ + 1]
  BY DEF HandleEvent, chain
<1>11. ProcessType'
  BY <1>1, <1>2, <1>8, <1>10 DEF TypeOK, ProcessType
<1> QED
  BY <1>8, <1>9, <1>11 DEF TypeOK

LEMMA RestartType ==
  ASSUME TypeOK, NEW n \in Nodes, Restart(n)
  PROVE  TypeOK'
<1> DEFINE handled == {i \in 1..Len(logs) : logs[i].block < view[n]}
<1>1. Len(logs) \in Nat
  BY DEF TypeOK, ChainType
<1>2. IsFiniteSet(1..Len(logs)) /\ Cardinality(1..Len(logs)) = Len(logs)
  <2>1. \A b \in Int : /\ IsFiniteSet(1..b)
                       /\ Cardinality(1..b) = IF 1 > b THEN 0 ELSE b - 1 + 1
    BY FS_Interval
  <2>2. \A b \in Nat : IsFiniteSet(1..b) /\ Cardinality(1..b) = b
    BY <2>1
  <2> QED
    BY <1>1, <2>2
<1>3. handled \in SUBSET (1..Len(logs))
  OBVIOUS
<1>4. seen' = [seen EXCEPT ![n] = Cardinality(handled)]
  BY DEF Restart
<1> HIDE DEF handled
<1>5. Cardinality(handled) <= Len(logs) /\ Cardinality(handled) \in Nat
  BY <1>2, <1>3, FS_Subset, FS_CardinalityType
<1>6. seen' \in [Nodes -> 0..Len(logs)]
  BY <1>1, <1>4, <1>5 DEF TypeOK, ProcessType
<1> QED
  BY <1>6 DEF Restart, TypeOK, ChainType, StateType, ProcessType, chain, state

LEMMA TypeStep == TypeOK /\ SentInv /\ [Next]_vars => TypeOK'
<1> SUFFICES ASSUME TypeOK, SentInv, [Next]_vars
             PROVE  TypeOK'
  OBVIOUS
<1> USE DEF TypeOK
<1>1. CASE UNCHANGED vars
  BY <1>1 DEF vars, chain, state, ChainType, StateType, ProcessType
<1>2. CASE Tick
  BY <1>2 DEF Tick, state, ChainType, StateType, ProcessType
<1>3. ASSUME NEW n \in Nodes, NEW tx \in Transaction, Mine(n, tx)
      PROVE  TypeOK'
  BY <1>3, MineType
<1>4. ASSUME NEW n \in Nodes, Accept(n)
      PROVE  TypeOK'
  <2>1. StateType'
    BY <1>4, SettlementAssumption DEF Accept, StateType
  <2> QED
    BY <1>4, <2>1 DEF Accept, chain, ChainType, ProcessType
<1>5. ASSUME NEW n \in Nodes, ActionChannelClose(n)
      PROVE  TypeOK'
  <2>1. Close(accepted[n]) \in Transaction
    BY TransactionType DEF StateType
  <2>2. calls' \in [Nodes -> SUBSET Call]
    BY <1>5, <2>1, EmitType DEF ActionChannelClose
  <2>3. StateType'
    BY <1>5, <2>1 DEF ActionChannelClose, StateType
  <2> QED
    BY <1>5, <2>2, <2>3 DEF ActionChannelClose, chain, ChainType, ProcessType
<1>6. ASSUME NEW n \in Nodes, NEW tx \in Transaction, Transact(n, tx)
      PROVE  TypeOK'
  <2>1. [tx |-> tx, stage |-> "poll"] \in Call
    BY DEF Call
  <2>2. calls' \in [Nodes -> SUBSET Call]
    BY <1>6, <2>1, SMTT(30) DEF Transact, ProcessType
  <2>3. txpool' \subseteq Nodes \X Transaction
    BY <1>6 DEF Transact, ChainType
  <2> QED
    BY <1>6, <2>2, <2>3 DEF Transact, chain, state, ChainType, StateType, ProcessType
<1>7. ASSUME NEW n \in Nodes, SendUnlock(n)
      PROVE  TypeOK'
  BY <1>7 DEF SendUnlock, chain, state, ChainType, StateType, ProcessType
<1>8. ASSUME NEW n \in Nodes, NEW tx \in Transaction, Polled(n, tx)
      PROVE  TypeOK'
  BY <1>8 DEF Polled, chain, state, ChainType, StateType, ProcessType
<1>9. ASSUME NEW n \in Nodes, HandleEvent(n)
      PROVE  TypeOK'
  BY <1>9, HandleEventType
<1>10. ASSUME NEW n \in Nodes, NEW b \in 1..block, handle_block(n, b)
       PROVE  ChainType' /\ StateType'
  <2>1. settles(n, b) \subseteq Transaction
    BY SettlesType, TransactionType
  <2>2. StateType'
    BY <1>10, <2>1 DEF handle_block, ChainType, StateType
  <2> QED
    BY <1>10, <2>2 DEF handle_block, chain, ChainType
<1>11. ASSUME NEW n \in Nodes, NEW b \in 1..block, HandleBlock(n, b)
       PROVE  TypeOK'
  <2>1. settles(n, b) \subseteq Transaction
    BY SettlesType, TransactionType
  <2>2. calls' \in [Nodes -> SUBSET Call]
    BY <1>11, <2>1, EmitType DEF HandleBlock
  <2> QED
    BY <1>10, <1>11, <2>2 DEF HandleBlock, handle_block, chain, ProcessType
<1>12. ASSUME NEW n \in Nodes, NEW b \in 1..block, FirstRun(n, b)
       PROVE  TypeOK'
  <2>1. ChainType' /\ StateType'
    BY <1>10, <1>12 DEF FirstRun
  <2>2. initialize_transactions_queues(n, pending'[n]) \subseteq Call
    BY <2>1 DEF initialize_transactions_queues, Call, StateType
  <2> QED
    BY <1>12, <2>1, <2>2 DEF FirstRun, handle_block, chain, ProcessType
<1>13. ASSUME NEW n \in Nodes, Crash(n)
       PROVE  TypeOK'
  <2>1. ProcessType'
    BY <1>13, SettlementAssumption DEF Crash, chain, ProcessType
  <2> QED
    BY <1>13, <2>1 DEF Crash, chain, state, ChainType, StateType
<1>14. ASSUME NEW n \in Nodes, Restart(n)
       PROVE  TypeOK'
  BY <1>14, RestartType
<1>15. ASSUME NEW n \in Nodes, Started(n)
       PROVE  TypeOK'
  BY <1>15 DEF Started, chain, state, ChainType, StateType, ProcessType
<1> HIDE DEF TypeOK
<1>16. \A k \in 0..MaxNonce : Close(k) \in Transaction
  BY TransactionType
<1>17. \A k \in 1..MaxNonce : Update(k) \in Transaction
  BY DEF Transaction
<1> QED
  BY <1>1, <1>2, <1>3, <1>4, <1>5, <1>6, <1>7, <1>8, <1>9, <1>11, <1>12, <1>13, <1>14,
     <1>15, <1>16, <1>17, TransactionType DEF Next, CallClose, CallUpdateTransfer, CallSettle

-----------------------------------------------------------------------------
(* What the steps of a node do.                                            *)

(* The contract's events are handled in order: a node that has not seen    *)
(* the close sees it next, and a settlement is seen after it happened.     *)
HandledClose(n) ==
  LET update == IF call_update(n) THEN {Update(accepted[n])} ELSE {} IN
    /\ status[n] \in Unclosed
    /\ status' = [status EXCEPT ![n] = "closed"]
    /\ finished' = [finished EXCEPT ![n] = logs[seen[n] + 1].block]
    /\ pending' = [pending EXCEPT ![n] = StillPending(n, "close") \cup update]
    /\ Emit(n, update)

HandledSettle(n) ==
  LET unlock == IF should_clear_channel(n) THEN {} ELSE {Unlock} IN
    /\ status[n] \notin Unclosed \cup {"removed"}
    /\ channel = "settled"
    /\ status' = [status EXCEPT ![n] =
                    IF should_clear_channel(n) THEN "removed" ELSE "settled"]
    /\ pending' = [pending EXCEPT ![n] = StillPending(n, "settle") \cup unlock]
    /\ Emit(n, unlock)
    /\ UNCHANGED finished

LEMMA HandleCases ==
  ASSUME TypeOK, LogsInv, ViewInv, NEW n \in Nodes, HandleEvent(n)
  PROVE  /\ phase[n] \in {"syncing", "running"}
         /\ seen[n] + 1 \in 1..Len(logs)
         /\ logs # <<>>
         /\ seen' = [seen EXCEPT ![n] = @ + 1]
         /\ UNCHANGED <<chain, txpool, accepted, view, phase, crashes>>
         /\ \/ /\ status[n] \notin Unclosed
               /\ UNCHANGED <<status, finished, pending, calls>>
            \/ HandledClose(n)
            \/ HandledSettle(n)
<1> DEFINE e == logs[seen[n] + 1]
<1>1. Len(logs) \in Nat /\ \A i \in 1..Len(logs) : logs[i] \in LogEntry
  BY LenProperties, ElementOfSeq DEF TypeOK, ChainType
<1>2. seen[n] + 1 \in 1..Len(logs)
  BY <1>1 DEF HandleEvent, TypeOK, ProcessType
<1>3. logs # <<>>
  BY <1>2
<1>4. e.type \in {"close", "update", "settle"}
  BY <1>1, <1>2 DEF LogEntry
<1>5. status[n] \in Unclosed => e.type = "close"
  BY <1>2, <1>3 DEF LogsInv, ViewInv
<1>6. e.type = "settle" => channel = "settled"
  BY <1>2 DEF LogsInv
<1>7. CASE e.type = "close"
  <2>1. handle_channel_closed(n, e)
    BY <1>7 DEF HandleEvent
  <2> QED
    BY <1>2, <1>3, <2>1 DEF handle_channel_closed, HandledClose, HandleEvent, Unclosed
<1>8. CASE e.type = "update"
  BY <1>2, <1>3, <1>5, <1>8 DEF HandleEvent, handle_channel_update_transfer
<1>9. CASE e.type = "settle"
  <2>1. handle_channel_settled(n)
    BY <1>9 DEF HandleEvent
  <2> QED
    BY <1>2, <1>3, <1>5, <1>6, <1>9, <2>1
       DEF handle_channel_settled, HandledSettle, HandleEvent, Unclosed
<1> QED
  BY <1>4, <1>7, <1>8, <1>9

LEMMA BlockCases ==
  ASSUME TypeOK, NEW n \in Nodes, NEW b \in 1..block, HandleBlock(n, b) \/ FirstRun(n, b)
  PROVE  /\ UNCHANGED <<chain, txpool, accepted, finished, seen, crashes>>
         /\ b \in view[n]..block - 1
         /\ \A i \in seen[n] + 1..Len(logs) : logs[i].block > b
         /\ view' = [view EXCEPT ![n] = b]
         /\ \/ /\ settles(n, b) = {}
               /\ UNCHANGED <<status, pending>>
            \/ /\ settles(n, b) = {Settle}
               /\ status[n] = "closed"
               /\ status' = [status EXCEPT ![n] = "settling"]
               /\ pending' = [pending EXCEPT ![n] = @ \cup {Settle}]
<1>1. handle_block(n, b) /\ AllSeen(n, b) /\ b \in view[n]..block - 1
  BY DEF HandleBlock, FirstRun, TypeOK, ChainType, StateType
<1>2. CASE settles(n, b) = {}
  BY <1>1, <1>2 DEF handle_block, AllSeen, TypeOK, StateType
<1>3. CASE settles(n, b) = {Settle}
  <2>1. status[n] = "closed"
    BY <1>3 DEF settles
  <2> QED
    BY <1>1, <1>3, <2>1 DEF handle_block, AllSeen
<1> QED
  BY <1>2, <1>3, SettlesType

(* The steps that change neither the contract nor the chain state.         *)
LEMMA QuietStep ==
  ASSUME NEW n \in Nodes,
         \/ \E tx \in Transaction : Transact(n, tx) \/ Polled(n, tx)
         \/ SendUnlock(n) \/ Crash(n) \/ Restart(n) \/ Started(n)
  PROVE  UNCHANGED <<chain, state>>
BY DEF Transact, Polled, SendUnlock, Crash, Restart, Started

LEMMA EmitEffect ==
  ASSUME TypeOK, NEW n \in Nodes, NEW txs, Emit(n, txs)
  PROVE  /\ \A m \in Nodes : m # n => calls'[m] = calls[m]
         /\ calls'[n] = IF phase[n] = "running"
                        THEN calls[n] \cup [tx : txs, stage : {"check"}] ELSE calls[n]
BY DEF Emit, TypeOK, ProcessType

(* The actions, with their parameters in the sets they come from.          *)
LEMMA NextCases ==
  ASSUME [Next]_vars
  PROVE  \/ UNCHANGED vars
         \/ Tick
         \/ \E n \in Nodes, tx \in Transaction : Mine(n, tx)
         \/ \E n \in Nodes : Accept(n)
         \/ \E n \in Nodes : ActionChannelClose(n)
         \/ \E n \in Nodes, tx \in Transaction : tx # Unlock /\ Transact(n, tx)
         \/ \E n \in Nodes, tx \in Transaction : Polled(n, tx)
         \/ \E n \in Nodes : SendUnlock(n)
         \/ \E n \in Nodes : HandleEvent(n)
         \/ \E n \in Nodes, b \in 1..block : HandleBlock(n, b)
         \/ \E n \in Nodes, b \in 1..block : FirstRun(n, b)
         \/ \E n \in Nodes : Crash(n)
         \/ \E n \in Nodes : Restart(n)
         \/ \E n \in Nodes : Started(n)
<1>1. \A k \in 0..MaxNonce : Close(k) \in Transaction /\ Close(k) # Unlock
  BY TransactionType, TransactionKinds
<1>2. \A k \in 1..MaxNonce : Update(k) \in Transaction /\ Update(k) # Unlock
  BY TransactionKinds DEF Transaction
<1>3. Settle \in Transaction /\ Settle # Unlock
  BY TransactionType, TransactionKinds
<1> QED
  BY <1>1, <1>2, <1>3 DEF Next, CallClose, CallUpdateTransfer, CallSettle

-----------------------------------------------------------------------------
(* The log and what the nodes have seen of it.                             *)

LEMMA LogTypes ==
  ASSUME TypeOK
  PROVE  /\ block \in Nat /\ Len(logs) \in Nat
         /\ \A i \in 1..Len(logs) : logs[i].block \in Nat
<1>1. logs \in Seq(LogEntry) /\ block \in Nat
  BY DEF TypeOK, ChainType
<1>2. \A i \in 1..Len(logs) : logs[i] \in LogEntry
  BY <1>1, ElementOfSeq
<1> QED
  BY <1>1, <1>2, LenProperties DEF LogEntry

LEMMA LogGrows ==
  ASSUME TypeOK, NEW type, logs' = Append(logs, [type |-> type, block |-> block]),
         type \in {"close", "update", "settle"}
  PROVE  /\ logs' # <<>>
         /\ Len(logs) \in Nat /\ Len(logs') = Len(logs) + 1
         /\ \A i \in 1..Len(logs) : logs'[i] = logs[i]
         /\ logs'[Len(logs')].type = type /\ logs'[Len(logs')].block = block
         /\ logs = <<>> => Len(logs') = 1
<1>1. [type |-> type, block |-> block] \in LogEntry
  BY DEF LogEntry, TypeOK, ChainType
<1> QED
  BY <1>1, AppendProperties, LenProperties, EmptySeq DEF TypeOK, ChainType

LEMMA MineLogs ==
  ASSUME TypeOK, LogsInv, SentInv, NEW n \in Nodes, NEW tx \in Transaction, Mine(n, tx)
  PROVE  LogsInv'
<1>1. block' = block /\ block \in Nat /\ block >= 2
  BY MineCases DEF TypeOK, ChainType, LogsInv
<1>2. ASSUME NEW type \in {"close", "update", "settle"},
             logs' = Append(logs, [type |-> type, block |-> block]),
             channel' # "opened",
             logs = <<>> => type = "close",
             type = "settle" => channel' = "settled",
             channel = "settled" => channel' = "settled",
             channel' = "settled" => block > (SettlementEnd)'
      PROVE  LogsInv'
  <2>1. \A i \in 1..Len(logs') :
          \/ i \in 1..Len(logs) /\ logs'[i] = logs[i]
          \/ logs'[i].block = block /\ logs'[i].type = type
    BY <1>2, LogGrows
  <2>2. logs'[1].type = "close"
    BY <1>2, LogGrows, EmptySeq DEF LogsInv, TypeOK, ChainType
  <2>3. logs' # <<>>
    BY <1>2, LogGrows
  <2> QED
    BY <1>1, <1>2, <2>1, <2>2, <2>3 DEF LogsInv
<1>3. ASSUME NEW k, MinedClose(n, k)
      PROVE  LogsInv'
  BY <1>2, <1>3 DEF MinedClose
<1>4. ASSUME NEW k, MinedUpdate(n, k)
      PROVE  LogsInv'
  BY <1>2, <1>4 DEF MinedUpdate, LogsInv
<1>5. CASE MinedSettle
  BY <1>2, <1>5 DEF MinedSettle, LogsInv, SettlementEnd
<1>6. CASE UNCHANGED chain
  BY <1>6 DEF chain, LogsInv, SettlementEnd
<1> QED
  BY <1>3, <1>4, <1>5, <1>6, MineCases

LEMMA LogsStep == IInv /\ [Next]_vars => LogsInv'
<1> SUFFICES ASSUME IInv, [Next]_vars
             PROVE  LogsInv'
  OBVIOUS
<1>1. CASE UNCHANGED chain
  BY <1>1 DEF chain, LogsInv, IInv, SettlementEnd
<1>2. CASE Tick
  <2>1. block' = block + 1 /\ UNCHANGED <<channel, closeBlock, logs>>
    BY <1>2 DEF Tick
  <2>2. block \in Nat /\ closeBlock \in Nat /\ SETTLE_TIMEOUT \in Nat
    BY SettlementAssumption DEF IInv, TypeOK, ChainType
  <2> QED
    BY <2>1, <2>2 DEF LogsInv, IInv, SettlementEnd
<1>3. ASSUME NEW n \in Nodes, NEW tx \in Transaction, Mine(n, tx)
      PROVE  LogsInv'
  BY <1>3, MineLogs DEF IInv
<1>4. UNCHANGED vars => UNCHANGED chain
  BY DEF vars
<1>5. \A n \in Nodes : Accept(n) \/ ActionChannelClose(n) \/ HandleEvent(n) => UNCHANGED chain
  BY DEF Accept, ActionChannelClose, HandleEvent
<1>6. \A n \in Nodes, b \in 1..block : HandleBlock(n, b) \/ FirstRun(n, b) => UNCHANGED chain
  BY BlockCases DEF IInv
<1> QED
  BY <1>1, <1>2, <1>3, <1>4, <1>5, <1>6, NextCases, QuietStep

LEMMA ViewStep == IInv /\ [Next]_vars => ViewInv'
<1> SUFFICES ASSUME IInv, [Next]_vars, NEW m \in Nodes
             PROVE  /\ view'[m] < block'
                    /\ status'[m] \in Unclosed =>
                         /\ seen'[m] = 0
                         /\ \A i \in 1..Len(logs') : logs'[i].block > view'[m]
  BY DEF ViewInv
<1> USE DEF IInv, ViewInv
<1>1. /\ block \in Nat /\ view[m] \in Nat /\ Len(logs) \in Nat
      /\ \A i \in 1..Len(logs) : logs[i].block \in Nat
  BY LogTypes DEF TypeOK, StateType
<1>2. CASE UNCHANGED <<chain, state, seen>>
  BY <1>2 DEF chain, state
<1>3. CASE Tick
  BY <1>1, <1>3 DEF Tick, state
<1>4. ASSUME NEW n \in Nodes, NEW tx \in Transaction, Mine(n, tx)
      PROVE  /\ view'[m] < block'
             /\ status'[m] \in Unclosed =>
                  /\ seen'[m] = 0
                  /\ \A i \in 1..Len(logs') : logs'[i].block > view'[m]
  <2>1. UNCHANGED <<block, state, seen>>
    BY <1>4, MineCases
  <2>2. ASSUME NEW type \in {"close", "update", "settle"},
               logs' = Append(logs, [type |-> type, block |-> block])
        PROVE  \A i \in 1..Len(logs') :
                 (i \in 1..Len(logs) /\ logs'[i] = logs[i]) \/ logs'[i].block = block
    BY <2>2, LogGrows
  <2>3. \A i \in 1..Len(logs') :
          (i \in 1..Len(logs) /\ logs'[i] = logs[i]) \/ logs'[i].block = block
    <3>1. ASSUME NEW k, MinedClose(n, k) \/ MinedUpdate(n, k)
          PROVE  \E type \in {"close", "update"} :
                   logs' = Append(logs, [type |-> type, block |-> block])
      BY <3>1 DEF MinedClose, MinedUpdate
    <3>2. MinedSettle => logs' = Append(logs, [type |-> "settle", block |-> block])
      BY DEF MinedSettle
    <3>3. UNCHANGED chain => UNCHANGED logs
      BY DEF chain
    <3> QED
      BY <1>4, <2>2, <3>1, <3>2, <3>3, MineCases
  <2> QED
    BY <1>1, <2>1, <2>3 DEF state
<1>5. ASSUME NEW n \in Nodes, Accept(n) \/ ActionChannelClose(n)
      PROVE  /\ UNCHANGED <<view, seen, chain>>
             /\ status'[m] \in Unclosed => status[m] \in Unclosed
  BY <1>5 DEF Accept, ActionChannelClose, TypeOK, StateType, Unclosed
<1>6. ASSUME NEW n \in Nodes, HandleEvent(n)
      PROVE  status'[m] \in Unclosed => status[m] \in Unclosed /\ m # n
  <2>1. CASE HandledClose(n)
    BY <2>1 DEF HandledClose, TypeOK, StateType, Unclosed
  <2>2. CASE HandledSettle(n)
    BY <2>2 DEF HandledSettle, TypeOK, StateType, Unclosed
  <2> QED
    BY <1>6, <2>1, <2>2, HandleCases
<1>7. ASSUME NEW n \in Nodes, HandleEvent(n)
      PROVE  UNCHANGED <<view, chain>> /\ (m # n => seen'[m] = seen[m])
  BY <1>7, HandleCases DEF TypeOK, ProcessType
<1>8. ASSUME NEW n \in Nodes, NEW b \in 1..block, HandleBlock(n, b) \/ FirstRun(n, b)
      PROVE  /\ view'[m] < block'
             /\ status'[m] \in Unclosed =>
                  /\ seen'[m] = 0
                  /\ \A i \in 1..Len(logs') : logs'[i].block > view'[m]
  <2>1. UNCHANGED <<chain, seen>> /\ b < block
    BY <1>1, <1>8, BlockCases DEF TypeOK, StateType
  <2>2. status'[m] \in Unclosed => status[m] \in Unclosed
    BY <1>8, BlockCases DEF TypeOK, StateType, Unclosed
  <2>3. view' = [view EXCEPT ![n] = b]
        /\ \A i \in seen[n] + 1..Len(logs) : logs[i].block > b
    BY <1>8, BlockCases
  <2> QED
    BY <1>1, <2>1, <2>2, <2>3 DEF TypeOK, StateType, chain
<1>9. ASSUME NEW n \in Nodes, Restart(n)
      PROVE  status[m] \in Unclosed => seen'[m] = 0
  <2>1. CASE m # n
    BY <1>9, <2>1 DEF Restart, TypeOK, ProcessType
  <2>2. CASE m = n /\ status[m] \in Unclosed
    <3>1. {i \in 1..Len(logs) : logs[i].block < view[n]} = {}
      BY <1>1, <2>2
    <3> QED
      BY <1>9, <2>2, <3>1, FS_EmptySet DEF Restart, TypeOK, ProcessType
  <2> QED
    BY <2>1, <2>2
<1>10. \A n \in Nodes : Restart(n) => UNCHANGED <<chain, state>>
  BY QuietStep
<1>11. UNCHANGED vars => UNCHANGED <<chain, state, seen>>
  BY DEF vars
<1>12. \A n \in Nodes :
         \/ \E tx \in Transaction : Transact(n, tx) \/ Polled(n, tx)
         \/ SendUnlock(n) \/ Crash(n) \/ Started(n)
         => UNCHANGED <<chain, state, seen>>
  BY DEF Transact, Polled, SendUnlock, Crash, Started
<1> HIDE DEF IInv, ViewInv
<1>13. ASSUME NEW n \in Nodes, Accept(n) \/ ActionChannelClose(n) \/ HandleEvent(n) \/ Restart(n)
       PROVE  /\ view'[m] < block'
              /\ status'[m] \in Unclosed =>
                   /\ seen'[m] = 0
                   /\ \A i \in 1..Len(logs') : logs'[i].block > view'[m]
  BY <1>5, <1>6, <1>7, <1>9, <1>10, <1>13 DEF IInv, ViewInv, chain, state
<1> QED
  BY <1>2, <1>3, <1>4, <1>8, <1>11, <1>12, <1>13, NextCases

-----------------------------------------------------------------------------
(* The status of a node follows the contract.                              *)

(* A step moves the status of a node along its life, and only when the     *)
(* contract is ahead of it.                                                *)
StatusMoves(m) ==
  \/ status'[m] = status[m] /\ finished'[m] = finished[m]
  \/ /\ status[m] \in Unclosed /\ status'[m] = "closing"
     /\ finished'[m] = finished[m]
  \/ /\ status[m] \in Unclosed /\ status'[m] = "closed"
     /\ finished'[m] # 0 /\ channel # "opened"
  \/ /\ status[m] = "closed" /\ status'[m] = "settling"
     /\ finished'[m] = finished[m]
  \/ /\ status[m] \notin Unclosed \cup {"removed"} /\ status'[m] \in {"settled", "removed"}
     /\ finished'[m] = finished[m] /\ channel = "settled"

(* A step changes the contract or a node's chain state, never both.        *)
LEMMA OneSide == 
  ASSUME IInv, [Next]_vars
  PROVE  UNCHANGED state \/ UNCHANGED chain
<1>1. UNCHANGED vars => UNCHANGED chain
  BY DEF vars
<1>2. \A n \in Nodes : Accept(n) \/ ActionChannelClose(n) \/ HandleEvent(n) => UNCHANGED chain
  BY DEF Accept, ActionChannelClose, HandleEvent
<1>3. \A n \in Nodes, b \in 1..block : HandleBlock(n, b) \/ FirstRun(n, b) => UNCHANGED chain
  BY BlockCases DEF IInv
<1>4. \A n \in Nodes, tx \in Transaction : Mine(n, tx) => UNCHANGED state
  BY DEF Mine
<1>5. Tick => UNCHANGED state
  BY DEF Tick
<1> QED
  BY <1>1, <1>2, <1>3, <1>4, <1>5, NextCases, QuietStep

(* The contract only moves forward.                                        *)
LEMMA ChannelMoves ==
  ASSUME IInv, [Next]_vars
  PROVE  \/ UNCHANGED channel
         \/ channel = "opened" /\ channel' = "closed"
         \/ channel = "closed" /\ channel' = "settled"
<1>1. ASSUME NEW n \in Nodes, NEW tx \in Transaction, Mine(n, tx)
      PROVE  \/ UNCHANGED channel
             \/ channel = "opened" /\ channel' = "closed"
             \/ channel = "closed" /\ channel' = "settled"
  BY <1>1, MineCases DEF MinedClose, MinedUpdate, MinedSettle, chain, IInv
<1>2. Tick => UNCHANGED channel
  BY DEF Tick
<1>3. UNCHANGED chain => UNCHANGED channel
  BY DEF chain
<1>4. UNCHANGED vars => UNCHANGED chain
  BY DEF vars
<1>5. \A n \in Nodes : Accept(n) \/ ActionChannelClose(n) \/ HandleEvent(n) => UNCHANGED chain
  BY DEF Accept, ActionChannelClose, HandleEvent
<1>6. \A n \in Nodes, b \in 1..block : HandleBlock(n, b) \/ FirstRun(n, b) => UNCHANGED chain
  BY BlockCases DEF IInv
<1> QED
  BY <1>1, <1>2, <1>3, <1>4, <1>5, <1>6, NextCases, QuietStep

LEMMA StatusLife ==
  ASSUME IInv, [Next]_vars, NEW m \in Nodes
  PROVE  StatusMoves(m)
<1> USE DEF StatusMoves
<1>1. UNCHANGED state => StatusMoves(m)
  BY DEF state
<1>2. UNCHANGED vars \/ Tick => UNCHANGED state
  BY DEF vars, Tick
<1>3. \A n \in Nodes, tx \in Transaction : Mine(n, tx) => UNCHANGED state
  BY DEF Mine
<1>4. ASSUME NEW n \in Nodes, Accept(n)
      PROVE  StatusMoves(m)
  BY <1>4 DEF Accept
<1>5. ASSUME NEW n \in Nodes, ActionChannelClose(n)
      PROVE  StatusMoves(m)
  BY <1>5 DEF ActionChannelClose, Unclosed, IInv, TypeOK, StateType
<1>6. ASSUME NEW n \in Nodes, HandleEvent(n)
      PROVE  StatusMoves(m)
  <2>1. CASE HandledClose(n)
    <3>1. /\ status[n] \in Unclosed
          /\ status' = [status EXCEPT ![n] = "closed"]
          /\ finished' = [finished EXCEPT ![n] = logs[seen[n] + 1].block]
      BY <2>1 DEF HandledClose
    <3>2. seen[n] + 1 \in 1..Len(logs) /\ channel # "opened"
      BY <1>6, HandleCases DEF IInv, LogsInv
    <3>3. logs[seen[n] + 1].block # 0
      BY <3>2, LogTypes DEF IInv, LogsInv
    <3> QED
      BY <3>1, <3>2, <3>3 DEF IInv, TypeOK, StateType
  <2>2. CASE HandledSettle(n)
    <3>1. /\ status[n] \notin Unclosed \cup {"removed"} /\ channel = "settled"
          /\ status' = [status EXCEPT ![n] =
                          IF should_clear_channel(n) THEN "removed" ELSE "settled"]
          /\ UNCHANGED finished
      BY <2>2 DEF HandledSettle
    <3> QED
      BY <3>1 DEF IInv, TypeOK, StateType
  <2> QED
    BY <1>6, <2>1, <2>2, HandleCases DEF IInv
<1>7. ASSUME NEW n \in Nodes, NEW b \in 1..block, HandleBlock(n, b) \/ FirstRun(n, b)
      PROVE  StatusMoves(m)
  BY <1>7, BlockCases DEF IInv, TypeOK, StateType
<1> HIDE DEF StatusMoves
<1> QED
  BY <1>1, <1>2, <1>3, <1>4, <1>5, <1>6, <1>7, NextCases, QuietStep

LEMMA StatusStep == IInv /\ [Next]_vars => StatusInv'
<1> SUFFICES ASSUME IInv, [Next]_vars, NEW m \in Nodes
             PROVE  /\ status'[m] \in Unclosed <=> finished'[m] = 0
                    /\ status'[m] \notin Unclosed => channel' # "opened"
                    /\ status'[m] \in {"settled", "removed"} => channel' = "settled"
  BY DEF StatusInv
<1>1. StatusMoves(m)
  BY StatusLife
<1>2. /\ channel # "opened" => channel' # "opened"
      /\ channel = "settled" => channel' = "settled"
  BY ChannelMoves
<1> QED
  BY <1>1, <1>2 DEF StatusMoves, IInv, StatusInv, Unclosed

-----------------------------------------------------------------------------
(* The transactions of a node.                                             *)

(* A transaction enters the pending ones by one of three steps.            *)
Entered(m, tx) ==
  \/ /\ tx = Close(accepted[m])
     /\ status[m] \in Unclosed /\ status'[m] = "closing" /\ UNCHANGED accepted
  \/ /\ tx = Update(accepted[m])
     /\ status[m] \in Unclosed /\ status'[m] = "closed" /\ UNCHANGED accepted
  \/ /\ tx = Settle /\ tx \in pending'[m] /\ status'[m] = "settling"
  \/ /\ tx = Unlock /\ channel = "settled" /\ LockedOnChain # {}

LEMMA PendingEnters ==
  ASSUME IInv, [Next]_vars, NEW m \in Nodes, NEW tx \in pending'[m], tx \notin pending[m]
  PROVE  Entered(m, tx) /\ UNCHANGED chain
<1>1. ~ UNCHANGED state
  BY DEF state
<1>2. UNCHANGED chain
  BY <1>1, OneSide
<1>3. \A n \in Nodes : ~ Accept(n)
  BY DEF Accept
<1>4. ASSUME NEW n \in Nodes, ActionChannelClose(n)
      PROVE  Entered(m, tx)
  BY <1>4 DEF ActionChannelClose, Entered, Unclosed, IInv, TypeOK, StateType
<1>5. ASSUME NEW n \in Nodes, HandleEvent(n)
      PROVE  Entered(m, tx)
  <2>1. CASE HandledClose(n)
    <3>1. UNCHANGED accepted
      BY <1>5, HandleCases DEF IInv
    <3> QED
      BY <2>1, <3>1 DEF HandledClose, StillPending, Entered, IInv, TypeOK, StateType
  <2>2. CASE HandledSettle(n)
    BY <2>2 DEF HandledSettle, StillPending, should_clear_channel, Entered, IInv, TypeOK, StateType
  <2> QED
    BY <1>5, <2>1, <2>2, HandleCases DEF IInv
<1>6. ASSUME NEW n \in Nodes, NEW b \in 1..block, HandleBlock(n, b) \/ FirstRun(n, b)
      PROVE  Entered(m, tx)
  <2>1. pending' = pending \/ pending' = [pending EXCEPT ![n] = @ \cup {Settle}]
    BY <1>6, BlockCases DEF IInv
  <2>2. tx = Settle /\ m = n
    BY <2>1 DEF IInv, TypeOK, StateType
  <2>3. status'[m] = "settling"
    BY <1>6, <2>2, BlockCases DEF IInv, TypeOK, StateType
  <2> QED
    BY <2>2, <2>3 DEF Entered
<1>7. Tick \/ UNCHANGED vars => UNCHANGED state
  BY DEF Tick, vars
<1>8. \A n \in Nodes, u \in Transaction : Mine(n, u) => UNCHANGED state
  BY DEF Mine
<1> QED
  BY <1>1, <1>2, <1>3, <1>4, <1>5, <1>6, <1>7, <1>8, NextCases, QuietStep

(* What is being sent or in the pool was pending before.                   *)
LEMMA SentFrom ==
  ASSUME IInv, [Next]_vars, NEW m \in Nodes, NEW tx, Sent(m, tx)'
  PROVE  Sent(m, tx) \/ tx \in pending'[m]
<1> SUFFICES ASSUME tx \notin pending'[m]
             PROVE  Sent(m, tx)
  OBVIOUS
<1>1. (\E c \in calls'[m] : c.tx = tx) \/ <<m, tx>> \in txpool'
  BY DEF Sent
<1> USE DEF IInv, TypeOK, ProcessType, StateType, Sent
<1>2. CASE UNCHANGED <<calls, txpool>>
  BY <1>1, <1>2
<1>3. UNCHANGED vars \/ Tick => UNCHANGED <<calls, txpool>>
  BY DEF vars, Tick
<1>4. ASSUME NEW n \in Nodes, NEW u \in Transaction, Mine(n, u)
      PROVE  Sent(m, tx)
  BY <1>1, <1>4 DEF Mine
<1>5. ASSUME NEW n \in Nodes, Accept(n) \/ Restart(n) \/ Started(n)
      PROVE  UNCHANGED <<calls, txpool>>
  BY <1>5 DEF Accept, Restart, Started
<1>6. ASSUME NEW n \in Nodes, NEW txs, Emit(n, txs), UNCHANGED txpool, txs \subseteq pending'[n]
      PROVE  Sent(m, tx)
  <2>1. CASE m # n
    BY <1>1, <1>6, <2>1, EmitEffect
  <2>2. CASE m = n
    <3>1. calls'[n] \subseteq calls[n] \cup [tx : txs, stage : {"check"}]
      BY <1>6, EmitEffect
    <3>2. \A c \in [tx : txs, stage : {"check"}] : c.tx \in pending'[n]
      BY <1>6
    <3> QED
      BY <1>1, <1>6, <2>2, <3>1, <3>2
  <2> QED
    BY <2>1, <2>2
<1>7. ASSUME NEW n \in Nodes, ActionChannelClose(n)
      PROVE  Sent(m, tx)
  <2>1. /\ Emit(n, {Close(accepted[n])}) /\ UNCHANGED txpool
        /\ {Close(accepted[n])} \subseteq pending'[n]
    BY <1>7 DEF ActionChannelClose
  <2> QED
    BY <1>6, <2>1
<1>8. ASSUME NEW n \in Nodes, NEW u \in Transaction, Transact(n, u)
      PROVE  Sent(m, tx)
  <2>1. CASE m # n
    BY <1>1, <1>8, <2>1 DEF Transact
  <2>2. CASE m = n
    <3> DEFINE call == [tx |-> u, stage |-> "check"]
               poll == [tx |-> u, stage |-> "poll"]
    <3>1. call \in calls[n] /\ call.tx = u /\ poll.tx = u
      BY <1>8 DEF Transact
    <3>2. calls'[n] \subseteq calls[n] \cup {poll} /\ txpool' \subseteq txpool \cup {<<n, u>>}
      BY <1>8 DEF Transact
    <3> HIDE DEF call, poll
    <3> QED
      BY <1>1, <2>2, <3>1, <3>2
  <2> QED
    BY <2>1, <2>2
<1>9. ASSUME NEW n \in Nodes, NEW u \in Transaction, Polled(n, u)
      PROVE  Sent(m, tx)
  BY <1>1, <1>9 DEF Polled
<1>10. ASSUME NEW n \in Nodes, SendUnlock(n) \/ Crash(n)
       PROVE  Sent(m, tx)
  BY <1>1, <1>10 DEF SendUnlock, Crash
<1>11. ASSUME NEW n \in Nodes, HandleEvent(n)
       PROVE  Sent(m, tx)
  <2>1. UNCHANGED txpool
    BY <1>11, HandleCases
  <2>2. ASSUME NEW txs, NEW rest, pending' = [pending EXCEPT ![n] = rest \cup txs], Emit(n, txs)
        PROVE  Sent(m, tx)
    BY <1>6, <2>1, <2>2
  <2>3. HandledClose(n) => Sent(m, tx)
    BY <2>2 DEF HandledClose
  <2>4. HandledSettle(n) => Sent(m, tx)
    BY <2>2 DEF HandledSettle
  <2> QED
    BY <1>2, <1>11, <2>1, <2>3, <2>4, HandleCases
<1>12. ASSUME NEW n \in Nodes, NEW b \in 1..block, HandleBlock(n, b)
       PROVE  Sent(m, tx)
  <2>1. Emit(n, settles(n, b)) /\ UNCHANGED txpool
    BY <1>12 DEF HandleBlock, handle_block
  <2>2. settles(n, b) \subseteq pending'[n]
    BY <1>12 DEF HandleBlock, handle_block
  <2> QED
    BY <1>6, <2>1, <2>2
<1>13. ASSUME NEW n \in Nodes, NEW b \in 1..block, FirstRun(n, b)
       PROVE  Sent(m, tx)
  <2>1. /\ calls' = [calls EXCEPT ![n] = [tx : pending'[n], stage : {"check"}]]
        /\ UNCHANGED txpool
    BY <1>13 DEF FirstRun, handle_block, initialize_transactions_queues
  <2> QED
    BY <1>1, <2>1
<1> HIDE DEF IInv, Sent
<1> QED
  BY <1>2, <1>3, <1>4, <1>5, <1>7, <1>8, <1>9, <1>10, <1>11, <1>12, <1>13, NextCases

(* A node accepts a balance proof only while it keeps the channel open.    *)
LEMMA AcceptedMoves ==
  ASSUME IInv, [Next]_vars, NEW m \in Nodes
  PROVE  \/ accepted'[m] = accepted[m]
         \/ status[m] = "opened" /\ status'[m] = "opened"
<1>1. UNCHANGED state => UNCHANGED accepted
  BY DEF state
<1>2. UNCHANGED vars \/ Tick => UNCHANGED state
  BY DEF vars, Tick
<1>3. \A n \in Nodes, tx \in Transaction : Mine(n, tx) => UNCHANGED state
  BY DEF Mine
<1>4. \A n \in Nodes : ActionChannelClose(n) \/ HandleEvent(n) => UNCHANGED accepted
  BY DEF ActionChannelClose, HandleEvent
<1>5. \A n \in Nodes, b \in 1..block : HandleBlock(n, b) \/ FirstRun(n, b) => UNCHANGED accepted
  BY BlockCases DEF IInv
<1>6. ASSUME NEW n \in Nodes, Accept(n)
      PROVE  \/ accepted'[m] = accepted[m]
             \/ status[m] = "opened" /\ status'[m] = "opened"
  BY <1>6 DEF Accept, is_balance_proof_usable_onchain, IInv, TypeOK, StateType
<1> QED
  BY <1>1, <1>2, <1>3, <1>4, <1>5, <1>6, NextCases, QuietStep

LEMMA SentStep == IInv /\ [Next]_vars => SentInv'
<1> SUFFICES ASSUME IInv, [Next]_vars, NEW m \in Nodes
             PROVE  /\ \A k \in 0..MaxNonce :
                         /\ Sent(m, Close(k))' => status'[m] # "opened" /\ k = accepted'[m]
                         /\ Close(k) \in pending'[m] => status'[m] = "closing"
                         /\ Sent(m, Update(k))' => status'[m] \notin Unclosed /\ k = accepted'[m]
                    /\ Unlock \in pending'[m] => channel' = "settled" /\ LockedOnChain' # {}
                    /\ <<m, Unlock>> \notin txpool'
  BY DEF SentInv
<1>1. StatusMoves(m)
  BY StatusLife
<1>2. ASSUME NEW k \in 0..MaxNonce, Sent(m, Close(k))'
      PROVE  status'[m] # "opened" /\ k = accepted'[m]
  <2>1. CASE Sent(m, Close(k))
    BY <1>1, <2>1, AcceptedMoves DEF IInv, SentInv, StatusMoves, Unclosed
  <2>2. CASE Close(k) \in pending'[m] /\ Close(k) \notin pending[m]
    BY <2>2, PendingEnters, TransactionKinds DEF Entered
  <2>3. Close(k) \in pending[m] => Sent(m, Close(k))
    BY DEF Sent
  <2> QED
    BY <1>2, <2>1, <2>2, <2>3, SentFrom
<1>3. ASSUME NEW k \in 0..MaxNonce, Close(k) \in pending'[m]
      PROVE  status'[m] = "closing"
  <2>1. CASE Close(k) \in pending[m]
    <3>1. status[m] = "closing"
      BY <2>1 DEF IInv, SentInv
    <3>2. status'[m] = "closed" => Close(k) \notin pending'[m]
      <4>1. ASSUME NEW n \in Nodes, ActionChannelClose(n)
            PROVE  status'[m] # "closed"
        BY <3>1, <4>1 DEF ActionChannelClose, IInv, TypeOK, StateType
      <4>2. ASSUME NEW n \in Nodes, HandleEvent(n), status'[m] = "closed"
            PROVE  Close(k) \notin pending'[m]
        <5>1. m = n /\ HandledClose(n)
          <6>1. ~ HandledSettle(n)
            BY <3>1, <4>2 DEF HandledSettle, Unclosed, IInv, TypeOK, StateType
          <6>2. status' # status
            BY <3>1, <4>2
          <6>3. HandledClose(n)
            BY <4>2, <6>1, <6>2, HandleCases DEF IInv
          <6> QED
            BY <3>1, <4>2, <6>3 DEF HandledClose, IInv, TypeOK, StateType
        <5>2. ~ is_transaction_pending(Close(k), "close")
          BY TransactionKinds DEF is_transaction_pending
        <5>3. Close(k) \notin StillPending(n, "close")
          BY <5>2 DEF StillPending
        <5>4. Close(k) # Update(accepted[n])
          BY TransactionKinds
        <5> QED
          BY <5>1, <5>3, <5>4 DEF HandledClose, IInv, TypeOK, StateType
      <4>3. ASSUME NEW n \in Nodes, NEW b \in 1..block, HandleBlock(n, b) \/ FirstRun(n, b)
            PROVE  status'[m] # "closed"
        BY <3>1, <4>3, BlockCases DEF IInv, TypeOK, StateType
      <4>4. UNCHANGED state => status'[m] # "closed"
        BY <3>1 DEF state
      <4>5. UNCHANGED vars \/ Tick => UNCHANGED state
        BY DEF vars, Tick
      <4>6. \A n \in Nodes, tx \in Transaction : Mine(n, tx) => UNCHANGED state
        BY DEF Mine
      <4>7. \A n \in Nodes : Accept(n) => status' = status
        BY DEF Accept
      <4> QED
        BY <3>1, <4>1, <4>2, <4>3, <4>4, <4>5, <4>6, <4>7, NextCases, QuietStep
    <3> QED
      BY <1>1, <1>3, <3>1, <3>2 DEF StatusMoves, Unclosed
  <2>2. CASE Close(k) \notin pending[m]
    BY <1>3, <2>2, PendingEnters, TransactionKinds DEF Entered
  <2> QED
    BY <2>1, <2>2
<1>4. ASSUME NEW k \in 0..MaxNonce, Sent(m, Update(k))'
      PROVE  status'[m] \notin Unclosed /\ k = accepted'[m]
  <2>1. CASE Sent(m, Update(k))
    BY <1>1, <2>1, AcceptedMoves DEF IInv, SentInv, StatusMoves, Unclosed
  <2>2. CASE Update(k) \in pending'[m] /\ Update(k) \notin pending[m]
    BY <2>2, PendingEnters, TransactionKinds DEF Entered, Unclosed
  <2>3. Update(k) \in pending[m] => Sent(m, Update(k))
    BY DEF Sent
  <2> QED
    BY <1>4, <2>1, <2>2, <2>3, SentFrom
<1>5. ASSUME Unlock \in pending'[m]
      PROVE  channel' = "settled" /\ LockedOnChain' # {}
  <2>1. channel = "settled" /\ LockedOnChain # {}
    <3>1. CASE Unlock \in pending[m]
      BY <3>1 DEF IInv, SentInv
    <3>2. CASE Unlock \notin pending[m]
      <4>1. Entered(m, Unlock)
        BY <1>5, <3>2, PendingEnters
      <4> QED
        BY <4>1, TransactionKinds DEF Entered
    <3> QED
      BY <3>1, <3>2
  <2>2. UNCHANGED <<channel, onchain>>
    <3>1. ASSUME NEW n \in Nodes, NEW tx \in Transaction, Mine(n, tx)
          PROVE  UNCHANGED chain
      BY <2>1, <3>1, MineCases DEF MinedClose, MinedUpdate, MinedSettle, IInv
    <3>2. Tick => UNCHANGED <<channel, onchain>>
      BY DEF Tick
    <3>3. UNCHANGED vars => UNCHANGED chain
      BY DEF vars
    <3>4. \A n \in Nodes : Accept(n) \/ ActionChannelClose(n) \/ HandleEvent(n) => UNCHANGED chain
      BY DEF Accept, ActionChannelClose, HandleEvent
    <3>5. \A n \in Nodes, b \in 1..block : HandleBlock(n, b) \/ FirstRun(n, b) => UNCHANGED chain
      BY BlockCases DEF IInv
    <3>6. UNCHANGED chain => UNCHANGED <<channel, onchain>>
      BY DEF chain
    <3> QED
      BY <3>1, <3>2, <3>3, <3>4, <3>5, <3>6, NextCases, QuietStep
  <2> QED
    BY <2>1, <2>2 DEF LockedOnChain
<1>6. <<m, Unlock>> \notin txpool'
  <2>1. <<m, Unlock>> \notin txpool
    BY DEF IInv, SentInv
  <2>2. ASSUME NEW n \in Nodes, NEW tx \in Transaction, tx # Unlock, Transact(n, tx)
        PROVE  <<m, Unlock>> \notin txpool'
    BY <2>1, <2>2 DEF Transact
  <2>3. \A n \in Nodes, tx \in Transaction : Mine(n, tx) => txpool' \subseteq txpool
    BY DEF Mine
  <2>4. \A n \in Nodes, tx \in Transaction : Polled(n, tx) => UNCHANGED txpool
    BY DEF Polled
  <2>5. UNCHANGED vars \/ Tick => UNCHANGED txpool
    BY DEF vars, Tick
  <2>6. \A n \in Nodes : \/ Accept(n) \/ ActionChannelClose(n) \/ HandleEvent(n) \/ SendUnlock(n)
                         \/ Crash(n) \/ Restart(n) \/ Started(n)
                         => UNCHANGED txpool
    BY DEF Accept, ActionChannelClose, HandleEvent, SendUnlock, Crash, Restart, Started
  <2>7. \A n \in Nodes, b \in 1..block : HandleBlock(n, b) \/ FirstRun(n, b) => UNCHANGED txpool
    BY BlockCases DEF IInv
  <2> QED
    BY <2>1, <2>2, <2>3, <2>4, <2>5, <2>6, <2>7, NextCases
<1> QED
  BY <1>2, <1>3, <1>4, <1>5, <1>6

(* A pending transaction is dropped when the contract has done it: a close *)
(* by the close, an update or a settle by the settlement.                  *)
LEMMA PendingLeaves ==
  ASSUME IInv, [Next]_vars, NEW m \in Nodes, NEW tx \in pending[m], tx \notin pending'[m]
  PROVE  \/ tx.kind = "close" /\ status[m] \in Unclosed /\ status'[m] = "closed"
         \/ tx.kind \in {"update", "settle"} /\ channel = "settled"
<1> DEFINE Goal == \/ tx.kind = "close" /\ status[m] \in Unclosed /\ status'[m] = "closed"
                   \/ tx.kind \in {"update", "settle"} /\ channel = "settled"
<1>1. ~ UNCHANGED state
  BY DEF state
<1>2. UNCHANGED vars \/ Tick => UNCHANGED state
  BY DEF vars, Tick
<1>3. \A n \in Nodes, u \in Transaction : Mine(n, u) => UNCHANGED state
  BY DEF Mine
<1>4. \A n \in Nodes : Accept(n) => FALSE
  BY DEF Accept
<1>5. \A n \in Nodes : ActionChannelClose(n) => FALSE
  BY DEF ActionChannelClose, IInv, TypeOK, StateType
<1>6. ASSUME NEW n \in Nodes, NEW b \in 1..block, HandleBlock(n, b) \/ FirstRun(n, b)
      PROVE  FALSE
  <2>1. pending' = pending \/ pending' = [pending EXCEPT ![n] = @ \cup {Settle}]
    BY <1>6, BlockCases DEF IInv
  <2> QED
    BY <2>1 DEF IInv, TypeOK, StateType
<1>7. ASSUME NEW n \in Nodes, HandleEvent(n)
      PROVE  Goal
  <2>1. CASE HandledClose(n)
    <3>1. m = n /\ tx \notin StillPending(n, "close")
      BY <2>1 DEF HandledClose, IInv, TypeOK, StateType
    <3>2. tx.kind = "close"
      BY <3>1 DEF StillPending, is_transaction_pending
    <3> QED
      BY <2>1, <3>1, <3>2 DEF HandledClose, IInv, TypeOK, StateType
  <2>2. CASE HandledSettle(n)
    <3>1. m = n /\ tx \notin StillPending(n, "settle")
      BY <2>2 DEF HandledSettle, IInv, TypeOK, StateType
    <3>2. tx.kind \in {"update", "settle"}
      BY <3>1 DEF StillPending, is_transaction_pending
    <3> QED
      BY <2>2, <3>2 DEF HandledSettle
  <2> QED
    BY <1>7, <2>1, <2>2, HandleCases DEF IInv
<1> QED
  BY <1>1, <1>2, <1>3, <1>4, <1>5, <1>6, <1>7, NextCases, QuietStep

-----------------------------------------------------------------------------
(* The contract holds the last proofs.                                     *)

(* The steps of the contract.                                              *)
LEMMA ContractMoves ==
  ASSUME IInv, [Next]_vars
  PROVE  \/ UNCHANGED chain
         \/ Tick
         \/ /\ UNCHANGED <<block, state, phase, calls>>
            /\ \/ \E n \in Nodes, k \in 0..MaxNonce : Sent(n, Close(k)) /\ MinedClose(n, k)
               \/ \E n \in Nodes, k \in 1..MaxNonce : Sent(n, Update(k)) /\ MinedUpdate(n, k)
               \/ MinedSettle
<1>1. ASSUME NEW n \in Nodes, NEW tx \in Transaction, Mine(n, tx)
      PROVE  \/ UNCHANGED chain
             \/ /\ UNCHANGED <<block, state, phase, calls>>
                /\ \/ \E k \in 0..MaxNonce : Sent(n, Close(k)) /\ MinedClose(n, k)
                   \/ \E k \in 1..MaxNonce : Sent(n, Update(k)) /\ MinedUpdate(n, k)
                   \/ MinedSettle
  BY <1>1, MineCases DEF Sent, IInv
<1>2. UNCHANGED vars => UNCHANGED chain
  BY DEF vars
<1>3. \A n \in Nodes : Accept(n) \/ ActionChannelClose(n) \/ HandleEvent(n) => UNCHANGED chain
  BY DEF Accept, ActionChannelClose, HandleEvent
<1>4. \A n \in Nodes, b \in 1..block : HandleBlock(n, b) \/ FirstRun(n, b) => UNCHANGED chain
  BY BlockCases DEF IInv
<1> QED
  BY <1>1, <1>2, <1>3, <1>4, NextCases, QuietStep

LEMMA OnchainStep == IInv /\ [Next]_vars => OnchainInv'
<1> SUFFICES ASSUME IInv, [Next]_vars
             PROVE  OnchainInv'
  OBVIOUS
<1>1. closer \in Nodes /\ Partner(closer) \in Nodes /\ Partner(closer) # closer
  BY PartnerType DEF IInv, TypeOK, ChainType
<1>2. ASSUME NEW m \in Nodes, status[m] # "opened"
      PROVE  status'[m] # "opened" /\ accepted'[m] = accepted[m]
  BY <1>2, StatusLife, AcceptedMoves DEF StatusMoves
<1>3. CASE UNCHANGED chain \/ Tick \/ MinedSettle
  <2>1. UNCHANGED <<closer, onchain>> /\ (channel = "opened" <=> channel' = "opened")
    BY <1>3 DEF chain, Tick, MinedSettle
  <2> QED
    BY <1>1, <1>2, <2>1 DEF OnchainInv, IInv
<1>4. ASSUME NEW n \in Nodes, NEW k \in 0..MaxNonce, Sent(n, Close(k)), MinedClose(n, k),
             UNCHANGED state
      PROVE  OnchainInv'
  <2>1. k = accepted[n] /\ status[n] # "opened"
    BY <1>4 DEF IInv, SentInv
  <2>2. /\ channel = "opened" /\ channel' = "closed" /\ closer' = n
        /\ onchain' = [onchain EXCEPT ![Partner(n)] = k]
    BY <1>4 DEF MinedClose
  <2>3. onchain'[n] = 0 /\ onchain'[Partner(n)] = k
    BY <2>2, PartnerType DEF IInv, OnchainInv, TypeOK, ChainType
  <2> QED
    BY <1>4, <2>1, <2>2, <2>3 DEF OnchainInv, state
<1>5. ASSUME NEW n \in Nodes, NEW k \in 1..MaxNonce, Sent(n, Update(k)), MinedUpdate(n, k),
             UNCHANGED state
      PROVE  OnchainInv'
  <2>0. k \in 0..MaxNonce
    OBVIOUS
  <2>1. k = accepted[n] /\ status[n] # "opened"
    BY <1>5, <2>0 DEF IInv, SentInv, Unclosed
  <2>2. /\ channel = "closed" /\ channel' = "closed" /\ closer' = closer /\ closer # n
        /\ onchain' = [onchain EXCEPT ![Partner(n)] = k]
    BY <1>5 DEF MinedUpdate
  <2>3. n = Partner(closer) /\ Partner(n) = closer
    BY <1>1, <2>2, OnlyTwo, PartnerType
  <2>4. onchain'[closer] = k /\ onchain'[n] = onchain[n]
    BY <1>1, <2>2, <2>3 DEF IInv, TypeOK, ChainType
  <2> QED
    BY <1>5, <2>1, <2>2, <2>3, <2>4 DEF OnchainInv, IInv, state
<1> QED
  BY <1>3, <1>4, <1>5, ContractMoves

-----------------------------------------------------------------------------
(* The update of the participant that did not close.                       *)

(* While the window is open the contract takes the update.                 *)
LEMMA UpdateDue ==
  ASSUME IInv, channel = "closed", block <= SettlementEnd,
         onchain[closer] # accepted[Partner(closer)]
  PROVE  /\ accepted[Partner(closer)] > 0
         /\ Accepts(Partner(closer), Update(accepted[Partner(closer)]))
<1> DEFINE n == Partner(closer)
<1>1. closer \in Nodes /\ n \in Nodes /\ closer # n /\ Partner(n) = closer
  BY PartnerType DEF IInv, TypeOK, ChainType
<1>2. onchain[closer] = 0 /\ accepted[n] \in 0..MaxNonce
  BY <1>1 DEF IInv, OnchainInv, TypeOK, StateType
<1>3. accepted[n] > 0
  BY <1>2, SettlementAssumption
<1> HIDE DEF n
<1>4. Accepts(n, Update(accepted[n]))
  BY <1>1, <1>2, <1>3, TransactionKinds DEF Accepts
<1> QED
  BY <1>3, <1>4 DEF n

(* Only the event tells a node of the close.                               *)
LEMMA CloseHandled ==
  ASSUME IInv, [Next]_vars, NEW n \in Nodes, status[n] \in Unclosed, status'[n] \notin Unclosed
  PROVE  HandleEvent(n) /\ HandledClose(n)
<1>1. ASSUME NEW p \in Nodes, HandleEvent(p)
      PROVE  HandleEvent(n) /\ HandledClose(n)
  <2>1. HandledSettle(p) => p = n
    BY DEF HandledSettle, IInv, TypeOK, StateType
  <2>2. ~ HandledSettle(p)
    BY <2>1 DEF HandledSettle
  <2>3. HandledClose(p)
    BY <1>1, <2>2, HandleCases DEF IInv
  <2>4. p = n
    BY <2>3 DEF HandledClose, IInv, TypeOK, StateType
  <2> QED
    BY <1>1, <2>3, <2>4
<1>2. ~ UNCHANGED status
  OBVIOUS
<1>3. UNCHANGED vars \/ Tick \/ UNCHANGED state => UNCHANGED status
  BY DEF vars, Tick, state
<1>4. \A p \in Nodes, u \in Transaction : Mine(p, u) => UNCHANGED status
  BY DEF Mine, state
<1>5. \A p \in Nodes : Accept(p) => UNCHANGED status
  BY DEF Accept
<1>6. \A p \in Nodes : ActionChannelClose(p) => FALSE
  BY DEF ActionChannelClose, IInv, TypeOK, StateType, Unclosed
<1>7. \A p \in Nodes, b \in 1..block : HandleBlock(p, b) \/ FirstRun(p, b) => FALSE
  BY BlockCases DEF IInv, TypeOK, StateType, Unclosed
<1> QED
  BY <1>1, <1>2, <1>3, <1>4, <1>5, <1>6, <1>7, NextCases, QuietStep

LEMMA UpdatePending ==
  ASSUME IInv, [Next]_vars, channel' = "closed", NEW n \in Nodes, n = Partner(closer'),
         status'[n] \notin Unclosed, accepted'[n] > 0
  PROVE  Update(accepted'[n]) \in pending'[n]
<1>1. channel # "opened"
  <2> SUFFICES ASSUME channel = "opened"
               PROVE  FALSE
    OBVIOUS
  <2>1. status[n] \in Unclosed
    BY DEF IInv, StatusInv
  <2>2. ~ UNCHANGED chain
    BY DEF chain
  <2>3. UNCHANGED state
    BY <2>2, OneSide
  <2> QED
    BY <2>1, <2>3 DEF state
<1>2. channel = "closed" /\ closer' = closer
  <2>1. channel = "closed"
    BY <1>1, ChannelMoves
  <2> QED
    BY <2>1, ContractMoves DEF chain, Tick, MinedClose, MinedUpdate, MinedSettle
<1>3. CASE status[n] \notin Unclosed
  <2>1. accepted'[n] = accepted[n]
    BY <1>3, AcceptedMoves DEF Unclosed
  <2>2. Update(accepted[n]) \in pending[n]
    BY <1>2, <1>3, <2>1 DEF IInv, UpdateInv
  <2> QED
    BY <1>2, <2>1, <2>2, PendingLeaves, TransactionKinds
<1>4. CASE status[n] \in Unclosed
  <2>1. HandleEvent(n) /\ HandledClose(n)
    BY <1>4, CloseHandled
  <2>2. accepted'[n] = accepted[n]
    BY <2>1, HandleCases DEF IInv
  <2>3. closer # n
    BY <1>2, PartnerType DEF IInv, TypeOK, ChainType
  <2>4. call_update(n)
    BY <2>2, <2>3 DEF call_update
  <2> QED
    BY <2>1, <2>2, <2>4 DEF HandledClose, IInv, TypeOK, StateType
<1> QED
  BY <1>3, <1>4

(* An update that is under way stays so until it is mined or its node goes *)
(* down.                                                                   *)
LEMMA UpdateUnderway ==
  ASSUME IInv, [Next]_vars, channel = "closed", UNCHANGED <<channel, closer, closeBlock>>,
         NEW n \in Nodes, n = Partner(closer), block' <= SettlementEnd',
         status'[n] \notin Unclosed, phase'[n] \in {"sending", "running"},
         onchain'[closer] # accepted'[n]
  PROVE  Underway(n, Update(accepted[n]))'
<1> DEFINE due == Update(accepted[n])
           check == [tx |-> due, stage |-> "check"]
           poll == [tx |-> due, stage |-> "poll"]
<1>1. closer # n /\ Partner(n) = closer
  BY PartnerType DEF IInv, TypeOK, ChainType
<1>2. block <= SettlementEnd
  <2>1. block' = block \/ block' = block + 1
    BY ContractMoves DEF chain, Tick
  <2> QED
    BY <2>1, SettlementAssumption DEF SettlementEnd, IInv, TypeOK, ChainType
<1>3. accepted'[n] = accepted[n] \/ status[n] \in Unclosed
  BY AcceptedMoves DEF Unclosed
<1>4. accepted'[n] = accepted[n]
  <2>1. ASSUME status[n] \in Unclosed
        PROVE  accepted'[n] = accepted[n]
    BY <2>1, CloseHandled, HandleCases DEF IInv
  <2> QED
    BY <1>3, <2>1
<1>5. onchain'[closer] = onchain[closer]
  <2>1. ASSUME NEW p \in Nodes, NEW k \in 1..MaxNonce, Sent(p, Update(k)), MinedUpdate(p, k)
        PROVE  FALSE
    <3>1. p = n
      BY <1>1, <2>1, OnlyTwo, PartnerType DEF MinedUpdate
    <3>2. k \in 0..MaxNonce
      OBVIOUS
    <3>3. k = accepted[n]
      BY <2>1, <3>1, <3>2 DEF IInv, SentInv
    <3> QED
      BY <1>1, <1>4, <2>1, <3>1, <3>3, PartnerType DEF MinedUpdate, IInv, TypeOK, ChainType
  <2> QED
    BY <2>1, ContractMoves DEF MinedClose, MinedSettle, Tick, chain
<1>6. accepted[n] > 0 /\ Accepts(n, due)
  BY <1>2, <1>4, <1>5, UpdateDue
<1>7. Underway(n, Update(accepted[n]))' <=>
        \/ check \in calls'[n]
        \/ poll \in calls'[n] /\ <<n, due>> \in txpool'
  BY <1>4 DEF Underway
<1>8. CASE status[n] \in Unclosed
  <2>1. HandleEvent(n) /\ HandledClose(n)
    BY <1>8, CloseHandled
  <2>2. phase[n] = "running"
    BY <2>1, HandleCases DEF IInv
  <2>3. call_update(n)
    BY <1>1, <1>6 DEF call_update
  <2>4. Emit(n, {due})
    BY <2>1, <2>3 DEF HandledClose
  <2>5. calls'[n] = calls[n] \cup [tx : {due}, stage : {"check"}]
    BY <2>2, <2>4, EmitEffect DEF IInv
  <2>6. check \in calls'[n]
    BY <2>5
  <2> QED
    BY <1>7, <2>6
<1>9. ASSUME NEW b \in 1..block, FirstRun(n, b)
      PROVE  check \in calls'[n]
  <2>1. due \in pending'[n]
    BY <1>4, <1>6, UpdatePending
  <2>2. calls' = [calls EXCEPT ![n] = [tx : pending'[n], stage : {"check"}]]
    BY <1>9 DEF FirstRun, initialize_transactions_queues
  <2> QED
    BY <2>1, <2>2 DEF IInv, TypeOK, ProcessType
<1>10. CASE status[n] \notin Unclosed /\ ~ \E b \in 1..block : FirstRun(n, b)
  <2>1. phase[n] \in {"sending", "running"}
    <3>1. \A p \in Nodes : SendUnlock(p) \/ Crash(p) \/ Restart(p) => phase'[n] = phase[n]
      BY DEF SendUnlock, Crash, Restart, IInv, TypeOK, ProcessType
    <3>2. \A p \in Nodes : Started(p) => phase'[n] = phase[n] \/ phase[n] = "sending"
      BY DEF Started, IInv, TypeOK, ProcessType
    <3>3. \A p \in Nodes, b \in 1..block : p # n /\ FirstRun(p, b) => phase'[n] = phase[n]
      BY DEF FirstRun, IInv, TypeOK, ProcessType
    <3>4. UNCHANGED vars \/ Tick => UNCHANGED phase
      BY DEF vars, Tick
    <3>5. \A p \in Nodes, u \in Transaction :
            Mine(p, u) \/ Transact(p, u) \/ Polled(p, u) => UNCHANGED phase
      BY DEF Mine, Transact, Polled
    <3>6. \A p \in Nodes : Accept(p) \/ ActionChannelClose(p) \/ HandleEvent(p) => UNCHANGED phase
      BY DEF Accept, ActionChannelClose, HandleEvent
    <3>7. \A p \in Nodes, b \in 1..block : HandleBlock(p, b) => UNCHANGED phase
      BY DEF HandleBlock
    <3> QED
      BY <1>10, <3>1, <3>2, <3>3, <3>4, <3>5, <3>6, <3>7, NextCases
  <2>2. Underway(n, due)
    BY <1>2, <1>4, <1>5, <1>10, <2>1 DEF IInv, UpdateInv
  <2>3. \/ check \in calls[n]
        \/ poll \in calls[n] /\ <<n, due>> \in txpool
    BY <2>2 DEF Underway
  <2> DEFINE Goal == \/ check \in calls'[n]
                     \/ poll \in calls'[n] /\ <<n, due>> \in txpool'
  <2> HIDE DEF due
  <2>4. ASSUME calls[n] \subseteq calls'[n], txpool \subseteq txpool'
        PROVE  Goal
    BY <2>3, <2>4
  <2>5. ASSUME NEW p \in Nodes, NEW u \in Transaction, Mine(p, u)
        PROVE  Goal
    <3>1. calls' = calls
      BY <2>5 DEF Mine
    <3>2. CASE p = n /\ u = due
      <4>1. Execute(n, due)
        BY <1>6, <2>5, <3>2 DEF Mine
      <4>2. onchain'[closer] = accepted[n]
        BY <1>1, <4>1, TransactionKinds DEF Execute, due, IInv, TypeOK, ChainType
      <4> QED
        BY <1>4, <4>2
    <3>3. CASE ~ (p = n /\ u = due)
      <4>1. <<n, due>> \in txpool => <<n, due>> \in txpool'
        BY <2>5, <3>3 DEF Mine
      <4> QED
        BY <2>3, <3>1, <4>1
    <3> QED
      BY <3>2, <3>3
  <2>6. ASSUME NEW p \in Nodes, NEW u \in Transaction, Transact(p, u)
        PROVE  Goal
    <3>1. CASE p = n /\ u = due
      <4>1. /\ txpool' = txpool \cup {<<n, due>>}
            /\ calls' = [calls EXCEPT ![n] = (@ \ {check}) \cup {poll}]
        BY <1>6, <2>6, <3>1 DEF Transact
      <4> QED
        BY <4>1 DEF IInv, TypeOK, ProcessType
    <3>2. CASE ~ (p = n /\ u = due)
      <4>1. txpool \subseteq txpool'
        BY <2>6 DEF Transact
      <4>2. /\ calls[n] \ {[tx |-> u, stage |-> "check"]} \subseteq calls'[n]
            /\ p # n => calls'[n] = calls[n]
        BY <2>6 DEF Transact, IInv, TypeOK, ProcessType
      <4>3. p = n => check # [tx |-> u, stage |-> "check"] /\ poll # [tx |-> u, stage |-> "check"]
        BY <3>2
      <4> QED
        BY <2>3, <4>1, <4>2, <4>3
    <3> QED
      BY <3>1, <3>2
  <2>7. ASSUME NEW p \in Nodes, NEW u \in Transaction, Polled(p, u)
        PROVE  Goal
    <3>1. /\ txpool' = txpool /\ <<p, u>> \notin txpool
          /\ calls' = [calls EXCEPT ![p] = @ \ {[tx |-> u, stage |-> "poll"]}]
      BY <2>7 DEF Polled
    <3>2. check # [tx |-> u, stage |-> "poll"]
      OBVIOUS
    <3>3. poll = [tx |-> u, stage |-> "poll"] => u = due
      OBVIOUS
    <3> QED
      BY <2>3, <3>1, <3>2, <3>3 DEF IInv, TypeOK, ProcessType
  <2>8. ASSUME NEW p \in Nodes, Accept(p) \/ Restart(p)
        PROVE  calls[n] \subseteq calls'[n] /\ txpool \subseteq txpool'
    BY <2>8 DEF Accept, Restart
  <2>9. ASSUME NEW p \in Nodes, Started(p)
        PROVE  calls[n] \subseteq calls'[n] /\ txpool \subseteq txpool'
    BY <2>9 DEF Started
  <2>10. ASSUME NEW p \in Nodes, NEW txs, Emit(p, txs)
         PROVE  calls[n] \subseteq calls'[n]
    BY <2>10, EmitEffect DEF IInv
  <2>11. ASSUME NEW p \in Nodes, ActionChannelClose(p)
         PROVE  calls[n] \subseteq calls'[n] /\ txpool \subseteq txpool'
    BY <2>10, <2>11 DEF ActionChannelClose
  <2>12. ASSUME NEW p \in Nodes, HandleEvent(p)
         PROVE  calls[n] \subseteq calls'[n] /\ txpool \subseteq txpool'
    <3>1. HandledClose(p) => calls[n] \subseteq calls'[n]
      BY <2>10 DEF HandledClose
    <3>2. HandledSettle(p) => calls[n] \subseteq calls'[n]
      BY <2>10 DEF HandledSettle
    <3> QED
      BY <2>12, <3>1, <3>2, HandleCases DEF IInv
  <2>13. ASSUME NEW p \in Nodes, NEW b \in 1..block, HandleBlock(p, b)
         PROVE  calls[n] \subseteq calls'[n] /\ txpool \subseteq txpool'
    BY <2>10, <2>13 DEF HandleBlock, handle_block
  <2>14. ASSUME NEW p \in Nodes, NEW b \in 1..block, FirstRun(p, b)
         PROVE  calls[n] \subseteq calls'[n] /\ txpool \subseteq txpool'
    <3>1. p # n
      BY <1>10, <2>14
    <3> QED
      BY <2>14, <3>1 DEF FirstRun, handle_block, IInv, TypeOK, ProcessType
  <2>15. ASSUME NEW p \in Nodes, SendUnlock(p) \/ Crash(p)
         PROVE  calls[n] \subseteq calls'[n] /\ txpool \subseteq txpool'
    BY <2>15 DEF SendUnlock, Crash, IInv, TypeOK, ProcessType
  <2>16. UNCHANGED vars \/ Tick => UNCHANGED <<calls, txpool>>
    BY DEF vars, Tick
  <2>17. Goal
    BY <2>4, <2>5, <2>6, <2>7, <2>8, <2>9, <2>11, <2>12, <2>13, <2>14, <2>15, <2>16, NextCases
  <2> QED
    BY <1>7, <2>17
<1> QED
  BY <1>7, <1>8, <1>9, <1>10

LEMMA UpdateStep == IInv /\ [Next]_vars => UpdateInv'
<1> SUFFICES ASSUME IInv, [Next]_vars, channel' # "opened"
             PROVE  UpdateInv'
  BY DEF UpdateInv
<1>0. PICK n \in Nodes : n = Partner(closer') /\ n # closer'
  <2>1. closer' \in Nodes
    BY TypeStep DEF IInv, TypeOK, ChainType
  <2> QED
    BY <2>1, PartnerType
<1>1. closer' \in Nodes /\ n \in Nodes /\ n # closer'
  BY <1>0, TypeStep DEF IInv, TypeOK, ChainType
<1>2. block \in Nat /\ closeBlock \in Nat /\ SETTLE_TIMEOUT \in Nat \ {0}
  BY SettlementAssumption DEF IInv, TypeOK, ChainType
<1>3. CASE channel = "opened"
  <2>1. PICK p \in Nodes, k \in 0..MaxNonce : MinedClose(p, k)
    BY <1>3, ContractMoves DEF chain, Tick, MinedUpdate, MinedSettle
  <2>2. UNCHANGED <<block, state>>
    BY <2>1, ContractMoves, <1>3 DEF MinedClose, chain, Tick
  <2>3. status'[n] \in Unclosed
    BY <1>1, <1>3, <2>2 DEF IInv, StatusInv, state
  <2>4. ~ (block' > SettlementEnd')
    BY <1>2, <2>1, <2>2 DEF MinedClose, SettlementEnd
  <2> QED
    BY <1>0, <2>3, <2>4 DEF UpdateInv
<1>4. CASE channel # "opened"
  <2>1. UNCHANGED <<closer, closeBlock>>
    BY <1>4, ContractMoves DEF chain, Tick, MinedClose, MinedUpdate, MinedSettle
  <2>2. n = Partner(closer)
    BY <1>0, <2>1
  <2>3. ASSUME channel' = "closed", status'[n] \notin Unclosed, accepted'[n] > 0
        PROVE  Update(accepted'[n]) \in pending'[n]
    BY <1>1, <2>3, <1>0, UpdatePending
  <2>4. ASSUME channel' = "closed", block' <= SettlementEnd', status'[n] \notin Unclosed,
               phase'[n] \in {"sending", "running"}, onchain'[closer'] # accepted'[n]
        PROVE  Underway(n, Update(accepted[n]))'
    <3>1. channel = "closed"
      BY <1>4, <2>4, ChannelMoves
    <3> QED
      BY <1>1, <2>1, <2>2, <2>4, <3>1, UpdateUnderway
  <2>5. ASSUME block' > SettlementEnd'
        PROVE  status'[n] \notin Unclosed /\ onchain'[closer'] = accepted'[n]
    <3>1. status[n] \notin Unclosed /\ onchain[closer] = accepted[n]
      <4>1. CASE block > SettlementEnd
        BY <1>4, <2>2, <4>1 DEF IInv, UpdateInv
      <4>2. CASE ~ (block > SettlementEnd)
        <5>1. Tick /\ block = SettlementEnd
          <6>1. block' # block
            BY <2>1, <2>5, <4>2 DEF SettlementEnd
          <6>2. Tick
            BY <6>1, ContractMoves DEF chain
          <6> QED
            BY <1>2, <2>1, <2>5, <4>2, <6>2 DEF Tick, SettlementEnd
        <5>2. channel = "closed"
          BY <1>4, <4>2 DEF IInv, LogsInv, TypeOK, ChainType
        <5>3. UpdateInTime
          BY <5>1, <5>2 DEF Tick
        <5>4. /\ phase[n] = "running" /\ finished[n] # 0
              /\ \A c \in calls[n] : c.tx.kind # "update"
          BY <2>2, <5>3 DEF UpdateInTime
        <5>5. status[n] \notin Unclosed
          BY <1>1, <5>4 DEF IInv, StatusInv
        <5>6. ~ Underway(n, Update(accepted[n]))
          BY <5>4, TransactionKinds DEF Underway
        <5>7. block <= SettlementEnd
          BY <1>2, <5>1 DEF SettlementEnd
        <5> QED
          BY <2>2, <5>2, <5>4, <5>5, <5>6, <5>7 DEF IInv, UpdateInv
      <4> QED
        BY <4>1, <4>2
    <3>2. status'[n] \notin Unclosed /\ accepted'[n] = accepted[n]
      BY <1>1, <3>1, StatusLife, AcceptedMoves DEF StatusMoves, Unclosed
    <3>3. onchain'[closer] = onchain[closer]
      <4>1. ASSUME NEW p \in Nodes, NEW k \in 1..MaxNonce, Sent(p, Update(k)), MinedUpdate(p, k)
            PROVE  onchain'[closer] = onchain[closer]
        <5>1. p = n /\ Partner(p) = closer
          BY <1>1, <2>1, <4>1, OnlyTwo, <1>0, PartnerType DEF MinedUpdate
        <5>2. k = accepted[n]
          <6>1. k \in 0..MaxNonce
            OBVIOUS
          <6> QED
            BY <4>1, <5>1, <6>1 DEF IInv, SentInv
        <5> QED
          BY <1>1, <2>1, <3>1, <4>1, <5>1, <5>2 DEF MinedUpdate, IInv, TypeOK, ChainType
      <4> QED
        BY <1>4, <4>1, ContractMoves DEF chain, Tick, MinedClose, MinedSettle
    <3> QED
      BY <2>1, <3>1, <3>2, <3>3
  <2> QED
    BY <1>0, <2>3, <2>4, <2>5 DEF UpdateInv
<1> QED
  BY <1>3, <1>4

-----------------------------------------------------------------------------
(* What is owed is pending, and what is done is forgotten.                 *)

(* A node's channel is settled or removed by the event of the settlement.  *)
LEMMA SettleHandled ==
  ASSUME IInv, [Next]_vars, NEW m \in Nodes,
         status'[m] \in {"settled", "removed"}, status'[m] # status[m]
  PROVE  HandledSettle(m) /\ UNCHANGED chain
<1>1. UNCHANGED vars \/ Tick \/ UNCHANGED state => UNCHANGED status
  BY DEF vars, Tick, state
<1>2. \A n \in Nodes, u \in Transaction : Mine(n, u) => UNCHANGED status
  BY DEF Mine, state
<1>3. \A n \in Nodes : Accept(n) => UNCHANGED status
  BY DEF Accept
<1>4. \A n \in Nodes : ~ ActionChannelClose(n)
  BY DEF ActionChannelClose, IInv, TypeOK, StateType
<1>5. \A n \in Nodes, b \in 1..block : ~ (HandleBlock(n, b) \/ FirstRun(n, b))
  BY BlockCases DEF IInv, TypeOK, StateType
<1>6. PICK n \in Nodes : HandleEvent(n)
  BY <1>1, <1>2, <1>3, <1>4, <1>5, NextCases, QuietStep
<1>7. ~ HandledClose(n)
  BY DEF HandledClose, IInv, TypeOK, StateType
<1>8. HandledSettle(n) /\ UNCHANGED chain
  BY <1>6, <1>7, HandleCases DEF IInv
<1>9. n = m
  BY <1>8 DEF HandledSettle, IInv, TypeOK, StateType
<1> QED
  BY <1>8, <1>9

LEMMA OwedStep == IInv /\ [Next]_vars => OwedIsPending'
<1> SUFFICES ASSUME IInv, [Next]_vars, NEW m \in Nodes
             PROVE  \A kind \in {"close", "update", "settle", "unlock"} :
                      Owes(m, kind)' => \E tx \in pending'[m] : tx.kind = kind
  BY DEF OwedIsPending
<1>1. StatusMoves(m)
  BY StatusLife
<1>2. ASSUME status'[m] = "closing", channel' = "opened"
      PROVE  \E tx \in pending'[m] : tx.kind = "close"
  <2>1. channel = "opened"
    BY <1>2, ChannelMoves
  <2>2. CASE status[m] = "closing"
    <3>1. PICK tx \in pending[m] : tx.kind = "close"
      BY <2>1, <2>2 DEF IInv, OwedIsPending, Owes
    <3>2. tx \in pending'[m]
      BY <1>2, <3>1, PendingLeaves
    <3> QED
      BY <3>1, <3>2
  <2>3. CASE status[m] # "closing"
    <3>1. status[m] = "opened"
      BY <1>1, <1>2, <2>3 DEF StatusMoves, Unclosed
    <3>2. ASSUME NEW n \in Nodes, ActionChannelClose(n)
          PROVE  Close(accepted[m]) \in pending'[m]
      BY <1>2, <2>3, <3>2 DEF ActionChannelClose, IInv, TypeOK, StateType
    <3>3. ASSUME NEW n \in Nodes, HandleEvent(n)
          PROVE  FALSE
      BY <2>1, <3>3, HandleCases DEF IInv, LogsInv
    <3>4. ASSUME NEW n \in Nodes, NEW b \in 1..block, HandleBlock(n, b) \/ FirstRun(n, b)
          PROVE  FALSE
      BY <1>2, <3>1, <3>4, BlockCases DEF IInv, TypeOK, StateType
    <3>5. ~ UNCHANGED status
      BY <1>2, <2>3
    <3>6. UNCHANGED vars \/ Tick \/ UNCHANGED state => UNCHANGED status
      BY DEF vars, Tick, state
    <3>7. \A n \in Nodes, u \in Transaction : Mine(n, u) => UNCHANGED status
      BY DEF Mine, state
    <3>8. \A n \in Nodes : Accept(n) => UNCHANGED status
      BY DEF Accept
    <3>9. Close(accepted[m]) \in pending'[m]
      BY <3>2, <3>3, <3>4, <3>5, <3>6, <3>7, <3>8, NextCases, QuietStep
    <3> QED
      BY <3>9, TransactionKinds
  <2> QED
    BY <2>2, <2>3
<1>3. ASSUME status'[m] \in {"closed", "settling"}, closer' # m, channel' = "closed",
             onchain'[Partner(m)] < accepted'[m]
      PROVE  \E tx \in pending'[m] : tx.kind = "update"
  <2>1. m = Partner(closer')
    BY <1>3, TypeStep, OnlyTwo DEF IInv, TypeOK, ChainType
  <2>2. accepted'[m] > 0
    <3>1. onchain' \in [Nodes -> 0..MaxNonce] /\ accepted' \in [Nodes -> 0..MaxNonce]
      BY TypeStep DEF IInv, TypeOK, ChainType, StateType
    <3>2. onchain'[Partner(m)] \in 0..MaxNonce /\ accepted'[m] \in 0..MaxNonce
      BY <3>1, PartnerType
    <3> QED
      BY <1>3, <3>2, SettlementAssumption
  <2>3. status'[m] \notin Unclosed
    BY <1>3 DEF Unclosed
  <2> QED
    BY <1>3, <2>1, <2>2, <2>3, UpdatePending, TransactionKinds
<1>4. ASSUME status'[m] = "settling", channel' = "closed"
      PROVE  \E tx \in pending'[m] : tx.kind = "settle"
  <2>1. channel = "closed"
    <3>1. status[m] \notin Unclosed
      BY <1>1, <1>4 DEF StatusMoves, Unclosed
    <3> QED
      BY <1>4, <3>1, ChannelMoves DEF IInv, StatusInv
  <2>2. CASE status[m] = "settling"
    <3>1. PICK tx \in pending[m] : tx.kind = "settle"
      BY <2>1, <2>2 DEF IInv, OwedIsPending, Owes
    <3>2. tx \in pending'[m]
      BY <2>1, <3>1, PendingLeaves
    <3> QED
      BY <3>1, <3>2
  <2>3. CASE status[m] # "settling"
    <3>1. ASSUME NEW n \in Nodes, NEW b \in 1..block, HandleBlock(n, b) \/ FirstRun(n, b)
          PROVE  Settle \in pending'[m]
      <4>1. /\ status' = [status EXCEPT ![n] = "settling"]
            /\ pending' = [pending EXCEPT ![n] = @ \cup {Settle}]
        BY <1>4, <2>3, <3>1, BlockCases DEF IInv
      <4> QED
        BY <1>4, <2>3, <4>1 DEF IInv, TypeOK, StateType
    <3>2. \A n \in Nodes : ActionChannelClose(n) => FALSE
      BY <1>4, <2>3 DEF ActionChannelClose, IInv, TypeOK, StateType
    <3>3. ASSUME NEW n \in Nodes, HandleEvent(n)
          PROVE  FALSE
      <4>1. ~ HandledSettle(n)
        BY <2>1 DEF HandledSettle
      <4>2. ~ HandledClose(n)
        BY <1>4, <2>3 DEF HandledClose, IInv, TypeOK, StateType
      <4> QED
        BY <1>4, <2>3, <3>3, <4>1, <4>2, HandleCases DEF IInv
    <3>4. ~ UNCHANGED status
      BY <1>4, <2>3
    <3>5. UNCHANGED vars \/ Tick \/ UNCHANGED state => UNCHANGED status
      BY DEF vars, Tick, state
    <3>6. \A n \in Nodes, u \in Transaction : Mine(n, u) => UNCHANGED status
      BY DEF Mine, state
    <3>7. \A n \in Nodes : Accept(n) => UNCHANGED status
      BY DEF Accept
    <3>8. Settle \in pending'[m]
      BY <3>1, <3>2, <3>3, <3>4, <3>5, <3>6, <3>7, NextCases, QuietStep
    <3> QED
      BY <3>8, TransactionKinds
  <2> QED
    BY <2>2, <2>3
<1>5. ASSUME status'[m] = "settled"
      PROVE  \E tx \in pending'[m] : tx.kind = "unlock"
  <2>1. CASE status[m] = "settled"
    <3>1. PICK tx \in pending[m] : tx.kind = "unlock"
      BY <2>1 DEF IInv, OwedIsPending, Owes
    <3>2. tx \in pending'[m]
      BY <3>1, PendingLeaves
    <3> QED
      BY <3>1, <3>2
  <2>2. CASE status[m] # "settled"
    <3>1. HandledSettle(m)
      BY <1>5, <2>2, SettleHandled
    <3>2. Unlock \in pending'[m]
      BY <1>5, <3>1 DEF HandledSettle, IInv, TypeOK, StateType
    <3> QED
      BY <3>2, TransactionKinds
  <2> QED
    BY <2>1, <2>2
<1> QED
  BY <1>2, <1>3, <1>4, <1>5 DEF Owes

LEMMA ForgottenStep == IInv /\ [Next]_vars => ForgottenOnlyWhenEmpty'
<1> SUFFICES ASSUME IInv, [Next]_vars, NEW m \in Nodes, status'[m] = "removed"
             PROVE  channel' = "settled" /\ LockedOnChain' = {}
  BY DEF ForgottenOnlyWhenEmpty
<1>1. CASE status[m] = "removed"
  <2>1. channel = "settled" /\ LockedOnChain = {}
    BY <1>1 DEF IInv, ForgottenOnlyWhenEmpty
  <2>2. UNCHANGED <<channel, onchain>>
    BY <2>1, ContractMoves DEF chain, Tick, MinedClose, MinedUpdate, MinedSettle
  <2> QED
    BY <2>1, <2>2 DEF LockedOnChain
<1>2. CASE status[m] # "removed"
  <2>1. HandledSettle(m) /\ UNCHANGED chain
    BY <1>2, SettleHandled
  <2>2. should_clear_channel(m) /\ channel = "settled"
    BY <2>1 DEF HandledSettle, IInv, TypeOK, StateType
  <2> QED
    BY <2>1, <2>2 DEF chain, should_clear_channel, LockedOnChain
<1> QED
  BY <1>1, <1>2

LEMMA NothingLeftStep == IInv /\ [Next]_vars => NothingLeftPending'
<1> SUFFICES ASSUME IInv, [Next]_vars, NEW m \in Nodes, status'[m] = "removed",
                    NEW tx \in pending'[m]
             PROVE  FALSE
  BY DEF NothingLeftPending
<1>1. CASE status[m] = "removed"
  <2>1. LockedOnChain = {} /\ tx \notin pending[m]
    BY <1>1 DEF IInv, ForgottenOnlyWhenEmpty, NothingLeftPending
  <2>2. Entered(m, tx)
    BY <2>1, PendingEnters
  <2> QED
    BY <1>1, <2>1, <2>2 DEF Entered, Unclosed
<1>2. CASE status[m] # "removed"
  <2>1. HandledSettle(m)
    BY <1>2, SettleHandled
  <2>2. LockedOnChain = {} /\ tx \in StillPending(m, "settle") /\ status[m] \notin Unclosed
    BY <2>1 DEF HandledSettle, should_clear_channel, IInv, TypeOK, StateType
  <2>3. tx \in pending[m] /\ tx.kind # "settle" /\ tx.kind # "update"
    BY <2>2 DEF StillPending, is_transaction_pending
  <2>4. tx # Unlock
    BY <2>2, <2>3 DEF IInv, SentInv
  <2>5. \A k \in 0..MaxNonce : tx # Close(k)
    BY <2>2, <2>3 DEF IInv, SentInv, Unclosed
  <2>6. tx \in Transaction
    BY <2>3 DEF IInv, TypeOK, StateType
  <2> QED
    BY <2>3, <2>4, <2>5, <2>6, TransactionCases, TransactionKinds
<1> QED
  BY <1>1, <1>2

-----------------------------------------------------------------------------
(* The invariants.                                                         *)

LEMMA Inductive == Spec => []IInv
<1>1. IInv /\ [Next]_vars => IInv'
  <2> SUFFICES ASSUME IInv, [Next]_vars
               PROVE  IInv'
    OBVIOUS
  <2>1. TypeOK'
    BY TypeStep DEF IInv
  <2> QED
    BY <2>1, LogsStep, ViewStep, StatusStep, SentStep, OnchainStep, UpdateStep, OwedStep,
       ForgottenStep, NothingLeftStep DEF IInv
<1> QED
  BY InitIInv, <1>1, PTL DEF Spec

(* The type of the state: a node's chain state waits only for transactions *)
(* of its channel, and no event is handled before the contract emits it.   *)
THEOREM SettlementTypeOK == Spec => []TypeOK
<1>1. IInv => TypeOK
  BY DEF IInv
<1> QED
  BY <1>1, Inductive, PTL

(* Through any crashes, lost calls and races of the two closes, what a     *)
(* node still has to send is among the pending transactions of its chain   *)
(* state (update_queues), where a restart finds it.                        *)
THEOREM OwedStaysPending == Spec => []OwedIsPending
<1>1. IInv => OwedIsPending
  BY DEF IInv
<1> QED
  BY <1>1, Inductive, PTL

(* handle_channel_settled drops a channel only when neither participant    *)
(* has locks left in the contract.                                         *)
THEOREM ForgottenWhenEmpty == Spec => []ForgottenOnlyWhenEmpty
<1>1. IInv => ForgottenOnlyWhenEmpty
  BY DEF IInv
<1> QED
  BY <1>1, Inductive, PTL

(* A node that has dropped a channel waits for none of its transactions:   *)
(* those not satisfied by an event are invalidated by the settlement.      *)
THEOREM ForgottenIsDone == Spec => []NothingLeftPending
<1>1. IInv => NothingLeftPending
  BY DEF IInv
<1> QED
  BY <1>1, Inductive, PTL

-----------------------------------------------------------------------------
(* The refinement of ChannelPayout.                                        *)

(* A step that gives up the channel for one node, if any, and changes      *)
(* neither the contract nor what the nodes accepted.                       *)
LEMMA FreezeOrNothing ==
  ASSUME TypeOK, UNCHANGED <<channel, onchain, accepted>>, NEW n \in Nodes,
         \/ UNCHANGED status
         \/ \E s : s # "opened" /\ status' = [status EXCEPT ![n] = s]
  PROVE  [Payout!Next]_(Payout!vars)
<1> DEFINE frozen == {m \in Nodes : status[m] # "opened"}
           payout == [m \in Nodes |-> IF channel = "settled" THEN onchain[Partner(m)] ELSE -1]
<1>1. payout' = payout
  OBVIOUS
<1>2. CASE UNCHANGED status
  <2>1. frozen' = frozen
    BY <1>2
  <2> QED
    BY <1>1, <2>1 DEF Payout!vars
<1>3. CASE \E s : s # "opened" /\ status' = [status EXCEPT ![n] = s]
  <2>1. frozen' = frozen \cup {n}
    BY <1>3 DEF TypeOK, StateType
  <2>2. Payout!Freeze(n)
    BY <1>1, <2>1 DEF Payout!Freeze
  <2> QED
    BY <2>2 DEF Payout!Next
<1> QED
  BY <1>2, <1>3

(* Only the settlement pays, and it pays what both accepted last.          *)
LEMMA PayStep ==
  ASSUME IInv, MinedSettle, UNCHANGED state
  PROVE  Payout!Pay
<1>1. closer \in Nodes /\ Partner(closer) \in Nodes
  BY PartnerType DEF IInv, TypeOK, ChainType
<1>2. \A n \in Nodes : n = closer \/ n = Partner(closer)
  BY <1>1, OnlyTwo
<1>3. channel = "closed" /\ channel' = "settled" /\ block > SettlementEnd /\ onchain' = onchain
  BY DEF MinedSettle
<1>4. /\ status[closer] # "opened" /\ status[Partner(closer)] # "opened"
      /\ onchain[Partner(closer)] = accepted[closer]
      /\ onchain[closer] = accepted[Partner(closer)]
  BY <1>3 DEF IInv, OnchainInv, UpdateInv, Unclosed
<1>5. {n \in Nodes : status[n] # "opened"} = Nodes
  BY <1>2, <1>4
<1>6. \A n \in Nodes : onchain[Partner(n)] = accepted[n]
  BY <1>1, <1>2, <1>4, PartnerType
<1>7. accepted = [n \in Nodes |-> accepted[n]]
  BY DEF IInv, TypeOK, StateType
<1>8. [n \in Nodes |-> IF channel = "settled" THEN onchain[Partner(n)] ELSE -1]' = accepted
  BY <1>3, <1>6, <1>7
<1>9. [n \in Nodes |-> IF channel = "settled" THEN onchain[Partner(n)] ELSE -1]
        = [n \in Nodes |-> -1]
  BY <1>3
<1> QED
  BY <1>5, <1>8, <1>9 DEF Payout!Pay, Payout!NotPaid, state

LEMMA PayoutStep == IInv /\ [Next]_vars => [Payout!Next]_(Payout!vars)
<1> SUFFICES ASSUME IInv, [Next]_vars
             PROVE  [Payout!Next]_(Payout!vars)
  OBVIOUS
<1>1. TypeOK /\ A \in Nodes
  BY DEF IInv, Nodes
<1>2. UNCHANGED <<channel, onchain, accepted, status>> => [Payout!Next]_(Payout!vars)
  BY <1>1, FreezeOrNothing
<1>3. ASSUME NEW n \in Nodes, NEW tx \in Transaction, Mine(n, tx)
      PROVE  [Payout!Next]_(Payout!vars)
  <2>1. UNCHANGED state
    BY <1>3 DEF Mine
  <2>2. ASSUME channel # "settled", channel' # "settled"
        PROVE  [Payout!Next]_(Payout!vars)
    BY <2>1, <2>2 DEF Payout!vars, state
  <2>3. MinedSettle => [Payout!Next]_(Payout!vars)
    BY <2>1, PayStep DEF Payout!Next
  <2>4. UNCHANGED chain => [Payout!Next]_(Payout!vars)
    BY <1>2, <2>1 DEF chain, state
  <2>5. \A k : MinedClose(n, k) \/ MinedUpdate(n, k) => channel # "settled" /\ channel' # "settled"
    BY DEF MinedClose, MinedUpdate
  <2>6. \/ UNCHANGED chain \/ MinedSettle
        \/ \E k : MinedClose(n, k) \/ MinedUpdate(n, k)
    BY <1>3, MineCases DEF IInv
  <2> QED
    BY <2>2, <2>3, <2>4, <2>5, <2>6
<1>4. ASSUME NEW n \in Nodes, Accept(n)
      PROVE  [Payout!Next]_(Payout!vars)
  <2>1. Payout!Accept(n)
    BY <1>4 DEF Accept, is_balance_proof_usable_onchain, Payout!Accept, chain
  <2> QED
    BY <2>1 DEF Payout!Next
<1>5. ASSUME NEW n \in Nodes, ActionChannelClose(n)
      PROVE  [Payout!Next]_(Payout!vars)
  <2>1. /\ UNCHANGED <<channel, onchain, accepted>>
        /\ status' = [status EXCEPT ![n] = "closing"]
    BY <1>5 DEF ActionChannelClose, chain
  <2> QED
    BY <1>1, <2>1, FreezeOrNothing
<1>6. ASSUME NEW n \in Nodes, HandleEvent(n)
      PROVE  [Payout!Next]_(Payout!vars)
  <2>1. /\ UNCHANGED <<channel, onchain, accepted>>
        /\ UNCHANGED status \/ HandledClose(n) \/ HandledSettle(n)
    BY <1>6, HandleCases DEF IInv, chain
  <2>2. HandledClose(n) => status' = [status EXCEPT ![n] = "closed"]
    BY DEF HandledClose
  <2>3. HandledSettle(n) => \/ status' = [status EXCEPT ![n] = "removed"]
                            \/ status' = [status EXCEPT ![n] = "settled"]
    BY DEF HandledSettle
  <2> QED
    BY <1>1, <2>1, <2>2, <2>3, FreezeOrNothing
<1>7. ASSUME NEW n \in Nodes, NEW b \in 1..block, HandleBlock(n, b) \/ FirstRun(n, b)
      PROVE  [Payout!Next]_(Payout!vars)
  <2>1. /\ UNCHANGED <<channel, onchain, accepted>>
        /\ UNCHANGED status \/ status' = [status EXCEPT ![n] = "settling"]
    BY <1>1, <1>7, BlockCases DEF chain
  <2> QED
    BY <1>1, <2>1, FreezeOrNothing
<1>8. UNCHANGED vars \/ Tick => UNCHANGED <<channel, onchain, accepted, status>>
  BY DEF vars, Tick, chain, state
<1>9. UNCHANGED <<chain, state>> => UNCHANGED <<channel, onchain, accepted, status>>
  BY DEF chain, state
<1> QED
  BY <1>2, <1>3, <1>4, <1>5, <1>6, <1>7, <1>8, <1>9, NextCases, QuietStep

(* However the two closes race and the nodes crash, the settlement pays    *)
(* each node by the last balance proof it accepted, and a node accepts     *)
(* none once it has given up the channel: the close, update and settle of  *)
(* two nodes and the contract implement ChannelPayout.                     *)
THEOREM SettlementImplementsPayout == Spec => PaysLastAccepted
<1>1. Init => Payout!Init
  <2> SUFFICES ASSUME Init
               PROVE  Payout!Init
    OBVIOUS
  <2>1. /\ accepted = [n \in Nodes |-> 0] /\ channel = "opened"
        /\ \A n \in Nodes : status[n] = "opened"
    BY DEF Init
  <2> QED
    BY <2>1 DEF Payout!Init, Payout!NotPaid
<1> QED
  BY <1>1, Inductive, PayoutStep, PTL DEF Spec, PaysLastAccepted, Payout!Spec
=============================================================================
