------------------------- MODULE SecretRegistryProxy -------------------------
(***************************************************************************)
(* SecretRegistry.register_secret_batch (network/proxies/secret_registry)  *)
(* called by the greenlets that handle ContractSendSecretReveal, with the  *)
(* client calls it makes (network/rpc/client.py) and the chain.            *)
(*                                                                         *)
(* A call is a greenlet of its own and owns the AsyncResult it creates, so *)
(* the result is named by the call.  Heights matter only as confirmations: *)
(* age[s] and tx_age[c] are the blocks on top of a registration and of a   *)
(* mined transaction, counted up to CONFIRMATIONS, NotMined before.        *)
(* An exception of the RPC layer outside the guarded section ends the node *)
(* (RaidenService.on_error) and with it all of this state.                 *)
(***************************************************************************)
EXTENDS Integers, Sequences, FiniteSets, SequencesExt

CONSTANTS
  Secrets, Calls, NoCall,
  Batches,         \* the argument of a call: a sequence of secrets
  CONFIRMATIONS    \* JSONRPCClient.default_block_num_confirmations

ASSUME CallsAssumption == NoCall \notin Calls /\ Batches \subseteq Seq(Secrets)
ASSUME ConfirmationsAssumption == CONFIRMATIONS \in Nat

NotMined == -1

VARIABLES
  age, tx_age,
  pool,                      \* calls whose transaction waits to be mined
  open_secret_transactions,
  lock,                      \* _open_secret_transactions_lock
  pc,
  secrets,                   \* the argument of each call
  confirmed,                 \* secrets registered at verification_block_hash
  secrets_to_register, wait_for,
  outcome,                   \* of the transaction: "none", "ok", "failed"
  transaction_result         \* "pending", "set", "exception"

vars == <<age, tx_age, pool, open_secret_transactions, lock, pc, secrets,
          confirmed, secrets_to_register, wait_for, outcome, transaction_result>>
chainVars == <<age, tx_age, pool>>
callVars == <<secrets, confirmed, secrets_to_register, wait_for>>

Init ==
  /\ age = [s \in Secrets |-> NotMined] /\ tx_age = [c \in Calls |-> NotMined]
  /\ pool = {}
  /\ open_secret_transactions = [s \in Secrets |-> NoCall]
  /\ lock = NoCall
  /\ pc = [c \in Calls |-> "new"]
  /\ secrets = [c \in Calls |-> <<>>]
  /\ confirmed = [c \in Calls |-> {}]
  /\ secrets_to_register = [c \in Calls |-> {}]
  /\ wait_for = [c \in Calls |-> {}]
  /\ outcome = [c \in Calls |-> "none"]
  /\ transaction_result = [c \in Calls |-> "pending"]

Goto(c, label) == pc' = [pc EXCEPT ![c] = label]

-----------------------------------------------------------------------------
(* The chain (external) *)

Older(n) == IF n = NotMined \/ n = CONFIRMATIONS THEN n ELSE n + 1

(* A block with the transactions of `mined' and registrations by others.   *)
(* A transaction registers its secrets unless it fails; registering again  *)
(* changes nothing.                                                        *)
NewBlock(mined, failing, others) ==
  /\ pool' = pool \ mined
  /\ tx_age' = [c \in Calls |-> IF c \in mined THEN 0 ELSE Older(tx_age[c])]
  /\ age' = [s \in Secrets |->
       IF age[s] # NotMined THEN Older(age[s])
       ELSE IF s \in others \cup UNION {secrets_to_register[c] : c \in mined \ failing}
            THEN 0 ELSE NotMined]
  /\ outcome' = [c \in Calls |->
       IF c \notin mined \/ pc[c] # "poll" THEN outcome[c]
       ELSE IF c \in failing THEN "failed" ELSE "ok"]
  /\ UNCHANGED <<open_secret_transactions, lock, pc, callVars, transaction_result>>

MineBlock ==
  \E mined \in SUBSET pool : \E failing \in SUBSET mined : \E others \in SUBSET Secrets :
    NewBlock(mined, failing, others)

(* The client removes a pending transaction, e.g. for its gas price.       *)
DropTransaction ==
  /\ \E c \in pool : pool' = pool \ {c}
  /\ UNCHANGED <<age, tx_age, open_secret_transactions, lock, pc, callVars,
                 outcome, transaction_result>>

-----------------------------------------------------------------------------
Call(c) ==
  /\ pc[c] = "new"
  /\ \E batch \in Batches : secrets' = [secrets EXCEPT ![c] = batch]
  /\ Goto(c, "called")
  /\ UNCHANGED <<chainVars, open_secret_transactions, lock, confirmed,
                 secrets_to_register, wait_for, outcome, transaction_result>>

(* The lock is taken, then get_confirmed_blockhash.                        *)
GetConfirmedBlockhash(c) ==
  /\ pc[c] = "called"
  /\ lock = NoCall /\ lock' = c
  /\ confirmed' = [confirmed EXCEPT ![c] = {s \in Secrets : age[s] = CONFIRMATIONS}]
  /\ Goto(c, "checking")
  /\ UNCHANGED <<chainVars, open_secret_transactions, secrets,
                 secrets_to_register, wait_for, outcome, transaction_result>>

(* Fault: the open transaction is not looked up.                           *)
Fault_CheckSecrets(c) ==
  LET send == ToSet(secrets[c]) \ confirmed[c]
  IN  /\ pc[c] = "checking"
      /\ secrets_to_register' = [secrets_to_register EXCEPT ![c] = send]
      /\ open_secret_transactions' =
           [s \in Secrets |-> IF s \in send THEN c ELSE open_secret_transactions[s]]
      /\ lock' = NoCall
      /\ Goto(c, IF send = {} THEN "waiting" ELSE "estimate")
      /\ UNCHANGED <<chainVars, secrets, confirmed, wait_for, outcome, transaction_result>>

(* Fault: the lookup's result is waited for without testing it for None.   *)
Fault_wait_for_none(c) ==
  LET batch == ToSet(secrets[c])
      send == {s \in batch \ confirmed[c] : open_secret_transactions[s] = NoCall}
  IN  /\ pc[c] = "checking"
      /\ secrets_to_register' = [secrets_to_register EXCEPT ![c] = send]
      /\ wait_for' = [wait_for EXCEPT ![c] = {open_secret_transactions[s] : s \in batch}]
      /\ open_secret_transactions' =
           [s \in Secrets |-> IF s \in send THEN c ELSE open_secret_transactions[s]]
      /\ lock' = NoCall
      /\ Goto(c, IF send = {} THEN "waiting" ELSE "estimate")
      /\ UNCHANGED <<chainVars, secrets, confirmed, outcome, transaction_result>>

(* The loop over the batch: wait for the call that has a transaction open  *)
(* for the secret, else open one unless the secret is registered.  A       *)
(* secret the batch has twice is open by this very call the second time.   *)
CheckSecrets(c) ==
  LET batch == ToSet(secrets[c])
      open == {s \in batch : open_secret_transactions[s] # NoCall}
      send == batch \ (open \cup confirmed[c])
      own == {s \in send : Cardinality({i \in DOMAIN secrets[c] : secrets[c][i] = s}) > 1}
  IN  /\ pc[c] = "checking"
      /\ secrets_to_register' = [secrets_to_register EXCEPT ![c] = send]
      /\ wait_for' = [wait_for EXCEPT ![c] =
           {open_secret_transactions[s] : s \in open} \cup {c : s \in own}]
      /\ open_secret_transactions' =
           [s \in Secrets |-> IF s \in send THEN c ELSE open_secret_transactions[s]]
      /\ lock' = NoCall
      /\ Goto(c, IF send = {} THEN "waiting" ELSE "estimate")
      /\ UNCHANGED <<chainVars, secrets, confirmed, outcome, transaction_result>>

(* estimate_gas returns a limit, or None.                                  *)
EstimateGas(c) ==
  /\ pc[c] = "estimate"
  /\ \/ Goto(c, "transact") /\ UNCHANGED outcome
     \/ Goto(c, "clear") /\ outcome' = [outcome EXCEPT ![c] = "failed"]
  /\ UNCHANGED <<chainVars, open_secret_transactions, lock, callVars, transaction_result>>

(* transact sends the transaction, or raises.                              *)
Transact(c) ==
  /\ pc[c] = "transact"
  /\ \/ Goto(c, "poll") /\ pool' = pool \cup {c} /\ UNCHANGED outcome
     \/ Goto(c, "clear") /\ outcome' = [outcome EXCEPT ![c] = "failed"] /\ UNCHANGED pool
  /\ UNCHANGED <<age, tx_age, open_secret_transactions, lock, callVars, transaction_result>>

(* JSONRPCClient.poll returns once the mined transaction is confirmed; a   *)
(* transaction that is not found is looked for again, last_result is only  *)
(* set once it was mined.                                                  *)
Poll(c) ==
  /\ pc[c] = "poll" /\ tx_age[c] = CONFIRMATIONS
  /\ Goto(c, "clear")
  /\ UNCHANGED <<chainVars, open_secret_transactions, lock, callVars, outcome,
                 transaction_result>>

(* The client raises while the transaction is polled: the call gives up,   *)
(* the transaction may still be mined.                                     *)
PollRaises(c) ==
  /\ pc[c] = "poll"
  /\ outcome' = [outcome EXCEPT ![c] = "failed"]
  /\ Goto(c, "clear")
  /\ UNCHANGED <<chainVars, open_secret_transactions, lock, callVars, transaction_result>>

(* The entries are removed, whatever the transaction did.                  *)
ClearOpenTransactions(c) ==
  /\ pc[c] = "clear" /\ lock = NoCall
  /\ open_secret_transactions' =
       [s \in Secrets |-> IF s \in secrets_to_register[c] THEN NoCall
                          ELSE open_secret_transactions[s]]
  /\ Goto(c, "finish")
  /\ UNCHANGED <<chainVars, lock, callVars, outcome, transaction_result>>

(* Fault: the other results are waited for before this one is set.         *)
Fault_SetResult(c) ==
  /\ pc[c] = "finish"
  /\ \A d \in wait_for[c] : transaction_result[d] # "pending"
  /\ transaction_result' =
       [transaction_result EXCEPT ![c] = IF outcome[c] = "ok" THEN "set" ELSE "exception"]
  /\ Goto(c, IF outcome[c] = "ok" THEN "waiting" ELSE "raised")
  /\ UNCHANGED <<chainVars, open_secret_transactions, lock, callVars, outcome>>

(* transaction_result.set, or set_exception and raise.                     *)
SetResult(c) ==
  /\ pc[c] = "finish"
  /\ transaction_result' =
       [transaction_result EXCEPT ![c] = IF outcome[c] = "ok" THEN "set" ELSE "exception"]
  /\ Goto(c, IF outcome[c] = "ok" THEN "waiting" ELSE "raised")
  /\ UNCHANGED <<chainVars, open_secret_transactions, lock, callVars, outcome>>

(* Fault: joinall without raise_error.                                     *)
Fault_JoinAll(c) ==
  /\ pc[c] = "waiting"
  /\ \A d \in wait_for[c] : transaction_result[d] # "pending"
  /\ Goto(c, "returned")
  /\ UNCHANGED <<chainVars, open_secret_transactions, lock, callVars, outcome,
                 transaction_result>>

(* gevent.joinall(wait_for, raise_error=True)                              *)
JoinAll(c) ==
  /\ pc[c] = "waiting"
  /\ \/ /\ \E d \in wait_for[c] : transaction_result[d] = "exception"
        /\ Goto(c, "raised")
     \/ /\ \A d \in wait_for[c] : transaction_result[d] = "set"
        /\ Goto(c, "returned")
  /\ UNCHANGED <<chainVars, open_secret_transactions, lock, callVars, outcome,
                 transaction_result>>

Step(c) ==
  \/ GetConfirmedBlockhash(c) \/ CheckSecrets(c) \/ EstimateGas(c) \/ Transact(c)
  \/ Poll(c) \/ ClearOpenTransactions(c) \/ SetResult(c) \/ JoinAll(c)

Next ==
  \/ MineBlock
  \/ DropTransaction
  \/ \E c \in Calls : Call(c) \/ Step(c) \/ PollRaises(c)

Spec == Init /\ [][Next]_vars

(* Blocks keep coming and a transaction that stays in the pool is mined; a *)
(* greenlet that can run runs, and the semaphore serves its queue in order *)
(* (strong fairness of the two steps that take it).                        *)
Fairness ==
  /\ WF_vars(NewBlock({}, {}, {}))
  /\ \A c \in Calls :
       /\ WF_vars(c \in pool /\ MineBlock /\ c \notin pool')
       /\ WF_vars(Step(c))
       /\ SF_vars(GetConfirmedBlockhash(c)) /\ SF_vars(ClearOpenTransactions(c))

FairSpec == Spec /\ Fairness

-----------------------------------------------------------------------------
(* Every variable keeps its type.                                          *)
TypeOK ==
  /\ age \in [Secrets -> NotMined .. CONFIRMATIONS]
  /\ tx_age \in [Calls -> NotMined .. CONFIRMATIONS]
  /\ pool \subseteq Calls
  /\ open_secret_transactions \in [Secrets -> Calls \cup {NoCall}]
  /\ lock \in Calls \cup {NoCall}
  /\ pc \in [Calls -> {"new", "called", "checking", "estimate", "transact", "poll",
                       "clear", "finish", "waiting", "returned", "raised"}]
  /\ secrets \in [Calls -> Batches \cup {<<>>}]
  /\ confirmed \in [Calls -> SUBSET Secrets]
  /\ secrets_to_register \in [Calls -> SUBSET Secrets]
  /\ wait_for \in [Calls -> SUBSET Calls]
  /\ outcome \in [Calls -> {"none", "ok", "failed"}]
  /\ transaction_result \in [Calls -> {"pending", "set", "exception"}]

(* "The dictionary of open transactions is used to avoid sending a         *)
(* transaction for the same secret more than once": a secret that a call   *)
(* of this node registered is never sent again, also not by a call that    *)
(* read the chain or waited for the lock while the other one finished.     *)
RegisteredOnce ==
  \A c, d \in Calls :
    (c # d /\ outcome[c] = "ok" /\ pc[d] \in {"transact", "poll"})
      => secrets_to_register[c] \cap secrets_to_register[d] = {}

(* A call that returns normally leaves every secret of its batch           *)
(* registered and confirmed on chain, whoever sent the transaction.        *)
ReturnMeansRegistered ==
  \A c \in Calls : pc[c] = "returned" =>
    \A i \in DOMAIN secrets[c] : age[secrets[c][i]] = CONFIRMATIONS

(* A call that polls a transaction which is not mined and not in the pool. *)
LostTransaction(c) == pc[c] = "poll" /\ c \notin pool /\ tx_age[c] = NotMined

(* No call waits for ever for the lock, for its transaction or for another *)
(* call, unless a transaction was dropped from the pool: its own, or that  *)
(* of a call it waits for.  "The local **MUST** transaction_result be set  *)
(* before waiting for the other results, otherwise we have a dead-lock."   *)
EndsUnlessDropped ==
  \A c \in Calls :
    (pc[c] = "called") ~> \/ pc[c] \in {"returned", "raised"}
                         \/ \E d \in wait_for[c] \cup {c} : LostTransaction(d)
=============================================================================
