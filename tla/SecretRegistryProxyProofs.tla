--------------------- MODULE SecretRegistryProxyProofs ---------------------
(***************************************************************************)
(* Proofs about SecretRegistryProxy, for any calls, batches, secrets and   *)
(* number of confirmations: its safety invariants.                         *)
(***************************************************************************)
EXTENDS SecretRegistryProxy, SequenceTheorems, TLAPS

(* Before the loop over the batch, before a transaction, and while the     *)
(* entries of open_secret_transactions are this call's.                    *)
Unchecked == {"new", "called", "checking"}
Unsent    == Unchecked \cup {"estimate", "transact"}
Opening   == {"estimate", "transact", "poll", "clear"}

(* The lock is held across the read of the chain and the loop.             *)
LockInv == \A c \in Calls : lock = c <=> pc[c] = "checking"

(* A call that has sent nothing has nothing on chain, and a transaction is *)
(* mined once.                                                             *)
FreshInv ==
  \A c \in Calls :
    /\ pc[c] \in Unchecked => secrets_to_register[c] = {}
    /\ pc[c] \in Unsent => c \notin pool /\ tx_age[c] = NotMined /\ outcome[c] = "none"
    /\ c \in pool => tx_age[c] = NotMined /\ outcome[c] # "ok"

(* The dictionary holds what the calls under way are registering.          *)
OpenInv ==
  \A c \in Calls, s \in Secrets :
    open_secret_transactions[s] = c <=> pc[c] \in Opening /\ s \in secrets_to_register[c]

(* The secrets of a transaction are as old as the transaction, and those   *)
(* that were read as confirmed stay so.                                    *)
AgeInv ==
  \A c \in Calls :
    /\ outcome[c] = "ok" => /\ tx_age[c] >= 0
                            /\ \A s \in secrets_to_register[c] : age[s] >= tx_age[c]
    /\ outcome[c] = "ok" /\ pc[c] # "poll" => tx_age[c] = CONFIRMATIONS
    /\ \A s \in confirmed[c] : age[s] = CONFIRMATIONS

(* A call that removed its entries with success is seen on chain by every  *)
(* call that takes the lock later.                                         *)
SeenInv ==
  \A c, d \in Calls :
    pc[d] = "checking" /\ outcome[c] = "ok" /\ pc[c] \notin Opening
      => secrets_to_register[c] \subseteq confirmed[d]

(* No two calls send for a secret, from the loop until the entries are     *)
(* removed.                                                                *)
ApartInv ==
  \A c, d \in Calls :
    c # d /\ outcome[c] = "ok" /\ pc[d] \in Opening
      => secrets_to_register[c] \cap secrets_to_register[d] = {}

(* A result that is set is of a transaction that succeeded, and a call     *)
(* waits for the others only after its own has.                            *)
ResultInv ==
  \A c \in Calls :
    /\ transaction_result[c] = "set" =>
         outcome[c] = "ok" /\ pc[c] \in {"waiting", "returned", "raised"}
    /\ pc[c] \in {"waiting", "returned"} /\ secrets_to_register[c] # {} => outcome[c] = "ok"

(* Every secret of the batch is taken care of.                             *)
BatchInv ==
  \A c \in Calls : pc[c] \notin Unchecked =>
    ToSet(secrets[c]) \subseteq
      confirmed[c] \cup secrets_to_register[c] \cup UNION {secrets_to_register[d] : d \in wait_for[c]}

IInv ==
  /\ TypeOK /\ LockInv /\ FreshInv /\ OpenInv /\ AgeInv /\ SeenInv /\ ApartInv
  /\ ResultInv /\ BatchInv /\ RegisteredOnce /\ ReturnMeansRegistered

-----------------------------------------------------------------------------
(* The operators of the model.                                             *)

LEMMA BatchType ==
  ASSUME TypeOK, NEW c \in Calls
  PROVE  /\ secrets[c] \in Seq(Secrets)
         /\ ToSet(secrets[c]) \subseteq Secrets
         /\ \A i \in DOMAIN secrets[c] : secrets[c][i] \in ToSet(secrets[c])
<1>1. secrets[c] \in Seq(Secrets)
  BY CallsAssumption, EmptySeq DEF TypeOK
<1> QED
  BY <1>1, ElementOfSeq, LenProperties DEF ToSet

LEMMA OlderType ==
  ASSUME NEW n \in NotMined..CONFIRMATIONS
  PROVE  /\ Older(n) \in NotMined..CONFIRMATIONS
         /\ Older(n) = NotMined <=> n = NotMined
         /\ n = CONFIRMATIONS => Older(n) = CONFIRMATIONS
         /\ \A m \in NotMined..CONFIRMATIONS : m >= 0 /\ n >= m => Older(n) >= Older(m)
BY ConfirmationsAssumption DEF Older, NotMined

(* What the loop over the batch does.                                      *)
Checked(c, send) ==
  /\ pc[c] = "checking"
  /\ send \subseteq Secrets
  /\ \A s \in send : open_secret_transactions[s] = NoCall /\ s \notin confirmed[c]
  /\ \A s \in ToSet(secrets[c]) :
       \/ s \in send \cup confirmed[c]
       \/ open_secret_transactions[s] \in wait_for'[c] \ {NoCall}
  /\ wait_for'[c] \subseteq Calls
  /\ \A d \in Calls : d # c => wait_for'[d] = wait_for[d]
  /\ wait_for' \in [Calls -> SUBSET Calls]
  /\ secrets_to_register' = [secrets_to_register EXCEPT ![c] = send]
  /\ open_secret_transactions' =
       [s \in Secrets |-> IF s \in send THEN c ELSE open_secret_transactions[s]]
  /\ lock' = NoCall
  /\ \/ send = {} /\ pc' = [pc EXCEPT ![c] = "waiting"]
     \/ send # {} /\ pc' = [pc EXCEPT ![c] = "estimate"]
  /\ UNCHANGED <<age, tx_age, pool, secrets, confirmed, outcome, transaction_result>>

LEMMA CheckedCase ==
  ASSUME TypeOK, NEW c \in Calls, CheckSecrets(c)
  PROVE  \E send : Checked(c, send)
<1> DEFINE batch == ToSet(secrets[c])
           open == {s \in batch : open_secret_transactions[s] # NoCall}
           send == batch \ (open \cup confirmed[c])
           own == {s \in send : Cardinality({i \in DOMAIN secrets[c] : secrets[c][i] = s}) > 1}
           others == {open_secret_transactions[s] : s \in open}
           mine == {c : s \in own}
<1>1. /\ wait_for' = [wait_for EXCEPT ![c] = others \cup mine]
      /\ secrets_to_register' = [secrets_to_register EXCEPT ![c] = send]
      /\ open_secret_transactions' =
           [s \in Secrets |-> IF s \in send THEN c ELSE open_secret_transactions[s]]
      /\ lock' = NoCall
      /\ pc' = [pc EXCEPT ![c] = IF send = {} THEN "waiting" ELSE "estimate"]
      /\ pc[c] = "checking"
      /\ UNCHANGED <<age, tx_age, pool, secrets, confirmed, outcome, transaction_result>>
  BY DEF CheckSecrets, Goto, chainVars
<1>2. batch \subseteq Secrets
  BY BatchType
<1>3. mine \subseteq {c}
  OBVIOUS
<1> HIDE DEF own, mine, batch
<1>4. others \subseteq Calls
  BY <1>2 DEF TypeOK
<1>5. \A s \in batch : s \in send \cup confirmed[c] \/ open_secret_transactions[s] \in others \ {NoCall}
  OBVIOUS
<1>6. /\ \A s \in send : open_secret_transactions[s] = NoCall /\ s \notin confirmed[c]
      /\ send \subseteq Secrets
  BY <1>2
<1> HIDE DEF others, send
<1>7. /\ wait_for'[c] = others \cup mine
      /\ wait_for' \in [Calls -> SUBSET Calls]
      /\ \A d \in Calls : d # c => wait_for'[d] = wait_for[d]
  BY <1>1, <1>3, <1>4 DEF TypeOK
<1>8. \A s \in ToSet(secrets[c]) :
        s \in send \cup confirmed[c] \/ open_secret_transactions[s] \in wait_for'[c] \ {NoCall}
  BY <1>5, <1>7 DEF batch
<1>9. Checked(c, send)
  BY <1>1, <1>6, <1>7, <1>8 DEF Checked
<1> QED
  BY <1>9

(* The actions, with the effect of the loop and the parameters of a block. *)
LEMMA NextCases ==
  ASSUME TypeOK, [Next]_vars
  PROVE  \/ UNCHANGED vars
         \/ \E mined \in SUBSET pool : \E failing, others : NewBlock(mined, failing, others)
         \/ DropTransaction
         \/ \E c \in Calls : Call(c)
         \/ \E c \in Calls : GetConfirmedBlockhash(c)
         \/ \E c \in Calls, send \in SUBSET Secrets : Checked(c, send)
         \/ \E c \in Calls : EstimateGas(c)
         \/ \E c \in Calls : Transact(c)
         \/ \E c \in Calls : Poll(c)
         \/ \E c \in Calls : PollRaises(c)
         \/ \E c \in Calls : ClearOpenTransactions(c)
         \/ \E c \in Calls : SetResult(c)
         \/ \E c \in Calls : JoinAll(c)
<1>1. \A c \in Calls : \A send : Checked(c, send) => send \in SUBSET Secrets
  BY DEF Checked
<1> QED
  BY <1>1, CheckedCase DEF Next, Step, MineBlock

-----------------------------------------------------------------------------
(* The inductive invariant.                                                *)

LEMMA InitIInv == Init => IInv
<1> SUFFICES ASSUME Init
             PROVE  IInv
  OBVIOUS
<1> USE DEF Init
<1>1. NoCall \notin Calls /\ CONFIRMATIONS \in Nat /\ NotMined \in NotMined..CONFIRMATIONS
  BY CallsAssumption, ConfirmationsAssumption DEF NotMined
<1>2. TypeOK
  BY <1>1 DEF TypeOK
<1>3. LockInv /\ FreshInv /\ OpenInv
  BY <1>1 DEF LockInv, FreshInv, OpenInv, Unchecked, Unsent, Opening
<1>4. AgeInv /\ SeenInv /\ ApartInv
  BY DEF AgeInv, SeenInv, ApartInv
<1>5. ResultInv /\ BatchInv
  BY DEF ResultInv, BatchInv, Unchecked
<1>6. RegisteredOnce /\ ReturnMeansRegistered
  BY DEF RegisteredOnce, ReturnMeansRegistered
<1> QED
  BY <1>2, <1>3, <1>4, <1>5, <1>6 DEF IInv

(* The next label of a call, and what else the steps between two labels do.*)
Moves(c, from, to) ==
  /\ pc[c] = from /\ pc' = [pc EXCEPT ![c] = to]
  /\ UNCHANGED <<age, tx_age, secrets, secrets_to_register, wait_for>>

(* The steps that only move a call and set its outcome or its result.      *)
LEMMA MovesCase ==
  ASSUME TypeOK, NEW c \in Calls,
         EstimateGas(c) \/ Transact(c) \/ Poll(c) \/ PollRaises(c) \/ SetResult(c) \/ JoinAll(c)
  PROVE  /\ UNCHANGED <<open_secret_transactions, lock, confirmed>>
         /\ \/ /\ Moves(c, "estimate", "transact")
               /\ UNCHANGED <<pool, outcome, transaction_result>>
            \/ /\ Moves(c, "transact", "poll")
               /\ pool' = pool \cup {c} /\ UNCHANGED <<outcome, transaction_result>>
            \/ /\ \E from \in {"estimate", "transact", "poll"} : Moves(c, from, "clear")
               /\ outcome' = [outcome EXCEPT ![c] = "failed"]
               /\ UNCHANGED <<pool, transaction_result>>
            \/ /\ Moves(c, "poll", "clear") /\ tx_age[c] = CONFIRMATIONS
               /\ UNCHANGED <<pool, outcome, transaction_result>>
            \/ /\ Moves(c, "finish", "waiting") /\ outcome[c] = "ok"
               /\ transaction_result' = [transaction_result EXCEPT ![c] = "set"]
               /\ UNCHANGED <<pool, outcome>>
            \/ /\ Moves(c, "finish", "raised")
               /\ transaction_result' = [transaction_result EXCEPT ![c] = "exception"]
               /\ UNCHANGED <<pool, outcome>>
            \/ /\ Moves(c, "waiting", "raised")
               /\ UNCHANGED <<pool, outcome, transaction_result>>
            \/ /\ Moves(c, "waiting", "returned")
               /\ \A d \in wait_for[c] : transaction_result[d] = "set"
               /\ UNCHANGED <<pool, outcome, transaction_result>>
<1>1. CASE EstimateGas(c)
  BY <1>1 DEF EstimateGas, Goto, Moves, chainVars, callVars
<1>2. CASE Transact(c)
  BY <1>2 DEF Transact, Goto, Moves, callVars
<1>3. CASE Poll(c)
  BY <1>3 DEF Poll, Goto, Moves, chainVars, callVars
<1>4. CASE PollRaises(c)
  BY <1>4 DEF PollRaises, Goto, Moves, chainVars, callVars
<1>5. CASE SetResult(c)
  BY <1>5 DEF SetResult, Goto, Moves, chainVars, callVars
<1>6. CASE JoinAll(c)
  BY <1>6 DEF JoinAll, Goto, Moves, chainVars, callVars
<1> QED
  BY <1>1, <1>2, <1>3, <1>4, <1>5, <1>6

LEMMA TypeStep == TypeOK /\ [Next]_vars => TypeOK'
<1> SUFFICES ASSUME TypeOK, [Next]_vars
             PROVE  TypeOK'
  OBVIOUS
<1>1. CASE UNCHANGED vars
  BY <1>1 DEF TypeOK, vars
<1>2. ASSUME NEW mined \in SUBSET pool, NEW failing, NEW others, NewBlock(mined, failing, others)
      PROVE  TypeOK'
  <2>1. 0 \in NotMined..CONFIRMATIONS /\ NotMined \in NotMined..CONFIRMATIONS
    BY ConfirmationsAssumption DEF NotMined
  <2>2. tx_age' \in [Calls -> NotMined..CONFIRMATIONS]
    BY <1>2, <2>1, OlderType DEF NewBlock, TypeOK
  <2>3. age' \in [Secrets -> NotMined..CONFIRMATIONS]
    BY <1>2, <2>1, OlderType DEF NewBlock, TypeOK
  <2>4. outcome' \in [Calls -> {"none", "ok", "failed"}] /\ pool' \subseteq Calls
    BY <1>2 DEF NewBlock, TypeOK
  <2>5. UNCHANGED <<open_secret_transactions, lock, pc, secrets, confirmed,
                    secrets_to_register, wait_for, transaction_result>>
    BY <1>2 DEF NewBlock, callVars
  <2> QED
    BY <2>2, <2>3, <2>4, <2>5 DEF TypeOK
<1>3. CASE DropTransaction
  BY <1>3 DEF TypeOK, DropTransaction, callVars
<1>4. ASSUME NEW c \in Calls, Call(c)
      PROVE  TypeOK'
  BY <1>4 DEF TypeOK, Call, Goto, chainVars
<1>5. ASSUME NEW c \in Calls, GetConfirmedBlockhash(c)
      PROVE  TypeOK'
  BY <1>5 DEF TypeOK, GetConfirmedBlockhash, Goto, chainVars
<1>6. ASSUME NEW c \in Calls, NEW send \in SUBSET Secrets, Checked(c, send)
      PROVE  TypeOK'
  BY <1>6 DEF TypeOK, Checked
<1>7. ASSUME NEW c \in Calls, ClearOpenTransactions(c)
      PROVE  TypeOK'
  BY <1>7 DEF TypeOK, ClearOpenTransactions, Goto, chainVars, callVars
<1>8. ASSUME NEW c \in Calls,
             EstimateGas(c) \/ Transact(c) \/ Poll(c) \/ PollRaises(c) \/ SetResult(c) \/ JoinAll(c)
      PROVE  TypeOK'
  <2>1. /\ \E to \in {"transact", "poll", "clear", "waiting", "returned", "raised"} :
             pc' = [pc EXCEPT ![c] = to]
        /\ UNCHANGED <<age, tx_age, secrets, secrets_to_register, wait_for,
                       open_secret_transactions, lock, confirmed>>
        /\ outcome' = outcome \/ outcome' = [outcome EXCEPT ![c] = "failed"]
        /\ pool' = pool \/ pool' = pool \cup {c}
        /\ \/ UNCHANGED transaction_result
           \/ transaction_result' = [transaction_result EXCEPT ![c] = "set"]
           \/ transaction_result' = [transaction_result EXCEPT ![c] = "exception"]
    BY <1>8, MovesCase DEF Moves
  <2>2. pc' \in [Calls -> {"new", "called", "checking", "estimate", "transact", "poll",
                           "clear", "finish", "waiting", "returned", "raised"}]
    BY <2>1 DEF TypeOK
  <2>3. outcome' \in [Calls -> {"none", "ok", "failed"}] /\ pool' \subseteq Calls
    BY <2>1 DEF TypeOK
  <2>4. transaction_result' \in [Calls -> {"pending", "set", "exception"}]
    BY <2>1 DEF TypeOK
  <2> QED
    BY <2>1, <2>2, <2>3, <2>4 DEF TypeOK
<1> QED
  BY <1>1, <1>2, <1>3, <1>4, <1>5, <1>6, <1>7, <1>8, NextCases

LEMMA LockStep == IInv /\ [Next]_vars => LockInv'
<1> SUFFICES ASSUME IInv, [Next]_vars
             PROVE  LockInv'
  OBVIOUS
<1>1. TypeOK /\ LockInv /\ NoCall \notin Calls
  BY CallsAssumption DEF IInv
<1> USE DEF LockInv
<1>2. CASE UNCHANGED vars
  BY <1>1, <1>2 DEF vars
<1>3. ASSUME NEW mined, NEW failing, NEW others, NewBlock(mined, failing, others)
      PROVE  LockInv'
  BY <1>1, <1>3 DEF NewBlock
<1>4. CASE DropTransaction
  BY <1>1, <1>4 DEF DropTransaction
<1>5. ASSUME NEW c \in Calls, Call(c)
      PROVE  LockInv'
  BY <1>1, <1>5 DEF Call, Goto, TypeOK
<1>6. ASSUME NEW c \in Calls, GetConfirmedBlockhash(c)
      PROVE  LockInv'
  BY <1>1, <1>6 DEF GetConfirmedBlockhash, Goto, TypeOK
<1>7. ASSUME NEW c \in Calls, NEW send, Checked(c, send)
      PROVE  LockInv'
  BY <1>1, <1>7 DEF Checked, TypeOK
<1>8. ASSUME NEW c \in Calls, ClearOpenTransactions(c)
      PROVE  LockInv'
  BY <1>1, <1>8 DEF ClearOpenTransactions, Goto, TypeOK
<1>9. ASSUME NEW c \in Calls,
             EstimateGas(c) \/ Transact(c) \/ Poll(c) \/ PollRaises(c) \/ SetResult(c) \/ JoinAll(c)
      PROVE  LockInv'
  <2>1. /\ UNCHANGED lock /\ pc[c] # "checking"
        /\ \E to : to # "checking" /\ pc' = [pc EXCEPT ![c] = to]
    BY <1>1, <1>9, MovesCase DEF Moves
  <2> QED
    BY <1>1, <2>1 DEF TypeOK
<1> QED
  BY <1>1, <1>2, <1>3, <1>4, <1>5, <1>6, <1>7, <1>8, <1>9, NextCases

LEMMA FreshStep == IInv /\ [Next]_vars => FreshInv'
<1> SUFFICES ASSUME IInv, [Next]_vars, NEW d \in Calls
             PROVE  /\ pc'[d] \in Unchecked => secrets_to_register'[d] = {}
                    /\ pc'[d] \in Unsent =>
                         d \notin pool' /\ tx_age'[d] = NotMined /\ outcome'[d] = "none"
                    /\ d \in pool' => tx_age'[d] = NotMined /\ outcome'[d] # "ok"
  BY DEF FreshInv
<1> DEFINE Goal == /\ pc'[d] \in Unchecked => secrets_to_register'[d] = {}
                   /\ pc'[d] \in Unsent =>
                        d \notin pool' /\ tx_age'[d] = NotMined /\ outcome'[d] = "none"
                   /\ d \in pool' => tx_age'[d] = NotMined /\ outcome'[d] # "ok"
<1>1. /\ TypeOK
      /\ pc[d] \in Unchecked => secrets_to_register[d] = {}
      /\ pc[d] \in Unsent => d \notin pool /\ tx_age[d] = NotMined /\ outcome[d] = "none"
      /\ d \in pool => tx_age[d] = NotMined /\ outcome[d] # "ok"
  BY DEF IInv, FreshInv
<1>2. CASE UNCHANGED vars
  BY <1>1, <1>2 DEF vars
<1>3. ASSUME NEW mined \in SUBSET pool, NEW failing, NEW others, NewBlock(mined, failing, others)
      PROVE  Goal
  <2>1. /\ pool' = pool \ mined /\ UNCHANGED <<pc, secrets_to_register>>
        /\ tx_age'[d] = IF d \in mined THEN 0 ELSE Older(tx_age[d])
        /\ d \notin mined => outcome'[d] = outcome[d]
    BY <1>3 DEF NewBlock, callVars
  <2>2. Older(NotMined) = NotMined
    BY DEF Older
  <2> QED
    BY <1>1, <2>1, <2>2
<1>4. CASE DropTransaction
  BY <1>1, <1>4 DEF DropTransaction, callVars
<1>5. ASSUME NEW c \in Calls, Call(c)
      PROVE  Goal
  BY <1>1, <1>5 DEF Call, Goto, TypeOK, chainVars, Unchecked, Unsent
<1>6. ASSUME NEW c \in Calls, GetConfirmedBlockhash(c)
      PROVE  Goal
  BY <1>1, <1>6 DEF GetConfirmedBlockhash, Goto, TypeOK, chainVars, Unchecked, Unsent
<1>7. ASSUME NEW c \in Calls, NEW send, Checked(c, send)
      PROVE  Goal
  BY <1>1, <1>7 DEF Checked, TypeOK, Unchecked, Unsent
<1>8. ASSUME NEW c \in Calls, ClearOpenTransactions(c)
      PROVE  Goal
  BY <1>1, <1>8 DEF ClearOpenTransactions, Goto, TypeOK, chainVars, callVars, Unchecked, Unsent
<1>9. ASSUME NEW c \in Calls,
             EstimateGas(c) \/ Transact(c) \/ Poll(c) \/ PollRaises(c) \/ SetResult(c) \/ JoinAll(c)
      PROVE  Goal
  <2>1. /\ UNCHANGED <<tx_age, secrets_to_register>> /\ pc[c] \notin Unchecked
        /\ \/ pc' = [pc EXCEPT ![c] = "transact"] /\ UNCHANGED <<pool, outcome>>
              /\ pc[c] = "estimate"
           \/ /\ pc' = [pc EXCEPT ![c] = "poll"] /\ pool' = pool \cup {c}
              /\ pc[c] = "transact" /\ UNCHANGED outcome
           \/ /\ \E to : to \notin Unsent /\ pc' = [pc EXCEPT ![c] = to]
              /\ UNCHANGED pool
              /\ outcome' = outcome \/ outcome' = [outcome EXCEPT ![c] = "failed"]
    BY <1>1, <1>9, MovesCase DEF Moves, Unchecked, Unsent
  <2> QED
    BY <1>1, <2>1 DEF TypeOK, Unsent, Unchecked
<1> QED
  BY <1>1, <1>2, <1>3, <1>4, <1>5, <1>6, <1>7, <1>8, <1>9, NextCases

LEMMA OpenStep == IInv /\ [Next]_vars => OpenInv'
<1> SUFFICES ASSUME IInv, [Next]_vars, NEW d \in Calls, NEW s \in Secrets
             PROVE  open_secret_transactions'[s] = d
                      <=> pc'[d] \in Opening /\ s \in secrets_to_register'[d]
  BY DEF OpenInv
<1> DEFINE Goal == open_secret_transactions'[s] = d
                     <=> pc'[d] \in Opening /\ s \in secrets_to_register'[d]
<1>1. /\ TypeOK /\ NoCall \notin Calls
      /\ \A c \in Calls : open_secret_transactions[s] = c
                            <=> pc[c] \in Opening /\ s \in secrets_to_register[c]
      /\ \A c \in Calls : pc[c] \in Unchecked => secrets_to_register[c] = {}
  BY CallsAssumption DEF IInv, OpenInv, FreshInv
<1>2. CASE UNCHANGED vars
  BY <1>1, <1>2 DEF vars
<1>3. ASSUME NEW mined, NEW failing, NEW others, NewBlock(mined, failing, others)
      PROVE  Goal
  BY <1>1, <1>3 DEF NewBlock, callVars
<1>4. CASE DropTransaction
  BY <1>1, <1>4 DEF DropTransaction, callVars
<1>5. ASSUME NEW c \in Calls, Call(c)
      PROVE  Goal
  BY <1>1, <1>5 DEF Call, Goto, TypeOK, Unchecked, Opening
<1>6. ASSUME NEW c \in Calls, GetConfirmedBlockhash(c)
      PROVE  Goal
  BY <1>1, <1>6 DEF GetConfirmedBlockhash, Goto, TypeOK, Unchecked, Opening
<1>7. ASSUME NEW c \in Calls, NEW send \in SUBSET Secrets, Checked(c, send)
      PROVE  Goal
  <2>1. /\ pc[c] = "checking"
        /\ s \in send => open_secret_transactions[s] = NoCall
        /\ open_secret_transactions'[s] = IF s \in send THEN c ELSE open_secret_transactions[s]
        /\ secrets_to_register' = [secrets_to_register EXCEPT ![c] = send]
        /\ \/ send = {} /\ pc' = [pc EXCEPT ![c] = "waiting"]
           \/ send # {} /\ pc' = [pc EXCEPT ![c] = "estimate"]
    BY <1>7 DEF Checked
  <2>2. CASE d = c
    BY <1>1, <2>1, <2>2 DEF TypeOK, Unchecked, Opening
  <2>3. CASE d # c
    BY <1>1, <2>1, <2>3 DEF TypeOK
  <2> QED
    BY <2>2, <2>3
<1>8. ASSUME NEW c \in Calls, ClearOpenTransactions(c)
      PROVE  Goal
  <2>1. /\ pc[c] = "clear" /\ pc' = [pc EXCEPT ![c] = "finish"]
        /\ open_secret_transactions'[s] =
             IF s \in secrets_to_register[c] THEN NoCall ELSE open_secret_transactions[s]
        /\ UNCHANGED secrets_to_register
    BY <1>8 DEF ClearOpenTransactions, Goto, callVars
  <2>2. s \in secrets_to_register[c] => open_secret_transactions[s] = c
    BY <1>1, <2>1 DEF Opening
  <2> QED
    BY <1>1, <2>1, <2>2 DEF TypeOK, Opening
<1>9. ASSUME NEW c \in Calls,
             EstimateGas(c) \/ Transact(c) \/ Poll(c) \/ PollRaises(c) \/ SetResult(c) \/ JoinAll(c)
      PROVE  Goal
  <2>1. /\ UNCHANGED <<open_secret_transactions, secrets_to_register>>
        /\ \E to : /\ pc' = [pc EXCEPT ![c] = to]
                   /\ to \in Opening <=> pc[c] \in Opening
    BY <1>1, <1>9, MovesCase, SMTT(30) DEF Moves, Opening
  <2> QED
    BY <1>1, <2>1 DEF TypeOK
<1> QED
  BY <1>1, <1>2, <1>3, <1>4, <1>5, <1>6, <1>7, <1>8, <1>9, NextCases

-----------------------------------------------------------------------------
(* The chain.                                                              *)

(* A block makes every secret older, and the transactions it mines.        *)
LEMMA BlockAges ==
  ASSUME TypeOK, FreshInv, NEW mined \in SUBSET pool, NEW failing, NEW others,
         NewBlock(mined, failing, others)
  PROVE  /\ UNCHANGED <<open_secret_transactions, lock, pc, secrets, confirmed,
                        secrets_to_register, wait_for, transaction_result>>
         /\ \A s \in Secrets : age[s] = CONFIRMATIONS => age'[s] = CONFIRMATIONS
         /\ \A d \in Calls : outcome[d] = "ok" =>
              /\ outcome'[d] = "ok" /\ tx_age'[d] = Older(tx_age[d])
              /\ tx_age[d] >= 0 => \A s \in Secrets : age[s] >= tx_age[d] => age'[s] >= tx_age'[d]
         /\ \A d \in Calls : outcome'[d] = "ok" /\ outcome[d] # "ok" =>
              /\ pc[d] = "poll" /\ tx_age'[d] = 0
              /\ \A s \in secrets_to_register[d] : age'[s] >= 0
<1>1. UNCHANGED <<open_secret_transactions, lock, pc, secrets, confirmed,
                  secrets_to_register, wait_for, transaction_result>>
  BY DEF NewBlock, callVars
<1>2. CONFIRMATIONS \in Nat /\ NotMined = -1
  BY ConfirmationsAssumption DEF NotMined
<1>3. \A s \in Secrets : age[s] \in NotMined..CONFIRMATIONS
  BY DEF TypeOK
<1>4. \A s \in Secrets : age[s] # NotMined => age'[s] = Older(age[s])
  BY DEF NewBlock
<1>5. ASSUME NEW s \in Secrets, age[s] = CONFIRMATIONS
      PROVE  age'[s] = CONFIRMATIONS
  BY <1>2, <1>3, <1>4, <1>5, OlderType
<1>6. ASSUME NEW d \in Calls, outcome[d] = "ok"
      PROVE  outcome'[d] = "ok" /\ tx_age'[d] = Older(tx_age[d])
  <2>1. d \notin mined
    BY <1>6 DEF FreshInv
  <2> QED
    BY <1>6, <2>1 DEF NewBlock
<1>7. ASSUME NEW d \in Calls, outcome[d] = "ok", tx_age[d] >= 0,
             NEW s \in Secrets, age[s] >= tx_age[d]
      PROVE  age'[s] >= tx_age'[d]
  <2>1. tx_age[d] \in NotMined..CONFIRMATIONS
    BY DEF TypeOK
  <2>2. age[s] # NotMined
    BY <1>2, <1>3, <1>7, <2>1
  <2>3. Older(age[s]) >= Older(tx_age[d])
    BY <1>3, <1>7, <2>1, OlderType
  <2> QED
    BY <1>4, <1>6, <1>7, <2>2, <2>3
<1>8. ASSUME NEW d \in Calls, outcome'[d] = "ok", outcome[d] # "ok"
      PROVE  /\ pc[d] = "poll" /\ tx_age'[d] = 0
             /\ \A s \in secrets_to_register[d] : age'[s] >= 0
  <2>1. d \in mined /\ pc[d] = "poll" /\ d \notin failing
    BY <1>8 DEF NewBlock
  <2>2. tx_age'[d] = 0
    BY <2>1 DEF NewBlock
  <2>3. ASSUME NEW s \in secrets_to_register[d]
        PROVE  age'[s] >= 0
    <3>1. s \in Secrets
      BY DEF TypeOK
    <3>2. s \in UNION {secrets_to_register[c] : c \in mined \ failing}
      BY <2>1
    <3>3. CASE age[s] = NotMined
      <4>1. age'[s] = 0
        BY <3>1, <3>2, <3>3 DEF NewBlock
      <4> QED
        BY <4>1
    <3>4. CASE age[s] # NotMined
      <4>1. Older(age[s]) \in NotMined..CONFIRMATIONS /\ Older(age[s]) # NotMined
        BY <1>3, <3>1, <3>4, OlderType
      <4> QED
        BY <1>2, <1>4, <3>1, <3>4, <4>1
    <3> QED
      BY <3>3, <3>4
  <2> QED
    BY <2>1, <2>2, <2>3
<1> QED
  BY <1>1, <1>5, <1>6, <1>7, <1>8

(* What the other steps leave alone: a call that succeeded stays so until  *)
(* it stops polling, and nothing becomes a success.                        *)
LEMMA OutcomeKept ==
  ASSUME TypeOK, FreshInv, [Next]_vars, NEW d \in Calls,
         \A mined \in SUBSET pool : \A failing, others : ~ NewBlock(mined, failing, others)
  PROVE  /\ UNCHANGED <<age, tx_age>>
         /\ outcome'[d] = "ok" =>
              /\ outcome[d] = "ok" /\ secrets_to_register'[d] = secrets_to_register[d]
              /\ pc'[d] = "poll" => pc[d] = "poll"
              /\ pc'[d] # "poll" => pc[d] # "poll" \/ tx_age[d] = CONFIRMATIONS
<1> DEFINE Goal == /\ UNCHANGED <<age, tx_age>>
                   /\ outcome'[d] = "ok" =>
                        /\ outcome[d] = "ok" /\ secrets_to_register'[d] = secrets_to_register[d]
                        /\ pc'[d] = "poll" => pc[d] = "poll"
                        /\ pc'[d] # "poll" => pc[d] # "poll" \/ tx_age[d] = CONFIRMATIONS
<1>1. pc[d] \in Unsent => outcome[d] = "none"
  BY DEF FreshInv
<1>2. CASE UNCHANGED vars
  BY <1>2 DEF vars
<1>3. CASE DropTransaction
  BY <1>3 DEF DropTransaction, callVars
<1>4. ASSUME NEW c \in Calls, Call(c)
      PROVE  Goal
  BY <1>1, <1>4 DEF Call, Goto, chainVars, Unsent, Unchecked, TypeOK
<1>5. ASSUME NEW c \in Calls, GetConfirmedBlockhash(c)
      PROVE  Goal
  BY <1>1, <1>5 DEF GetConfirmedBlockhash, Goto, chainVars, Unsent, Unchecked, TypeOK
<1>6. ASSUME NEW c \in Calls, NEW send \in SUBSET Secrets, Checked(c, send)
      PROVE  Goal
  BY <1>1, <1>6 DEF Checked, Unsent, Unchecked, TypeOK
<1>7. ASSUME NEW c \in Calls, ClearOpenTransactions(c)
      PROVE  Goal
  BY <1>7 DEF ClearOpenTransactions, Goto, chainVars, callVars, TypeOK
<1>8. ASSUME NEW c \in Calls,
             EstimateGas(c) \/ Transact(c) \/ Poll(c) \/ PollRaises(c) \/ SetResult(c) \/ JoinAll(c)
      PROVE  Goal
  <2>1. /\ UNCHANGED <<age, tx_age, secrets_to_register>>
        /\ \/ /\ UNCHANGED outcome
              /\ \E to : /\ pc' = [pc EXCEPT ![c] = to]
                         /\ to # "poll" \/ pc[c] \in Unsent
                         /\ pc[c] # "poll" \/ tx_age[c] = CONFIRMATIONS
           \/ /\ outcome' = [outcome EXCEPT ![c] = "failed"]
              /\ pc' = [pc EXCEPT ![c] = "clear"]
    BY <1>8, MovesCase DEF Moves, Unsent
  <2> QED
    BY <1>1, <2>1 DEF TypeOK
<1> QED
  BY <1>2, <1>3, <1>4, <1>5, <1>6, <1>7, <1>8, NextCases

(* What is read as confirmed is confirmed.                                 *)
LEMMA ConfirmedKept ==
  ASSUME TypeOK, [Next]_vars, NEW d \in Calls
  PROVE  \/ confirmed'[d] = confirmed[d]
         \/ GetConfirmedBlockhash(d) /\ confirmed'[d] = {s \in Secrets : age[s] = CONFIRMATIONS}
<1>1. UNCHANGED vars \/ DropTransaction => UNCHANGED confirmed
  BY DEF vars, DropTransaction, callVars
<1>2. \A mined, failing, others : NewBlock(mined, failing, others) => UNCHANGED confirmed
  BY DEF NewBlock, callVars
<1>3. \A c \in Calls : Call(c) \/ ClearOpenTransactions(c) => UNCHANGED confirmed
  BY DEF Call, ClearOpenTransactions, callVars
<1>4. \A c \in Calls : \A send : Checked(c, send) => UNCHANGED confirmed
  BY DEF Checked
<1>5. \A c \in Calls : EstimateGas(c) \/ Transact(c) \/ Poll(c) \/ PollRaises(c) \/ SetResult(c)
                         \/ JoinAll(c) => UNCHANGED confirmed
  BY MovesCase
<1>6. ASSUME NEW c \in Calls, GetConfirmedBlockhash(c)
      PROVE  \/ confirmed'[d] = confirmed[d]
             \/ /\ GetConfirmedBlockhash(d)
                /\ confirmed'[d] = {s \in Secrets : age[s] = CONFIRMATIONS}
  BY <1>6 DEF GetConfirmedBlockhash, TypeOK
<1> QED
  BY <1>1, <1>2, <1>3, <1>4, <1>5, <1>6, NextCases

LEMMA AgeStep == IInv /\ [Next]_vars => AgeInv'
<1> SUFFICES ASSUME IInv, [Next]_vars, NEW d \in Calls
             PROVE  /\ outcome'[d] = "ok" =>
                         /\ tx_age'[d] >= 0
                         /\ \A s \in secrets_to_register'[d] : age'[s] >= tx_age'[d]
                    /\ outcome'[d] = "ok" /\ pc'[d] # "poll" => tx_age'[d] = CONFIRMATIONS
                    /\ \A s \in confirmed'[d] : age'[s] = CONFIRMATIONS
  BY DEF AgeInv
<1> DEFINE Goal == /\ outcome'[d] = "ok" =>
                         /\ tx_age'[d] >= 0
                         /\ \A s \in secrets_to_register'[d] : age'[s] >= tx_age'[d]
                   /\ outcome'[d] = "ok" /\ pc'[d] # "poll" => tx_age'[d] = CONFIRMATIONS
<1>1. TypeOK /\ FreshInv
  BY DEF IInv
<1>2. /\ outcome[d] = "ok" => /\ tx_age[d] >= 0
                              /\ \A s \in secrets_to_register[d] : age[s] >= tx_age[d]
      /\ outcome[d] = "ok" /\ pc[d] # "poll" => tx_age[d] = CONFIRMATIONS
      /\ \A s \in confirmed[d] : age[s] = CONFIRMATIONS
  BY DEF IInv, AgeInv
<1>3. secrets_to_register[d] \subseteq Secrets /\ confirmed[d] \subseteq Secrets
      /\ tx_age[d] \in NotMined..CONFIRMATIONS
  BY <1>1 DEF TypeOK
<1>4. ASSUME NEW mined \in SUBSET pool, NEW failing, NEW others, NewBlock(mined, failing, others)
      PROVE  Goal /\ \A s \in Secrets : age[s] = CONFIRMATIONS => age'[s] = CONFIRMATIONS
  <2>1. UNCHANGED <<pc, secrets_to_register>>
    BY <1>1, <1>4, BlockAges
  <2>2. \A s \in Secrets : age[s] = CONFIRMATIONS => age'[s] = CONFIRMATIONS
    BY <1>1, <1>4, BlockAges
  <2>3. CASE outcome[d] = "ok"
    <3>1. /\ tx_age'[d] = Older(tx_age[d])
          /\ \A s \in Secrets : age[s] >= tx_age[d] => age'[s] >= tx_age'[d]
      BY <1>1, <1>2, <1>4, <2>3, BlockAges
    <3>2. tx_age'[d] >= 0 /\ (tx_age[d] = CONFIRMATIONS => tx_age'[d] = CONFIRMATIONS)
      BY <1>2, <1>3, <2>3, <3>1, ConfirmationsAssumption, OlderType DEF NotMined
    <3> QED
      BY <1>2, <1>3, <2>1, <2>2, <2>3, <3>1, <3>2
  <2>4. CASE outcome[d] # "ok"
    <3>1. outcome'[d] = "ok" => /\ pc[d] = "poll" /\ tx_age'[d] = 0
                                /\ \A s \in secrets_to_register[d] : age'[s] >= 0
      BY <1>1, <1>4, <2>4, BlockAges
    <3> QED
      BY <2>1, <2>2, <3>1
  <2> QED
    BY <2>3, <2>4
<1>5. ASSUME \A mined \in SUBSET pool : \A failing, others : ~ NewBlock(mined, failing, others)
      PROVE  Goal /\ UNCHANGED <<age, tx_age>>
  BY <1>1, <1>2, <1>5, OutcomeKept
<1>6. \A s \in Secrets : age[s] = CONFIRMATIONS => age'[s] = CONFIRMATIONS
  BY <1>4, <1>5
<1>7. Goal
  BY <1>4, <1>5
<1>8. \A s \in confirmed'[d] : age'[s] = CONFIRMATIONS
  BY <1>1, <1>2, <1>3, <1>6, ConfirmedKept
<1> QED
  BY <1>7, <1>8

-----------------------------------------------------------------------------
(* The calls.                                                              *)

(* The steps at which a call changes hands.                                *)
LEMMA Labels ==
  ASSUME TypeOK, [Next]_vars, NEW d \in Calls
  PROVE  /\ pc'[d] = "checking" => pc[d] = "checking" \/ GetConfirmedBlockhash(d)
         /\ pc[d] \in Opening => pc'[d] \in Opening \/ ClearOpenTransactions(d)
         /\ \/ \E send \in SUBSET Secrets : Checked(d, send)
            \/ /\ pc'[d] \in Opening => pc[d] \in Opening
               /\ pc'[d] \in Unchecked <=> pc[d] \in Unchecked
               /\ secrets_to_register'[d] = secrets_to_register[d]
               /\ wait_for'[d] = wait_for[d]
         /\ secrets'[d] = secrets[d] \/ pc'[d] = "called"
<1> USE DEF Opening, Unchecked
<1> DEFINE Kept == /\ UNCHANGED <<secrets_to_register, wait_for>>
                   /\ secrets'[d] = secrets[d] \/ pc'[d] = "called"
                   /\ pc'[d] = "checking" => pc[d] = "checking" \/ GetConfirmedBlockhash(d)
                   /\ pc[d] \in Opening => pc'[d] \in Opening \/ ClearOpenTransactions(d)
                   /\ pc'[d] \in Opening => pc[d] \in Opening
                   /\ pc'[d] \in Unchecked <=> pc[d] \in Unchecked
<1>1. CASE UNCHANGED vars
  BY <1>1 DEF vars
<1>2. ASSUME NEW mined, NEW failing, NEW others, NewBlock(mined, failing, others)
      PROVE  Kept
  BY <1>2 DEF NewBlock, callVars
<1>3. CASE DropTransaction
  BY <1>3 DEF DropTransaction, callVars
<1>4. ASSUME NEW c \in Calls, Call(c)
      PROVE  Kept
  <2>1. /\ UNCHANGED <<secrets_to_register, wait_for>> /\ pc[c] = "new"
        /\ pc' = [pc EXCEPT ![c] = "called"]
        /\ \E batch : secrets' = [secrets EXCEPT ![c] = batch]
    BY <1>4 DEF Call, Goto
  <2> QED
    BY <2>1 DEF TypeOK
<1>5. ASSUME NEW c \in Calls, GetConfirmedBlockhash(c)
      PROVE  Kept
  <2>1. /\ UNCHANGED <<secrets_to_register, wait_for, secrets>> /\ pc[c] = "called"
        /\ pc' = [pc EXCEPT ![c] = "checking"]
    BY <1>5 DEF GetConfirmedBlockhash, Goto
  <2> QED
    BY <1>5, <2>1 DEF TypeOK
<1>6. ASSUME NEW c \in Calls, NEW send \in SUBSET Secrets, Checked(c, send), c # d
      PROVE  /\ pc'[d] = pc[d] /\ secrets_to_register'[d] = secrets_to_register[d]
             /\ wait_for'[d] = wait_for[d] /\ UNCHANGED secrets
  BY <1>6 DEF Checked, TypeOK
<1>7. ASSUME NEW send \in SUBSET Secrets, Checked(d, send)
      PROVE  pc[d] = "checking" /\ UNCHANGED secrets /\ pc'[d] \in {"waiting", "estimate"}
  BY <1>7 DEF Checked, TypeOK
<1>8. ASSUME NEW c \in Calls, ClearOpenTransactions(c)
      PROVE  Kept
  <2>1. /\ UNCHANGED <<secrets_to_register, wait_for, secrets>> /\ pc[c] = "clear"
        /\ pc' = [pc EXCEPT ![c] = "finish"]
    BY <1>8 DEF ClearOpenTransactions, Goto, callVars
  <2> QED
    BY <1>8, <2>1 DEF TypeOK
<1>9. ASSUME NEW c \in Calls,
             EstimateGas(c) \/ Transact(c) \/ Poll(c) \/ PollRaises(c) \/ SetResult(c) \/ JoinAll(c)
      PROVE  Kept
  <2>1. /\ UNCHANGED <<secrets_to_register, wait_for, secrets>>
        /\ pc[c] \notin Unchecked
        /\ \E to : /\ pc' = [pc EXCEPT ![c] = to] /\ to \notin Unchecked
                   /\ pc[c] \in Opening <=> to \in Opening
    BY <1>9, MovesCase DEF Moves
  <2> QED
    BY <2>1 DEF TypeOK
<1> HIDE DEF Opening, Unchecked
<1>10. CASE \E send \in SUBSET Secrets : Checked(d, send)
  BY <1>7, <1>10 DEF Opening, Unchecked
<1>11. CASE ~ \E send \in SUBSET Secrets : Checked(d, send)
  BY <1>1, <1>2, <1>3, <1>4, <1>5, <1>6, <1>8, <1>9, <1>11, NextCases
<1> QED
  BY <1>10, <1>11

(* After its transaction, the secrets of a call that succeeded are         *)
(* registered and confirmed.                                               *)
LEMMA Registered ==
  ASSUME IInv, NEW c \in Calls, outcome[c] = "ok", pc[c] # "poll"
  PROVE  \A s \in secrets_to_register[c] : age[s] = CONFIRMATIONS
<1>1. ASSUME NEW s \in secrets_to_register[c]
      PROVE  age[s] = CONFIRMATIONS
  <2>1. age[s] \in NotMined..CONFIRMATIONS
    BY DEF IInv, TypeOK
  <2>2. tx_age[c] = CONFIRMATIONS /\ age[s] >= tx_age[c]
    BY DEF IInv, AgeInv
  <2> QED
    BY <2>1, <2>2, ConfirmationsAssumption DEF NotMined
<1> QED
  BY <1>1

LEMMA SeenStep == IInv /\ [Next]_vars => SeenInv'
<1> SUFFICES ASSUME IInv, [Next]_vars, NEW c \in Calls, NEW d \in Calls,
                    pc'[d] = "checking", outcome'[c] = "ok", pc'[c] \notin Opening
             PROVE  secrets_to_register'[c] \subseteq confirmed'[d]
  BY DEF SeenInv
<1>1. TypeOK /\ FreshInv /\ NoCall \notin Calls
  BY CallsAssumption DEF IInv
<1>2. ASSUME NEW mined \in SUBSET pool, NEW failing, NEW others, NewBlock(mined, failing, others)
      PROVE  secrets_to_register'[c] \subseteq confirmed'[d]
  <2>1. UNCHANGED <<pc, secrets_to_register, confirmed>>
    BY <1>1, <1>2, BlockAges
  <2>2. outcome[c] = "ok"
    BY <1>1, <1>2, <2>1, BlockAges DEF Opening
  <2> QED
    BY <2>1, <2>2 DEF IInv, SeenInv
<1>3. ASSUME \A mined \in SUBSET pool : \A failing, others : ~ NewBlock(mined, failing, others)
      PROVE  secrets_to_register'[c] \subseteq confirmed'[d]
  <2>1. outcome[c] = "ok" /\ secrets_to_register'[c] = secrets_to_register[c]
    BY <1>1, <1>3, OutcomeKept
  <2>2. CASE pc[d] = "checking"
    <3>1. lock = d
      BY <2>2 DEF IInv, LockInv
    <3>2. pc[c] \notin Opening
      BY <1>1, <3>1, Labels DEF ClearOpenTransactions
    <3>3. confirmed'[d] = confirmed[d]
      BY <1>1, <2>2, ConfirmedKept DEF GetConfirmedBlockhash
    <3> QED
      BY <2>1, <2>2, <3>2, <3>3 DEF IInv, SeenInv
  <2>3. CASE pc[d] # "checking"
    <3>1. GetConfirmedBlockhash(d)
      BY <1>1, <2>3, Labels
    <3>2. pc[c] # "poll"
      BY <1>1, <3>1 DEF GetConfirmedBlockhash, Goto, TypeOK, Opening
    <3>3. confirmed'[d] = {s \in Secrets : age[s] = CONFIRMATIONS}
      BY <1>1, <3>1 DEF GetConfirmedBlockhash, TypeOK
    <3>4. secrets_to_register[c] \subseteq Secrets
      BY <1>1 DEF TypeOK
    <3> QED
      BY <2>1, <3>2, <3>3, <3>4, Registered
  <2> QED
    BY <2>2, <2>3
<1> QED
  BY <1>2, <1>3

LEMMA ApartStep == IInv /\ [Next]_vars => ApartInv'
<1> SUFFICES ASSUME IInv, [Next]_vars, NEW c \in Calls, NEW d \in Calls, c # d,
                    outcome'[c] = "ok", pc'[d] \in Opening,
                    NEW s \in secrets_to_register'[c], s \in secrets_to_register'[d]
             PROVE  FALSE
  BY DEF ApartInv
<1>1. TypeOK /\ FreshInv /\ NoCall \notin Calls
  BY CallsAssumption DEF IInv
<1>2. s \in Secrets
  BY <1>1, TypeStep DEF TypeOK
<1>3. ASSUME NEW mined \in SUBSET pool, NEW failing, NEW others, NewBlock(mined, failing, others)
      PROVE  FALSE
  <2>1. UNCHANGED <<pc, secrets_to_register>>
    BY <1>1, <1>3, BlockAges
  <2>2. outcome[c] # "ok"
    BY <2>1 DEF IInv, ApartInv
  <2>3. pc[c] \in Opening
    BY <1>1, <1>3, <2>2, BlockAges DEF Opening
  <2> QED
    BY <1>2, <2>1, <2>3 DEF IInv, OpenInv
<1>4. ASSUME \A mined \in SUBSET pool : \A failing, others : ~ NewBlock(mined, failing, others)
      PROVE  FALSE
  <2>1. outcome[c] = "ok" /\ s \in secrets_to_register[c]
    BY <1>1, <1>4, OutcomeKept
  <2>2. PICK send \in SUBSET Secrets : Checked(d, send)
    BY <1>1, <2>1, Labels DEF IInv, ApartInv
  <2>3. pc[d] = "checking" /\ open_secret_transactions[s] = NoCall /\ s \notin confirmed[d]
    BY <1>1, <2>2 DEF Checked, TypeOK
  <2>4. pc[c] \notin Opening
    BY <1>1, <1>2, <2>1, <2>3 DEF IInv, OpenInv
  <2> QED
    BY <2>1, <2>3, <2>4 DEF IInv, SeenInv
<1> QED
  BY <1>3, <1>4

LEMMA BatchStep == IInv /\ [Next]_vars => BatchInv'
<1> SUFFICES ASSUME IInv, [Next]_vars, NEW c \in Calls, pc'[c] \notin Unchecked,
                    NEW s \in ToSet(secrets'[c])
             PROVE  \/ s \in confirmed'[c] \/ s \in secrets_to_register'[c]
                    \/ \E d \in wait_for'[c] : s \in secrets_to_register'[d]
  BY DEF BatchInv
<1>1. TypeOK /\ NoCall \notin Calls /\ wait_for[c] \subseteq Calls
  BY CallsAssumption DEF IInv, TypeOK
<1>2. secrets'[c] = secrets[c]
  BY <1>1, Labels DEF Unchecked
<1>3. \A d \in Calls : secrets_to_register[d] \subseteq secrets_to_register'[d]
  <2>1. \A d \in Calls : \A send : Checked(d, send) => secrets_to_register[d] = {}
    BY DEF Checked, IInv, FreshInv, Unchecked
  <2> QED
    BY <1>1, <2>1, Labels
<1>4. CASE \E send \in SUBSET Secrets : Checked(c, send)
  <2>1. PICK send \in SUBSET Secrets : Checked(c, send)
    BY <1>4
  <2>2. /\ pc[c] = "checking" /\ UNCHANGED confirmed /\ secrets_to_register'[c] = send
        /\ \/ s \in send \cup confirmed[c]
           \/ open_secret_transactions[s] \in wait_for'[c] \ {NoCall}
        /\ wait_for'[c] \subseteq Calls
    BY <1>1, <1>2, <2>1 DEF Checked, TypeOK
  <2>3. s \in Secrets
    BY <1>1, <1>2, BatchType
  <2>4. open_secret_transactions[s] \in Calls
          => s \in secrets_to_register[open_secret_transactions[s]]
    BY <2>3 DEF IInv, OpenInv
  <2> QED
    BY <1>3, <2>2, <2>4
<1>5. CASE ~ \E send \in SUBSET Secrets : Checked(c, send)
  <2>1. pc[c] \notin Unchecked /\ wait_for'[c] = wait_for[c]
    BY <1>1, <1>5, Labels
  <2>2. confirmed'[c] = confirmed[c]
    BY <1>1, <2>1, ConfirmedKept DEF GetConfirmedBlockhash, Unchecked
  <2>3. \/ s \in confirmed[c] \/ s \in secrets_to_register[c]
        \/ \E d \in wait_for[c] : s \in secrets_to_register[d]
    BY <1>2, <2>1 DEF IInv, BatchInv
  <2> QED
    BY <1>1, <1>3, <2>1, <2>2, <2>3
<1> QED
  BY <1>4, <1>5

LEMMA ResultStep == IInv /\ [Next]_vars => ResultInv'
<1> SUFFICES ASSUME IInv, [Next]_vars, NEW d \in Calls
             PROVE  /\ transaction_result'[d] = "set" =>
                         outcome'[d] = "ok" /\ pc'[d] \in {"waiting", "returned", "raised"}
                    /\ pc'[d] \in {"waiting", "returned"} /\ secrets_to_register'[d] # {}
                         => outcome'[d] = "ok"
  BY DEF ResultInv
<1> DEFINE Goal == /\ transaction_result'[d] = "set" =>
                        outcome'[d] = "ok" /\ pc'[d] \in {"waiting", "returned", "raised"}
                   /\ pc'[d] \in {"waiting", "returned"} /\ secrets_to_register'[d] # {}
                        => outcome'[d] = "ok"
<1>1. /\ TypeOK /\ FreshInv
      /\ transaction_result[d] = "set" =>
           outcome[d] = "ok" /\ pc[d] \in {"waiting", "returned", "raised"}
      /\ pc[d] \in {"waiting", "returned"} /\ secrets_to_register[d] # {} => outcome[d] = "ok"
  BY DEF IInv, ResultInv
<1>2. CASE UNCHANGED vars
  BY <1>1, <1>2 DEF vars
<1>3. ASSUME NEW mined \in SUBSET pool, NEW failing, NEW others, NewBlock(mined, failing, others)
      PROVE  Goal
  <2>1. /\ UNCHANGED <<pc, secrets_to_register, transaction_result>>
        /\ outcome[d] = "ok" => outcome'[d] = "ok"
    BY <1>1, <1>3, BlockAges
  <2> QED
    BY <1>1, <2>1
<1>4. CASE DropTransaction
  BY <1>1, <1>4 DEF DropTransaction, callVars
<1>5. ASSUME NEW c \in Calls, Call(c)
      PROVE  Goal
  BY <1>1, <1>5 DEF Call, Goto, TypeOK
<1>6. ASSUME NEW c \in Calls, GetConfirmedBlockhash(c)
      PROVE  Goal
  BY <1>1, <1>6 DEF GetConfirmedBlockhash, Goto, TypeOK
<1>7. ASSUME NEW c \in Calls, NEW send \in SUBSET Secrets, Checked(c, send)
      PROVE  Goal
  BY <1>1, <1>7 DEF Checked, TypeOK
<1>8. ASSUME NEW c \in Calls, ClearOpenTransactions(c)
      PROVE  Goal
  BY <1>1, <1>8 DEF ClearOpenTransactions, Goto, callVars, TypeOK
<1>9. ASSUME NEW c \in Calls,
             EstimateGas(c) \/ Transact(c) \/ Poll(c) \/ PollRaises(c) \/ SetResult(c) \/ JoinAll(c)
      PROVE  Goal
  <2>1. CASE c # d
    <3>1. /\ pc'[d] = pc[d] /\ outcome'[d] = outcome[d]
          /\ transaction_result'[d] = transaction_result[d] /\ UNCHANGED secrets_to_register
      BY <1>1, <1>9, <2>1, MovesCase DEF Moves, TypeOK
    <3> QED
      BY <1>1, <3>1
  <2>2. CASE c = d
    <3>1. /\ UNCHANGED secrets_to_register
          /\ \/ /\ pc[d] \in Opening /\ pc'[d] \in Opening /\ UNCHANGED transaction_result
             \/ /\ pc[d] = "finish" /\ pc'[d] = "waiting" /\ outcome'[d] = outcome[d]
                /\ outcome[d] = "ok"
             \/ /\ pc'[d] = "raised" /\ transaction_result'[d] = "exception"
             \/ /\ pc[d] = "waiting" /\ pc'[d] \in {"returned", "raised"}
                /\ outcome'[d] = outcome[d] /\ UNCHANGED transaction_result
      BY <1>1, <1>9, <2>2, MovesCase DEF Moves, TypeOK, Opening
    <3> QED
      BY <1>1, <3>1 DEF Opening
  <2> QED
    BY <2>1, <2>2
<1> QED
  BY <1>1, <1>2, <1>3, <1>4, <1>5, <1>6, <1>7, <1>8, <1>9, NextCases

LEMMA ReturnStep == IInv /\ [Next]_vars => ReturnMeansRegistered'
<1> SUFFICES ASSUME IInv, [Next]_vars, NEW c \in Calls, pc'[c] = "returned",
                    NEW i \in DOMAIN secrets'[c]
             PROVE  age'[secrets'[c][i]] = CONFIRMATIONS
  BY DEF ReturnMeansRegistered
<1>1. TypeOK /\ FreshInv
  BY DEF IInv
<1>2. secrets'[c] = secrets[c]
  BY <1>1, Labels
<1> DEFINE s == secrets[c][i]
<1>3. s \in Secrets /\ s \in ToSet(secrets[c])
  BY <1>1, <1>2, BatchType
<1>4. age[s] = CONFIRMATIONS => age'[s] = CONFIRMATIONS
  <2>1. ASSUME NEW mined \in SUBSET pool, NEW failing, NEW others, NewBlock(mined, failing, others)
        PROVE  age[s] = CONFIRMATIONS => age'[s] = CONFIRMATIONS
    BY <1>1, <1>3, <2>1, BlockAges
  <2> QED
    BY <1>1, <2>1, OutcomeKept
<1>5. CASE pc[c] = "returned"
  BY <1>2, <1>4, <1>5 DEF IInv, ReturnMeansRegistered
<1>6. CASE pc[c] # "returned"
  <2>1. pc[c] = "waiting" /\ \A d \in wait_for[c] : transaction_result[d] = "set"
    <3>1. UNCHANGED vars \/ DropTransaction => UNCHANGED pc
      BY DEF vars, DropTransaction
    <3>2. \A mined, failing, others : NewBlock(mined, failing, others) => UNCHANGED pc
      BY DEF NewBlock
    <3>3. \A d \in Calls : ~ (Call(d) \/ GetConfirmedBlockhash(d) \/ ClearOpenTransactions(d))
      BY <1>1, <1>6 DEF Call, GetConfirmedBlockhash, ClearOpenTransactions, Goto, TypeOK
    <3>4. \A d \in Calls : \A send : ~ Checked(d, send)
      BY <1>1, <1>6 DEF Checked, TypeOK
    <3>5. ASSUME NEW d \in Calls, EstimateGas(d) \/ Transact(d) \/ Poll(d) \/ PollRaises(d)
                                    \/ SetResult(d) \/ JoinAll(d)
          PROVE  pc[c] = "waiting" /\ \A e \in wait_for[c] : transaction_result[e] = "set"
      <4>1. \/ \E to : to # "returned" /\ pc' = [pc EXCEPT ![d] = to]
            \/ /\ pc[d] = "waiting" /\ pc' = [pc EXCEPT ![d] = "returned"]
               /\ \A e \in wait_for[d] : transaction_result[e] = "set"
        BY <1>1, <3>5, MovesCase DEF Moves
      <4>2. d = c
        BY <1>1, <1>6, <4>1 DEF TypeOK
      <4> QED
        BY <1>1, <4>1, <4>2 DEF TypeOK
    <3> QED
      BY <1>1, <1>6, <3>1, <3>2, <3>3, <3>4, <3>5, NextCases
  <2>2. \/ s \in confirmed[c] \/ s \in secrets_to_register[c]
        \/ \E d \in wait_for[c] : s \in secrets_to_register[d]
    BY <1>3, <2>1 DEF IInv, BatchInv, Unchecked
  <2>3. s \in confirmed[c] => age[s] = CONFIRMATIONS
    BY DEF IInv, AgeInv
  <2>4. s \in secrets_to_register[c] => age[s] = CONFIRMATIONS
    BY <2>1, Registered DEF IInv, ResultInv
  <2>5. \A d \in wait_for[c] : d \in Calls /\ outcome[d] = "ok" /\ pc[d] # "poll"
    BY <1>1, <2>1 DEF IInv, ResultInv, TypeOK
  <2>6. \A d \in wait_for[c] : s \in secrets_to_register[d] => age[s] = CONFIRMATIONS
    BY <2>5, Registered
  <2> QED
    BY <1>2, <1>4, <2>2, <2>3, <2>4, <2>6
<1> QED
  BY <1>5, <1>6

-----------------------------------------------------------------------------
(* The invariants.                                                         *)

LEMMA Inductive == Spec => []IInv
<1>1. IInv /\ [Next]_vars => IInv'
  <2> SUFFICES ASSUME IInv, [Next]_vars
               PROVE  IInv'
    OBVIOUS
  <2>1. TypeOK' /\ ApartInv'
    BY TypeStep, ApartStep DEF IInv
  <2>2. RegisteredOnce'
    BY <2>1 DEF ApartInv, RegisteredOnce, Opening
  <2> QED
    BY <2>1, <2>2, LockStep, FreshStep, OpenStep, AgeStep, SeenStep, ResultStep, BatchStep,
       ReturnStep DEF IInv
<1> QED
  BY InitIInv, <1>1, PTL DEF Spec

(* The type of the state: a call waits only for calls, never for a missing *)
(* entry of the dictionary.                                                *)
THEOREM SecretRegistryTypeOK == Spec => []TypeOK
<1>1. IInv => TypeOK
  BY DEF IInv
<1> QED
  BY <1>1, Inductive, PTL

(* The dictionary of open transactions and the lock around the read of the *)
(* chain keep register_secret_batch from sending a secret again that this  *)
(* node has registered, for any number of concurrent calls.                *)
THEOREM SecretSentOnce == Spec => []RegisteredOnce
<1>1. IInv => RegisteredOnce
  BY DEF IInv
<1> QED
  BY <1>1, Inductive, PTL

(* register_secret_batch returns without an exception only when every      *)
(* secret of its batch is registered and confirmed, whichever call sent    *)
(* the transaction.                                                        *)
THEOREM ReturnAfterRegistration == Spec => []ReturnMeansRegistered
<1>1. IInv => ReturnMeansRegistered
  BY DEF IInv
<1> QED
  BY <1>1, Inductive, PTL
=============================================================================
