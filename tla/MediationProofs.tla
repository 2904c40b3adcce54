--------------------------- MODULE MediationProofs ---------------------------
(***************************************************************************)
(* Proofs about Mediation, for any nodes and routes, cycles included, any  *)
(* timing the assumptions allow and any interleaving.                      *)
(***************************************************************************)
EXTENDS Mediation, SequenceTheorems, FiniteSetTheorems, TLAPS

MediatorTransferState ==
  [active : BOOLEAN, transfers_pair : Seq(MediationPairState),
   waiting_transfer : Nodes \cup {NoNode}, secret : BOOLEAN]

(* TypeOK, and the tasks of the mediators are records with sequences.      *)
TypeInv == TypeOK /\ mediators \in [Mediators -> MediatorTransferState]

(* A direction is a pair of neighbours, and has an opposite.               *)
LEMMA DirectionType ==
  /\ \A d \in Directions : d[1] \in Nodes /\ d[2] \in Nodes /\ d = <<d[1], d[2]>>
  /\ \A a, b : <<a, b>> \in Directions => <<b, a>> \in Directions
  /\ \A a \in Nodes : \A b \in Hops(a) :
       b \in Nodes /\ <<a, b>> \in Directions /\ <<b, a>> \in Directions
<1>1. \A a \in Nodes : Hops(a) \subseteq Nodes
  BY RolesAssumption DEF Hops
<1> QED
  BY <1>1 DEF Directions

LEMMA EmptyTask == NoMediatorTask \in MediatorTransferState
BY DEF NoMediatorTask, MediatorTransferState

-----------------------------------------------------------------------------
(* The pairs of a mediator.                                                *)

(* The same transfers, perhaps in other states.                            *)
SamePairs(q, pairs) ==
  /\ q \in Seq(MediationPairState)
  /\ DOMAIN q = DOMAIN pairs /\ Len(q) = Len(pairs)
  /\ \A i \in DOMAIN pairs : q[i].payer = pairs[i].payer /\ q[i].payee = pairs[i].payee

LEMMA MappedPairs ==
  ASSUME NEW pairs \in Seq(MediationPairState), NEW q, q = [i \in DOMAIN pairs |-> q[i]],
         \A i \in DOMAIN pairs : /\ q[i] \in MediationPairState
                                 /\ q[i].payer = pairs[i].payer
                                 /\ q[i].payee = pairs[i].payee
  PROVE  SamePairs(q, pairs)
<1>1. DOMAIN pairs = 1 .. Len(pairs) /\ Len(pairs) \in Nat
  OBVIOUS
<1>2. q \in [1 .. Len(pairs) -> MediationPairState]
  BY <1>1
<1>3. q \in Seq(MediationPairState) /\ Len(q) = Len(pairs)
  BY <1>1, <1>2
<1> QED
  BY <1>1, <1>3 DEF SamePairs

LEMMA SamePairsTransitive ==
  ASSUME NEW p, NEW q, NEW r, SamePairs(p, q), SamePairs(q, r)
  PROVE  SamePairs(p, r)
BY DEF SamePairs

PayeeStates == {"payee_pending", "payee_secret_revealed", "payee_balance_proof", "payee_expired"}

PayerStates == {"payer_pending", "payer_secret_revealed", "payer_waiting_secret_reveal",
                "payer_balance_proof", "payer_expired"}

LEMMA ChangedPair ==
  ASSUME NEW p \in MediationPairState, NEW e \in PayeeStates, NEW r \in PayerStates
  PROVE  /\ [p EXCEPT !.payee_state = e] \in MediationPairState
         /\ [p EXCEPT !.payee_state = e].payer = p.payer
         /\ [p EXCEPT !.payee_state = e].payee = p.payee
         /\ [p EXCEPT !.payer_state = r] \in MediationPairState
         /\ [p EXCEPT !.payer_state = r].payer = p.payer
         /\ [p EXCEPT !.payer_state = r].payee = p.payee
BY DEF MediationPairState, PayeeStates, PayerStates

(* The pairs after the unlock of a payer, and after an expired lock.       *)
FirstOf(pairs, payer) ==
  {i \in DOMAIN pairs : /\ pairs[i].payer = payer
                        /\ \A j \in 1..(i - 1) : pairs[j].payer # payer}

PaidPairs(pairs, payer) ==
  [i \in DOMAIN pairs |-> IF i \in FirstOf(pairs, payer)
                          THEN [pairs[i] EXCEPT !.payer_state = "payer_balance_proof"]
                          ELSE pairs[i]]

ExpiredPairs(n, pairs, rcv) ==
  MapPairs(pairs, LAMBDA p : IF rcv[<<p.payer, n>>] \notin Pending
                             THEN [p EXCEPT !.payer_state = "payer_expired"]
                             ELSE p)

(* Every step on the pairs only changes their states.                      *)
LEMMA PairSteps ==
  ASSUME NEW pairs \in Seq(MediationPairState), NEW n, NEW x, NEW b, NEW rcv
  PROVE  /\ SamePairs(set_offchain_reveal_state(pairs, x), pairs)
         /\ SamePairs(events_for_secretreveal(pairs), pairs)
         /\ SamePairs(events_for_balanceproof(pairs, b), pairs)
         /\ SamePairs(events_to_remove_expired_locks(n, pairs, b), pairs)
         /\ SamePairs(events_for_onchain_secretreveal_if_dangerzone(n, pairs, b), pairs)
         /\ SamePairs(events_for_expired_pairs(n, pairs, b), pairs)
         /\ SamePairs(PaidPairs(pairs, x), pairs)
         /\ SamePairs(ExpiredPairs(n, pairs, rcv), pairs)
<1>1. \A i \in DOMAIN pairs : pairs[i] \in MediationPairState
  OBVIOUS
<1>2. /\ "payee_secret_revealed" \in PayeeStates /\ "payee_balance_proof" \in PayeeStates
      /\ "payee_expired" \in PayeeStates /\ "payer_secret_revealed" \in PayerStates
      /\ "payer_waiting_secret_reveal" \in PayerStates
      /\ "payer_balance_proof" \in PayerStates /\ "payer_expired" \in PayerStates
  BY DEF PayeeStates, PayerStates
<1>3. SamePairs(set_offchain_reveal_state(pairs, x), pairs)
  BY <1>1, <1>2, MappedPairs, ChangedPair, ZenonT(40) DEF set_offchain_reveal_state, MapPairs
<1>4. SamePairs(events_for_secretreveal(pairs), pairs)
  BY <1>1, <1>2, MappedPairs, ChangedPair, ZenonT(40) DEF events_for_secretreveal, MapPairs
<1>5. SamePairs(events_for_balanceproof(pairs, b), pairs)
  BY <1>1, <1>2, MappedPairs, ChangedPair, ZenonT(40) DEF events_for_balanceproof, MapPairs
<1>6. SamePairs(events_to_remove_expired_locks(n, pairs, b), pairs)
  BY <1>1, <1>2, MappedPairs, ChangedPair, ZenonT(40) DEF events_to_remove_expired_locks,
                                                          MapPairs
<1>7. SamePairs(events_for_onchain_secretreveal_if_dangerzone(n, pairs, b), pairs)
  BY <1>1, <1>2, MappedPairs, ChangedPair, ZenonT(40)
  DEF events_for_onchain_secretreveal_if_dangerzone, MapPairs
<1>8. SamePairs(events_for_expired_pairs(n, pairs, b), pairs)
  BY <1>1, <1>2, MappedPairs, ChangedPair, ZenonT(40) DEF events_for_expired_pairs, MapPairs
<1>9. SamePairs(PaidPairs(pairs, x), pairs)
  BY <1>1, <1>2, MappedPairs, ChangedPair, ZenonT(40) DEF PaidPairs
<1>10. SamePairs(ExpiredPairs(n, pairs, rcv), pairs)
  BY <1>1, <1>2, MappedPairs, ChangedPair, ZenonT(40) DEF ExpiredPairs, MapPairs
<1> QED
  BY <1>3, <1>4, <1>5, <1>6, <1>7, <1>8, <1>9, <1>10
-----------------------------------------------------------------------------
(* The locks a mediator answers for.                                       *)

Last(s) == s[Len(s)]

(* Every pending lock of n is in a pair of its task or waits, and a lock   *)
(* that waits is not forgotten for another one.                            *)
Owns(n, m, snt, rcv) ==
  /\ \A p \in PairsOf(m) : <<p.payer, n>> \in Directions /\ <<n, p.payee>> \in Directions
  /\ \A p \in PairsOf(m) : rcv[<<p.payer, n>>] # "none" /\ snt[<<n, p.payee>>] # "none"
  /\ \A d \in Directions : d[1] = n /\ snt[d] \in Pending => \E p \in PairsOf(m) : p.payee = d[2]
  /\ \A d \in Directions : d[2] = n /\ rcv[d] \in Pending =>
       m.waiting_transfer = d[1] \/ \E p \in PairsOf(m) : p.payer = d[1]
  /\ m.waiting_transfer # NoNode =>
       /\ <<m.waiting_transfer, n>> \in Directions
       /\ rcv[<<m.waiting_transfer, n>>] # "none"
       /\ \/ m.transfers_pair = <<>>
          \/ \E p \in PairsOf(m) : p.payer = m.waiting_transfer
          \/ m.waiting_transfer = Last(m.transfers_pair).payee

Statuses == [Directions -> LockStatus]

(* A mediator ends its task only when it owns no pending lock any more.    *)
LEMMA ClearOwns ==
  ASSUME NEW n \in Mediators, NEW m \in MediatorTransferState, m.active,
         NEW snt, NEW rcv, Owns(n, m, snt, rcv)
  PROVE  LET c == clear_if_finalized(n, m, snt, rcv)
         IN  /\ c \in MediatorTransferState /\ Owns(n, c, snt, rcv)
             /\ c = m \/ c = NoMediatorTask
             /\ ~ c.active => c = NoMediatorTask
<1> DEFINE c == clear_if_finalized(n, m, snt, rcv)
           Busy == \/ \E p \in PairsOf(m) : rcv[<<p.payer, n>>] \in Pending
                   \/ \E p \in PairsOf(m) : snt[<<n, p.payee>>] \in Pending
                   \/ m.waiting_transfer # NoNode /\ rcv[<<m.waiting_transfer, n>>] \in Pending
<1>1. CASE Busy
  <2>1. c = m
    BY <1>1 DEF clear_if_finalized
  <2> QED
    BY <2>1
<1>2. CASE ~ Busy
  <2>1. c = NoMediatorTask
    BY <1>2 DEF clear_if_finalized
  <2>2. PairsOf(NoMediatorTask) = {} /\ NoMediatorTask.waiting_transfer = NoNode
    BY DEF PairsOf, NoMediatorTask
  <2>3. ASSUME NEW d \in Directions, d[1] = n, snt[d] \in Pending
        PROVE  FALSE
    <3>1. PICK p \in PairsOf(m) : p.payee = d[2]
      BY <2>3 DEF Owns
    <3>2. d = <<n, p.payee>>
      BY <2>3, <3>1, DirectionType
    <3> QED
      BY <1>2, <2>3, <3>2
  <2>4. ASSUME NEW d \in Directions, d[2] = n, rcv[d] \in Pending
        PROVE  FALSE
    <3>1. d[1] # NoNode /\ d = <<d[1], n>>
      BY <2>4, DirectionType, RolesAssumption
    <3>2. m.waiting_transfer = d[1] \/ \E p \in PairsOf(m) : p.payer = d[1]
      BY <2>4 DEF Owns
    <3> QED
      BY <1>2, <2>4, <3>1, <3>2
  <2>5. Owns(n, NoMediatorTask, snt, rcv)
    BY <2>2, <2>3, <2>4 DEF Owns
  <2> QED
    BY <2>1, <2>5, EmptyTask
<1> QED
  BY <1>1, <1>2

(* No lock becomes pending, and none is forgotten.                         *)
Tame(old, new) ==
  /\ new \in Statuses
  /\ \A d \in Directions : new[d] \in Pending => old[d] \in Pending
  /\ \A d \in Directions : old[d] # "none" => new[d] # "none"

(* Changing the states of the pairs and ending locks keeps the ownership.  *)
LEMMA ChangedOwns ==
  ASSUME NEW n, NEW m, NEW k, NEW snt, NEW rcv, NEW snt2, NEW rcv2,
         Owns(n, m, snt, rcv), SamePairs(k.transfers_pair, m.transfers_pair),
         k.waiting_transfer = m.waiting_transfer,
         m.transfers_pair \in Seq(MediationPairState), Tame(snt, snt2), Tame(rcv, rcv2)
  PROVE  Owns(n, k, snt2, rcv2)
<1> DEFINE q == k.transfers_pair
           pairs == m.transfers_pair
<1>1. /\ DOMAIN q = DOMAIN pairs /\ Len(q) = Len(pairs)
      /\ \A i \in DOMAIN pairs : q[i].payer = pairs[i].payer /\ q[i].payee = pairs[i].payee
      /\ q \in Seq(MediationPairState)
  BY DEF SamePairs
<1>2. /\ \A p \in PairsOf(k) : \E r \in PairsOf(m) : r.payer = p.payer /\ r.payee = p.payee
      /\ \A p \in PairsOf(m) : \E r \in PairsOf(k) : r.payer = p.payer /\ r.payee = p.payee
  BY <1>1 DEF PairsOf
<1>3. q # <<>> => Last(q).payee = Last(pairs).payee
  BY <1>1 DEF Last
<1>4. pairs = <<>> => q = <<>>
  BY <1>1
<1> HIDE DEF q, pairs
<1>5. /\ \A p \in PairsOf(k) : <<p.payer, n>> \in Directions /\ <<n, p.payee>> \in Directions
      /\ \A d \in Directions : d[1] = n /\ snt2[d] \in Pending => \E p \in PairsOf(k) : p.payee = d[2]
      /\ \A d \in Directions : d[2] = n /\ rcv2[d] \in Pending =>
           k.waiting_transfer = d[1] \/ \E p \in PairsOf(k) : p.payer = d[1]
  <2>1. \A p \in PairsOf(k) : <<p.payer, n>> \in Directions /\ <<n, p.payee>> \in Directions
    BY <1>2 DEF Owns
  <2>2. ASSUME NEW d \in Directions, d[1] = n, snt2[d] \in Pending
        PROVE  \E p \in PairsOf(k) : p.payee = d[2]
    <3>1. PICK p \in PairsOf(m) : p.payee = d[2]
      BY <2>2 DEF Owns, Tame
    <3> QED
      BY <1>2, <3>1
  <2>3. ASSUME NEW d \in Directions, d[2] = n, rcv2[d] \in Pending
        PROVE  k.waiting_transfer = d[1] \/ \E p \in PairsOf(k) : p.payer = d[1]
    <3>1. m.waiting_transfer = d[1] \/ \E p \in PairsOf(m) : p.payer = d[1]
      BY <2>3 DEF Owns, Tame
    <3> QED
      BY <1>2, <3>1
  <2> QED
    BY <2>1, <2>2, <2>3
<1>6. ASSUME k.waiting_transfer # NoNode
      PROVE  /\ <<k.waiting_transfer, n>> \in Directions
             /\ rcv2[<<k.waiting_transfer, n>>] # "none"
             /\ \/ q = <<>>
                \/ \E p \in PairsOf(k) : p.payer = k.waiting_transfer
                \/ k.waiting_transfer = Last(q).payee
  BY <1>2, <1>3, <1>4, <1>6 DEF Owns, pairs, Tame
<1>7. \A p \in PairsOf(k) : rcv2[<<p.payer, n>>] # "none" /\ snt2[<<n, p.payee>>] # "none"
  <2>1. \A p \in PairsOf(m) : /\ <<p.payer, n>> \in Directions /\ <<n, p.payee>> \in Directions
                              /\ rcv[<<p.payer, n>>] # "none" /\ snt[<<n, p.payee>>] # "none"
    BY DEF Owns
  <2>2. \A d \in Directions : /\ rcv[d] # "none" => rcv2[d] # "none"
                              /\ snt[d] # "none" => snt2[d] # "none"
    BY DEF Tame
  <2>3. \A p \in PairsOf(m) : rcv2[<<p.payer, n>>] # "none" /\ snt2[<<n, p.payee>>] # "none"
    BY <2>1, <2>2
  <2> QED
    BY <1>2, <2>3
<1> QED
  BY <1>5, <1>6, <1>7 DEF Owns, q

(* A step of the task of n, up to the end of the task.                     *)
MediatorStep(n, m, snt, rcv) ==
  /\ Mediate(n, m, snt, rcv)
  /\ m \in MediatorTransferState /\ m.active /\ Owns(n, m, snt, rcv)
  /\ snt \in Statuses /\ rcv \in Statuses
  /\ \A d \in Directions : d[1] # n => snt[d] = sent[d]
  /\ \A d \in Directions : d[2] # n => rcv[d] = received[d]
  /\ \A d \in Directions : sent[d] # "none" => snt[d] # "none"
  /\ \A d \in Directions : received[d] # "none" => rcv[d] # "none"

(* The task with one more transfer forwarded.                              *)
Forwarded(m, payer, payee) ==
  [m EXCEPT !.transfers_pair = Append(m.transfers_pair, MediationPair(payer, payee))]

LEMMA AppendedPairs ==
  ASSUME NEW m \in MediatorTransferState, NEW payer \in Nodes, NEW payee \in Nodes
  PROVE  LET x == MediationPair(payer, payee)
             k == Forwarded(m, payer, payee)
         IN  /\ k \in MediatorTransferState
             /\ k.active = m.active /\ k.secret = m.secret
             /\ k.waiting_transfer = m.waiting_transfer
             /\ k.transfers_pair = Append(m.transfers_pair, x)
             /\ PairsOf(k) = PairsOf(m) \cup {x}
             /\ Last(k.transfers_pair) = x
<1> DEFINE x == MediationPair(payer, payee)
           pairs == m.transfers_pair
           k == Forwarded(m, payer, payee)
<1>1. x \in MediationPairState /\ pairs \in Seq(MediationPairState)
  BY DEF MediationPair, MediationPairState, MediatorTransferState
<1>2. /\ Append(pairs, x) \in Seq(MediationPairState)
      /\ Len(Append(pairs, x)) = Len(pairs) + 1
      /\ \A i \in 1 .. Len(pairs) : Append(pairs, x)[i] = pairs[i]
      /\ Append(pairs, x)[Len(pairs) + 1] = x
  BY <1>1, AppendProperties
<1>3. /\ k.active = m.active /\ k.secret = m.secret /\ k.waiting_transfer = m.waiting_transfer
      /\ k.transfers_pair = Append(pairs, x)
  BY DEF MediatorTransferState, Forwarded
<1>4. k \in MediatorTransferState
  <2>1. \A q \in Seq(MediationPairState) :
          [m EXCEPT !.transfers_pair = q] \in MediatorTransferState
    BY DEF MediatorTransferState
  <2> HIDE DEF x
  <2> QED
    BY <1>2, <2>1 DEF Forwarded, x
<1>5. /\ DOMAIN Append(pairs, x) = DOMAIN pairs \cup {Len(pairs) + 1}
      /\ DOMAIN pairs = 1 .. Len(pairs)
  <2> HIDE DEF x, pairs
  <2>1. Len(pairs) \in Nat /\ DOMAIN pairs = 1 .. Len(pairs)
    BY <1>1
  <2>2. DOMAIN Append(pairs, x) = 1 .. (Len(pairs) + 1)
    BY <1>2
  <2> QED
    BY <2>1, <2>2
<1> HIDE DEF x, pairs, k
<1>6. {Append(pairs, x)[i] : i \in DOMAIN Append(pairs, x)}
        = {pairs[i] : i \in DOMAIN pairs} \cup {x}
  BY <1>2, <1>5
<1>7. PairsOf(k) = PairsOf(m) \cup {x}
  BY <1>3, <1>6 DEF PairsOf, pairs
<1>8. Last(k.transfers_pair) = x
  BY <1>2, <1>3 DEF Last
<1> QED
  BY <1>3, <1>4, <1>7, <1>8 DEF x, pairs, k

-----------------------------------------------------------------------------
(* A mediator goes on, or an assertion stops it.                           *)

Original(m, payer) == IF m.transfers_pair = <<>> THEN payer ELSE m.transfers_pair[1].payer

Payees(n, m, payer, routes) ==
  IF is_channel_usable(n)
  THEN filter_used_routes(m, routes) \cup {Original(m, payer)} ELSE {}

TransferRuns(n, m, payer, routes, rcv) ==
  \/ \E payee \in Payees(n, m, payer, routes) :
       /\ sanity_check(Forwarded(m, payer, payee))
       /\ Mediate(n, Forwarded(m, payer, payee), [sent EXCEPT ![<<n, payee>>] = "locked"], rcv)
  \/ Mediate(n, [m EXCEPT !.waiting_transfer = payer], sent, rcv)

TransferFails(n, m, payer, routes, rcv) ==
  \E payee \in Payees(n, m, payer, routes) :
    \/ payee = Original(m, payer) /\ ~ can_refund(n, payee, rcv)
    \/ ~ sanity_check(Forwarded(m, payer, payee))

LEMMA TransferCases ==
  ASSUME NEW n, NEW m, NEW payer, NEW routes, NEW rcv,
         mediate_transfer(n, m, payer, routes, rcv)
  PROVE  \/ TransferRuns(n, m, payer, routes, rcv)
         \/ TransferFails(n, m, payer, routes, rcv) /\ Stop(n)
BY DEF mediate_transfer, TransferRuns, TransferFails, Payees, Original, Forwarded

NewTask == [NoMediatorTask EXCEPT !.active = TRUE]

NewReceipt(payer, n) == [received EXCEPT ![<<payer, n>>] = "locked"]

InitMediatorRuns(n, payer) ==
  /\ InitMediator(n, payer)
  /\ TransferRuns(n, NewTask, payer, Hops(n), NewReceipt(payer, n))

RefundRuns(n, payer) ==
  /\ ReceiveTransferRefund(n, payer)
  /\ TransferRuns(n, mediators[n], payer, Hops(n), NewReceipt(payer, n))

RetryRuns(n, hop) ==
  /\ NodeChangeNetworkState(n, hop)
  /\ TransferRuns(n, mediators[n], mediators[n].waiting_transfer, {hop}, received)

PaidTask(n, payer) ==
  [mediators[n] EXCEPT !.transfers_pair = PaidPairs(mediators[n].transfers_pair, payer)]

UnlockRuns(n, payer) ==
  /\ MediatorUnlock(n, payer)
  /\ sanity_check(PaidTask(n, payer))
  /\ Mediate(n, PaidTask(n, payer), sent, [received EXCEPT ![<<payer, n>>] = "claimed"])

MediatorRuns(n) ==
  /\ n \notin stopped
  /\ \/ \E p \in Nodes : \/ InitMediatorRuns(n, p)
                         \/ RefundRuns(n, p)
                         \/ RetryRuns(n, p)
                         \/ MediatorSecretReveal(n, p)
                         \/ UnlockRuns(n, p)
                         \/ MediatorLockExpired(n, p)
     \/ MediatorOnchainReveal(n)
     \/ \E b \in 1..confirmed_block_number : MediatorBlock(n, b)

RunsNext == MineBlock \/ InitiatorNext \/ TargetNext \/ \E n \in Mediators : MediatorRuns(n)

(* Why a mediator stops.                                                   *)
FailsToInit(n, p) ==
  InitMediator(n, p) /\ TransferFails(n, NewTask, p, Hops(n), NewReceipt(p, n))

FailsToRefund(n, p) ==
  ReceiveTransferRefund(n, p) /\ TransferFails(n, mediators[n], p, Hops(n), NewReceipt(p, n))

FailsToRetry(n, p) ==
  /\ NodeChangeNetworkState(n, p)
  /\ TransferFails(n, mediators[n], mediators[n].waiting_transfer, {p}, received)

FailsToUnlock(n, p) == MediatorUnlock(n, p) /\ ~ sanity_check(PaidTask(n, p))

Stops(n) ==
  /\ n \notin stopped /\ Stop(n)
  /\ \E p \in Nodes : \/ FailsToInit(n, p) \/ FailsToRefund(n, p)
                      \/ FailsToRetry(n, p) \/ FailsToUnlock(n, p)

LEMMA UnlockCases ==
  ASSUME NEW n, NEW p, MediatorUnlock(n, p)
  PROVE  UnlockRuns(n, p) \/ (FailsToUnlock(n, p) /\ Stop(n))
<1>1. IF sanity_check(PaidTask(n, p))
      THEN Mediate(n, PaidTask(n, p), sent, [received EXCEPT ![<<p, n>>] = "claimed"])
      ELSE Stop(n)
  BY DEF MediatorUnlock, PaidTask, PaidPairs, FirstOf
<1> QED
  BY <1>1 DEF UnlockRuns, FailsToUnlock

LEMMA NextCases ==
  ASSUME Next
  PROVE  RunsNext \/ \E n \in Mediators : Stops(n)
<1>1. ASSUME NEW n \in Mediators \ stopped, MediatorNext(n)
      PROVE  MediatorRuns(n) \/ Stops(n)
  <2>1. ASSUME NEW p \in Nodes, InitMediator(n, p)
        PROVE  InitMediatorRuns(n, p) \/ (FailsToInit(n, p) /\ Stop(n))
    <3>1. mediate_transfer(n, NewTask, p, Hops(n), NewReceipt(p, n))
      BY <2>1 DEF InitMediator, NewTask, NewReceipt
    <3> QED
      BY <2>1, <3>1, TransferCases DEF InitMediatorRuns, FailsToInit
  <2>2. ASSUME NEW p \in Nodes, ReceiveTransferRefund(n, p)
        PROVE  RefundRuns(n, p) \/ (FailsToRefund(n, p) /\ Stop(n))
    <3>1. mediate_transfer(n, mediators[n], p, Hops(n), NewReceipt(p, n))
      BY <2>2 DEF ReceiveTransferRefund, NewReceipt
    <3> QED
      BY <2>2, <3>1, TransferCases DEF RefundRuns, FailsToRefund
  <2>3. ASSUME NEW p \in Nodes, NodeChangeNetworkState(n, p)
        PROVE  RetryRuns(n, p) \/ (FailsToRetry(n, p) /\ Stop(n))
    <3>1. mediate_transfer(n, mediators[n], mediators[n].waiting_transfer, {p}, received)
      BY <2>3 DEF NodeChangeNetworkState
    <3> QED
      BY <2>3, <3>1, TransferCases DEF RetryRuns, FailsToRetry
  <2> QED
    BY <1>1, <2>1, <2>2, <2>3, UnlockCases DEF MediatorNext, MediatorRuns, Stops
<1> QED
  BY <1>1 DEF Next, RunsNext

(* A mediator that stops leaves everything else as it is.                  *)
LEMMA StopsFrame ==
  ASSUME NEW n, Stops(n)
  PROVE  /\ UNCHANGED <<sent, received, initiator, mediators, target, secret_request, reveals,
                        expiration, latest, registered, transactions, block_number, noticed>>
         /\ stopped' = stopped \cup {n}
         /\ node_changes' \in {node_changes, node_changes + 1}
<1>1. UNCHANGED <<sent, received, mediators>> /\ stopped' = stopped \cup {n}
  BY DEF Stops, Stop, locks
<1>2. PICK p \in Nodes : \/ FailsToInit(n, p) \/ FailsToRefund(n, p)
                         \/ FailsToRetry(n, p) \/ FailsToUnlock(n, p)
  BY DEF Stops
<1>3. /\ UNCHANGED <<initiator, target, secret_request, reveals, expiration, latest,
                     registered, transactions, block_number, noticed>>
      /\ node_changes' \in {node_changes, node_changes + 1}
  BY <1>2 DEF FailsToInit, FailsToRefund, FailsToRetry, FailsToUnlock, InitMediator,
              ReceiveTransferRefund, NodeChangeNetworkState, MediatorUnlock, messages, chain
<1> QED
  BY <1>1, <1>3
-----------------------------------------------------------------------------
(* What a transfer that is forwarded needs of the task and of the locks.   *)
Ready(n, m, payer, rcv) ==
  /\ m \in MediatorTransferState /\ m.active
  /\ <<payer, n>> \in Directions /\ rcv \in Statuses /\ rcv[<<payer, n>>] # "none"
  /\ \A d \in Directions : d[2] # n => rcv[d] = received[d]
  /\ \A d \in Directions : received[d] # "none" => rcv[d] # "none"
  /\ \A p \in PairsOf(m) : <<p.payer, n>> \in Directions /\ <<n, p.payee>> \in Directions
  /\ \A p \in PairsOf(m) : rcv[<<p.payer, n>>] # "none" /\ sent[<<n, p.payee>>] # "none"
  /\ \A d \in Directions : d[1] = n /\ sent[d] \in Pending =>
       \E p \in PairsOf(m) : p.payee = d[2]
  /\ \A d \in Directions : d[2] = n /\ rcv[d] \in Pending =>
       d[1] = payer \/ m.waiting_transfer = d[1] \/ \E p \in PairsOf(m) : p.payer = d[1]
  /\ m.waiting_transfer # NoNode =>
       /\ <<m.waiting_transfer, n>> \in Directions
       /\ rcv[<<m.waiting_transfer, n>>] # "none"
       /\ m.waiting_transfer = payer \/ \E p \in PairsOf(m) : p.payer = m.waiting_transfer
  /\ \/ m.transfers_pair = <<>>
     \/ \E p \in PairsOf(m) : p.payer = payer
     \/ payer = Last(m.transfers_pair).payee

(* What it does: at most one more transfer is forwarded.                   *)
Mediated(n, m, payer, rcv) ==
  \E k, snt :
    /\ MediatorStep(n, k, snt, rcv)
    /\ k.secret = m.secret
    /\ \/ /\ k.transfers_pair = m.transfers_pair /\ snt = sent
          /\ k.waiting_transfer = payer
       \/ \E payee \in Nodes :
            /\ k.transfers_pair = Append(m.transfers_pair, MediationPair(payer, payee))
            /\ PairsOf(k) = PairsOf(m) \cup {MediationPair(payer, payee)}
            /\ k.waiting_transfer = m.waiting_transfer
            /\ <<n, payee>> \in Directions
            /\ snt = [sent EXCEPT ![<<n, payee>>] = "locked"]
            /\ sanity_check(k)
            /\ \A p \in PairsOf(m) : p.payee # payee \/ payee = m.transfers_pair[1].payer

LEMMA MediateStep ==
  ASSUME TypeInv, NEW n \in Mediators, NEW m, NEW payer \in Nodes,
         NEW routes \in SUBSET Hops(n), NEW rcv, Ready(n, m, payer, rcv),
         TransferRuns(n, m, payer, routes, rcv)
  PROVE  Mediated(n, m, payer, rcv)
<1> DEFINE original == Original(m, payer)
           Done == Mediated(n, m, payer, rcv)
<1> USE DEF Ready
<1>1. sent \in Statuses /\ n \in Nodes
  BY DEF TypeInv, TypeOK, Statuses, Mediators
<1>2. original \in Nodes /\ <<n, original>> \in Directions
  <2>1. CASE m.transfers_pair = <<>>
    BY <2>1, DirectionType DEF Original
  <2>2. CASE m.transfers_pair # <<>>
    <3>1. m.transfers_pair \in Seq(MediationPairState)
      BY DEF MediatorTransferState
    <3>2. m.transfers_pair[1] \in PairsOf(m) /\ m.transfers_pair[1] \in MediationPairState
      BY <2>2, <3>1 DEF PairsOf
    <3> QED
      BY <2>2, <3>2, DirectionType DEF MediationPairState, Original
  <2> QED
    BY <2>1, <2>2
<1>3. ASSUME NEW payee \in Payees(n, m, payer, routes)
      PROVE  /\ payee \in Nodes /\ <<n, payee>> \in Directions
             /\ \A p \in PairsOf(m) : p.payee # payee \/ payee = m.transfers_pair[1].payer
  <2>1. \A y \in routes : y \in Nodes /\ <<n, y>> \in Directions
    BY <1>1, DirectionType
  <2>2. CASE payee \in filter_used_routes(m, routes)
    <3>1. payee \in routes /\ \A p \in PairsOf(m) : p.payee # payee
      BY <2>2 DEF filter_used_routes
    <3> QED
      BY <2>1, <3>1
  <2>3. CASE payee = original
    <3>1. PairsOf(m) # {} => m.transfers_pair # <<>>
      BY DEF PairsOf
    <3>2. PairsOf(m) # {} => payee = m.transfers_pair[1].payer
      BY <2>3, <3>1 DEF Original
    <3> QED
      BY <1>2, <2>3, <3>2
  <2> QED
    BY <1>3, <2>2, <2>3 DEF Payees
<1> HIDE DEF original
<1>4. ASSUME NEW payee \in Nodes, <<n, payee>> \in Directions,
             \A p \in PairsOf(m) : p.payee # payee \/ payee = m.transfers_pair[1].payer,
             sanity_check(Forwarded(m, payer, payee)),
             Mediate(n, Forwarded(m, payer, payee),
                     [sent EXCEPT ![<<n, payee>>] = "locked"], rcv)
      PROVE  Done
  <2> DEFINE x   == MediationPair(payer, payee)
             k   == Forwarded(m, payer, payee)
             snt == [sent EXCEPT ![<<n, payee>>] = "locked"]
  <2>1. Mediate(n, k, snt, rcv) /\ sanity_check(k)
    BY <1>4
  <2>2. /\ k \in MediatorTransferState
        /\ k.active = m.active /\ k.secret = m.secret
        /\ k.waiting_transfer = m.waiting_transfer
        /\ k.transfers_pair = Append(m.transfers_pair, x)
        /\ PairsOf(k) = PairsOf(m) \cup {x}
    <3>1. m \in MediatorTransferState
      OBVIOUS
    <3> HIDE DEF Ready, k, x
    <3> QED
      BY <3>1, AppendedPairs DEF k, x
  <2>3. x.payer = payer /\ x.payee = payee
    BY DEF MediationPair
  <2>4. /\ snt \in Statuses /\ snt[<<n, payee>>] = "locked"
        /\ \A d \in Directions : d # <<n, payee>> => snt[d] = sent[d]
    BY <1>1, <1>4 DEF Statuses, LockStatus, Pending
  <2> HIDE DEF k, snt, x
  <2>5. \A p \in PairsOf(k) : <<p.payer, n>> \in Directions /\ <<n, p.payee>> \in Directions
    BY <1>4, <2>2, <2>3
  <2>6. ASSUME NEW d \in Directions, d[1] = n, snt[d] \in Pending
        PROVE  \E p \in PairsOf(k) : p.payee = d[2]
    <3>1. CASE d = <<n, payee>>
      BY <2>2, <2>3, <3>1
    <3>2. CASE d # <<n, payee>>
      BY <2>2, <2>4, <2>6, <3>2
    <3> QED
      BY <3>1, <3>2
  <2>7. ASSUME NEW d \in Directions, d[2] = n, rcv[d] \in Pending
        PROVE  k.waiting_transfer = d[1] \/ \E p \in PairsOf(k) : p.payer = d[1]
    BY <2>2, <2>3, <2>7
  <2>8. k.waiting_transfer # NoNode =>
          /\ <<k.waiting_transfer, n>> \in Directions
          /\ rcv[<<k.waiting_transfer, n>>] # "none"
          /\ \E p \in PairsOf(k) : p.payer = k.waiting_transfer
    BY <2>2, <2>3
  <2>9. Owns(n, k, snt, rcv)
    <3>1. \A p \in PairsOf(k) : rcv[<<p.payer, n>>] # "none" /\ snt[<<n, p.payee>>] # "none"
      <4>1. \A p \in PairsOf(m) : <<n, p.payee>> \in Directions /\ sent[<<n, p.payee>>] # "none"
        OBVIOUS
      <4>2. snt[<<n, x.payee>>] # "none" /\ rcv[<<x.payer, n>>] # "none"
        BY <2>3, <2>4
      <4> QED
        BY <2>2, <2>4, <4>1, <4>2, ZenonT(40)
    <3> QED
      BY <2>5, <2>6, <2>7, <2>8, <3>1 DEF Owns
  <2>10. /\ \A d \in Directions : d[1] # n => snt[d] = sent[d]
         /\ \A d \in Directions : sent[d] # "none" => snt[d] # "none"
    BY <2>4
  <2>11. MediatorStep(n, k, snt, rcv)
    BY <2>1, <2>2, <2>4, <2>9, <2>10 DEF MediatorStep
  <2>12. /\ k.transfers_pair = Append(m.transfers_pair, MediationPair(payer, payee))
         /\ PairsOf(k) = PairsOf(m) \cup {MediationPair(payer, payee)}
         /\ snt = [sent EXCEPT ![<<n, payee>>] = "locked"]
    BY <2>2 DEF x, snt
  <2> HIDE DEF k, snt, Ready
  <2>13. \E y \in Nodes :
           /\ k.transfers_pair = Append(m.transfers_pair, MediationPair(payer, y))
           /\ PairsOf(k) = PairsOf(m) \cup {MediationPair(payer, y)}
           /\ k.waiting_transfer = m.waiting_transfer
           /\ <<n, y>> \in Directions
           /\ snt = [sent EXCEPT ![<<n, y>>] = "locked"]
           /\ sanity_check(k)
           /\ \A p \in PairsOf(m) : p.payee # y \/ y = m.transfers_pair[1].payer
    BY <1>4, <2>1, <2>2, <2>12, Zenon
  <2> QED
    BY <2>2, <2>11, <2>13, Zenon DEF Mediated
<1>5. ASSUME Mediate(n, [m EXCEPT !.waiting_transfer = payer], sent, rcv)
      PROVE  Done
  <2> DEFINE k == [m EXCEPT !.waiting_transfer = payer]
  <2>1. /\ k \in MediatorTransferState
        /\ k.active = m.active /\ k.secret = m.secret
        /\ k.waiting_transfer = payer /\ k.transfers_pair = m.transfers_pair
    BY DEF MediatorTransferState
  <2>2. PairsOf(k) = PairsOf(m)
    BY <2>1 DEF PairsOf
  <2>3. Mediate(n, k, sent, rcv)
    BY <1>5
  <2> HIDE DEF k
  <2>4. ASSUME NEW d \in Directions, d[2] = n, rcv[d] \in Pending
        PROVE  k.waiting_transfer = d[1] \/ \E p \in PairsOf(k) : p.payer = d[1]
    <3>1. d[1] # NoNode
      BY DirectionType, RolesAssumption
    <3> QED
      BY <2>1, <2>2, <2>4, <3>1
  <2>5. Owns(n, k, sent, rcv)
    BY <2>1, <2>2, <2>4 DEF Owns
  <2>6. MediatorStep(n, k, sent, rcv)
    BY <1>1, <2>1, <2>3, <2>5 DEF MediatorStep
  <2> QED
    BY <2>1, <2>6 DEF Mediated
<1> HIDE DEF Done
<1>6. Done
  BY <1>3, <1>4, <1>5 DEF TransferRuns
<1> QED
  BY <1>6 DEF Done
-----------------------------------------------------------------------------
(* How the lock of a direction may change at a node.                       *)

LEMMA Changes ==
  /\ \A s \in LockStatus : Learning[s] = WithSecret(s)
  /\ \A s \in LockStatus : Registration[s] = WithRegistration(s)
  /\ \A s \in LockStatus : Expiration[s] = "expired"
  /\ \A s \in LockStatus : /\ WithSecret(s) \in LockStatus
                           /\ WithSecret(s) \in Pending => s \in Pending
                           /\ s # "none" => WithSecret(s) # "none"
  /\ \A s \in LockStatus : /\ WithRegistration(s) \in LockStatus
                           /\ WithRegistration(s) \in Pending => s \in Pending
                           /\ s # "none" => WithRegistration(s) # "none"
  /\ "expired" \in LockStatus \ Pending /\ "claimed" \in LockStatus \ Pending
<1>1. /\ \A s \in LockStatus : Learning[s] = WithSecret(s)
      /\ \A s \in LockStatus : Registration[s] = WithRegistration(s)
      /\ \A s \in LockStatus : Expiration[s] = "expired"
  BY DEF Learning, Registration, Expiration
<1>2. \A s \in LockStatus : /\ WithSecret(s) \in LockStatus
                            /\ WithSecret(s) \in Pending => s \in Pending
                            /\ s # "none" => WithSecret(s) # "none"
  BY DEF WithSecret, LockStatus, Pending
<1>3. \A s \in LockStatus : /\ WithRegistration(s) \in LockStatus
                            /\ WithRegistration(s) \in Pending => s \in Pending
                            /\ s # "none" => WithRegistration(s) # "none"
  BY DEF WithRegistration, LockStatus, Pending
<1>4. "expired" \in LockStatus \ Pending /\ "claimed" \in LockStatus \ Pending
  BY DEF LockStatus, Pending
<1> QED
  BY <1>1, <1>2, <1>3, <1>4

LEMMA TameSent ==
  ASSUME TypeInv, NEW n, NEW qs, NEW change \in {Learning, Registration, Expiration}
  PROVE  /\ Tame(sent, SentAt(n, qs, change))
         /\ \A d \in Directions : SentAt(n, qs, change)[d] =
              IF d[1] = n /\ d[2] \in qs THEN change[sent[d]] ELSE sent[d]
<1>1. \A d \in Directions : sent[d] \in LockStatus
  BY DEF TypeInv, TypeOK
<1>2. \A d \in Directions : SentAt(n, qs, change)[d] =
        IF d[1] = n /\ d[2] \in qs THEN change[sent[d]] ELSE sent[d]
  BY DEF SentAt
<1>3. \A s \in LockStatus : /\ change[s] \in LockStatus
                            /\ change[s] \in Pending => s \in Pending
                            /\ s # "none" => change[s] # "none"
  BY Changes
<1>4. SentAt(n, qs, change) \in Statuses
  BY <1>1, <1>3 DEF SentAt, Statuses
<1> QED
  BY <1>1, <1>2, <1>3, <1>4 DEF Tame

LEMMA TameReceived ==
  ASSUME TypeInv, NEW n, NEW qs, NEW change \in {Learning, Registration, Expiration}
  PROVE  /\ Tame(received, ReceivedAt(n, qs, change))
         /\ \A d \in Directions : ReceivedAt(n, qs, change)[d] =
              IF d[2] = n /\ d[1] \in qs THEN change[received[d]] ELSE received[d]
<1>1. \A d \in Directions : received[d] \in LockStatus
  BY DEF TypeInv, TypeOK
<1>2. \A d \in Directions : ReceivedAt(n, qs, change)[d] =
        IF d[2] = n /\ d[1] \in qs THEN change[received[d]] ELSE received[d]
  BY DEF ReceivedAt
<1>3. \A s \in LockStatus : /\ change[s] \in LockStatus
                            /\ change[s] \in Pending => s \in Pending
                            /\ s # "none" => change[s] # "none"
  BY Changes
<1>4. ReceivedAt(n, qs, change) \in Statuses
  BY <1>1, <1>3 DEF ReceivedAt, Statuses
<1> QED
  BY <1>1, <1>2, <1>3, <1>4 DEF Tame

LEMMA TamePaid ==
  ASSUME NEW n, NEW snt, Tame(sent, snt), NEW pairs, NEW b
  PROVE  /\ Tame(sent, Paid(n, snt, pairs, b))
         /\ \A d \in Directions : \/ Paid(n, snt, pairs, b)[d] = snt[d]
                                  \/ d[1] = n /\ Paid(n, snt, pairs, b)[d] = "claimed"
<1>1. \A d \in Directions : \/ Paid(n, snt, pairs, b)[d] = snt[d]
                            \/ d[1] = n /\ Paid(n, snt, pairs, b)[d] = "claimed"
  BY DEF Paid
<1>2. Paid(n, snt, pairs, b) \in Statuses
  BY Changes DEF Paid, Statuses, Tame
<1>3. "claimed" \notin Pending /\ "claimed" # "none"
  BY DEF Pending
<1> QED
  BY <1>1, <1>2, <1>3 DEF Tame

(* The task of a mediator after a step that starts no new lock ...         *)
SameTask(k, m) ==
  /\ k \in MediatorTransferState /\ k.active
  /\ k.waiting_transfer = m.waiting_transfer
  /\ SamePairs(k.transfers_pair, m.transfers_pair)

LEMMA UpdatedTask ==
  ASSUME NEW m \in MediatorTransferState, m.active, NEW q, SamePairs(q, m.transfers_pair)
  PROVE  /\ SameTask([m EXCEPT !.transfers_pair = q], m)
         /\ SameTask([m EXCEPT !.secret = TRUE, !.transfers_pair = q], m)
BY DEF SameTask, MediatorTransferState, SamePairs

(* ... and its locks.                                                      *)
OwnLocks(n, snt, rcv) ==
  /\ Tame(sent, snt) /\ Tame(received, rcv)
  /\ \A d \in Directions : d[1] # n => snt[d] = sent[d]
  /\ \A d \in Directions : d[2] # n => rcv[d] = received[d]

Quiet(n) == \E k, snt, rcv : MediatorStep(n, k, snt, rcv) /\ SameTask(k, mediators[n])

LEMMA QuietMediatorStep ==
  ASSUME TypeInv, NEW n \in Mediators, Owns(n, mediators[n], sent, received),
         NEW k, SameTask(k, mediators[n]), NEW snt, NEW rcv, OwnLocks(n, snt, rcv),
         Mediate(n, k, snt, rcv)
  PROVE  Quiet(n)
<1>1. mediators[n].transfers_pair \in Seq(MediationPairState)
  BY DEF TypeInv, MediatorTransferState
<1>2. Owns(n, k, snt, rcv)
  BY <1>1, ChangedOwns DEF SameTask, OwnLocks
<1>3. MediatorStep(n, k, snt, rcv)
  BY <1>2 DEF MediatorStep, SameTask, OwnLocks, Tame
<1> QED
  BY <1>3 DEF Quiet
(* What holds of the mediators: the inductive form of LocksHaveTasks.      *)
MediatorLocks ==
  \A n \in Mediators :
    /\ Owns(n, mediators[n], sent, received)
    /\ ~ mediators[n].active => mediators[n] = NoMediatorTask

LEMMA TaskFacts ==
  ASSUME TypeInv, MediatorLocks, NEW n \in Mediators
  PROVE  /\ n \in Nodes /\ n # Initiator /\ n # Target
         /\ mediators[n] \in MediatorTransferState
         /\ mediators[n].transfers_pair \in Seq(MediationPairState)
         /\ PairsOf(mediators[n]) \subseteq MediationPairState
         /\ Owns(n, mediators[n], sent, received)
         /\ mediators[n].waiting_transfer # NoNode \/ PairsOf(mediators[n]) # {}
              => mediators[n].active
         /\ sent \in Statuses /\ received \in Statuses
<1>1. n \in Nodes /\ n # Initiator /\ n # Target
  BY DEF Mediators
<1>2. mediators[n] \in MediatorTransferState
  BY DEF TypeInv
<1>3. mediators[n].transfers_pair \in Seq(MediationPairState)
  BY <1>2 DEF MediatorTransferState
<1>4. PairsOf(mediators[n]) \subseteq MediationPairState
  BY DEF TypeInv, TypeOK
<1>5. Owns(n, mediators[n], sent, received)
  BY DEF MediatorLocks
<1>6. mediators[n].waiting_transfer # NoNode \/ PairsOf(mediators[n]) # {} => mediators[n].active
  BY DEF MediatorLocks, NoMediatorTask, PairsOf
<1>7. sent \in Statuses /\ received \in Statuses
  BY DEF TypeInv, TypeOK, Statuses
<1> QED
  BY <1>1, <1>2, <1>3, <1>4, <1>5, <1>6, <1>7

(* The lock of a payer is accepted, or ends.                               *)
Receipt(payer, n, status) == [received EXCEPT ![<<payer, n>>] = status]

LEMMA Accepted ==
  ASSUME received \in Statuses, NEW n, NEW payer, <<payer, n>> \in Directions,
         NEW status \in LockStatus \ {"none"}
  PROVE  /\ Receipt(payer, n, status) \in Statuses
         /\ Receipt(payer, n, status)[<<payer, n>>] = status
         /\ \A d \in Directions : d # <<payer, n>> => Receipt(payer, n, status)[d] = received[d]
         /\ \A d \in Directions : d[2] # n => Receipt(payer, n, status)[d] = received[d]
         /\ \A d \in Directions : received[d] # "none" => Receipt(payer, n, status)[d] # "none"
         /\ \A d \in Directions : Receipt(payer, n, status)[d] = received[d] \/ d[1] = payer
<1>1. /\ Receipt(payer, n, status) \in Statuses
      /\ Receipt(payer, n, status)[<<payer, n>>] = status
  BY DEF Statuses, Receipt
<1>2. \A d \in Directions : d # <<payer, n>> => Receipt(payer, n, status)[d] = received[d]
  BY DEF Statuses, Receipt
<1>3. \A d \in Directions : d = <<payer, n>> => d[1] = payer /\ d[2] = n
  OBVIOUS
<1> QED
  BY <1>1, <1>2, <1>3

LEMMA InitMediatorStep ==
  ASSUME TypeInv, MediatorLocks, NEW n \in Mediators, NEW payer \in Nodes, InitMediatorRuns(n, payer)
  PROVE  \E m : /\ m.transfers_pair = <<>> /\ m.secret = FALSE /\ m.waiting_transfer = NoNode
                /\ Mediated(n, m, payer, Receipt(payer, n, "locked"))
<1> DEFINE m == NewTask
           rcv == Receipt(payer, n, "locked")
<1>1. /\ ~ mediators[n].active /\ <<payer, n>> \in Directions
      /\ TransferRuns(n, m, payer, Hops(n), rcv)
  BY DEF InitMediator, InitMediatorRuns, NewReceipt, Receipt
<1>2. m \in MediatorTransferState
  BY EmptyTask DEF MediatorTransferState, NewTask
<1>3. /\ m.active = TRUE /\ m.transfers_pair = <<>>
      /\ m.waiting_transfer = NoNode /\ m.secret = FALSE
  BY DEF NoMediatorTask, NewTask
<1> HIDE DEF m
<1>4. PairsOf(m) = {}
  BY <1>3 DEF PairsOf
<1>5. mediators[n] = NoMediatorTask /\ Owns(n, NoMediatorTask, sent, received)
  BY <1>1 DEF MediatorLocks
<1>6. PairsOf(NoMediatorTask) = {} /\ NoMediatorTask.waiting_transfer = NoNode
  BY DEF PairsOf, NoMediatorTask
<1>7. "locked" \in LockStatus \ {"none"} /\ received \in Statuses
  BY TaskFacts DEF LockStatus, Pending
<1>8. /\ rcv \in Statuses /\ rcv[<<payer, n>>] = "locked"
      /\ \A d \in Directions : d[2] # n => rcv[d] = received[d]
      /\ \A d \in Directions : received[d] # "none" => rcv[d] # "none"
      /\ \A d \in Directions : rcv[d] = received[d] \/ d[1] = payer
  BY <1>1, <1>7, Accepted
<1> HIDE DEF rcv
<1>9. \A d \in Directions : ~ (d[1] = n /\ sent[d] \in Pending)
  BY <1>5, <1>6 DEF Owns
<1>10. \A d \in Directions : d[2] = n /\ rcv[d] \in Pending => d[1] = payer
  <2>1. \A d \in Directions : d[1] # NoNode
    BY DirectionType, RolesAssumption
  <2> QED
    BY <1>5, <1>6, <1>8, <2>1 DEF Owns
<1>11. Ready(n, m, payer, rcv)
  BY <1>1, <1>2, <1>3, <1>4, <1>8, <1>9, <1>10 DEF Ready
<1>12. Mediated(n, m, payer, rcv)
  BY <1>1, <1>11, MediateStep
<1> QED
  BY <1>3, <1>12 DEF rcv

LEMMA RefundStep ==
  ASSUME TypeInv, MediatorLocks, NEW n \in Mediators, NEW payer \in Nodes,
         RefundRuns(n, payer)
  PROVE  Mediated(n, mediators[n], payer, Receipt(payer, n, "locked"))
<1> DEFINE m == mediators[n]
           rcv == Receipt(payer, n, "locked")
<1>1. /\ m.active /\ m.transfers_pair # <<>> /\ Last(m.transfers_pair).payee = payer
      /\ received[<<payer, n>>] = "none"
      /\ TransferRuns(n, m, payer, Hops(n), rcv)
  BY DEF ReceiveTransferRefund, RefundRuns, Last, NewReceipt, Receipt
<1>2. /\ m \in MediatorTransferState /\ m.transfers_pair \in Seq(MediationPairState)
      /\ Owns(n, m, sent, received) /\ received \in Statuses
  BY TaskFacts
<1> HIDE DEF m
<1>3. Last(m.transfers_pair) \in PairsOf(m)
  BY <1>1, <1>2 DEF Last, PairsOf
<1>4. <<payer, n>> \in Directions
  BY <1>1, <1>2, <1>3, DirectionType DEF Owns
<1>5. "locked" \in LockStatus \ {"none"}
  BY DEF LockStatus, Pending
<1>6. /\ rcv \in Statuses /\ rcv[<<payer, n>>] = "locked"
      /\ \A d \in Directions : d[2] # n => rcv[d] = received[d]
      /\ \A d \in Directions : received[d] # "none" => rcv[d] # "none"
      /\ \A d \in Directions : rcv[d] = received[d] \/ d[1] = payer
  BY <1>2, <1>4, <1>5, Accepted
<1> HIDE DEF rcv
<1>7. /\ \A p \in PairsOf(m) : <<p.payer, n>> \in Directions /\ <<n, p.payee>> \in Directions
      /\ \A d \in Directions : d[1] = n /\ sent[d] \in Pending =>
           \E p \in PairsOf(m) : p.payee = d[2]
      /\ \A p \in PairsOf(m) : rcv[<<p.payer, n>>] # "none" /\ sent[<<n, p.payee>>] # "none"
  BY <1>2, <1>6 DEF Owns
<1>8. \A d \in Directions : d[2] = n /\ rcv[d] \in Pending =>
        d[1] = payer \/ m.waiting_transfer = d[1] \/ \E p \in PairsOf(m) : p.payer = d[1]
  BY <1>2, <1>6 DEF Owns
<1>9. m.waiting_transfer # NoNode =>
        /\ <<m.waiting_transfer, n>> \in Directions
        /\ rcv[<<m.waiting_transfer, n>>] # "none"
        /\ m.waiting_transfer = payer \/ \E p \in PairsOf(m) : p.payer = m.waiting_transfer
  BY <1>1, <1>2, <1>6 DEF Owns
<1>10. Ready(n, m, payer, rcv)
  BY <1>1, <1>2, <1>4, <1>6, <1>7, <1>8, <1>9 DEF Ready
<1>11. Mediated(n, m, payer, rcv)
  BY <1>1, <1>10, MediateStep
<1> QED
  BY <1>11 DEF rcv, m

LEMMA NodeChangeStep ==
  ASSUME TypeInv, MediatorLocks, NEW n \in Mediators, NEW hop \in Nodes,
         RetryRuns(n, hop)
  PROVE  Mediated(n, mediators[n], mediators[n].waiting_transfer, received)
<1> DEFINE m == mediators[n]
           payer == m.waiting_transfer
<1>1. /\ payer # NoNode /\ {hop} \in SUBSET Hops(n)
      /\ TransferRuns(n, m, payer, {hop}, received)
  BY DEF NodeChangeNetworkState, RetryRuns
<1>2. /\ m \in MediatorTransferState /\ m.active /\ received \in Statuses
      /\ Owns(n, m, sent, received) /\ payer \in Nodes
  BY <1>1, TaskFacts DEF MediatorTransferState
<1> HIDE DEF m
<1>3. Ready(n, m, payer, received)
  BY <1>1, <1>2 DEF Owns, Ready
<1>4. Mediated(n, m, payer, received)
  BY <1>1, <1>2, <1>3, MediateStep
<1> QED
  BY <1>4 DEF m
LEMMA TameSame ==
  ASSUME NEW old \in Statuses
  PROVE  Tame(old, old)
BY DEF Tame

LEMMA SecretRevealStep ==
  ASSUME TypeInv, MediatorLocks, NEW n \in Mediators, NEW sender \in Nodes,
         MediatorSecretReveal(n, sender)
  PROVE  Quiet(n)
<1> DEFINE m     == mediators[n]
           known == set_offchain_reveal_state(m.transfers_pair, sender)
           told  == events_for_secretreveal(known)
           b     == block_number[n]
           q     == events_for_balanceproof(told, b)
           snt   == Paid(n, SentAt(n, PartnersOf(m), Learning), told, b)
           rcv   == ReceivedAt(n, PartnersOf(m), Learning)
<1>1. /\ m.active
      /\ Mediate(n, [m EXCEPT !.secret = TRUE, !.transfers_pair = q], snt, rcv)
  BY DEF MediatorSecretReveal
<1>2. /\ m \in MediatorTransferState /\ m.transfers_pair \in Seq(MediationPairState)
      /\ Owns(n, m, sent, received)
  BY TaskFacts
<1>3. SamePairs(q, m.transfers_pair)
  <2>1. SamePairs(known, m.transfers_pair)
    BY <1>2, PairSteps
  <2>2. SamePairs(told, known)
    <3>1. known \in Seq(MediationPairState)
      BY <2>1 DEF SamePairs
    <3> QED
      BY <3>1, PairSteps
  <2>3. SamePairs(q, told)
    <3>1. told \in Seq(MediationPairState)
      BY <2>2 DEF SamePairs
    <3> QED
      BY <3>1, PairSteps
  <2> QED
    BY <2>1, <2>2, <2>3, SamePairsTransitive
<1>4. SameTask([m EXCEPT !.secret = TRUE, !.transfers_pair = q], m)
  BY <1>1, <1>2, <1>3, UpdatedTask
<1>5. OwnLocks(n, snt, rcv)
  BY TameSent, TameReceived, TamePaid DEF OwnLocks
<1> QED
  BY <1>1, <1>2, <1>4, <1>5, QuietMediatorStep

LEMMA OnchainRevealStep ==
  ASSUME TypeInv, MediatorLocks, NEW n \in Mediators, MediatorOnchainReveal(n),
         mediators[n].active
  PROVE  Quiet(n)
<1> DEFINE m   == mediators[n]
           q   == events_for_balanceproof(m.transfers_pair, registered)
           snt == Paid(n, SentAt(n, PartnersOf(m), Registration), m.transfers_pair, registered)
           rcv == ReceivedAt(n, PartnersOf(m), Registration)
<1>1. Mediate(n, [m EXCEPT !.secret = TRUE, !.transfers_pair = q], snt, rcv)
  BY DEF MediatorOnchainReveal
<1>2. /\ m \in MediatorTransferState /\ m.transfers_pair \in Seq(MediationPairState)
      /\ Owns(n, m, sent, received)
  BY TaskFacts
<1>3. SamePairs(q, m.transfers_pair)
  BY <1>2, PairSteps
<1>4. SameTask([m EXCEPT !.secret = TRUE, !.transfers_pair = q], m)
  BY <1>2, <1>3, UpdatedTask
<1>5. OwnLocks(n, snt, rcv)
  BY TameSent, TameReceived, TamePaid DEF OwnLocks
<1> QED
  BY <1>1, <1>2, <1>4, <1>5, QuietMediatorStep

LEMMA UnlockStep ==
  ASSUME TypeInv, MediatorLocks, NEW n \in Mediators, NEW payer \in Nodes,
         UnlockRuns(n, payer)
  PROVE  Quiet(n)
<1> DEFINE m   == mediators[n]
           q   == PaidPairs(m.transfers_pair, payer)
           rcv == Receipt(payer, n, "claimed")
<1>1. /\ payer \in {p.payer : p \in PairsOf(m)} /\ received[<<payer, n>>] \in Pending
      /\ Mediate(n, [m EXCEPT !.transfers_pair = q], sent, rcv)
  BY DEF MediatorUnlock, UnlockRuns, Receipt, PaidTask
<1>2. /\ m \in MediatorTransferState /\ m.transfers_pair \in Seq(MediationPairState)
      /\ Owns(n, m, sent, received) /\ sent \in Statuses /\ received \in Statuses
      /\ m.active
  BY <1>1, TaskFacts
<1>3. SamePairs(q, m.transfers_pair)
  BY <1>2, PairSteps
<1>4. SameTask([m EXCEPT !.transfers_pair = q], m)
  BY <1>2, <1>3, UpdatedTask
<1>5. <<payer, n>> \in Directions
  BY <1>1, <1>2 DEF Owns
<1>6. OwnLocks(n, sent, rcv)
  <2>1. /\ rcv \in Statuses /\ rcv[<<payer, n>>] = "claimed"
        /\ \A d \in Directions : d # <<payer, n>> => rcv[d] = received[d]
        /\ \A d \in Directions : d[2] # n => rcv[d] = received[d]
        /\ \A d \in Directions : received[d] # "none" => rcv[d] # "none"
    BY <1>2, <1>5, Accepted DEF LockStatus
  <2>2. Tame(received, rcv)
    <3> HIDE DEF rcv
    <3> QED
      BY <2>1, Changes DEF Tame
  <2> QED
    BY <1>2, <2>1, <2>2, TameSame DEF OwnLocks
<1> QED
  BY <1>1, <1>2, <1>4, <1>6, QuietMediatorStep

LEMMA LockExpiredStep ==
  ASSUME TypeInv, MediatorLocks, NEW n \in Mediators, NEW payer \in Nodes,
         MediatorLockExpired(n, payer)
  PROVE  Quiet(n)
<1> DEFINE m   == mediators[n]
           rcv == Receipt(payer, n, "expired")
           q   == ExpiredPairs(n, m.transfers_pair, rcv)
<1>1. /\ payer \in {p.payer : p \in PairsOf(m)} \cup {m.waiting_transfer}
      /\ <<payer, n>> \in Directions
      /\ Mediate(n, [m EXCEPT !.transfers_pair = q], sent, rcv)
  BY DEF MediatorLockExpired, AcceptsLockExpired, Receipt, ExpiredPairs
<1>2. /\ m \in MediatorTransferState /\ m.transfers_pair \in Seq(MediationPairState)
      /\ Owns(n, m, sent, received) /\ sent \in Statuses /\ received \in Statuses
  BY TaskFacts
<1>3. m.active
  <2>1. payer # NoNode
    BY RolesAssumption
  <2> QED
    BY <1>1, <2>1, TaskFacts
<1>4. SamePairs(q, m.transfers_pair)
  BY <1>2, PairSteps
<1>5. SameTask([m EXCEPT !.transfers_pair = q], m)
  BY <1>2, <1>3, <1>4, UpdatedTask
<1>6. OwnLocks(n, sent, rcv)
  <2>1. /\ rcv \in Statuses /\ rcv[<<payer, n>>] = "expired"
        /\ \A d \in Directions : d # <<payer, n>> => rcv[d] = received[d]
        /\ \A d \in Directions : d[2] # n => rcv[d] = received[d]
        /\ \A d \in Directions : received[d] # "none" => rcv[d] # "none"
    BY <1>1, <1>2, Accepted DEF LockStatus
  <2>2. Tame(received, rcv)
    <3> HIDE DEF rcv
    <3> QED
      BY <2>1, Changes DEF Tame
  <2> QED
    BY <1>2, <2>1, <2>2, TameSame DEF OwnLocks
<1> QED
  BY <1>1, <1>2, <1>5, <1>6, QuietMediatorStep

LEMMA BlockStep ==
  ASSUME TypeInv, MediatorLocks, NEW n \in Mediators, NEW b, MediatorBlock(n, b),
         mediators[n].active
  PROVE  Quiet(n)
<1> DEFINE m        == mediators[n]
           removed  == events_to_remove_expired_locks(n, m.transfers_pair, b)
           revealed == events_for_onchain_secretreveal_if_dangerzone(n, removed, b)
           lost     == {p.payee : p \in {q \in PairsOf(m) : LockHasExpired(n, q, b)}}
           pairs    == events_for_expired_pairs(n, revealed, b)
           snt      == SentAt(n, lost, Expiration)
<1>1. Mediate(n, [m EXCEPT !.transfers_pair = pairs], snt, received)
  BY DEF MediatorBlock
<1>2. /\ m \in MediatorTransferState /\ m.transfers_pair \in Seq(MediationPairState)
      /\ Owns(n, m, sent, received) /\ received \in Statuses
  BY TaskFacts
<1>3. SamePairs(pairs, m.transfers_pair)
  <2>1. SamePairs(removed, m.transfers_pair)
    BY <1>2, PairSteps
  <2>2. SamePairs(revealed, removed)
    <3>1. removed \in Seq(MediationPairState)
      BY <2>1 DEF SamePairs
    <3> QED
      BY <3>1, PairSteps
  <2>3. SamePairs(pairs, revealed)
    <3>1. revealed \in Seq(MediationPairState)
      BY <2>2 DEF SamePairs
    <3> QED
      BY <3>1, PairSteps
  <2> QED
    BY <2>1, <2>2, <2>3, SamePairsTransitive
<1>4. SameTask([m EXCEPT !.transfers_pair = pairs], m)
  BY <1>2, <1>3, UpdatedTask
<1>5. OwnLocks(n, snt, received)
  <2> HIDE DEF lost
  <2> QED
    BY <1>2, TameSent, TameSame DEF OwnLocks
<1> QED
  BY <1>1, <1>2, <1>4, <1>5, QuietMediatorStep
-----------------------------------------------------------------------------
(* A step of a mediator, as a whole.                                       *)

LEMMA MediatorActs ==
  ASSUME TypeInv, MediatorLocks, NEW n \in Mediators, MediatorRuns(n)
  PROVE  \/ \E k, snt, rcv : MediatorStep(n, k, snt, rcv)
         \/ UNCHANGED <<sent, received, mediators>>
<1>1. ASSUME NEW p \in Nodes, InitMediatorRuns(n, p)
      PROVE  \E k, snt, rcv : MediatorStep(n, k, snt, rcv)
  BY <1>1, InitMediatorStep DEF Mediated
<1>2. ASSUME NEW p \in Nodes, RefundRuns(n, p)
      PROVE  \E k, snt, rcv : MediatorStep(n, k, snt, rcv)
  BY <1>2, RefundStep DEF Mediated
<1>3. ASSUME NEW p \in Nodes, RetryRuns(n, p)
      PROVE  \E k, snt, rcv : MediatorStep(n, k, snt, rcv)
  BY <1>3, NodeChangeStep DEF Mediated
<1>4. ASSUME NEW p \in Nodes, \/ MediatorSecretReveal(n, p) \/ UnlockRuns(n, p)
                              \/ MediatorLockExpired(n, p)
      PROVE  Quiet(n)
  BY <1>4, SecretRevealStep, UnlockStep, LockExpiredStep
<1>5. ASSUME MediatorOnchainReveal(n)
      PROVE  Quiet(n) \/ UNCHANGED <<sent, received, mediators>>
  <2>1. CASE mediators[n].active
    BY <1>5, <2>1, OnchainRevealStep
  <2>2. CASE ~ mediators[n].active
    BY <1>5, <2>2 DEF MediatorOnchainReveal, locks
  <2> QED
    BY <2>1, <2>2
<1>6. ASSUME NEW b \in 1..confirmed_block_number, MediatorBlock(n, b)
      PROVE  Quiet(n) \/ UNCHANGED <<sent, received, mediators>>
  <2>1. CASE mediators[n].active
    BY <1>6, <2>1, BlockStep
  <2>2. CASE ~ mediators[n].active
    BY <1>6, <2>2 DEF MediatorBlock, locks
  <2> QED
    BY <2>1, <2>2
<1>7. Quiet(n) => \E k, snt, rcv : MediatorStep(n, k, snt, rcv)
  BY DEF Quiet
<1> QED
  BY <1>1, <1>2, <1>3, <1>4, <1>5, <1>6, <1>7 DEF MediatorRuns

(* What a mediator owns is in its own channels.                            *)
LEMMA OwnsFrame ==
  ASSUME NEW n, NEW m, NEW snt, NEW rcv, NEW snt2, NEW rcv2, Owns(n, m, snt, rcv),
         \A d \in Directions : d[1] = n => snt2[d] = snt[d],
         \A d \in Directions : d[2] = n => rcv2[d] = rcv[d]
  PROVE  Owns(n, m, snt2, rcv2)
<1>1. /\ \A p \in PairsOf(m) : <<p.payer, n>> \in Directions /\ <<n, p.payee>> \in Directions
      /\ \A d \in Directions : d[1] = n /\ snt2[d] \in Pending =>
           \E p \in PairsOf(m) : p.payee = d[2]
      /\ \A d \in Directions : d[2] = n /\ rcv2[d] \in Pending =>
           m.waiting_transfer = d[1] \/ \E p \in PairsOf(m) : p.payer = d[1]
  BY DEF Owns
<1>2. \A a : <<a, n>> \in Directions => rcv2[<<a, n>>] = rcv[<<a, n>>]
  OBVIOUS
<1> QED
  BY <1>1, <1>2 DEF Owns

LEMMA StepLocks ==
  ASSUME TypeInv, MediatorLocks, NEW n \in Mediators,
         NEW k, NEW snt, NEW rcv, MediatorStep(n, k, snt, rcv)
  PROVE  /\ MediatorLocks'
         /\ sent' \in Statuses /\ received' \in Statuses
         /\ mediators' \in [Mediators -> MediatorTransferState]
         /\ mediators'[n] = k \/ mediators'[n] = NoMediatorTask
         /\ \A j \in Mediators : j # n => mediators'[j] = mediators[j]
<1> DEFINE c == clear_if_finalized(n, k, snt, rcv)
<1>1. /\ Mediate(n, k, snt, rcv) /\ k \in MediatorTransferState /\ k.active
      /\ Owns(n, k, snt, rcv) /\ snt \in Statuses /\ rcv \in Statuses
      /\ \A d \in Directions : d[1] # n => snt[d] = sent[d]
      /\ \A d \in Directions : d[2] # n => rcv[d] = received[d]
  BY DEF MediatorStep
<1>2. /\ c \in MediatorTransferState /\ Owns(n, c, snt, rcv)
      /\ c = k \/ c = NoMediatorTask
      /\ ~ c.active => c = NoMediatorTask
  BY <1>1, ClearOwns
<1>3. /\ sent' = snt /\ received' = rcv /\ mediators' = [mediators EXCEPT ![n] = c]
  BY <1>1 DEF Mediate
<1> HIDE DEF c
<1>4. mediators \in [Mediators -> MediatorTransferState]
  BY DEF TypeInv
<1>5. /\ mediators' \in [Mediators -> MediatorTransferState] /\ mediators'[n] = c
      /\ \A j \in Mediators : j # n => mediators'[j] = mediators[j]
  BY <1>2, <1>3, <1>4
<1>6. ASSUME NEW j \in Mediators
      PROVE  /\ Owns(j, mediators'[j], snt, rcv)
             /\ ~ mediators'[j].active => mediators'[j] = NoMediatorTask
  <2>1. CASE j = n
    BY <1>2, <1>5, <2>1
  <2>2. CASE j # n
    <3>1. /\ Owns(j, mediators[j], sent, received)
          /\ ~ mediators[j].active => mediators[j] = NoMediatorTask
      BY DEF MediatorLocks
    <3>2. Owns(j, mediators[j], snt, rcv)
      BY <1>1, <2>2, <3>1, OwnsFrame
    <3> QED
      BY <1>5, <2>2, <3>1, <3>2
  <2> QED
    BY <2>1, <2>2
<1>7. MediatorLocks'
  BY <1>3, <1>6 DEF MediatorLocks
<1> QED
  BY <1>1, <1>2, <1>3, <1>5, <1>7

-----------------------------------------------------------------------------
(* The locks of the initiator and of the target.                           *)

(* The initiator has one lock at most, and its task until the lock ends;   *)
(* it takes no refund.                                                     *)
InitiatorLocks ==
  /\ \A d \in Directions : d[2] = Initiator => received[d] = "none"
  /\ \A d, e \in Directions :
       /\ d[1] = Initiator /\ sent[d] # "none"
       /\ e[1] = Initiator /\ sent[e] # "none"
       => d = e
  /\ \A d \in Directions : d[1] = Initiator /\ sent[d] \in Pending => initiator.active

(* The target forwards nothing, and accepts one lock at most.              *)
TargetLocks ==
  /\ \A d \in Directions : d[1] = Target => sent[d] = "none"
  /\ \A d, e \in Directions :
       /\ d[2] = Target /\ received[d] # "none"
       /\ e[2] = Target /\ received[e] # "none"
       => d = e
  /\ \A d \in Directions : d[2] = Target /\ received[d] \in Pending => target.active

LockInv == MediatorLocks /\ InitiatorLocks /\ TargetLocks

LEMMA LocksHaveOwners ==
  ASSUME TypeInv, LockInv
  PROVE  LocksHaveTasks
<1> SUFFICES ASSUME NEW d \in Directions
             PROVE  /\ sent[d] \in {"locked", "unlocked"} => HasTask(d[1])
                    /\ received[d] \in {"locked", "unlocked"} => HasTask(d[2])
  BY DEF LocksHaveTasks
<1>1. d[1] \in Nodes /\ d[2] \in Nodes
  BY DirectionType
<1>2. Initiator # Target
  BY RolesAssumption
<1>3. ASSUME sent[d] \in {"locked", "unlocked"}
      PROVE  HasTask(d[1])
  <2>1. sent[d] \in Pending
    BY <1>3 DEF Pending
  <2>2. CASE d[1] = Initiator
    BY <1>2, <2>1, <2>2 DEF LockInv, InitiatorLocks, HasTask
  <2>3. CASE d[1] = Target
    BY <1>3, <2>3 DEF LockInv, TargetLocks
  <2>4. CASE d[1] \in Mediators
    <3>1. \E p \in PairsOf(mediators[d[1]]) : p.payee = d[2]
      BY <2>1, <2>4 DEF LockInv, MediatorLocks, Owns
    <3>2. mediators[d[1]].active
      BY <2>4, <3>1, TaskFacts DEF LockInv
    <3> QED
      BY <2>4, <3>2 DEF HasTask, Mediators
  <2> QED
    BY <1>1, <2>2, <2>3, <2>4 DEF Mediators
<1>4. ASSUME received[d] \in {"locked", "unlocked"}
      PROVE  HasTask(d[2])
  <2>1. received[d] \in Pending
    BY <1>4 DEF Pending
  <2>2. CASE d[2] = Initiator
    BY <1>4, <2>2 DEF LockInv, InitiatorLocks
  <2>3. CASE d[2] = Target
    BY <1>2, <2>1, <2>3 DEF LockInv, TargetLocks, HasTask
  <2>4. CASE d[2] \in Mediators
    <3>1. \/ mediators[d[2]].waiting_transfer = d[1]
          \/ \E p \in PairsOf(mediators[d[2]]) : p.payer = d[1]
      BY <2>1, <2>4 DEF LockInv, MediatorLocks, Owns
    <3>2. d[1] # NoNode
      BY <1>1, RolesAssumption
    <3>3. mediators[d[2]].active
      BY <2>4, <3>1, <3>2, TaskFacts DEF LockInv
    <3> QED
      BY <2>4, <3>3 DEF HasTask, Mediators
  <2> QED
    BY <1>1, <2>2, <2>3, <2>4 DEF Mediators
<1> QED
  BY <1>3, <1>4
-----------------------------------------------------------------------------
(* The three kinds of steps, and what each leaves alone.                   *)

(* A mediator leaves the locks of the initiator and of the target alone.   *)
LEMMA MediatorKeepsLocks ==
  ASSUME TypeInv, LockInv, NEW n \in Mediators, MediatorRuns(n)
  PROVE  LockInv' /\ sent' \in Statuses /\ received' \in Statuses
         /\ mediators' \in [Mediators -> MediatorTransferState]
<1>1. MediatorLocks /\ InitiatorLocks /\ TargetLocks
  BY DEF LockInv
<1>2. initiator' = initiator /\ target' = target
  BY DEF MediatorRuns, InitMediator, InitMediatorRuns, ReceiveTransferRefund, RefundRuns,
         NodeChangeNetworkState, RetryRuns,
         MediatorSecretReveal, MediatorUnlock, UnlockRuns, MediatorLockExpired,
         MediatorOnchainReveal,
         MediatorBlock
<1>3. CASE UNCHANGED <<sent, received, mediators>>
  <2>1. LockInv'
    BY <1>1, <1>2, <1>3 DEF LockInv, MediatorLocks, InitiatorLocks, TargetLocks
  <2> QED
    BY <1>3, <2>1 DEF TypeInv, TypeOK, Statuses
<1>4. ASSUME NEW k, NEW snt, NEW rcv, MediatorStep(n, k, snt, rcv)
      PROVE  LockInv' /\ sent' \in Statuses /\ received' \in Statuses
             /\ mediators' \in [Mediators -> MediatorTransferState]
  <2>1. /\ MediatorLocks' /\ sent' \in Statuses /\ received' \in Statuses
        /\ mediators' \in [Mediators -> MediatorTransferState]
    BY <1>1, <1>4, StepLocks
  <2>2. /\ \A d \in Directions : d[1] # n => sent'[d] = sent[d]
        /\ \A d \in Directions : d[2] # n => received'[d] = received[d]
    BY <1>4 DEF MediatorStep, Mediate
  <2>3. n # Initiator /\ n # Target
    BY DEF Mediators
  <2>4. InitiatorLocks'
    BY <1>1, <1>2, <2>2, <2>3 DEF InitiatorLocks
  <2>5. TargetLocks'
    BY <1>1, <1>2, <2>2, <2>3 DEF TargetLocks
  <2> QED
    BY <2>1, <2>4, <2>5 DEF LockInv
<1> QED
  BY <1>1, <1>3, <1>4, MediatorActs

LEMMA EndsKeepMediators ==
  ASSUME MediatorLocks, mediators' = mediators,
         \A d \in Directions : d[1] \in Mediators => sent'[d] = sent[d],
         \A d \in Directions : d[2] \in Mediators => received'[d] = received[d]
  PROVE  MediatorLocks'
<1> SUFFICES ASSUME NEW n \in Mediators
             PROVE  /\ Owns(n, mediators[n], sent', received')
                    /\ ~ mediators[n].active => mediators[n] = NoMediatorTask
  BY DEF MediatorLocks
<1>1. /\ Owns(n, mediators[n], sent, received)
      /\ ~ mediators[n].active => mediators[n] = NoMediatorTask
  BY DEF MediatorLocks
<1> QED
  BY <1>1, OwnsFrame

(* The initiator changes its own locks only.                               *)
LEMMA InitiatorActs ==
  ASSUME TypeInv, InitiatorNext
  PROVE  /\ UNCHANGED <<received, mediators, target>>
         /\ \A d \in Directions : d[1] # Initiator => sent'[d] = sent[d]
         /\ sent' \in Statuses
         /\ initiator' \in [active : BOOLEAN, received_secret_request : BOOLEAN,
                            success : BOOLEAN]
<1>1. sent \in Statuses
  BY DEF TypeInv, TypeOK, Statuses
<1>2. initiator \in [active : BOOLEAN, received_secret_request : BOOLEAN, success : BOOLEAN]
  BY DEF TypeInv, TypeOK
<1>3. \A hop, s : /\ \A d \in Directions : d[1] # Initiator =>
                        [sent EXCEPT ![<<Initiator, hop>>] = s][d] = sent[d]
                  /\ s \in LockStatus => [sent EXCEPT ![<<Initiator, hop>>] = s] \in Statuses
  <2> TAKE hop, s
  <2>1. ASSUME NEW d \in Directions, d[1] # Initiator
        PROVE  [sent EXCEPT ![<<Initiator, hop>>] = s][d] = sent[d]
    <3>1. d # <<Initiator, hop>>
      BY <2>1
    <3> QED
      BY <1>1, <3>1 DEF Statuses
  <2>2. s \in LockStatus => [sent EXCEPT ![<<Initiator, hop>>] = s] \in Statuses
    BY <1>1 DEF Statuses
  <2> QED
    BY <2>1, <2>2
<1>4. "locked" \in LockStatus /\ "claimed" \in LockStatus
  BY DEF LockStatus, Pending
<1>5. ASSUME NEW hop, InitiatorPays(hop)
      PROVE  /\ \A d \in Directions : d[1] # Initiator => sent'[d] = sent[d]
             /\ sent' \in Statuses
             /\ initiator' \in [active : BOOLEAN, received_secret_request : BOOLEAN,
                                success : BOOLEAN]
  BY <1>2, <1>3, <1>4, <1>5, ZenonT(40) DEF InitiatorPays
<1>6. ASSUME NEW hop \in Nodes, InitInitiator(hop)
      PROVE  /\ \A d \in Directions : d[1] # Initiator => sent'[d] = sent[d]
             /\ sent' \in Statuses
             /\ initiator' \in [active : BOOLEAN, received_secret_request : BOOLEAN,
                                success : BOOLEAN]
  <2>1. /\ sent' = [sent EXCEPT ![<<Initiator, hop>>] = "locked"]
        /\ initiator' = [initiator EXCEPT !.active = TRUE]
    BY <1>6 DEF InitInitiator
  <2>2. initiator' \in [active : BOOLEAN, received_secret_request : BOOLEAN, success : BOOLEAN]
    BY <1>2, <2>1
  <2>3. sent' \in Statuses
    BY <1>3, <1>4, <2>1
  <2>4. \A d \in Directions : d[1] # Initiator => sent'[d] = sent[d]
    BY <1>3, <2>1
  <2> QED
    BY <2>2, <2>3, <2>4
<1>7. CASE InitiatorSecretRequest
  BY <1>1, <1>2, <1>7 DEF InitiatorSecretRequest, locks
<1>8. CASE InitiatorOnchainReveal
  BY <1>1, <1>2, <1>5, <1>8 DEF InitiatorOnchainReveal
<1>9. ASSUME NEW b, InitiatorBlock(b)
      PROVE  /\ \A d \in Directions : d[1] # Initiator => sent'[d] = sent[d]
             /\ sent' \in Statuses
             /\ initiator' \in [active : BOOLEAN, received_secret_request : BOOLEAN,
                                success : BOOLEAN]
  <2>1. /\ Tame(sent, SentAt(Initiator, InitiatorHop, Expiration))
        /\ \A d \in Directions : d[1] # Initiator =>
             SentAt(Initiator, InitiatorHop, Expiration)[d] = sent[d]
    BY TameSent
  <2> QED
    BY <1>1, <1>2, <1>9, <2>1 DEF InitiatorBlock, Tame
<1>10. UNCHANGED <<received, mediators, target>>
  BY DEF InitiatorNext, InitInitiator, InitiatorSecretReveal, InitiatorSecretRequest,
         InitiatorOnchainReveal, InitiatorBlock, locks
<1>11. ASSUME NEW hop \in Nodes, InitiatorSecretReveal(hop)
       PROVE  InitiatorPays(hop)
  BY <1>11 DEF InitiatorSecretReveal
<1> QED
  BY <1>5, <1>6, <1>7, <1>8, <1>9, <1>10, <1>11 DEF InitiatorNext
(* The lock of the initiator ends with its task.                           *)
LEMMA InitiatorKeepsLocks ==
  ASSUME TypeInv, LockInv, InitiatorNext
  PROVE  LockInv'
<1>1. /\ UNCHANGED <<received, mediators, target>>
      /\ \A d \in Directions : d[1] # Initiator => sent'[d] = sent[d]
  BY InitiatorActs
<1>2. Initiator # Target /\ Initiator \notin Mediators
  BY RolesAssumption DEF Mediators
<1>3. MediatorLocks'
  BY <1>1, <1>2, EndsKeepMediators DEF LockInv
<1>4. TargetLocks'
  BY <1>1, <1>2 DEF LockInv, TargetLocks
<1>5. sent \in Statuses
  BY DEF TypeInv, TypeOK, Statuses
<1>6. /\ \A d \in Directions : d[2] = Initiator => received'[d] = "none"
      /\ \A d, e \in Directions :
           /\ d[1] = Initiator /\ sent[d] # "none"
           /\ e[1] = Initiator /\ sent[e] # "none"
           => d = e
      /\ \A d \in Directions : d[1] = Initiator /\ sent[d] \in Pending => initiator.active
  BY <1>1 DEF LockInv, InitiatorLocks
<1>7. \A d \in Directions : d[1] = Initiator /\ sent[d] # "none" => d[2] \in InitiatorHop
  BY DirectionType DEF InitiatorHop
<1>8. ASSUME UNCHANGED <<sent, initiator>>
      PROVE  InitiatorLocks'
  BY <1>6, <1>8 DEF InitiatorLocks
<1>9. ASSUME NEW hop \in InitiatorHop, InitiatorPays(hop)
      PROVE  InitiatorLocks'
  <2>1. <<Initiator, hop>> \in Directions /\ sent[<<Initiator, hop>>] # "none"
    BY DEF InitiatorHop
  <2>2. sent'[<<Initiator, hop>>] = "claimed"
    BY <1>5, <1>9, <2>1 DEF InitiatorPays, Statuses
  <2>3. \A d \in Directions : d # <<Initiator, hop>> => sent'[d] = sent[d]
    BY <1>5, <1>9 DEF InitiatorPays, Statuses
  <2>4. \A d \in Directions : d[1] = Initiator /\ sent'[d] # "none" => d = <<Initiator, hop>>
    BY <1>6, <2>1, <2>3
  <2>5. "claimed" \notin Pending /\ "none" \notin Pending
    BY DEF Pending
  <2> QED
    BY <1>6, <2>2, <2>4, <2>5 DEF InitiatorLocks
<1>10. ASSUME NEW hop \in Nodes, InitInitiator(hop)
       PROVE  InitiatorLocks'
  <2>1. /\ InitiatorHop = {} /\ sent' = [sent EXCEPT ![<<Initiator, hop>>] = "locked"]
        /\ initiator' = [initiator EXCEPT !.active = TRUE]
    BY <1>10 DEF InitInitiator
  <2>2. \A d \in Directions : d # <<Initiator, hop>> => sent'[d] = sent[d]
    BY <1>5, <2>1 DEF Statuses
  <2>3. \A d \in Directions : d[1] = Initiator /\ sent'[d] # "none" => d = <<Initiator, hop>>
    BY <1>7, <2>1, <2>2
  <2>4. initiator'.active = TRUE
    BY <2>1 DEF TypeInv, TypeOK
  <2> QED
    BY <1>6, <2>3, <2>4 DEF InitiatorLocks
<1>11. ASSUME InitiatorSecretRequest
       PROVE  InitiatorLocks'
  <2>1. sent' = sent /\ initiator' = [initiator EXCEPT !.received_secret_request = TRUE]
    BY <1>11 DEF InitiatorSecretRequest, locks
  <2>2. initiator'.active = initiator.active
    BY <2>1 DEF TypeInv, TypeOK
  <2> QED
    BY <1>6, <2>1, <2>2 DEF InitiatorLocks
<1>12. ASSUME InitiatorOnchainReveal
       PROVE  InitiatorLocks'
  BY <1>8, <1>9, <1>12 DEF InitiatorOnchainReveal
<1>13. ASSUME NEW b, InitiatorBlock(b)
       PROVE  InitiatorLocks'
  <2>1. CASE UNCHANGED <<sent, initiator>>
    BY <1>8, <2>1
  <2>2. CASE sent' = SentAt(Initiator, InitiatorHop, Expiration)
    <3>1. ASSUME NEW d \in Directions, d[1] = Initiator, sent'[d] # "none"
          PROVE  sent[d] # "none" /\ sent'[d] = "expired"
      <4>1. sent'[d] = IF d[2] \in InitiatorHop THEN Expiration[sent[d]] ELSE sent[d]
        BY <2>2, <3>1, TameSent
      <4>2. sent[d] \in LockStatus /\ Expiration[sent[d]] = "expired"
        BY <1>5, Changes DEF Statuses
      <4>3. d[2] \in InitiatorHop => sent[d] # "none"
        BY <3>1, DirectionType DEF InitiatorHop
      <4> QED
        BY <1>7, <3>1, <4>1, <4>2, <4>3
    <3>2. "expired" \notin Pending /\ "none" \notin Pending
      BY DEF Pending
    <3> QED
      BY <1>6, <3>1, <3>2 DEF InitiatorLocks
  <2> QED
    BY <1>13, <2>1, <2>2 DEF InitiatorBlock
<1>14. ASSUME NEW hop \in Nodes, InitiatorSecretReveal(hop)
       PROVE  InitiatorLocks'
  BY <1>9, <1>14 DEF InitiatorSecretReveal
<1>15. InitiatorLocks'
  BY <1>10, <1>11, <1>12, <1>13, <1>14 DEF InitiatorNext
<1> QED
  BY <1>3, <1>4, <1>15 DEF LockInv

(* The target changes what it has received only.                           *)
LEMMA TargetActs ==
  ASSUME TypeInv, TargetNext
  PROVE  /\ UNCHANGED <<sent, mediators, initiator>>
         /\ \A d \in Directions : d[2] # Target => received'[d] = received[d]
         /\ received' \in Statuses
<1>1. received \in Statuses
  BY DEF TypeInv, TypeOK, Statuses
<1>2. UNCHANGED <<sent, mediators, initiator>>
  BY DEF TargetNext, InitTarget, TargetSecretReveal, TargetUnlock, TargetLockExpired,
         TargetOnchainReveal, TargetBlock, locks
<1>3. ASSUME NEW payer, NEW s \in LockStatus,
             received' = [received EXCEPT ![<<payer, Target>>] = s]
      PROVE  /\ \A d \in Directions : d[2] # Target => received'[d] = received[d]
             /\ received' \in Statuses
  <2>1. ASSUME NEW d \in Directions, d[2] # Target
        PROVE  received'[d] = received[d]
    <3>1. d # <<payer, Target>>
      BY <2>1
    <3> QED
      BY <1>1, <1>3, <3>1 DEF Statuses
  <2>2. received' \in Statuses
    BY <1>1, <1>3 DEF Statuses
  <2> QED
    BY <2>1, <2>2
<1>4. "locked" \in LockStatus /\ "claimed" \in LockStatus /\ "expired" \in LockStatus
  BY DEF LockStatus, Pending
<1>5. ASSUME NEW qs, NEW change \in {Learning, Registration},
             received' = ReceivedAt(Target, qs, change)
      PROVE  /\ \A d \in Directions : d[2] # Target => received'[d] = received[d]
             /\ received' \in Statuses
  BY <1>5, TameReceived DEF Tame
<1>6. ASSUME NEW p \in Nodes, InitTarget(p) \/ TargetUnlock(p) \/ TargetLockExpired(p)
      PROVE  \E s \in LockStatus : received' = [received EXCEPT ![<<p, Target>>] = s]
  BY <1>4, <1>6 DEF InitTarget, TargetUnlock, TargetLockExpired
<1>7. ASSUME NEW p \in Nodes, TargetSecretReveal(p)
      PROVE  received' = ReceivedAt(Target, {p}, Learning)
  BY <1>7 DEF TargetSecretReveal
<1>8. ASSUME TargetOnchainReveal
      PROVE  received' = ReceivedAt(Target, TargetPayer, Registration) \/ received' = received
  BY <1>8 DEF TargetOnchainReveal
<1>9. ASSUME NEW b, TargetBlock(b)
      PROVE  received' = received
  BY <1>9 DEF TargetBlock, locks
<1> QED
  BY <1>1, <1>2, <1>3, <1>5, <1>6, <1>7, <1>8, <1>9 DEF TargetNext
(* The lock the target accepted ends with its task.                        *)
LEMMA TargetKeepsLocks ==
  ASSUME TypeInv, LockInv, TargetNext
  PROVE  LockInv'
<1>1. /\ UNCHANGED <<sent, mediators, initiator>>
      /\ \A d \in Directions : d[2] # Target => received'[d] = received[d]
  BY TargetActs
<1>2. Initiator # Target /\ Target \notin Mediators
  BY RolesAssumption DEF Mediators
<1>3. MediatorLocks'
  BY <1>1, <1>2, EndsKeepMediators DEF LockInv
<1>4. InitiatorLocks'
  BY <1>1, <1>2 DEF LockInv, InitiatorLocks
<1>5. received \in Statuses
  BY DEF TypeInv, TypeOK, Statuses
<1>6. /\ \A d \in Directions : d[1] = Target => sent'[d] = "none"
      /\ \A d, e \in Directions :
           /\ d[2] = Target /\ received[d] # "none"
           /\ e[2] = Target /\ received[e] # "none"
           => d = e
      /\ \A d \in Directions : d[2] = Target /\ received[d] \in Pending => target.active
  BY <1>1 DEF LockInv, TargetLocks
<1>7. \A d \in Directions : d[2] = Target /\ received[d] # "none" => d[1] \in TargetPayer
  BY DirectionType DEF TargetPayer
<1>8. "none" \notin Pending /\ "claimed" \notin Pending /\ "expired" \notin Pending
  BY DEF Pending
<1>9. ASSUME Tame(received, received'), target'.active = target.active,
             \A d \in Directions : received'[d] # "none" => received[d] # "none"
      PROVE  TargetLocks'
  <2>1. \A d \in Directions : received'[d] \in Pending => received[d] \in Pending
    BY <1>9 DEF Tame
  <2> QED
    BY <1>6, <1>9, <2>1 DEF TargetLocks
<1>10. \A qs : \A change \in {Learning, Registration} : \A d \in Directions :
         ReceivedAt(Target, qs, change)[d] # "none" => received[d] # "none"
  <2>1. \A s \in LockStatus : /\ WithSecret(s) # "none" => s # "none"
                              /\ WithRegistration(s) # "none" => s # "none"
    BY DEF WithSecret, WithRegistration
  <2>2. ASSUME NEW qs, NEW change \in {Learning, Registration}, NEW d \in Directions,
               ReceivedAt(Target, qs, change)[d] # "none"
        PROVE  received[d] # "none"
    <3>1. ReceivedAt(Target, qs, change)[d] =
            IF d[2] = Target /\ d[1] \in qs THEN change[received[d]] ELSE received[d]
      BY TameReceived
    <3>2. received[d] \in LockStatus
      BY <1>5 DEF Statuses
    <3>3. change[received[d]] # "none" => received[d] # "none"
      BY <2>1, <3>2, Changes
    <3> QED
      BY <2>2, <3>1, <3>3
  <2> QED
    BY <2>2
<1>11. ASSUME NEW qs, NEW change \in {Learning, Registration},
              received' = ReceivedAt(Target, qs, change), target'.active = target.active
       PROVE  TargetLocks'
  <2>1. Tame(received, received')
    BY <1>11, TameReceived
  <2> QED
    BY <1>9, <1>10, <1>11, <2>1
<1>12. ASSUME received' = received, target'.active = target.active
       PROVE  TargetLocks'
  BY <1>6, <1>12 DEF TargetLocks
<1>13. \A s : [target EXCEPT !.state = s].active = target.active
  BY DEF TypeInv, TypeOK
<1>14. ASSUME NEW payer, NEW s, s \notin Pending, <<payer, Target>> \in Directions,
              received[<<payer, Target>>] # "none",
              received' = [received EXCEPT ![<<payer, Target>>] = s]
       PROVE  TargetLocks'
  <2>1. received'[<<payer, Target>>] = s
    BY <1>5, <1>14 DEF Statuses
  <2>2. \A d \in Directions : d # <<payer, Target>> => received'[d] = received[d]
    BY <1>5, <1>14 DEF Statuses
  <2>3. \A d \in Directions : d[2] = Target /\ received'[d] # "none" => d = <<payer, Target>>
    BY <1>6, <1>14, <2>2
  <2> QED
    BY <1>6, <1>8, <1>14, <2>1, <2>3 DEF TargetLocks
<1>15. ASSUME NEW p \in Nodes, InitTarget(p)
       PROVE  TargetLocks'
  <2>1. /\ TargetPayer = {} /\ received' = [received EXCEPT ![<<p, Target>>] = "locked"]
        /\ target'.active = TRUE
    BY <1>15 DEF InitTarget
  <2>2. \A d \in Directions : d # <<p, Target>> => received'[d] = received[d]
    BY <1>5, <2>1 DEF Statuses
  <2>3. \A d \in Directions : d[2] = Target /\ received'[d] # "none" => d = <<p, Target>>
    BY <1>7, <2>1, <2>2
  <2> QED
    BY <1>6, <2>1, <2>3 DEF TargetLocks
<1>16. ASSUME NEW p \in Nodes, TargetSecretReveal(p)
       PROVE  TargetLocks'
  <2>1. received' = ReceivedAt(Target, {p}, Learning) /\ target'.active = target.active
    BY <1>13, <1>16 DEF TargetSecretReveal
  <2> QED
    BY <1>11, <2>1
<1>17. ASSUME NEW p \in Nodes, TargetUnlock(p)
       PROVE  TargetLocks'
  BY <1>8, <1>14, <1>17 DEF TargetUnlock, TargetPayer
<1>18. ASSUME NEW p \in Nodes, TargetLockExpired(p)
       PROVE  TargetLocks'
  BY <1>8, <1>14, <1>18 DEF TargetLockExpired, AcceptsLockExpired
<1>19. ASSUME TargetOnchainReveal
       PROVE  TargetLocks'
  <2>1. CASE target.active
    <3>1. /\ received' = ReceivedAt(Target, TargetPayer, Registration)
          /\ target'.active = target.active
      BY <1>13, <1>19, <2>1 DEF TargetOnchainReveal
    <3> QED
      BY <1>11, <3>1
  <2>2. CASE ~ target.active
    BY <1>12, <1>19, <2>2 DEF TargetOnchainReveal
  <2> QED
    BY <2>1, <2>2
<1>20. ASSUME NEW b, TargetBlock(b)
       PROVE  TargetLocks'
  <2>1. received' = received
    BY <1>20 DEF TargetBlock, locks
  <2>2. target' = target \/ \E s : target' = [target EXCEPT !.state = s]
    BY <1>20 DEF TargetBlock
  <2>3. target'.active = target.active
    BY <1>13, <2>2
  <2> QED
    BY <1>12, <2>1, <2>3
<1>21. TargetLocks'
  BY <1>15, <1>16, <1>17, <1>18, <1>19, <1>20 DEF TargetNext
<1> QED
  BY <1>3, <1>4, <1>21 DEF LockInv
-----------------------------------------------------------------------------
(* Types.                                                                  *)

InitiatorType == [active : BOOLEAN, received_secret_request : BOOLEAN, success : BOOLEAN]

TargetType == [active : BOOLEAN,
               state : {"secret_request", "reveal_secret", "onchain_secret_reveal",
                        "onchain_unlock", "expired"}]

(* The part of TypeOK that is not about locks and tasks of mediators.      *)
RestType ==
  /\ initiator \in InitiatorType /\ target \in TargetType
  /\ secret_request \in BOOLEAN
  /\ reveals \subseteq Nodes \X Nodes
  /\ expiration \in Nat /\ latest \in Nat /\ registered \in Nat
  /\ transactions \in [Nodes -> Nat]
  /\ block_number \in [Nodes -> Nat]
  /\ noticed \subseteq Nodes
  /\ node_changes \in Nat
  /\ stopped \subseteq Mediators

LEMMA TypeParts ==
  TypeInv <=> /\ sent \in Statuses /\ received \in Statuses
              /\ mediators \in [Mediators -> MediatorTransferState]
              /\ RestType
<1>1. ASSUME mediators \in [Mediators -> MediatorTransferState], NEW n \in Mediators
      PROVE  /\ mediators[n].active \in BOOLEAN
             /\ PairsOf(mediators[n]) \subseteq MediationPairState
             /\ mediators[n].waiting_transfer \in Nodes \cup {NoNode}
             /\ mediators[n].secret \in BOOLEAN
  <2>1. mediators[n] \in MediatorTransferState
    BY <1>1
  <2>2. mediators[n].transfers_pair \in Seq(MediationPairState)
    BY <2>1 DEF MediatorTransferState
  <2>3. PairsOf(mediators[n]) \subseteq MediationPairState
    BY <2>2 DEF PairsOf
  <2> QED
    BY <2>1, <2>3 DEF MediatorTransferState
<1> QED
  BY <1>1 DEF TypeInv, TypeOK, Statuses, RestType, InitiatorType, TargetType

LEMMA TypePartsNext ==
  TypeInv' <=> /\ sent' \in Statuses /\ received' \in Statuses
               /\ mediators' \in [Mediators -> MediatorTransferState]
               /\ RestType'
<1>1. ASSUME mediators' \in [Mediators -> MediatorTransferState], NEW n \in Mediators
      PROVE  /\ mediators'[n].active \in BOOLEAN
             /\ PairsOf(mediators'[n]) \subseteq MediationPairState
             /\ mediators'[n].waiting_transfer \in Nodes \cup {NoNode}
             /\ mediators'[n].secret \in BOOLEAN
  <2>1. mediators'[n] \in MediatorTransferState
    BY <1>1
  <2>2. mediators'[n].transfers_pair \in Seq(MediationPairState)
    BY <2>1 DEF MediatorTransferState
  <2>3. PairsOf(mediators'[n]) \subseteq MediationPairState
    BY <2>2 DEF PairsOf
  <2> QED
    BY <2>1, <2>3 DEF MediatorTransferState
<1> QED
  BY <1>1 DEF TypeInv, TypeOK, Statuses, RestType, InitiatorType, TargetType

LEMMA SendsSecret ==
  ASSUME RestType, NEW n \in Nodes
  PROVE  ChannelSecret(n) \in [Nodes -> Nat]
BY DEF RestType, ChannelSecret

LEMMA BlockType ==
  ASSUME RestType, NEW n \in Nodes, NEW b \in 1..confirmed_block_number, NextBlock(n, b)
  PROVE  block_number' \in [Nodes -> Nat]
<1>1. b \in Nat
  OBVIOUS
<1> QED
  BY <1>1 DEF RestType, NextBlock

LEMMA InitiatorTypes ==
  ASSUME TypeInv, InitiatorNext
  PROVE  RestType'
<1>1. RestType /\ Initiator \in Nodes /\ Target \in Nodes /\ REVEAL_TIMEOUT \in Nat
  BY TypeParts, RolesAssumption, TimingAssumption
<1>2. initiator' \in InitiatorType /\ target' = target
  BY InitiatorActs DEF InitiatorType
<1>3. ASSUME NEW hop \in Nodes, InitInitiator(hop)
      PROVE  RestType'
  <2>1. expiration' \in Nat
    BY <1>1, <1>3 DEF InitInitiator, RestType
  <2> QED
    BY <1>1, <1>2, <1>3, <2>1 DEF InitInitiator, RestType, messages, chain
<1>4. ASSUME NEW hop \in Nodes, InitiatorSecretReveal(hop)
      PROVE  RestType'
  BY <1>1, <1>2, <1>4 DEF InitiatorSecretReveal, RestType, messages, chain
<1>5. ASSUME InitiatorSecretRequest
      PROVE  RestType'
  BY <1>1, <1>2, <1>5 DEF InitiatorSecretRequest, RestType, chain
<1>6. ASSUME InitiatorOnchainReveal
      PROVE  RestType'
  BY <1>1, <1>2, <1>6 DEF InitiatorOnchainReveal, Polls, RestType, messages, chain
<1>7. ASSUME NEW b \in 1..confirmed_block_number, InitiatorBlock(b)
      PROVE  RestType'
  <2>1. block_number' \in [Nodes -> Nat]
    BY <1>1, <1>7, BlockType DEF InitiatorBlock
  <2> QED
    BY <1>1, <1>2, <1>7, <2>1 DEF InitiatorBlock, RestType, messages, chain
<1> QED
  BY <1>3, <1>4, <1>5, <1>6, <1>7 DEF InitiatorNext

LEMMA TargetTypes ==
  ASSUME TypeInv, TargetNext
  PROVE  RestType'
<1>1. RestType /\ Initiator \in Nodes /\ Target \in Nodes
  BY TypeParts, RolesAssumption
<1>2. initiator' = initiator
  BY TargetActs
<1>3. ASSUME NEW p \in Nodes, InitTarget(p)
      PROVE  RestType'
  BY <1>1, <1>2, <1>3 DEF InitTarget, RestType, TargetType, chain, is_safe_to_wait
<1>4. ASSUME NEW p \in Nodes, TargetSecretReveal(p)
      PROVE  RestType'
  BY <1>1, <1>2, <1>4 DEF TargetSecretReveal, RestType, TargetType, chain
<1>5. ASSUME NEW p \in Nodes, TargetUnlock(p) \/ TargetLockExpired(p)
      PROVE  RestType'
  BY <1>1, <1>2, <1>5 DEF TargetUnlock, TargetLockExpired, RestType, TargetType, messages, chain
<1>6. ASSUME TargetOnchainReveal
      PROVE  RestType'
  BY <1>1, <1>2, <1>6 DEF TargetOnchainReveal, Polls, RestType, TargetType, messages, chain
<1>7. ASSUME NEW b \in 1..confirmed_block_number, TargetBlock(b)
      PROVE  RestType'
  <2>1. block_number' \in [Nodes -> Nat]
    BY <1>1, <1>7, BlockType DEF TargetBlock
  <2>2. transactions' = transactions \/ transactions' = ChannelSecret(Target)
    BY <1>7 DEF TargetBlock
  <2>3. transactions' \in [Nodes -> Nat]
    BY <1>1, <2>2, SendsSecret DEF RestType
  <2>4. \/ target' = target
        \/ \E s \in {"expired", "onchain_secret_reveal", target.state} :
             target' = [target EXCEPT !.state = s]
    BY <1>7 DEF TargetBlock
  <2>5. target' \in TargetType
    BY <1>1, <2>4 DEF RestType, TargetType
  <2> QED
    BY <1>1, <1>2, <1>7, <2>1, <2>3, <2>5 DEF TargetBlock, RestType, messages, chain
<1> QED
  BY <1>3, <1>4, <1>5, <1>6, <1>7 DEF TargetNext

(* A step of a mediator that goes on stops nobody.                         *)
LEMMA RunsKeepStopped ==
  ASSUME NEW n, MediatorRuns(n)
  PROVE  stopped' = stopped
<1>1. \A m, payer, routes, rcv : TransferRuns(n, m, payer, routes, rcv) => stopped' = stopped
  BY DEF TransferRuns, Mediate
<1>2. ASSUME NEW p, InitMediatorRuns(n, p) \/ RefundRuns(n, p) \/ RetryRuns(n, p)
      PROVE  stopped' = stopped
  BY <1>1, <1>2 DEF InitMediatorRuns, RefundRuns, RetryRuns
<1>3. ASSUME NEW p, MediatorSecretReveal(n, p) \/ UnlockRuns(n, p) \/ MediatorLockExpired(n, p)
      PROVE  stopped' = stopped
  BY <1>3 DEF MediatorSecretReveal, UnlockRuns, MediatorLockExpired, Mediate
<1>4. ASSUME MediatorOnchainReveal(n) \/ \E b : MediatorBlock(n, b)
      PROVE  stopped' = stopped
  BY <1>4 DEF MediatorOnchainReveal, MediatorBlock, Mediate
<1> QED
  BY <1>2, <1>3, <1>4 DEF MediatorRuns

LEMMA MediatorTypes ==
  ASSUME TypeInv, MediatorLocks, NEW n \in Mediators, MediatorRuns(n)
  PROVE  RestType'
<1>1. RestType /\ n \in Nodes /\ stopped' = stopped
  BY TypeParts, RunsKeepStopped DEF Mediators
<1>2. ASSUME NEW p \in Nodes, InitMediatorRuns(n, p) \/ RefundRuns(n, p)
                              \/ UnlockRuns(n, p) \/ MediatorLockExpired(n, p)
      PROVE  RestType'
  BY <1>1, <1>2 DEF InitMediator, InitMediatorRuns, ReceiveTransferRefund, RefundRuns,
                    MediatorUnlock, UnlockRuns, MediatorLockExpired,
                    RestType, messages, chain
<1>3. ASSUME NEW p \in Nodes, RetryRuns(n, p)
      PROVE  RestType'
  BY <1>1, <1>3 DEF NodeChangeNetworkState, RetryRuns, RestType, messages, chain
<1>4. ASSUME NEW p \in Nodes, MediatorSecretReveal(n, p)
      PROVE  RestType'
  <2> DEFINE known == set_offchain_reveal_state(mediators[n].transfers_pair, p)
  <2>1. known \in Seq(MediationPairState)
    BY TaskFacts, PairSteps DEF SamePairs
  <2>2. reveals' = reveals \cup
          {<<n, known[i].payer>> : i \in {j \in DOMAIN known : should_send_secret(known[j])}}
    BY <1>4 DEF MediatorSecretReveal
  <2> HIDE DEF known
  <2>3. \A i \in DOMAIN known : known[i].payer \in Nodes
    <3>1. \A i \in DOMAIN known : known[i] \in MediationPairState
      BY <2>1
    <3> QED
      BY <3>1 DEF MediationPairState
  <2>4. reveals' \subseteq Nodes \X Nodes
    BY <1>1, <2>2, <2>3 DEF RestType
  <2> QED
    BY <1>1, <1>4, <2>4 DEF MediatorSecretReveal, RestType, chain
<1>5. ASSUME MediatorOnchainReveal(n)
      PROVE  RestType'
  BY <1>1, <1>5 DEF MediatorOnchainReveal, Polls, RestType, messages, chain
<1>6. ASSUME NEW b \in 1..confirmed_block_number, MediatorBlock(n, b)
      PROVE  RestType'
  <2>1. block_number' \in [Nodes -> Nat]
    BY <1>1, <1>6, BlockType DEF MediatorBlock
  <2>2. transactions' = transactions \/ transactions' = ChannelSecret(n)
    BY <1>6 DEF MediatorBlock
  <2>3. transactions' \in [Nodes -> Nat]
    BY <1>1, <2>2, SendsSecret DEF RestType
  <2> QED
    BY <1>1, <1>6, <2>1, <2>3 DEF MediatorBlock, RestType, messages, chain
<1> QED
  BY <1>2, <1>3, <1>4, <1>5, <1>6 DEF MediatorRuns

LEMMA MineTypes ==
  ASSUME RestType, MineBlock
  PROVE  RestType'
<1>1. latest' = latest + 1 /\ (registered' = latest' \/ registered' = registered)
  BY DEF MineBlock
<1> QED
  BY <1>1 DEF MineBlock, RestType, tasks, messages

TaskInv == TypeInv /\ LockInv

LEMMA TaskInvInit == Init => TaskInv
<1> SUFFICES ASSUME Init
             PROVE  TaskInv
  OBVIOUS
<1>1. "none" \in LockStatus /\ "none" \notin Pending
  BY DEF LockStatus, Pending
<1>2. sent \in Statuses /\ received \in Statuses
  BY <1>1 DEF Init, Statuses
<1>3. mediators \in [Mediators -> MediatorTransferState]
  BY EmptyTask DEF Init
<1>4. RestType
  <2>1. initiator \in InitiatorType /\ target \in TargetType
    BY DEF Init, InitiatorType, TargetType
  <2>2. expiration \in Nat /\ latest \in Nat /\ registered \in Nat /\ node_changes \in Nat
    BY TimingAssumption DEF Init
  <2>3. transactions \in [Nodes -> Nat] /\ block_number \in [Nodes -> Nat]
    BY DEF Init
  <2>4. /\ secret_request \in BOOLEAN /\ reveals \subseteq Nodes \X Nodes
        /\ noticed \subseteq Nodes /\ stopped \subseteq Mediators
    BY DEF Init
  <2> QED
    BY <2>1, <2>2, <2>3, <2>4 DEF RestType
<1>5. PairsOf(NoMediatorTask) = {} /\ NoMediatorTask.waiting_transfer = NoNode
  BY DEF PairsOf, NoMediatorTask
<1>6. \A d \in Directions : sent[d] = "none" /\ received[d] = "none"
  BY DEF Init
<1>7. \A n \in Mediators : mediators[n] = NoMediatorTask
  BY DEF Init
<1>8. MediatorLocks
  BY <1>1, <1>5, <1>6, <1>7 DEF MediatorLocks, Owns
<1>9. InitiatorLocks /\ TargetLocks
  BY <1>1, <1>6 DEF InitiatorLocks, TargetLocks
<1> QED
  BY <1>2, <1>3, <1>4, <1>8, <1>9, TypeParts DEF TaskInv, LockInv

LEMMA TaskInvNext == TaskInv /\ [Next]_vars => TaskInv'
<1> SUFFICES ASSUME TaskInv, [Next]_vars
             PROVE  TaskInv'
  OBVIOUS
<1>1. /\ TypeInv /\ LockInv /\ MediatorLocks
      /\ sent \in Statuses /\ received \in Statuses /\ RestType
      /\ mediators \in [Mediators -> MediatorTransferState]
  BY TypeParts DEF TaskInv, LockInv
<1>2. CASE UNCHANGED vars
  BY <1>1, <1>2, TypeParts, TypePartsNext
  DEF TaskInv, LockInv, MediatorLocks, InitiatorLocks, TargetLocks, RestType,
      vars, locks, tasks, messages, chain
<1>3. CASE MineBlock
  <2>1. RestType'
    BY <1>1, <1>3, MineTypes
  <2>2. UNCHANGED <<sent, received, initiator, mediators, target>>
    BY <1>3 DEF MineBlock, locks, tasks
  <2>3. LockInv'
    BY <1>1, <2>2 DEF LockInv, MediatorLocks, InitiatorLocks, TargetLocks
  <2> QED
    BY <1>1, <2>1, <2>2, <2>3, TypePartsNext DEF TaskInv
<1>4. CASE InitiatorNext
  <2>1. RestType' /\ LockInv' /\ UNCHANGED <<received, mediators>> /\ sent' \in Statuses
    BY <1>1, <1>4, InitiatorTypes, InitiatorKeepsLocks, InitiatorActs
  <2> QED
    BY <1>1, <2>1, TypePartsNext DEF TaskInv
<1>5. CASE TargetNext
  <2>1. RestType' /\ LockInv' /\ UNCHANGED <<sent, mediators>> /\ received' \in Statuses
    BY <1>1, <1>5, TargetTypes, TargetKeepsLocks, TargetActs
  <2> QED
    BY <1>1, <2>1, TypePartsNext DEF TaskInv
<1>6. ASSUME NEW n \in Mediators, MediatorRuns(n)
      PROVE  TaskInv'
  <2>1. /\ RestType' /\ LockInv' /\ sent' \in Statuses /\ received' \in Statuses
        /\ mediators' \in [Mediators -> MediatorTransferState]
    BY <1>1, <1>6, MediatorTypes, MediatorKeepsLocks
  <2> QED
    BY <2>1, TypePartsNext DEF TaskInv
<1>7. ASSUME NEW n \in Mediators, Stops(n)
      PROVE  TaskInv'
  <2>1. /\ UNCHANGED <<sent, received, initiator, mediators, target, secret_request, reveals,
                       expiration, latest, registered, transactions, block_number, noticed>>
        /\ stopped' = stopped \cup {n}
        /\ node_changes' \in {node_changes, node_changes + 1}
    BY <1>7, StopsFrame
  <2>2. RestType'
    BY <1>1, <2>1 DEF RestType
  <2>3. LockInv'
    BY <1>1, <2>1 DEF LockInv, MediatorLocks, InitiatorLocks, TargetLocks
  <2> QED
    BY <1>1, <2>1, <2>2, <2>3, TypePartsNext DEF TaskInv
<1> QED
  BY <1>2, <1>3, <1>4, <1>5, <1>6, <1>7, NextCases DEF RunsNext

LEMMA TaskInvRuns ==
  ASSUME TaskInv, RunsNext
  PROVE  TaskInv' /\ stopped' = stopped
<1>1. ASSUME NEW n \in Mediators, MediatorRuns(n)
      PROVE  Next /\ stopped' = stopped
  <2>1. n \in Mediators \ stopped /\ MediatorNext(n)
    BY <1>1 DEF MediatorRuns, MediatorNext, InitMediatorRuns, RefundRuns, RetryRuns, UnlockRuns
  <2> QED
    BY <1>1, <2>1, RunsKeepStopped DEF Next
<1>2. ASSUME MineBlock \/ InitiatorNext \/ TargetNext
      PROVE  Next /\ stopped' = stopped
  BY <1>2 DEF Next, MineBlock, InitiatorNext, InitInitiator, InitiatorSecretReveal,
     InitiatorSecretRequest, InitiatorOnchainReveal, InitiatorBlock, TargetNext, InitTarget,
     TargetSecretReveal, TargetUnlock, TargetLockExpired, TargetOnchainReveal, TargetBlock
<1> QED
  BY <1>1, <1>2, TaskInvNext DEF RunsNext

LEMMA TaskInvAlways == Spec => []TaskInv
BY TaskInvInit, TaskInvNext, PTL DEF Spec

(* Every variable of the payment keeps its type, in every behaviour.       *)
THEOREM TypeCorrect == Spec => []TypeOK
<1>1. TaskInv => TypeOK
  BY DEF TaskInv, TypeInv
<1> QED
  BY <1>1, TaskInvAlways, PTL

(* No task ends before its locks: whatever routes, refunds and retries a   *)
(* mediator goes through, clear_if_finalized never drops the task of a     *)
(* lock that is still locked or unlocked, at a sender or at a receiver.    *)
THEOREM TasksOutliveLocks == Spec => []LocksHaveTasks
<1>1. TaskInv => LocksHaveTasks
  BY LocksHaveOwners DEF TaskInv
<1> QED
  BY <1>1, TaskInvAlways, PTL
-----------------------------------------------------------------------------
(* What a mediator does with the transfer of a payer: it waits ...         *)
Waits(n, m, payer) ==
  /\ sent' = sent
  /\ \/ mediators'[n] = NoMediatorTask
     \/ /\ mediators'[n].transfers_pair = m.transfers_pair
        /\ mediators'[n].waiting_transfer = payer
        /\ mediators'[n].secret = m.secret

(* ... or is forwarded.                                                    *)
Forwards(n, m, payer, payee) ==
  /\ <<n, payee>> \in Directions
  /\ sent' = [sent EXCEPT ![<<n, payee>>] = "locked"]
  /\ mediators'[n].transfers_pair = Append(m.transfers_pair, MediationPair(payer, payee))
  /\ PairsOf(mediators'[n]) = PairsOf(m) \cup {MediationPair(payer, payee)}
  /\ mediators'[n].waiting_transfer = m.waiting_transfer
  /\ mediators'[n].secret = m.secret
  /\ sanity_check(mediators'[n])
  /\ \A p \in PairsOf(m) : p.payee # payee \/ payee = m.transfers_pair[1].payer

(* The transfer is new, or it waited.                                      *)
Takes(n, payer) ==
  LET m == mediators[n]
  IN  /\ payer \in Nodes /\ <<payer, n>> \in Directions
      /\ \/ /\ received[<<payer, n>>] = "none" /\ sent[<<payer, n>>] # "none"
            /\ received' = Receipt(payer, n, "locked")
            /\ m.transfers_pair = <<>> \/ Last(m.transfers_pair).payee = payer
         \/ /\ m.waiting_transfer = payer
            /\ received' = received
      /\ Waits(n, m, payer) \/ \E payee \in Nodes : Forwards(n, m, payer, payee)

NoNewLock ==
  \A d \in Directions : /\ sent[d] = "none" => sent'[d] = "none"
                        /\ received[d] = "none" => received'[d] = "none"

LEMMA MediatedEffect ==
  ASSUME TypeInv, NEW n \in Mediators, NEW m, NEW payer, NEW rcv, Mediated(n, m, payer, rcv),
         m.transfers_pair = mediators[n].transfers_pair,
         m.waiting_transfer = mediators[n].waiting_transfer, m.secret = mediators[n].secret
  PROVE  /\ received' = rcv
         /\ \/ Waits(n, mediators[n], payer)
            \/ \E payee \in Nodes : Forwards(n, mediators[n], payer, payee)
<1>1. PICK k, snt :
        /\ MediatorStep(n, k, snt, rcv) /\ k.secret = m.secret
        /\ \/ /\ k.transfers_pair = m.transfers_pair /\ snt = sent
              /\ k.waiting_transfer = payer
           \/ \E payee \in Nodes :
                /\ k.transfers_pair = Append(m.transfers_pair, MediationPair(payer, payee))
                /\ PairsOf(k) = PairsOf(m) \cup {MediationPair(payer, payee)}
                /\ k.waiting_transfer = m.waiting_transfer
                /\ <<n, payee>> \in Directions
                /\ snt = [sent EXCEPT ![<<n, payee>>] = "locked"]
                /\ sanity_check(k)
                /\ \A p \in PairsOf(m) : p.payee # payee \/ payee = m.transfers_pair[1].payer
  BY DEF Mediated
<1>2. Mediate(n, k, snt, rcv)
  BY <1>1 DEF MediatorStep
<1>3. /\ received' = rcv /\ sent' = snt
      /\ mediators'[n] = clear_if_finalized(n, k, snt, rcv)
  BY <1>2 DEF Mediate, TypeInv
<1>4. mediators'[n] = k \/ mediators'[n] = NoMediatorTask
  BY <1>3 DEF clear_if_finalized
<1>5. PairsOf(m) = PairsOf(mediators[n])
  BY DEF PairsOf
<1>6. CASE snt = sent /\ k.transfers_pair = m.transfers_pair /\ k.waiting_transfer = payer
  BY <1>1, <1>3, <1>4, <1>6 DEF Waits
<1>7. ASSUME NEW payee \in Nodes,
             k.transfers_pair = Append(m.transfers_pair, MediationPair(payer, payee)),
             PairsOf(k) = PairsOf(m) \cup {MediationPair(payer, payee)},
             k.waiting_transfer = m.waiting_transfer,
             <<n, payee>> \in Directions,
             snt = [sent EXCEPT ![<<n, payee>>] = "locked"], sanity_check(k),
             \A p \in PairsOf(m) : p.payee # payee \/ payee = m.transfers_pair[1].payer
      PROVE  Forwards(n, mediators[n], payer, payee)
  <2>1. snt[<<n, payee>>] \in Pending
    BY <1>7 DEF TypeInv, TypeOK, Pending
  <2>2. MediationPair(payer, payee).payee = payee /\ MediationPair(payer, payee) \in PairsOf(k)
    BY <1>7 DEF MediationPair
  <2>3. \E p \in PairsOf(k) : snt[<<n, p.payee>>] \in Pending
    BY <2>1, <2>2
  <2>4. mediators'[n] = k
    BY <1>3, <2>3 DEF clear_if_finalized
  <2> QED
    BY <1>1, <1>3, <1>5, <1>7, <2>4 DEF Forwards
<1> QED
  BY <1>1, <1>3, <1>6, <1>7

LEMMA QuietTask ==
  ASSUME TypeInv, MediatorLocks, NEW n \in Mediators, Quiet(n)
  PROVE  /\ mediators'[n] = NoMediatorTask \/ SameTask(mediators'[n], mediators[n])
         /\ \A d \in Directions : d[1] # n => sent'[d] = sent[d]
         /\ \A d \in Directions : d[2] # n => received'[d] = received[d]
         /\ \A d \in Directions : sent[d] # "none" => sent'[d] # "none"
         /\ \A d \in Directions : received[d] # "none" => received'[d] # "none"
<1>1. PICK k, snt, rcv : MediatorStep(n, k, snt, rcv) /\ SameTask(k, mediators[n])
  BY DEF Quiet
<1>2. mediators'[n] = k \/ mediators'[n] = NoMediatorTask
  BY <1>1, StepLocks
<1>3. sent' = snt /\ received' = rcv
  BY <1>1 DEF MediatorStep, Mediate
<1> QED
  BY <1>1, <1>2, <1>3 DEF MediatorStep

(* Only a transfer that is forwarded or accepted makes a lock.             *)
LEMMA NoNewLocks ==
  ASSUME TypeInv, MediatorLocks, NEW n \in Mediators, NEW change \in {Learning, Registration},
         NEW pairs, NEW b, SamePairs(pairs, mediators[n].transfers_pair), NEW qs,
         sent' = Paid(n, SentAt(n, qs, change), pairs, b),
         received' = ReceivedAt(n, qs, change)
  PROVE  NoNewLock
<1>1. change["none"] = "none" /\ "none" \in LockStatus
  <2>1. "none" \in LockStatus
    BY DEF LockStatus
  <2>2. WithSecret("none") = "none" /\ WithRegistration("none") = "none"
    BY DEF WithSecret, WithRegistration
  <2> QED
    BY <2>1, <2>2, Changes
<1>2. ASSUME NEW d \in Directions, received[d] = "none"
      PROVE  received'[d] = "none"
  BY <1>1, <1>2, TameReceived
<1>3. ASSUME NEW d \in Directions, sent[d] = "none"
      PROVE  sent'[d] = "none"
  <2>1. SentAt(n, qs, change)[d] = "none"
    BY <1>1, <1>3, TameSent
  <2>2. ASSUME d[1] = n, NEW i \in DOMAIN pairs, pairs[i].payee = d[2]
        PROVE  FALSE
    <3>1. /\ i \in DOMAIN mediators[n].transfers_pair
          /\ mediators[n].transfers_pair[i].payee = d[2]
      BY <2>2 DEF SamePairs
    <3>2. mediators[n].transfers_pair[i] \in PairsOf(mediators[n])
      BY <3>1 DEF PairsOf
    <3>3. Owns(n, mediators[n], sent, received)
      BY TaskFacts
    <3>4. sent[<<n, d[2]>>] # "none"
      BY <3>1, <3>2, <3>3 DEF Owns
    <3> QED
      BY <1>3, <2>2, <3>4, DirectionType
  <2> QED
    BY <2>1, <2>2 DEF Paid
<1> QED
  BY <1>2, <1>3 DEF NoNewLock

(* These three handlers take a transfer.                                   *)
LEMMA TakesCases ==
  ASSUME TypeInv, MediatorLocks, NEW n \in Mediators, NEW x \in Nodes,
         \/ InitMediatorRuns(n, x) \/ RefundRuns(n, x) \/ RetryRuns(n, x)
  PROVE  \E payer \in Nodes : Takes(n, payer)
<1> DEFINE m == mediators[n]
<1>1. /\ m \in MediatorTransferState /\ m.transfers_pair \in Seq(MediationPairState)
      /\ Owns(n, m, sent, received)
  BY TaskFacts
<1>2. ASSUME NEW p \in Nodes, InitMediatorRuns(n, p)
      PROVE  Takes(n, p)
  <2>1. PICK k : /\ k.transfers_pair = <<>> /\ k.secret = FALSE /\ k.waiting_transfer = NoNode
                 /\ Mediated(n, k, p, Receipt(p, n, "locked"))
    BY <1>2, InitMediatorStep
  <2>2. m = NoMediatorTask /\ m.transfers_pair = <<>> /\ m.waiting_transfer = NoNode
        /\ m.secret = FALSE
    <3>1. m = NoMediatorTask
      BY <1>2 DEF InitMediator, InitMediatorRuns, MediatorLocks
    <3> QED
      BY <3>1 DEF NoMediatorTask
  <2>3. /\ received' = Receipt(p, n, "locked")
        /\ Waits(n, m, p) \/ \E payee \in Nodes : Forwards(n, m, p, payee)
    BY <2>1, <2>2, MediatedEffect
  <2> QED
    BY <1>2, <2>2, <2>3 DEF InitMediator, InitMediatorRuns, Takes
<1>3. ASSUME NEW p \in Nodes, RefundRuns(n, p)
      PROVE  Takes(n, p)
  <2>1. Mediated(n, m, p, Receipt(p, n, "locked"))
    BY <1>3, RefundStep
  <2>2. /\ received' = Receipt(p, n, "locked")
        /\ Waits(n, m, p) \/ \E payee \in Nodes : Forwards(n, m, p, payee)
    BY <2>1, MediatedEffect
  <2>3. /\ received[<<p, n>>] = "none" /\ sent[<<p, n>>] # "none"
        /\ m.transfers_pair # <<>> /\ Last(m.transfers_pair).payee = p
    BY <1>3 DEF ReceiveTransferRefund, RefundRuns, Last
  <2>4. Last(m.transfers_pair) \in PairsOf(m)
    BY <1>1, <2>3 DEF Last, PairsOf
  <2>5. <<n, p>> \in Directions
    BY <1>1, <2>3, <2>4 DEF Owns
  <2>6. <<p, n>> \in Directions
    BY <2>5, DirectionType
  <2> QED
    BY <2>2, <2>3, <2>6 DEF Takes
<1>4. ASSUME NEW hop \in Nodes, RetryRuns(n, hop)
      PROVE  Takes(n, m.waiting_transfer)
  <2>1. Mediated(n, m, m.waiting_transfer, received)
    BY <1>4, NodeChangeStep
  <2>2. /\ received' = received
        /\ \/ Waits(n, m, m.waiting_transfer)
           \/ \E payee \in Nodes : Forwards(n, m, m.waiting_transfer, payee)
    BY <2>1, MediatedEffect
  <2>3. m.waiting_transfer # NoNode
    BY <1>4 DEF NodeChangeNetworkState, RetryRuns
  <2>4. m.waiting_transfer \in Nodes /\ <<m.waiting_transfer, n>> \in Directions
    BY <1>1, <2>3 DEF MediatorTransferState, Owns
  <2> QED
    BY <2>2, <2>4 DEF Takes
<1>5. Takes(n, m.waiting_transfer) => \E payer \in Nodes : Takes(n, payer)
  BY DEF Takes
<1> HIDE DEF m
<1> QED
  BY <1>2, <1>3, <1>4, <1>5

(* The other handlers of an active task start no lock.                     *)
QuietHandler(n) ==
  \/ \E p \in Nodes : \/ MediatorSecretReveal(n, p)
                      \/ UnlockRuns(n, p) \/ MediatorLockExpired(n, p)
  \/ mediators[n].active /\ MediatorOnchainReveal(n)
  \/ mediators[n].active /\ \E b \in 1..confirmed_block_number : MediatorBlock(n, b)

LEMMA QuietCases ==
  ASSUME TypeInv, MediatorLocks, NEW n \in Mediators, QuietHandler(n)
  PROVE  Quiet(n) /\ NoNewLock
<1> DEFINE m == mediators[n]
<1>1. /\ m \in MediatorTransferState /\ m.transfers_pair \in Seq(MediationPairState)
      /\ Owns(n, m, sent, received) /\ sent \in Statuses /\ received \in Statuses
  BY TaskFacts
<1>2. ASSUME NEW p \in Nodes, MediatorSecretReveal(n, p)
      PROVE  Quiet(n) /\ NoNewLock
  <2> DEFINE known == set_offchain_reveal_state(m.transfers_pair, p)
             told  == events_for_secretreveal(known)
  <2>1. SamePairs(told, m.transfers_pair)
    <3>1. SamePairs(known, m.transfers_pair)
      BY <1>1, PairSteps
    <3>2. known \in Seq(MediationPairState)
      BY <3>1 DEF SamePairs
    <3>3. SamePairs(told, known)
      BY <3>2, PairSteps
    <3> QED
      BY <3>1, <3>3, SamePairsTransitive
  <2>2. /\ sent' = Paid(n, SentAt(n, PartnersOf(m), Learning), told, block_number[n])
        /\ received' = ReceivedAt(n, PartnersOf(m), Learning)
    BY <1>2 DEF MediatorSecretReveal, Mediate
  <2> HIDE DEF told
  <2> QED
    BY <1>2, <2>1, <2>2, SecretRevealStep, NoNewLocks
<1>3. ASSUME MediatorOnchainReveal(n), m.active
      PROVE  Quiet(n) /\ NoNewLock
  <2>1. SamePairs(m.transfers_pair, m.transfers_pair)
    BY <1>1 DEF SamePairs
  <2>2. /\ sent' = Paid(n, SentAt(n, PartnersOf(m), Registration), m.transfers_pair, registered)
        /\ received' = ReceivedAt(n, PartnersOf(m), Registration)
    BY <1>3 DEF MediatorOnchainReveal, Mediate
  <2> QED
    BY <1>3, <2>1, <2>2, OnchainRevealStep, NoNewLocks
<1>4. ASSUME NEW p \in Nodes, UnlockRuns(n, p) \/ MediatorLockExpired(n, p)
      PROVE  Quiet(n) /\ NoNewLock
  <2>1. Quiet(n)
    BY <1>4, UnlockStep, LockExpiredStep
  <2>2. sent' = sent /\ received[<<p, n>>] \in Pending
        /\ \E s : received' = Receipt(p, n, s)
    BY <1>4 DEF MediatorUnlock, UnlockRuns, MediatorLockExpired, Mediate, AcceptsLockExpired,
                Receipt
  <2>3. received[<<p, n>>] # "none"
    BY <2>2 DEF Pending
  <2> QED
    BY <1>1, <2>1, <2>2, <2>3 DEF NoNewLock, Receipt, Statuses
<1>5. ASSUME NEW b, MediatorBlock(n, b), m.active
      PROVE  Quiet(n) /\ NoNewLock
  <2> DEFINE lost == {p.payee : p \in {q \in PairsOf(m) : LockHasExpired(n, q, b)}}
  <2>1. Quiet(n)
    BY <1>5, BlockStep
  <2>2. sent' = SentAt(n, lost, Expiration) /\ received' = received
    BY <1>5 DEF MediatorBlock, Mediate
  <2>3. ASSUME NEW d \in Directions, sent[d] = "none"
        PROVE  sent'[d] = "none"
    <3>1. ASSUME d[1] = n, d[2] \in lost
          PROVE  FALSE
      <4>1. PICK q \in PairsOf(m) : q.payee = d[2] /\ LockHasExpired(n, q, b)
        BY <3>1
      <4> QED
        BY <2>3, <3>1, <4>1, DirectionType DEF LockHasExpired
    <3> HIDE DEF lost
    <3> QED
      BY <2>2, <2>3, <3>1, TameSent
  <2> QED
    BY <2>1, <2>2, <2>3 DEF NoNewLock
<1> HIDE DEF m
<1> QED
  BY <1>2, <1>3, <1>4, <1>5 DEF QuietHandler, m

(* A step of a mediator takes a transfer, or starts no lock.               *)
LEMMA MediatorHandlers ==
  ASSUME NEW n \in Mediators, MediatorRuns(n)
  PROVE  \/ \E p \in Nodes : \/ InitMediatorRuns(n, p) \/ RefundRuns(n, p)
                             \/ RetryRuns(n, p)
         \/ QuietHandler(n)
         \/ UNCHANGED <<sent, received, mediators>>
<1>1. ASSUME \/ MediatorOnchainReveal(n) /\ ~ mediators[n].active
             \/ \E b \in 1..confirmed_block_number : MediatorBlock(n, b) /\ ~ mediators[n].active
      PROVE  UNCHANGED <<sent, received, mediators>>
  BY <1>1 DEF MediatorOnchainReveal, MediatorBlock, locks
<1> QED
  BY <1>1 DEF MediatorRuns, QuietHandler

LEMMA MediatorCases ==
  ASSUME TypeInv, MediatorLocks, NEW n \in Mediators, MediatorRuns(n)
  PROVE  \/ \E payer \in Nodes : Takes(n, payer)
         \/ Quiet(n) /\ NoNewLock
         \/ UNCHANGED <<sent, received, mediators>>
BY MediatorHandlers, TakesCases, QuietCases
-----------------------------------------------------------------------------
(* There is one transfer to be forwarded at a time, unless a mediator      *)
(* forwards the same one twice.                                            *)

(* No task has two pairs with the same payer.                              *)
ForwardedOnce ==
  \A n \in Mediators :
    LET pairs == mediators[n].transfers_pair
    IN  \A i, j \in DOMAIN pairs : pairs[i].payer = pairs[j].payer => i = j

(* The transfer that waits at a mediator has not been forwarded yet.       *)
Fresh(m) ==
  /\ m.waiting_transfer # NoNode
  /\ \A p \in PairsOf(m) : p.payer # m.waiting_transfer

(* The lock of d is on its way, at the target, or waits.                   *)
Tip(d) ==
  /\ sent[d] # "none"
  /\ \/ received[d] = "none"
     \/ d[2] = Target
     \/ /\ d[2] \in Mediators /\ mediators[d[2]].waiting_transfer = d[1]
        /\ Fresh(mediators[d[2]])

TipInv ==
  /\ \A d, e \in Directions : Tip(d) /\ Tip(e) => d = e
  /\ \A d \in Directions : received[d] # "none" => sent[d] # "none"

LEMMA ForwardsFresh ==
  ASSUME TypeInv, MediatorLocks, NEW n \in Mediators, NEW payer \in Nodes, NEW payee \in Nodes,
         Forwards(n, mediators[n], payer, payee), ForwardedOnce'
  PROVE  \A p \in PairsOf(mediators[n]) : p.payer # payer
<1> DEFINE pairs == mediators[n].transfers_pair
           x == MediationPair(payer, payee)
           q == mediators'[n].transfers_pair
<1>1. pairs \in Seq(MediationPairState)
  BY TaskFacts
<1>2. x \in MediationPairState /\ x.payer = payer
  BY DEF MediationPair, MediationPairState
<1>3. q = Append(pairs, x)
  BY DEF Forwards
<1>4. /\ Len(q) = Len(pairs) + 1 /\ q \in Seq(MediationPairState)
      /\ \A i \in 1 .. Len(pairs) : q[i] = pairs[i]
      /\ q[Len(pairs) + 1] = x
  <2> HIDE DEF x, pairs, q
  <2> QED
    BY <1>1, <1>2, <1>3, AppendProperties
<1>5. \A i, j \in DOMAIN q : q[i].payer = q[j].payer => i = j
  BY DEF ForwardedOnce
<1> HIDE DEF x, q
<1>6. ASSUME NEW p \in PairsOf(mediators[n]), p.payer = payer
      PROVE  FALSE
  <2>1. PICK i \in DOMAIN pairs : p = pairs[i]
    BY DEF PairsOf
  <2> HIDE DEF pairs
  <2>2. Len(pairs) \in Nat /\ i \in 1 .. Len(pairs)
    BY <1>1, <2>1
  <2>3. i \in DOMAIN q /\ Len(pairs) + 1 \in DOMAIN q /\ i # Len(pairs) + 1
    BY <1>4, <2>2
  <2>4. q[i].payer = q[Len(pairs) + 1].payer
    BY <1>2, <1>4, <1>6, <2>1, <2>2
  <2> QED
    BY <1>5, <2>3, <2>4
<1> QED
  BY <1>6

-----------------------------------------------------------------------------
(* The assertions of sanity_check hold of every task: the handlers that    *)
(* could break them check them, the others keep them.                      *)

Chained(pairs) == \A i \in 1..(Len(pairs) - 1) : pairs[i].payee = pairs[i + 1].payer

PaidPair(p) == p.payee_state \in STATE_TRANSFER_PAID \/ p.payer_state \in STATE_TRANSFER_PAID

LEMMA SanityCheckParts ==
  ASSUME NEW m
  PROVE  sanity_check(m) <=> /\ \A p \in PairsOf(m) : PaidPair(p) => m.secret
                             /\ Chained(m.transfers_pair)
<1>1. \A p : {p.payee_state, p.payer_state} \cap STATE_TRANSFER_PAID # {} <=> PaidPair(p)
  BY DEF PaidPair
<1> QED
  BY <1>1 DEF sanity_check, Chained

LEMMA ChainedSame ==
  ASSUME NEW pairs \in Seq(MediationPairState), NEW q, SamePairs(q, pairs), Chained(pairs)
  PROVE  Chained(q)
<1>1. /\ Len(q) = Len(pairs) /\ DOMAIN pairs = 1..Len(pairs) /\ Len(pairs) \in Nat
      /\ \A i \in 1..Len(pairs) : q[i].payer = pairs[i].payer /\ q[i].payee = pairs[i].payee
  BY DEF SamePairs
<1> SUFFICES ASSUME NEW i \in 1..(Len(pairs) - 1)
             PROVE  q[i].payee = q[i + 1].payer
  BY <1>1 DEF Chained
<1>2. i \in 1..Len(pairs) /\ i + 1 \in 1..Len(pairs)
  BY <1>1
<1> QED
  BY <1>1, <1>2 DEF Chained

LEMMA ChainedAppend ==
  ASSUME NEW pairs \in Seq(MediationPairState), Chained(pairs),
         NEW payer \in Nodes, NEW payee \in Nodes, pairs = <<>> \/ Last(pairs).payee = payer
  PROVE  Chained(Append(pairs, MediationPair(payer, payee)))
<1> DEFINE x == MediationPair(payer, payee)
           q == Append(pairs, x)
<1>1. x \in MediationPairState /\ x.payer = payer
  BY DEF MediationPair, MediationPairState
<1>2. /\ Len(q) = Len(pairs) + 1
      /\ \A i \in 1 .. Len(pairs) : q[i] = pairs[i]
      /\ q[Len(pairs) + 1] = x
  BY <1>1, AppendProperties
<1>3. Len(pairs) \in Nat /\ (pairs = <<>> => Len(pairs) = 0)
  OBVIOUS
<1> HIDE DEF x, q
<1> SUFFICES ASSUME NEW i \in 1..Len(pairs)
             PROVE  q[i].payee = q[i + 1].payer
  BY <1>2, <1>3 DEF Chained, q, x
<1>4. CASE i = Len(pairs)
  BY <1>1, <1>2, <1>3, <1>4 DEF Last
<1>5. CASE i # Len(pairs)
  <2>1. i \in 1..(Len(pairs) - 1) /\ i + 1 \in 1..Len(pairs)
    BY <1>3, <1>5
  <2> QED
    BY <1>2, <2>1 DEF Chained
<1> QED
  BY <1>4, <1>5

PayersDiffer(pairs) == \A i, j \in DOMAIN pairs : pairs[i].payer = pairs[j].payer => i = j

(* The transfer goes back to its first payer at the end only.              *)
LEMMA BackAtTheEnd ==
  ASSUME NEW pairs \in Seq(MediationPairState), Chained(pairs), PayersDiffer(pairs),
         NEW i \in 1..Len(pairs), pairs[i].payee = pairs[1].payer
  PROVE  i = Len(pairs)
<1>1. Len(pairs) \in Nat /\ DOMAIN pairs = 1..Len(pairs)
  OBVIOUS
<1>2. ASSUME i # Len(pairs)
      PROVE  FALSE
  <2>1. i \in 1..(Len(pairs) - 1) /\ i + 1 \in DOMAIN pairs /\ 1 \in DOMAIN pairs /\ i + 1 # 1
    BY <1>1, <1>2
  <2>2. pairs[i + 1].payer = pairs[1].payer
    BY <2>1 DEF Chained
  <2> QED
    BY <2>1, <2>2 DEF PayersDiffer
<1> QED
  BY <1>2

LEMMA Cleared ==
  ASSUME TypeInv, NEW n \in Mediators, NEW k, NEW snt, NEW rcv, Mediate(n, k, snt, rcv)
  PROVE  mediators'[n] = k \/ (mediators'[n] = NoMediatorTask /\ ~ mediators'[n].active)
<1>1. mediators'[n] = clear_if_finalized(n, k, snt, rcv)
  BY DEF Mediate, TypeInv
<1>2. ~ NoMediatorTask.active
  BY DEF NoMediatorTask
<1> QED
  BY <1>1, <1>2 DEF clear_if_finalized

SaneInv == \A n \in Mediators : sanity_check(mediators[n])

LEMMA EmptyIsSane == sanity_check(NoMediatorTask)
<1>1. NoMediatorTask.transfers_pair = <<>> /\ PairsOf(NoMediatorTask) = {}
  BY DEF NoMediatorTask, PairsOf
<1>2. Chained(<<>>)
  BY DEF Chained
<1> QED
  BY <1>1, <1>2, SanityCheckParts

LEMMA TakesSane ==
  ASSUME NEW n \in Mediators, NEW payer \in Nodes, Takes(n, payer), sanity_check(mediators[n])
  PROVE  sanity_check(mediators'[n])
<1>1. ASSUME Waits(n, mediators[n], payer), mediators'[n] # NoMediatorTask
      PROVE  sanity_check(mediators'[n])
  <2>1. /\ mediators'[n].transfers_pair = mediators[n].transfers_pair
        /\ mediators'[n].secret = mediators[n].secret
    BY <1>1 DEF Waits
  <2>2. PairsOf(mediators'[n]) = PairsOf(mediators[n])
    BY <2>1 DEF PairsOf
  <2> QED
    BY <2>1, <2>2, SanityCheckParts
<1> QED
  BY <1>1, EmptyIsSane DEF Takes, Forwards

(* A state of a pair that changes is not paid.                             *)
NotPaid(q, pairs) ==
  \A i \in DOMAIN pairs : PaidPair(q[i]) => PaidPair(pairs[i])

LEMMA ExpiresNotPaid ==
  ASSUME NEW pairs \in Seq(MediationPairState), NEW n, NEW b, NEW rcv
  PROVE  /\ NotPaid(events_to_remove_expired_locks(n, pairs, b), pairs)
         /\ NotPaid(events_for_onchain_secretreveal_if_dangerzone(n, pairs, b), pairs)
         /\ NotPaid(events_for_expired_pairs(n, pairs, b), pairs)
         /\ NotPaid(ExpiredPairs(n, pairs, rcv), pairs)
<1>1. \A i \in DOMAIN pairs : pairs[i] \in MediationPairState
  OBVIOUS
<1>2. ASSUME NEW p \in MediationPairState
      PROVE  /\ PaidPair([p EXCEPT !.payee_state = "payee_expired"]) => PaidPair(p)
             /\ PaidPair([p EXCEPT !.payer_state = "payer_expired"]) => PaidPair(p)
             /\ PaidPair([p EXCEPT !.payer_state = "payer_waiting_secret_reveal"]) => PaidPair(p)
  BY DEF PaidPair, MediationPairState, STATE_TRANSFER_PAID
<1>3. NotPaid(events_to_remove_expired_locks(n, pairs, b), pairs)
  BY <1>1, <1>2 DEF NotPaid, events_to_remove_expired_locks, MapPairs
<1>4. NotPaid(events_for_onchain_secretreveal_if_dangerzone(n, pairs, b), pairs)
  BY <1>1, <1>2 DEF NotPaid, events_for_onchain_secretreveal_if_dangerzone, MapPairs
<1>5. NotPaid(events_for_expired_pairs(n, pairs, b), pairs)
  BY <1>1, <1>2 DEF NotPaid, events_for_expired_pairs, MapPairs
<1>6. NotPaid(ExpiredPairs(n, pairs, rcv), pairs)
  BY <1>1, <1>2 DEF NotPaid, ExpiredPairs, MapPairs
<1> QED
  BY <1>3, <1>4, <1>5, <1>6

LEMMA NotPaidSane ==
  ASSUME NEW m \in MediatorTransferState, NEW q, SamePairs(q, m.transfers_pair),
         NotPaid(q, m.transfers_pair), sanity_check(m)
  PROVE  sanity_check([m EXCEPT !.transfers_pair = q])
<1> DEFINE k == [m EXCEPT !.transfers_pair = q]
<1>1. k.transfers_pair = q /\ k.secret = m.secret /\ m.transfers_pair \in Seq(MediationPairState)
  BY DEF MediatorTransferState
<1>2. Chained(q)
  BY <1>1, SanityCheckParts, ChainedSame
<1> HIDE DEF k
<1>3. ASSUME NEW p \in PairsOf(k), PaidPair(p)
      PROVE  m.secret
  <2>1. PICK i \in DOMAIN q : p = q[i]
    BY <1>1, <1>3 DEF PairsOf
  <2>2. i \in DOMAIN m.transfers_pair
    BY <2>1 DEF SamePairs
  <2>3. m.transfers_pair[i] \in PairsOf(m)
    BY <2>2 DEF PairsOf
  <2> QED
    BY <1>3, <2>1, <2>2, <2>3, SanityCheckParts DEF NotPaid
<1>4. sanity_check(k)
  BY <1>1, <1>2, <1>3, SanityCheckParts
<1> QED
  BY <1>4 DEF k

LEMMA SecretSane ==
  ASSUME NEW m \in MediatorTransferState, NEW q, SamePairs(q, m.transfers_pair), sanity_check(m)
  PROVE  sanity_check([m EXCEPT !.secret = TRUE, !.transfers_pair = q])
<1> DEFINE k == [m EXCEPT !.secret = TRUE, !.transfers_pair = q]
<1>1. k.transfers_pair = q /\ k.secret = TRUE /\ m.transfers_pair \in Seq(MediationPairState)
  BY DEF MediatorTransferState
<1>2. Chained(q)
  BY <1>1, SanityCheckParts, ChainedSame
<1> HIDE DEF k
<1>3. sanity_check(k)
  BY <1>1, <1>2, SanityCheckParts
<1> QED
  BY <1>3 DEF k

LEMMA QuietSane ==
  ASSUME TypeInv, MediatorLocks, NEW n \in Mediators, QuietHandler(n), sanity_check(mediators[n])
  PROVE  sanity_check(mediators'[n])
<1> DEFINE m     == mediators[n]
           pairs == m.transfers_pair
<1>1. m \in MediatorTransferState /\ pairs \in Seq(MediationPairState)
  BY TaskFacts
<1>2. ASSUME NEW k, NEW snt, NEW rcv, Mediate(n, k, snt, rcv), sanity_check(k)
      PROVE  sanity_check(mediators'[n])
  BY <1>2, Cleared, EmptyIsSane
<1>3. ASSUME NEW p \in Nodes, MediatorSecretReveal(n, p)
      PROVE  sanity_check(mediators'[n])
  <2> DEFINE known == set_offchain_reveal_state(pairs, p)
             told  == events_for_secretreveal(known)
             q     == events_for_balanceproof(told, block_number[n])
  <2>1. SamePairs(known, pairs)
    BY <1>1, PairSteps
  <2>2. known \in Seq(MediationPairState)
    BY <2>1 DEF SamePairs
  <2>3. SamePairs(told, known)
    BY <2>2, PairSteps
  <2>4. told \in Seq(MediationPairState)
    BY <2>3 DEF SamePairs
  <2>5. SamePairs(q, told)
    BY <2>4, PairSteps
  <2>6. SamePairs(q, pairs)
    BY <2>1, <2>3, <2>5, SamePairsTransitive
  <2>7. \E snt, rcv : Mediate(n, [m EXCEPT !.secret = TRUE, !.transfers_pair = q], snt, rcv)
    BY <1>3 DEF MediatorSecretReveal
  <2> HIDE DEF q
  <2> QED
    BY <1>1, <1>2, <2>6, <2>7, SecretSane
<1>4. ASSUME m.active, MediatorOnchainReveal(n)
      PROVE  sanity_check(mediators'[n])
  <2> DEFINE q == events_for_balanceproof(pairs, registered)
  <2>1. SamePairs(q, pairs)
    BY <1>1, PairSteps
  <2>2. \E snt, rcv : Mediate(n, [m EXCEPT !.secret = TRUE, !.transfers_pair = q], snt, rcv)
    BY <1>4 DEF MediatorOnchainReveal
  <2> HIDE DEF q
  <2> QED
    BY <1>1, <1>2, <2>1, <2>2, SecretSane
<1>5. ASSUME NEW p \in Nodes, UnlockRuns(n, p)
      PROVE  sanity_check(mediators'[n])
  BY <1>2, <1>5 DEF UnlockRuns
<1>6. ASSUME NEW p \in Nodes, MediatorLockExpired(n, p)
      PROVE  sanity_check(mediators'[n])
  <2> DEFINE q == ExpiredPairs(n, pairs, Receipt(p, n, "expired"))
  <2>1. SamePairs(q, pairs) /\ NotPaid(q, pairs)
    BY <1>1, PairSteps, ExpiresNotPaid
  <2>2. \E snt, rcv : Mediate(n, [m EXCEPT !.transfers_pair = q], snt, rcv)
    BY <1>6 DEF MediatorLockExpired, ExpiredPairs, Receipt
  <2> HIDE DEF q
  <2> QED
    BY <1>1, <1>2, <2>1, <2>2, NotPaidSane
<1>7. ASSUME m.active, NEW b, MediatorBlock(n, b)
      PROVE  sanity_check(mediators'[n])
  <2> DEFINE removed  == events_to_remove_expired_locks(n, pairs, b)
             revealed == events_for_onchain_secretreveal_if_dangerzone(n, removed, b)
             q        == events_for_expired_pairs(n, revealed, b)
  <2>1. SamePairs(removed, pairs) /\ NotPaid(removed, pairs)
    BY <1>1, PairSteps, ExpiresNotPaid
  <2>2. removed \in Seq(MediationPairState) /\ DOMAIN removed = DOMAIN pairs
    BY <2>1 DEF SamePairs
  <2>3. SamePairs(revealed, removed) /\ NotPaid(revealed, removed)
    BY <2>2, PairSteps, ExpiresNotPaid
  <2>4. revealed \in Seq(MediationPairState) /\ DOMAIN revealed = DOMAIN pairs
    BY <2>2, <2>3 DEF SamePairs
  <2>5. SamePairs(q, revealed) /\ NotPaid(q, revealed)
    BY <2>4, PairSteps, ExpiresNotPaid
  <2>6. \E snt, rcv : Mediate(n, [m EXCEPT !.transfers_pair = q], snt, rcv)
    BY <1>7 DEF MediatorBlock
  <2> HIDE DEF q, revealed, removed
  <2>7. SamePairs(q, pairs)
    BY <2>1, <2>3, <2>5, SamePairsTransitive
  <2>8. NotPaid(q, pairs)
    BY <2>1, <2>2, <2>3, <2>4, <2>5 DEF NotPaid
  <2> QED
    BY <1>1, <1>2, <2>6, <2>7, <2>8, NotPaidSane
<1> QED
  BY <1>3, <1>4, <1>5, <1>6, <1>7 DEF QuietHandler

LEMMA SaneInvNext ==
  ASSUME TaskInv, SaneInv, [Next]_vars
  PROVE  SaneInv'
<1>1. TypeInv /\ MediatorLocks
  BY DEF TaskInv, LockInv
<1>2. CASE mediators' = mediators
  BY <1>2 DEF SaneInv
<1>3. ASSUME \/ MineBlock \/ InitiatorNext \/ TargetNext \/ UNCHANGED vars
             \/ \E n \in Mediators : Stops(n)
      PROVE  mediators' = mediators
  BY <1>1, <1>3, InitiatorActs, TargetActs, StopsFrame DEF MineBlock, vars, tasks
<1>4. ASSUME NEW n \in Mediators, MediatorRuns(n)
      PROVE  SaneInv'
  <2>1. \A j \in Mediators : sanity_check(mediators[j])
    BY DEF SaneInv
  <2>2. \A j \in Mediators : j # n => mediators'[j] = mediators[j]
    BY <1>1, <1>4, MediatorActs, StepLocks
  <2>3. sanity_check(mediators'[n])
    <3>1. CASE QuietHandler(n)
      BY <1>1, <2>1, <3>1, QuietSane
    <3>2. ASSUME NEW x \in Nodes, InitMediatorRuns(n, x) \/ RefundRuns(n, x) \/ RetryRuns(n, x)
          PROVE  sanity_check(mediators'[n])
      BY <1>1, <2>1, <3>2, TakesCases, TakesSane
    <3> QED
      BY <1>4, <2>1, <3>1, <3>2, MediatorHandlers
  <2> QED
    BY <2>1, <2>2, <2>3 DEF SaneInv
<1> QED
  BY <1>2, <1>3, <1>4, NextCases DEF RunsNext
-----------------------------------------------------------------------------
(* The start of the payment.                                               *)

(* Before the payment is started, nothing has happened.                    *)
Pristine ==
  /\ \A d \in Directions : sent[d] = "none" /\ received[d] = "none"
  /\ ~ initiator.active /\ ~ target.active
  /\ \A n \in Mediators : ~ mediators[n].active
  /\ \A n \in Nodes : transactions[n] = 0
  /\ registered = 0

StartInv == InitiatorHop = {} => Pristine

(* A lock of the initiator is never forgotten.                             *)
LEMMA HopStays ==
  ASSUME TaskInv, RunsNext, InitiatorHop' = {}
  PROVE  InitiatorHop = {} /\ ~ \E hop \in Nodes : InitInitiator(hop)
<1>1. TypeInv /\ LockInv /\ MediatorLocks /\ sent \in Statuses
  BY TypeParts DEF TaskInv, LockInv
<1>2. \A d \in Directions : d[1] = Initiator => sent'[d] = "none"
  <2>1. \A d \in Directions : d[1] = Initiator => d[2] \in Nodes /\ d = <<Initiator, d[2]>>
    BY DirectionType
  <2>2. InitiatorHop' = {b \in Nodes : <<Initiator, b>> \in Directions
                                      /\ sent'[<<Initiator, b>>] # "none"}
    BY DEF InitiatorHop
  <2> QED
    BY <2>1, <2>2
<1>3. ASSUME NEW hop \in Nodes, InitInitiator(hop)
      PROVE  FALSE
  <2>1. <<Initiator, hop>> \in Directions
    BY <1>3, DirectionType, RolesAssumption DEF InitInitiator
  <2>2. sent'[<<Initiator, hop>>] = "locked"
    BY <1>1, <1>3, <2>1 DEF InitInitiator, Statuses
  <2> QED
    BY <1>2, <2>1, <2>2
<1>4. ASSUME NEW hop \in InitiatorHop, InitiatorPays(hop)
      PROVE  FALSE
  <2>1. <<Initiator, hop>> \in Directions
    BY DEF InitiatorHop
  <2>2. sent'[<<Initiator, hop>>] = "claimed"
    BY <1>1, <1>4, <2>1 DEF InitiatorPays, Statuses
  <2> QED
    BY <1>2, <2>1, <2>2
<1>5. ASSUME \A d \in Directions : d[1] = Initiator /\ sent[d] # "none" => sent'[d] # "none"
      PROVE  InitiatorHop = {}
  BY <1>2, <1>5 DEF InitiatorHop
<1>6. ASSUME MineBlock
      PROVE  InitiatorHop = {}
  BY <1>5, <1>6 DEF MineBlock, locks
<1>7. ASSUME TargetNext
      PROVE  InitiatorHop = {}
  BY <1>1, <1>5, <1>7, TargetActs
<1>8. ASSUME NEW n \in Mediators, MediatorRuns(n)
      PROVE  InitiatorHop = {}
  <2>1. n # Initiator
    BY DEF Mediators
  <2>2. \A d \in Directions : d[1] # n => sent'[d] = sent[d]
    BY <1>1, <1>8, MediatorActs DEF MediatorStep, Mediate
  <2> QED
    BY <1>5, <2>1, <2>2
<1>9. ASSUME InitiatorNext
      PROVE  InitiatorHop = {}
  <2>1. CASE sent' = sent
    BY <1>5, <2>1
  <2>2. CASE sent' = SentAt(Initiator, InitiatorHop, Expiration)
    BY <1>1, <1>5, <2>2, TameSent DEF Tame
  <2>3. \/ sent' = sent \/ sent' = SentAt(Initiator, InitiatorHop, Expiration)
        \/ \E hop \in InitiatorHop : InitiatorPays(hop)
        \/ \E hop \in Nodes : InitInitiator(hop)
    BY <1>9 DEF InitiatorNext, InitiatorSecretReveal, InitiatorSecretRequest,
                InitiatorOnchainReveal, InitiatorBlock, locks
  <2> QED
    BY <1>3, <1>4, <2>1, <2>2, <2>3
<1>10. InitiatorHop = {}
  BY <1>6, <1>7, <1>8, <1>9 DEF RunsNext
<1> QED
  BY <1>3, <1>10

(* Only the initiator starts something.                                    *)
LEMMA PristineStep ==
  ASSUME TaskInv, Pristine, InitiatorHop = {}, RunsNext
  PROVE  Pristine' \/ \E hop \in Nodes : InitInitiator(hop)
<1>1. TypeInv /\ LockInv /\ MediatorLocks
  BY DEF TaskInv, LockInv
<1>2. ASSUME UNCHANGED <<sent, received, initiator, target, mediators, transactions, registered>>
      PROVE  Pristine'
  BY <1>2 DEF Pristine
<1>3. CASE MineBlock
  <2>1. registered' = registered
    BY <1>3 DEF MineBlock, Pristine
  <2> QED
    BY <1>2, <1>3, <2>1 DEF MineBlock, locks, tasks
<1>4. CASE InitiatorNext
  <2>1. ~ initiator.active /\ registered = 0
    BY DEF Pristine
  <2>2. ASSUME NEW b, InitiatorBlock(b)
        PROVE  Pristine'
    BY <1>2, <2>1, <2>2 DEF InitiatorBlock, chain
  <2> QED
    BY <1>4, <2>1, <2>2 DEF InitiatorNext, InitiatorSecretReveal, InitiatorSecretRequest,
                            InitiatorOnchainReveal, Polls
<1>5. CASE TargetNext
  <2>1. ~ target.active /\ registered = 0
    BY DEF Pristine
  <2>2. ASSUME NEW b, TargetBlock(b)
        PROVE  Pristine'
    BY <1>2, <2>1, <2>2 DEF TargetBlock, locks, chain
  <2>3. ASSUME NEW p \in Nodes, InitTarget(p)
        PROVE  FALSE
    BY <2>3 DEF InitTarget, Pristine
  <2> QED
    BY <1>5, <2>1, <2>2, <2>3 DEF TargetNext, TargetSecretReveal, TargetUnlock,
                                  TargetLockExpired, TargetOnchainReveal, Polls
<1>6. ASSUME NEW n \in Mediators, MediatorRuns(n)
      PROVE  Pristine'
  <2>1. ~ mediators[n].active /\ registered = 0
    BY DEF Pristine
  <2>2. mediators[n].waiting_transfer = NoNode /\ PairsOf(mediators[n]) = {}
    BY <1>1, <2>1, TaskFacts
  <2>3. ASSUME NEW b, MediatorBlock(n, b)
        PROVE  Pristine'
    BY <1>2, <2>1, <2>3 DEF MediatorBlock, locks, chain
  <2>4. ASSUME NEW p \in Nodes, InitMediatorRuns(n, p) \/ MediatorLockExpired(n, p)
        PROVE  FALSE
    BY <2>4 DEF InitMediator, InitMediatorRuns, MediatorLockExpired, AcceptsLockExpired,
                Pristine
  <2> QED
    BY <1>6, <2>1, <2>2, <2>3, <2>4
    DEF MediatorRuns, ReceiveTransferRefund, RefundRuns, NodeChangeNetworkState, RetryRuns,
        MediatorSecretReveal,
        MediatorUnlock, UnlockRuns, MediatorOnchainReveal, Polls
<1> QED
  BY <1>3, <1>4, <1>5, <1>6 DEF RunsNext

LEMMA StartInvNext ==
  ASSUME TaskInv, StartInv, RunsNext
  PROVE  StartInv'
BY HopStays, PristineStep DEF StartInv

(* Once the secret is registered, whether it was in time is settled.       *)
LEMMA SettledInTime ==
  ASSUME TaskInv, StartInv, RunsNext
  PROVE  /\ registered # 0 => registered' = registered
         /\ registered # 0 => RegisteredInTime' = RegisteredInTime
         /\ expiration' = expiration \/ Pristine
         /\ registered' # registered => /\ registered' = latest + 1 /\ latest' = latest + 1
                                        /\ noticed' = noticed
         /\ latest' >= latest
<1>1. latest \in Nat /\ registered \in Nat
  BY TypeParts DEF TaskInv, RestType
<1>2. CASE MineBlock
  <2>1. /\ latest' = latest + 1 /\ noticed' = noticed /\ expiration' = expiration
        /\ registered' = registered \/ (registered = 0 /\ registered' = latest')
    BY <1>2 DEF MineBlock
  <2> QED
    BY <1>1, <2>1 DEF RegisteredInTime
<1>3. ASSUME NEW hop \in Nodes, InitInitiator(hop)
      PROVE  Pristine /\ registered = 0 /\ registered' = registered /\ latest' = latest
  BY <1>3 DEF InitInitiator, StartInv, Pristine, chain
<1>4. ASSUME ~ MineBlock, ~ \E hop \in Nodes : InitInitiator(hop)
      PROVE  UNCHANGED <<expiration, latest, registered>>
  <2>1. CASE InitiatorNext
    BY <1>4, <2>1 DEF InitiatorNext, InitiatorSecretReveal, InitiatorSecretRequest,
                      InitiatorOnchainReveal, InitiatorBlock, chain
  <2>2. CASE TargetNext
    BY <2>2 DEF TargetNext, InitTarget, TargetSecretReveal, TargetUnlock, TargetLockExpired,
                TargetOnchainReveal, TargetBlock, chain
  <2>3. ASSUME NEW n \in Mediators, MediatorRuns(n)
        PROVE  UNCHANGED <<expiration, latest, registered>>
    BY <2>3 DEF MediatorRuns, InitMediator, InitMediatorRuns, ReceiveTransferRefund,
                RefundRuns, NodeChangeNetworkState, RetryRuns,
                MediatorSecretReveal, MediatorUnlock, UnlockRuns, MediatorLockExpired,
                MediatorOnchainReveal, MediatorBlock, chain
  <2> QED
    BY <1>4, <2>1, <2>2, <2>3 DEF RunsNext
<1> QED
  BY <1>1, <1>2, <1>3, <1>4 DEF RegisteredInTime
-----------------------------------------------------------------------------
(* The tip moves on.                                                       *)

LEMMA FreshTip ==
  ASSUME TypeInv, MediatorLocks, TipInv, NEW n \in Mediators, Fresh(mediators[n])
  PROVE  /\ <<mediators[n].waiting_transfer, n>> \in Directions
         /\ Tip(<<mediators[n].waiting_transfer, n>>)
         /\ received[<<mediators[n].waiting_transfer, n>>] # "none"
<1>1. Owns(n, mediators[n], sent, received) /\ mediators[n].waiting_transfer # NoNode
  BY TaskFacts DEF Fresh
<1>2. /\ <<mediators[n].waiting_transfer, n>> \in Directions
      /\ received[<<mediators[n].waiting_transfer, n>>] # "none"
  BY <1>1 DEF Owns
<1> QED
  BY <1>2 DEF TipInv, Tip

LEMMA EmptyNotFresh == ~ Fresh(NoMediatorTask)
BY DEF Fresh, NoMediatorTask

(* Taking a transfer, a mediator passes the tip on or keeps it.            *)
LEMMA TakesTip ==
  ASSUME TypeInv, MediatorLocks, TipInv, NEW n \in Mediators, NEW payer \in Nodes,
         Takes(n, payer), \A j \in Mediators : j # n => mediators'[j] = mediators[j],
         ForwardedOnce'
  PROVE  TipInv'
<1> DEFINE m == mediators[n]
           k == mediators'[n]
           t == <<payer, n>>
<1>1. sent \in Statuses /\ received \in Statuses /\ n # Target /\ t \in Directions
  BY TaskFacts DEF Takes
<1>2. \/ /\ received[t] = "none" /\ sent[t] # "none" /\ received' = Receipt(payer, n, "locked")
      \/ m.waiting_transfer = payer /\ received' = received
  BY DEF Takes
<1>3. /\ \A d \in Directions : received[d] # "none" => received'[d] # "none"
      /\ \A d \in Directions : d # t => received'[d] = received[d]
  <2>1. CASE received' = received
    BY <2>1
  <2>2. CASE received' = Receipt(payer, n, "locked")
    <3>1. "locked" \in LockStatus \ {"none"}
      BY DEF LockStatus, Pending
    <3> QED
      BY <1>1, <2>2, <3>1, Accepted
  <2> QED
    BY <1>2, <2>1, <2>2
<1>4. received'[t] # "none" /\ sent[t] # "none"
  <2>1. CASE m.waiting_transfer = payer /\ received' = received
    <3>1. payer # NoNode /\ Owns(n, m, sent, received)
      BY RolesAssumption, TaskFacts
    <3>2. received[t] # "none"
      BY <2>1, <3>1 DEF Owns
    <3> QED
      BY <1>1, <2>1, <3>2 DEF TipInv
  <2>2. CASE sent[t] # "none" /\ received' = Receipt(payer, n, "locked")
    BY <1>1, <2>2 DEF Receipt, Statuses
  <2> QED
    BY <1>2, <2>1, <2>2
<1>5. Fresh(m) => m.waiting_transfer = payer
  <2>1. CASE received[t] = "none" /\ sent[t] # "none"
    <3>1. Tip(t)
      BY <2>1 DEF Tip
    <3> QED
      BY <1>1, <2>1, <3>1, FreshTip DEF TipInv
  <2> QED
    BY <1>2, <2>1
<1>6. Tip(t) \/ (m.waiting_transfer = payer /\ ~ Fresh(m))
  <2>1. CASE received[t] = "none" /\ sent[t] # "none"
    BY <2>1 DEF Tip
  <2>2. CASE m.waiting_transfer = payer
    BY <2>2, FreshTip
  <2> QED
    BY <1>2, <2>1, <2>2
<1>7. t[1] = payer /\ t[2] = n
  OBVIOUS
<1> HIDE DEF t
<1>8. ASSUME NEW d \in Directions, sent[d] # "none", Tip(d)', d[2] # n
      PROVE  Tip(d)
  <2>1. d # t
    BY <1>7, <1>8
  <2>2. received'[d] = received[d]
    BY <1>3, <2>1
  <2>3. d[2] \in Mediators => mediators'[d[2]] = mediators[d[2]]
    BY <1>8
  <2> QED
    BY <1>8, <2>2, <2>3 DEF Tip
<1>9. ASSUME NEW d \in Directions, sent[d] # "none", Tip(d)', d[2] = n, d # t
      PROVE  Tip(d) \/ (k.waiting_transfer = d[1] /\ Fresh(k))
  BY <1>1, <1>3, <1>9 DEF Tip
<1>10. ASSUME Waits(n, m, payer)
       PROVE  TipInv'
  <2>1. sent' = sent /\ (k = NoMediatorTask \/ (k.transfers_pair = m.transfers_pair
                                                /\ k.waiting_transfer = payer))
    BY <1>10 DEF Waits
  <2>2. Fresh(k) => k.waiting_transfer = payer /\ Tip(t)
    <3>1. CASE k = NoMediatorTask
      BY <3>1, EmptyNotFresh
    <3>2. CASE k.transfers_pair = m.transfers_pair /\ k.waiting_transfer = payer
      <4>1. PairsOf(k) = PairsOf(m)
        BY <3>2 DEF PairsOf
      <4>2. payer # NoNode
        BY RolesAssumption
      <4>3. m.waiting_transfer = payer /\ Fresh(k) => Fresh(m)
        BY <3>2, <4>1 DEF Fresh
      <4> QED
        BY <1>6, <3>2, <4>3
    <3> QED
      BY <2>1, <3>1, <3>2
  <2>3. ASSUME NEW d \in Directions, Tip(d)'
        PROVE  Tip(d)
    <3>1. sent[d] # "none"
      BY <2>1, <2>3 DEF Tip
    <3>2. CASE d = t
      <4>1. k.waiting_transfer = d[1] /\ Fresh(k)
        BY <1>1, <1>4, <1>7, <2>3, <3>2 DEF Tip
      <4> QED
        BY <2>2, <3>2, <4>1
    <3>3. CASE d # t
      <4>1. d[2] = n => d[1] # payer
        BY <3>3, DirectionType DEF t
      <4> QED
        BY <1>8, <1>9, <2>2, <2>3, <3>1, <3>3, <4>1
    <3> QED
      BY <3>2, <3>3
  <2>4. \A d \in Directions : received'[d] # "none" => sent'[d] # "none"
    BY <1>3, <1>4, <2>1 DEF TipInv
  <2> QED
    BY <2>3, <2>4 DEF TipInv
<1>11. ASSUME NEW payee \in Nodes, Forwards(n, m, payer, payee)
       PROVE  TipInv'
  <2> DEFINE o == <<n, payee>>
             x == MediationPair(payer, payee)
  <2>1. /\ o \in Directions /\ sent' = [sent EXCEPT ![o] = "locked"]
        /\ PairsOf(k) = PairsOf(m) \cup {x} /\ k.waiting_transfer = m.waiting_transfer
    BY <1>11 DEF Forwards
  <2>2. \A p \in PairsOf(m) : p.payer # payer
    BY <1>11, ForwardsFresh
  <2>3. x.payer = payer
    BY DEF MediationPair
  <2> HIDE DEF x, o
  <2>4. Tip(t) /\ ~ Fresh(k)
    <3>1. m.waiting_transfer = payer => Fresh(m)
      BY <2>2, RolesAssumption DEF Fresh
    <3>2. Fresh(k) => Fresh(m) /\ k.waiting_transfer # payer
      BY <2>1, <2>3 DEF Fresh
    <3> QED
      BY <1>5, <1>6, <2>1, <3>1, <3>2
  <2>5. ASSUME NEW d \in Directions, Tip(d)', d # o
        PROVE  FALSE
    <3>1. sent[d] # "none"
      BY <1>1, <2>1, <2>5 DEF Tip, Statuses
    <3>2. CASE d = t
      BY <1>1, <1>4, <1>7, <2>4, <2>5, <3>2 DEF Tip
    <3>3. CASE d # t
      BY <1>1, <1>8, <1>9, <2>4, <2>5, <3>1, <3>3 DEF TipInv
    <3> QED
      BY <3>2, <3>3
  <2>6. \A d \in Directions : received'[d] # "none" => sent'[d] # "none"
    BY <1>1, <1>3, <1>4, <2>1 DEF TipInv, Statuses
  <2> QED
    BY <2>5, <2>6 DEF TipInv
<1> QED
  BY <1>10, <1>11 DEF Takes
(* The task of j has not taken a transfer.                                 *)
TaskKept(j) ==
  \/ mediators'[j] = NoMediatorTask
  \/ mediators'[j] = mediators[j]
  \/ SameTask(mediators'[j], mediators[j])

LEMMA KeptNotFresh ==
  ASSUME NEW j \in Mediators, TaskKept(j), Fresh(mediators'[j])
  PROVE  Fresh(mediators[j]) /\ mediators'[j].waiting_transfer = mediators[j].waiting_transfer
<1>1. CASE mediators'[j] = NoMediatorTask
  BY <1>1, EmptyNotFresh
<1>2. CASE SameTask(mediators'[j], mediators[j])
  <2>1. /\ mediators'[j].waiting_transfer = mediators[j].waiting_transfer
        /\ SamePairs(mediators'[j].transfers_pair, mediators[j].transfers_pair)
    BY <1>2 DEF SameTask
  <2>2. \A p \in PairsOf(mediators[j]) : \E r \in PairsOf(mediators'[j]) : r.payer = p.payer
    BY <2>1 DEF SamePairs, PairsOf
  <2> QED
    BY <2>1, <2>2 DEF Fresh
<1> QED
  BY <1>1, <1>2 DEF TaskKept

(* Without a new lock the tip stays where it is.                           *)
LEMMA TipStays ==
  ASSUME TipInv, \A j \in Mediators : TaskKept(j),
         \A d \in Directions : sent[d] = "none" <=> sent'[d] = "none",
         \A d \in Directions : received[d] # "none" => received'[d] # "none",
         \A d \in Directions : received'[d] # "none" => sent[d] # "none"
  PROVE  TipInv'
<1>1. ASSUME NEW d \in Directions, Tip(d)'
      PROVE  Tip(d)
  <2>1. sent[d] # "none"
    BY <1>1 DEF Tip
  <2>2. CASE received'[d] = "none"
    BY <2>1, <2>2 DEF Tip
  <2>3. CASE d[2] = Target
    BY <2>1, <2>3 DEF Tip
  <2>4. CASE /\ d[2] \in Mediators /\ mediators'[d[2]].waiting_transfer = d[1]
             /\ Fresh(mediators'[d[2]])
    BY <2>1, <2>4, KeptNotFresh DEF Tip
  <2> QED
    BY <1>1, <2>2, <2>3, <2>4 DEF Tip
<1> QED
  BY <1>1 DEF TipInv

LEMMA QuietTip ==
  ASSUME TypeInv, MediatorLocks, TipInv, NEW n \in Mediators, Quiet(n), NoNewLock
  PROVE  TipInv'
<1>1. /\ mediators'[n] = NoMediatorTask \/ SameTask(mediators'[n], mediators[n])
      /\ \A d \in Directions : sent[d] # "none" => sent'[d] # "none"
      /\ \A d \in Directions : received[d] # "none" => received'[d] # "none"
  BY QuietTask
<1>2. \A j \in Mediators : j # n => mediators'[j] = mediators[j]
  BY StepLocks DEF Quiet
<1>3. \A j \in Mediators : TaskKept(j)
  BY <1>1, <1>2 DEF TaskKept
<1>4. \A d \in Directions : received'[d] # "none" => sent[d] # "none"
  BY DEF NoNewLock, TipInv
<1> QED
  BY <1>1, <1>3, <1>4, TipStays DEF NoNewLock

LEMMA InitiatorTip ==
  ASSUME TaskInv, StartInv, TipInv, InitiatorNext
  PROVE  TipInv'
<1>1. /\ TypeInv /\ sent \in Statuses /\ received' = received /\ mediators' = mediators
  BY TypeParts, InitiatorActs DEF TaskInv
<1>2. \A j \in Mediators : TaskKept(j)
  BY <1>1 DEF TaskKept
<1>3. ASSUME \A d \in Directions : sent[d] = "none" <=> sent'[d] = "none"
      PROVE  TipInv'
  BY <1>1, <1>2, <1>3, TipStays DEF TipInv
<1>4. ASSUME NEW hop \in Nodes, InitInitiator(hop)
      PROVE  TipInv'
  <2>1. \A d \in Directions : sent[d] = "none" /\ received[d] = "none"
    BY <1>4 DEF InitInitiator, StartInv, Pristine
  <2>2. sent' = [sent EXCEPT ![<<Initiator, hop>>] = "locked"]
    BY <1>4 DEF InitInitiator
  <2>3. \A d \in Directions : sent'[d] # "none" => d = <<Initiator, hop>>
    BY <1>1, <2>1, <2>2 DEF Statuses
  <2> QED
    BY <1>1, <2>1, <2>3 DEF TipInv, Tip
<1>5. ASSUME NEW hop \in InitiatorHop, InitiatorPays(hop)
      PROVE  \A d \in Directions : sent[d] = "none" <=> sent'[d] = "none"
  <2>1. <<Initiator, hop>> \in Directions /\ sent[<<Initiator, hop>>] # "none"
    BY DEF InitiatorHop
  <2>2. sent' = [sent EXCEPT ![<<Initiator, hop>>] = "claimed"]
    BY <1>5 DEF InitiatorPays
  <2> QED
    BY <1>1, <2>1, <2>2 DEF Statuses
<1>6. ASSUME sent' = SentAt(Initiator, InitiatorHop, Expiration)
      PROVE  \A d \in Directions : sent[d] = "none" <=> sent'[d] = "none"
  <2>1. \A d \in Directions : sent'[d] = IF d[1] = Initiator /\ d[2] \in InitiatorHop
                                         THEN Expiration[sent[d]] ELSE sent[d]
    BY <1>1, <1>6, TameSent
  <2>2. \A d \in Directions : d[1] = Initiator /\ d[2] \in InitiatorHop => sent[d] # "none"
    BY DirectionType DEF InitiatorHop
  <2>3. \A d \in Directions : Expiration[sent[d]] = "expired"
    BY <1>1, Changes DEF Statuses
  <2> QED
    BY <2>1, <2>2, <2>3
<1>7. \/ sent' = sent \/ sent' = SentAt(Initiator, InitiatorHop, Expiration)
      \/ \E hop \in InitiatorHop : InitiatorPays(hop)
      \/ \E hop \in Nodes : InitInitiator(hop)
  BY DEF InitiatorNext, InitiatorSecretReveal, InitiatorSecretRequest,
         InitiatorOnchainReveal, InitiatorBlock, locks
<1> QED
  BY <1>3, <1>4, <1>5, <1>6, <1>7

(* What the target has received, it was sent.                              *)
LEMMA TargetReceives ==
  ASSUME TypeInv, TargetNext, NEW d \in Directions
  PROVE  /\ received[d] # "none" => received'[d] # "none"
         /\ received'[d] # "none" /\ received[d] = "none" =>
              d[2] = Target /\ sent[d] # "none" /\ InitTarget(d[1])
<1>1. received \in Statuses /\ received[d] \in LockStatus
  BY TypeParts DEF Statuses
<1>2. ASSUME NEW p \in Nodes, NEW s, s # "none", <<p, Target>> \in Directions,
             received' = [received EXCEPT ![<<p, Target>>] = s]
      PROVE  /\ received[d] # "none" => received'[d] # "none"
             /\ received'[d] # received[d] => d[2] = Target /\ d[1] = p
  BY <1>1, <1>2 DEF Statuses
<1>3. ASSUME NEW p \in Nodes, InitTarget(p)
      PROVE  /\ received[d] # "none" => received'[d] # "none"
             /\ received'[d] # received[d] => d[2] = Target /\ d[1] = p
  BY <1>2, <1>3 DEF InitTarget
<1>4. ASSUME NEW p \in Nodes, InitTarget(p), received'[d] # received[d]
      PROVE  sent[d] # "none"
  <2>1. d = <<p, Target>>
    BY <1>3, <1>4, DirectionType
  <2> QED
    BY <1>4, <2>1 DEF InitTarget
<1>5. ASSUME NEW p \in Nodes, TargetUnlock(p) \/ TargetLockExpired(p)
      PROVE  (received[d] = "none") <=> (received'[d] = "none")
  <2>1. <<p, Target>> \in Directions /\ received[<<p, Target>>] # "none"
    BY <1>5 DEF TargetUnlock, TargetLockExpired, AcceptsLockExpired, TargetPayer, Pending
  <2>2. \E s : s # "none" /\ received' = [received EXCEPT ![<<p, Target>>] = s]
    BY <1>5 DEF TargetUnlock, TargetLockExpired
  <2> QED
    BY <1>1, <2>1, <2>2 DEF Statuses
<1>6. ASSUME NEW qs, NEW change \in {Learning, Registration},
             received' = ReceivedAt(Target, qs, change)
      PROVE  (received[d] = "none") <=> (received'[d] = "none")
  <2>1. change["none"] = "none"
    <3>1. "none" \in LockStatus /\ WithSecret("none") = "none" /\ WithRegistration("none") = "none"
      BY DEF LockStatus, WithSecret, WithRegistration
    <3> QED
      BY <3>1, Changes
  <2> QED
    BY <1>6, <2>1, TameReceived DEF Tame
<1>7. ASSUME NEW p \in Nodes, TargetSecretReveal(p)
      PROVE  received' = ReceivedAt(Target, {p}, Learning)
  BY <1>7 DEF TargetSecretReveal
<1>8. ASSUME TargetOnchainReveal
      PROVE  received' = ReceivedAt(Target, TargetPayer, Registration) \/ received' = received
  BY <1>8 DEF TargetOnchainReveal
<1>9. ASSUME NEW b, TargetBlock(b)
      PROVE  received' = received
  BY <1>9 DEF TargetBlock, locks
<1> QED
  BY <1>3, <1>4, <1>5, <1>6, <1>7, <1>8, <1>9 DEF TargetNext

(* There is one tip.                                                       *)
LEMMA TipInvNext ==
  ASSUME TaskInv, StartInv, TipInv, RunsNext, ForwardedOnce'
  PROVE  TipInv'
<1>1. TypeInv /\ MediatorLocks
  BY DEF TaskInv, LockInv
<1>2. CASE MineBlock
  BY <1>2, TipStays DEF MineBlock, locks, tasks, TaskKept, TipInv
<1>3. CASE InitiatorNext
  BY <1>3, InitiatorTip
<1>4. CASE TargetNext
  <2>1. sent' = sent /\ mediators' = mediators
    BY <1>1, <1>4, TargetActs
  <2>2. \A d \in Directions : received[d] # "none" => received'[d] # "none"
    BY <1>1, <1>4, TargetReceives
  <2>3. \A d \in Directions : received'[d] # "none" => sent[d] # "none"
    BY <1>1, <1>4, TargetReceives DEF TipInv
  <2>4. \A j \in Mediators : TaskKept(j)
    BY <2>1 DEF TaskKept
  <2> QED
    BY <2>1, <2>2, <2>3, <2>4, TipStays
<1>5. ASSUME NEW n \in Mediators, MediatorRuns(n)
      PROVE  TipInv'
  <2>1. \A j \in Mediators : j # n => mediators'[j] = mediators[j]
    BY <1>1, <1>5, MediatorActs, StepLocks
  <2>2. ASSUME NEW payer \in Nodes, Takes(n, payer)
        PROVE  TipInv'
    BY <1>1, <2>1, <2>2, TakesTip
  <2>3. CASE Quiet(n) /\ NoNewLock
    BY <1>1, <2>3, QuietTip
  <2>4. CASE UNCHANGED <<sent, received, mediators>>
    BY <2>4 DEF TipInv, Tip, Fresh
  <2> QED
    BY <1>1, <1>5, <2>2, <2>3, <2>4, MediatorCases
<1> QED
  BY <1>2, <1>3, <1>4, <1>5 DEF RunsNext
-----------------------------------------------------------------------------
(* Before the target has the transfer, nobody has the secret.              *)

Revealed == {"unlocked", "onchain", "claimed"}

NoSecret ==
  /\ ~ secret_request /\ reveals = {} /\ registered = 0
  /\ \A n \in Nodes : transactions[n] = 0
  /\ \A d \in Directions : sent[d] \notin Revealed /\ received[d] \notin Revealed

SecretInv == TargetPayer # {} \/ NoSecret

(* Locks that are only put in place or expire.                             *)
NothingRevealed ==
  \A d \in Directions : /\ sent'[d] \in {sent[d], "locked", "expired"}
                        /\ received'[d] \in {received[d], "locked", "expired"}

LEMMA NoSecretStays ==
  ASSUME NoSecret, NothingRevealed,
         UNCHANGED <<secret_request, reveals, registered, transactions>>
  PROVE  NoSecret'
<1>1. \A d \in Directions : sent'[d] \notin Revealed /\ received'[d] \notin Revealed
  BY DEF NoSecret, NothingRevealed, Revealed
<1> QED
  BY <1>1 DEF NoSecret

LEMMA MediatorNoSecret ==
  ASSUME TaskInv, NoSecret, NEW n \in Mediators, MediatorRuns(n)
  PROVE  NoSecret'
<1>1. TypeInv /\ MediatorLocks /\ received \in Statuses /\ sent \in Statuses
  BY TypeParts DEF TaskInv, LockInv
<1>2. ASSUME NEW m, NEW payer, NEW routes, NEW p, NEW rcv \in {received, NewReceipt(p, n)},
             TransferRuns(n, m, payer, routes, rcv)
      PROVE  NothingRevealed
  <2>1. \/ sent' = sent
        \/ \E payee : sent' = [sent EXCEPT ![<<n, payee>>] = "locked"]
    BY <1>2 DEF TransferRuns, Mediate
  <2>2. received' = received \/ received' = [received EXCEPT ![<<p, n>>] = "locked"]
    BY <1>2 DEF TransferRuns, Mediate, NewReceipt
  <2> QED
    BY <1>1, <2>1, <2>2 DEF NothingRevealed, Statuses
<1>3. ASSUME NEW p \in Nodes, InitMediatorRuns(n, p)
      PROVE  NoSecret'
  BY <1>2, <1>3, NoSecretStays DEF InitMediator, InitMediatorRuns, messages, chain
<1>4. ASSUME NEW p \in Nodes, RefundRuns(n, p)
      PROVE  NoSecret'
  BY <1>2, <1>4, NoSecretStays DEF ReceiveTransferRefund, RefundRuns, messages, chain
<1>5. ASSUME NEW p \in Nodes, RetryRuns(n, p)
      PROVE  NoSecret'
  BY <1>2, <1>5, NoSecretStays DEF NodeChangeNetworkState, RetryRuns, messages, chain
<1>6. ASSUME NEW p \in Nodes, MediatorSecretReveal(n, p)
      PROVE  FALSE
  BY <1>6 DEF MediatorSecretReveal, NoSecret
<1>7. ASSUME NEW p \in Nodes, MediatorUnlock(n, p)
      PROVE  FALSE
  <2>1. PICK q \in PairsOf(mediators[n]) : q.payer = p
    BY <1>7 DEF MediatorUnlock
  <2>2. Owns(n, mediators[n], sent, received)
    BY <1>1, TaskFacts
  <2>3. <<p, n>> \in Directions
    BY <2>1, <2>2 DEF Owns
  <2> QED
    BY <1>7, <2>3 DEF MediatorUnlock, NoSecret, Revealed
<1>8. ASSUME NEW p \in Nodes, MediatorLockExpired(n, p)
      PROVE  NoSecret'
  <2>1. received' = [received EXCEPT ![<<p, n>>] = "expired"] /\ sent' = sent
    BY <1>8 DEF MediatorLockExpired, Mediate
  <2>2. NothingRevealed
    BY <1>1, <2>1 DEF NothingRevealed, Statuses
  <2> QED
    BY <1>8, <2>2, NoSecretStays DEF MediatorLockExpired, messages, chain
<1>9. ASSUME MediatorOnchainReveal(n)
      PROVE  FALSE
  BY <1>9 DEF MediatorOnchainReveal, Polls, NoSecret
<1>10. ASSUME NEW b, MediatorBlock(n, b)
       PROVE  NoSecret'
  <2> DEFINE removed == events_to_remove_expired_locks(n, mediators[n].transfers_pair, b)
  <2>1. received' = received /\ UNCHANGED <<secret_request, reveals, registered>>
    BY <1>10 DEF MediatorBlock, Mediate, locks, messages, chain
  <2>5. NothingRevealed
    <3>1. sent' = sent \/ \E qs : sent' = SentAt(n, qs, Expiration)
      BY <1>10 DEF MediatorBlock, Mediate, locks
    <3>2. \A d \in Directions : sent[d] \in LockStatus
      BY <1>1 DEF Statuses
    <3>3. \A d \in Directions : sent'[d] \in {sent[d], "expired"}
      BY <1>1, <3>1, <3>2, TameSent, Changes
    <3> QED
      BY <2>1, <3>3 DEF NothingRevealed
  <2>2. SamePairs(removed, mediators[n].transfers_pair)
    BY <1>1, TaskFacts, PairSteps
  <2> HIDE DEF removed
  <2>3. ASSUME NEW i \in DOMAIN removed, in_dangerzone(n, removed[i], b)
        PROVE  FALSE
    <3>1. removed[i].payer = mediators[n].transfers_pair[i].payer
          /\ i \in DOMAIN mediators[n].transfers_pair
      BY <2>2 DEF SamePairs
    <3>2. mediators[n].transfers_pair[i] \in PairsOf(mediators[n])
      BY <3>1 DEF PairsOf
    <3>3. Owns(n, mediators[n], sent, received)
      BY <1>1, TaskFacts
    <3>4. <<removed[i].payer, n>> \in Directions
      BY <3>1, <3>2, <3>3 DEF Owns
    <3> QED
      BY <2>3, <3>4 DEF in_dangerzone, NoSecret, Revealed
  <2>4. transactions' = transactions
    BY <1>10, <2>3 DEF MediatorBlock, removed
  <2> QED
    BY <2>1, <2>4, <2>5, NoSecretStays
<1> QED
  BY <1>3, <1>4, <1>5, <1>6, <1>7, <1>8, <1>9, <1>10 DEF MediatorRuns, UnlockRuns

LEMMA SecretInvNext ==
  ASSUME TaskInv, SecretInv, RunsNext
  PROVE  SecretInv'
<1>1. /\ TypeInv /\ MediatorLocks /\ received \in Statuses /\ sent \in Statuses
      /\ transactions \in [Nodes -> Nat] /\ latest \in Nat
  BY TypeParts DEF TaskInv, LockInv, RestType
<1>2. TargetPayer' = {a \in Nodes : <<a, Target>> \in Directions
                                    /\ received'[<<a, Target>>] # "none"}
  BY DEF TargetPayer
<1>3. ASSUME TargetPayer # {}
      PROVE  TargetPayer' # {}
  <2>1. PICK a \in Nodes : <<a, Target>> \in Directions /\ received[<<a, Target>>] # "none"
    BY <1>3 DEF TargetPayer
  <2>2. received'[<<a, Target>>] # "none"
    <3>1. CASE MineBlock \/ InitiatorNext
      BY <1>1, <2>1, <3>1, InitiatorActs DEF MineBlock, locks
    <3>2. CASE TargetNext
      BY <1>1, <2>1, <3>2, TargetReceives
    <3>3. ASSUME NEW n \in Mediators, MediatorRuns(n)
          PROVE  received'[<<a, Target>>] # "none"
      BY <1>1, <2>1, <3>3, MediatorActs DEF MediatorStep, Mediate
    <3> QED
      BY <3>1, <3>2, <3>3 DEF RunsNext
  <2> QED
    BY <1>2, <2>1, <2>2
<1>4. ASSUME NoSecret, TargetPayer = {}
      PROVE  TargetPayer' # {} \/ NoSecret'
  <2>1. CASE MineBlock
    <3>1. {transactions[n] : n \in Nodes} \ {0} = {}
      BY <1>4 DEF NoSecret
    <3>2. registered' = registered
      BY <2>1, <3>1, <1>4 DEF MineBlock, NoSecret
    <3> QED
      BY <1>4, <2>1, <3>2 DEF MineBlock, NoSecret, locks, messages
  <2>2. CASE InitiatorNext
    <3>1. ~ InitiatorSecretRequest /\ ~ InitiatorOnchainReveal
          /\ ~ \E hop \in Nodes : InitiatorSecretReveal(hop)
      BY <1>4 DEF InitiatorSecretRequest, InitiatorSecretReveal, InitiatorOnchainReveal,
                  Polls, NoSecret
    <3>2. UNCHANGED <<received, secret_request, reveals, registered, transactions>>
      BY <2>2, <3>1 DEF InitiatorNext, InitInitiator, InitiatorBlock, messages, chain
    <3>3. \/ sent' = sent \/ \E hop : sent' = [sent EXCEPT ![<<Initiator, hop>>] = "locked"]
          \/ sent' = SentAt(Initiator, InitiatorHop, Expiration)
      BY <2>2, <3>1 DEF InitiatorNext, InitInitiator, InitiatorBlock
    <3>4. \A d \in Directions : sent'[d] \in {sent[d], "locked", "expired"}
      <4>1. CASE sent' = sent \/ \E hop : sent' = [sent EXCEPT ![<<Initiator, hop>>] = "locked"]
        BY <1>1, <4>1 DEF Statuses
      <4>2. CASE sent' = SentAt(Initiator, InitiatorHop, Expiration)
        <5>1. \A d \in Directions : sent[d] \in LockStatus
          BY <1>1 DEF Statuses
        <5> QED
          BY <1>1, <4>2, <5>1, TameSent, Changes
      <4> QED
        BY <3>3, <4>1, <4>2
    <3> QED
      BY <1>4, <3>2, <3>4, NoSecretStays DEF NothingRevealed
  <2>3. CASE TargetNext
    <3>1. ASSUME NEW p \in Nodes, InitTarget(p)
          PROVE  TargetPayer' # {}
      <4>1. <<p, Target>> \in Directions
            /\ received' = [received EXCEPT ![<<p, Target>>] = "locked"]
        BY <3>1 DEF InitTarget
      <4>2. received'[<<p, Target>>] = "locked"
        BY <1>1, <4>1 DEF Statuses
      <4> QED
        BY <1>2, <4>1, <4>2
    <3>2. ASSUME NEW p \in Nodes, TargetLockExpired(p)
          PROVE  FALSE
      BY <1>4, <3>2 DEF TargetLockExpired, AcceptsLockExpired, TargetPayer, Pending
    <3>3. ASSUME NEW p \in Nodes, TargetUnlock(p) \/ TargetSecretReveal(p)
          PROVE  FALSE
      BY <1>4, <3>3 DEF TargetUnlock, TargetSecretReveal
    <3>4. ~ TargetOnchainReveal
      BY <1>4 DEF TargetOnchainReveal, Polls, NoSecret
    <3>5. ASSUME NEW b, TargetBlock(b)
          PROVE  UNCHANGED <<sent, received, secret_request, reveals, registered, transactions>>
      <4>1. transactions' = transactions
        BY <1>4, <3>5 DEF TargetBlock
      <4> QED
        BY <3>5, <4>1 DEF TargetBlock, locks, messages, chain
    <3> QED
      BY <1>4, <2>3, <3>1, <3>2, <3>3, <3>4, <3>5 DEF TargetNext, NoSecret
  <2>4. ASSUME NEW n \in Mediators, MediatorRuns(n)
        PROVE  NoSecret'
    BY <1>4, <2>4, MediatorNoSecret
  <2> QED
    BY <2>1, <2>2, <2>3, <2>4 DEF RunsNext
<1> QED
  BY <1>3, <1>4 DEF SecretInv

(* Once the secret is registered, no waiting transfer is forwarded.        *)
LEMMA RegisteredForwardsNothing ==
  ASSUME TaskInv, TipInv, SecretInv, registered # 0, NEW n \in Mediators, NEW payer \in Nodes,
         NEW payee \in Nodes, mediators[n].waiting_transfer = payer,
         Forwards(n, mediators[n], payer, payee), ForwardedOnce'
  PROVE  FALSE
<1>1. TypeInv /\ MediatorLocks
  BY DEF TaskInv, LockInv
<1>2. Fresh(mediators[n])
  BY <1>1, ForwardsFresh, RolesAssumption DEF Fresh
<1>3. /\ <<mediators[n].waiting_transfer, n>> \in Directions
      /\ Tip(<<mediators[n].waiting_transfer, n>>)
  BY <1>1, <1>2, FreshTip
<1>4. PICK a \in Nodes : <<a, Target>> \in Directions /\ received[<<a, Target>>] # "none"
  BY DEF SecretInv, NoSecret, TargetPayer
<1>5. Tip(<<a, Target>>)
  BY <1>4 DEF Tip, TipInv
<1>6. n # Target
  BY DEF Mediators
<1> QED
  BY <1>3, <1>4, <1>5, <1>6 DEF TipInv

LEMMA RetryForwardsNothing ==
  ASSUME TaskInv, TipInv, SecretInv, registered # 0, NEW n \in Mediators, NEW hop \in Nodes,
         RetryRuns(n, hop), ForwardedOnce'
  PROVE  sent' = sent
<1> DEFINE m == mediators[n]
           payer == m.waiting_transfer
<1>1. TypeInv /\ MediatorLocks
  BY DEF TaskInv, LockInv
<1>2. Mediated(n, m, payer, received)
  BY <1>1, NodeChangeStep
<1>3. Waits(n, m, payer) \/ \E payee \in Nodes : Forwards(n, m, payer, payee)
  BY <1>1, <1>2, MediatedEffect
<1>4. payer \in Nodes
  BY <1>1, TaskFacts DEF NodeChangeNetworkState, RetryRuns, MediatorTransferState
<1> QED
  BY <1>3, <1>4, RegisteredForwardsNothing DEF Waits
-----------------------------------------------------------------------------
(* On-chain unlocks are atomic.                                            *)

(* What a node has done when it has noticed the registration.              *)
NoticeInv ==
  /\ noticed # {} => registered # 0
  /\ \A n \in Mediators : n \in noticed /\ mediators[n].active => mediators[n].secret
  /\ Initiator \in noticed /\ RegisteredInTime => ~ initiator.active

(* It is too late for a registration in time.                              *)
Late == latest > expiration /\ ~ RegisteredInTime

AnyExpired == \E d \in Directions : sent[d] = "expired" \/ received[d] = "expired"

(* A mediator that noticed a registration in time has no lock left that    *)
(* could expire.                                                           *)
ExpiryInv ==
  /\ AnyExpired => Late
  /\ \A n \in Mediators : n \in noticed /\ RegisteredInTime =>
       \A d \in Directions : d[1] = n => sent[d] \notin {"locked", "unlocked"}

AtomicInv == TaskInv /\ StartInv /\ TipInv /\ SecretInv /\ NoticeInv /\ ExpiryInv

LEMMA AtomicInvInit == Init => AtomicInv
<1> SUFFICES ASSUME Init
             PROVE  AtomicInv
  OBVIOUS
<1>1. \A d \in Directions : sent[d] = "none" /\ received[d] = "none"
  BY DEF Init
<1>2. Pristine
  <2>1. \A n \in Mediators : ~ mediators[n].active
    BY DEF Init, NoMediatorTask
  <2> QED
    BY <1>1, <2>1 DEF Init, Pristine
<1>3. noticed = {}
  BY DEF Init
<1>4. TipInv
  BY <1>1 DEF TipInv, Tip
<1>5. SecretInv
  BY <1>1 DEF Init, SecretInv, NoSecret, Revealed
<1> QED
  BY <1>1, <1>2, <1>3, <1>4, <1>5, TaskInvInit
  DEF AtomicInv, StartInv, NoticeInv, ExpiryInv, AnyExpired

(* A node notices the registration once, when it polls.                    *)
LEMMA Notices ==
  ASSUME RunsNext
  PROVE  \/ noticed' = noticed
         \/ InitiatorOnchainReveal /\ noticed' = noticed \cup {Initiator} /\ registered # 0
         \/ TargetOnchainReveal /\ noticed' = noticed \cup {Target} /\ registered # 0
         \/ \E n \in Mediators : /\ MediatorOnchainReveal(n) /\ noticed' = noticed \cup {n}
                                 /\ registered # 0 /\ MediatorRuns(n)
<1>1. CASE MineBlock
  BY <1>1 DEF MineBlock
<1>2. CASE InitiatorNext
  <2>1. CASE InitiatorOnchainReveal
    BY <2>1 DEF InitiatorOnchainReveal, Polls
  <2>2. CASE ~ InitiatorOnchainReveal
    BY <1>2, <2>2 DEF InitiatorNext, InitInitiator, InitiatorSecretReveal,
                      InitiatorSecretRequest, InitiatorBlock
  <2> QED
    BY <2>1, <2>2
<1>3. CASE TargetNext
  <2>1. CASE TargetOnchainReveal
    BY <2>1 DEF TargetOnchainReveal, Polls
  <2>2. CASE ~ TargetOnchainReveal
    BY <1>3, <2>2 DEF TargetNext, InitTarget, TargetSecretReveal, TargetUnlock,
                      TargetLockExpired, TargetBlock
  <2> QED
    BY <2>1, <2>2
<1>4. ASSUME NEW n \in Mediators, MediatorRuns(n)
      PROVE  \/ noticed' = noticed
             \/ MediatorOnchainReveal(n) /\ noticed' = noticed \cup {n} /\ registered # 0
  <2>1. CASE MediatorOnchainReveal(n)
    BY <2>1 DEF MediatorOnchainReveal, Polls
  <2>2. CASE ~ MediatorOnchainReveal(n)
    BY <1>4, <2>2 DEF MediatorRuns, InitMediator, InitMediatorRuns, ReceiveTransferRefund,
                      RefundRuns, NodeChangeNetworkState, RetryRuns,
                      MediatorSecretReveal, MediatorUnlock, UnlockRuns, MediatorLockExpired,
                      MediatorBlock
  <2> QED
    BY <2>1, <2>2
<1> QED
  BY <1>1, <1>2, <1>3, <1>4 DEF RunsNext

(* A mediator that has noticed the registration knows the secret.          *)
LEMMA NoticedKnows ==
  ASSUME TaskInv, NoticeInv, NEW n \in Mediators, MediatorRuns(n),
         n \in noticed', mediators'[n].active
  PROVE  mediators'[n].secret
<1>1. TypeInv /\ MediatorLocks
  BY DEF TaskInv, LockInv
<1>2. mediators[n] \in MediatorTransferState
  BY <1>1, TaskFacts
<1>3. \A q : /\ [mediators[n] EXCEPT !.transfers_pair = q].secret = mediators[n].secret
             /\ [mediators[n] EXCEPT !.secret = TRUE, !.transfers_pair = q].secret = TRUE
  BY <1>2 DEF MediatorTransferState
<1>4. ASSUME MediatorOnchainReveal(n)
      PROVE  mediators'[n].secret
  <2>1. CASE mediators[n].active
    <3>1. PICK q, snt, rcv :
            Mediate(n, [mediators[n] EXCEPT !.secret = TRUE, !.transfers_pair = q], snt, rcv)
      BY <1>4, <2>1 DEF MediatorOnchainReveal
    <3> QED
      BY <1>1, <1>3, <3>1, Cleared
  <2>2. CASE ~ mediators[n].active
    BY <1>4, <2>2 DEF MediatorOnchainReveal
  <2> QED
    BY <2>1, <2>2
<1>5. ASSUME NEW p \in Nodes, MediatorSecretReveal(n, p)
      PROVE  mediators'[n].secret
  <2>1. PICK q, snt, rcv :
          Mediate(n, [mediators[n] EXCEPT !.secret = TRUE, !.transfers_pair = q], snt, rcv)
    BY <1>5 DEF MediatorSecretReveal
  <2> QED
    BY <1>1, <1>3, <2>1, Cleared
<1>6. ASSUME ~ MediatorOnchainReveal(n)
      PROVE  n \in noticed /\ registered # 0
  <2>1. noticed' = noticed
    BY <1>6 DEF MediatorRuns, InitMediator, InitMediatorRuns, ReceiveTransferRefund,
                RefundRuns, NodeChangeNetworkState, RetryRuns,
                MediatorSecretReveal, MediatorUnlock, UnlockRuns, MediatorLockExpired,
                MediatorBlock
  <2> QED
    BY <2>1 DEF NoticeInv
<1>7. ASSUME n \in noticed, mediators[n].active
      PROVE  mediators[n].secret
  BY <1>7 DEF NoticeInv
<1>8. ASSUME n \in noticed, mediators[n].active, NEW m, NEW p, NEW rcv, m = mediators[n],
             Mediated(n, m, p, rcv)
      PROVE  mediators'[n].secret
  <2>1. PICK k, snt : Mediate(n, k, snt, rcv) /\ k.secret = m.secret
    BY <1>8 DEF Mediated, MediatorStep
  <2> QED
    BY <1>1, <1>7, <1>8, <2>1, Cleared
<1>9. ASSUME n \in noticed, NEW p \in Nodes, RefundRuns(n, p)
      PROVE  mediators'[n].secret
  <2>1. Mediated(n, mediators[n], p, Receipt(p, n, "locked")) /\ mediators[n].active
    BY <1>1, <1>9, RefundStep DEF ReceiveTransferRefund, RefundRuns
  <2> QED
    BY <1>8, <1>9, <2>1
<1>10. ASSUME n \in noticed, NEW p \in Nodes, RetryRuns(n, p)
       PROVE  mediators'[n].secret
  <2>1. Mediated(n, mediators[n], mediators[n].waiting_transfer, received)
    BY <1>1, <1>10, NodeChangeStep
  <2>2. mediators[n].active
    BY <1>1, <1>10, TaskFacts DEF NodeChangeNetworkState, RetryRuns
  <2> QED
    BY <1>8, <1>10, <2>1, <2>2
<1>11. ASSUME n \in noticed, mediators[n].active, NEW q, NEW snt, NEW rcv,
              Mediate(n, [mediators[n] EXCEPT !.transfers_pair = q], snt, rcv)
       PROVE  mediators'[n].secret
  BY <1>1, <1>3, <1>7, <1>11, Cleared
<1>12. ASSUME n \in noticed, NEW p \in Nodes, UnlockRuns(n, p) \/ MediatorLockExpired(n, p)
       PROVE  mediators'[n].secret
  <2>1. \E q, snt, rcv : Mediate(n, [mediators[n] EXCEPT !.transfers_pair = q], snt, rcv)
    BY <1>12 DEF UnlockRuns, PaidTask, MediatorLockExpired
  <2>2. p # NoNode
    BY RolesAssumption
  <2>3. mediators[n].active
    BY <1>1, <1>12, <2>2, TaskFacts DEF MediatorUnlock, UnlockRuns, MediatorLockExpired
  <2> QED
    BY <1>11, <1>12, <2>1, <2>3
<1>13. ASSUME n \in noticed, NEW b, MediatorBlock(n, b)
       PROVE  mediators'[n].secret
  <2>1. CASE mediators[n].active
    <3>1. \E q, snt, rcv : Mediate(n, [mediators[n] EXCEPT !.transfers_pair = q], snt, rcv)
      BY <1>13, <2>1 DEF MediatorBlock
    <3> QED
      BY <1>11, <1>13, <2>1, <3>1
  <2>2. CASE ~ mediators[n].active
    BY <1>13, <2>2 DEF MediatorBlock
  <2> QED
    BY <2>1, <2>2
<1>14. ASSUME NEW p \in Nodes, InitMediatorRuns(n, p)
       PROVE  registered = 0
  BY <1>14 DEF InitMediator, InitMediatorRuns
<1> QED
  BY <1>4, <1>5, <1>6, <1>9, <1>10, <1>12, <1>13, <1>14 DEF MediatorRuns

LEMMA NoticeInvNext ==
  ASSUME TaskInv, StartInv, NoticeInv, RunsNext
  PROVE  NoticeInv'
<1>1. TypeInv /\ MediatorLocks /\ Initiator \notin Mediators /\ Target \notin Mediators
      /\ Initiator # Target
  BY RolesAssumption DEF TaskInv, LockInv, Mediators
<1>2. /\ registered # 0 => registered' = registered
      /\ registered # 0 => RegisteredInTime' = RegisteredInTime
      /\ noticed # {} => registered # 0
  BY SettledInTime DEF NoticeInv
<1>3. noticed' # {} => registered' # 0
  BY <1>2, Notices
<1>4. ASSUME NEW n \in Mediators, n \in noticed', mediators'[n].active
      PROVE  mediators'[n].secret
  <2>1. CASE MediatorRuns(n)
    BY <1>4, <2>1, NoticedKnows
  <2>2. CASE ~ MediatorRuns(n)
    <3>1. mediators'[n] = mediators[n]
      <4>1. CASE MineBlock \/ InitiatorNext \/ TargetNext
        BY <1>1, <4>1, InitiatorActs, TargetActs DEF MineBlock, tasks
      <4>2. ASSUME NEW j \in Mediators, MediatorRuns(j)
            PROVE  mediators'[n] = mediators[n]
        BY <1>1, <2>2, <4>2, MediatorActs, StepLocks
      <4> QED
        BY <4>1, <4>2 DEF RunsNext
    <3>2. n \in noticed
      BY <1>1, <1>4, <2>2, Notices
    <3> QED
      BY <1>4, <3>1, <3>2 DEF NoticeInv
  <2> QED
    BY <2>1, <2>2
<1>5. ASSUME Initiator \in noticed', RegisteredInTime'
      PROVE  ~ initiator'.active
  <2>1. initiator \in InitiatorType
    BY <1>1, TypeParts DEF RestType
  <2>2. ASSUME InitiatorOnchainReveal
        PROVE  ~ initiator'.active
    <3>1. registered # 0
      BY <2>2 DEF InitiatorOnchainReveal, Polls
    <3>2. registered <= expiration
      BY <1>2, <1>5, <3>1 DEF RegisteredInTime
    <3>3. CASE initiator.active
      BY <2>1, <2>2, <3>2, <3>3 DEF InitiatorOnchainReveal, InitiatorPays, InitiatorType
    <3>4. CASE ~ initiator.active
      BY <2>2, <3>4 DEF InitiatorOnchainReveal
    <3> QED
      BY <3>3, <3>4
  <2>3. ASSUME ~ InitiatorOnchainReveal
        PROVE  ~ initiator'.active
    <3>1. Initiator \in noticed
      BY <1>1, <1>5, <2>3, Notices
    <3>2. registered # 0 /\ ~ initiator.active
      BY <1>2, <1>5, <3>1 DEF NoticeInv
    <3>3. ~ \E hop \in Nodes : InitInitiator(hop)
      BY <3>2 DEF InitInitiator, StartInv, Pristine
    <3>4. CASE InitiatorNext
      BY <2>3, <3>2, <3>3, <3>4 DEF InitiatorNext, InitiatorSecretReveal,
         InitiatorSecretRequest, InitiatorBlock
    <3>5. CASE MineBlock \/ TargetNext
      BY <1>1, <3>2, <3>5, TargetActs DEF MineBlock, tasks
    <3>6. ASSUME NEW n \in Mediators, MediatorRuns(n)
          PROVE  initiator' = initiator
      BY <3>6 DEF MediatorRuns, InitMediator, InitMediatorRuns, ReceiveTransferRefund,
                  RefundRuns, NodeChangeNetworkState, RetryRuns,
           MediatorSecretReveal, MediatorUnlock, UnlockRuns, MediatorLockExpired,
           MediatorOnchainReveal,
           MediatorBlock
    <3> QED
      BY <3>2, <3>4, <3>5, <3>6 DEF RunsNext
  <2> QED
    BY <2>2, <2>3
<1> QED
  BY <1>3, <1>4, <1>5 DEF NoticeInv
(* What expired stays late.                                                *)
LEMMA LateStays ==
  ASSUME TaskInv, StartInv, RunsNext, AnyExpired, Late
  PROVE  Late'
<1>1. latest \in Nat /\ registered \in Nat /\ expiration \in Nat
  BY TypeParts DEF TaskInv, RestType
<1>2. ~ Pristine
  BY DEF AnyExpired, Pristine
<1>3. /\ registered # 0 => registered' = registered
      /\ expiration' = expiration /\ latest' >= latest
      /\ registered' # registered => registered' = latest + 1 /\ latest' = latest + 1
  BY <1>2, SettledInTime
<1>4. latest' \in Nat
  BY TaskInvRuns, TypePartsNext DEF TaskInv, RestType
<1> QED
  BY <1>1, <1>3, <1>4 DEF Late, RegisteredInTime

NoNewExpired ==
  \A d \in Directions : /\ sent'[d] = "expired" => sent[d] = "expired"
                        /\ received'[d] = "expired" => received[d] = "expired"

LEMMA ChangesKeep ==
  ASSUME TypeInv, NEW n, NEW qs, NEW change \in {Learning, Registration}, NEW d \in Directions
  PROVE  /\ SentAt(n, qs, change)[d] = "expired" => sent[d] = "expired"
         /\ ReceivedAt(n, qs, change)[d] = "expired" => received[d] = "expired"
<1>1. \A s \in LockStatus : /\ WithSecret(s) = "expired" => s = "expired"
                            /\ WithRegistration(s) = "expired" => s = "expired"
  BY DEF WithSecret, WithRegistration
<1>2. sent[d] \in LockStatus /\ received[d] \in LockStatus
  BY TypeParts DEF Statuses
<1>3. \A s \in LockStatus : change[s] = "expired" => s = "expired"
  BY <1>1, Changes
<1> QED
  BY <1>2, <1>3, TameSent, TameReceived

LEMMA MediatedExpires ==
  ASSUME TypeInv, NEW n \in Mediators, NEW m, NEW p, NEW rcv, Mediated(n, m, p, rcv),
         \A d \in Directions : rcv[d] = "expired" => received[d] = "expired"
  PROVE  NoNewExpired
<1>1. sent \in Statuses
  BY TypeParts
<1>2. PICK k, snt :
        /\ MediatorStep(n, k, snt, rcv)
        /\ snt = sent \/ \E payee \in Nodes : snt = [sent EXCEPT ![<<n, payee>>] = "locked"]
  BY DEF Mediated
<1>3. \A d \in Directions : snt[d] = "expired" => sent[d] = "expired"
  BY <1>1, <1>2 DEF Statuses
<1>4. sent' = snt /\ received' = rcv
  BY <1>2 DEF MediatorStep, Mediate
<1> QED
  BY <1>3, <1>4 DEF NoNewExpired

(* A lock expires at a mediator in a block or by a LockExpired only.       *)
LEMMA MediatorExpires ==
  ASSUME TaskInv, NEW n \in Mediators, MediatorRuns(n)
  PROVE  \/ NoNewExpired
         \/ \E p \in Nodes : MediatorLockExpired(n, p)
         \/ \E b \in 1..confirmed_block_number : MediatorBlock(n, b) /\ mediators[n].active
<1>1. TypeInv /\ MediatorLocks /\ sent \in Statuses /\ received \in Statuses
  BY TypeParts DEF TaskInv, LockInv
<1>2. \A p, s, d : d \in Directions /\ s # "expired" /\ Receipt(p, n, s)[d] = "expired"
                     => received[d] = "expired"
  BY <1>1 DEF Statuses, Receipt
<1>3. ASSUME NEW p \in Nodes, InitMediatorRuns(n, p)
      PROVE  NoNewExpired
  <2>1. PICK m : Mediated(n, m, p, Receipt(p, n, "locked"))
    BY <1>1, <1>3, InitMediatorStep
  <2> QED
    BY <1>1, <1>2, <2>1, MediatedExpires
<1>4. ASSUME NEW p \in Nodes, RefundRuns(n, p)
      PROVE  NoNewExpired
  <2>1. Mediated(n, mediators[n], p, Receipt(p, n, "locked"))
    BY <1>1, <1>4, RefundStep
  <2> QED
    BY <1>1, <1>2, <2>1, MediatedExpires
<1>5. ASSUME NEW p \in Nodes, RetryRuns(n, p)
      PROVE  NoNewExpired
  BY <1>1, <1>5, NodeChangeStep, MediatedExpires
<1>6. ASSUME NEW qs, NEW pairs, NEW b, NEW change \in {Learning, Registration},
             sent' = Paid(n, SentAt(n, qs, change), pairs, b),
             received' = ReceivedAt(n, qs, change)
      PROVE  NoNewExpired
  <2>1. \A d \in Directions : Paid(n, SentAt(n, qs, change), pairs, b)[d]
                                \in {"claimed", SentAt(n, qs, change)[d]}
    BY DEF Paid
  <2> QED
    BY <1>1, <1>6, <2>1, ChangesKeep DEF NoNewExpired
<1>7. ASSUME NEW p \in Nodes, MediatorSecretReveal(n, p)
      PROVE  NoNewExpired
  <2>1. \E qs, pairs, b : /\ sent' = Paid(n, SentAt(n, qs, Learning), pairs, b)
                          /\ received' = ReceivedAt(n, qs, Learning)
    BY <1>7 DEF MediatorSecretReveal, Mediate
  <2> QED
    BY <1>6, <2>1
<1>8. ASSUME MediatorOnchainReveal(n)
      PROVE  NoNewExpired
  <2>1. CASE mediators[n].active
    <3>1. \E qs, pairs, b : /\ sent' = Paid(n, SentAt(n, qs, Registration), pairs, b)
                            /\ received' = ReceivedAt(n, qs, Registration)
      BY <1>8, <2>1 DEF MediatorOnchainReveal, Mediate
    <3> QED
      BY <1>6, <3>1
  <2>2. CASE ~ mediators[n].active
    BY <1>8, <2>2 DEF MediatorOnchainReveal, locks, NoNewExpired
  <2> QED
    BY <2>1, <2>2
<1>9. ASSUME NEW p \in Nodes, UnlockRuns(n, p)
      PROVE  NoNewExpired
  <2>1. sent' = sent /\ received' = Receipt(p, n, "claimed")
    BY <1>9 DEF MediatorUnlock, UnlockRuns, Mediate, Receipt
  <2> QED
    BY <1>2, <2>1 DEF NoNewExpired
<1>10. ASSUME NEW b \in 1..confirmed_block_number, MediatorBlock(n, b), ~ mediators[n].active
       PROVE  NoNewExpired
  BY <1>10 DEF MediatorBlock, locks, NoNewExpired
<1> QED
  BY <1>3, <1>4, <1>5, <1>7, <1>8, <1>9, <1>10 DEF MediatorRuns

(* A block at which a lock has expired is late.                            *)
LEMMA ExpiredBlock ==
  ASSUME TypeInv, NEW n, NEW b \in 1..confirmed_block_number, NextBlock(n, b),
         b >= sender_threshold, n \in noticed => ~ RegisteredInTime
  PROVE  Late
<1>1. /\ latest \in Nat /\ registered \in Nat /\ expiration \in Nat /\ b \in Nat
      /\ b <= latest - DEFAULT_NUMBER_OF_BLOCK_CONFIRMATIONS
      /\ b >= expiration + 2 * DEFAULT_NUMBER_OF_BLOCK_CONFIRMATIONS
  BY TypeParts DEF RestType, NextBlock, confirmed_block_number, sender_threshold
<1>2. DEFAULT_NUMBER_OF_BLOCK_CONFIRMATIONS \in Nat \ {0}
  BY TimingAssumption
<1>3. latest > expiration /\ b >= expiration
  BY <1>1, <1>2
<1>4. registered # 0 /\ registered <= b => n \in noticed
  BY DEF NextBlock
<1> QED
  BY <1>1, <1>3, <1>4 DEF Late, RegisteredInTime

LEMMA ExpiredAreLate ==
  ASSUME TaskInv, StartInv, NoticeInv, ExpiryInv, RunsNext, AnyExpired'
  PROVE  Late'
<1>1. TypeInv /\ MediatorLocks /\ sent \in Statuses /\ received \in Statuses
  BY TypeParts DEF TaskInv, LockInv
<1>2. AnyExpired => Late
  BY DEF ExpiryInv
<1>3. AnyExpired => Late'
  BY <1>2, LateStays
<1>4. ASSUME NoNewExpired
      PROVE  Late'
  BY <1>3, <1>4 DEF AnyExpired, NoNewExpired
<1>5. ASSUME Late, UNCHANGED <<latest, expiration, registered>>
      PROVE  Late'
  BY <1>5 DEF Late, RegisteredInTime
<1>6. ASSUME NEW p \in Nodes, NEW n, AcceptsLockExpired(n, p)
      PROVE  Late'
  BY <1>3, <1>6 DEF AcceptsLockExpired, AnyExpired
<1>7. CASE MineBlock
  BY <1>4, <1>7 DEF MineBlock, locks, NoNewExpired
<1>8. CASE InitiatorNext
  <2>1. \A hop, s, d : d \in Directions /\ s # "expired"
                         /\ [sent EXCEPT ![<<Initiator, hop>>] = s][d] = "expired"
                           => sent[d] = "expired"
    BY <1>1 DEF Statuses
  <2>2. received' = received
    BY <1>1, <1>8, InitiatorActs
  <2>3. CASE sent' = sent
    BY <1>4, <2>2, <2>3 DEF NoNewExpired
  <2>4. CASE \E hop, s : s # "expired" /\ sent' = [sent EXCEPT ![<<Initiator, hop>>] = s]
    BY <1>4, <2>1, <2>2, <2>4 DEF NoNewExpired
  <2>5. ASSUME NEW b \in 1..confirmed_block_number, InitiatorBlock(b), sent' # sent
        PROVE  Late'
    <3>1. /\ initiator.active /\ b >= sender_threshold /\ NextBlock(Initiator, b)
          /\ UNCHANGED <<latest, expiration, registered>>
      BY <2>5 DEF InitiatorBlock, is_lock_expired, chain
    <3>2. Initiator \in noticed => ~ RegisteredInTime
      BY <3>1 DEF NoticeInv
    <3>3. Late
      BY <1>1, <3>1, <3>2, ExpiredBlock
    <3> QED
      BY <1>5, <3>1, <3>3
  <2>6. ASSUME ~ \E b \in 1..confirmed_block_number : InitiatorBlock(b)
        PROVE  \/ sent' = sent
               \/ \E hop, s : s # "expired" /\ sent' = [sent EXCEPT ![<<Initiator, hop>>] = s]
    BY <1>8, <2>6 DEF InitiatorNext, InitInitiator, InitiatorSecretReveal,
                      InitiatorSecretRequest, InitiatorOnchainReveal, InitiatorPays, locks
  <2> QED
    BY <2>3, <2>4, <2>5, <2>6
<1>9. CASE TargetNext
  <2>1. sent' = sent
    BY <1>1, <1>9, TargetActs
  <2>2. ASSUME NEW p \in Nodes, InitTarget(p) \/ TargetUnlock(p)
        PROVE  NoNewExpired
    <3>1. \E s : s # "expired" /\ received' = [received EXCEPT ![<<p, Target>>] = s]
      BY <2>2 DEF InitTarget, TargetUnlock
    <3> QED
      BY <1>1, <2>1, <3>1 DEF NoNewExpired, Statuses
  <2>3. ASSUME NEW p \in Nodes, TargetSecretReveal(p)
        PROVE  NoNewExpired
    BY <1>1, <2>1, <2>3, ChangesKeep DEF TargetSecretReveal, NoNewExpired
  <2>4. ASSUME NEW p \in Nodes, TargetLockExpired(p)
        PROVE  Late'
    BY <1>6, <2>4 DEF TargetLockExpired
  <2>5. ASSUME TargetOnchainReveal
        PROVE  NoNewExpired
    <3>1. received' = ReceivedAt(Target, TargetPayer, Registration) \/ received' = received
      BY <2>5 DEF TargetOnchainReveal
    <3> QED
      BY <1>1, <2>1, <3>1, ChangesKeep DEF NoNewExpired
  <2>6. ASSUME NEW b, TargetBlock(b)
        PROVE  NoNewExpired
    BY <2>6 DEF TargetBlock, locks, NoNewExpired
  <2> QED
    BY <1>4, <1>9, <2>2, <2>3, <2>4, <2>5, <2>6 DEF TargetNext
<1>10. ASSUME NEW n \in Mediators, MediatorRuns(n)
       PROVE  Late'
  <2>1. ASSUME NEW p \in Nodes, MediatorLockExpired(n, p)
        PROVE  Late'
    BY <1>6, <2>1 DEF MediatorLockExpired
  <2>2. ASSUME NEW b \in 1..confirmed_block_number, MediatorBlock(n, b), mediators[n].active,
               ~ NoNewExpired
        PROVE  Late'
    <3> DEFINE lost == {p.payee : p \in {q \in PairsOf(mediators[n]) : LockHasExpired(n, q, b)}}
    <3>1. /\ sent' = SentAt(n, lost, Expiration) /\ received' = received
          /\ NextBlock(n, b) /\ UNCHANGED <<latest, expiration, registered>>
      BY <2>2 DEF MediatorBlock, Mediate, chain
    <3>2. PICK d \in Directions : sent'[d] # sent[d]
      BY <2>2, <3>1 DEF NoNewExpired
    <3>3. d[1] = n /\ d[2] \in lost
      <4> HIDE DEF lost
      <4> QED
        BY <1>1, <3>1, <3>2, TameSent
    <3>4. PICK p \in PairsOf(mediators[n]) : p.payee = d[2] /\ LockHasExpired(n, p, b)
      BY <3>3
    <3>5. d = <<n, p.payee>>
      BY <3>3, <3>4, DirectionType
    <3>6. sent[d] \in {"locked", "unlocked"} /\ b >= sender_threshold
      BY <3>4, <3>5 DEF LockHasExpired, is_lock_expired
    <3>7. n \in noticed => ~ RegisteredInTime
      BY <3>3, <3>6 DEF ExpiryInv
    <3>8. Late
      BY <1>1, <3>1, <3>6, <3>7, ExpiredBlock
    <3> QED
      BY <1>5, <3>1, <3>8
  <2> QED
    BY <1>4, <1>10, <2>1, <2>2, MediatorExpires
<1> QED
  BY <1>7, <1>8, <1>9, <1>10 DEF RunsNext
(* A mediator that notices a registration in time claims or keeps all its  *)
(* locks on chain.                                                         *)
LEMMA NoticingSettles ==
  ASSUME TaskInv, NEW n \in Mediators, MediatorOnchainReveal(n), RegisteredInTime,
         NEW d \in Directions, d[1] = n
  PROVE  sent'[d] \notin {"locked", "unlocked"}
<1>1. TypeInv /\ MediatorLocks /\ sent[d] \in LockStatus
  BY TypeParts DEF TaskInv, LockInv, Statuses
<1>2. Owns(n, mediators[n], sent, received)
  BY <1>1, TaskFacts
<1>3. ASSUME sent[d] \in {"locked", "unlocked"}
      PROVE  \E p \in PairsOf(mediators[n]) : p.payee = d[2]
  BY <1>2, <1>3 DEF Owns, Pending
<1>4. CASE ~ mediators[n].active
  <2>1. PairsOf(mediators[n]) = {}
    BY <1>1, <1>4, TaskFacts
  <2>2. sent' = sent
    BY <1>4 DEF MediatorOnchainReveal, locks
  <2> QED
    BY <1>3, <2>1, <2>2
<1>5. CASE mediators[n].active
  <2> DEFINE qs == PartnersOf(mediators[n])
             snt == SentAt(n, qs, Registration)
  <2>1. PICK pairs, b : sent' = Paid(n, snt, pairs, b)
    BY <1>5 DEF MediatorOnchainReveal, Mediate
  <2>2. snt[d] = IF d[2] \in qs THEN Registration[sent[d]] ELSE sent[d]
    BY <1>1, TameSent
  <2>3. sent'[d] \in {"claimed", snt[d]}
    BY <2>1 DEF Paid
  <2>4. sent[d] \in {"locked", "unlocked"} => d[2] \in qs
    BY <1>3 DEF PartnersOf
  <2> HIDE DEF snt, qs
  <2>5. Registration[sent[d]] \notin {"locked", "unlocked"}
    <3>1. Registration[sent[d]] = WithRegistration(sent[d])
      BY <1>1, Changes
    <3> QED
      BY <3>1 DEF WithRegistration, RegisteredInTime
  <2> QED
    BY <2>2, <2>3, <2>4, <2>5
<1> QED
  BY <1>4, <1>5

(* A mediator that has noticed the registration starts no new lock.        *)
LEMMA NoticedStartsNothing ==
  ASSUME TaskInv, TipInv, SecretInv, NoticeInv, NEW n \in Mediators, MediatorRuns(n),
         n \in noticed, ForwardedOnce', NEW d \in Directions, d[1] = n,
         sent[d] \notin {"locked", "unlocked"}
  PROVE  sent'[d] \notin {"locked", "unlocked"}
<1>1. TypeInv /\ sent[d] \in LockStatus
  BY TypeParts DEF TaskInv, Statuses
<1>2. registered # 0 /\ (mediators[n].active => mediators[n].secret)
  BY DEF NoticeInv
<1>3. ASSUME NEW p \in Nodes, \/ InitMediatorRuns(n, p) \/ RefundRuns(n, p)
                              \/ MediatorSecretReveal(n, p) \/ MediatorOnchainReveal(n)
      PROVE  FALSE
  BY <1>2, <1>3 DEF InitMediator, InitMediatorRuns, ReceiveTransferRefund, RefundRuns,
                    MediatorSecretReveal,
                    MediatorOnchainReveal, Polls
<1>4. ASSUME NEW p \in Nodes, RetryRuns(n, p)
      PROVE  sent' = sent
  BY <1>2, <1>4, RetryForwardsNothing
<1>5. ASSUME NEW p \in Nodes, UnlockRuns(n, p) \/ MediatorLockExpired(n, p)
      PROVE  sent' = sent
  BY <1>5 DEF MediatorUnlock, UnlockRuns, MediatorLockExpired, Mediate
<1>6. ASSUME NEW b, MediatorBlock(n, b)
      PROVE  sent' = sent \/ \E qs : sent' = SentAt(n, qs, Expiration)
  BY <1>6 DEF MediatorBlock, Mediate, locks
<1>7. ASSUME NEW qs, sent' = SentAt(n, qs, Expiration)
      PROVE  sent'[d] \in {"expired", sent[d]}
  BY <1>1, <1>7, TameSent, Changes
<1>8. \E p \in Nodes : TRUE
  BY RolesAssumption
<1> QED
  BY <1>3, <1>4, <1>5, <1>6, <1>7, <1>8 DEF MediatorRuns

LEMMA ExpiryInvNext ==
  ASSUME TaskInv, StartInv, TipInv, SecretInv, NoticeInv, ExpiryInv, RunsNext, ForwardedOnce'
  PROVE  ExpiryInv'
<1>1. /\ TypeInv /\ MediatorLocks
      /\ Initiator \notin Mediators /\ Target \notin Mediators
  BY DEF TaskInv, LockInv, Mediators
<1>2. AnyExpired' => Late'
  BY ExpiredAreLate
<1>3. ASSUME NEW n \in Mediators, n \in noticed', RegisteredInTime',
             NEW d \in Directions, d[1] = n
      PROVE  sent'[d] \notin {"locked", "unlocked"}
  <2>1. CASE MediatorOnchainReveal(n)
    <3>1. registered # 0
      BY <2>1 DEF MediatorOnchainReveal, Polls
    <3>2. RegisteredInTime
      BY <1>3, <3>1, SettledInTime
    <3> QED
      BY <1>3, <2>1, <3>2, NoticingSettles
  <2>2. CASE ~ MediatorOnchainReveal(n)
    <3>1. n \in noticed
      BY <1>1, <1>3, <2>2, Notices
    <3>2. RegisteredInTime
      BY <1>3, <3>1, SettledInTime DEF NoticeInv
    <3>3. sent[d] \notin {"locked", "unlocked"}
      BY <1>3, <3>1, <3>2 DEF ExpiryInv
    <3>4. CASE MediatorRuns(n)
      BY <1>3, <3>1, <3>3, <3>4, NoticedStartsNothing
    <3>5. CASE ~ MediatorRuns(n)
      <4>1. CASE MineBlock \/ InitiatorNext \/ TargetNext
        BY <1>1, <1>3, <3>3, <4>1, InitiatorActs, TargetActs DEF MineBlock, locks
      <4>2. ASSUME NEW j \in Mediators, MediatorRuns(j)
            PROVE  sent'[d] = sent[d]
        BY <1>1, <1>3, <3>5, <4>2, MediatorActs DEF MediatorStep, Mediate
      <4> QED
        BY <3>3, <4>1, <4>2 DEF RunsNext
    <3> QED
      BY <3>4, <3>5
  <2> QED
    BY <2>1, <2>2
<1> QED
  BY <1>2, <1>3 DEF ExpiryInv

LEMMA AtomicInvNext ==
  ASSUME AtomicInv, [Next]_vars, ForwardedOnce'
  PROVE  AtomicInv'
<1>1. TaskInv /\ StartInv /\ TipInv /\ SecretInv /\ NoticeInv /\ ExpiryInv
  BY DEF AtomicInv
<1>2. TaskInv'
  BY <1>1, TaskInvNext
<1>3. CASE RunsNext
  BY <1>1, <1>2, <1>3, StartInvNext, TipInvNext, SecretInvNext, NoticeInvNext, ExpiryInvNext
  DEF AtomicInv
<1>4. CASE UNCHANGED vars \/ \E n \in Mediators : Stops(n)
  <2>1. UNCHANGED <<sent, received, initiator, mediators, target, expiration, latest,
                    registered, transactions, noticed, secret_request, reveals>>
    BY <1>4, StopsFrame DEF vars, locks, tasks, messages, chain
  <2>2. StartInv'
    BY <1>1, <2>1 DEF StartInv, InitiatorHop, Pristine
  <2>3. NoticeInv' /\ ExpiryInv'
    BY <1>1, <2>1 DEF NoticeInv, ExpiryInv, RegisteredInTime, AnyExpired, Late
  <2>4. TipInv' /\ SecretInv'
    BY <1>1, <2>1 DEF TipInv, Tip, Fresh, SecretInv, NoSecret, TargetPayer
  <2> QED
    BY <1>2, <2>2, <2>3, <2>4 DEF AtomicInv
<1> QED
  BY <1>3, <1>4, NextCases

(* Once the secret is registered in time, no channel of the payment lets   *)
(* its lock expire, at the sender or at the receiver, for every topology   *)
(* and every number of confirmations: a sender removes a lock only at a    *)
(* confirmed block by which it must have noticed such a registration.  A   *)
(* mediator that forwards the same transfer twice is not covered: it may   *)
(* lock after it has noticed the registration.                             *)
THEOREM UnlocksStayAtomic == Spec /\ []ForwardedOnce => []OnchainUnlocksAtomic
<1>1. AtomicInv => OnchainUnlocksAtomic
  BY DEF AtomicInv, ExpiryInv, OnchainUnlocksAtomic, AnyExpired, Late, RegisteredInTime
<1>2. AtomicInv /\ ForwardedOnce' /\ [Next]_vars => AtomicInv'
  BY AtomicInvNext
<1> QED
  BY <1>1, <1>2, AtomicInvInit, PTL DEF Spec
-----------------------------------------------------------------------------
(* Time.                                                                   *)

(* A running node is at most MAX_LAG confirmed blocks behind when a block  *)
(* is mined, a registration is mined in time, and no node stops before it. *)
TimeInv ==
  /\ registered <= latest
  /\ \A n \in stopped : RegisteredInTime
  /\ \A n \in Nodes :
       /\ \/ n \in stopped
          \/ latest <= block_number[n] + DEFAULT_NUMBER_OF_BLOCK_CONFIRMATIONS + MAX_LAG + 1
       /\ transactions[n] <= latest
       /\ registered = 0 /\ transactions[n] # 0 => latest < transactions[n] + MINING_DELAY
  /\ \A d \in Directions : received[d] = "onchain" => RegisteredInTime

(* A step of a: its clock does not go back, it sends one registration.     *)
TimeStep(a) ==
  /\ UNCHANGED <<latest, registered>>
  /\ \A n \in Nodes \ {a} : block_number'[n] = block_number[n]
                            /\ transactions'[n] = transactions[n]
  /\ block_number'[a] >= block_number[a]
  /\ transactions'[a] = transactions[a] \/ (transactions[a] = 0 /\ transactions'[a] = latest)

LEMMA BlockTime ==
  ASSUME RestType, NEW a \in Nodes, NEW b \in 1..confirmed_block_number, NextBlock(a, b),
         transactions' \in {transactions, ChannelSecret(a)}, UNCHANGED <<latest, registered>>
  PROVE  TimeStep(a)
<1>1. /\ b \in Nat /\ block_number \in [Nodes -> Nat] /\ transactions \in [Nodes -> Nat]
      /\ block_number' = [block_number EXCEPT ![a] = b] /\ block_number[a] < b
  BY DEF RestType, NextBlock
<1>2. block_number[a] \in Nat /\ block_number'[a] = b
  BY <1>1
<1>3. block_number'[a] >= block_number[a]
  BY <1>1, <1>2
<1>4. \A n \in Nodes \ {a} : block_number'[n] = block_number[n]
                             /\ transactions'[n] = transactions[n]
  BY <1>1 DEF ChannelSecret
<1>5. transactions'[a] = transactions[a] \/ (transactions[a] = 0 /\ transactions'[a] = latest)
  BY <1>1 DEF ChannelSecret
<1> QED
  BY <1>3, <1>4, <1>5 DEF TimeStep

LEMMA SameTime ==
  ASSUME RestType, NEW a \in Nodes,
         UNCHANGED <<latest, registered, block_number, transactions>>
  PROVE  TimeStep(a)
<1>1. block_number[a] \in Nat
  BY DEF RestType
<1> QED
  BY <1>1 DEF TimeStep

LEMMA TimeSteps ==
  ASSUME TypeInv
  PROVE  /\ InitiatorNext => TimeStep(Initiator)
         /\ TargetNext => TimeStep(Target)
         /\ \A n \in Mediators : MediatorRuns(n) => TimeStep(n)
<1>1. RestType
  BY TypeParts
<1>2. ASSUME InitiatorNext
      PROVE  TimeStep(Initiator)
  <2>1. ASSUME NEW b \in 1..confirmed_block_number, InitiatorBlock(b)
        PROVE  TimeStep(Initiator)
    <3>1. /\ NextBlock(Initiator, b) /\ transactions' \in {transactions, ChannelSecret(Initiator)}
          /\ UNCHANGED <<latest, registered>>
      BY <2>1 DEF InitiatorBlock, chain
    <3> QED
      BY <1>1, <3>1, BlockTime, RolesAssumption
  <2>2. CASE ~ \E b \in 1..confirmed_block_number : InitiatorBlock(b)
    <3>1. UNCHANGED <<latest, registered, block_number, transactions>>
      BY <1>2, <2>2 DEF InitiatorNext, InitInitiator, InitiatorSecretReveal,
                        InitiatorSecretRequest, InitiatorOnchainReveal, chain
    <3> QED
      BY <1>1, <3>1, SameTime, RolesAssumption
  <2> QED
    BY <2>1, <2>2
<1>3. ASSUME TargetNext
      PROVE  TimeStep(Target)
  <2>1. ASSUME NEW b \in 1..confirmed_block_number, TargetBlock(b)
        PROVE  TimeStep(Target)
    <3>1. /\ NextBlock(Target, b) /\ transactions' \in {transactions, ChannelSecret(Target)}
          /\ UNCHANGED <<latest, registered>>
      BY <2>1 DEF TargetBlock, chain
    <3> QED
      BY <1>1, <3>1, BlockTime, RolesAssumption
  <2>2. CASE ~ \E b \in 1..confirmed_block_number : TargetBlock(b)
    <3>1. UNCHANGED <<latest, registered, block_number, transactions>>
      BY <1>3, <2>2 DEF TargetNext, InitTarget, TargetSecretReveal, TargetUnlock,
                        TargetLockExpired, TargetOnchainReveal, chain
    <3> QED
      BY <1>1, <3>1, SameTime, RolesAssumption
  <2> QED
    BY <2>1, <2>2
<1>4. ASSUME NEW n \in Mediators, MediatorRuns(n)
      PROVE  TimeStep(n)
  <2>1. n \in Nodes
    BY DEF Mediators
  <2>2. ASSUME NEW b \in 1..confirmed_block_number, MediatorBlock(n, b)
        PROVE  TimeStep(n)
    <3>1. /\ NextBlock(n, b) /\ transactions' \in {transactions, ChannelSecret(n)}
          /\ UNCHANGED <<latest, registered>>
      BY <2>2 DEF MediatorBlock, chain
    <3> QED
      BY <1>1, <2>1, <3>1, BlockTime
  <2>3. CASE ~ \E b \in 1..confirmed_block_number : MediatorBlock(n, b)
    <3>1. UNCHANGED <<latest, registered, block_number, transactions>>
      BY <1>4, <2>3 DEF MediatorRuns, InitMediator, InitMediatorRuns, ReceiveTransferRefund,
                        RefundRuns,
             NodeChangeNetworkState, RetryRuns, MediatorSecretReveal, MediatorUnlock, UnlockRuns,
             MediatorLockExpired, MediatorOnchainReveal, chain
    <3> QED
      BY <1>1, <2>1, <3>1, SameTime
  <2> QED
    BY <2>2, <2>3
<1> QED
  BY <1>2, <1>3, <1>4

(* A lock is unlocked on chain in time only.                               *)
LEMMA OnchainLocks ==
  ASSUME TaskInv, RunsNext, NEW d \in Directions, received'[d] = "onchain",
         received[d] # "onchain"
  PROVE  RegisteredInTime /\ UNCHANGED <<registered, expiration>>
<1>1. TypeInv /\ MediatorLocks /\ received \in Statuses /\ received[d] \in LockStatus
  BY TypeParts DEF TaskInv, LockInv, Statuses
<1>2. ASSUME NEW n, NEW qs, registered # 0, received' = ReceivedAt(n, qs, Registration)
      PROVE  RegisteredInTime
  <2>1. received'[d] = Registration[received[d]]
    BY <1>1, <1>2, TameReceived
  <2>2. WithRegistration(received[d]) = "onchain"
    BY <1>1, <2>1, Changes
  <2> QED
    BY <1>2, <2>2 DEF WithRegistration, RegisteredInTime
<1>3. ASSUME NEW n, NEW qs, received' = ReceivedAt(n, qs, Learning)
      PROVE  FALSE
  <2>1. received'[d] = Learning[received[d]]
    BY <1>1, <1>3, TameReceived
  <2>2. WithSecret(received[d]) = "onchain"
    BY <1>1, <2>1, Changes
  <2> QED
    BY <2>2 DEF WithSecret
<1>4. ASSUME NEW a, NEW b, NEW s \in {"locked", "claimed", "expired"},
             received' = [received EXCEPT ![<<a, b>>] = s]
      PROVE  FALSE
  BY <1>1, <1>4 DEF Statuses
<1>5. CASE MineBlock \/ InitiatorNext
  BY <1>1, <1>5, InitiatorActs DEF MineBlock, locks
<1>6. CASE TargetNext
  <2>1. CASE TargetOnchainReveal
    BY <1>2, <2>1 DEF TargetOnchainReveal, Polls, chain
  <2>2. ASSUME NEW p \in Nodes, InitTarget(p) \/ TargetUnlock(p) \/ TargetLockExpired(p)
        PROVE  FALSE
    BY <1>4, <2>2 DEF InitTarget, TargetUnlock, TargetLockExpired
  <2>3. ASSUME NEW p \in Nodes, TargetSecretReveal(p)
        PROVE  FALSE
    BY <1>3, <2>3 DEF TargetSecretReveal
  <2>4. ASSUME NEW b, TargetBlock(b)
        PROVE  FALSE
    BY <2>4 DEF TargetBlock, locks
  <2> QED
    BY <1>6, <2>1, <2>2, <2>3, <2>4 DEF TargetNext
<1>7. ASSUME NEW n \in Mediators, MediatorRuns(n)
      PROVE  RegisteredInTime /\ UNCHANGED <<registered, expiration>>
  <2>1. CASE MediatorOnchainReveal(n)
    <3>1. mediators[n].active
      BY <2>1 DEF MediatorOnchainReveal, locks
    <3>2. registered # 0 /\ received' = ReceivedAt(n, PartnersOf(mediators[n]), Registration)
      BY <2>1, <3>1 DEF MediatorOnchainReveal, Polls, Mediate
    <3> QED
      BY <1>2, <2>1, <3>2 DEF MediatorOnchainReveal, chain
  <2>2. ASSUME NEW p \in Nodes, InitMediatorRuns(n, p) \/ RefundRuns(n, p)
                                \/ UnlockRuns(n, p) \/ MediatorLockExpired(n, p)
        PROVE  FALSE
    BY <1>4, <2>2 DEF InitMediatorRuns, RefundRuns, UnlockRuns, MediatorLockExpired,
                      TransferRuns, Mediate, NewReceipt
  <2>3. ASSUME NEW p \in Nodes, MediatorSecretReveal(n, p)
        PROVE  FALSE
    BY <1>3, <2>3 DEF MediatorSecretReveal, Mediate
  <2>4. ASSUME NEW p \in Nodes, RetryRuns(n, p)
        PROVE  FALSE
    BY <2>4 DEF NodeChangeNetworkState, RetryRuns, TransferRuns, Mediate
  <2>5. ASSUME NEW b, MediatorBlock(n, b)
        PROVE  FALSE
    BY <2>5 DEF MediatorBlock, Mediate, locks
  <2> QED
    BY <1>7, <2>1, <2>2, <2>3, <2>4, <2>5 DEF MediatorRuns
<1> QED
  BY <1>5, <1>6, <1>7 DEF RunsNext

LEMMA TimeInvNext ==
  ASSUME TaskInv, StartInv, TimeInv, RunsNext
  PROVE  TimeInv'
<1> DEFINE C == DEFAULT_NUMBER_OF_BLOCK_CONFIRMATIONS
<1>1. /\ TypeInv /\ latest \in Nat /\ registered \in Nat /\ expiration \in Nat
      /\ \A n \in Nodes : block_number[n] \in Nat /\ transactions[n] \in Nat
      /\ C \in Nat /\ MAX_LAG \in Nat /\ MINING_DELAY \in Nat \ {0}
  BY TypeParts, TimingAssumption DEF TaskInv, RestType
<1>2. \A d \in Directions : received'[d] = "onchain" => RegisteredInTime'
  <2> SUFFICES ASSUME NEW d \in Directions, received'[d] = "onchain"
               PROVE  RegisteredInTime'
    OBVIOUS
  <2>1. CASE received[d] = "onchain"
    <3>1. RegisteredInTime
      BY <2>1 DEF TimeInv
    <3> QED
      BY <3>1, SettledInTime DEF RegisteredInTime
  <2>2. CASE received[d] # "onchain"
    BY <2>2, OnchainLocks DEF RegisteredInTime
  <2> QED
    BY <2>1, <2>2
<1>3. ASSUME MineBlock
      PROVE  /\ registered' <= latest'
             /\ \A n \in Nodes :
                  /\ n \in stopped \/ latest' <= block_number'[n] + C + MAX_LAG + 1
                  /\ transactions'[n] <= latest'
                  /\ registered' = 0 /\ transactions'[n] # 0
                       => latest' < transactions'[n] + MINING_DELAY
  <2>1. /\ latest' = latest + 1 /\ UNCHANGED <<transactions, block_number>>
        /\ \A n \in Nodes \ stopped : latest - C - block_number[n] <= MAX_LAG
    BY <1>3 DEF MineBlock, confirmed_block_number
  <2>2. \/ registered' = latest'
        \/ /\ registered' = registered
           /\ registered # 0 \/ ~ \E h \in {transactions[n] : n \in Nodes} \ {0} :
                                       latest' >= h + MINING_DELAY
    BY <1>3 DEF MineBlock
  <2>3. ASSUME NEW n \in Nodes
        PROVE  /\ n \in stopped \/ latest' <= block_number'[n] + C + MAX_LAG + 1
               /\ transactions'[n] <= latest'
    BY <1>1, <2>1 DEF TimeInv
  <2>4. ASSUME NEW n \in Nodes, registered' = 0, transactions'[n] # 0
        PROVE  latest' < transactions'[n] + MINING_DELAY
    BY <1>1, <2>1, <2>2, <2>4
  <2>5. registered' <= latest'
    BY <1>1, <2>1, <2>2 DEF TimeInv
  <2> QED
    BY <2>3, <2>4, <2>5
<1>4. ASSUME NEW a \in Nodes, TimeStep(a)
      PROVE  /\ registered' <= latest'
             /\ \A n \in Nodes :
                  /\ n \in stopped \/ latest' <= block_number'[n] + C + MAX_LAG + 1
                  /\ transactions'[n] <= latest'
                  /\ registered' = 0 /\ transactions'[n] # 0
                       => latest' < transactions'[n] + MINING_DELAY
  <2>1. block_number'[a] \in Nat
    BY TaskInvRuns, TypePartsNext DEF TaskInv, RestType
  <2>2. ASSUME NEW n \in Nodes
        PROVE  /\ n \in stopped \/ latest' <= block_number'[n] + C + MAX_LAG + 1
               /\ transactions'[n] <= latest'
               /\ registered' = 0 /\ transactions'[n] # 0
                    => latest' < transactions'[n] + MINING_DELAY
    <3>1. CASE n = a
      BY <1>1, <1>4, <2>1, <3>1 DEF TimeInv, TimeStep
    <3>2. CASE n # a
      BY <1>1, <1>4, <3>2 DEF TimeInv, TimeStep
    <3> QED
      BY <3>1, <3>2
  <2> QED
    BY <1>4, <2>2 DEF TimeStep, TimeInv
<1>5. MineBlock \/ \E a \in Nodes : TimeStep(a)
  <2>1. \A n \in Mediators : n \in Nodes
    BY DEF Mediators
  <2> QED
    BY <1>1, <2>1, TimeSteps, RolesAssumption DEF RunsNext
<1>6. stopped' = stopped
  BY TaskInvRuns
<1>7. \A n \in stopped' : RegisteredInTime'
  BY <1>6, SettledInTime DEF TimeInv, RegisteredInTime
<1> QED
  BY <1>2, <1>3, <1>4, <1>5, <1>6, <1>7 DEF TimeInv
-----------------------------------------------------------------------------
(* What the state of a payer says about its lock.                          *)

PairOk(n, p, rcv, b, e) ==
  /\ p.payer_state = "payer_balance_proof" => rcv[<<p.payer, n>>] \notin Pending
  /\ p.payer_state = "payer_expired" =>
       \/ rcv[<<p.payer, n>>] \notin Pending
       \/ b >= e + 2 * DEFAULT_NUMBER_OF_BLOCK_CONFIRMATIONS
  /\ p.payer_state = "payer_waiting_secret_reveal" => ~ (e - b > REVEAL_TIMEOUT)

PairStates ==
  \A n \in Mediators : \A p \in PairsOf(mediators[n]) :
    PairOk(n, p, received, block_number[n], expiration)

(* The states of the payers after a step on the pairs.                     *)
LEMMA ExceptState ==
  ASSUME NEW p \in MediationPairState, NEW s
  PROVE  /\ [p EXCEPT !.payee_state = s].payer_state = p.payer_state
         /\ [p EXCEPT !.payer_state = s].payer_state = s
BY DEF MediationPairState

LEMMA PayersTold ==
  ASSUME NEW pairs \in Seq(MediationPairState), NEW x, NEW i \in DOMAIN pairs
  PROVE  /\ set_offchain_reveal_state(pairs, x)[i].payer_state = pairs[i].payer_state
         /\ events_for_secretreveal(pairs)[i].payer_state
              \in {pairs[i].payer_state, "payer_secret_revealed"}
<1>1. pairs[i] \in MediationPairState
  OBVIOUS
<1> QED
  BY <1>1, ExceptState DEF set_offchain_reveal_state, events_for_secretreveal, MapPairs

LEMMA PayersOfPaid ==
  ASSUME NEW pairs \in Seq(MediationPairState), NEW b, NEW i \in DOMAIN pairs
  PROVE  events_for_balanceproof(pairs, b)[i].payer_state = pairs[i].payer_state
<1>1. pairs[i] \in MediationPairState
  OBVIOUS
<1> QED
  BY <1>1, ExceptState DEF events_for_balanceproof, MapPairs

LEMMA PayersInBlock ==
  ASSUME NEW pairs \in Seq(MediationPairState), NEW n, NEW b, NEW i \in DOMAIN pairs
  PROVE  /\ events_to_remove_expired_locks(n, pairs, b)[i].payer_state = pairs[i].payer_state
         /\ events_for_onchain_secretreveal_if_dangerzone(n, pairs, b)[i].payer_state =
              IF in_dangerzone(n, pairs[i], b) THEN "payer_waiting_secret_reveal"
              ELSE pairs[i].payer_state
         /\ \/ events_for_expired_pairs(n, pairs, b)[i].payer_state = pairs[i].payer_state
            \/ /\ events_for_expired_pairs(n, pairs, b)[i].payer_state = "payer_expired"
               /\ is_transfer_expired(n, pairs[i].payer, b)
<1>1. pairs[i] \in MediationPairState
  OBVIOUS
<1>2. events_to_remove_expired_locks(n, pairs, b)[i].payer_state = pairs[i].payer_state
  BY <1>1, ExceptState DEF events_to_remove_expired_locks, MapPairs
<1>3. events_for_onchain_secretreveal_if_dangerzone(n, pairs, b)[i].payer_state =
        IF in_dangerzone(n, pairs[i], b) THEN "payer_waiting_secret_reveal"
        ELSE pairs[i].payer_state
  BY <1>1, ExceptState DEF events_for_onchain_secretreveal_if_dangerzone, MapPairs
<1>4. \/ events_for_expired_pairs(n, pairs, b)[i].payer_state = pairs[i].payer_state
      \/ /\ events_for_expired_pairs(n, pairs, b)[i].payer_state = "payer_expired"
         /\ is_transfer_expired(n, pairs[i].payer, b)
  BY <1>1, ExceptState DEF events_for_expired_pairs, MapPairs
<1> QED
  BY <1>2, <1>3, <1>4

LEMMA PayersUnlocked ==
  ASSUME NEW pairs \in Seq(MediationPairState), NEW x, NEW i \in DOMAIN pairs
  PROVE  PaidPairs(pairs, x)[i].payer_state =
           IF i \in FirstOf(pairs, x) THEN "payer_balance_proof" ELSE pairs[i].payer_state
<1>1. pairs[i] \in MediationPairState
  OBVIOUS
<1> QED
  BY <1>1, ExceptState DEF PaidPairs

LEMMA PayersExpired ==
  ASSUME NEW pairs \in Seq(MediationPairState), NEW n, NEW rcv, NEW i \in DOMAIN pairs
  PROVE  ExpiredPairs(n, pairs, rcv)[i].payer_state =
           IF rcv[<<pairs[i].payer, n>>] \notin Pending THEN "payer_expired"
           ELSE pairs[i].payer_state
<1>1. pairs[i] \in MediationPairState
  OBVIOUS
<1> QED
  BY <1>1, ExceptState DEF ExpiredPairs, MapPairs

(* The states of the pairs of n are right after its step.                  *)
OkPairs(n, pairs) ==
  \A i \in DOMAIN pairs : PairOk(n, pairs[i], received', block_number'[n], expiration)

LEMMA MediatorPairs ==
  ASSUME TypeInv, NEW n \in Mediators, NEW k, NEW snt, NEW rcv, Mediate(n, k, snt, rcv),
         OkPairs(n, k.transfers_pair), NEW p \in PairsOf(mediators'[n])
  PROVE  PairOk(n, p, received', block_number'[n], expiration)
<1>1. PairsOf(NoMediatorTask) = {}
  BY DEF PairsOf, NoMediatorTask
<1>2. mediators'[n] = k
  BY <1>1, Cleared
<1> QED
  BY <1>2 DEF PairsOf, OkPairs

(* A state that does not change stays right.                               *)
LEMMA PairStaysOk ==
  ASSUME NEW n, NEW p, NEW q, NEW b \in Nat, NEW c \in Nat, NEW e \in Nat, c >= b,
         NEW rcv, NEW rcv2, PairOk(n, p, rcv, b, e),
         q.payer = p.payer, q.payer_state = p.payer_state,
         rcv2[<<p.payer, n>>] \in Pending => rcv[<<p.payer, n>>] \in Pending
  PROVE  PairOk(n, q, rcv2, c, e)
<1>1. DEFAULT_NUMBER_OF_BLOCK_CONFIRMATIONS \in Nat /\ REVEAL_TIMEOUT \in Nat
  BY TimingAssumption
<1>2. b >= e + 2 * DEFAULT_NUMBER_OF_BLOCK_CONFIRMATIONS
        => c >= e + 2 * DEFAULT_NUMBER_OF_BLOCK_CONFIRMATIONS
  BY <1>1
<1>3. ~ (e - b > REVEAL_TIMEOUT) => ~ (e - c > REVEAL_TIMEOUT)
  BY <1>1
<1> QED
  BY <1>2, <1>3 DEF PairOk

LEMMA PairFresh ==
  ASSUME NEW n, NEW q, NEW rcv, NEW b, NEW e,
         q.payer_state \in {"payer_pending", "payer_secret_revealed"}
  PROVE  PairOk(n, q, rcv, b, e)
BY DEF PairOk

LEMMA MediatorPairStates ==
  ASSUME TaskInv, PairStates, NEW n \in Mediators, MediatorRuns(n),
         NEW p \in PairsOf(mediators'[n])
  PROVE  PairOk(n, p, received', block_number'[n], expiration)
<1> DEFINE m == mediators[n]
           e == expiration
<1>1. /\ TypeInv /\ MediatorLocks /\ n \in Nodes /\ sent \in Statuses /\ received \in Statuses
      /\ Owns(n, m, sent, received) /\ m \in MediatorTransferState
      /\ m.transfers_pair \in Seq(MediationPairState) /\ e \in Nat
  BY TypeParts, TaskFacts DEF TaskInv, LockInv, RestType
<1>2. block_number[n] \in Nat /\ block_number'[n] \in Nat /\ block_number'[n] >= block_number[n]
  <2>1. block_number'[n] \in Nat
    BY <1>1, TaskInvRuns, TypePartsNext DEF TaskInv, RestType, RunsNext
  <2>2. block_number[n] \in Nat
    BY <1>1, TypeParts DEF RestType
  <2> QED
    BY <1>1, <2>1, <2>2, TimeSteps DEF TimeStep
<1>3. \A i \in DOMAIN m.transfers_pair :
        /\ m.transfers_pair[i] \in PairsOf(m)
        /\ PairOk(n, m.transfers_pair[i], received, block_number[n], e)
  BY DEF PairStates, PairsOf
<1>4. \A k : SamePairs(k, m.transfers_pair) =>
        /\ DOMAIN k = DOMAIN m.transfers_pair
        /\ \A i \in DOMAIN k : k[i].payer = m.transfers_pair[i].payer
  BY DEF SamePairs
<1>5. \A q : /\ [m EXCEPT !.transfers_pair = q].transfers_pair = q
             /\ [m EXCEPT !.secret = TRUE, !.transfers_pair = q].transfers_pair = q
  BY <1>1 DEF MediatorTransferState
<1>6. ASSUME NEW q, SamePairs(q, m.transfers_pair), NEW i \in DOMAIN q,
             q[i].payer_state = m.transfers_pair[i].payer_state,
             received'[<<q[i].payer, n>>] \in Pending => received[<<q[i].payer, n>>] \in Pending
      PROVE  PairOk(n, q[i], received', block_number'[n], e)
  <2>1. /\ q[i].payer = m.transfers_pair[i].payer
        /\ PairOk(n, m.transfers_pair[i], received, block_number[n], e)
    BY <1>3, <1>4, <1>6
  <2> HIDE DEF m, e
  <2> QED
    BY <1>1, <1>2, <1>6, <2>1, PairStaysOk
<1>7. ASSUME NEW payer \in Nodes, Takes(n, payer)
      PROVE  PairOk(n, p, received', block_number'[n], e)
  <2>1. ASSUME p \in PairsOf(m)
        PROVE  PairOk(n, p, received', block_number'[n], e)
    <3>1. <<p.payer, n>> \in Directions /\ received[<<p.payer, n>>] # "none"
      BY <1>1, <2>1 DEF Owns
    <3>2. received'[<<p.payer, n>>] = received[<<p.payer, n>>]
      BY <1>1, <1>7, <3>1 DEF Takes, Receipt, Statuses
    <3>3. PairOk(n, p, received, block_number[n], e)
      BY <2>1 DEF PairStates
    <3> QED
      BY <1>1, <1>2, <3>2, <3>3, PairStaysOk
  <2>2. PairsOf(NoMediatorTask) = {}
    BY DEF PairsOf, NoMediatorTask
  <2>3. CASE Waits(n, m, payer)
    BY <2>1, <2>2, <2>3 DEF Waits, PairsOf
  <2>4. ASSUME NEW payee \in Nodes, Forwards(n, m, payer, payee)
        PROVE  PairOk(n, p, received', block_number'[n], e)
    <3>1. p \in PairsOf(m) \/ p = MediationPair(payer, payee)
      BY <2>4 DEF Forwards
    <3>2. MediationPair(payer, payee).payer_state = "payer_pending"
      BY DEF MediationPair
    <3> QED
      BY <2>1, <3>1, <3>2, PairFresh
  <2> QED
    BY <1>7, <2>3, <2>4 DEF Takes
<1>8. ASSUME NEW q, NEW qs, NEW change \in {Learning, Registration, Expiration},
             SamePairs(q, m.transfers_pair), received' = ReceivedAt(n, qs, change),
             \A i \in DOMAIN q : \/ q[i].payer_state = m.transfers_pair[i].payer_state
                                 \/ q[i].payer_state = "payer_secret_revealed"
      PROVE  OkPairs(n, q)
  <2> SUFFICES ASSUME NEW i \in DOMAIN q
               PROVE  PairOk(n, q[i], received', block_number'[n], e)
    BY DEF OkPairs
  <2>1. <<q[i].payer, n>> \in Directions
    <3>1. q[i].payer = m.transfers_pair[i].payer /\ m.transfers_pair[i] \in PairsOf(m)
      BY <1>3, <1>4, <1>8
    <3> QED
      BY <1>1, <3>1 DEF Owns
  <2>2. received'[<<q[i].payer, n>>] \in Pending => received[<<q[i].payer, n>>] \in Pending
    BY <1>1, <1>8, <2>1, TameReceived DEF Tame
  <2> QED
    BY <1>6, <1>8, <2>2, PairFresh
<1>9. ASSUME NEW x \in Nodes, MediatorSecretReveal(n, x)
      PROVE  PairOk(n, p, received', block_number'[n], e)
  <2> DEFINE known == set_offchain_reveal_state(m.transfers_pair, x)
             told  == events_for_secretreveal(known)
             q     == events_for_balanceproof(told, block_number[n])
  <2>1. /\ received' = ReceivedAt(n, PartnersOf(m), Learning)
        /\ \E snt, rcv : Mediate(n, [m EXCEPT !.secret = TRUE, !.transfers_pair = q], snt, rcv)
    BY <1>9 DEF MediatorSecretReveal, Mediate
  <2>2. SamePairs(known, m.transfers_pair) /\ known \in Seq(MediationPairState)
    <3>1. SamePairs(known, m.transfers_pair)
      BY <1>1, PairSteps
    <3> QED
      BY <3>1 DEF SamePairs
  <2>3. SamePairs(told, known) /\ told \in Seq(MediationPairState)
    <3>1. SamePairs(told, known)
      BY <2>2, PairSteps
    <3> QED
      BY <3>1 DEF SamePairs
  <2>4. SamePairs(q, told)
    BY <2>3, PairSteps
  <2>5. ASSUME NEW i \in DOMAIN m.transfers_pair
        PROVE  \/ q[i].payer_state = m.transfers_pair[i].payer_state
               \/ q[i].payer_state = "payer_secret_revealed"
    <3>1. i \in DOMAIN known /\ i \in DOMAIN told
      BY <2>2, <2>3 DEF SamePairs
    <3>2. known[i].payer_state = m.transfers_pair[i].payer_state
      BY <1>1, PayersTold
    <3>3. told[i].payer_state \in {known[i].payer_state, "payer_secret_revealed"}
      BY <2>2, <3>1, PayersTold
    <3>4. q[i].payer_state = told[i].payer_state
      BY <2>3, <3>1, PayersOfPaid
    <3> QED
      BY <3>2, <3>3, <3>4
  <2> HIDE DEF known, told, q
  <2>6. SamePairs(q, m.transfers_pair)
    BY <2>2, <2>3, <2>4, SamePairsTransitive
  <2>7. OkPairs(n, q)
    BY <1>4, <1>8, <2>1, <2>5, <2>6
  <2> QED
    BY <1>1, <1>5, <2>1, <2>7, MediatorPairs
<1>10. ASSUME MediatorOnchainReveal(n), m.active
       PROVE  PairOk(n, p, received', block_number'[n], e)
  <2> DEFINE q == events_for_balanceproof(m.transfers_pair, registered)
  <2>1. /\ received' = ReceivedAt(n, PartnersOf(m), Registration)
        /\ \E snt, rcv : Mediate(n, [m EXCEPT !.secret = TRUE, !.transfers_pair = q], snt, rcv)
    BY <1>10 DEF MediatorOnchainReveal, Mediate
  <2>2. SamePairs(q, m.transfers_pair)
    BY <1>1, PairSteps
  <2>3. \A i \in DOMAIN m.transfers_pair : q[i].payer_state = m.transfers_pair[i].payer_state
    BY <1>1, PayersOfPaid
  <2> HIDE DEF q
  <2>4. OkPairs(n, q)
    BY <1>4, <1>8, <2>1, <2>2, <2>3
  <2> QED
    BY <1>1, <1>5, <2>1, <2>4, MediatorPairs
<1>11. ASSUME NEW x \in Nodes, UnlockRuns(n, x)
       PROVE  PairOk(n, p, received', block_number'[n], e)
  <2> DEFINE q == PaidPairs(m.transfers_pair, x)
  <2>1. /\ received' = Receipt(x, n, "claimed")
        /\ \E snt, rcv : Mediate(n, [m EXCEPT !.transfers_pair = q], snt, rcv)
    BY <1>11 DEF UnlockRuns, PaidTask, Mediate, Receipt
  <2>2. SamePairs(q, m.transfers_pair)
    BY <1>1, PairSteps
  <2>3. \A i \in DOMAIN m.transfers_pair :
          /\ q[i].payer_state \in {"payer_balance_proof", m.transfers_pair[i].payer_state}
          /\ m.transfers_pair[i].payer # x =>
               q[i].payer_state = m.transfers_pair[i].payer_state
    BY <1>1, PayersUnlocked DEF FirstOf
  <2> HIDE DEF q
  <2>4. ASSUME NEW i \in DOMAIN q
        PROVE  PairOk(n, q[i], received', block_number'[n], e)
    <3>1. i \in DOMAIN m.transfers_pair /\ q[i].payer = m.transfers_pair[i].payer
          /\ m.transfers_pair[i] \in PairsOf(m)
      BY <1>3, <1>4, <2>2
    <3>2. <<q[i].payer, n>> \in Directions
      BY <1>1, <3>1 DEF Owns
    <3>3. CASE q[i].payer = x
      <4>1. received'[<<q[i].payer, n>>] = "claimed" /\ "claimed" \notin Pending
        BY <1>1, <2>1, <3>2, <3>3 DEF Receipt, Statuses, Pending
      <4>2. CASE q[i].payer_state = "payer_balance_proof"
        BY <4>1, <4>2 DEF PairOk
      <4>3. CASE q[i].payer_state = m.transfers_pair[i].payer_state
        BY <1>6, <2>2, <4>1, <4>3
      <4> QED
        BY <2>3, <3>1, <4>2, <4>3
    <3>4. CASE q[i].payer # x
      <4>1. received'[<<q[i].payer, n>>] = received[<<q[i].payer, n>>]
        BY <1>1, <2>1, <3>2, <3>4 DEF Receipt, Statuses
      <4> QED
        BY <1>6, <2>2, <2>3, <3>1, <3>4, <4>1
    <3> QED
      BY <3>3, <3>4
  <2>5. OkPairs(n, q)
    BY <2>4 DEF OkPairs
  <2> QED
    BY <1>1, <1>5, <2>1, <2>5, MediatorPairs
<1>12. ASSUME NEW x \in Nodes, MediatorLockExpired(n, x)
       PROVE  PairOk(n, p, received', block_number'[n], e)
  <2> DEFINE q == ExpiredPairs(n, m.transfers_pair, Receipt(x, n, "expired"))
  <2>1. /\ received' = Receipt(x, n, "expired") /\ <<x, n>> \in Directions
        /\ \E snt, rcv : Mediate(n, [m EXCEPT !.transfers_pair = q], snt, rcv)
    BY <1>12 DEF MediatorLockExpired, AcceptsLockExpired, Mediate, Receipt, ExpiredPairs
  <2>2. SamePairs(q, m.transfers_pair)
    BY <1>1, PairSteps
  <2>3. \A i \in DOMAIN m.transfers_pair : q[i].payer_state =
          IF received'[<<m.transfers_pair[i].payer, n>>] \notin Pending THEN "payer_expired"
          ELSE m.transfers_pair[i].payer_state
    BY <1>1, <2>1, PayersExpired
  <2> HIDE DEF q
  <2>4. ASSUME NEW i \in DOMAIN q
        PROVE  PairOk(n, q[i], received', block_number'[n], e)
    <3>1. i \in DOMAIN m.transfers_pair /\ q[i].payer = m.transfers_pair[i].payer
          /\ m.transfers_pair[i] \in PairsOf(m)
      BY <1>3, <1>4, <2>2
    <3>2. <<q[i].payer, n>> \in Directions
      BY <1>1, <3>1 DEF Owns
    <3>3. CASE received'[<<q[i].payer, n>>] \notin Pending
      BY <2>3, <3>1, <3>3 DEF PairOk
    <3>4. CASE received'[<<q[i].payer, n>>] \in Pending
      <4>1. received'[<<q[i].payer, n>>] = received[<<q[i].payer, n>>]
        BY <1>1, <2>1, <3>2, <3>4 DEF Receipt, Statuses, Pending
      <4> QED
        BY <1>6, <2>2, <2>3, <3>1, <3>4, <4>1
    <3> QED
      BY <3>3, <3>4
  <2>5. OkPairs(n, q)
    BY <2>4 DEF OkPairs
  <2> QED
    BY <1>1, <1>5, <2>1, <2>5, MediatorPairs
<1>13. ASSUME NEW b \in 1..confirmed_block_number, MediatorBlock(n, b), m.active
       PROVE  PairOk(n, p, received', block_number'[n], e)
  <2> DEFINE removed  == events_to_remove_expired_locks(n, m.transfers_pair, b)
             revealed == events_for_onchain_secretreveal_if_dangerzone(n, removed, b)
             q        == events_for_expired_pairs(n, revealed, b)
  <2>1. /\ received' = received
        /\ \E snt, rcv : Mediate(n, [m EXCEPT !.transfers_pair = q], snt, rcv)
    BY <1>13 DEF MediatorBlock, Mediate
  <2>2. block_number'[n] = b
    BY <1>1, <1>13, TypeParts DEF MediatorBlock, NextBlock, RestType
  <2>3. SamePairs(removed, m.transfers_pair) /\ removed \in Seq(MediationPairState)
    <3>1. SamePairs(removed, m.transfers_pair)
      BY <1>1, PairSteps
    <3> QED
      BY <3>1 DEF SamePairs
  <2>4. SamePairs(revealed, removed) /\ revealed \in Seq(MediationPairState)
    <3>1. SamePairs(revealed, removed)
      BY <2>3, PairSteps
    <3> QED
      BY <3>1 DEF SamePairs
  <2>5. SamePairs(q, revealed)
    BY <2>4, PairSteps
  <2>6. ASSUME NEW i \in DOMAIN m.transfers_pair
        PROVE  \/ q[i].payer_state = m.transfers_pair[i].payer_state
               \/ /\ q[i].payer_state = "payer_waiting_secret_reveal" /\ ~ is_safe_to_wait(b)
               \/ q[i].payer_state = "payer_expired" /\ b >= sender_threshold
    <3>1. i \in DOMAIN removed /\ i \in DOMAIN revealed
      BY <2>3, <2>4 DEF SamePairs
    <3>2. removed[i].payer_state = m.transfers_pair[i].payer_state
      BY <1>1, PayersInBlock
    <3>3. \/ revealed[i].payer_state = removed[i].payer_state
          \/ revealed[i].payer_state = "payer_waiting_secret_reveal" /\ ~ is_safe_to_wait(b)
      <4>1. revealed[i].payer_state = IF in_dangerzone(n, removed[i], b)
                                      THEN "payer_waiting_secret_reveal"
                                      ELSE removed[i].payer_state
        BY <2>3, <3>1, PayersInBlock
      <4> QED
        BY <4>1 DEF in_dangerzone
    <3>4. \/ q[i].payer_state = revealed[i].payer_state
          \/ q[i].payer_state = "payer_expired" /\ is_transfer_expired(n, revealed[i].payer, b)
      BY <2>4, <3>1, PayersInBlock
    <3> HIDE DEF removed, revealed, q
    <3> QED
      BY <3>2, <3>3, <3>4 DEF is_transfer_expired, is_lock_expired
  <2> HIDE DEF removed, revealed, q
  <2>7. SamePairs(q, m.transfers_pair)
    BY <2>3, <2>4, <2>5, SamePairsTransitive
  <2>8. ASSUME NEW i \in DOMAIN q
        PROVE  PairOk(n, q[i], received', block_number'[n], e)
    <3>1. i \in DOMAIN m.transfers_pair
      BY <1>4, <2>7
    <3>2. CASE q[i].payer_state = m.transfers_pair[i].payer_state
      BY <1>6, <2>1, <2>7, <3>2
    <3>3. CASE q[i].payer_state = "payer_waiting_secret_reveal" /\ ~ is_safe_to_wait(b)
      BY <2>2, <3>3 DEF PairOk, is_safe_to_wait
    <3>4. CASE q[i].payer_state = "payer_expired" /\ b >= sender_threshold
      BY <2>2, <3>4 DEF PairOk, sender_threshold
    <3> QED
      BY <2>6, <3>1, <3>2, <3>3, <3>4
  <2>9. OkPairs(n, q)
    BY <2>8 DEF OkPairs
  <2> QED
    BY <1>1, <1>5, <2>1, <2>9, MediatorPairs
<1>14. ASSUME received' = received, mediators' = mediators
       PROVE  PairOk(n, p, received', block_number'[n], e)
  <2>1. PairOk(n, p, received, block_number[n], e)
    BY <1>14 DEF PairStates
  <2> QED
    BY <1>1, <1>2, <1>14, <2>1, PairStaysOk
<1>15. ASSUME \/ MediatorOnchainReveal(n) /\ ~ m.active
              \/ \E b \in 1..confirmed_block_number : MediatorBlock(n, b) /\ ~ m.active
       PROVE  received' = received /\ mediators' = mediators
  BY <1>15 DEF MediatorOnchainReveal, MediatorBlock, locks
<1>16. ASSUME NEW x \in Nodes, \/ InitMediatorRuns(n, x) \/ RefundRuns(n, x)
                               \/ RetryRuns(n, x)
       PROVE  \E payer \in Nodes : Takes(n, payer)
  BY <1>1, <1>16, TakesCases
<1> HIDE DEF m
<1> QED
  BY <1>7, <1>9, <1>10, <1>11, <1>12, <1>13, <1>14, <1>15, <1>16 DEF MediatorRuns

(* A step of the others leaves the task of n and its locks alone.          *)
LEMMA OthersStep ==
  ASSUME TaskInv, RunsNext, NEW n \in Mediators, ~ MediatorRuns(n)
  PROVE  /\ mediators'[n] = mediators[n]
         /\ \A d \in Directions : d[1] = n => sent'[d] = sent[d]
         /\ \A d \in Directions : d[2] = n => received'[d] = received[d]
         /\ block_number'[n] = block_number[n] /\ transactions'[n] = transactions[n]
<1>1. TypeInv /\ MediatorLocks /\ n \in Nodes /\ n # Initiator /\ n # Target
  BY DEF TaskInv, LockInv, Mediators
<1>2. CASE MineBlock
  BY <1>2 DEF MineBlock, locks, tasks
<1>3. CASE InitiatorNext
  BY <1>1, <1>3, InitiatorActs, TimeSteps DEF TimeStep
<1>4. CASE TargetNext
  BY <1>1, <1>4, TargetActs, TimeSteps DEF TimeStep
<1>5. ASSUME NEW j \in Mediators, MediatorRuns(j)
      PROVE  /\ mediators'[n] = mediators[n]
             /\ \A d \in Directions : d[1] = n => sent'[d] = sent[d]
             /\ \A d \in Directions : d[2] = n => received'[d] = received[d]
             /\ block_number'[n] = block_number[n] /\ transactions'[n] = transactions[n]
  <2>1. j # n
    BY <1>5
  <2>2. TimeStep(j)
    BY <1>1, <1>5, TimeSteps
  <2>3. CASE UNCHANGED <<sent, received, mediators>>
    BY <1>1, <2>1, <2>2, <2>3 DEF TimeStep
  <2>4. ASSUME NEW k, NEW snt, NEW rcv, MediatorStep(j, k, snt, rcv)
        PROVE  /\ mediators'[n] = mediators[n]
               /\ \A d \in Directions : d[1] = n => sent'[d] = sent[d]
               /\ \A d \in Directions : d[2] = n => received'[d] = received[d]
    <3>1. mediators'[n] = mediators[n]
      BY <1>1, <2>1, <2>4, StepLocks
    <3> QED
      BY <2>1, <2>4, <3>1 DEF MediatorStep, Mediate
  <2> QED
    BY <1>1, <1>5, <2>1, <2>2, <2>3, <2>4, MediatorActs DEF TimeStep
<1> QED
  BY <1>2, <1>3, <1>4, <1>5 DEF RunsNext

LEMMA MediatorChain ==
  ASSUME NEW n \in Mediators, MediatorRuns(n)
  PROVE  UNCHANGED <<expiration, latest, registered>>
BY DEF MediatorRuns, InitMediator, InitMediatorRuns, ReceiveTransferRefund, RefundRuns,
       NodeChangeNetworkState, RetryRuns,
       MediatorSecretReveal, MediatorUnlock, UnlockRuns, MediatorLockExpired,
       MediatorOnchainReveal, MediatorBlock, chain

LEMMA PairStatesNext ==
  ASSUME TaskInv, StartInv, PairStates, RunsNext
  PROVE  PairStates'
<1>1. TypeInv /\ MediatorLocks
  BY DEF TaskInv, LockInv
<1> SUFFICES ASSUME NEW n \in Mediators, NEW p \in PairsOf(mediators'[n])
             PROVE  PairOk(n, p, received', block_number'[n], expiration')
  BY DEF PairStates
<1>2. CASE MediatorRuns(n)
  BY <1>2, MediatorPairStates, MediatorChain
<1>3. CASE ~ MediatorRuns(n)
  <2>1. /\ mediators'[n] = mediators[n]
        /\ \A d \in Directions : d[2] = n => received'[d] = received[d]
        /\ block_number'[n] = block_number[n]
    BY <1>3, OthersStep
  <2>2. p \in PairsOf(mediators[n]) /\ PairsOf(mediators[n]) # {}
    BY <2>1
  <2>3. mediators[n].active
    BY <1>1, <2>2, TaskFacts
  <2>4. expiration' = expiration
    BY <2>3, SettledInTime DEF Pristine
  <2>5. Owns(n, mediators[n], sent, received)
    BY <1>1, TaskFacts
  <2>6. received'[<<p.payer, n>>] = received[<<p.payer, n>>]
    BY <2>1, <2>2, <2>5 DEF Owns
  <2>7. PairOk(n, p, received, block_number[n], expiration)
    BY <2>2 DEF PairStates
  <2> QED
    BY <2>1, <2>4, <2>6, <2>7 DEF PairOk
<1> QED
  BY <1>2, <1>3
-----------------------------------------------------------------------------
(* What a mediator sends is covered by what it receives.                   *)

(* The registration that n has sent is mined before the lock expires.      *)
RegistersInTime(n) == transactions[n] # 0 /\ transactions[n] + MINING_DELAY <= expiration

(* n has the lock of x, or will have it.                                   *)
Good(n, x) ==
  \/ received[<<x, n>>] = "claimed"
  \/ received[<<x, n>>] \in Pending /\ RegisteredInTime
  \/ /\ received[<<x, n>>] = "unlocked" /\ registered = 0
     /\ is_safe_to_wait(block_number[n]) \/ RegistersInTime(n)

(* The nodes n has sent the transfer to.                                   *)
Out(n) == {a \in Nodes : <<n, a>> \in Directions /\ sent[<<n, a>>] # "none"}

(* f[a] is the payer of the transfer that was sent to a: another one for   *)
(* each, and none that still waits.                                        *)
CoverParts(n, f) ==
  /\ \A a \in Out(n) : <<f[a], n>> \in Directions /\ received[<<f[a], n>>] # "none"
  /\ \A a, b \in Out(n) : f[a] = f[b] => a = b
  /\ \A p \in PairsOf(mediators[n]) : p.payee \in Out(n) /\ f[p.payee] = p.payer
  /\ \A a \in Out(n) : received[<<f[a], n>>] \in Pending =>
       \E p \in PairsOf(mediators[n]) : p.payee = a
  /\ Fresh(mediators[n]) => \A a \in Out(n) : f[a] # mediators[n].waiting_transfer

Pays(n, f) == \A a \in Out(n) : sent[<<n, a>>] = "claimed" => Good(n, f[a])

Covered(n, f) == CoverParts(n, f) /\ Pays(n, f)

CoverInv == \A n \in Mediators : \E f \in [Nodes -> Nodes] : Covered(n, f)

(* reveal_timeout is long enough.                                          *)
LEMMA SafeToWait ==
  ASSUME TypeInv, TimeInv, NEW n \in Nodes, n \notin stopped, is_safe_to_wait(block_number[n])
  PROVE  latest < expiration /\ latest + MINING_DELAY <= expiration
<1>1. /\ latest \in Nat /\ expiration \in Nat /\ block_number[n] \in Nat
  BY TypeParts DEF RestType
<1>2. /\ latest <= block_number[n] + DEFAULT_NUMBER_OF_BLOCK_CONFIRMATIONS + MAX_LAG + 1
      /\ expiration - block_number[n] > REVEAL_TIMEOUT
  BY DEF TimeInv, is_safe_to_wait
<1> QED
  BY <1>1, <1>2, TimingAssumption

LEMMA StillSafe ==
  ASSUME TypeInv, TimeInv, NEW n \in Nodes, registered = 0,
         is_safe_to_wait(block_number[n]) \/ RegistersInTime(n)
  PROVE  latest < expiration
<1>1. latest \in Nat /\ expiration \in Nat /\ transactions[n] \in Nat
      /\ MINING_DELAY \in Nat
  BY TypeParts, TimingAssumption DEF RestType
<1>2. CASE RegistersInTime(n)
  <2>1. latest < transactions[n] + MINING_DELAY /\ transactions[n] + MINING_DELAY <= expiration
    BY <1>2 DEF RegistersInTime, TimeInv
  <2> QED
    BY <1>1, <2>1
<1>3. n \notin stopped
  BY DEF TimeInv, RegisteredInTime
<1> QED
  BY <1>2, <1>3, SafeToWait

(* A lock of n's payers stays good when the others or the chain move.      *)
LEMMA GoodStays ==
  ASSUME TaskInv, StartInv, TimeInv, RunsNext, NEW n \in Mediators, ~ MediatorRuns(n),
         NEW x, <<x, n>> \in Directions, Good(n, x)
  PROVE  Good(n, x)'
<1>1. /\ TypeInv /\ n \in Nodes /\ latest \in Nat /\ expiration \in Nat
  BY TypeParts DEF TaskInv, Mediators, RestType
<1>2. /\ received'[<<x, n>>] = received[<<x, n>>]
      /\ block_number'[n] = block_number[n] /\ transactions'[n] = transactions[n]
  BY OthersStep
<1>3. ~ Pristine
  BY DEF Good, Pristine, Pending
<1>4. /\ registered # 0 => registered' = registered
      /\ expiration' = expiration
      /\ registered' # registered => registered' = latest + 1
  BY <1>3, SettledInTime
<1>5. CASE received[<<x, n>>] = "claimed"
  BY <1>2, <1>5 DEF Good
<1>6. CASE received[<<x, n>>] \in Pending /\ RegisteredInTime
  BY <1>2, <1>4, <1>6 DEF Good, RegisteredInTime
<1>7. CASE /\ received[<<x, n>>] = "unlocked" /\ registered = 0
           /\ is_safe_to_wait(block_number[n]) \/ RegistersInTime(n)
  <2>1. CASE registered' = registered
    BY <1>2, <1>4, <1>7, <2>1 DEF Good, is_safe_to_wait, RegistersInTime
  <2>2. CASE registered' # registered
    <3>1. latest < expiration
      BY <1>1, <1>7, StillSafe
    <3>2. RegisteredInTime'
      BY <1>1, <1>4, <2>2, <3>1 DEF RegisteredInTime
    <3> QED
      BY <1>2, <1>7, <3>2 DEF Good, Pending
  <2> QED
    BY <2>1, <2>2
<1> QED
  BY <1>5, <1>6, <1>7 DEF Good

LEMMA OthersCovered ==
  ASSUME TaskInv, StartInv, TimeInv, RunsNext, NEW n \in Mediators, ~ MediatorRuns(n),
         NEW f \in [Nodes -> Nodes], Covered(n, f)
  PROVE  Covered(n, f)'
<1>1. /\ mediators'[n] = mediators[n]
      /\ \A a : <<n, a>> \in Directions => sent'[<<n, a>>] = sent[<<n, a>>]
      /\ \A a : <<a, n>> \in Directions => received'[<<a, n>>] = received[<<a, n>>]
  BY OthersStep
<1>2. Out(n)' = Out(n)
  BY <1>1 DEF Out
<1>3. CoverParts(n, f) /\ Pays(n, f)
  BY DEF Covered
<1>4. \A a \in Out(n) : <<f[a], n>> \in Directions /\ <<n, a>> \in Directions
  BY <1>3 DEF CoverParts, Out
<1>5. CoverParts(n, f)'
  BY <1>1, <1>2, <1>3, <1>4 DEF CoverParts, Fresh
<1>6. Pays(n, f)'
  BY <1>1, <1>2, <1>3, <1>4, GoodStays DEF Pays
<1> QED
  BY <1>5, <1>6 DEF Covered

(* A pending lock keeps the task of n, and its pairs.                      *)
LEMMA PendingKeepsTask ==
  ASSUME MediatorLocks', NEW n \in Mediators, NEW x \in Nodes, <<x, n>> \in Directions,
         received'[<<x, n>>] \in Pending
  PROVE  mediators'[n] # NoMediatorTask
<1>1. Owns(n, mediators'[n], sent', received')
  BY DEF MediatorLocks
<1>2. PairsOf(NoMediatorTask) = {} /\ NoMediatorTask.waiting_transfer = NoNode
  BY DEF PairsOf, NoMediatorTask
<1>3. x # NoNode
  BY RolesAssumption
<1>4. mediators'[n].waiting_transfer = x \/ PairsOf(mediators'[n]) # {}
  BY <1>1 DEF Owns
<1> QED
  BY <1>2, <1>3, <1>4

LEMMA QuietCovered ==
  ASSUME TaskInv, TaskInv', NEW n \in Mediators, Quiet(n), NoNewLock,
         NEW f \in [Nodes -> Nodes], CoverParts(n, f),
         \A d \in Directions : received'[d] \in Pending => received[d] \in Pending
  PROVE  CoverParts(n, f)' /\ Out(n)' = Out(n)
<1>1. TypeInv /\ MediatorLocks /\ MediatorLocks'
  BY DEF TaskInv, LockInv
<1>2. /\ mediators'[n] = NoMediatorTask \/ SameTask(mediators'[n], mediators[n])
      /\ \A d \in Directions : sent[d] # "none" => sent'[d] # "none"
      /\ \A d \in Directions : received[d] # "none" => received'[d] # "none"
  BY <1>1, QuietTask
<1>3. Out(n)' = Out(n)
  BY <1>2 DEF Out, NoNewLock
<1>4. PairsOf(NoMediatorTask) = {}
  BY DEF PairsOf, NoMediatorTask
<1>5. ASSUME SameTask(mediators'[n], mediators[n])
      PROVE  /\ \A p \in PairsOf(mediators'[n]) : \E r \in PairsOf(mediators[n]) :
                  r.payer = p.payer /\ r.payee = p.payee
             /\ \A p \in PairsOf(mediators[n]) : \E r \in PairsOf(mediators'[n]) :
                  r.payer = p.payer /\ r.payee = p.payee
  BY <1>5 DEF SameTask, SamePairs, PairsOf
<1>6. \A a \in Out(n) : <<f[a], n>> \in Directions /\ received'[<<f[a], n>>] # "none"
  BY <1>2 DEF CoverParts
<1>7. \A p \in PairsOf(mediators'[n]) : p.payee \in Out(n) /\ f[p.payee] = p.payer
  BY <1>2, <1>4, <1>5 DEF CoverParts
<1>8. ASSUME NEW a \in Out(n), received'[<<f[a], n>>] \in Pending
      PROVE  \E p \in PairsOf(mediators'[n]) : p.payee = a
  <2>1. f[a] \in Nodes
    BY DEF Out
  <2>2. mediators'[n] # NoMediatorTask
    BY <1>1, <1>6, <1>8, <2>1, PendingKeepsTask
  <2>3. received[<<f[a], n>>] \in Pending
    BY <1>6, <1>8
  <2>4. PICK p \in PairsOf(mediators[n]) : p.payee = a
    BY <2>3 DEF CoverParts
  <2> QED
    BY <1>2, <1>5, <2>2, <2>4
<1>9. ASSUME Fresh(mediators'[n])
      PROVE  \A a \in Out(n) : f[a] # mediators'[n].waiting_transfer
  <2>1. TaskKept(n)
    BY <1>2 DEF TaskKept
  <2> QED
    BY <1>9, <2>1, KeptNotFresh DEF CoverParts
<1>10. CoverParts(n, f)'
  BY <1>3, <1>6, <1>7, <1>8, <1>9 DEF CoverParts
<1> QED
  BY <1>3, <1>10

(* What n has is the same after it has taken a transfer.                   *)
LEMMA TakesKeepsGood ==
  ASSUME NEW n \in Mediators, NEW x,
         UNCHANGED <<expiration, registered, block_number, transactions>>,
         received'[<<x, n>>] = received[<<x, n>>], Good(n, x)
  PROVE  Good(n, x)'
BY DEF Good, RegisteredInTime, is_safe_to_wait, RegistersInTime

LEMMA ForwardsNewPayee ==
  ASSUME TypeInv, MediatorLocks, NEW n \in Mediators, NEW payer \in Nodes, NEW payee \in Nodes,
         Forwards(n, mediators[n], payer, payee), ForwardedOnce'
  PROVE  \A p \in PairsOf(mediators[n]) : p.payee # payee
<1> DEFINE pairs == mediators[n].transfers_pair
           x == MediationPair(payer, payee)
           q == mediators'[n].transfers_pair
<1>1. pairs \in Seq(MediationPairState) /\ x \in MediationPairState
  BY TaskFacts DEF MediationPair, MediationPairState
<1>2. q = Append(pairs, x) /\ sanity_check(mediators'[n])
  BY DEF Forwards
<1>3. Chained(q) /\ PayersDiffer(q)
  BY <1>2, SanityCheckParts DEF ForwardedOnce, PayersDiffer
<1> SUFFICES ASSUME NEW p \in PairsOf(mediators[n]), p.payee = payee
             PROVE  FALSE
  OBVIOUS
<1>4. payee = pairs[1].payer
  BY DEF Forwards
<1>5. PICK i \in DOMAIN pairs : pairs[i] = p
  BY DEF PairsOf
<1> HIDE DEF pairs, x, q
<1>6. /\ Len(q) = Len(pairs) + 1 /\ q \in Seq(MediationPairState)
      /\ \A j \in 1..Len(pairs) : q[j] = pairs[j]
  BY <1>1, <1>2, AppendProperties
<1>7. Len(pairs) \in Nat /\ i \in 1..Len(pairs)
  BY <1>1, <1>5
<1>8. i \in 1..Len(q) /\ i # Len(q) /\ 1 \in 1..Len(pairs)
  BY <1>6, <1>7
<1>9. q[i].payee = q[1].payer
  BY <1>4, <1>5, <1>6, <1>7, <1>8
<1> QED
  BY <1>3, <1>6, <1>8, <1>9, BackAtTheEnd

LEMMA TakesCovered ==
  ASSUME TaskInv, TaskInv', NEW n \in Mediators, NEW payer \in Nodes, Takes(n, payer),
         ForwardedOnce', NEW f \in [Nodes -> Nodes], Covered(n, f),
         UNCHANGED <<expiration, registered, block_number, transactions>>
  PROVE  \E g \in [Nodes -> Nodes] : Covered(n, g)'
<1> DEFINE m == mediators[n]
           k == mediators'[n]
           t == <<payer, n>>
<1>1. /\ TypeInv /\ MediatorLocks /\ MediatorLocks' /\ sent \in Statuses
      /\ received \in Statuses /\ t \in Directions /\ payer # NoNode
  BY TypeParts, RolesAssumption DEF TaskInv, LockInv, Takes
<1>2. /\ \A a \in Out(n) : a \in Nodes /\ <<n, a>> \in Directions
                           /\ f[a] \in Nodes /\ <<f[a], n>> \in Directions
                           /\ received[<<f[a], n>>] # "none"
      /\ \A a, b \in Out(n) : f[a] = f[b] => a = b
      /\ \A p \in PairsOf(m) : p.payee \in Out(n) /\ f[p.payee] = p.payer
      /\ \A a \in Out(n) : received[<<f[a], n>>] \in Pending =>
           \E p \in PairsOf(m) : p.payee = a
      /\ Fresh(m) => \A a \in Out(n) : f[a] # m.waiting_transfer
      /\ \A a \in Out(n) : sent[<<n, a>>] = "claimed" => Good(n, f[a])
  BY DEF Covered, CoverParts, Pays, Out
<1>3. \/ /\ received[t] = "none" /\ received' = Receipt(payer, n, "locked")
      \/ m.waiting_transfer = payer /\ received' = received
  BY DEF Takes
<1>4. /\ \A d \in Directions : received[d] # "none" => received'[d] = received[d]
      /\ received'[t] # "none"
  <2>1. CASE received[t] = "none" /\ received' = Receipt(payer, n, "locked")
    BY <1>1, <2>1 DEF Receipt, Statuses
  <2>2. CASE m.waiting_transfer = payer /\ received' = received
    <3>1. Owns(n, m, sent, received)
      BY <1>1, TaskFacts
    <3> QED
      BY <1>1, <2>2, <3>1 DEF Owns
  <2> QED
    BY <1>3, <2>1, <2>2
<1>5. \A a \in Out(n) : f[a] = payer => m.waiting_transfer = payer /\ ~ Fresh(m)
  BY <1>2, <1>3
<1>6. \A a \in Out(n) : /\ received'[<<f[a], n>>] = received[<<f[a], n>>]
                        /\ Good(n, f[a]) => Good(n, f[a])'
  BY <1>2, <1>4, TakesKeepsGood
<1>7. CASE Waits(n, m, payer)
  <2>1. sent' = sent /\ (k = NoMediatorTask \/ (k.transfers_pair = m.transfers_pair
                                                /\ k.waiting_transfer = payer))
    BY <1>7 DEF Waits
  <2>2. Out(n)' = Out(n)
    BY <2>1 DEF Out
  <2>3. PairsOf(k) = PairsOf(m) \/ k = NoMediatorTask
    BY <2>1 DEF PairsOf
  <2>4. PairsOf(NoMediatorTask) = {}
    BY DEF PairsOf, NoMediatorTask
  <2>5. ASSUME NEW a \in Out(n), received'[<<f[a], n>>] \in Pending
        PROVE  \E p \in PairsOf(k) : p.payee = a
    <3>1. k # NoMediatorTask
      BY <1>1, <1>2, <2>5, PendingKeepsTask
    <3> QED
      BY <1>2, <1>6, <2>3, <2>5, <3>1
  <2>6. ASSUME Fresh(k), NEW a \in Out(n)
        PROVE  f[a] # k.waiting_transfer
    <3>1. k.waiting_transfer = payer /\ PairsOf(k) = PairsOf(m)
      BY <2>1, <2>3, <2>6, EmptyNotFresh
    <3>2. m.waiting_transfer = payer => Fresh(m)
      BY <2>6, <3>1 DEF Fresh
    <3> QED
      BY <1>5, <3>1, <3>2
  <2>7. CoverParts(n, f)'
    <3>1. \A a \in Out(n) : <<f[a], n>> \in Directions /\ received'[<<f[a], n>>] # "none"
      BY <1>2, <1>6
    <3>2. \A p \in PairsOf(k) : p.payee \in Out(n) /\ f[p.payee] = p.payer
      BY <1>2, <2>3, <2>4
    <3> QED
      BY <1>2, <2>2, <2>5, <2>6, <3>1, <3>2 DEF CoverParts
  <2>8. Pays(n, f)'
    BY <1>2, <1>6, <2>1, <2>2 DEF Pays
  <2> QED
    BY <2>7, <2>8 DEF Covered
<1>8. ASSUME NEW payee \in Nodes, Forwards(n, m, payer, payee)
      PROVE  \E g \in [Nodes -> Nodes] : Covered(n, g)'
  <2> DEFINE g == [f EXCEPT ![payee] = payer]
             x == MediationPair(payer, payee)
  <2>1. /\ <<n, payee>> \in Directions /\ sent' = [sent EXCEPT ![<<n, payee>>] = "locked"]
        /\ PairsOf(k) = PairsOf(m) \cup {x} /\ k.waiting_transfer = m.waiting_transfer
        /\ \A p \in PairsOf(m) : p.payee # payee
    BY <1>1, <1>8, ForwardsNewPayee DEF Forwards
  <2>2. x.payer = payer /\ x.payee = payee
    BY DEF MediationPair
  <2>3. g \in [Nodes -> Nodes] /\ g[payee] = payer /\ \A a \in Nodes \ {payee} : g[a] = f[a]
    OBVIOUS
  <2>4. /\ Out(n)' = Out(n) \cup {payee}
        /\ sent'[<<n, payee>>] = "locked"
        /\ \A a \in Nodes \ {payee} : <<n, a>> \in Directions => sent'[<<n, a>>] = sent[<<n, a>>]
    <3>1. /\ sent'[<<n, payee>>] = "locked"
          /\ \A a \in Nodes \ {payee} :
               <<n, a>> \in Directions => sent'[<<n, a>>] = sent[<<n, a>>]
      BY <1>1, <2>1 DEF Statuses
    <3> QED
      BY <2>1, <3>1 DEF Out
  <2>5. \A p \in PairsOf(m) : p.payer # payer
    BY <1>1, <1>8, ForwardsFresh
  <2>6. \A a \in Out(n) : f[a] # payer
    BY <1>1, <1>5, <2>5 DEF Fresh
  <2> HIDE DEF g, x
  <2>7. \A a \in Out(n)' : /\ <<g[a], n>> \in Directions /\ received'[<<g[a], n>>] # "none"
                           /\ a = payee \/ (a \in Out(n) /\ g[a] = f[a])
    <3>1. \A a \in Out(n) : a # payee => g[a] = f[a]
      BY <1>2, <2>3
    <3>2. \A a \in Out(n)' : a = payee \/ (a \in Out(n) /\ g[a] = f[a])
      BY <2>4, <3>1
    <3>3. <<g[payee], n>> \in Directions /\ received'[<<g[payee], n>>] # "none"
      BY <1>1, <1>4, <2>3
    <3>4. \A a \in Out(n) : <<f[a], n>> \in Directions /\ received'[<<f[a], n>>] # "none"
      BY <1>2, <1>6
    <3> QED
      BY <3>2, <3>3, <3>4
  <2>8. ASSUME NEW a \in Out(n)', NEW b \in Out(n)', g[a] = g[b]
        PROVE  a = b
    <3>1. \A c \in Out(n)' : c # payee => c \in Out(n) /\ g[c] = f[c] /\ g[c] # payer
      BY <2>6, <2>7
    <3>2. CASE a = payee \/ b = payee
      BY <2>3, <2>8, <3>1, <3>2
    <3>3. CASE a # payee /\ b # payee
      BY <1>2, <2>8, <3>1, <3>3
    <3> QED
      BY <3>2, <3>3
  <2>9. \A p \in PairsOf(k) : p.payee \in Out(n)' /\ g[p.payee] = p.payer
    <3>1. \A p \in PairsOf(m) : p.payee \in Out(n) /\ f[p.payee] = p.payer /\ p.payee # payee
      BY <1>2, <2>1
    <3> QED
      BY <2>1, <2>2, <2>3, <2>4, <2>7, <3>1
  <2>10. ASSUME NEW a \in Out(n)', received'[<<g[a], n>>] \in Pending
         PROVE  \E p \in PairsOf(k) : p.payee = a
    <3>1. CASE a = payee
      BY <2>1, <2>2, <3>1
    <3>2. CASE a \in Out(n) /\ g[a] = f[a]
      BY <1>2, <1>6, <2>1, <2>10, <3>2
    <3> QED
      BY <2>7, <3>1, <3>2
  <2>11. ASSUME Fresh(k), NEW a \in Out(n)'
         PROVE  g[a] # k.waiting_transfer
    <3>1. Fresh(m) /\ k.waiting_transfer # payer
      BY <2>1, <2>2, <2>11 DEF Fresh
    <3> QED
      BY <1>2, <2>1, <2>3, <2>7, <3>1
  <2>12. CoverParts(n, g)'
    BY <2>7, <2>8, <2>9, <2>10, <2>11 DEF CoverParts
  <2>13. ASSUME NEW a \in Out(n)', sent'[<<n, a>>] = "claimed"
         PROVE  Good(n, g[a])'
    <3>1. a # payee /\ a \in Out(n) /\ g[a] = f[a]
      BY <2>4, <2>7, <2>13
    <3>2. sent[<<n, a>>] = "claimed"
      BY <1>2, <2>4, <2>13, <3>1
    <3>3. Good(n, f[a])'
      BY <1>2, <1>6, <3>1, <3>2
    <3> QED
      BY <3>1, <3>3
  <2>14. Pays(n, g)'
    BY <2>13 DEF Pays
  <2> QED
    BY <2>3, <2>12, <2>14 DEF Covered
<1> QED
  BY <1>7, <1>8 DEF Takes

(* The next lemmas: whatever n claims from a payee by then, or has         *)
(* claimed, it has from the payer.                                         *)

PaysNext(n, f) == \A a \in Out(n) : sent'[<<n, a>>] = "claimed" => Good(n, f[a])'

NoNewPending == \A d \in Directions : received'[d] \in Pending => received[d] \in Pending

LEMMA NotLate ==
  ASSUME TypeInv, ExpiryInv, latest < expiration \/ RegisteredInTime, NEW d \in Directions
  PROVE  sent[d] # "expired" /\ received[d] # "expired"
<1>1. latest \in Nat /\ expiration \in Nat
  BY TypeParts DEF RestType
<1> QED
  BY <1>1 DEF ExpiryInv, AnyExpired, Late

LEMMA SecretRevealPays ==
  ASSUME TaskInv, ExpiryInv, TimeInv, NEW n \in Mediators, NEW f \in [Nodes -> Nodes],
         Covered(n, f), n \notin stopped, NEW sender \in Nodes, MediatorSecretReveal(n, sender)
  PROVE  PaysNext(n, f) /\ NoNewPending
<1> DEFINE m     == mediators[n]
           qs    == PartnersOf(m)
           known == set_offchain_reveal_state(m.transfers_pair, sender)
           told  == events_for_secretreveal(known)
           b     == block_number[n]
<1>1. /\ TypeInv /\ MediatorLocks /\ n \in Nodes /\ received \in Statuses /\ sent \in Statuses
      /\ m.transfers_pair \in Seq(MediationPairState)
  BY TypeParts, TaskFacts DEF TaskInv, LockInv
<1>2. /\ sent' = Paid(n, SentAt(n, qs, Learning), told, b)
      /\ received' = ReceivedAt(n, qs, Learning)
      /\ UNCHANGED <<expiration, registered, block_number, transactions>>
  BY DEF MediatorSecretReveal, Mediate, chain
<1>3. \A d \in Directions : received'[d] = IF d[2] = n /\ d[1] \in qs
                                           THEN WithSecret(received[d]) ELSE received[d]
  BY <1>1, <1>2, TameReceived, Changes DEF Statuses
<1>4. NoNewPending
  BY <1>1, <1>2, TameReceived DEF NoNewPending, Tame
<1>5. SamePairs(told, m.transfers_pair)
  <2>1. SamePairs(known, m.transfers_pair)
    BY <1>1, PairSteps
  <2>2. known \in Seq(MediationPairState)
    BY <2>1 DEF SamePairs
  <2>3. SamePairs(told, known)
    BY <2>2, PairSteps
  <2> QED
    BY <2>1, <2>3, SamePairsTransitive
<1> HIDE DEF told, known
<1>6. ASSUME NEW a \in Out(n), sent'[<<n, a>>] = "claimed"
      PROVE  Good(n, f[a])'
  <2> DEFINE r == <<f[a], n>>
  <2>1. /\ <<n, a>> \in Directions /\ r \in Directions /\ received[r] \in LockStatus \ {"none"}
        /\ r[1] = f[a] /\ r[2] = n
    BY <1>1 DEF Covered, CoverParts, Out, Statuses
  <2>2. CASE sent[<<n, a>>] = "claimed"
    <3>1. Good(n, f[a])
      BY <2>2 DEF Covered, Pays
    <3>2. /\ received[r] = "claimed" => received'[r] = "claimed"
          /\ received[r] \in Pending => received'[r] \in Pending
          /\ received[r] = "unlocked" => received'[r] = "unlocked"
      BY <1>3, <2>1 DEF WithSecret, Pending
    <3> QED
      BY <1>2, <3>1, <3>2 DEF Good, RegisteredInTime, is_safe_to_wait, RegistersInTime
  <2>3. CASE sent[<<n, a>>] # "claimed"
    <3>1. SentAt(n, qs, Learning)[<<n, a>>] # "claimed"
      <4>1. \A s \in LockStatus : WithSecret(s) = "claimed" => s = "claimed"
        BY DEF WithSecret
      <4>2. sent[<<n, a>>] \in LockStatus
        BY <1>1, <2>1 DEF Statuses
      <4> QED
        BY <1>1, <2>1, <2>3, <4>1, <4>2, TameSent, Changes
    <3>2. PICK i \in DOMAIN told : told[i].payee = a
                                   /\ should_send_balanceproof_to_payee(told[i], b)
      BY <1>2, <1>6, <2>1, <3>1 DEF Paid
    <3>3. i \in DOMAIN m.transfers_pair /\ m.transfers_pair[i].payee = a
      BY <1>5, <3>2 DEF SamePairs
    <3>4. m.transfers_pair[i] \in PairsOf(m)
      BY <3>3 DEF PairsOf
    <3>5. f[a] = m.transfers_pair[i].payer
      BY <3>3, <3>4 DEF Covered, CoverParts
    <3>6. f[a] \in qs
      BY <3>4, <3>5 DEF PartnersOf
    <3>7. is_safe_to_wait(b)
      BY <3>2 DEF should_send_balanceproof_to_payee
    <3>8. latest < expiration
      BY <1>1, <3>7, SafeToWait
    <3>9. received[r] # "expired"
      BY <1>1, <2>1, <3>8, NotLate
    <3>10. received'[r] \in {"claimed", "unlocked", "onchain"}
      <4>1. received'[r] = WithSecret(received[r])
        BY <1>3, <2>1, <3>6
      <4> QED
        BY <2>1, <3>9, <4>1 DEF WithSecret, LockStatus, Pending
    <3>11. registered # 0 => RegisteredInTime
      <4>1. registered <= latest /\ registered \in Nat /\ latest \in Nat /\ expiration \in Nat
        BY <1>1, TypeParts DEF TimeInv, RestType
      <4> QED
        BY <3>8, <4>1 DEF RegisteredInTime
    <3>12. received'[r] = "onchain" => RegisteredInTime
      <4>1. received'[r] = "onchain" => received[r] = "onchain"
        BY <1>3, <2>1 DEF WithSecret
      <4> QED
        BY <2>1, <4>1 DEF TimeInv
    <3>13. RegisteredInTime' = RegisteredInTime /\ is_safe_to_wait(block_number[n])'
      BY <1>2, <3>7 DEF RegisteredInTime, is_safe_to_wait
    <3> QED
      BY <1>2, <3>10, <3>11, <3>12, <3>13 DEF Good, Pending
  <2> QED
    BY <2>2, <2>3
<1> QED
  BY <1>4, <1>6 DEF PaysNext

LEMMA OnchainRevealPays ==
  ASSUME TaskInv, ExpiryInv, NEW n \in Mediators, NEW f \in [Nodes -> Nodes],
         Covered(n, f), MediatorOnchainReveal(n), mediators[n].active
  PROVE  PaysNext(n, f) /\ NoNewPending
<1> DEFINE m     == mediators[n]
           qs    == PartnersOf(m)
           pairs == m.transfers_pair
<1>1. /\ TypeInv /\ MediatorLocks /\ n \in Nodes /\ received \in Statuses /\ sent \in Statuses
      /\ registered \in Nat /\ expiration \in Nat /\ REVEAL_TIMEOUT \in Nat
  BY TypeParts, TaskFacts, TimingAssumption DEF TaskInv, LockInv, RestType
<1>2. /\ sent' = Paid(n, SentAt(n, qs, Registration), pairs, registered)
      /\ received' = ReceivedAt(n, qs, Registration)
      /\ UNCHANGED <<expiration, registered, block_number, transactions>> /\ registered # 0
  BY DEF MediatorOnchainReveal, Mediate, chain, Polls
<1>3. \A d \in Directions : received'[d] \in {WithRegistration(received[d]), received[d]}
  BY <1>1, <1>2, TameReceived, Changes DEF Statuses
<1>4. NoNewPending
  BY <1>1, <1>2, TameReceived DEF NoNewPending, Tame
<1>5. RegisteredInTime' = RegisteredInTime
  BY <1>2 DEF RegisteredInTime
<1>6. ASSUME NEW a \in Out(n), sent'[<<n, a>>] = "claimed"
      PROVE  Good(n, f[a])'
  <2> DEFINE r == <<f[a], n>>
  <2>1. /\ <<n, a>> \in Directions /\ r \in Directions /\ received[r] \in LockStatus \ {"none"}
    BY <1>1 DEF Covered, CoverParts, Out, Statuses
  <2>2. /\ received[r] = "claimed" => received'[r] = "claimed"
        /\ received[r] \in Pending => received'[r] \in Pending
    BY <1>3, <2>1 DEF WithRegistration, Pending
  <2>3. CASE sent[<<n, a>>] = "claimed"
    <3>1. Good(n, f[a])
      BY <2>3 DEF Covered, Pays
    <3> QED
      BY <1>2, <1>5, <2>2, <3>1 DEF Good
  <2>4. CASE sent[<<n, a>>] # "claimed"
    <3>1. SentAt(n, qs, Registration)[<<n, a>>] # "claimed"
      <4>1. \A s \in LockStatus : WithRegistration(s) = "claimed" => s = "claimed"
        BY DEF WithRegistration
      <4>2. sent[<<n, a>>] \in LockStatus
        BY <1>1, <2>1 DEF Statuses
      <4> QED
        BY <1>1, <2>1, <2>4, <4>1, <4>2, TameSent, Changes
    <3>2. PICK i \in DOMAIN pairs : should_send_balanceproof_to_payee(pairs[i], registered)
      BY <1>2, <1>6, <2>1, <3>1 DEF Paid
    <3>3. RegisteredInTime
      BY <1>1, <1>2, <3>2 DEF should_send_balanceproof_to_payee, is_safe_to_wait,
                              RegisteredInTime
    <3>4. received[r] # "expired"
      BY <1>1, <2>1, <3>3, NotLate
    <3>5. received[r] = "claimed" \/ received[r] \in Pending
      BY <2>1, <3>4 DEF LockStatus
    <3> QED
      BY <1>5, <2>2, <3>3, <3>5 DEF Good
  <2> QED
    BY <2>3, <2>4
<1> QED
  BY <1>4, <1>6 DEF PaysNext

LEMMA EndPays ==
  ASSUME TaskInv, ExpiryInv, TimeInv, NEW n \in Mediators, NEW f \in [Nodes -> Nodes],
         Covered(n, f), NEW payer \in Nodes,
         UnlockRuns(n, payer) \/ MediatorLockExpired(n, payer)
  PROVE  PaysNext(n, f) /\ NoNewPending
<1> DEFINE t == <<payer, n>>
<1>1. /\ TypeInv /\ MediatorLocks /\ n \in Nodes /\ received \in Statuses
      /\ Owns(n, mediators[n], sent, received)
  BY TypeParts, TaskFacts DEF TaskInv, LockInv
<1>2. /\ sent' = sent /\ UNCHANGED <<expiration, registered, block_number, transactions>>
      /\ \/ received' = Receipt(payer, n, "claimed")
         \/ /\ received' = Receipt(payer, n, "expired")
            /\ sent[t] = "expired" /\ received[t] \in Pending
      /\ t \in Directions
  <2>1. CASE UnlockRuns(n, payer)
    <3>1. t \in Directions
      BY <1>1, <2>1 DEF MediatorUnlock, UnlockRuns, Owns
    <3> QED
      BY <2>1, <3>1 DEF MediatorUnlock, UnlockRuns, Mediate, Receipt, chain
  <2>2. CASE MediatorLockExpired(n, payer)
    BY <2>2 DEF MediatorLockExpired, AcceptsLockExpired, Mediate, Receipt, chain
  <2> QED
    BY <2>1, <2>2
<1>3. /\ received'[t] = "claimed" \/ (received'[t] = "expired" /\ sent[t] = "expired"
                                      /\ received[t] \in Pending)
      /\ \A d \in Directions : d # t => received'[d] = received[d]
  BY <1>1, <1>2 DEF Receipt, Statuses
<1>4. NoNewPending
  BY <1>3 DEF NoNewPending, Pending
<1>5. ASSUME NEW a \in Out(n), sent'[<<n, a>>] = "claimed"
      PROVE  Good(n, f[a])'
  <2>1. <<f[a], n>> \in Directions /\ Good(n, f[a])
    BY <1>2, <1>5 DEF Covered, CoverParts, Pays
  <2>2. CASE f[a] # payer
    <3>1. received'[<<f[a], n>>] = received[<<f[a], n>>]
      BY <1>3, <2>1, <2>2
    <3> QED
      BY <1>2, <2>1, <3>1, TakesKeepsGood
  <2>3. CASE f[a] = payer
    <3>1. received'[t] # "expired"
      <4>1. ASSUME received'[t] = "expired"
            PROVE  FALSE
        <5>1. sent[t] = "expired" /\ received[t] \in Pending
          BY <1>3, <4>1
        <5>2. ~ RegisteredInTime /\ ~ (latest < expiration)
          BY <1>1, <1>2, <5>1, NotLate
        <5>3. /\ received[t] = "unlocked" /\ registered = 0
              /\ is_safe_to_wait(block_number[n]) \/ RegistersInTime(n)
          BY <2>1, <2>3, <5>1, <5>2 DEF Good, Pending
        <5> QED
          BY <1>1, <5>2, <5>3, StillSafe
      <4> QED
        BY <4>1
    <3> QED
      BY <1>3, <2>3, <3>1 DEF Good
  <2> QED
    BY <2>2, <2>3
<1> QED
  BY <1>4, <1>5 DEF PaysNext

(* The pair of a payer whose lock is unlocked starts the registration when *)
(* the danger zone begins.                                                 *)
LEMMA StartsRegistration ==
  ASSUME TaskInv, TimeInv, PairStates, NEW n \in Mediators, NEW p \in PairsOf(mediators[n]),
         received[<<p.payer, n>>] = "unlocked", registered = 0,
         is_safe_to_wait(block_number[n]),
         NEW b \in 1..confirmed_block_number, ~ is_safe_to_wait(b),
         MediatorBlock(n, b), mediators[n].active
  PROVE  transactions' = ChannelSecret(n)
<1> DEFINE pairs   == mediators[n].transfers_pair
           removed == events_to_remove_expired_locks(n, pairs, b)
<1>1. /\ TypeInv /\ MediatorLocks /\ n \in Nodes /\ pairs \in Seq(MediationPairState)
      /\ Owns(n, mediators[n], sent, received)
      /\ block_number[n] \in Nat /\ expiration \in Nat /\ REVEAL_TIMEOUT \in Nat
      /\ DEFAULT_NUMBER_OF_BLOCK_CONFIRMATIONS \in Nat
  BY TypeParts, TaskFacts, TimingAssumption DEF TaskInv, LockInv, RestType, Mediators
<1>2. SamePairs(removed, pairs)
  BY <1>1, PairSteps
<1>3. \A i \in DOMAIN removed : /\ i \in DOMAIN pairs /\ removed[i].payer = pairs[i].payer
                                /\ pairs[i] \in PairsOf(mediators[n])
  BY <1>2 DEF SamePairs, PairsOf
<1>4. \A i \in DOMAIN pairs : removed[i].payer_state = pairs[i].payer_state
  BY <1>1, PayersInBlock
<1>5. DOMAIN removed = DOMAIN pairs
  BY <1>2 DEF SamePairs
<1>6. PICK i \in DOMAIN pairs : pairs[i] = p
  BY DEF PairsOf
<1>7. ~ (block_number[n] >= expiration + 2 * DEFAULT_NUMBER_OF_BLOCK_CONFIRMATIONS)
  BY <1>1 DEF is_safe_to_wait
<1>8. p.payer_state \notin {"payer_balance_proof", "payer_expired"}
  <2>1. PairOk(n, p, received, block_number[n], expiration)
    BY DEF PairStates
  <2> QED
    BY <1>7, <2>1 DEF PairOk, Pending
<1>9. p.payer_state \notin STATE_TRANSFER_FINAL
  <2>1. p \in MediationPairState
    BY <1>1, <1>6
  <2> QED
    BY <1>8, <2>1 DEF MediationPairState, STATE_TRANSFER_FINAL, STATE_TRANSFER_PAID
<1> HIDE DEF removed
<1>10. in_dangerzone(n, removed[i], b)
  BY <1>3, <1>4, <1>5, <1>6, <1>9 DEF in_dangerzone, is_pending_pair
<1>11. ~ has_secret_registration_started(n, removed)
  <2> SUFFICES ASSUME NEW j \in DOMAIN removed,
                      \/ received[<<removed[j].payer, n>>] = "onchain"
                      \/ removed[j].payer_state = "payer_waiting_secret_reveal"
               PROVE  FALSE
    BY DEF has_secret_registration_started
  <2>1. pairs[j] \in PairsOf(mediators[n]) /\ removed[j].payer = pairs[j].payer
        /\ removed[j].payer_state = pairs[j].payer_state
    BY <1>3, <1>4, <1>5
  <2>2. <<removed[j].payer, n>> \in Directions
    BY <1>1, <2>1 DEF Owns
  <2>3. received[<<removed[j].payer, n>>] # "onchain"
    BY <2>2 DEF TimeInv, RegisteredInTime
  <2>4. PairOk(n, pairs[j], received, block_number[n], expiration)
    BY <2>1 DEF PairStates
  <2> QED
    BY <2>1, <2>3, <2>4 DEF PairOk, is_safe_to_wait
<1> QED
  BY <1>5, <1>6, <1>10, <1>11 DEF MediatorBlock, removed

LEMMA BlockPays ==
  ASSUME TaskInv, TimeInv, PairStates, NEW n \in Mediators, NEW f \in [Nodes -> Nodes],
         Covered(n, f), n \notin stopped,
         NEW b \in 1..confirmed_block_number, MediatorBlock(n, b)
  PROVE  PaysNext(n, f) /\ NoNewPending
<1>1. /\ TypeInv /\ MediatorLocks /\ n \in Nodes /\ sent \in Statuses
      /\ latest \in Nat /\ transactions \in [Nodes -> Nat] /\ block_number \in [Nodes -> Nat]
      /\ expiration \in Nat /\ MINING_DELAY \in Nat
  BY TypeParts, TimingAssumption DEF TaskInv, LockInv, RestType, Mediators
<1>2. /\ received' = received /\ UNCHANGED <<expiration, registered>>
      /\ block_number'[n] = b /\ transactions' \in {transactions, ChannelSecret(n)}
      /\ sent' = sent \/ \E qs : sent' = SentAt(n, qs, Expiration)
  BY <1>1 DEF MediatorBlock, NextBlock, Mediate, locks, chain
<1>3. NoNewPending
  BY <1>2 DEF NoNewPending
<1>4. ASSUME NEW a \in Out(n), sent'[<<n, a>>] = "claimed"
      PROVE  Good(n, f[a])'
  <2> DEFINE r == <<f[a], n>>
  <2>1. <<n, a>> \in Directions /\ r \in Directions
    BY DEF Covered, CoverParts, Out
  <2>2. sent[<<n, a>>] = "claimed"
    <3>1. ASSUME NEW qs, sent' = SentAt(n, qs, Expiration)
          PROVE  sent'[<<n, a>>] \in {"expired", sent[<<n, a>>]}
      BY <1>1, <2>1, <3>1 DEF SentAt, Expiration, Statuses
    <3> QED
      BY <1>2, <1>4, <3>1
  <2>3. Good(n, f[a])
    BY <2>2 DEF Covered, Pays
  <2>4. CASE received[r] = "claimed" \/ (received[r] \in Pending /\ RegisteredInTime)
    BY <1>2, <2>4 DEF Good, RegisteredInTime
  <2>5. CASE /\ received[r] = "unlocked" /\ registered = 0
             /\ is_safe_to_wait(block_number[n]) \/ RegistersInTime(n)
    <3>1. CASE RegistersInTime(n)
      <4>1. transactions'[n] = transactions[n]
        BY <1>1, <1>2, <3>1 DEF ChannelSecret, RegistersInTime
      <4> QED
        BY <1>2, <2>5, <3>1, <4>1 DEF Good, RegistersInTime
    <3>2. CASE is_safe_to_wait(b)
      BY <1>2, <2>5, <3>2 DEF Good, is_safe_to_wait
    <3>3. CASE is_safe_to_wait(block_number[n]) /\ ~ is_safe_to_wait(b)
      <4>1. PICK p \in PairsOf(mediators[n]) : p.payee = a
        BY <2>5 DEF Covered, CoverParts, Pending
      <4>2. p.payer = f[a]
        BY <4>1 DEF Covered, CoverParts
      <4>3. mediators[n].active
        BY <1>1, <4>1, TaskFacts
      <4>4. transactions' = ChannelSecret(n)
        BY <2>5, <3>3, <4>2, <4>3, StartsRegistration
      <4>5. latest + MINING_DELAY <= expiration /\ latest # 0 /\ transactions[n] <= latest
        <5>1. latest + MINING_DELAY <= expiration
          BY <1>1, <3>3, SafeToWait
        <5>2. latest # 0
          BY <1>1, TimingAssumption DEF confirmed_block_number
        <5> QED
          BY <1>1, <5>1, <5>2 DEF TimeInv
      <4>6. transactions'[n] # 0 /\ transactions'[n] + MINING_DELAY <= expiration
        <5>1. transactions'[n] = IF transactions[n] = 0 THEN latest ELSE transactions[n]
          BY <1>1, <4>4 DEF ChannelSecret
        <5>2. transactions[n] \in Nat
          BY <1>1
        <5> QED
          BY <1>1, <4>5, <5>1, <5>2
      <4> QED
        BY <1>2, <2>5, <4>6 DEF Good, RegistersInTime
    <3> QED
      BY <2>5, <3>1, <3>2, <3>3
  <2> QED
    BY <2>3, <2>4, <2>5 DEF Good
<1> QED
  BY <1>3, <1>4 DEF PaysNext

LEMMA MediatorPays ==
  ASSUME TaskInv, ExpiryInv, TimeInv, PairStates, NEW n \in Mediators,
         NEW f \in [Nodes -> Nodes], Covered(n, f), MediatorRuns(n),
         ~ \E p \in Nodes : \/ InitMediatorRuns(n, p) \/ RefundRuns(n, p)
                            \/ RetryRuns(n, p)
  PROVE  PaysNext(n, f) /\ NoNewPending
<1>5. n \notin stopped
  BY DEF MediatorRuns
<1>1. ASSUME NEW p \in Nodes, MediatorSecretReveal(n, p)
      PROVE  PaysNext(n, f) /\ NoNewPending
  BY <1>1, <1>5, SecretRevealPays
<1>2. ASSUME NEW p \in Nodes, UnlockRuns(n, p) \/ MediatorLockExpired(n, p)
      PROVE  PaysNext(n, f) /\ NoNewPending
  BY <1>2, EndPays
<1>3. ASSUME NEW b \in 1..confirmed_block_number, MediatorBlock(n, b)
      PROVE  PaysNext(n, f) /\ NoNewPending
  BY <1>3, <1>5, BlockPays
<1>4. ASSUME MediatorOnchainReveal(n)
      PROVE  PaysNext(n, f) /\ NoNewPending
  <2>1. CASE mediators[n].active
    BY <1>4, <2>1, OnchainRevealPays
  <2>2. CASE ~ mediators[n].active
    <3>1. UNCHANGED <<sent, received, expiration, registered, block_number, transactions>>
      BY <1>4, <2>2 DEF MediatorOnchainReveal, locks, chain
    <3>2. \A a \in Out(n) : sent[<<n, a>>] = "claimed" => Good(n, f[a])
      BY DEF Covered, Pays
    <3>3. PaysNext(n, f)
      BY <3>1, <3>2, TakesKeepsGood DEF PaysNext
    <3> QED
      BY <3>1, <3>3 DEF NoNewPending
  <2> QED
    BY <2>1, <2>2
<1> QED
  BY <1>1, <1>2, <1>3, <1>4 DEF MediatorRuns

LEMMA CoverInvNext ==
  ASSUME TaskInv, TaskInv', StartInv, ExpiryInv, TimeInv, PairStates, CoverInv, RunsNext,
         ForwardedOnce'
  PROVE  CoverInv'
<1> SUFFICES ASSUME NEW n \in Mediators
             PROVE  \E g \in [Nodes -> Nodes] : Covered(n, g)'
  BY DEF CoverInv
<1>1. PICK f \in [Nodes -> Nodes] : Covered(n, f)
  BY DEF CoverInv
<1>2. TypeInv /\ MediatorLocks
  BY DEF TaskInv, LockInv
<1>3. CASE ~ MediatorRuns(n)
  BY <1>1, <1>3, OthersCovered
<1>4. ASSUME NEW p \in Nodes, \/ InitMediatorRuns(n, p) \/ RefundRuns(n, p)
                              \/ RetryRuns(n, p)
      PROVE  \E g \in [Nodes -> Nodes] : Covered(n, g)'
  <2>1. PICK payer \in Nodes : Takes(n, payer)
    BY <1>2, <1>4, TakesCases
  <2>2. UNCHANGED <<expiration, registered, block_number, transactions>>
    BY <1>4 DEF InitMediator, InitMediatorRuns, ReceiveTransferRefund, RefundRuns,
                NodeChangeNetworkState, RetryRuns, chain
  <2> QED
    BY <1>1, <2>1, <2>2, TakesCovered
<1>5. CASE /\ MediatorRuns(n)
           /\ ~ \E p \in Nodes : \/ InitMediatorRuns(n, p) \/ RefundRuns(n, p)
                                 \/ RetryRuns(n, p)
  <2>1. PaysNext(n, f) /\ NoNewPending
    BY <1>1, <1>5, MediatorPays
  <2>2. CoverParts(n, f)
    BY <1>1 DEF Covered
  <2>3. CoverParts(n, f)' /\ Out(n)' = Out(n)
    <3>1. CASE QuietHandler(n)
      <4>1. Quiet(n) /\ NoNewLock
        BY <1>2, <3>1, QuietCases
      <4> QED
        BY <2>1, <2>2, <4>1, QuietCovered DEF NoNewPending
    <3>2. CASE UNCHANGED <<sent, received, mediators>>
      BY <2>2, <3>2 DEF CoverParts, Out, Fresh
    <3> QED
      BY <1>5, <3>1, <3>2, MediatorHandlers
  <2>4. Pays(n, f)'
    BY <2>1, <2>3 DEF Pays, PaysNext
  <2> QED
    BY <2>3, <2>4 DEF Covered
<1> QED
  BY <1>3, <1>4, <1>5

LEMMA CoveredCount ==
  ASSUME TypeInv, ExpiryInv, TimeInv, NEW n \in Mediators, NEW f \in [Nodes -> Nodes],
         Covered(n, f)
  PROVE  Cardinality(PaidBy(n)) <= Cardinality(CoveredFor(n))
<1> DEFINE payer(d) == <<f[d[2]], n>>
           F == [d \in PaidBy(n) |-> payer(d)]
<1>1. n \in Nodes /\ received \in Statuses
  BY TypeParts DEF Mediators
<1>2. ASSUME NEW d \in PaidBy(n)
      PROVE  d[2] \in Out(n) /\ d = <<n, d[2]>>
  <2>1. /\ d \in Nodes \X Nodes /\ d[1] = n /\ d \in Directions /\ sent[d] # "none"
    BY DEF PaidBy, Directions, Pending
  <2>2. d = <<n, d[2]>> /\ d[2] \in Nodes
    BY <2>1
  <2> QED
    BY <2>1, <2>2 DEF Out
<1>3. ASSUME NEW d \in PaidBy(n)
      PROVE  payer(d) \in CoveredFor(n)
  <2> DEFINE a == d[2]
             r == <<f[a], n>>
  <2>1. a \in Out(n) /\ d = <<n, a>>
    BY <1>2
  <2>2. r \in Directions /\ r[2] = n /\ received[r] \in LockStatus \ {"none"}
    BY <1>1, <2>1 DEF Covered, CoverParts, Statuses
  <2>3. CASE sent[d] = "claimed"
    <3>1. Good(n, f[a])
      BY <2>1, <2>3 DEF Covered, Pays
    <3>2. CASE /\ received[r] = "unlocked" /\ registered = 0
               /\ is_safe_to_wait(block_number[n]) \/ RegistersInTime(n)
      <4>1. latest < expiration
        BY <1>1, <3>2, StillSafe
      <4> QED
        BY <2>2, <3>2, <4>1 DEF CoveredFor
    <3> QED
      BY <2>2, <3>1, <3>2 DEF Good, CoveredFor
  <2>4. CASE sent[d] \in Pending /\ RegisteredInTime
    <3>1. received[r] # "expired"
      BY <2>2, <2>4, NotLate
    <3>2. received[r] = "claimed" \/ received[r] \in Pending
      BY <2>2, <3>1 DEF LockStatus
    <3> QED
      BY <2>2, <2>4, <3>2 DEF CoveredFor
  <2> QED
    BY <2>3, <2>4 DEF PaidBy
<1>4. ASSUME NEW d \in PaidBy(n), NEW e \in PaidBy(n), F[d] = F[e]
      PROVE  d = e
  <2>1. f[d[2]] = f[e[2]]
    BY <1>4
  <2>2. d[2] = e[2]
    BY <1>2, <2>1 DEF Covered, CoverParts
  <2> QED
    BY <1>2, <2>2
<1>5. F \in Injection(PaidBy(n), CoveredFor(n))
  <2>1. F \in [PaidBy(n) -> CoveredFor(n)] /\ DOMAIN F = PaidBy(n)
    BY <1>3
  <2> HIDE DEF F
  <2> QED
    BY <1>4, <2>1 DEF Injection, IsInjective
<1>6. IsFiniteSet(CoveredFor(n))
  <2>1. IsFiniteSet(Nodes \X Nodes)
    BY RolesAssumption, FS_Product
  <2>2. CoveredFor(n) \in SUBSET (Nodes \X Nodes)
    BY DEF CoveredFor, Directions
  <2> QED
    BY <2>1, <2>2, FS_Subset
<1> HIDE DEF F
<1> QED
  BY <1>5, <1>6, FS_Injection
-----------------------------------------------------------------------------
(* The inductive invariant of MediatorNeverLoses.                          *)
LossInv == AtomicInv /\ TimeInv /\ PairStates /\ CoverInv

LEMMA LossInvInit == Init => LossInv
<1> SUFFICES ASSUME Init
             PROVE  LossInv
  OBVIOUS
<1>1. \A n \in Mediators : mediators[n] = NoMediatorTask
  BY DEF Init
<1>2. \A d \in Directions : sent[d] = "none" /\ received[d] = "none"
  BY DEF Init
<1>3. PairsOf(NoMediatorTask) = {} /\ NoMediatorTask.waiting_transfer = NoNode
  BY DEF PairsOf, NoMediatorTask
<1>4. PairStates
  BY <1>1, <1>3 DEF PairStates
<1>5. TimeInv
  <2>1. /\ DEFAULT_NUMBER_OF_BLOCK_CONFIRMATIONS \in Nat /\ MAX_LAG \in Nat
        /\ registered = 0 /\ latest = 1 + DEFAULT_NUMBER_OF_BLOCK_CONFIRMATIONS
        /\ \A n \in Nodes : block_number[n] = 1 /\ transactions[n] = 0
        /\ stopped = {}
    BY TimingAssumption DEF Init
  <2> QED
    BY <1>2, <2>1 DEF TimeInv
<1>6. ASSUME NEW n \in Mediators
      PROVE  \E f \in [Nodes -> Nodes] : Covered(n, f)
  <2>1. Out(n) = {}
    BY <1>2 DEF Out
  <2>2. [x \in Nodes |-> n] \in [Nodes -> Nodes]
    BY DEF Mediators
  <2>3. \A f : Covered(n, f)
    BY <1>1, <1>3, <2>1 DEF Covered, CoverParts, Pays
  <2> QED
    BY <2>2, <2>3
<1> QED
  BY <1>4, <1>5, <1>6, AtomicInvInit DEF LossInv, CoverInv

LEMMA LossInvNext ==
  ASSUME LossInv, [Next]_vars, ForwardedOnce', \A n \in Mediators : Stops(n) => RegisteredInTime
  PROVE  LossInv'
<1>1. /\ AtomicInv /\ TimeInv /\ PairStates /\ CoverInv
      /\ TaskInv /\ StartInv /\ ExpiryInv
  BY DEF LossInv, AtomicInv
<1>2. AtomicInv' /\ TaskInv'
  <2>1. AtomicInv'
    BY <1>1, AtomicInvNext
  <2> QED
    BY <2>1 DEF AtomicInv
<1>3. CASE RunsNext
  <2>1. TimeInv' /\ PairStates'
    BY <1>1, <1>3, TimeInvNext, PairStatesNext
  <2>2. CoverInv'
    BY <1>1, <1>2, <1>3, CoverInvNext
  <2> QED
    BY <1>2, <2>1, <2>2 DEF LossInv
<1>4. CASE UNCHANGED vars \/ \E n \in Mediators : Stops(n)
  <2>1. UNCHANGED <<sent, received, mediators, expiration, latest, registered,
                    transactions, block_number>>
    BY <1>4, StopsFrame DEF vars, locks, tasks, chain
  <2>4. stopped' = stopped \/ (RegisteredInTime /\ \E n \in Mediators : stopped' = stopped \cup {n})
    BY <1>4, StopsFrame DEF vars
  <2>5. \A n \in stopped' : RegisteredInTime
    BY <1>1, <2>4 DEF TimeInv
  <2>6. stopped \subseteq stopped' /\ RegisteredInTime' = RegisteredInTime
    BY <2>1, <2>4 DEF RegisteredInTime
  <2>2. TimeInv' /\ PairStates'
    <3>1. TimeInv'
      BY <1>1, <2>1, <2>5, <2>6 DEF TimeInv
    <3> QED
      BY <1>1, <2>1, <3>1 DEF PairStates
  <2>3. ASSUME NEW n \in Mediators, NEW f, Covered(n, f)
        PROVE  Covered(n, f)'
    BY <2>1, <2>3 DEF Covered, CoverParts, Pays, Out, Fresh, Good, RegisteredInTime,
                      is_safe_to_wait, RegistersInTime
  <2> QED
    BY <1>1, <1>2, <2>2, <2>3 DEF LossInv, CoverInv
<1> QED
  BY <1>3, <1>4, NextCases

LEMMA LossInvNeverLoses ==
  ASSUME LossInv, NEW n \in Mediators
  PROVE  Cardinality(PaidBy(n)) <= Cardinality(CoveredFor(n))
<1>1. TypeInv /\ ExpiryInv /\ TimeInv /\ CoverInv
  BY DEF LossInv, AtomicInv, TaskInv
<1>2. PICK f \in [Nodes -> Nodes] : Covered(n, f)
  BY <1>1 DEF CoverInv
<1> QED
  BY <1>1, <1>2, CoveredCount
-----------------------------------------------------------------------------
(* One retry of a waiting transfer forwards nothing twice.                 *)

(* A transfer that waits has not been forwarded before the first retry.    *)
OnceInv ==
  node_changes <= 1 =>
    /\ \A n \in Mediators : PayersDiffer(mediators[n].transfers_pair)
    /\ node_changes = 0 => \A n \in Mediators : mediators[n].waiting_transfer # NoNode =>
                                                  Fresh(mediators[n])

LEMMA NewPayer ==
  ASSUME TypeInv, MediatorLocks, NEW n \in Mediators, NEW payer \in Nodes, Takes(n, payer),
         received' # received \/ Fresh(mediators[n])
  PROVE  /\ \A p \in PairsOf(mediators[n]) : p.payer # payer
         /\ received' # received => payer # mediators[n].waiting_transfer
<1>1. Owns(n, mediators[n], sent, received) /\ payer # NoNode
  BY TaskFacts, RolesAssumption
<1>2. CASE received[<<payer, n>>] = "none"
  BY <1>1, <1>2 DEF Owns
<1>3. CASE mediators[n].waiting_transfer = payer /\ received' = received
  BY <1>3 DEF Fresh
<1> QED
  BY <1>2, <1>3 DEF Takes

LEMMA TakesOnce ==
  ASSUME TypeInv, MediatorLocks, NEW n \in Mediators, NEW payer \in Nodes, Takes(n, payer),
         received' # received \/ Fresh(mediators[n]),
         PayersDiffer(mediators[n].transfers_pair)
  PROVE  PayersDiffer(mediators'[n].transfers_pair)
<1> DEFINE pairs == mediators[n].transfers_pair
           q     == mediators'[n].transfers_pair
<1>1. pairs \in Seq(MediationPairState)
  BY TaskFacts
<1>2. \A p \in PairsOf(mediators[n]) : p.payer # payer
  BY NewPayer
<1>3. CASE Waits(n, mediators[n], payer)
  <2>1. PayersDiffer(NoMediatorTask.transfers_pair)
    BY DEF PayersDiffer, NoMediatorTask
  <2> QED
    BY <1>3, <2>1 DEF Waits
<1>4. ASSUME NEW payee \in Nodes, Forwards(n, mediators[n], payer, payee)
      PROVE  PayersDiffer(q)
  <2> DEFINE x == MediationPair(payer, payee)
  <2>1. x \in MediationPairState /\ x.payer = payer
    BY DEF MediationPair, MediationPairState
  <2>2. q = Append(pairs, x)
    BY <1>4 DEF Forwards
  <2>3. /\ Len(q) = Len(pairs) + 1 /\ q \in Seq(MediationPairState)
        /\ \A i \in 1..Len(pairs) : q[i] = pairs[i]
        /\ q[Len(pairs) + 1] = x
    BY <1>1, <2>1, <2>2, AppendProperties
  <2>4. /\ Len(pairs) \in Nat /\ DOMAIN pairs = 1..Len(pairs)
        /\ DOMAIN q = 1..(Len(pairs) + 1)
    BY <1>1, <2>3
  <2>5. \A i \in 1..Len(pairs) : q[i].payer # payer
    BY <1>2, <2>3, <2>4 DEF PairsOf
  <2> HIDE DEF x, pairs, q
  <2>6. \A i \in DOMAIN q : i \in 1..Len(pairs) \/ i = Len(pairs) + 1
    BY <2>4
  <2>7. \A i, j \in 1..Len(pairs) : q[i].payer = q[j].payer => i = j
    BY <2>3, <2>4 DEF PayersDiffer, pairs
  <2> QED
    BY <2>1, <2>3, <2>5, <2>6, <2>7 DEF PayersDiffer
<1> QED
  BY <1>3, <1>4 DEF Takes

LEMMA TakesFresh ==
  ASSUME TypeInv, MediatorLocks, NEW n \in Mediators, NEW payer \in Nodes, Takes(n, payer),
         received' # received,
         mediators[n].waiting_transfer # NoNode => Fresh(mediators[n]),
         mediators'[n].waiting_transfer # NoNode
  PROVE  Fresh(mediators'[n])
<1>1. /\ \A p \in PairsOf(mediators[n]) : p.payer # payer
      /\ payer # mediators[n].waiting_transfer
  BY NewPayer
<1>2. CASE Waits(n, mediators[n], payer)
  <2>1. NoMediatorTask.waiting_transfer = NoNode
    BY DEF NoMediatorTask
  <2> QED
    BY <1>1, <1>2, <2>1 DEF Waits, Fresh, PairsOf
<1>3. ASSUME NEW payee \in Nodes, Forwards(n, mediators[n], payer, payee)
      PROVE  Fresh(mediators'[n])
  <2>1. MediationPair(payer, payee).payer = payer
    BY DEF MediationPair
  <2> QED
    BY <1>1, <1>3, <2>1 DEF Forwards, Fresh
<1> QED
  BY <1>2, <1>3 DEF Takes

LEMMA KeptOnce ==
  ASSUME NEW j \in Mediators, TaskKept(j)
  PROVE  /\ PayersDiffer(mediators[j].transfers_pair) =>
              PayersDiffer(mediators'[j].transfers_pair)
         /\ mediators'[j].waiting_transfer # NoNode /\ Fresh(mediators[j])
              => Fresh(mediators'[j])
         /\ mediators'[j].waiting_transfer # NoNode => mediators[j].waiting_transfer # NoNode
<1>1. CASE mediators'[j] = NoMediatorTask
  <2>1. NoMediatorTask.waiting_transfer = NoNode /\ NoMediatorTask.transfers_pair = <<>>
    BY DEF NoMediatorTask
  <2> QED
    BY <1>1, <2>1 DEF PayersDiffer
<1>2. CASE SameTask(mediators'[j], mediators[j])
  <2>1. /\ mediators'[j].waiting_transfer = mediators[j].waiting_transfer
        /\ SamePairs(mediators'[j].transfers_pair, mediators[j].transfers_pair)
    BY <1>2 DEF SameTask
  <2>2. \A p \in PairsOf(mediators'[j]) : \E r \in PairsOf(mediators[j]) : r.payer = p.payer
    BY <2>1 DEF SamePairs, PairsOf
  <2>3. PayersDiffer(mediators[j].transfers_pair) => PayersDiffer(mediators'[j].transfers_pair)
    BY <2>1 DEF PayersDiffer, SamePairs
  <2> QED
    BY <2>1, <2>2, <2>3 DEF Fresh
<1> QED
  BY <1>1, <1>2 DEF TaskKept

(* The other tasks stay as they are.                                       *)
LEMMA OtherTasks ==
  ASSUME TypeInv, MediatorLocks, NEW n \in Mediators, MediatorRuns(n),
         NEW j \in Mediators, j # n
  PROVE  mediators'[j] = mediators[j]
BY MediatorActs, StepLocks

LEMMA ReceiptIsNew ==
  ASSUME TypeInv, MediatorLocks, NEW n \in Mediators, NEW x \in Nodes,
         InitMediatorRuns(n, x) \/ RefundRuns(n, x)
  PROVE  received' # received
<1>1. received \in Statuses /\ Owns(n, mediators[n], sent, received)
  BY TaskFacts
<1>2. <<x, n>> \in Directions
  <2>1. CASE InitMediatorRuns(n, x)
    BY <2>1 DEF InitMediator, InitMediatorRuns
  <2>2. ASSUME RefundRuns(n, x)
        PROVE  <<n, x>> \in Directions
    <3>1. /\ mediators[n].transfers_pair # <<>>
          /\ mediators[n].transfers_pair[Len(mediators[n].transfers_pair)].payee = x
      BY <2>2 DEF ReceiveTransferRefund, RefundRuns
    <3>2. mediators[n].transfers_pair \in Seq(MediationPairState)
      BY TaskFacts
    <3>3. Len(mediators[n].transfers_pair) \in DOMAIN mediators[n].transfers_pair
      BY <3>1, <3>2
    <3>4. mediators[n].transfers_pair[Len(mediators[n].transfers_pair)] \in PairsOf(mediators[n])
      BY <3>3 DEF PairsOf
    <3> QED
      BY <1>1, <3>1, <3>4 DEF Owns
  <2>3. <<n, x>> \in Directions => <<x, n>> \in Directions
    BY DirectionType DEF Directions
  <2> QED
    BY <2>1, <2>2, <2>3
<1>3. received[<<x, n>>] = "none" /\ received' = Receipt(x, n, "locked")
  BY DEF InitMediator, InitMediatorRuns, ReceiveTransferRefund, RefundRuns, TransferRuns,
         Mediate, Receipt, NewReceipt
<1>4. received'[<<x, n>>] = "locked"
  BY <1>1, <1>2, <1>3 DEF Receipt, Statuses
<1> QED
  BY <1>3, <1>4

LEMMA OnceInvNext ==
  ASSUME TaskInv, OnceInv, [Next]_vars
  PROVE  OnceInv' /\ (node_changes' <= 1 => node_changes <= 1)
<1>1. TypeInv /\ MediatorLocks /\ node_changes \in Nat
  BY TypeParts DEF TaskInv, LockInv, RestType
<1>2. ASSUME node_changes' = node_changes, \A n \in Mediators : TaskKept(n)
      PROVE  OnceInv' /\ (node_changes' <= 1 => node_changes <= 1)
  BY <1>2, KeptOnce DEF OnceInv
<1>3. ASSUME NEW n \in Mediators, MediatorRuns(n)
      PROVE  /\ \A j \in Mediators : j # n => mediators'[j] = mediators[j]
             /\ \A j \in Mediators : j # n => TaskKept(j)
  BY <1>1, <1>3, OtherTasks DEF TaskKept
<1>4. ASSUME NEW n \in Mediators, MediatorRuns(n), NEW x \in Nodes, RetryRuns(n, x)
      PROVE  OnceInv' /\ (node_changes' <= 1 => node_changes <= 1)
  <2>1. node_changes' = node_changes + 1 /\ mediators[n].waiting_transfer # NoNode
    BY <1>4 DEF NodeChangeNetworkState, RetryRuns
  <2>2. \A j \in Mediators : j # n => mediators'[j] = mediators[j]
    BY <1>3, <1>4
  <2>3. PICK payer \in Nodes : Takes(n, payer)
    BY <1>1, <1>4, TakesCases
  <2>4. ASSUME node_changes' <= 1
        PROVE  /\ node_changes = 0
               /\ \A j \in Mediators : PayersDiffer(mediators'[j].transfers_pair)
    <3>1. node_changes = 0
      BY <1>1, <2>1, <2>4
    <3>2. Fresh(mediators[n]) /\ \A j \in Mediators : PayersDiffer(mediators[j].transfers_pair)
      BY <2>1, <3>1 DEF OnceInv
    <3>3. PayersDiffer(mediators'[n].transfers_pair)
      BY <1>1, <2>3, <3>2, TakesOnce
    <3> QED
      BY <2>2, <3>1, <3>2, <3>3
  <2>5. node_changes' # 0
    BY <1>1, <2>1
  <2> QED
    BY <2>4, <2>5 DEF OnceInv
<1>5. ASSUME NEW n \in Mediators, MediatorRuns(n), NEW x \in Nodes,
             InitMediatorRuns(n, x) \/ RefundRuns(n, x)
      PROVE  OnceInv' /\ (node_changes' <= 1 => node_changes <= 1)
  <2>1. node_changes' = node_changes
    BY <1>5 DEF InitMediator, InitMediatorRuns, ReceiveTransferRefund, RefundRuns
  <2>2. \A j \in Mediators : j # n => mediators'[j] = mediators[j]
    BY <1>3, <1>5
  <2>3. PICK payer \in Nodes : Takes(n, payer)
    BY <1>1, <1>5, TakesCases
  <2>4. received' # received
    BY <1>1, <1>5, ReceiptIsNew
  <2>5. ASSUME node_changes <= 1
        PROVE  PayersDiffer(mediators'[n].transfers_pair)
    BY <1>1, <2>3, <2>4, <2>5, TakesOnce DEF OnceInv
  <2>6. ASSUME node_changes = 0, mediators'[n].waiting_transfer # NoNode
        PROVE  Fresh(mediators'[n])
    <3>1. mediators[n].waiting_transfer # NoNode => Fresh(mediators[n])
      BY <2>6 DEF OnceInv
    <3> QED
      BY <1>1, <2>3, <2>4, <2>6, <3>1, TakesFresh
  <2> QED
    BY <2>1, <2>2, <2>5, <2>6 DEF OnceInv
<1>6. ASSUME NEW n \in Mediators, MediatorRuns(n), QuietHandler(n)
      PROVE  node_changes' = node_changes /\ \A j \in Mediators : TaskKept(j)
  <2>1. node_changes' = node_changes
    BY <1>6 DEF QuietHandler, MediatorSecretReveal, MediatorUnlock, UnlockRuns,
                MediatorLockExpired,
                MediatorOnchainReveal, MediatorBlock
  <2>2. TaskKept(n)
    BY <1>1, <1>6, QuietCases, QuietTask DEF TaskKept
  <2> QED
    BY <1>3, <1>6, <2>1, <2>2
<1>7. ASSUME \/ MineBlock \/ InitiatorNext \/ TargetNext \/ UNCHANGED vars
             \/ \E n \in Mediators : MediatorRuns(n) /\ mediators' = mediators
                                     /\ node_changes' = node_changes
      PROVE  node_changes' = node_changes /\ mediators' = mediators
  <2>1. ASSUME InitiatorNext
        PROVE  node_changes' = node_changes
    BY <2>1 DEF InitiatorNext, InitInitiator, InitiatorSecretReveal, InitiatorSecretRequest,
                InitiatorOnchainReveal, InitiatorBlock
  <2>2. ASSUME TargetNext
        PROVE  node_changes' = node_changes
    BY <2>2 DEF TargetNext, InitTarget, TargetSecretReveal, TargetUnlock, TargetLockExpired,
                TargetOnchainReveal, TargetBlock
  <2> QED
    BY <1>1, <1>7, <2>1, <2>2, InitiatorActs, TargetActs DEF MineBlock, vars, tasks
<1>8. ASSUME NEW n \in Mediators, MediatorRuns(n)
      PROVE  \/ \E x \in Nodes : \/ InitMediatorRuns(n, x) \/ RefundRuns(n, x)
                                 \/ RetryRuns(n, x)
             \/ QuietHandler(n)
             \/ mediators' = mediators /\ node_changes' = node_changes
  <2>1. ASSUME \/ MediatorOnchainReveal(n) /\ ~ mediators[n].active
               \/ \E b \in 1..confirmed_block_number :
                    MediatorBlock(n, b) /\ ~ mediators[n].active
        PROVE  mediators' = mediators /\ node_changes' = node_changes
    BY <2>1 DEF MediatorOnchainReveal, MediatorBlock
  <2> QED
    BY <1>8, <2>1 DEF MediatorRuns, QuietHandler
<1>9. ASSUME mediators' = mediators
      PROVE  \A j \in Mediators : TaskKept(j)
  BY <1>9 DEF TaskKept
<1>10. ASSUME NEW n \in Mediators, Stops(n)
       PROVE  OnceInv' /\ (node_changes' <= 1 => node_changes <= 1)
  <2>1. mediators' = mediators /\ node_changes' \in {node_changes, node_changes + 1}
    BY <1>10, StopsFrame
  <2>2. CASE node_changes' = node_changes
    BY <1>2, <1>9, <2>1, <2>2
  <2>3. CASE node_changes' = node_changes + 1
    <3>1. node_changes' # 0 /\ (node_changes' <= 1 => node_changes <= 1)
      BY <1>1, <2>3
    <3> QED
      BY <2>1, <3>1 DEF OnceInv
  <2> QED
    BY <2>1, <2>2, <2>3
<1>11. ASSUME NEW n \in Mediators, MediatorRuns(n)
       PROVE  OnceInv' /\ (node_changes' <= 1 => node_changes <= 1)
  BY <1>2, <1>4, <1>5, <1>6, <1>8, <1>9, <1>11
<1> QED
  BY <1>2, <1>7, <1>9, <1>10, <1>11, NextCases DEF RunsNext

LEMMA OnceInvAlways == Spec => []OnceInv
<1>1. Init => OnceInv
  <2> SUFFICES ASSUME Init
               PROVE  OnceInv
    OBVIOUS
  <2>1. \A n \in Mediators : mediators[n] = NoMediatorTask
    BY DEF Init
  <2>2. NoMediatorTask.waiting_transfer = NoNode /\ NoMediatorTask.transfers_pair = <<>>
    BY DEF NoMediatorTask
  <2> QED
    BY <2>1, <2>2 DEF OnceInv, PayersDiffer
<1>2. TaskInv /\ OnceInv /\ [Next]_vars => OnceInv'
  BY OnceInvNext
<1> QED
  BY <1>1, <1>2, TaskInvAlways, PTL DEF Spec

(* No task forwards the same transfer twice, the hypothesis of             *)
(* UnlocksStayAtomic, as long as mediators have retried at most one        *)
(* waiting transfer, over all of them: only                                *)
(* handle_node_change_network_state can forward a transfer again, and the  *)
(* first time it meets one that was not forwarded yet.                     *)
THEOREM OneRetryForwardsOnce == Spec => [](node_changes <= 1 => ForwardedOnce)
<1>1. OnceInv => (node_changes <= 1 => ForwardedOnce)
  BY DEF OnceInv, PayersDiffer, ForwardedOnce
<1> QED
  BY <1>1, OnceInvAlways, PTL
-----------------------------------------------------------------------------
(* A mediator goes on as long as there was at most one retry, unless the   *)
(* Unlock of the initiator outran the secret.                              *)

(* Sending the transfer on passes the assertions: there is no secret yet,  *)
(* and the transfer of the first payer was not sent back before.           *)
LEMMA TransferWorks ==
  ASSUME LossInv, NEW n \in Mediators, n \notin stopped,
         NEW m \in MediatorTransferState, sanity_check(m), PayersDiffer(m.transfers_pair),
         NEW payer \in Nodes, <<payer, n>> \in Directions, Tip(<<payer, n>>),
         m.transfers_pair = <<>> \/ Last(m.transfers_pair).payee = payer,
         \A p \in PairsOf(m) : p.payer # payer,
         NEW o, o = Original(m, payer), <<o, n>> \in Directions,
         OwnStatus(n, o) \in Pending => \E p \in PairsOf(m) : p.payee = o,
         NEW rcv, rcv[<<o, n>>] \in {received[<<o, n>>], "locked"}, rcv[<<o, n>>] # "none",
         NEW routes \in SUBSET Nodes
  PROVE  ~ TransferFails(n, m, payer, routes, rcv)
<1> DEFINE pairs == m.transfers_pair
<1>1. /\ TypeInv /\ TipInv /\ SecretInv /\ ExpiryInv /\ TimeInv /\ n \in Nodes /\ n # Target
      /\ received \in Statuses
  BY TypeParts DEF LossInv, AtomicInv, TaskInv, Mediators
<1>2. pairs \in Seq(MediationPairState) /\ Chained(pairs)
      /\ \A p \in PairsOf(m) : PaidPair(p) => m.secret
  BY SanityCheckParts DEF MediatorTransferState
<1>3. TargetPayer = {}
  <2>1. ASSUME NEW a \in TargetPayer
        PROVE  FALSE
    <3>1. <<a, Target>> \in Directions /\ received[<<a, Target>>] # "none"
      BY <2>1 DEF TargetPayer
    <3>2. Tip(<<a, Target>>)
      BY <1>1, <3>1 DEF TipInv, Tip
    <3>3. <<a, Target>> = <<payer, n>>
      BY <1>1, <3>1, <3>2 DEF TipInv
    <3> QED
      BY <1>1, <3>3
  <2> QED
    BY <2>1
<1>4. received[<<o, n>>] \notin Revealed
  BY <1>1, <1>3 DEF SecretInv, NoSecret
<1>5. ASSUME is_channel_usable(n)
      PROVE  can_refund(n, o, rcv)
  <2>1. is_safe_to_wait(block_number[n])
    BY <1>5 DEF is_channel_usable, is_safe_to_wait
  <2>2. latest < expiration
    BY <1>1, <2>1, SafeToWait
  <2>3. received[<<o, n>>] # "expired"
    BY <1>1, <2>2, NotLate
  <2>4. rcv[<<o, n>>] = "locked"
    <3>1. received[<<o, n>>] \in LockStatus
      BY <1>1 DEF Statuses
    <3> QED
      BY <1>4, <2>3, <3>1 DEF Revealed, LockStatus, Pending
  <2>5. ASSUME OwnStatus(n, o) \in Pending
        PROVE  FALSE
    <3>1. PICK i \in DOMAIN pairs : pairs[i].payee = o
      BY <2>5 DEF PairsOf
    <3>2. /\ DOMAIN pairs = 1..Len(pairs) /\ Len(pairs) \in Nat /\ pairs # <<>>
          /\ 1 \in DOMAIN pairs /\ Len(pairs) \in DOMAIN pairs
      BY <1>2, <3>1
    <3>3. o = pairs[1].payer /\ pairs[1] \in PairsOf(m)
      BY <3>2 DEF Original, PairsOf
    <3>4. i = Len(pairs)
      BY <1>2, <3>1, <3>2, <3>3, BackAtTheEnd
    <3>5. o = payer
      BY <3>1, <3>2, <3>4 DEF Last
    <3> QED
      BY <3>3, <3>5
  <2> QED
    BY <2>4, <2>5 DEF can_refund
<1>6. ASSUME NEW payee \in Nodes
      PROVE  sanity_check(Forwarded(m, payer, payee))
  <2> DEFINE x == MediationPair(payer, payee)
             k == Forwarded(m, payer, payee)
  <2>1. /\ k.secret = m.secret /\ k.transfers_pair = Append(pairs, x)
        /\ PairsOf(k) = PairsOf(m) \cup {x}
    BY AppendedPairs
  <2>2. Chained(Append(pairs, x))
    BY <1>2, ChainedAppend
  <2>3. ~ PaidPair(x)
    BY DEF PaidPair, MediationPair, STATE_TRANSFER_PAID
  <2> HIDE DEF x, k
  <2>4. sanity_check(k)
    BY <1>2, <2>1, <2>2, <2>3, SanityCheckParts
  <2> QED
    BY <2>4 DEF k
<1>7. ASSUME NEW payee \in Payees(n, m, payer, routes)
      PROVE  payee \in Nodes /\ is_channel_usable(n)
  <2>1. is_channel_usable(n) /\ (payee \in routes \/ payee = o)
    BY <1>7 DEF Payees, filter_used_routes
  <2>2. o \in Nodes
    BY DirectionType
  <2> QED
    BY <2>1, <2>2
<1> QED
  BY <1>5, <1>6, <1>7 DEF TransferFails

LEMMA InitWorks ==
  ASSUME LossInv, NEW n \in Mediators, n \notin stopped, NEW p \in Nodes, InitMediator(n, p)
  PROVE  ~ FailsToInit(n, p)
<1>1. TypeInv /\ received \in Statuses
  BY TypeParts DEF LossInv, AtomicInv, TaskInv
<1>2. /\ <<p, n>> \in Directions /\ sent[<<p, n>>] # "none" /\ received[<<p, n>>] = "none"
      /\ sent[<<n, p>>] = "none"
  BY DEF InitMediator
<1>3. /\ NewTask \in MediatorTransferState /\ NewTask.transfers_pair = <<>>
      /\ NewTask.secret = FALSE
  <2>1. NewTask \in MediatorTransferState
    BY EmptyTask DEF NewTask, MediatorTransferState
  <2> QED
    BY <2>1 DEF NewTask, NoMediatorTask
<1>4. PairsOf(NewTask) = {} /\ Original(NewTask, p) = p
  BY <1>3 DEF PairsOf, Original
<1>5. sanity_check(NewTask) /\ PayersDiffer(NewTask.transfers_pair)
  <2>1. Chained(<<>>) /\ PayersDiffer(<<>>)
    BY DEF Chained, PayersDiffer
  <2> QED
    BY <1>3, <1>4, <2>1, SanityCheckParts
<1>6. Tip(<<p, n>>)
  BY <1>2 DEF Tip
<1>7. OwnStatus(n, p) \notin Pending
  BY <1>2 DEF OwnStatus, Pending
<1>8. NewReceipt(p, n)[<<p, n>>] = "locked"
  BY <1>1, <1>2 DEF NewReceipt, Statuses
<1>9. Hops(n) \in SUBSET Nodes
  BY DirectionType DEF Mediators
<1> HIDE DEF NewTask
<1> QED
  BY <1>2, <1>3, <1>4, <1>5, <1>6, <1>7, <1>8, <1>9, TransferWorks DEF FailsToInit

LEMMA OriginalOwned ==
  ASSUME TypeInv, MediatorLocks, NEW n \in Mediators, NEW payer \in Nodes,
         <<payer, n>> \in Directions, NEW o, o = Original(mediators[n], payer)
  PROVE  /\ <<o, n>> \in Directions
         /\ OwnStatus(n, o) \in Pending => \E p \in PairsOf(mediators[n]) : p.payee = o
         /\ o = payer \/ received[<<o, n>>] # "none"
<1> DEFINE pairs == mediators[n].transfers_pair
<1>1. pairs \in Seq(MediationPairState) /\ Owns(n, mediators[n], sent, received)
  BY TaskFacts
<1>2. ASSUME pairs # <<>>
      PROVE  <<o, n>> \in Directions /\ received[<<o, n>>] # "none"
  <2>1. 1 \in DOMAIN pairs
    BY <1>1, <1>2
  <2>2. o = pairs[1].payer /\ pairs[1] \in PairsOf(mediators[n])
    BY <1>2, <2>1 DEF Original, PairsOf
  <2> QED
    BY <1>1, <2>2 DEF Owns
<1>3. pairs = <<>> => o = payer
  BY DEF Original
<1>4. ASSUME OwnStatus(n, o) \in Pending
      PROVE  \E p \in PairsOf(mediators[n]) : p.payee = o
  <2>1. <<n, o>> \in Directions /\ sent[<<n, o>>] \in Pending
    BY <1>4 DEF OwnStatus, Pending
  <2> QED
    BY <1>1, <2>1 DEF Owns
<1> QED
  BY <1>2, <1>3, <1>4

LEMMA RefundWorks ==
  ASSUME LossInv, SaneInv, NEW n \in Mediators, n \notin stopped,
         PayersDiffer(mediators[n].transfers_pair), NEW p \in Nodes, ReceiveTransferRefund(n, p)
  PROVE  ~ FailsToRefund(n, p)
<1> DEFINE m == mediators[n]
           o == Original(m, p)
<1>1. /\ TypeInv /\ MediatorLocks /\ received \in Statuses /\ m \in MediatorTransferState
      /\ m.transfers_pair \in Seq(MediationPairState) /\ Owns(n, m, sent, received)
  BY TaskFacts DEF LossInv, AtomicInv, TaskInv, LockInv
<1>2. /\ m.transfers_pair # <<>> /\ Last(m.transfers_pair).payee = p
      /\ sent[<<p, n>>] # "none" /\ received[<<p, n>>] = "none"
  BY DEF ReceiveTransferRefund, Last
<1>3. <<p, n>> \in Directions
  <2>1. Len(m.transfers_pair) \in DOMAIN m.transfers_pair
    BY <1>1, <1>2
  <2>2. Last(m.transfers_pair) \in PairsOf(m)
    BY <2>1 DEF PairsOf, Last
  <2>3. <<n, p>> \in Directions
    BY <1>1, <1>2, <2>2 DEF Owns
  <2> QED
    BY <2>3, DirectionType
<1>4. sanity_check(m)
  BY DEF SaneInv
<1>5. Tip(<<p, n>>)
  BY <1>2 DEF Tip
<1>6. \A q \in PairsOf(m) : q.payer # p
  BY <1>1, <1>2 DEF Owns
<1>7. /\ <<o, n>> \in Directions
      /\ OwnStatus(n, o) \in Pending => \E q \in PairsOf(m) : q.payee = o
      /\ o = p \/ received[<<o, n>>] # "none"
  BY <1>1, <1>3, OriginalOwned
<1>8. /\ NewReceipt(p, n)[<<o, n>>] \in {received[<<o, n>>], "locked"}
      /\ NewReceipt(p, n)[<<o, n>>] # "none"
  <2> HIDE DEF o
  <2> QED
    BY <1>1, <1>3, <1>7 DEF NewReceipt, Statuses
<1>9. Hops(n) \in SUBSET Nodes
  BY DirectionType DEF Mediators
<1>10. ~ TransferFails(n, m, p, Hops(n), NewReceipt(p, n))
  BY <1>1, <1>2, <1>3, <1>4, <1>5, <1>6, <1>7, <1>8, <1>9, TransferWorks
<1> QED
  BY <1>10 DEF FailsToRefund

LEMMA RetryWorks ==
  ASSUME LossInv, SaneInv, NEW n \in Mediators, n \notin stopped, Fresh(mediators[n]),
         PayersDiffer(mediators[n].transfers_pair), NEW hop \in Nodes
  PROVE  ~ FailsToRetry(n, hop)
<1> DEFINE m == mediators[n]
           p == m.waiting_transfer
           o == Original(m, p)
<1>1. /\ TypeInv /\ MediatorLocks /\ TipInv /\ m \in MediatorTransferState
      /\ Owns(n, m, sent, received)
  BY TaskFacts DEF LossInv, AtomicInv, TaskInv, LockInv
<1>2. <<p, n>> \in Directions /\ Tip(<<p, n>>) /\ received[<<p, n>>] # "none"
  BY <1>1, FreshTip
<1>3. p \in Nodes
  BY <1>2, DirectionType
<1>4. sanity_check(m)
  BY DEF SaneInv
<1>5. \A q \in PairsOf(m) : q.payer # p
  BY DEF Fresh
<1>6. m.transfers_pair = <<>> \/ Last(m.transfers_pair).payee = p
  <2>1. p # NoNode
    BY DEF Fresh
  <2> QED
    BY <1>1, <1>5, <2>1 DEF Owns
<1>7. /\ <<o, n>> \in Directions
      /\ OwnStatus(n, o) \in Pending => \E q \in PairsOf(m) : q.payee = o
      /\ received[<<o, n>>] # "none"
  BY <1>1, <1>2, <1>3, OriginalOwned
<1>8. ~ TransferFails(n, m, p, {hop}, received)
  BY <1>1, <1>2, <1>3, <1>4, <1>5, <1>6, <1>7, TransferWorks
<1> QED
  BY <1>8 DEF FailsToRetry

-----------------------------------------------------------------------------
(* How the secret travels: a node that was told it by a RevealSecret has   *)
(* it as long as the lock of that payer is open.                           *)

SecretKnown == {"payee_secret_revealed", "payee_balance_proof"}

RevealInv ==
  \A n \in Mediators, x \in Nodes : <<n, x>> \in reveals /\ <<x, n>> \in Directions =>
    /\ received[<<x, n>>] # "none"
    /\ received[<<x, n>>] \in Pending => mediators[n].secret

(* A payee that knows the secret has sent it.                              *)
KnownInv ==
  \A n \in Mediators : \A p \in PairsOf(mediators[n]) :
    p.payee_state \in SecretKnown => <<p.payee, n>> \in reveals

(* An Unlock is sent to a node that has revealed the secret, except by the *)
(* initiator.                                                              *)
ClaimInv ==
  \A d \in Directions : sent[d] = "claimed" =>
    <<d[2], d[1]>> \in reveals \/ (d[1] = Initiator /\ RegisteredInTime)

(* The task of n keeps the secret.                                         *)
LEMMA SecretStays ==
  ASSUME TypeInv, MediatorLocks, NEW n \in Mediators, QuietHandler(n),
         mediators'[n] # NoMediatorTask
  PROVE  mediators'[n].secret \in {mediators[n].secret, TRUE}
<1>1. mediators[n] \in MediatorTransferState
  BY TaskFacts
<1>2. \A q : /\ [mediators[n] EXCEPT !.transfers_pair = q].secret = mediators[n].secret
             /\ [mediators[n] EXCEPT !.secret = TRUE, !.transfers_pair = q].secret = TRUE
  BY <1>1 DEF MediatorTransferState
<1>3. ASSUME NEW q, NEW snt, NEW rcv,
             \/ Mediate(n, [mediators[n] EXCEPT !.transfers_pair = q], snt, rcv)
             \/ Mediate(n, [mediators[n] EXCEPT !.secret = TRUE, !.transfers_pair = q], snt, rcv)
      PROVE  mediators'[n].secret \in {mediators[n].secret, TRUE}
  BY <1>2, <1>3, Cleared
<1>4. ASSUME \/ \E p \in Nodes : MediatorSecretReveal(n, p)
             \/ mediators[n].active /\ MediatorOnchainReveal(n)
      PROVE  \E q, snt, rcv :
               Mediate(n, [mediators[n] EXCEPT !.secret = TRUE, !.transfers_pair = q], snt, rcv)
  BY <1>4 DEF MediatorSecretReveal, MediatorOnchainReveal
<1>5. ASSUME \/ \E p \in Nodes : UnlockRuns(n, p) \/ MediatorLockExpired(n, p)
             \/ mediators[n].active /\ \E b \in 1..confirmed_block_number : MediatorBlock(n, b)
      PROVE  \E q, snt, rcv :
               Mediate(n, [mediators[n] EXCEPT !.transfers_pair = q], snt, rcv)
  BY <1>5 DEF UnlockRuns, PaidTask, MediatorLockExpired, MediatorBlock
<1> QED
  BY <1>3, <1>4, <1>5 DEF QuietHandler

LEMMA TakesSecret ==
  ASSUME NEW n \in Mediators, NEW payer \in Nodes, Takes(n, payer),
         mediators'[n] # NoMediatorTask
  PROVE  mediators'[n].secret = mediators[n].secret
BY DEF Takes, Waits, Forwards

(* Who reveals the secret, and to whom.                                    *)
LEMMA RevealStep ==
  ASSUME TypeInv, RunsNext
  PROVE  /\ reveals \subseteq reveals'
         /\ \A n \in Mediators, x \in Nodes : <<n, x>> \in reveals' \ reveals =>
              /\ \E sender \in Nodes : MediatorSecretReveal(n, sender)
              /\ \E p \in PairsOf(mediators[n]) : p.payer = x
<1>1. CASE MineBlock
  BY <1>1 DEF MineBlock, messages
<1>2. CASE InitiatorNext
  <2>1. reveals' \in {reveals, reveals \cup {<<Initiator, Target>>}}
    BY <1>2 DEF InitiatorNext, InitInitiator, InitiatorSecretReveal, InitiatorSecretRequest,
                InitiatorOnchainReveal, InitiatorBlock, messages
  <2> QED
    BY <2>1 DEF Mediators
<1>3. CASE TargetNext
  <2>1. \E y : reveals' \in {reveals, reveals \cup {<<Target, y>>}}
    BY <1>3 DEF TargetNext, InitTarget, TargetSecretReveal, TargetUnlock, TargetLockExpired,
                TargetOnchainReveal, TargetBlock, messages
  <2> QED
    BY <2>1 DEF Mediators
<1>4. ASSUME NEW j \in Mediators, MediatorRuns(j)
      PROVE  /\ reveals \subseteq reveals'
             /\ \A n \in Mediators, x \in Nodes : <<n, x>> \in reveals' \ reveals =>
                  /\ \E sender \in Nodes : MediatorSecretReveal(n, sender)
                  /\ \E p \in PairsOf(mediators[n]) : p.payer = x
  <2>1. CASE ~ \E sender \in Nodes : MediatorSecretReveal(j, sender)
    <3>1. reveals' = reveals
      BY <1>4, <2>1 DEF MediatorRuns, InitMediator, InitMediatorRuns, ReceiveTransferRefund,
         RefundRuns, NodeChangeNetworkState, RetryRuns, MediatorUnlock, UnlockRuns,
         MediatorLockExpired, MediatorOnchainReveal, MediatorBlock, messages
    <3> QED
      BY <3>1
  <2>2. ASSUME NEW sender \in Nodes, MediatorSecretReveal(j, sender)
        PROVE  /\ reveals \subseteq reveals'
               /\ \A n \in Mediators, x \in Nodes : <<n, x>> \in reveals' \ reveals =>
                    n = j /\ \E p \in PairsOf(mediators[n]) : p.payer = x
    <3> DEFINE pairs == mediators[j].transfers_pair
               known == set_offchain_reveal_state(pairs, sender)
    <3>1. pairs \in Seq(MediationPairState)
      BY DEF TypeInv, MediatorTransferState
    <3>2. SamePairs(known, pairs)
      BY <3>1, PairSteps
    <3>3. reveals' = reveals \cup
            {<<j, known[i].payer>> : i \in {k \in DOMAIN known : should_send_secret(known[k])}}
      BY <2>2 DEF MediatorSecretReveal
    <3> HIDE DEF known
    <3>4. ASSUME NEW n \in Mediators, NEW x \in Nodes, <<n, x>> \in reveals' \ reveals
          PROVE  n = j /\ \E p \in PairsOf(mediators[n]) : p.payer = x
      <4>1. PICK i \in DOMAIN known : <<n, x>> = <<j, known[i].payer>>
        BY <3>3, <3>4
      <4>2. n = j /\ i \in DOMAIN pairs /\ pairs[i].payer = x
        BY <3>2, <4>1 DEF SamePairs
      <4> QED
        BY <4>2 DEF PairsOf
    <3> QED
      BY <3>3, <3>4
  <2> QED
    BY <2>1, <2>2
<1> QED
  BY <1>1, <1>2, <1>3, <1>4 DEF RunsNext

(* The states of the payees after a step on the pairs.                     *)
KnownBefore(q, pairs) ==
  \A i \in DOMAIN pairs : q[i].payee_state \in SecretKnown => pairs[i].payee_state \in SecretKnown

LEMMA PayeesKnow ==
  ASSUME NEW pairs \in Seq(MediationPairState), NEW n, NEW b, NEW rcv, NEW x
  PROVE  /\ KnownBefore(events_for_secretreveal(pairs), pairs)
         /\ KnownBefore(events_for_balanceproof(pairs, b), pairs)
         /\ KnownBefore(PaidPairs(pairs, x), pairs)
         /\ KnownBefore(events_to_remove_expired_locks(n, pairs, b), pairs)
         /\ KnownBefore(events_for_onchain_secretreveal_if_dangerzone(n, pairs, b), pairs)
         /\ KnownBefore(events_for_expired_pairs(n, pairs, b), pairs)
         /\ KnownBefore(ExpiredPairs(n, pairs, rcv), pairs)
         /\ \A i \in DOMAIN pairs :
              set_offchain_reveal_state(pairs, x)[i].payee_state \in SecretKnown =>
                pairs[i].payee_state \in SecretKnown \/ pairs[i].payee = x
<1>1. \A i \in DOMAIN pairs : pairs[i] \in MediationPairState
  OBVIOUS
<1>2. ASSUME NEW p \in MediationPairState, NEW s
      PROVE  /\ [p EXCEPT !.payer_state = s].payee_state = p.payee_state
             /\ [p EXCEPT !.payee_state = s].payee_state = s
  BY DEF MediationPairState
<1>3. ASSUME NEW p \in MediationPairState, should_send_balanceproof_to_payee(p, b)
      PROVE  p.payee_state \in SecretKnown
  BY <1>3 DEF should_send_balanceproof_to_payee, STATE_SECRET_KNOWN, STATE_TRANSFER_PAID,
              MediationPairState, SecretKnown
<1>4. "payee_expired" \notin SecretKnown
  BY DEF SecretKnown
<1>5. KnownBefore(events_for_secretreveal(pairs), pairs)
  BY <1>1, <1>2 DEF KnownBefore, events_for_secretreveal, MapPairs
<1>6. KnownBefore(events_for_balanceproof(pairs, b), pairs)
  BY <1>1, <1>3 DEF KnownBefore, events_for_balanceproof, MapPairs
<1>7. KnownBefore(PaidPairs(pairs, x), pairs)
  BY <1>1, <1>2 DEF KnownBefore, PaidPairs
<1>8. KnownBefore(events_to_remove_expired_locks(n, pairs, b), pairs)
  BY <1>1, <1>2, <1>4 DEF KnownBefore, events_to_remove_expired_locks, MapPairs
<1>9. KnownBefore(events_for_onchain_secretreveal_if_dangerzone(n, pairs, b), pairs)
  BY <1>1, <1>2 DEF KnownBefore, events_for_onchain_secretreveal_if_dangerzone, MapPairs
<1>10. KnownBefore(events_for_expired_pairs(n, pairs, b), pairs)
  BY <1>1, <1>2 DEF KnownBefore, events_for_expired_pairs, MapPairs
<1>11. KnownBefore(ExpiredPairs(n, pairs, rcv), pairs)
  BY <1>1, <1>2 DEF KnownBefore, ExpiredPairs, MapPairs
<1>12. \A i \in DOMAIN pairs :
         set_offchain_reveal_state(pairs, x)[i].payee_state \in SecretKnown =>
           pairs[i].payee_state \in SecretKnown \/ pairs[i].payee = x
  BY <1>1 DEF set_offchain_reveal_state, MapPairs
<1> QED
  BY <1>5, <1>6, <1>7, <1>8, <1>9, <1>10, <1>11, <1>12

(* The pairs of n whose payee has the secret, after a step of n.           *)
KnownPairs(n, q) ==
  \A i \in DOMAIN q : q[i].payee_state \in SecretKnown => <<q[i].payee, n>> \in reveals

LEMMA KnownPairsStay ==
  ASSUME NEW n, NEW pairs, NEW q, SamePairs(q, pairs), KnownBefore(q, pairs), KnownPairs(n, pairs)
  PROVE  KnownPairs(n, q)
BY DEF KnownPairs, KnownBefore, SamePairs

LEMMA ToldPairs ==
  ASSUME NEW n, NEW pairs \in Seq(MediationPairState), KnownPairs(n, pairs),
         NEW x, <<x, n>> \in reveals
  PROVE  LET told == events_for_secretreveal(set_offchain_reveal_state(pairs, x))
         IN  told \in Seq(MediationPairState) /\ KnownPairs(n, told)
<1> DEFINE known == set_offchain_reveal_state(pairs, x)
           told  == events_for_secretreveal(known)
<1>1. SamePairs(known, pairs)
  BY PairSteps
<1>2. \A i \in DOMAIN pairs : known[i].payee_state \in SecretKnown =>
        pairs[i].payee_state \in SecretKnown \/ pairs[i].payee = x
  BY PayeesKnow
<1>3. known \in Seq(MediationPairState)
  BY <1>1 DEF SamePairs
<1>4. SamePairs(told, known) /\ KnownBefore(told, known)
  BY <1>3, PairSteps, PayeesKnow
<1> HIDE DEF known, told
<1>5. KnownPairs(n, known)
  BY <1>1, <1>2 DEF KnownPairs, SamePairs
<1>6. KnownPairs(n, told)
  BY <1>4, <1>5, KnownPairsStay
<1>7. told \in Seq(MediationPairState)
  BY <1>4 DEF SamePairs
<1> QED
  BY <1>6, <1>7 DEF known, told

LEMMA QuietKnown ==
  ASSUME TypeInv, MediatorLocks, NEW n \in Mediators, QuietHandler(n),
         KnownPairs(n, mediators[n].transfers_pair)
  PROVE  KnownPairs(n, mediators'[n].transfers_pair)
<1> DEFINE m     == mediators[n]
           pairs == m.transfers_pair
<1>1. m \in MediatorTransferState /\ pairs \in Seq(MediationPairState)
  BY TaskFacts
<1>2. \A q : /\ [m EXCEPT !.transfers_pair = q].transfers_pair = q
             /\ [m EXCEPT !.secret = TRUE, !.transfers_pair = q].transfers_pair = q
  BY <1>1 DEF MediatorTransferState
<1>3. ASSUME NEW q, KnownPairs(n, q), NEW snt, NEW rcv,
             \/ Mediate(n, [m EXCEPT !.transfers_pair = q], snt, rcv)
             \/ Mediate(n, [m EXCEPT !.secret = TRUE, !.transfers_pair = q], snt, rcv)
      PROVE  KnownPairs(n, mediators'[n].transfers_pair)
  <2>1. KnownPairs(n, NoMediatorTask.transfers_pair)
    BY DEF KnownPairs, NoMediatorTask
  <2>2. mediators'[n].transfers_pair = q \/ mediators'[n] = NoMediatorTask
    BY <1>2, <1>3, Cleared
  <2> QED
    BY <1>3, <2>1, <2>2
<1>4. ASSUME NEW x \in Nodes, MediatorSecretReveal(n, x)
      PROVE  KnownPairs(n, mediators'[n].transfers_pair)
  <2> DEFINE told == events_for_secretreveal(set_offchain_reveal_state(pairs, x))
             q    == events_for_balanceproof(told, block_number[n])
  <2>1. <<x, n>> \in reveals
        /\ \E snt, rcv : Mediate(n, [m EXCEPT !.secret = TRUE, !.transfers_pair = q], snt, rcv)
    BY <1>4 DEF MediatorSecretReveal
  <2>2. told \in Seq(MediationPairState) /\ KnownPairs(n, told)
    BY <1>1, <2>1, ToldPairs
  <2>3. SamePairs(q, told) /\ KnownBefore(q, told)
    BY <2>2, PairSteps, PayeesKnow
  <2> HIDE DEF q, told
  <2>4. KnownPairs(n, q)
    BY <2>2, <2>3, KnownPairsStay
  <2> QED
    BY <1>3, <2>1, <2>4
<1>5. ASSUME m.active, MediatorOnchainReveal(n)
      PROVE  KnownPairs(n, mediators'[n].transfers_pair)
  <2> DEFINE q == events_for_balanceproof(pairs, registered)
  <2>1. SamePairs(q, pairs) /\ KnownBefore(q, pairs)
    BY <1>1, PairSteps, PayeesKnow
  <2>2. \E snt, rcv : Mediate(n, [m EXCEPT !.secret = TRUE, !.transfers_pair = q], snt, rcv)
    BY <1>5 DEF MediatorOnchainReveal
  <2> HIDE DEF q
  <2>3. KnownPairs(n, q)
    BY <2>1, KnownPairsStay
  <2> QED
    BY <1>3, <2>2, <2>3
<1>6. ASSUME NEW x \in Nodes, UnlockRuns(n, x)
      PROVE  KnownPairs(n, mediators'[n].transfers_pair)
  <2> DEFINE q == PaidPairs(pairs, x)
  <2>1. SamePairs(q, pairs) /\ KnownBefore(q, pairs)
    BY <1>1, PairSteps, PayeesKnow
  <2>2. \E snt, rcv : Mediate(n, [m EXCEPT !.transfers_pair = q], snt, rcv)
    BY <1>6 DEF UnlockRuns, PaidTask
  <2> HIDE DEF q
  <2>3. KnownPairs(n, q)
    BY <2>1, KnownPairsStay
  <2> QED
    BY <1>3, <2>2, <2>3
<1>7. ASSUME NEW x \in Nodes, MediatorLockExpired(n, x)
      PROVE  KnownPairs(n, mediators'[n].transfers_pair)
  <2> DEFINE q == ExpiredPairs(n, pairs, Receipt(x, n, "expired"))
  <2>1. SamePairs(q, pairs) /\ KnownBefore(q, pairs)
    BY <1>1, PairSteps, PayeesKnow
  <2>2. \E snt, rcv : Mediate(n, [m EXCEPT !.transfers_pair = q], snt, rcv)
    BY <1>7 DEF MediatorLockExpired, ExpiredPairs, Receipt
  <2> HIDE DEF q
  <2>3. KnownPairs(n, q)
    BY <2>1, KnownPairsStay
  <2> QED
    BY <1>3, <2>2, <2>3
<1>8. ASSUME m.active, NEW b, MediatorBlock(n, b)
      PROVE  KnownPairs(n, mediators'[n].transfers_pair)
  <2> DEFINE removed  == events_to_remove_expired_locks(n, pairs, b)
             revealed == events_for_onchain_secretreveal_if_dangerzone(n, removed, b)
             q        == events_for_expired_pairs(n, revealed, b)
  <2>1. SamePairs(removed, pairs) /\ KnownBefore(removed, pairs)
    BY <1>1, PairSteps, PayeesKnow
  <2>2. removed \in Seq(MediationPairState)
    BY <2>1 DEF SamePairs
  <2>3. SamePairs(revealed, removed) /\ KnownBefore(revealed, removed)
    BY <2>2, PairSteps, PayeesKnow
  <2>4. revealed \in Seq(MediationPairState)
    BY <2>3 DEF SamePairs
  <2>5. SamePairs(q, revealed) /\ KnownBefore(q, revealed)
    BY <2>4, PairSteps, PayeesKnow
  <2>6. \E snt, rcv : Mediate(n, [m EXCEPT !.transfers_pair = q], snt, rcv)
    BY <1>8 DEF MediatorBlock
  <2> HIDE DEF q, revealed, removed
  <2>7. KnownPairs(n, removed)
    BY <2>1, KnownPairsStay
  <2>8. KnownPairs(n, revealed)
    BY <2>3, <2>7, KnownPairsStay
  <2>9. KnownPairs(n, q)
    BY <2>5, <2>8, KnownPairsStay
  <2> QED
    BY <1>3, <2>6, <2>9
<1> QED
  BY <1>4, <1>5, <1>6, <1>7, <1>8 DEF QuietHandler

LEMMA KnownInvNext ==
  ASSUME TaskInv, KnownInv, RunsNext
  PROVE  KnownInv'
<1>1. TypeInv /\ MediatorLocks /\ reveals \subseteq reveals'
  BY RevealStep DEF TaskInv, LockInv
<1>2. ASSUME NEW n \in Mediators
      PROVE  KnownPairs(n, mediators[n].transfers_pair)
  BY DEF KnownInv, KnownPairs, PairsOf
<1>3. ASSUME NEW n \in Mediators, KnownPairs(n, mediators'[n].transfers_pair)
      PROVE  \A p \in PairsOf(mediators'[n]) :
               p.payee_state \in SecretKnown => <<p.payee, n>> \in reveals'
  BY <1>1, <1>3 DEF KnownPairs, PairsOf
<1>4. ASSUME NEW n \in Mediators, ~ MediatorRuns(n)
      PROVE  mediators'[n] = mediators[n]
  BY <1>4, OthersStep
<1>5. ASSUME NEW n \in Mediators, NEW payer \in Nodes, Takes(n, payer)
      PROVE  \A p \in PairsOf(mediators'[n]) :
               p.payee_state \in SecretKnown => <<p.payee, n>> \in reveals'
  <2>1. \A p \in PairsOf(mediators[n]) :
          p.payee_state \in SecretKnown => <<p.payee, n>> \in reveals
    BY DEF KnownInv
  <2>2. CASE Waits(n, mediators[n], payer)
    <3>1. PairsOf(mediators'[n]) \in {{}, PairsOf(mediators[n])}
      BY <2>2 DEF Waits, PairsOf, NoMediatorTask
    <3> QED
      BY <1>1, <2>1, <3>1
  <2>3. ASSUME NEW payee \in Nodes, Forwards(n, mediators[n], payer, payee),
               NEW p \in PairsOf(mediators'[n]), p.payee_state \in SecretKnown
        PROVE  <<p.payee, n>> \in reveals'
    <3>1. p \in PairsOf(mediators[n]) \/ p = MediationPair(payer, payee)
      BY <2>3 DEF Forwards
    <3>2. MediationPair(payer, payee).payee_state \notin SecretKnown
      BY DEF MediationPair, SecretKnown
    <3> QED
      BY <1>1, <2>1, <2>3, <3>1, <3>2
  <2> QED
    BY <1>5, <2>2, <2>3 DEF Takes
<1> SUFFICES ASSUME NEW n \in Mediators
             PROVE  \A p \in PairsOf(mediators'[n]) :
                      p.payee_state \in SecretKnown => <<p.payee, n>> \in reveals'
  BY DEF KnownInv
<1>6. CASE QuietHandler(n)
  BY <1>1, <1>2, <1>3, <1>6, QuietKnown
<1>7. CASE mediators'[n] = mediators[n]
  BY <1>1, <1>7 DEF KnownInv
<1>8. CASE MediatorRuns(n)
  BY <1>1, <1>5, <1>6, <1>7, <1>8, MediatorHandlers, TakesCases
<1> QED
  BY <1>4, <1>7, <1>8

LEMMA RevealInvNext ==
  ASSUME LossInv, RevealInv, RunsNext
  PROVE  RevealInv'
<1>1. /\ TaskInv /\ TypeInv /\ MediatorLocks /\ received \in Statuses
      /\ ExpiryInv /\ TimeInv /\ PairStates /\ CoverInv
  BY TypeParts DEF LossInv, AtomicInv, TaskInv, LockInv
<1>2. MediatorLocks'
  BY <1>1, TaskInvRuns DEF TaskInv, LockInv
<1> SUFFICES ASSUME NEW n \in Mediators, NEW x \in Nodes, <<n, x>> \in reveals',
                    <<x, n>> \in Directions
             PROVE  /\ received'[<<x, n>>] # "none"
                    /\ received'[<<x, n>>] \in Pending => mediators'[n].secret
  BY DEF RevealInv
<1>3. ASSUME <<n, x>> \notin reveals
      PROVE  /\ \E sender \in Nodes : MediatorSecretReveal(n, sender)
             /\ received[<<x, n>>] # "none"
  <2>1. /\ \E sender \in Nodes : MediatorSecretReveal(n, sender)
        /\ \E p \in PairsOf(mediators[n]) : p.payer = x
    BY <1>1, <1>3, RevealStep
  <2>2. Owns(n, mediators[n], sent, received)
    BY <1>1, TaskFacts
  <2> QED
    BY <2>1, <2>2 DEF Owns
<1>4. ASSUME <<n, x>> \in reveals
      PROVE  /\ received[<<x, n>>] # "none"
             /\ received[<<x, n>>] \in Pending => mediators[n].secret
  BY <1>4 DEF RevealInv
<1>5. ASSUME received'[<<x, n>>] \in Pending
      PROVE  mediators'[n] # NoMediatorTask
  BY <1>2, <1>5, PendingKeepsTask
<1>6. ASSUME NEW sender \in Nodes, MediatorSecretReveal(n, sender)
      PROVE  /\ received'[<<x, n>>] # "none"
             /\ received'[<<x, n>>] \in Pending => mediators'[n].secret
  <2>1. QuietHandler(n)
    BY <1>6 DEF QuietHandler
  <2>2. received'[<<x, n>>] # "none"
    BY <1>1, <1>3, <1>4, <2>1, QuietCases, QuietTask
  <2>3. PICK q, snt, rcv :
          Mediate(n, [mediators[n] EXCEPT !.secret = TRUE, !.transfers_pair = q], snt, rcv)
    BY <1>6 DEF MediatorSecretReveal
  <2>4. [mediators[n] EXCEPT !.secret = TRUE, !.transfers_pair = q].secret = TRUE
    <3>1. mediators[n] \in MediatorTransferState
      BY <1>1, TaskFacts
    <3> QED
      BY <3>1 DEF MediatorTransferState
  <2>5. mediators'[n] = NoMediatorTask \/ mediators'[n].secret = TRUE
    BY <1>1, <2>3, <2>4, Cleared
  <2> QED
    BY <1>5, <2>2, <2>5
<1>8. ASSUME <<n, x>> \in reveals, ~ MediatorRuns(n)
      PROVE  /\ received'[<<x, n>>] # "none"
             /\ received'[<<x, n>>] \in Pending => mediators'[n].secret
  BY <1>1, <1>4, <1>8, OthersStep
<1>9. ASSUME <<n, x>> \in reveals, NEW payer \in Nodes, Takes(n, payer)
      PROVE  /\ received'[<<x, n>>] # "none"
             /\ received'[<<x, n>>] \in Pending => mediators'[n].secret
  <2>1. received'[<<x, n>>] = received[<<x, n>>]
    BY <1>1, <1>4, <1>9 DEF Takes, Receipt, Statuses
  <2> QED
    BY <1>4, <1>5, <1>9, <2>1, TakesSecret
<1>10. ASSUME <<n, x>> \in reveals, MediatorRuns(n), QuietHandler(n)
       PROVE  /\ received'[<<x, n>>] # "none"
              /\ received'[<<x, n>>] \in Pending => mediators'[n].secret
  <2>1. received'[<<x, n>>] # "none"
    BY <1>1, <1>4, <1>10, QuietCases, QuietTask
  <2>2. CASE \E p \in Nodes : \/ InitMediatorRuns(n, p) \/ RefundRuns(n, p) \/ RetryRuns(n, p)
    BY <1>1, <1>9, <1>10, <2>2, TakesCases
  <2>3. CASE ~ \E p \in Nodes : \/ InitMediatorRuns(n, p) \/ RefundRuns(n, p) \/ RetryRuns(n, p)
    <3>1. NoNewPending
      BY <1>1, <1>10, <2>3, MediatorPays DEF CoverInv
    <3>2. received'[<<x, n>>] \in Pending => received[<<x, n>>] \in Pending
      BY <3>1 DEF NoNewPending
    <3> QED
      BY <1>1, <1>4, <1>5, <1>10, <2>1, <3>2, SecretStays
  <2> QED
    BY <2>2, <2>3
<1>11. ASSUME <<n, x>> \in reveals, MediatorRuns(n)
       PROVE  /\ received'[<<x, n>>] # "none"
              /\ received'[<<x, n>>] \in Pending => mediators'[n].secret
  <2>1. CASE UNCHANGED <<sent, received, mediators>>
    BY <1>4, <1>11, <2>1
  <2> QED
    BY <1>1, <1>9, <1>10, <1>11, <2>1, MediatorHandlers, TakesCases
<1> QED
  BY <1>3, <1>6, <1>8, <1>11

(* Who pays a payee, and why.                                              *)
LEMMA PaidKnown ==
  ASSUME TypeInv, NEW n, NEW pairs \in Seq(MediationPairState), KnownPairs(n, pairs),
         NEW snt, NEW b, NEW d \in Directions, snt[d] # "claimed",
         Paid(n, snt, pairs, b)[d] = "claimed"
  PROVE  <<d[2], d[1]>> \in reveals
<1>1. d[1] = n /\ \E i \in DOMAIN pairs : pairs[i].payee = d[2]
                                          /\ should_send_balanceproof_to_payee(pairs[i], b)
  BY DEF Paid
<1>2. PICK i \in DOMAIN pairs : pairs[i].payee = d[2]
                                /\ should_send_balanceproof_to_payee(pairs[i], b)
  BY <1>1
<1>3. pairs[i] \in MediationPairState
  BY <1>2
<1>4. pairs[i].payee_state \in SecretKnown
  BY <1>2, <1>3 DEF should_send_balanceproof_to_payee, STATE_SECRET_KNOWN,
                    STATE_TRANSFER_PAID, MediationPairState, SecretKnown
<1> QED
  BY <1>1, <1>2, <1>4 DEF KnownPairs

LEMMA MediatorClaims ==
  ASSUME TaskInv, KnownInv, NEW n \in Mediators, MediatorRuns(n),
         NEW d \in Directions, sent[d] # "claimed", sent'[d] = "claimed"
  PROVE  <<d[2], d[1]>> \in reveals
<1> DEFINE m     == mediators[n]
           qs    == PartnersOf(m)
           pairs == m.transfers_pair
<1>1. /\ TypeInv /\ MediatorLocks /\ sent \in Statuses /\ sent[d] \in LockStatus
      /\ pairs \in Seq(MediationPairState)
  BY TaskFacts DEF TaskInv, LockInv, Statuses
<1>2. KnownPairs(n, pairs)
  BY DEF KnownInv, KnownPairs, PairsOf
<1>3. ASSUME NEW change \in {Learning, Registration, Expiration}, NEW rs
      PROVE  SentAt(n, rs, change)[d] # "claimed"
  <2>1. \A s \in LockStatus : /\ WithSecret(s) = "claimed" => s = "claimed"
                              /\ WithRegistration(s) = "claimed" => s = "claimed"
    BY DEF WithSecret, WithRegistration
  <2> QED
    BY <1>1, <2>1, TameSent, Changes
<1>4. ASSUME NEW x \in Nodes, MediatorSecretReveal(n, x)
      PROVE  <<d[2], d[1]>> \in reveals
  <2> DEFINE told == events_for_secretreveal(set_offchain_reveal_state(pairs, x))
  <2>1. /\ <<x, n>> \in reveals
        /\ sent' = Paid(n, SentAt(n, qs, Learning), told, block_number[n])
    BY <1>4 DEF MediatorSecretReveal, Mediate
  <2>2. told \in Seq(MediationPairState) /\ KnownPairs(n, told)
    BY <1>1, <1>2, <2>1, ToldPairs
  <2> HIDE DEF told
  <2> QED
    BY <1>1, <1>3, <2>1, <2>2, PaidKnown
<1>5. ASSUME MediatorOnchainReveal(n), m.active
      PROVE  <<d[2], d[1]>> \in reveals
  <2>1. sent' = Paid(n, SentAt(n, qs, Registration), pairs, registered)
    BY <1>5 DEF MediatorOnchainReveal, Mediate
  <2> QED
    BY <1>1, <1>2, <1>3, <2>1, PaidKnown
<1>6. ASSUME NEW b, MediatorBlock(n, b), m.active
      PROVE  FALSE
  <2>1. \E rs : sent' = SentAt(n, rs, Expiration)
    BY <1>6 DEF MediatorBlock, Mediate
  <2> QED
    BY <1>3, <2>1
<1>7. ASSUME NEW x \in Nodes, UnlockRuns(n, x) \/ MediatorLockExpired(n, x)
      PROVE  FALSE
  BY <1>7 DEF UnlockRuns, MediatorLockExpired, Mediate
<1>8. ASSUME NEW payer \in Nodes, Takes(n, payer)
      PROVE  FALSE
  BY <1>1, <1>8 DEF Takes, Waits, Forwards, Statuses
<1> HIDE DEF m
<1>9. CASE QuietHandler(n)
  BY <1>4, <1>5, <1>6, <1>7, <1>9 DEF QuietHandler, m
<1> QED
  BY <1>1, <1>8, <1>9, MediatorHandlers, TakesCases

LEMMA ClaimInvNext ==
  ASSUME TaskInv, StartInv, KnownInv, ClaimInv, RunsNext
  PROVE  ClaimInv'
<1>1. /\ TypeInv /\ sent \in Statuses /\ reveals \subseteq reveals'
      /\ RegisteredInTime => RegisteredInTime'
  BY TypeParts, RevealStep, SettledInTime DEF TaskInv, RegisteredInTime
<1> SUFFICES ASSUME NEW d \in Directions, sent'[d] = "claimed"
             PROVE  <<d[2], d[1]>> \in reveals' \/ (d[1] = Initiator /\ RegisteredInTime')
  BY DEF ClaimInv
<1>2. CASE sent[d] = "claimed"
  BY <1>1, <1>2 DEF ClaimInv
<1>3. ASSUME sent[d] # "claimed"
      PROVE  <<d[2], d[1]>> \in reveals \/ (d[1] = Initiator /\ RegisteredInTime)
  <2>1. CASE MineBlock \/ TargetNext
    BY <1>1, <1>3, <2>1, TargetActs DEF MineBlock, locks
  <2>2. ASSUME NEW n \in Mediators, MediatorRuns(n)
        PROVE  <<d[2], d[1]>> \in reveals
    BY <1>3, <2>2, MediatorClaims
  <2>3. ASSUME NEW hop \in Nodes, InitiatorPays(hop)
        PROVE  d = <<Initiator, hop>>
    BY <1>1, <1>3, <2>3 DEF InitiatorPays, Statuses
  <2>4. ASSUME NEW hop \in Nodes, InitiatorSecretReveal(hop)
        PROVE  <<d[2], d[1]>> \in reveals
    BY <2>3, <2>4 DEF InitiatorSecretReveal
  <2>5. ASSUME InitiatorOnchainReveal
        PROVE  d[1] = Initiator /\ RegisteredInTime
    <3>1. initiator.active /\ registered <= expiration /\ registered # 0
      BY <1>3, <2>5 DEF InitiatorOnchainReveal, Polls
    <3>2. PICK hop \in InitiatorHop : InitiatorPays(hop)
      BY <2>5, <3>1 DEF InitiatorOnchainReveal
    <3> QED
      BY <2>3, <3>1, <3>2 DEF RegisteredInTime, InitiatorHop
  <2>6. ASSUME NEW b, InitiatorBlock(b)
        PROVE  FALSE
    <3>1. sent' = sent \/ sent' = SentAt(Initiator, InitiatorHop, Expiration)
      BY <2>6 DEF InitiatorBlock
    <3>2. sent[d] \in LockStatus
      BY <1>1 DEF Statuses
    <3> QED
      BY <1>1, <1>3, <3>1, <3>2, TameSent, Changes
  <2>7. ASSUME NEW hop \in Nodes, InitInitiator(hop)
        PROVE  FALSE
    BY <1>1, <1>3, <2>7 DEF InitInitiator, Statuses
  <2>8. ASSUME InitiatorSecretRequest
        PROVE  FALSE
    BY <1>3, <2>8 DEF InitiatorSecretRequest, locks
  <2> QED
    BY <2>1, <2>2, <2>4, <2>5, <2>6, <2>7, <2>8 DEF RunsNext, InitiatorNext
<1> QED
  BY <1>1, <1>2, <1>3

-----------------------------------------------------------------------------
(* A mediator that stopped: why, and that it stays so.                     *)
StopInv == \A n \in stopped : UnlockedBeforeSecret(n)

(* What holds as long as there was at most one retry.                      *)
OneInv == LossInv /\ RevealInv /\ KnownInv /\ ClaimInv /\ StopInv

LEMMA UnlockFails ==
  ASSUME OneInv, SaneInv, NEW n \in Mediators, NEW p \in Nodes, FailsToUnlock(n, p)
  PROVE  UnlockedBeforeSecret(n)
<1> DEFINE m     == mediators[n]
           pairs == m.transfers_pair
           q     == PaidPairs(pairs, p)
<1>1. /\ TypeInv /\ MediatorLocks /\ NoticeInv /\ RevealInv /\ ClaimInv
      /\ m \in MediatorTransferState /\ pairs \in Seq(MediationPairState)
      /\ Owns(n, m, sent, received)
  BY TaskFacts DEF OneInv, LossInv, AtomicInv, TaskInv, LockInv
<1>2. /\ \E r \in PairsOf(m) : r.payer = p
      /\ sent[<<p, n>>] = "claimed" /\ received[<<p, n>>] \in Pending
  BY DEF FailsToUnlock, MediatorUnlock
<1>3. ~ m.secret
  <2>1. SamePairs(q, pairs)
    BY <1>1, PairSteps
  <2>2. Chained(pairs)
    BY SanityCheckParts DEF SaneInv
  <2>3. Chained(q)
    BY <1>1, <2>1, <2>2, ChainedSame
  <2>4. PaidTask(n, p).transfers_pair = q /\ PaidTask(n, p).secret = m.secret
    BY <1>1 DEF PaidTask, MediatorTransferState
  <2>5. ~ sanity_check(PaidTask(n, p))
    BY DEF FailsToUnlock
  <2> HIDE DEF q
  <2> QED
    BY <2>3, <2>4, <2>5, SanityCheckParts
<1>4. <<p, n>> \in Directions /\ m.active
  <2>1. PairsOf(m) # {}
    BY <1>2
  <2>2. m.active
    BY <1>1, <2>1, TaskFacts
  <2> QED
    BY <1>1, <1>2, <2>2 DEF Owns
<1>5. <<n, p>> \notin reveals
  BY <1>1, <1>2, <1>3, <1>4 DEF RevealInv
<1>6. p = Initiator /\ RegisteredInTime
  BY <1>1, <1>2, <1>4, <1>5 DEF ClaimInv
<1>7. n \notin noticed
  BY <1>1, <1>3, <1>4 DEF NoticeInv
<1> QED
  BY <1>2, <1>3, <1>6, <1>7 DEF UnlockedBeforeSecret

LEMMA WhyItStops ==
  ASSUME OneInv, SaneInv, OnceInv, node_changes' <= 1, NEW n \in Mediators, Stops(n)
  PROVE  UnlockedBeforeSecret(n)
<1>1. LossInv /\ node_changes \in Nat /\ n \notin stopped
  BY TypeParts DEF OneInv, LossInv, AtomicInv, TaskInv, RestType, Stops
<1>2. PICK p \in Nodes : \/ FailsToInit(n, p) \/ FailsToRefund(n, p)
                         \/ FailsToRetry(n, p) \/ FailsToUnlock(n, p)
  BY DEF Stops
<1>3. ~ FailsToInit(n, p)
  BY <1>1, InitWorks DEF FailsToInit
<1>4. node_changes <= 1
  <2>1. node_changes' \in {node_changes, node_changes + 1}
    BY StopsFrame
  <2> QED
    BY <1>1, <2>1
<1>5. PayersDiffer(mediators[n].transfers_pair)
  BY <1>4 DEF OnceInv
<1>6. ~ FailsToRefund(n, p)
  BY <1>1, <1>5, RefundWorks DEF FailsToRefund
<1>7. ~ FailsToRetry(n, p)
  <2> SUFFICES ASSUME FailsToRetry(n, p)
               PROVE  FALSE
    OBVIOUS
  <2>1. node_changes' = node_changes + 1 /\ mediators[n].waiting_transfer # NoNode
    BY DEF FailsToRetry, NodeChangeNetworkState
  <2>2. node_changes = 0
    BY <1>1, <2>1
  <2>3. Fresh(mediators[n])
    BY <1>4, <2>1, <2>2 DEF OnceInv
  <2> QED
    BY <1>1, <1>5, <2>3, RetryWorks
<1> QED
  BY <1>2, <1>3, <1>6, <1>7, UnlockFails

(* What the initiator has paid stays paid.                                 *)
LEMMA InitiatorPaidStays ==
  ASSUME TaskInv, RunsNext, NEW n \in Nodes, <<Initiator, n>> \in Directions,
         sent[<<Initiator, n>>] = "claimed"
  PROVE  sent'[<<Initiator, n>>] = "claimed"
<1> DEFINE d == <<Initiator, n>>
<1>1. /\ TypeInv /\ MediatorLocks /\ InitiatorLocks /\ sent \in Statuses
  BY TypeParts DEF TaskInv, LockInv
<1>2. n \in InitiatorHop
  BY DEF InitiatorHop
<1>3. CASE MineBlock \/ TargetNext
  BY <1>1, <1>3, TargetActs DEF MineBlock, locks
<1>4. ASSUME NEW j \in Mediators, MediatorRuns(j)
      PROVE  sent'[d] = "claimed"
  <2>1. d[1] # j
    BY DEF Mediators
  <2>2. ASSUME NEW k, NEW snt, NEW rcv, MediatorStep(j, k, snt, rcv)
        PROVE  sent'[d] = sent[d]
    BY <2>1, <2>2 DEF MediatorStep, Mediate
  <2> QED
    BY <1>1, <1>4, <2>2, MediatorActs
<1>5. ASSUME NEW hop, InitiatorPays(hop)
      PROVE  sent'[d] = "claimed"
  BY <1>1, <1>5 DEF InitiatorPays, Statuses
<1>6. ASSUME NEW b, InitiatorBlock(b)
      PROVE  sent' = sent
  <2>1. ASSUME NEW hop \in InitiatorHop, sent[<<Initiator, hop>>] = "locked"
        PROVE  FALSE
    <3>1. <<Initiator, hop>> = d
      BY <1>1, <2>1 DEF InitiatorLocks, InitiatorHop
    <3> QED
      BY <2>1, <3>1
  <2> QED
    BY <1>6, <2>1 DEF InitiatorBlock
<1>7. CASE InitiatorNext
  BY <1>2, <1>5, <1>6, <1>7 DEF InitiatorNext, InitInitiator, InitiatorSecretReveal,
     InitiatorSecretRequest, InitiatorOnchainReveal, locks
<1> QED
  BY <1>3, <1>4, <1>7 DEF RunsNext

LEMMA StoppedStays ==
  ASSUME TaskInv, StartInv, RunsNext, NEW n \in Mediators, n \in stopped, UnlockedBeforeSecret(n)
  PROVE  UnlockedBeforeSecret(n)'
<1>1. TypeInv /\ MediatorLocks /\ n \in Nodes /\ n # Initiator /\ n # Target
  BY TaskFacts DEF TaskInv, LockInv
<1>2. ~ MediatorRuns(n)
  BY DEF MediatorRuns
<1>3. /\ mediators'[n] = mediators[n]
      /\ \A d \in Directions : d[2] = n => received'[d] = received[d]
  BY <1>2, OthersStep
<1>4. RegisteredInTime'
  BY SettledInTime DEF UnlockedBeforeSecret, RegisteredInTime
<1>5. n \notin noticed'
  BY <1>1, <1>2, Notices DEF UnlockedBeforeSecret
<1>6. Owns(n, mediators[n], sent, received)
  BY <1>1, TaskFacts
<1>7. <<Initiator, n>> \in Directions
  BY <1>6 DEF UnlockedBeforeSecret, Owns
<1>8. sent'[<<Initiator, n>>] = "claimed"
  BY <1>1, <1>7, InitiatorPaidStays DEF UnlockedBeforeSecret
<1>9. received'[<<Initiator, n>>] = received[<<Initiator, n>>]
  BY <1>3, <1>7
<1> QED
  BY <1>3, <1>4, <1>5, <1>8, <1>9 DEF UnlockedBeforeSecret

LEMMA OneInvNext ==
  ASSUME OneInv, SaneInv, OnceInv, OnceInv', [Next]_vars, node_changes' <= 1
  PROVE  OneInv'
<1>1. /\ LossInv /\ RevealInv /\ KnownInv /\ ClaimInv /\ StopInv /\ TaskInv /\ StartInv
      /\ stopped \subseteq Mediators
  BY TypeParts DEF OneInv, LossInv, AtomicInv, TaskInv, RestType
<1>2. ForwardedOnce'
  BY DEF OnceInv, PayersDiffer, ForwardedOnce
<1>3. \A n \in Mediators : Stops(n) => UnlockedBeforeSecret(n)
  BY WhyItStops
<1>4. LossInv'
  BY <1>1, <1>2, <1>3, LossInvNext DEF UnlockedBeforeSecret
<1>5. CASE RunsNext
  <2>1. RevealInv' /\ KnownInv' /\ ClaimInv'
    BY <1>1, <1>5, RevealInvNext, KnownInvNext, ClaimInvNext
  <2>2. stopped' = stopped
    BY <1>1, <1>5, TaskInvRuns
  <2>3. StopInv'
    BY <1>1, <1>5, <2>2, StoppedStays DEF StopInv
  <2> QED
    BY <1>4, <2>1, <2>3 DEF OneInv
<1>6. CASE UNCHANGED vars \/ \E n \in Mediators : Stops(n)
  <2>1. UNCHANGED <<sent, received, mediators, reveals, expiration, registered, noticed>>
    BY <1>6, StopsFrame DEF vars, locks, tasks, messages, chain
  <2>2. RevealInv' /\ KnownInv' /\ ClaimInv'
    BY <1>1, <2>1 DEF RevealInv, KnownInv, ClaimInv, RegisteredInTime
  <2>3. stopped' = stopped \/ \E n \in Mediators : Stops(n) /\ stopped' = stopped \cup {n}
    BY <1>6, StopsFrame DEF vars
  <2>4. \A n \in stopped' : UnlockedBeforeSecret(n)
    BY <1>1, <1>3, <2>3 DEF StopInv
  <2>5. StopInv'
    BY <2>1, <2>4 DEF StopInv, UnlockedBeforeSecret, RegisteredInTime
  <2> QED
    BY <1>4, <2>2, <2>5 DEF OneInv
<1> QED
  BY <1>5, <1>6, NextCases

SafeInv == TaskInv /\ SaneInv /\ OnceInv /\ (node_changes <= 1 => OneInv)

LEMMA SafeInvInit == Init => SafeInv
<1> SUFFICES ASSUME Init
             PROVE  SafeInv
  OBVIOUS
<1>1. \A n \in Mediators : mediators[n] = NoMediatorTask
  BY DEF Init
<1>2. /\ NoMediatorTask.waiting_transfer = NoNode /\ NoMediatorTask.transfers_pair = <<>>
      /\ PairsOf(NoMediatorTask) = {}
  BY DEF NoMediatorTask, PairsOf
<1>3. SaneInv
  BY <1>1, EmptyIsSane DEF SaneInv
<1>4. OnceInv
  BY <1>1, <1>2 DEF OnceInv, PayersDiffer
<1>5. RevealInv /\ KnownInv /\ ClaimInv /\ StopInv
  <2>1. reveals = {} /\ stopped = {} /\ \A d \in Directions : sent[d] = "none"
    BY DEF Init
  <2> QED
    BY <1>1, <1>2, <2>1 DEF RevealInv, KnownInv, ClaimInv, StopInv
<1> QED
  BY <1>3, <1>4, <1>5, TaskInvInit, LossInvInit DEF SafeInv, OneInv

LEMMA SafeInvNext == SafeInv /\ [Next]_vars => SafeInv'
<1> SUFFICES ASSUME SafeInv, [Next]_vars
             PROVE  SafeInv'
  OBVIOUS
<1>1. TaskInv /\ SaneInv /\ OnceInv
  BY DEF SafeInv
<1>2. TaskInv' /\ SaneInv' /\ OnceInv' /\ (node_changes' <= 1 => node_changes <= 1)
  BY <1>1, TaskInvNext, SaneInvNext, OnceInvNext
<1>3. ASSUME node_changes' <= 1
      PROVE  OneInv'
  BY <1>1, <1>2, <1>3, OneInvNext DEF SafeInv
<1> QED
  BY <1>2, <1>3 DEF SafeInv

LEMMA SafeInvAlways == Spec => []SafeInv
BY SafeInvInit, SafeInvNext, PTL DEF Spec

(* No mediator loses, whatever is delayed, refunded, registered on chain,  *)
(* left to expire or stopped by an assertion, for every topology and every *)
(* timing under which reveal_timeout covers the confirmations, the lag of  *)
(* the node and the time a registration takes: each transfer a mediator    *)
(* has paid for, or can be made to pay for on chain, has a payer of its    *)
(* own whose lock the mediator has claimed or can still claim.             *)
THEOREM MediatorsNeverLose == Spec => []MediatorNeverLoses
<1>1. SafeInv => MediatorNeverLoses
  BY LossInvNeverLoses DEF SafeInv, OneInv, MediatorNeverLoses
<1> QED
  BY <1>1, SafeInvAlways, PTL

(* Until a waiting transfer is tried a second time, the assertions of the  *)
(* mediator fail in one way only: the Unlock of an initiator that saw the  *)
(* registration comes before the secret.  In particular a refund or the    *)
(* retry of a transfer never meets them, and the pairs stay chained.       *)
THEOREM OnlyUnlocksStop ==
  Spec => [](node_changes <= 1 => SanityChecksHold /\ StopInv)
<1>1. SafeInv => (node_changes <= 1 => SanityChecksHold /\ StopInv)
  BY DEF SafeInv, OneInv, StopInv, SanityChecksHold
<1> QED
  BY <1>1, SafeInvAlways, PTL
==============================================================================
