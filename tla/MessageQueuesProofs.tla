------------------------ MODULE MessageQueuesProofs ------------------------
(***************************************************************************)
(* Proofs about MessageQueues, for any number of messages, crashes and     *)
(* messages in flight: its safety invariants.                              *)
(***************************************************************************)
EXTENDS MessageQueues, TLAPS

TransferMessage(n, i)  == [kind |-> "Transfer", id |-> TransferId(n, i)]
RevealMessage(n, i)    == [kind |-> "Reveal", id |-> RevealId(n, i)]
ProcessedMessage(n, i) == [kind |-> "Processed", id |-> TransferId(n, i)]
DeliveredMessage(id)   == [kind |-> "Delivered", id |-> id]

(* The counters are functions.                                             *)
CountersInv ==
  nonce \in [Nodes -> Nat] /\ accepted \in [Nodes -> Nat] /\ revealed \in [Nodes -> Nat]

(* What a node may have sent: its own messages, a Processed for what it    *)
(* accepted, and a Delivered for what the partner sent or answered.        *)
Original(n, m) ==
  \/ \E i \in 1..nonce[n] : m = TransferMessage(n, i)
  \/ \E i \in 1..revealed[n] : m = RevealMessage(n, i)
  \/ \E i \in 1..accepted[n] : m = ProcessedMessage(Partner(n), i)

Ack(n, m) ==
  \/ \E i \in 1..nonce[Partner(n)] : m = DeliveredMessage(TransferId(Partner(n), i))
  \/ \E i \in 1..revealed[Partner(n)] : m = DeliveredMessage(RevealId(Partner(n), i))
  \/ \E i \in 1..accepted[Partner(n)] : m = DeliveredMessage(TransferId(n, i))

(* No message comes from nowhere.                                          *)
SourceInv ==
  \A n \in Nodes :
    /\ \A qid \in QueueIds : \A m \in queues[n][qid] : Original(n, m)
    /\ \A m \in greenlets[n] : Original(n, m)
    /\ \A m \in retrier[n] \cup net[Partner(n)] : Original(n, m) \/ Ack(n, m)
    /\ handling[Partner(n)] = Nothing \/ Original(n, handling[Partner(n)])

(* A Delivered is on its way only when the message it answers was taken    *)
(* up, is being handled, or was lost by a crash in between.                *)
DeliveredInv ==
  \A n \in Nodes, i \in Nat :
    /\ DeliveredMessage(RevealId(Partner(n), i)) \in retrier[n] \cup net[Partner(n)] =>
         \/ RevealId(Partner(n), i) \in learned[n]
         \/ RevealMessage(Partner(n), i) \in {handling[n]} \cup cutoff
    /\ DeliveredMessage(TransferId(n, i)) \in retrier[n] \cup net[Partner(n)] =>
         \/ TransferMessage(n, i) \notin queues[n]["channel"]
         \/ ProcessedMessage(n, i) \in {handling[n]} \cup cutoff

IInv ==
  /\ TypeOK /\ CountersInv /\ SourceInv /\ DeliveredInv
  /\ UnacceptedStaysQueued /\ GlobalLostOnlyByCutoff

-----------------------------------------------------------------------------
(* What every step does to the state.                                      *)

CountersGrow ==
  \A k \in Nodes :
    nonce[k] <= nonce'[k] /\ accepted[k] <= accepted'[k] /\ revealed[k] <= revealed'[k]

HistoryGrows ==
  cutoff \subseteq cutoff' /\ \A k \in Nodes : learned[k] \subseteq learned'[k]

(* A message stays in handling until its state change or a crash.          *)
HandlingTakenUp ==
  \A k \in Nodes :
    \/ handling'[k] = handling[k]
    \/ handling[k] \in cutoff' \cup {Nothing}
    \/ /\ handling[k].kind = "Reveal" => handling[k].id \in learned'[k]
       /\ handling[k].kind = "Processed" =>
            \A x \in queues'[k]["channel"] : x.id # handling[k].id

(* A transfer the partner accepted is not queued again.                    *)
NoTransferReturns ==
  \A k \in Nodes : \A i \in 1..accepted[Partner(k)] :
    TransferMessage(k, i) \in queues'[k]["channel"] =>
      TransferMessage(k, i) \in queues[k]["channel"]

-----------------------------------------------------------------------------
(* The operators of the model.                                             *)

LEMMA PartnerType ==
  ASSUME NEW n \in Nodes
  PROVE  /\ Partner(n) \in Nodes /\ Partner(n) # n /\ Partner(Partner(n)) = n
         /\ \A m \in Nodes : m = n \/ m = Partner(n)
BY QueueAssumption DEF Nodes, Partner

(* The identifiers tell the messages apart.                                *)
LEMMA Identifiers ==
  /\ \A n, m, i, j : TransferId(n, i) = TransferId(m, j) => n = m /\ i = j
  /\ \A n, m, i, j : RevealId(n, i) = RevealId(m, j) => n = m /\ i = j
  /\ \A n, m, i, j : TransferId(n, i) # RevealId(m, j)
BY DEF TransferId, RevealId

LEMMA Messages ==
  /\ \A n, i : /\ TransferMessage(n, i).kind = "Transfer"
               /\ TransferMessage(n, i).id = TransferId(n, i)
               /\ RevealMessage(n, i).kind = "Reveal"
               /\ RevealMessage(n, i).id = RevealId(n, i)
               /\ ProcessedMessage(n, i).kind = "Processed"
               /\ ProcessedMessage(n, i).id = TransferId(n, i)
  /\ \A id : DeliveredMessage(id).kind = "Delivered" /\ DeliveredMessage(id).id = id
  /\ Nothing.kind = "Nothing"
BY DEF TransferMessage, RevealMessage, ProcessedMessage, DeliveredMessage, Nothing

LEMMA MessageType ==
  /\ \A n \in Nodes : \A i \in 1..Transfers[n] :
       TransferMessage(n, i) \in Message /\ ProcessedMessage(n, i) \in Message
  /\ \A n \in Nodes : \A i \in 1..Reveals[n] : RevealMessage(n, i) \in Message
  /\ \A n \in Nodes : \A i \in 1..Transfers[n] : DeliveredMessage(TransferId(n, i)) \in Message
  /\ \A n \in Nodes : \A i \in 1..Reveals[n] : DeliveredMessage(RevealId(n, i)) \in Message
<1>1. \A n \in Nodes : \A i \in 1..Transfers[n] : TransferId(n, i) \in TransferIds
  BY DEF TransferIds
<1>2. \A n \in Nodes : \A i \in 1..Reveals[n] : RevealId(n, i) \in RevealIds
  BY DEF RevealIds
<1> QED
  BY <1>1, <1>2
     DEF Message, TransferMessage, ProcessedMessage, RevealMessage, DeliveredMessage

LEMMA OriginalType ==
  ASSUME TypeOK, CountersInv, NEW n \in Nodes, NEW m, Original(n, m)
  PROVE  m \in Message /\ m.kind # "Delivered" /\ m # Nothing
<1>1. /\ nonce[n] \in Nat /\ nonce[n] <= Transfers[n] /\ Transfers[n] \in Nat
      /\ revealed[n] \in Nat /\ revealed[n] <= Reveals[n] /\ Reveals[n] \in Nat
  BY QueueAssumption DEF TypeOK, CountersInv, Nodes
<1>2. /\ Partner(n) \in Nodes /\ accepted[n] \in Nat /\ accepted[n] <= Transfers[Partner(n)]
      /\ Transfers[Partner(n)] \in Nat
  <2>1. Partner(n) \in Nodes
    BY PartnerType
  <2>2. accepted[n] <= nonce[Partner(n)] /\ nonce[Partner(n)] <= Transfers[Partner(n)]
    BY <2>1 DEF TypeOK
  <2>3. accepted[n] \in Nat /\ nonce[Partner(n)] \in Nat /\ Transfers[Partner(n)] \in Nat
    BY <2>1, QueueAssumption DEF CountersInv, Nodes
  <2> QED
    BY <2>1, <2>2, <2>3
<1>3. ASSUME NEW i \in 1..nonce[n], m = TransferMessage(n, i)
      PROVE  m \in Message /\ m.kind # "Delivered" /\ m # Nothing
  <2>1. i \in 1..Transfers[n]
    BY <1>1
  <2> QED
    BY <1>3, <2>1, MessageType, Messages
<1>4. ASSUME NEW i \in 1..revealed[n], m = RevealMessage(n, i)
      PROVE  m \in Message /\ m.kind # "Delivered" /\ m # Nothing
  <2>1. i \in 1..Reveals[n]
    BY <1>1
  <2> QED
    BY <1>4, <2>1, MessageType, Messages
<1>5. ASSUME NEW i \in 1..accepted[n], m = ProcessedMessage(Partner(n), i)
      PROVE  m \in Message /\ m.kind # "Delivered" /\ m # Nothing
  <2>1. i \in 1..Transfers[Partner(n)]
    BY <1>2
  <2> QED
    BY <1>2, <1>5, <2>1, MessageType, Messages
<1> QED
  BY <1>3, <1>4, <1>5 DEF Original

(* What an original tells by its kind.                                     *)
LEMMA OriginalKinds ==
  ASSUME NEW n \in Nodes, NEW m, Original(n, m)
  PROVE  /\ m.kind = "Transfer" => \E i \in 1..nonce[n] : m = TransferMessage(n, i)
         /\ m.kind = "Reveal" => \E i \in 1..revealed[n] : m = RevealMessage(n, i)
         /\ m.kind = "Processed" => \E i \in 1..accepted[n] : m = ProcessedMessage(Partner(n), i)
         /\ m.kind \in {"Transfer", "Reveal", "Processed"}
BY Messages DEF Original

LEMMA AckKinds ==
  ASSUME NEW n \in Nodes, NEW m, Ack(n, m)
  PROVE  /\ m.kind = "Delivered"
         /\ \A i : m = DeliveredMessage(TransferId(n, i)) => i \in 1..accepted[Partner(n)]
<1>1. Partner(n) # n
  BY PartnerType
<1> QED
  BY <1>1, Messages, Identifiers DEF Ack

LEMMA Numbers ==
  ASSUME TypeOK, CountersInv, NEW n \in Nodes
  PROVE  /\ nonce[n] \in Nat /\ accepted[n] \in Nat /\ revealed[n] \in Nat
         /\ Transfers[n] \in Nat /\ Reveals[n] \in Nat
         /\ nonce[n] <= Transfers[n] /\ revealed[n] <= Reveals[n]
         /\ accepted[n] <= nonce[Partner(n)] /\ accepted[Partner(n)] <= nonce[n]
<1>1. Partner(n) \in Nodes /\ Partner(Partner(n)) = n
  BY PartnerType
<1>2. nonce[n] \in Nat /\ accepted[n] \in Nat /\ revealed[n] \in Nat
  BY DEF CountersInv
<1>3. Transfers[n] \in Nat /\ Reveals[n] \in Nat
  BY QueueAssumption DEF Nodes
<1>4. accepted[n] \in 0..nonce[Partner(n)] /\ accepted[Partner(n)] \in 0..nonce[n]
  BY <1>1 DEF TypeOK
<1>5. nonce[n] \in 0..Transfers[n] /\ revealed[n] \in 0..Reveals[n]
  BY DEF TypeOK
<1>6. nonce[Partner(n)] \in Nat /\ accepted[Partner(n)] \in Nat
  BY <1>1 DEF CountersInv
<1> QED
  BY <1>2, <1>3, <1>4, <1>5, <1>6

(* What was sent stays sent.                                               *)
LEMMA SourceMonotone ==
  ASSUME CountersInv, CountersInv', CountersGrow
  PROVE  \A k \in Nodes : \A m :
           (Original(k, m) => Original(k, m)') /\ (Ack(k, m) => Ack(k, m)')
<1> SUFFICES ASSUME NEW k \in Nodes, NEW m
             PROVE  (Original(k, m) => Original(k, m)') /\ (Ack(k, m) => Ack(k, m)')
  OBVIOUS
<1>1. Partner(k) \in Nodes
  BY PartnerType
<1>2. \A p \in Nodes :
        /\ nonce[p] \in Nat /\ accepted[p] \in Nat /\ revealed[p] \in Nat
        /\ nonce'[p] \in Nat /\ accepted'[p] \in Nat /\ revealed'[p] \in Nat
  BY DEF CountersInv
<1>3. \A p \in Nodes : /\ 1..nonce[p] \subseteq 1..nonce'[p]
                       /\ 1..accepted[p] \subseteq 1..accepted'[p]
                       /\ 1..revealed[p] \subseteq 1..revealed'[p]
  BY <1>2 DEF CountersGrow
<1>4. Original(k, m) => Original(k, m)'
  BY <1>3 DEF Original
<1>5. Ack(k, m) => Ack(k, m)'
  BY <1>1, <1>3 DEF Ack
<1> QED
  BY <1>4, <1>5

(* What the event of one message does to the queues and the greenlets.     *)
LEMMA Emit ==
  ASSUME TypeOK, NEW n \in Nodes, NEW m \in Message, m.kind # "Delivered",
         HandleEvents(n, {m})
  PROVE  /\ queues' \in [Nodes -> [QueueIds -> SUBSET Message]]
         /\ \A k \in Nodes, qid \in QueueIds : \A x \in queues'[k][qid] :
              x.kind # "Delivered" /\ queue_identifier(x) = qid
         /\ greenlets' \in [Nodes -> SUBSET Message]
         /\ stranded' \in [Nodes -> SUBSET Message]
         /\ \A k \in Nodes, qid \in QueueIds : \A x :
              x \in queues'[k][qid] <=>
                x \in queues[k][qid] \/ (k = n /\ x = m /\ queue_identifier(m) = qid)
         /\ \A k \in Nodes : \A x \in greenlets'[k] :
              x \in greenlets[k] \/ (k = n /\ x = m)
<1>1. queues \in [Nodes -> [QueueIds -> SUBSET Message]]
  BY DEF TypeOK
<1>2. queues' = [queues EXCEPT ![n] = [qid \in QueueIds |->
                   queues[n][qid] \cup {x \in {m} : queue_identifier(x) = qid}]]
  BY DEF HandleEvents
<1>3. \A k \in Nodes, qid \in QueueIds : \A x :
        x \in queues'[k][qid] <=>
          x \in queues[k][qid] \/ (k = n /\ x = m /\ queue_identifier(m) = qid)
  <2>1. \A k \in Nodes : k # n => queues'[k] = queues[k]
    BY <1>1, <1>2
  <2>2. queues'[n] = [qid \in QueueIds |->
                        queues[n][qid] \cup {x \in {m} : queue_identifier(x) = qid}]
    BY <1>1, <1>2
  <2>3. \A qid \in QueueIds : \A x :
          x \in queues'[n][qid] <=>
            x \in queues[n][qid] \/ (x = m /\ queue_identifier(m) = qid)
    BY <2>2
  <2> QED
    BY <2>1, <2>3
<1>4. queues' \in [Nodes -> [QueueIds -> SUBSET Message]]
  <2>1. [qid \in QueueIds |-> queues[n][qid] \cup {x \in {m} : queue_identifier(x) = qid}]
          \in [QueueIds -> SUBSET Message]
    BY <1>1
  <2> QED
    BY <1>1, <1>2, <2>1
<1>5. \A k \in Nodes, qid \in QueueIds : \A x \in queues'[k][qid] :
        x.kind # "Delivered" /\ queue_identifier(x) = qid
  BY <1>3 DEF TypeOK
<1>6. /\ greenlets' = greenlets \/ greenlets' = [greenlets EXCEPT ![n] = @ \cup {m}]
      /\ stranded' = stranded \/ stranded' = [stranded EXCEPT ![n] = @ \cup {m}]
  BY DEF HandleEvents
<1>7. greenlets \in [Nodes -> SUBSET Message] /\ stranded \in [Nodes -> SUBSET Message]
  BY DEF TypeOK
<1>8. greenlets' \in [Nodes -> SUBSET Message] /\ stranded' \in [Nodes -> SUBSET Message]
  BY <1>6, <1>7
<1>9. \A k \in Nodes : \A x \in greenlets'[k] : x \in greenlets[k] \/ (k = n /\ x = m)
  BY <1>6, <1>7
<1> QED
  BY <1>3, <1>4, <1>5, <1>8, <1>9

-----------------------------------------------------------------------------
(* The initial state.                                                      *)

LEMMA InitIInv == Init => IInv
<1> SUFFICES ASSUME Init
             PROVE  IInv
  OBVIOUS
<1>1. \A n \in Nodes : /\ Partner(n) \in Nodes
                       /\ nonce[n] = 0 /\ accepted[n] = 0 /\ revealed[n] = 0
                       /\ learned[n] = {} /\ greenlets[n] = {} /\ retrier[n] = {}
                       /\ handling[n] = Nothing /\ net[n] = {} /\ stranded[n] = {}
                       /\ \A qid \in QueueIds : queues[n][qid] = {}
  BY PartnerType DEF Init
<1>2. CountersInv
  BY DEF Init, CountersInv
<1>3. TypeOK
  <2>1. queues \in [Nodes -> [QueueIds -> SUBSET Message]]
    BY DEF Init
  <2>2. /\ learned \in [Nodes -> SUBSET RevealIds]
        /\ closed \in [Nodes -> BOOLEAN]
        /\ phase \in [Nodes -> {"down", "starting", "running"}]
        /\ greenlets \in [Nodes -> SUBSET Message]
        /\ retrier \in [Nodes -> SUBSET Message]
        /\ handling \in [Nodes -> Message \cup {Nothing}]
        /\ net \in [Nodes -> SUBSET Message]
        /\ cutoff \subseteq Message
        /\ stranded \in [Nodes -> SUBSET Message]
    BY DEF Init
  <2>3. crashes \in 0..MaxCrashes
    BY QueueAssumption DEF Init
  <2>4. \A n \in Nodes : Transfers[n] \in Nat /\ Reveals[n] \in Nat
    BY QueueAssumption DEF Nodes
  <2>5. \A n \in Nodes : /\ nonce[n] \in 0..Transfers[n]
                         /\ accepted[n] \in 0..nonce[Partner(n)]
                         /\ revealed[n] \in 0..Reveals[n]
    BY <1>1, <2>4
  <2> QED
    BY <1>1, <2>1, <2>2, <2>3, <2>5 DEF TypeOK
<1>4. SourceInv /\ DeliveredInv
  BY <1>1 DEF SourceInv, DeliveredInv
<1>5. UnacceptedStaysQueued
  BY <1>1 DEF UnacceptedStaysQueued
<1>6. GlobalLostOnlyByCutoff
  BY <1>1 DEF GlobalLostOnlyByCutoff
<1> QED
  BY <1>2, <1>3, <1>4, <1>5, <1>6 DEF IInv

-----------------------------------------------------------------------------
(* The parts of the invariant, from what a step does.                      *)

LEMMA SourceStep ==
  ASSUME SourceInv, CountersInv, CountersInv', CountersGrow,
         \A k \in Nodes, qid \in QueueIds : \A x \in queues'[k][qid] :
           x \in queues[k][qid] \/ Original(k, x)',
         \A k \in Nodes : \A x \in greenlets'[k] : x \in greenlets[k] \/ Original(k, x)',
         \A k \in Nodes : \A x \in retrier'[k] :
           x \in retrier[k] \/ Original(k, x)' \/ Ack(k, x)',
         \A k \in Nodes : \A x \in net'[k] : x \in net[k] \cup retrier[Partner(k)],
         \A k \in Nodes : handling'[k] \in {Nothing, handling[k]} \/ Original(Partner(k), handling[k])'
  PROVE  SourceInv'
<1> SUFFICES ASSUME NEW k \in Nodes
             PROVE  /\ \A qid \in QueueIds : \A m \in queues'[k][qid] : Original(k, m)'
                    /\ \A m \in greenlets'[k] : Original(k, m)'
                    /\ \A m \in retrier'[k] \cup net'[Partner(k)] : Original(k, m)' \/ Ack(k, m)'
                    /\ handling'[Partner(k)] = Nothing \/ Original(k, handling[Partner(k)])'
  BY DEF SourceInv
<1>1. Partner(k) \in Nodes /\ Partner(Partner(k)) = k
  BY PartnerType
<1>2. \A m : (Original(k, m) => Original(k, m)') /\ (Ack(k, m) => Ack(k, m)')
  BY SourceMonotone
<1>3. /\ \A qid \in QueueIds : \A m \in queues[k][qid] : Original(k, m)
      /\ \A m \in greenlets[k] : Original(k, m)
      /\ \A m \in retrier[k] \cup net[Partner(k)] : Original(k, m) \/ Ack(k, m)
      /\ handling[Partner(k)] = Nothing \/ Original(k, handling[Partner(k)])
  BY DEF SourceInv
<1>4. \A qid \in QueueIds : \A m \in queues'[k][qid] : Original(k, m)'
  BY <1>2, <1>3
<1>5. \A m \in greenlets'[k] : Original(k, m)'
  BY <1>2, <1>3
<1>6. \A m \in retrier'[k] : Original(k, m)' \/ Ack(k, m)'
  BY <1>2, <1>3
<1>7. \A m \in net'[Partner(k)] : Original(k, m)' \/ Ack(k, m)'
  <2>1. \A m \in net'[Partner(k)] : m \in net[Partner(k)] \cup retrier[k]
    BY <1>1
  <2> QED
    BY <1>2, <1>3, <2>1
<1>8. handling'[Partner(k)] = Nothing \/ Original(k, handling[Partner(k)])'
  <2>1. \/ handling'[Partner(k)] = Nothing
        \/ handling'[Partner(k)] = handling[Partner(k)]
        \/ Original(k, handling[Partner(k)])'
    BY <1>1
  <2>2. CASE handling'[Partner(k)] = handling[Partner(k)]
    <3>1. PICK h : h = handling[Partner(k)] /\ h = handling'[Partner(k)]
      BY <2>2
    <3>2. h = Nothing \/ Original(k, h)
      BY <1>3, <3>1
    <3>3. h = Nothing \/ Original(k, h)'
      BY <1>2, <3>2
    <3> QED
      BY <3>1, <3>3 DEF Original
  <2> QED
    BY <2>1, <2>2
<1> QED
  BY <1>4, <1>5, <1>6, <1>7, <1>8

LEMMA DeliveredStep ==
  ASSUME DeliveredInv, SourceInv, HistoryGrows, HandlingTakenUp, NoTransferReturns,
         \A k \in Nodes : \A x \in retrier'[k] \cup net'[Partner(k)] :
           x.kind = "Delivered" =>
             \/ x \in retrier[k] \cup net[Partner(k)]
             \/ /\ \A i : x = DeliveredMessage(RevealId(Partner(k), i)) =>
                            handling'[k] = RevealMessage(Partner(k), i)
                /\ \A i : x = DeliveredMessage(TransferId(k, i)) =>
                            handling'[k] = ProcessedMessage(k, i)
  PROVE  DeliveredInv'
<1> SUFFICES ASSUME NEW k \in Nodes, NEW i \in Nat
             PROVE  /\ DeliveredMessage(RevealId(Partner(k), i)) \in retrier'[k] \cup net'[Partner(k)] =>
                         \/ RevealId(Partner(k), i) \in learned'[k]
                         \/ RevealMessage(Partner(k), i) \in {handling'[k]} \cup cutoff'
                    /\ DeliveredMessage(TransferId(k, i)) \in retrier'[k] \cup net'[Partner(k)] =>
                         \/ TransferMessage(k, i) \notin queues'[k]["channel"]
                         \/ ProcessedMessage(k, i) \in {handling'[k]} \cup cutoff'
  BY DEF DeliveredInv
<1>1. ASSUME DeliveredMessage(RevealId(Partner(k), i)) \in retrier'[k] \cup net'[Partner(k)]
      PROVE  \/ RevealId(Partner(k), i) \in learned'[k]
             \/ RevealMessage(Partner(k), i) \in {handling'[k]} \cup cutoff'
  <2>1. \/ DeliveredMessage(RevealId(Partner(k), i)) \in retrier[k] \cup net[Partner(k)]
        \/ handling'[k] = RevealMessage(Partner(k), i)
    BY <1>1, Messages
  <2>2. \/ RevealId(Partner(k), i) \in learned[k]
        \/ RevealMessage(Partner(k), i) \in {handling[k]} \cup cutoff
        \/ handling'[k] = RevealMessage(Partner(k), i)
    BY <2>1 DEF DeliveredInv
  <2>3. CASE RevealMessage(Partner(k), i) = handling[k]
    <3>1. /\ handling[k] # Nothing /\ handling[k].kind = "Reveal"
          /\ handling[k].id = RevealId(Partner(k), i)
      BY <2>3, Messages
    <3> QED
      BY <2>3, <3>1 DEF HandlingTakenUp
  <2> QED
    BY <2>2, <2>3 DEF HistoryGrows
<1>2. ASSUME DeliveredMessage(TransferId(k, i)) \in retrier'[k] \cup net'[Partner(k)],
             TransferMessage(k, i) \in queues'[k]["channel"],
             handling'[k] # ProcessedMessage(k, i)
      PROVE  ProcessedMessage(k, i) \in {handling'[k]} \cup cutoff'
  <2>1. DeliveredMessage(TransferId(k, i)) \in retrier[k] \cup net[Partner(k)]
    BY <1>2, Messages
  <2>2. i \in 1..accepted[Partner(k)]
    <3>1. \/ Original(k, DeliveredMessage(TransferId(k, i)))
          \/ Ack(k, DeliveredMessage(TransferId(k, i)))
      BY <2>1 DEF SourceInv
    <3>2. ~Original(k, DeliveredMessage(TransferId(k, i)))
      BY OriginalKinds, Messages
    <3> QED
      BY <3>1, <3>2, AckKinds
  <2>3. TransferMessage(k, i) \in queues[k]["channel"]
    BY <1>2, <2>2 DEF NoTransferReturns
  <2>4. ProcessedMessage(k, i) \in {handling[k]} \cup cutoff
    BY <2>1, <2>3 DEF DeliveredInv
  <2>5. CASE ProcessedMessage(k, i) = handling[k]
    <3>1. /\ handling[k] # Nothing /\ handling[k].kind = "Processed"
          /\ handling[k].id = TransferId(k, i) /\ TransferMessage(k, i).id = TransferId(k, i)
      BY <2>5, Messages
    <3> QED
      BY <1>2, <2>5, <3>1 DEF HandlingTakenUp
  <2> QED
    BY <2>4, <2>5 DEF HistoryGrows
<1> QED
  BY <1>1, <1>2

LEMMA UnacceptedStep ==
  ASSUME TypeOK, CountersInv, CountersInv', UnacceptedStaysQueued, CountersGrow,
         \A k \in Nodes : closed[k] => closed'[k],
         \A k \in Nodes : ~closed'[k] =>
           \/ nonce'[k] = nonce[k]
           \/ /\ nonce'[k] = nonce[k] + 1
              /\ TransferMessage(k, nonce[k] + 1) \in queues'[k]["channel"],
         \A k \in Nodes : ~closed'[k] => \A i \in Nat \ (0..accepted'[Partner(k)]) :
           TransferMessage(k, i) \in queues[k]["channel"] =>
             TransferMessage(k, i) \in queues'[k]["channel"]
  PROVE  UnacceptedStaysQueued'
<1> SUFFICES ASSUME NEW k \in Nodes, ~closed'[k],
                    NEW i \in (accepted'[Partner(k)] + 1)..nonce'[k]
             PROVE  TransferMessage(k, i) \in queues'[k]["channel"]
  BY DEF UnacceptedStaysQueued, TransferMessage
<1>1. Partner(k) \in Nodes
  BY PartnerType
<1>2. /\ nonce[k] \in Nat /\ nonce'[k] \in Nat /\ accepted[Partner(k)] \in Nat
      /\ accepted'[Partner(k)] \in Nat /\ accepted[Partner(k)] <= accepted'[Partner(k)]
  BY <1>1 DEF CountersInv, CountersGrow
<1>3. i \in Nat \ (0..accepted'[Partner(k)])
  BY <1>2
<1>4. CASE i <= nonce[k]
  <2>1. i \in (accepted[Partner(k)] + 1)..nonce[k]
    BY <1>2, <1>4
  <2>2. TransferMessage(k, i) \in queues[k]["channel"]
    BY <2>1 DEF UnacceptedStaysQueued, TransferMessage
  <2> QED
    BY <1>3, <2>2
<1>5. CASE i > nonce[k]
  BY <1>2, <1>5
<1> QED
  BY <1>2, <1>4, <1>5

LEMMA GlobalStep ==
  ASSUME TypeOK, CountersInv, CountersInv', GlobalLostOnlyByCutoff,
         HistoryGrows, HandlingTakenUp, NoTransferReturns,
         \A k \in Nodes :
           \/ revealed'[k] = revealed[k]
           \/ /\ revealed'[k] = revealed[k] + 1
              /\ RevealMessage(k, revealed[k] + 1) \in queues'[k]["global"],
         \A k \in Nodes :
           \/ accepted'[k] = accepted[k]
           \/ /\ accepted'[k] = accepted[k] + 1
              /\ ProcessedMessage(Partner(k), accepted[k] + 1) \in queues'[k]["global"],
         \A k \in Nodes : \A i \in 1..revealed[k] :
           RevealMessage(k, i) \in queues[k]["global"] =>
             \/ RevealMessage(k, i) \in queues'[k]["global"] \cup {handling'[Partner(k)]} \cup cutoff'
             \/ RevealId(k, i) \in learned'[Partner(k)],
         \A k \in Nodes : \A i \in 1..accepted[k] :
           ProcessedMessage(Partner(k), i) \in queues[k]["global"] =>
             \/ ProcessedMessage(Partner(k), i)
                  \in queues'[k]["global"] \cup {handling'[Partner(k)]} \cup cutoff'
             \/ TransferMessage(Partner(k), i) \notin queues'[Partner(k)]["channel"]
  PROVE  GlobalLostOnlyByCutoff'
<1> SUFFICES ASSUME NEW k \in Nodes
             PROVE  /\ \A i \in 1..revealed'[k] :
                         \/ RevealId(k, i) \in learned'[Partner(k)]
                         \/ RevealMessage(k, i)
                              \in queues'[k]["global"] \cup {handling'[Partner(k)]} \cup cutoff'
                    /\ \A i \in 1..accepted'[k] :
                         \/ TransferMessage(Partner(k), i) \notin queues'[Partner(k)]["channel"]
                         \/ ProcessedMessage(Partner(k), i)
                              \in queues'[k]["global"] \cup {handling'[Partner(k)]} \cup cutoff'
  BY DEF GlobalLostOnlyByCutoff, RevealMessage, TransferMessage, ProcessedMessage
<1> DEFINE p == Partner(k)
<1>1. p \in Nodes /\ Partner(p) = k
  BY PartnerType
<1>2. revealed[k] \in Nat /\ revealed'[k] \in Nat /\ accepted[k] \in Nat /\ accepted'[k] \in Nat
  BY DEF CountersInv
<1>3. /\ \A i \in 1..revealed[k] :
           \/ RevealId(k, i) \in learned[p]
           \/ RevealMessage(k, i) \in queues[k]["global"] \cup {handling[p]} \cup cutoff
      /\ \A i \in 1..accepted[k] :
           \/ TransferMessage(p, i) \notin queues[p]["channel"]
           \/ ProcessedMessage(p, i) \in queues[k]["global"] \cup {handling[p]} \cup cutoff
  BY DEF GlobalLostOnlyByCutoff, RevealMessage, TransferMessage, ProcessedMessage
<1>4. ASSUME NEW i \in 1..revealed'[k]
      PROVE  \/ RevealId(k, i) \in learned'[p]
             \/ RevealMessage(k, i) \in queues'[k]["global"] \cup {handling'[p]} \cup cutoff'
  <2>1. CASE i \notin 1..revealed[k]
    <3>1. i = revealed[k] + 1 /\ revealed'[k] = revealed[k] + 1
      BY <1>2, <2>1
    <3> QED
      BY <1>2, <3>1
  <2>2. CASE i \in 1..revealed[k] /\ RevealMessage(k, i) = handling[p]
    <3>1. /\ handling[p] # Nothing /\ handling[p].kind = "Reveal"
          /\ handling[p].id = RevealId(k, i)
      BY <2>2, Messages
    <3> QED
      BY <1>1, <2>2, <3>1 DEF HandlingTakenUp
  <2>3. CASE i \in 1..revealed[k] /\ RevealMessage(k, i) \in queues[k]["global"]
    BY <2>3
  <2>4. CASE i \in 1..revealed[k] /\ (RevealId(k, i) \in learned[p] \/ RevealMessage(k, i) \in cutoff)
    BY <1>1, <2>4 DEF HistoryGrows
  <2> QED
    BY <1>3, <2>1, <2>2, <2>3, <2>4
<1>5. ASSUME NEW i \in 1..accepted'[k]
      PROVE  \/ TransferMessage(p, i) \notin queues'[p]["channel"]
             \/ ProcessedMessage(p, i) \in queues'[k]["global"] \cup {handling'[p]} \cup cutoff'
  <2>1. CASE i \notin 1..accepted[k]
    <3>1. i = accepted[k] + 1 /\ accepted'[k] = accepted[k] + 1
      BY <1>2, <2>1
    <3> QED
      BY <1>2, <3>1
  <2>2. CASE i \in 1..accepted[k] /\ ProcessedMessage(p, i) = handling[p]
    <3>1. /\ handling[p] # Nothing /\ handling[p].kind = "Processed"
          /\ handling[p].id = TransferId(p, i) /\ TransferMessage(p, i).id = TransferId(p, i)
      BY <2>2, Messages
    <3> QED
      BY <1>1, <2>2, <3>1 DEF HandlingTakenUp
  <2>3. CASE i \in 1..accepted[k] /\ ProcessedMessage(p, i) \in queues[k]["global"]
    BY <2>3
  <2>4. CASE i \in 1..accepted[k] /\ ProcessedMessage(p, i) \in cutoff
    BY <2>4 DEF HistoryGrows
  <2>5. CASE i \in 1..accepted[k] /\ TransferMessage(p, i) \notin queues[p]["channel"]
    <3>1. i \in 1..accepted[Partner(p)]
      BY <1>1, <2>5
    <3> QED
      BY <1>1, <2>5, <3>1 DEF NoTransferReturns
  <2> QED
    BY <1>3, <2>1, <2>2, <2>3, <2>4, <2>5
<1> QED
  BY <1>4, <1>5

-----------------------------------------------------------------------------
(* The steps, one lemma per action.                                        *)

(* Starting, and stuttering.                                               *)
LEMMA PhaseStep ==
  ASSUME IInv, UNCHANGED <<chainState, memory, net, history>>,
         phase' \in [Nodes -> {"down", "starting", "running"}]
  PROVE  IInv'
<1>1. /\ queues' = queues /\ nonce' = nonce /\ accepted' = accepted
      /\ revealed' = revealed /\ learned' = learned /\ closed' = closed
      /\ greenlets' = greenlets /\ retrier' = retrier /\ handling' = handling
      /\ net' = net /\ crashes' = crashes /\ cutoff' = cutoff /\ stranded' = stranded
  BY DEF chainState, memory, history
<1>2. TypeOK'
  BY <1>1 DEF IInv, TypeOK
<1>3. CountersInv'
  BY <1>1 DEF IInv, CountersInv
<1>4. SourceInv'
  BY <1>1 DEF IInv, SourceInv, Original, Ack
<1>5. DeliveredInv'
  BY <1>1 DEF IInv, DeliveredInv
<1>6. UnacceptedStaysQueued' /\ GlobalLostOnlyByCutoff'
  BY <1>1 DEF IInv, UnacceptedStaysQueued, GlobalLostOnlyByCutoff
<1> QED
  BY <1>2, <1>3, <1>4, <1>5, <1>6 DEF IInv

LEMMA SendTransferStep ==
  ASSUME IInv, NEW n \in Nodes, SendTransfer(n)
  PROVE  IInv'
<1> DEFINE m == TransferMessage(n, nonce[n] + 1)
<1>1. TypeOK /\ CountersInv /\ SourceInv
  BY DEF IInv
<1>2. /\ nonce[n] \in Nat /\ nonce[n] < Transfers[n] /\ Transfers[n] \in Nat
      /\ accepted[Partner(n)] \in Nat /\ accepted[Partner(n)] <= nonce[n]
  BY <1>1, Numbers, PartnerType DEF SendTransfer
<1>3. m \in Message /\ m.kind = "Transfer" /\ queue_identifier(m) = "channel"
  <2>1. nonce[n] + 1 \in 1..Transfers[n]
    BY <1>2
  <2> QED
    BY <2>1, MessageType, Messages DEF queue_identifier
<1>4. HandleEvents(n, {m})
  BY DEF SendTransfer, TransferMessage
<1>5. /\ nonce' = [nonce EXCEPT ![n] = nonce[n] + 1]
      /\ accepted' = accepted /\ revealed' = revealed /\ learned' = learned
      /\ closed' = closed /\ retrier' = retrier /\ handling' = handling /\ phase' = phase
      /\ net' = net /\ crashes' = crashes /\ cutoff' = cutoff
  BY DEF SendTransfer
<1>6. /\ \A k \in Nodes, qid \in QueueIds : \A x :
           x \in queues'[k][qid] <=> x \in queues[k][qid] \/ (k = n /\ x = m /\ qid = "channel")
      /\ \A k \in Nodes : \A x \in greenlets'[k] : x \in greenlets[k] \/ (k = n /\ x = m)
  BY <1>1, <1>3, <1>4, Emit
<1>7. nonce' \in [Nodes -> Nat] /\ nonce'[n] = nonce[n] + 1
      /\ \A k \in Nodes : k # n => nonce'[k] = nonce[k]
  BY <1>1, <1>2, <1>5 DEF CountersInv
<1>8. CountersInv' /\ CountersGrow
  <2>1. CountersInv'
    BY <1>1, <1>5, <1>7 DEF CountersInv
  <2>2. \A k \in Nodes : nonce[k] \in Nat /\ accepted[k] \in Nat /\ revealed[k] \in Nat
    BY <1>1 DEF CountersInv
  <2> QED
    BY <1>5, <1>7, <2>1, <2>2 DEF CountersGrow
<1>9. TypeOK'
  <2>1. /\ queues' \in [Nodes -> [QueueIds -> SUBSET Message]]
        /\ \A k \in Nodes, qid \in QueueIds : \A x \in queues'[k][qid] :
             x.kind # "Delivered" /\ queue_identifier(x) = qid
        /\ greenlets' \in [Nodes -> SUBSET Message] /\ stranded' \in [Nodes -> SUBSET Message]
    BY <1>1, <1>3, <1>4, Emit
  <2>2. \A k \in Nodes : nonce'[k] \in 0..Transfers[k]
    BY <1>1, <1>2, <1>7, SMTT(30) DEF TypeOK
  <2>3. \A k \in Nodes : accepted'[k] \in 0..nonce'[Partner(k)]
    <3> SUFFICES ASSUME NEW k \in Nodes
                 PROVE  accepted[k] \in 0..nonce'[Partner(k)]
      BY <1>5
    <3>1. /\ accepted[k] \in Nat /\ nonce[Partner(k)] \in Nat /\ nonce'[Partner(k)] \in Nat
          /\ accepted[k] <= nonce[Partner(k)] /\ nonce[Partner(k)] <= nonce'[Partner(k)]
      BY <1>1, <1>8, Numbers, PartnerType DEF CountersInv, CountersGrow
    <3> QED
      BY <3>1
  <2> QED
    BY <1>1, <1>5, <2>1, <2>2, <2>3 DEF TypeOK
<1>10. SourceInv'
  <2>1. ASSUME NEW x, x = m
        PROVE  Original(n, x)'
    <3>1. nonce[n] + 1 \in 1..nonce'[n]
      BY <1>2, <1>7
    <3> QED
      BY <2>1, <3>1 DEF Original
  <2>2. /\ \A k \in Nodes, qid \in QueueIds : \A x \in queues'[k][qid] :
             x \in queues[k][qid] \/ Original(k, x)'
        /\ \A k \in Nodes : \A x \in greenlets'[k] : x \in greenlets[k] \/ Original(k, x)'
    BY <1>6, <2>1
  <2> QED
    BY <1>1, <1>5, <1>8, <2>2, SourceStep
<1>11. HistoryGrows /\ HandlingTakenUp
  BY <1>5 DEF HistoryGrows, HandlingTakenUp
<1>12. NoTransferReturns
  <2> SUFFICES ASSUME NEW k \in Nodes, NEW i \in 1..accepted[Partner(k)],
                      TransferMessage(k, i) \in queues'[k]["channel"]
               PROVE  TransferMessage(k, i) \in queues[k]["channel"]
    BY DEF NoTransferReturns
  <2>1. k = n => TransferMessage(k, i) # m
    <3>1. k = n => i # nonce[n] + 1
      BY <1>2
    <3> QED
      BY <3>1, Messages, Identifiers
  <2> QED
    BY <1>6, <2>1 DEF QueueIds
<1>13. DeliveredInv'
  BY <1>1, <1>5, <1>11, <1>12, DeliveredStep DEF IInv
<1>14. UnacceptedStaysQueued'
  <2>1. /\ TransferMessage(n, nonce[n] + 1) \in queues'[n]["channel"]
        /\ \A k \in Nodes : \A x \in queues[k]["channel"] : x \in queues'[k]["channel"]
    BY <1>6 DEF QueueIds
  <2> QED
    BY <1>1, <1>5, <1>7, <1>8, <2>1, UnacceptedStep DEF IInv
<1>15. GlobalLostOnlyByCutoff'
  <2>1. \A k \in Nodes : \A x \in queues[k]["global"] : x \in queues'[k]["global"]
    BY <1>6 DEF QueueIds
  <2> QED
    BY <1>1, <1>5, <1>8, <1>11, <1>12, <2>1, GlobalStep DEF IInv
<1> QED
  BY <1>8, <1>9, <1>10, <1>13, <1>14, <1>15 DEF IInv

LEMMA SendRevealStep ==
  ASSUME IInv, NEW n \in Nodes, SendReveal(n)
  PROVE  IInv'
<1> DEFINE m == RevealMessage(n, revealed[n] + 1)
<1>1. TypeOK /\ CountersInv /\ SourceInv
  BY DEF IInv
<1>2. revealed[n] \in Nat /\ revealed[n] < Reveals[n] /\ Reveals[n] \in Nat
  BY <1>1, Numbers DEF SendReveal
<1>3. m \in Message /\ m.kind = "Reveal" /\ queue_identifier(m) = "global"
  <2>1. revealed[n] + 1 \in 1..Reveals[n]
    BY <1>2
  <2> QED
    BY <2>1, MessageType, Messages DEF queue_identifier
<1>4. HandleEvents(n, {m})
  BY DEF SendReveal, RevealMessage
<1>5. /\ revealed' = [revealed EXCEPT ![n] = revealed[n] + 1]
      /\ accepted' = accepted /\ nonce' = nonce /\ learned' = learned
      /\ closed' = closed /\ retrier' = retrier /\ handling' = handling /\ phase' = phase
      /\ net' = net /\ crashes' = crashes /\ cutoff' = cutoff
  BY DEF SendReveal
<1>6. /\ \A k \in Nodes, qid \in QueueIds : \A x :
           x \in queues'[k][qid] <=> x \in queues[k][qid] \/ (k = n /\ x = m /\ qid = "global")
      /\ \A k \in Nodes : \A x \in greenlets'[k] : x \in greenlets[k] \/ (k = n /\ x = m)
  BY <1>1, <1>3, <1>4, Emit
<1>7. /\ revealed' \in [Nodes -> Nat] /\ revealed'[n] = revealed[n] + 1
      /\ \A k \in Nodes : k # n => revealed'[k] = revealed[k]
  BY <1>1, <1>2, <1>5 DEF CountersInv
<1>8. CountersInv' /\ CountersGrow
  <2>1. CountersInv'
    BY <1>1, <1>5, <1>7 DEF CountersInv
  <2>2. \A k \in Nodes : nonce[k] \in Nat /\ accepted[k] \in Nat /\ revealed[k] \in Nat
    BY <1>1 DEF CountersInv
  <2> QED
    BY <1>5, <1>7, <2>1, <2>2 DEF CountersGrow
<1>9. TypeOK'
  <2>1. /\ queues' \in [Nodes -> [QueueIds -> SUBSET Message]]
        /\ \A k \in Nodes, qid \in QueueIds : \A x \in queues'[k][qid] :
             x.kind # "Delivered" /\ queue_identifier(x) = qid
        /\ greenlets' \in [Nodes -> SUBSET Message] /\ stranded' \in [Nodes -> SUBSET Message]
    BY <1>1, <1>3, <1>4, Emit
  <2>2. \A k \in Nodes : revealed'[k] \in 0..Reveals[k]
    BY <1>1, <1>2, <1>7 DEF TypeOK
  <2> QED
    BY <1>1, <1>5, <2>1, <2>2 DEF TypeOK
<1>10. SourceInv'
  <2>1. ASSUME NEW x, x = m
        PROVE  Original(n, x)'
    <3>1. revealed[n] + 1 \in 1..revealed'[n]
      BY <1>2, <1>7
    <3> QED
      BY <2>1, <3>1 DEF Original
  <2>2. /\ \A k \in Nodes, qid \in QueueIds : \A x \in queues'[k][qid] :
             x \in queues[k][qid] \/ Original(k, x)'
        /\ \A k \in Nodes : \A x \in greenlets'[k] : x \in greenlets[k] \/ Original(k, x)'
    BY <1>6, <2>1
  <2> QED
    BY <1>1, <1>5, <1>8, <2>2, SourceStep
<1>11. HistoryGrows /\ HandlingTakenUp
  BY <1>5 DEF HistoryGrows, HandlingTakenUp
<1>12. \A k \in Nodes : \A x : x \in queues'[k]["channel"] <=> x \in queues[k]["channel"]
  BY <1>6 DEF QueueIds
<1>13. NoTransferReturns
  BY <1>12 DEF NoTransferReturns
<1>14. DeliveredInv'
  BY <1>1, <1>5, <1>11, <1>13, DeliveredStep DEF IInv
<1>15. UnacceptedStaysQueued'
  BY <1>1, <1>5, <1>8, <1>12, UnacceptedStep DEF IInv
<1>16. GlobalLostOnlyByCutoff'
  <2>1. /\ RevealMessage(n, revealed[n] + 1) \in queues'[n]["global"]
        /\ \A k \in Nodes : \A x \in queues[k]["global"] : x \in queues'[k]["global"]
    BY <1>6 DEF QueueIds
  <2> QED
    BY <1>1, <1>5, <1>7, <1>8, <1>11, <1>13, <2>1, GlobalStep DEF IInv
<1> QED
  BY <1>8, <1>9, <1>10, <1>14, <1>15, <1>16 DEF IInv

LEMMA ChannelClosedStep ==
  ASSUME IInv, NEW n \in Nodes, ChannelClosed(n)
  PROVE  IInv'
<1>1. TypeOK /\ CountersInv /\ SourceInv
  BY DEF IInv
<1>2. /\ closed' = [closed EXCEPT ![n] = TRUE]
      /\ queues' = [queues EXCEPT ![n] = [queues[n] EXCEPT !["channel"] = {}]]
      /\ nonce' = nonce /\ accepted' = accepted /\ revealed' = revealed /\ learned' = learned
      /\ greenlets' = greenlets /\ retrier' = retrier /\ handling' = handling
      /\ phase' = phase /\ net' = net
      /\ crashes' = crashes /\ cutoff' = cutoff /\ stranded' = stranded
  BY DEF ChannelClosed, memory, history
<1>3. queues \in [Nodes -> [QueueIds -> SUBSET Message]] /\ closed \in [Nodes -> BOOLEAN]
  BY <1>1 DEF TypeOK
<1>4. \A k \in Nodes, qid \in QueueIds : \A x :
        x \in queues'[k][qid] <=> x \in queues[k][qid] /\ ~(k = n /\ qid = "channel")
  BY <1>2, <1>3
<1>5. closed' \in [Nodes -> BOOLEAN] /\ closed'[n] /\ \A k \in Nodes : k # n => closed'[k] = closed[k]
  BY <1>2, <1>3
<1>6. CountersInv' /\ CountersGrow
  <2>1. \A k \in Nodes : nonce[k] \in Nat /\ accepted[k] \in Nat /\ revealed[k] \in Nat
    BY <1>1 DEF CountersInv
  <2> QED
    BY <1>1, <1>2, <2>1 DEF CountersInv, CountersGrow
<1>7. TypeOK'
  <2>1. queues' \in [Nodes -> [QueueIds -> SUBSET Message]]
    BY <1>2, <1>3 DEF QueueIds
  <2>2. \A k \in Nodes, qid \in QueueIds : \A x \in queues'[k][qid] :
          x.kind # "Delivered" /\ queue_identifier(x) = qid
    BY <1>1, <1>4 DEF TypeOK
  <2> QED
    BY <1>1, <1>2, <1>5, <2>1, <2>2 DEF TypeOK
<1>8. SourceInv'
  BY <1>1, <1>2, <1>4, <1>6, SourceStep
<1>9. HistoryGrows /\ HandlingTakenUp /\ NoTransferReturns
  BY <1>2, <1>4 DEF HistoryGrows, HandlingTakenUp, NoTransferReturns, QueueIds
<1>10. DeliveredInv'
  BY <1>1, <1>2, <1>9, DeliveredStep DEF IInv
<1>11. UnacceptedStaysQueued'
  <2>1. \A k \in Nodes : k # n => \A x \in queues[k]["channel"] : x \in queues'[k]["channel"]
    BY <1>4 DEF QueueIds
  <2> QED
    BY <1>1, <1>2, <1>5, <1>6, <2>1, UnacceptedStep DEF IInv
<1>12. GlobalLostOnlyByCutoff'
  <2>1. \A k \in Nodes : \A x \in queues[k]["global"] : x \in queues'[k]["global"]
    BY <1>4 DEF QueueIds
  <2> QED
    BY <1>1, <1>2, <1>6, <1>9, <2>1, GlobalStep DEF IInv
<1> QED
  BY <1>6, <1>7, <1>8, <1>10, <1>11, <1>12 DEF IInv

(* The retry queue and the network: the chain state stays.                 *)
LEMMA SendAsyncStep ==
  ASSUME IInv, NEW n \in Nodes, NEW m, SendAsync(n, m)
  PROVE  IInv'
<1>1. TypeOK /\ CountersInv /\ SourceInv
  BY DEF IInv
<1>2. /\ greenlets' = [greenlets EXCEPT ![n] = @ \ {m}]
      /\ retrier' = [retrier EXCEPT ![n] = @ \cup {m}]
      /\ queues' = queues /\ nonce' = nonce /\ accepted' = accepted
      /\ revealed' = revealed /\ learned' = learned /\ closed' = closed
      /\ handling' = handling /\ phase' = phase /\ net' = net
      /\ crashes' = crashes /\ cutoff' = cutoff /\ stranded' = stranded
  BY DEF SendAsync, Enqueue, chainState, history
<1>3. Original(n, m)
  BY <1>1 DEF SendAsync, SourceInv
<1>4. m \in Message /\ m.kind # "Delivered"
  BY <1>1, <1>3, OriginalType
<1>5. greenlets \in [Nodes -> SUBSET Message] /\ retrier \in [Nodes -> SUBSET Message]
  BY <1>1 DEF TypeOK
<1>6. /\ greenlets' \in [Nodes -> SUBSET Message] /\ retrier' \in [Nodes -> SUBSET Message]
      /\ \A k \in Nodes : \A x \in greenlets'[k] : x \in greenlets[k]
      /\ \A k \in Nodes : \A x \in retrier'[k] : x \in retrier[k] \/ (k = n /\ x = m)
  BY <1>2, <1>4, <1>5
<1>7. TypeOK'
  BY <1>1, <1>2, <1>6 DEF TypeOK
<1>8. CountersInv' /\ CountersGrow
  <2>1. \A k \in Nodes : nonce[k] \in Nat /\ accepted[k] \in Nat /\ revealed[k] \in Nat
    BY <1>1 DEF CountersInv
  <2> QED
    BY <1>1, <1>2, <2>1 DEF CountersInv, CountersGrow
<1>9. SourceInv'
  <2>1. Original(n, m)'
    BY <1>1, <1>3, <1>8, SourceMonotone
  <2> QED
    BY <1>1, <1>2, <1>6, <1>8, <2>1, SourceStep
<1>10. DeliveredInv'
  <2>1. HistoryGrows /\ HandlingTakenUp /\ NoTransferReturns
    BY <1>2 DEF HistoryGrows, HandlingTakenUp, NoTransferReturns
  <2>2. \A k \in Nodes : \A x \in retrier'[k] \cup net'[Partner(k)] :
          x.kind = "Delivered" => x \in retrier[k] \cup net[Partner(k)]
    BY <1>2, <1>4, <1>6
  <2> QED
    BY <1>1, <2>1, <2>2, DeliveredStep DEF IInv
<1>11. UnacceptedStaysQueued' /\ GlobalLostOnlyByCutoff'
  BY <1>2 DEF IInv, UnacceptedStaysQueued, GlobalLostOnlyByCutoff
<1> QED
  BY <1>7, <1>8, <1>9, <1>10, <1>11 DEF IInv

LEMMA CheckAndSendStep ==
  ASSUME IInv, NEW n \in Nodes, NEW arriving, CheckAndSend(n, arriving)
  PROVE  IInv'
<1>1. TypeOK /\ CountersInv /\ SourceInv
  BY DEF IInv
<1>2. /\ net' = [net EXCEPT ![Partner(n)] = @ \cup arriving]
      /\ retrier' = [retrier EXCEPT ![n] =
                       {m \in @ : m.kind # "Delivered" /\ message_is_in_queue(n, m)}]
      /\ arriving \subseteq retrier[n]
      /\ queues' = queues /\ nonce' = nonce /\ accepted' = accepted
      /\ revealed' = revealed /\ learned' = learned /\ closed' = closed
      /\ greenlets' = greenlets /\ handling' = handling /\ phase' = phase
      /\ crashes' = crashes /\ cutoff' = cutoff /\ stranded' = stranded
  BY DEF CheckAndSend, chainState, history
<1>3. net \in [Nodes -> SUBSET Message] /\ retrier \in [Nodes -> SUBSET Message]
  BY <1>1 DEF TypeOK
<1>4. Partner(n) \in Nodes /\ Partner(Partner(n)) = n
  BY PartnerType
<1>5. /\ net' \in [Nodes -> SUBSET Message] /\ retrier' \in [Nodes -> SUBSET Message]
      /\ \A k \in Nodes : \A x \in retrier'[k] : x \in retrier[k]
      /\ \A k \in Nodes : \A x \in net'[k] : x \in net[k] \/ (k = Partner(n) /\ x \in retrier[n])
  BY <1>2, <1>3, <1>4
<1>6. \A k \in Nodes : \A x \in net'[k] : x \in net[k] \cup retrier[Partner(k)]
  BY <1>4, <1>5
<1>7. TypeOK'
  BY <1>1, <1>2, <1>5 DEF TypeOK
<1>8. CountersInv' /\ CountersGrow
  <2>1. \A k \in Nodes : nonce[k] \in Nat /\ accepted[k] \in Nat /\ revealed[k] \in Nat
    BY <1>1 DEF CountersInv
  <2> QED
    BY <1>1, <1>2, <2>1 DEF CountersInv, CountersGrow
<1>9. SourceInv'
  BY <1>1, <1>2, <1>5, <1>6, <1>8, SourceStep
<1>10. DeliveredInv'
  <2>1. HistoryGrows /\ HandlingTakenUp /\ NoTransferReturns
    BY <1>2 DEF HistoryGrows, HandlingTakenUp, NoTransferReturns
  <2>2. \A k \in Nodes : \A x \in retrier'[k] \cup net'[Partner(k)] :
          x \in retrier[k] \cup net[Partner(k)]
    BY <1>5, <1>6, PartnerType
  <2> QED
    BY <1>1, <2>1, <2>2, DeliveredStep DEF IInv
<1>11. UnacceptedStaysQueued' /\ GlobalLostOnlyByCutoff'
  BY <1>2 DEF IInv, UnacceptedStaysQueued, GlobalLostOnlyByCutoff
<1> QED
  BY <1>7, <1>8, <1>9, <1>10, <1>11 DEF IInv

(* The Delivered of a message is enqueued while the message is handled.    *)
LEMMA ReceiveMessageStep ==
  ASSUME IInv, NEW n \in Nodes, NEW m, ReceiveMessage(n, m)
  PROVE  IInv'
<1> DEFINE p == Partner(n)
           d == DeliveredMessage(m.id)
<1>1. TypeOK /\ CountersInv /\ SourceInv
  BY DEF IInv
<1>2. /\ net' = [net EXCEPT ![n] = @ \ {m}]
      /\ retrier' = [retrier EXCEPT ![n] = @ \cup {d}]
      /\ handling' = [handling EXCEPT ![n] = m] /\ handling[n] = Nothing
      /\ queues' = queues /\ nonce' = nonce /\ accepted' = accepted
      /\ revealed' = revealed /\ learned' = learned /\ closed' = closed
      /\ greenlets' = greenlets /\ phase' = phase
      /\ crashes' = crashes /\ cutoff' = cutoff /\ stranded' = stranded
  BY DEF ReceiveMessage, Enqueue, DeliveredMessage, chainState, history
<1>3. p \in Nodes /\ Partner(p) = n /\ p # n
  BY PartnerType
<1>4. Original(p, m)
  <2>1. m \in net[Partner(p)] /\ m.kind # "Delivered"
    BY <1>3 DEF ReceiveMessage
  <2>2. Original(p, m) \/ Ack(p, m)
    BY <1>1, <1>3, <2>1 DEF SourceInv
  <2> QED
    BY <1>3, <2>1, <2>2, AckKinds
<1>5. m \in Message /\ m # Nothing
  BY <1>1, <1>3, <1>4, OriginalType
<1>6. \/ \E i \in 1..nonce[p] : m = TransferMessage(p, i)
      \/ \E i \in 1..revealed[p] : m = RevealMessage(p, i)
      \/ \E i \in 1..accepted[p] : m = ProcessedMessage(n, i)
  BY <1>3, <1>4 DEF Original
<1>7. Ack(n, d)
  BY <1>3, <1>6, Messages DEF Ack
<1>8. d \in Message
  <2>1. m.id \in TransferIds \cup RevealIds
    BY <1>5 DEF Message
  <2> QED
    BY <2>1 DEF Message, DeliveredMessage
<1>9. /\ \A i : d = DeliveredMessage(RevealId(p, i)) => m = RevealMessage(p, i)
      /\ \A i : d = DeliveredMessage(TransferId(n, i)) => m = ProcessedMessage(n, i)
  <2>1. \A id : d = DeliveredMessage(id) => m.id = id
    BY Messages
  <2> HIDE DEF d
  <2> QED
    BY <1>3, <1>6, <2>1, Messages, Identifiers
<1> HIDE DEF d
<1>10. /\ net \in [Nodes -> SUBSET Message] /\ retrier \in [Nodes -> SUBSET Message]
       /\ handling \in [Nodes -> Message \cup {Nothing}]
  BY <1>1 DEF TypeOK
<1>11. /\ net' \in [Nodes -> SUBSET Message] /\ retrier' \in [Nodes -> SUBSET Message]
       /\ handling' \in [Nodes -> Message \cup {Nothing}]
  BY <1>2, <1>5, <1>8, <1>10
<1>12. /\ \A k \in Nodes : \A x \in net'[k] : x \in net[k]
       /\ \A k \in Nodes : \A x \in retrier'[k] : x \in retrier[k] \/ (k = n /\ x = d)
       /\ handling'[n] = m /\ \A k \in Nodes : k # n => handling'[k] = handling[k]
  BY <1>2, <1>10
<1>13. TypeOK'
  BY <1>1, <1>2, <1>11 DEF TypeOK
<1>14. CountersInv' /\ CountersGrow
  <2>1. \A k \in Nodes : nonce[k] \in Nat /\ accepted[k] \in Nat /\ revealed[k] \in Nat
    BY <1>1 DEF CountersInv
  <2> QED
    BY <1>1, <1>2, <2>1 DEF CountersInv, CountersGrow
<1>15. SourceInv'
  <2>1. \A x : (Original(p, x) => Original(p, x)') /\ (Ack(n, x) => Ack(n, x)')
    BY <1>1, <1>3, <1>14, SourceMonotone
  <2>2. \A k \in Nodes : \A x \in retrier'[k] : x \in retrier[k] \/ Original(k, x)' \/ Ack(k, x)'
    <3>1. ASSUME NEW x, x = d
          PROVE  Ack(n, x)'
      BY <1>7, <2>1, <3>1
    <3> QED
      BY <1>12, <3>1
  <2>3. \A k \in Nodes : handling'[k] \in {Nothing, handling[k]} \/ Original(Partner(k), handling[k])'
    <3>1. Original(p, m)'
      BY <1>4, <2>1
    <3>2. Original(Partner(n), handling[n])'
      BY <1>12, <3>1 DEF Original
    <3> QED
      BY <1>12, <3>2
  <2> QED
    BY <1>1, <1>2, <1>12, <1>14, <2>2, <2>3, SourceStep
<1>16. HistoryGrows /\ HandlingTakenUp /\ NoTransferReturns
  BY <1>2, <1>12 DEF HistoryGrows, HandlingTakenUp, NoTransferReturns
<1>17. DeliveredInv'
  <2>1. ASSUME NEW k \in Nodes, NEW x \in retrier'[k] \cup net'[Partner(k)]
        PROVE  \/ x \in retrier[k] \cup net[Partner(k)]
               \/ /\ \A i : x = DeliveredMessage(RevealId(Partner(k), i)) =>
                              handling'[k] = RevealMessage(Partner(k), i)
                  /\ \A i : x = DeliveredMessage(TransferId(k, i)) =>
                              handling'[k] = ProcessedMessage(k, i)
    <3>1. x \in retrier[k] \cup net[Partner(k)] \/ (k = n /\ x = d)
      BY <1>12, <2>1, PartnerType
    <3> QED
      BY <1>9, <1>12, <3>1
  <2> QED
    BY <1>1, <1>16, <2>1, DeliveredStep DEF IInv
<1>18. UnacceptedStaysQueued'
  BY <1>2 DEF IInv, UnacceptedStaysQueued
<1>19. GlobalLostOnlyByCutoff'
  BY <1>1, <1>2, <1>14, <1>16, GlobalStep DEF IInv
<1> QED
  BY <1>13, <1>14, <1>15, <1>17, <1>18, <1>19 DEF IInv

(* What a Delivered removes from the global queue was taken up.            *)
LEMMA ReceiveDeliveredStep ==
  ASSUME IInv, NEW n \in Nodes, NEW d, ReceiveDelivered(n, d)
  PROVE  IInv'
<1> DEFINE p == Partner(n)
<1>1. TypeOK /\ CountersInv /\ SourceInv
  BY DEF IInv
<1>2. /\ net' = [net EXCEPT ![n] = @ \ {d}]
      /\ queues' = [queues EXCEPT ![n] =
                      [queues[n] EXCEPT !["global"] = {m \in queues[n]["global"] : m.id # d.id}]]
      /\ nonce' = nonce /\ accepted' = accepted
      /\ revealed' = revealed /\ learned' = learned /\ closed' = closed
      /\ greenlets' = greenlets /\ retrier' = retrier /\ handling' = handling /\ phase' = phase
      /\ crashes' = crashes /\ cutoff' = cutoff /\ stranded' = stranded
  <2>1. queues \in [Nodes -> [QueueIds -> SUBSET Message]]
    BY <1>1 DEF TypeOK
  <2> QED
    BY <2>1 DEF ReceiveDelivered, handle_delivered, inplace_delete_message, memory, history, QueueIds
<1>3. p \in Nodes /\ Partner(p) = n /\ p # n
  BY PartnerType
<1>4. d \in net[Partner(p)] /\ d.kind = "Delivered"
  BY <1>3 DEF ReceiveDelivered
<1>5. /\ queues \in [Nodes -> [QueueIds -> SUBSET Message]]
      /\ net \in [Nodes -> SUBSET Message]
  BY <1>1 DEF TypeOK
<1>6. \A k \in Nodes, qid \in QueueIds : \A x :
        x \in queues'[k][qid] <=>
          x \in queues[k][qid] /\ ~(k = n /\ qid = "global" /\ x.id = d.id)
  BY <1>2, <1>5 DEF QueueIds
<1>7. /\ \A k \in Nodes : \A x : x \in queues'[k]["channel"] <=> x \in queues[k]["channel"]
      /\ \A k \in Nodes : \A x \in queues[k]["global"] :
           x \in queues'[k]["global"] \/ (k = n /\ x.id = d.id)
  BY <1>6 DEF QueueIds
<1>8. net' \in [Nodes -> SUBSET Message] /\ \A k \in Nodes : \A x \in net'[k] : x \in net[k]
  BY <1>2, <1>5
<1>9. TypeOK'
  <2>1. queues' \in [Nodes -> [QueueIds -> SUBSET Message]]
    BY <1>2, <1>5 DEF QueueIds
  <2>2. \A k \in Nodes, qid \in QueueIds : \A x \in queues'[k][qid] :
          x.kind # "Delivered" /\ queue_identifier(x) = qid
    BY <1>1, <1>6 DEF TypeOK
  <2> QED
    BY <1>1, <1>2, <1>8, <2>1, <2>2 DEF TypeOK
<1>10. CountersInv' /\ CountersGrow
  <2>1. \A k \in Nodes : nonce[k] \in Nat /\ accepted[k] \in Nat /\ revealed[k] \in Nat
    BY <1>1 DEF CountersInv
  <2> QED
    BY <1>1, <1>2, <2>1 DEF CountersInv, CountersGrow
<1>11. SourceInv'
  BY <1>1, <1>2, <1>6, <1>8, <1>10, SourceStep
<1>12. HistoryGrows /\ HandlingTakenUp /\ NoTransferReturns
  BY <1>2, <1>7 DEF HistoryGrows, HandlingTakenUp, NoTransferReturns
<1>13. DeliveredInv'
  <2>1. \A k \in Nodes : \A x \in retrier'[k] \cup net'[Partner(k)] :
          x \in retrier[k] \cup net[Partner(k)]
    BY <1>2, <1>8, PartnerType
  <2> QED
    BY <1>1, <1>12, <2>1, DeliveredStep DEF IInv
<1>14. UnacceptedStaysQueued'
  BY <1>1, <1>2, <1>7, <1>10, UnacceptedStep DEF IInv
<1>15. d = DeliveredMessage(d.id)
  <2>1. d \in Message
    BY <1>3, <1>4, <1>5
  <2> QED
    BY <1>4, <2>1 DEF Message, DeliveredMessage
<1>16. GlobalLostOnlyByCutoff'
  <2>1. ASSUME NEW k \in Nodes, NEW i \in 1..revealed[k],
               RevealMessage(k, i) \in queues[k]["global"],
               RevealMessage(k, i) \notin queues'[k]["global"]
        PROVE  \/ RevealMessage(k, i) \in {handling[Partner(k)]} \cup cutoff
               \/ RevealId(k, i) \in learned[Partner(k)]
    <3>1. k = n /\ d.id = RevealId(n, i)
      BY <1>7, <2>1, Messages
    <3>2. i \in Nat /\ DeliveredMessage(RevealId(Partner(p), i)) \in net[Partner(p)]
      <4>1. revealed[k] \in Nat
        BY <1>1 DEF CountersInv
      <4> QED
        BY <1>3, <1>4, <1>15, <3>1, <4>1
    <3>3. \/ RevealId(Partner(p), i) \in learned[p]
          \/ RevealMessage(Partner(p), i) \in {handling[p]} \cup cutoff
      BY <1>3, <3>2 DEF IInv, DeliveredInv
    <3> QED
      BY <1>3, <3>1, <3>3
  <2>2. ASSUME NEW k \in Nodes, NEW i \in 1..accepted[k],
               ProcessedMessage(Partner(k), i) \in queues[k]["global"],
               ProcessedMessage(Partner(k), i) \notin queues'[k]["global"]
        PROVE  \/ ProcessedMessage(Partner(k), i) \in {handling[Partner(k)]} \cup cutoff
               \/ TransferMessage(Partner(k), i) \notin queues'[Partner(k)]["channel"]
    <3>1. k = n /\ d.id = TransferId(p, i)
      BY <1>7, <2>2, Messages
    <3>2. i \in Nat /\ DeliveredMessage(TransferId(p, i)) \in net[Partner(p)]
      <4>1. accepted[k] \in Nat
        BY <1>1 DEF CountersInv
      <4> QED
        BY <1>3, <1>4, <1>15, <3>1, <4>1
    <3>3. \/ TransferMessage(p, i) \notin queues[p]["channel"]
          \/ ProcessedMessage(p, i) \in {handling[p]} \cup cutoff
      BY <1>3, <3>2 DEF IInv, DeliveredInv
    <3> QED
      BY <1>3, <1>7, <3>1, <3>3
  <2> QED
    BY <1>1, <1>2, <1>10, <1>12, <2>1, <2>2, GlobalStep DEF IInv
<1> QED
  BY <1>9, <1>10, <1>11, <1>13, <1>14, <1>16 DEF IInv

LEMMA CrashStep ==
  ASSUME IInv, NEW n \in Nodes, Crash(n)
  PROVE  IInv'
<1>1. TypeOK /\ CountersInv /\ SourceInv
  BY DEF IInv
<1>2. /\ crashes < MaxCrashes /\ crashes' = crashes + 1
      /\ phase' = [phase EXCEPT ![n] = "down"]
      /\ greenlets' = [greenlets EXCEPT ![n] = {}]
      /\ retrier' = [retrier EXCEPT ![n] = {}]
      /\ handling' = [handling EXCEPT ![n] = Nothing]
      /\ cutoff' = cutoff \cup ({handling[n]} \ {Nothing})
      /\ stranded' = [stranded EXCEPT ![n] = @ \cup Queued(n)]
      /\ queues' = queues /\ nonce' = nonce /\ accepted' = accepted
      /\ revealed' = revealed /\ learned' = learned /\ closed' = closed /\ net' = net
  BY DEF Crash, chainState
<1>3. /\ phase \in [Nodes -> {"down", "starting", "running"}]
      /\ greenlets \in [Nodes -> SUBSET Message] /\ retrier \in [Nodes -> SUBSET Message]
      /\ handling \in [Nodes -> Message \cup {Nothing}] /\ cutoff \subseteq Message
      /\ stranded \in [Nodes -> SUBSET Message]
  BY <1>1 DEF TypeOK
<1>4. TypeOK'
  <2>1. Queued(n) \subseteq Message
    <3>1. \A qid \in QueueIds : queues[n][qid] \subseteq Message
      BY <1>1 DEF TypeOK
    <3> QED
      BY <3>1 DEF Queued
  <2>2. stranded' \in [Nodes -> SUBSET Message]
    BY <1>2, <1>3, <2>1
  <2>3. /\ phase' \in [Nodes -> {"down", "starting", "running"}]
        /\ greenlets' \in [Nodes -> SUBSET Message] /\ retrier' \in [Nodes -> SUBSET Message]
        /\ handling' \in [Nodes -> Message \cup {Nothing}] /\ cutoff' \subseteq Message
    BY <1>2, <1>3
  <2>4. crashes' \in 0..MaxCrashes
    <3>1. crashes \in 0..MaxCrashes
      BY <1>1 DEF TypeOK
    <3> QED
      BY <1>2, <3>1, QueueAssumption
  <2> QED
    BY <1>1, <1>2, <2>2, <2>3, <2>4 DEF TypeOK
<1>5. CountersInv' /\ CountersGrow
  <2>1. \A k \in Nodes : nonce[k] \in Nat /\ accepted[k] \in Nat /\ revealed[k] \in Nat
    BY <1>1 DEF CountersInv
  <2> QED
    BY <1>1, <1>2, <2>1 DEF CountersInv, CountersGrow
<1>6. /\ \A k \in Nodes : \A x \in greenlets'[k] : x \in greenlets[k]
      /\ \A k \in Nodes : \A x \in retrier'[k] : x \in retrier[k]
      /\ handling'[n] = Nothing /\ handling[n] \in cutoff' \cup {Nothing}
      /\ \A k \in Nodes : k # n => handling'[k] = handling[k]
  BY <1>2, <1>3
<1>7. SourceInv'
  BY <1>1, <1>2, <1>5, <1>6, SourceStep
<1>8. HistoryGrows /\ HandlingTakenUp /\ NoTransferReturns
  BY <1>2, <1>6 DEF HistoryGrows, HandlingTakenUp, NoTransferReturns
<1>9. DeliveredInv'
  <2>1. \A k \in Nodes : \A x \in retrier'[k] \cup net'[Partner(k)] :
          x \in retrier[k] \cup net[Partner(k)]
    BY <1>2, <1>6
  <2> QED
    BY <1>1, <1>8, <2>1, DeliveredStep DEF IInv
<1>10. UnacceptedStaysQueued'
  BY <1>2 DEF IInv, UnacceptedStaysQueued
<1>11. GlobalLostOnlyByCutoff'
  BY <1>1, <1>2, <1>5, <1>8, GlobalStep DEF IInv
<1> QED
  BY <1>4, <1>5, <1>7, <1>9, <1>10, <1>11 DEF IInv

(* The message that is handled is one the partner sent.                    *)
LEMMA HandledMessage ==
  ASSUME IInv, NEW n \in Nodes, handling[n] # Nothing
  PROVE  Original(Partner(n), handling[n])
<1>1. Partner(n) \in Nodes /\ Partner(Partner(n)) = n
  BY PartnerType
<1> QED
  BY <1>1 DEF IInv, SourceInv

LEMMA HandlingEnds ==
  ASSUME TypeOK, NEW n \in Nodes, handling' = [handling EXCEPT ![n] = Nothing]
  PROVE  /\ handling' \in [Nodes -> Message \cup {Nothing}]
         /\ handling'[n] = Nothing /\ \A k \in Nodes : k # n => handling'[k] = handling[k]
<1>1. handling \in [Nodes -> Message \cup {Nothing}]
  BY DEF TypeOK
<1> QED
  BY <1>1

(* A transfer that is the next one is accepted and answered.               *)
LEMMA AcceptStep ==
  ASSUME IInv, NEW n \in Nodes, OnMessage(n),
         handling[n].kind = "Transfer", is_valid_balance_proof(n, handling[n])
  PROVE  IInv'
<1> DEFINE p == Partner(n)
           m == ProcessedMessage(p, accepted[n] + 1)
<1>1. TypeOK /\ CountersInv /\ SourceInv
  BY DEF IInv
<1>2. p \in Nodes /\ Partner(p) = n /\ p # n
  BY PartnerType
<1>3. handling[n].id = TransferId(p, accepted[n] + 1)
  BY DEF is_valid_balance_proof
<1>4. /\ handling' = [handling EXCEPT ![n] = Nothing]
      /\ accepted' = [accepted EXCEPT ![n] = accepted[n] + 1]
      /\ HandleEvents(n, {[kind |-> "Processed", id |-> handling[n].id]})
      /\ learned' = learned /\ nonce' = nonce /\ revealed' = revealed /\ closed' = closed
      /\ retrier' = retrier /\ phase' = phase /\ net' = net
      /\ crashes' = crashes /\ cutoff' = cutoff
  BY DEF OnMessage
<1>5. HandleEvents(n, {m})
  BY <1>3, <1>4 DEF ProcessedMessage
<1>6. /\ accepted[n] \in Nat /\ nonce[p] \in Nat /\ accepted[n] + 1 \in 1..nonce[p]
      /\ nonce[p] <= Transfers[p] /\ Transfers[p] \in Nat
  <2>1. accepted[n] \in Nat /\ nonce[p] \in Nat /\ nonce[p] <= Transfers[p] /\ Transfers[p] \in Nat
    BY <1>1, <1>2, Numbers
  <2>2. Original(p, handling[n])
    BY HandledMessage DEF OnMessage
  <2>3. PICK i \in 1..nonce[p] : handling[n] = TransferMessage(p, i)
    BY <1>2, <2>2, OriginalKinds
  <2>4. i = accepted[n] + 1
    BY <1>3, <2>3, Messages, Identifiers
  <2> QED
    BY <2>1, <2>3, <2>4
<1>7. m \in Message /\ m.kind = "Processed" /\ queue_identifier(m) = "global"
  <2>1. accepted[n] + 1 \in 1..Transfers[p]
    BY <1>6
  <2> QED
    BY <1>2, <2>1, MessageType, Messages DEF queue_identifier
<1>8. /\ \A k \in Nodes, qid \in QueueIds : \A x :
           x \in queues'[k][qid] <=> x \in queues[k][qid] \/ (k = n /\ x = m /\ qid = "global")
      /\ \A k \in Nodes : \A x \in greenlets'[k] : x \in greenlets[k] \/ (k = n /\ x = m)
  BY <1>1, <1>5, <1>7, Emit
<1>9. /\ accepted' \in [Nodes -> Nat] /\ accepted'[n] = accepted[n] + 1
      /\ \A k \in Nodes : k # n => accepted'[k] = accepted[k]
  BY <1>1, <1>4, <1>6 DEF CountersInv
<1>10. CountersInv' /\ CountersGrow
  <2>1. CountersInv'
    BY <1>1, <1>4, <1>9 DEF CountersInv
  <2>2. \A k \in Nodes : nonce[k] \in Nat /\ accepted[k] \in Nat /\ revealed[k] \in Nat
    BY <1>1 DEF CountersInv
  <2> QED
    BY <1>4, <1>9, <2>1, <2>2 DEF CountersGrow
<1>11. /\ handling' \in [Nodes -> Message \cup {Nothing}]
       /\ handling'[n] = Nothing /\ \A k \in Nodes : k # n => handling'[k] = handling[k]
  BY <1>1, <1>4, HandlingEnds
<1>12. TypeOK'
  <2>1. /\ queues' \in [Nodes -> [QueueIds -> SUBSET Message]]
        /\ \A k \in Nodes, qid \in QueueIds : \A x \in queues'[k][qid] :
             x.kind # "Delivered" /\ queue_identifier(x) = qid
        /\ greenlets' \in [Nodes -> SUBSET Message] /\ stranded' \in [Nodes -> SUBSET Message]
    BY <1>1, <1>5, <1>7, Emit
  <2>2. \A k \in Nodes : accepted'[k] \in 0..nonce'[Partner(k)]
    <3>1. accepted'[n] \in 0..nonce'[Partner(n)]
      BY <1>4, <1>6, <1>9
    <3>2. \A k \in Nodes : accepted[k] \in 0..nonce[Partner(k)]
      BY <1>1 DEF TypeOK
    <3> QED
      BY <1>4, <1>9, <3>1, <3>2
  <2> QED
    BY <1>1, <1>4, <1>11, <2>1, <2>2 DEF TypeOK
<1>13. SourceInv'
  <2>1. ASSUME NEW x, x = m
        PROVE  Original(n, x)'
    <3>1. accepted[n] + 1 \in 1..accepted'[n]
      BY <1>6, <1>9
    <3> QED
      BY <2>1, <3>1 DEF Original
  <2>2. /\ \A k \in Nodes, qid \in QueueIds : \A x \in queues'[k][qid] :
             x \in queues[k][qid] \/ Original(k, x)'
        /\ \A k \in Nodes : \A x \in greenlets'[k] : x \in greenlets[k] \/ Original(k, x)'
    BY <1>8, <2>1
  <2> QED
    BY <1>1, <1>4, <1>10, <1>11, <2>2, SourceStep
<1>14. HistoryGrows /\ HandlingTakenUp
  BY <1>4, <1>11 DEF HistoryGrows, HandlingTakenUp
<1>15. \A k \in Nodes : \A x : x \in queues'[k]["channel"] <=> x \in queues[k]["channel"]
  BY <1>8 DEF QueueIds
<1>16. NoTransferReturns
  BY <1>15 DEF NoTransferReturns
<1>17. DeliveredInv'
  BY <1>1, <1>4, <1>14, <1>16, DeliveredStep DEF IInv
<1>18. UnacceptedStaysQueued'
  BY <1>1, <1>4, <1>10, <1>15, UnacceptedStep DEF IInv
<1>19. GlobalLostOnlyByCutoff'
  <2>1. /\ ProcessedMessage(Partner(n), accepted[n] + 1) \in queues'[n]["global"]
        /\ \A k \in Nodes : \A x \in queues[k]["global"] : x \in queues'[k]["global"]
    BY <1>8 DEF QueueIds
  <2> QED
    BY <1>1, <1>4, <1>9, <1>10, <1>14, <1>16, <2>1, GlobalStep DEF IInv
<1> QED
  BY <1>10, <1>12, <1>13, <1>17, <1>18, <1>19 DEF IInv

(* Any other transfer changes nothing, a reveal is learned.                *)
LEMMA LearnStep ==
  ASSUME IInv, NEW n \in Nodes, OnMessage(n),
         \/ handling[n].kind = "Reveal"
         \/ handling[n].kind = "Transfer" /\ ~is_valid_balance_proof(n, handling[n])
  PROVE  IInv'
<1>1. TypeOK /\ CountersInv /\ SourceInv
  BY DEF IInv
<1>2. /\ handling' = [handling EXCEPT ![n] = Nothing]
      /\ queues' = queues /\ accepted' = accepted /\ nonce' = nonce /\ revealed' = revealed
      /\ closed' = closed /\ greenlets' = greenlets /\ stranded' = stranded
      /\ retrier' = retrier /\ phase' = phase /\ net' = net
      /\ crashes' = crashes /\ cutoff' = cutoff
      /\ \/ handling[n].kind = "Transfer" /\ learned' = learned
         \/ /\ handling[n].kind = "Reveal"
            /\ learned' = [learned EXCEPT ![n] = @ \cup {handling[n].id}]
  BY DEF OnMessage
<1>3. /\ handling' \in [Nodes -> Message \cup {Nothing}]
      /\ handling'[n] = Nothing /\ \A k \in Nodes : k # n => handling'[k] = handling[k]
  BY <1>1, <1>2, HandlingEnds
<1>4. learned \in [Nodes -> SUBSET RevealIds]
  BY <1>1 DEF TypeOK
<1>5. /\ \A k \in Nodes : learned[k] \subseteq learned'[k]
      /\ handling[n].kind = "Reveal" => handling[n].id \in learned'[n]
  BY <1>2, <1>4
<1>6. learned' \in [Nodes -> SUBSET RevealIds]
  <2>1. handling[n] \in Message
    BY <1>1 DEF OnMessage, TypeOK
  <2>2. handling[n].kind = "Reveal" => handling[n].id \in RevealIds
    BY <2>1 DEF Message
  <2> QED
    BY <1>2, <1>4, <2>2
<1>7. TypeOK'
  BY <1>1, <1>2, <1>3, <1>6 DEF TypeOK
<1>8. CountersInv' /\ CountersGrow
  <2>1. \A k \in Nodes : nonce[k] \in Nat /\ accepted[k] \in Nat /\ revealed[k] \in Nat
    BY <1>1 DEF CountersInv
  <2> QED
    BY <1>1, <1>2, <2>1 DEF CountersInv, CountersGrow
<1>9. SourceInv'
  BY <1>1, <1>2, <1>3, <1>8, SourceStep
<1>10. HistoryGrows /\ HandlingTakenUp /\ NoTransferReturns
  BY <1>2, <1>3, <1>5 DEF HistoryGrows, HandlingTakenUp, NoTransferReturns
<1>11. DeliveredInv'
  BY <1>1, <1>2, <1>10, DeliveredStep DEF IInv
<1>12. UnacceptedStaysQueued'
  BY <1>2 DEF IInv, UnacceptedStaysQueued
<1>13. GlobalLostOnlyByCutoff'
  BY <1>1, <1>2, <1>8, <1>10, GlobalStep DEF IInv
<1> QED
  BY <1>7, <1>8, <1>9, <1>11, <1>12, <1>13 DEF IInv

(* A Processed names a transfer of the node that the partner accepted:     *)
(* neither a later transfer nor an answer of the node has its identifier.  *)
LEMMA ProcessedStep ==
  ASSUME IInv, NEW n \in Nodes, OnMessage(n), handling[n].kind = "Processed"
  PROVE  IInv'
<1> DEFINE p == Partner(n)
<1>1. TypeOK /\ CountersInv /\ SourceInv
  BY DEF IInv
<1>2. p \in Nodes /\ Partner(p) = n /\ p # n
  BY PartnerType
<1>3. PICK i \in 1..accepted[p] : handling[n] = ProcessedMessage(n, i)
  <2>1. Original(p, handling[n])
    BY HandledMessage DEF OnMessage
  <2> QED
    BY <1>2, <2>1, OriginalKinds
<1>4. /\ handling' = [handling EXCEPT ![n] = Nothing]
      /\ queues' = [queues EXCEPT ![n] =
                      [qid \in QueueIds |-> {x \in queues[n][qid] : x.id # TransferId(n, i)}]]
      /\ accepted' = accepted /\ nonce' = nonce /\ revealed' = revealed /\ learned' = learned
      /\ closed' = closed /\ greenlets' = greenlets /\ stranded' = stranded
      /\ retrier' = retrier /\ phase' = phase /\ net' = net
      /\ crashes' = crashes /\ cutoff' = cutoff
  <2>1. handling[n].id = TransferId(n, i)
    BY <1>3, Messages
  <2> QED
    BY <2>1 DEF OnMessage, handle_processed, inplace_delete_message
<1>5. queues \in [Nodes -> [QueueIds -> SUBSET Message]]
  BY <1>1 DEF TypeOK
<1>6. \A k \in Nodes, qid \in QueueIds : \A x :
        x \in queues'[k][qid] <=> x \in queues[k][qid] /\ ~(k = n /\ x.id = TransferId(n, i))
  BY <1>4, <1>5
<1>7. /\ handling' \in [Nodes -> Message \cup {Nothing}]
      /\ handling'[n] = Nothing /\ \A k \in Nodes : k # n => handling'[k] = handling[k]
  BY <1>1, <1>4, HandlingEnds
<1>8. TypeOK'
  <2>1. queues' \in [Nodes -> [QueueIds -> SUBSET Message]]
    BY <1>4, <1>5
  <2>2. \A k \in Nodes, qid \in QueueIds : \A x \in queues'[k][qid] :
          x.kind # "Delivered" /\ queue_identifier(x) = qid
    BY <1>1, <1>6 DEF TypeOK
  <2> QED
    BY <1>1, <1>4, <1>7, <2>1, <2>2 DEF TypeOK
<1>9. CountersInv' /\ CountersGrow
  <2>1. \A k \in Nodes : nonce[k] \in Nat /\ accepted[k] \in Nat /\ revealed[k] \in Nat
    BY <1>1 DEF CountersInv
  <2> QED
    BY <1>1, <1>4, <2>1 DEF CountersInv, CountersGrow
<1>10. SourceInv'
  BY <1>1, <1>4, <1>6, <1>7, <1>9, SourceStep
<1>11. HistoryGrows /\ HandlingTakenUp /\ NoTransferReturns
  <2>1. handling[n].id = TransferId(n, i) /\ handling[n].kind # "Reveal"
    BY <1>3, Messages
  <2>2. \A x \in queues'[n]["channel"] : x.id # handling[n].id
    BY <1>6, <2>1 DEF QueueIds
  <2>3. HandlingTakenUp
    BY <1>7, <2>1, <2>2 DEF HandlingTakenUp
  <2> QED
    BY <1>4, <1>6, <2>3 DEF HistoryGrows, NoTransferReturns, QueueIds
<1>12. DeliveredInv'
  BY <1>1, <1>4, <1>11, DeliveredStep DEF IInv
<1>13. UnacceptedStaysQueued'
  <2>1. ASSUME NEW k \in Nodes, NEW j \in Nat \ (0..accepted'[Partner(k)]),
               TransferMessage(k, j) \in queues[k]["channel"]
        PROVE  TransferMessage(k, j) \in queues'[k]["channel"]
    <3>1. k = n => j # i
      BY <1>1, <1>2, <1>4 DEF CountersInv
    <3>2. ~(k = n /\ TransferMessage(k, j).id = TransferId(n, i))
      BY <3>1, Messages, Identifiers
    <3> QED
      BY <1>6, <2>1, <3>2 DEF QueueIds
  <2> QED
    BY <1>1, <1>4, <1>9, <2>1, UnacceptedStep DEF IInv
<1>14. GlobalLostOnlyByCutoff'
  <2>1. ASSUME NEW k \in Nodes, NEW j, RevealMessage(k, j) \in queues[k]["global"]
        PROVE  RevealMessage(k, j) \in queues'[k]["global"]
    <3>1. RevealMessage(k, j).id # TransferId(n, i)
      BY Messages, Identifiers
    <3> QED
      BY <1>6, <2>1, <3>1 DEF QueueIds
  <2>2. ASSUME NEW k \in Nodes, NEW j, ProcessedMessage(Partner(k), j) \in queues[k]["global"]
        PROVE  ProcessedMessage(Partner(k), j) \in queues'[k]["global"]
    <3>1. ~(k = n /\ ProcessedMessage(Partner(k), j).id = TransferId(n, i))
      BY <1>2, Messages, Identifiers
    <3> QED
      BY <1>6, <2>2, <3>1 DEF QueueIds
  <2> QED
    BY <1>1, <1>4, <1>9, <1>11, <2>1, <2>2, GlobalStep DEF IInv
<1> QED
  BY <1>8, <1>9, <1>10, <1>12, <1>13, <1>14 DEF IInv

LEMMA NextIInv == IInv /\ [Next]_vars => IInv'
<1> SUFFICES ASSUME IInv, [Next]_vars
             PROVE  IInv'
  OBVIOUS
<1>1. phase \in [Nodes -> {"down", "starting", "running"}]
  BY DEF IInv, TypeOK
<1>2. CASE UNCHANGED vars
  <2>1. UNCHANGED <<chainState, memory, net, history>> /\ phase' = phase
    BY <1>2 DEF vars
  <2> QED
    BY <1>1, <2>1, PhaseStep
<1>3. CASE Next
  <2>1. PICK n \in Nodes :
          \/ SendTransfer(n) \/ SendReveal(n) \/ ChannelClosed(n) \/ OnMessage(n)
          \/ Crash(n) \/ Start(n) \/ InitializeMessagesQueues(n)
          \/ \E m : SendAsync(n, m) \/ ReceiveMessage(n, m) \/ ReceiveDelivered(n, m)
          \/ \E arriving : CheckAndSend(n, arriving)
    BY <1>3 DEF Next
  <2>2. CASE Start(n) \/ InitializeMessagesQueues(n)
    <3>1. /\ UNCHANGED <<chainState, memory, net, history>>
          /\ phase' \in [Nodes -> {"down", "starting", "running"}]
      BY <1>1, <2>2 DEF Start, InitializeMessagesQueues
    <3> QED
      BY <3>1, PhaseStep
  <2>3. CASE OnMessage(n)
    <3>1. handling[n].kind \in {"Transfer", "Reveal", "Processed"}
      BY <2>3 DEF OnMessage
    <3> QED
      BY <2>3, <3>1, AcceptStep, LearnStep, ProcessedStep
  <2> QED
    BY <2>1, <2>2, <2>3, SendTransferStep, SendRevealStep, ChannelClosedStep, CrashStep,
       SendAsyncStep, ReceiveMessageStep, ReceiveDeliveredStep, CheckAndSendStep
<1> QED
  BY <1>2, <1>3

-----------------------------------------------------------------------------
(* The state of queues, retry queues and network has its type, and no node *)
(* accepts a nonce the partner has not used.                               *)
THEOREM MessageQueuesTypeOK == Spec => []TypeOK
<1>1. IInv => TypeOK
  BY DEF IInv
<1> QED
  BY <1>1, InitIInv, NextIInv, PTL DEF Spec

(* A message with a balance proof the partner has not accepted is in the   *)
(* queue of the open channel, whatever is lost, repeated or restarted:     *)
(* only the Processed of an accepted message removes one (node.py,         *)
(* inplace_delete_message_queue).                                          *)
THEOREM UnacceptedIsKept == Spec => []UnacceptedStaysQueued
<1>1. IInv => UnacceptedStaysQueued
  BY DEF IInv
<1> QED
  BY <1>1, InitIInv, NextIInv, PTL DEF Spec

(* A reveal or a Processed leaves the global queue before the partner took *)
(* it up only when a crash of the partner fell between its Delivered and   *)
(* its state change (transport.py, _receive_message).                      *)
THEOREM GlobalIsKept == Spec => []GlobalLostOnlyByCutoff
<1>1. IInv => GlobalLostOnlyByCutoff
  BY DEF IInv
<1> QED
  BY <1>1, InitIInv, NextIInv, PTL DEF Spec
=============================================================================
