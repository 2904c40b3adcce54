---------------------------- MODULE MessageQueues ----------------------------
(***************************************************************************)
(* How a message of the state machine reaches the partner: the queues of   *)
(* the chain state (raiden/transfer/node.py), which survive a crash, the   *)
(* retry queue of the Matrix transport (network/transport/matrix), which   *)
(* does not, the greenlets between the two (raiden_service.py) and the     *)
(* answers Delivered and Processed that empty the queues again.  Two nodes *)
(* run this code over a network that loses, repeats and reorders.          *)
(*                                                                         *)
(* "Transfer" stands for every message with a balance proof: it is in the  *)
(* queue of the channel and is accepted only as the next nonce.  "Reveal"  *)
(* stands for RevealSecret and SecretRequest, which are in the global      *)
(* queue with Processed.                                                   *)
(***************************************************************************)
EXTENDS Integers, FiniteSets

CONSTANTS
  A, B,           \* the two nodes
  Transfers,      \* [{A, B} -> Nat]: messages with a balance proof a node sends
  Reveals,        \* [{A, B} -> Nat]: messages of the global queue a node sends
  MayClose,       \* whether the channel may be closed
  MaxInFlight,    \* bound on the messages on their way to a node
  MaxCrashes      \* bound on crashes

ASSUME QueueAssumption ==
  /\ A # B
  /\ Transfers \in [{A, B} -> Nat]
  /\ Reveals \in [{A, B} -> Nat]
  /\ MayClose \in BOOLEAN
  /\ MaxInFlight \in Nat \ {0}
  /\ MaxCrashes \in Nat

VARIABLES
  queues,     \* queueids_to_queues of a node: queue identifier -> messages
  nonce,      \* transfers a node has sent
  accepted,   \* nonce of the last transfer of the partner a node accepted
  revealed,   \* reveals a node has sent
  learned,    \* identifiers of the partner's reveals a node applied
  closed,     \* whether the node knows that the channel is closed
  phase,      \* "down", "starting" (events are not handled) or "running"
  greenlets,  \* events whose handling was spawned and has not run
  retrier,    \* the _RetryQueue of a node for its partner
  handling,   \* the message between the Delivered for it and its state change
  net,        \* messages on their way to a node
  crashes,    \* crashes so far
  cutoff,     \* messages whose handling a crash cut off (history)
  stranded    \* messages queued at a crash or before the next start (history)

chainState == <<queues, nonce, accepted, revealed, learned, closed>>
memory     == <<greenlets, retrier, handling>>
history    == <<crashes, cutoff, stranded>>
vars       == <<chainState, memory, phase, net, history>>

Nodes == {A, B}
Partner(n) == IF n = A THEN B ELSE A

-----------------------------------------------------------------------------
(* Messages.  A Processed carries the identifier of the message it answers,*)
(* and so does a Delivered.                                                *)

TransferId(n, i) == <<"Transfer", n, i>>
RevealId(n, i)   == <<"Reveal", n, i>>

TransferIds == UNION {{TransferId(n, i) : i \in 1..Transfers[n]} : n \in Nodes}
RevealIds   == UNION {{RevealId(n, i) : i \in 1..Reveals[n]} : n \in Nodes}

Message ==
       [kind : {"Transfer"}, id : TransferIds]
  \cup [kind : {"Reveal"}, id : RevealIds]
  \cup [kind : {"Processed"}, id : TransferIds]
  \cup [kind : {"Delivered"}, id : TransferIds \cup RevealIds]

Nothing == [kind |-> "Nothing", id |-> <<>>]

queue_identifier(m) == IF m.kind = "Transfer" THEN "channel" ELSE "global"

QueueIds == {"channel", "global"}

Queued(n) == UNION {queues[n][qid] : qid \in QueueIds}

-----------------------------------------------------------------------------
(* The chain state: what the dispatch of a state change does to the queues.*)

(* Fault: the identifier is not compared.                                  *)
Fault_inplace_delete_message(queue, id) == {}

inplace_delete_message(queue, id) == {m \in queue : m.id # id}

(* Fault: a Delivered is taken for a Processed.                            *)
Fault_handle_delivered(q, id) ==
  [qid \in QueueIds |-> inplace_delete_message(q[qid], id)]

(* A Delivered only empties the global queue, a Processed every queue.     *)
handle_delivered(q, id) ==
  [q EXCEPT !["global"] = inplace_delete_message(@, id)]

handle_processed(q, id) ==
  [qid \in QueueIds |-> inplace_delete_message(q[qid], id)]

(* The events of a state change: every message is appended to its queue,   *)
(* and its handler is spawned unless the node is still starting.           *)
HandleEvents(n, messages) ==
  /\ queues' = [queues EXCEPT ![n] = [qid \in QueueIds |->
                  @[qid] \cup {m \in messages : queue_identifier(m) = qid}]]
  /\ IF phase[n] = "running"
       THEN /\ greenlets' = [greenlets EXCEPT ![n] = @ \cup messages]
            /\ UNCHANGED stranded
       ELSE /\ stranded' = [stranded EXCEPT ![n] = @ \cup messages]
            /\ UNCHANGED greenlets

-----------------------------------------------------------------------------
(* The retry queue.                                                        *)

(* enqueue: a message that is already there is ignored.                    *)
Enqueue(n, m) == retrier' = [retrier EXCEPT ![n] = @ \cup {m}]

(* Fault: only the queue of the channel is looked at.                      *)
Fault_message_is_in_queue(n, m) ==
  \E queued \in queues[n]["channel"] : queued.id = m.id

message_is_in_queue(n, m) ==
  \E queued \in queues[n][queue_identifier(m)] : queued.id = m.id

(* _check_and_send: the messages that are due are put on the wire; then    *)
(* those that are no longer in their queue, and every Delivered, are       *)
(* removed from the retry queue.  Of the due messages the network loses    *)
(* all but some, arriving: a message whose timer has not fired, or a       *)
(* partner that is not reachable, looks the same to the partner.           *)
CheckAndSend(n, arriving) ==
  /\ phase[n] = "running"
  /\ retrier[n] # {}
  /\ Cardinality(net[Partner(n)]) < MaxInFlight
  /\ arriving \subseteq retrier[n]
  /\ Cardinality(net[Partner(n)] \cup arriving) <= MaxInFlight
  /\ net' = [net EXCEPT ![Partner(n)] = @ \cup arriving]
  /\ retrier' = [retrier EXCEPT ![n] =
                   {m \in @ : m.kind # "Delivered" /\ message_is_in_queue(n, m)}]
  /\ UNCHANGED <<chainState, greenlets, handling, phase, history>>

(* send_async, in the greenlet of an event.                                *)
SendAsync(n, m) ==
  /\ m \in greenlets[n]
  /\ greenlets' = [greenlets EXCEPT ![n] = @ \ {m}]
  /\ Enqueue(n, m)
  /\ UNCHANGED <<chainState, handling, phase, net, history>>

-----------------------------------------------------------------------------
(* State changes of the node's own making.                                 *)

(* A payment, an unlock, or the LockExpired of a block, which may be one   *)
(* the node catches up with while it starts.                               *)
SendTransfer(n) ==
  /\ phase[n] # "down"
  /\ ~closed[n]
  /\ nonce[n] < Transfers[n]
  /\ nonce' = [nonce EXCEPT ![n] = @ + 1]
  /\ HandleEvents(n, {[kind |-> "Transfer", id |-> TransferId(n, nonce[n] + 1)]})
  /\ UNCHANGED <<accepted, revealed, learned, closed, retrier, handling,
                 phase, net, crashes, cutoff>>

SendReveal(n) ==
  /\ phase[n] = "running"
  /\ revealed[n] < Reveals[n]
  /\ revealed' = [revealed EXCEPT ![n] = @ + 1]
  /\ HandleEvents(n, {[kind |-> "Reveal", id |-> RevealId(n, revealed[n] + 1)]})
  /\ UNCHANGED <<nonce, accepted, learned, closed, retrier, handling,
                 phase, net, crashes, cutoff>>

(* ContractReceiveChannelClosed drops the queue of the channel.            *)
ChannelClosed(n) ==
  /\ phase[n] # "down"
  /\ MayClose
  /\ ~closed[n]
  /\ closed' = [closed EXCEPT ![n] = TRUE]
  /\ queues' = [queues EXCEPT ![n]["channel"] = {}]
  /\ UNCHANGED <<nonce, accepted, revealed, learned, memory, phase, net,
                 history>>

-----------------------------------------------------------------------------
(* Receiving.  One greenlet handles the messages of a room one by one.     *)

(* _receive_message, first half: the Delivered is enqueued; until          *)
(* on_message, the retry queue may already send it.                        *)
ReceiveMessage(n, m) ==
  /\ phase[n] = "running"
  /\ handling[n] = Nothing
  /\ m \in net[n]
  /\ m.kind # "Delivered"
  /\ net' = [net EXCEPT ![n] = @ \ {m}]
  /\ Enqueue(n, [kind |-> "Delivered", id |-> m.id])
  /\ handling' = [handling EXCEPT ![n] = m]
  /\ UNCHANGED <<chainState, greenlets, phase, history>>

(* Fault: the nonce is not looked at.                                      *)
Fault_is_valid_balance_proof(n, m) == ~closed[n]

(* A transfer is valid in an open channel as the next nonce only.          *)
is_valid_balance_proof(n, m) ==
  ~closed[n] /\ m.id = TransferId(Partner(n), accepted[n] + 1)

(* _receive_message, second half.  A transfer is answered with a Processed *)
(* if it is accepted and not at all otherwise.                             *)
OnMessage(n) ==
  LET m == handling[n]
  IN  /\ m # Nothing
      /\ handling' = [handling EXCEPT ![n] = Nothing]
      /\ \/ /\ m.kind = "Transfer"
            /\ is_valid_balance_proof(n, m)
            /\ accepted' = [accepted EXCEPT ![n] = @ + 1]
            /\ HandleEvents(n, {[kind |-> "Processed", id |-> m.id]})
            /\ UNCHANGED learned
         \/ /\ m.kind = "Transfer"
            /\ ~is_valid_balance_proof(n, m)
            /\ UNCHANGED <<queues, accepted, learned, greenlets, stranded>>
         \/ /\ m.kind = "Reveal"
            /\ learned' = [learned EXCEPT ![n] = @ \cup {m.id}]
            /\ UNCHANGED <<queues, accepted, greenlets, stranded>>
         \/ /\ m.kind = "Processed"
            /\ queues' = [queues EXCEPT ![n] = handle_processed(@, m.id)]
            /\ UNCHANGED <<accepted, learned, greenlets, stranded>>
      /\ UNCHANGED <<nonce, revealed, closed, retrier, phase, net, crashes, cutoff>>

(* _receive_delivered: not answered.                                       *)
ReceiveDelivered(n, m) ==
  /\ phase[n] = "running"
  /\ handling[n] = Nothing
  /\ m \in net[n]
  /\ m.kind = "Delivered"
  /\ net' = [net EXCEPT ![n] = @ \ {m}]
  /\ queues' = [queues EXCEPT ![n] = handle_delivered(@, m.id)]
  /\ UNCHANGED <<nonce, accepted, revealed, learned, closed, memory, phase,
                 history>>

-----------------------------------------------------------------------------
(* Faults and restarts.                                                    *)

(* Everything in memory is gone.                                           *)
Crash(n) ==
  /\ phase[n] # "down"
  /\ crashes < MaxCrashes
  /\ crashes' = crashes + 1
  /\ phase' = [phase EXCEPT ![n] = "down"]
  /\ greenlets' = [greenlets EXCEPT ![n] = {}]
  /\ retrier' = [retrier EXCEPT ![n] = {}]
  /\ handling' = [handling EXCEPT ![n] = Nothing]
  /\ cutoff' = cutoff \cup ({handling[n]} \ {Nothing})
  /\ stranded' = [stranded EXCEPT ![n] = @ \cup Queued(n)]
  /\ UNCHANGED <<chainState, net>>

(* The state is restored and the chain is polled; events are not handled.  *)
Start(n) ==
  /\ phase[n] = "down"
  /\ phase' = [phase EXCEPT ![n] = "starting"]
  /\ UNCHANGED <<chainState, memory, net, history>>

(* The transport is started.  _initialize_messages_queues reads the queues *)
(* of the chain state and enqueues nothing: its loop is commented out.     *)
InitializeMessagesQueues(n) ==
  /\ phase[n] = "starting"
  /\ phase' = [phase EXCEPT ![n] = "running"]
  /\ UNCHANGED <<chainState, memory, net, history>>

-----------------------------------------------------------------------------
Init ==
  /\ queues = [n \in Nodes |-> [qid \in QueueIds |-> {}]]
  /\ nonce = [n \in Nodes |-> 0]
  /\ accepted = [n \in Nodes |-> 0]
  /\ revealed = [n \in Nodes |-> 0]
  /\ learned = [n \in Nodes |-> {}]
  /\ closed = [n \in Nodes |-> FALSE]
  /\ phase = [n \in Nodes |-> "running"]
  /\ greenlets = [n \in Nodes |-> {}]
  /\ retrier = [n \in Nodes |-> {}]
  /\ handling = [n \in Nodes |-> Nothing]
  /\ net = [n \in Nodes |-> {}]
  /\ crashes = 0
  /\ cutoff = {}
  /\ stranded = [n \in Nodes |-> {}]

Next ==
  \E n \in Nodes :
    \/ SendTransfer(n)
    \/ SendReveal(n)
    \/ ChannelClosed(n)
    \/ OnMessage(n)
    \/ Crash(n)
    \/ Start(n)
    \/ InitializeMessagesQueues(n)
    \/ \E m \in greenlets[n] : SendAsync(n, m)
    \/ \E m \in net[n] : ReceiveMessage(n, m) \/ ReceiveDelivered(n, m)
    \/ \E arriving \in SUBSET retrier[n] : CheckAndSend(n, arriving)

Spec == Init /\ [][Next]_vars

(* Greenlets run, the retry queue wakes up every retry_interval, a node is *)
(* restarted, a close is polled by both nodes, the messages that arrive    *)
(* are handled, and what is sent again and again arrives in the end: each  *)
(* transfer, and of the other kinds some message.                          *)
SendsAgain(n, kind) ==
  \E m \in Message : m.kind = kind /\ CheckAndSend(n, {m})

Fairness ==
  \A n \in Nodes :
    /\ WF_vars(\E m \in greenlets[n] : SendAsync(n, m))
    /\ WF_vars(CheckAndSend(n, {}))
    /\ WF_vars(\E m \in net[n] : ReceiveMessage(n, m) \/ ReceiveDelivered(n, m))
    /\ WF_vars(OnMessage(n))
    /\ WF_vars(Start(n))
    /\ WF_vars(InitializeMessagesQueues(n))
    /\ WF_vars(closed[Partner(n)] /\ ChannelClosed(n))
    /\ \A i \in 1..Transfers[n] :
         SF_vars(CheckAndSend(n, {[kind |-> "Transfer", id |-> TransferId(n, i)]}))
    /\ Reveals[n] > 0 => SF_vars(SendsAgain(n, "Reveal"))
    /\ Transfers[Partner(n)] > 0 => SF_vars(SendsAgain(n, "Processed"))
    /\ Transfers[n] + Reveals[Partner(n)] > 0 => SF_vars(SendsAgain(n, "Delivered"))

FairSpec == Spec /\ Fairness

-----------------------------------------------------------------------------
(* Properties.                                                             *)

(* The type of the state; a queue holds only messages that belong there,   *)
(* and no nonce is beyond what was sent.                                   *)
TypeOK ==
  /\ queues \in [Nodes -> [QueueIds -> SUBSET Message]]
  /\ \A n \in Nodes, qid \in QueueIds : \A m \in queues[n][qid] :
       m.kind # "Delivered" /\ queue_identifier(m) = qid
  /\ \A n \in Nodes : nonce[n] \in 0..Transfers[n]
  /\ \A n \in Nodes : accepted[n] \in 0..nonce[Partner(n)]
  /\ \A n \in Nodes : revealed[n] \in 0..Reveals[n]
  /\ learned \in [Nodes -> SUBSET RevealIds]
  /\ closed \in [Nodes -> BOOLEAN]
  /\ phase \in [Nodes -> {"down", "starting", "running"}]
  /\ greenlets \in [Nodes -> SUBSET Message]
  /\ retrier \in [Nodes -> SUBSET Message]
  /\ handling \in [Nodes -> Message \cup {Nothing}]
  /\ net \in [Nodes -> SUBSET Message]
  /\ crashes \in 0..MaxCrashes
  /\ cutoff \subseteq Message
  /\ stranded \in [Nodes -> SUBSET Message]

(* A message with a balance proof leaves its queue only when the partner   *)
(* has accepted it or the channel is closed: the nonces the partner waits  *)
(* for are never dropped, whatever is lost, answered late or restarted     *)
(* (node.py, inplace_delete_message_queue).                                *)
UnacceptedStaysQueued ==
  \A n \in Nodes : ~closed[n] =>
    \A i \in (accepted[Partner(n)] + 1)..nonce[n] :
      [kind |-> "Transfer", id |-> TransferId(n, i)] \in queues[n]["channel"]

(* The answer to a transfer is kept until the sender has taken it up, and  *)
(* a reveal until the receiver has: the only way to lose one is a crash of *)
(* the receiver between its Delivered and its state change (transport.py,  *)
(* _receive_message).                                                      *)
GlobalLostOnlyByCutoff ==
  \A n \in Nodes :
    LET kept(m) == m \in queues[n]["global"] \cup {handling[Partner(n)]} \cup cutoff
    IN  /\ \A i \in 1..revealed[n] :
             LET m == [kind |-> "Reveal", id |-> RevealId(n, i)]
             IN  m.id \in learned[Partner(n)] \/ kept(m)
        /\ \A i \in 1..accepted[n] :
             LET id == TransferId(Partner(n), i)
             IN  \/ [kind |-> "Transfer", id |-> id] \notin queues[Partner(n)]["channel"]
                 \/ kept([kind |-> "Processed", id |-> id])

(* In the end every message leaves its queue, except what a restart        *)
(* stranded and what waits for a stranded message: the transfers after it, *)
(* or the transfer whose Processed it is.  A lost message is sent again,   *)
(* a lost answer is given again (transport.py, _check_and_send).           *)
Stranded(n, m) == m \in stranded[n] \cap Queued(n)

WaitsForStranded(n, m) ==
  \/ Stranded(n, m)
  \/ \E i \in 1..nonce[n] :
       /\ m = [kind |-> "Transfer", id |-> TransferId(n, i)]
       /\ \/ /\ i > accepted[Partner(n)]
             /\ Stranded(n, [kind |-> "Transfer",
                             id |-> TransferId(n, accepted[Partner(n)] + 1)])
          \/ Stranded(Partner(n), [kind |-> "Processed", id |-> m.id])

EventuallyDrained ==
  <>[](\A n \in Nodes : \A m \in Queued(n) : WaitsForStranded(n, m))

(* After a restart the queued messages are sent: "Incomplete events, i.e.  *)
(* the ones which don't have their side-effects applied, will be executed  *)
(* once the blockchain state is synchronized because of the node's queues" *)
(* (raiden_service.py:360).                                                *)
QueuesSentAfterRestart ==
  \A n \in Nodes : \A m \in Message :
    (m \in queues[n]["channel"]) ~> (m \notin queues[n]["channel"])
=============================================================================
