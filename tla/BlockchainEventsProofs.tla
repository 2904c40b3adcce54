----------------------- MODULE BlockchainEventsProofs -----------------------
(***************************************************************************)
(* Proofs about BlockchainEvents, for any contracts, confirmations, range  *)
(* of a query, chain and crashes: its safety invariants.                   *)
(***************************************************************************)
EXTENDS BlockchainEvents, SequenceTheorems, TLAPS

ListenerRecord == [contract : Contracts, fromBlock : 0 .. Len(chain), last_block : -1 .. Len(chain)]

(* The event is on the chain.                                              *)
OnChain(e) ==
  /\ e \in Events /\ e.block <= Len(chain)
  /\ [contract |-> e.contract, network |-> e.network] \in chain[e.block]

Waiting == {poll.entries[i] : i \in 1 .. Len(poll.entries)}

(* A token network is created once, before it logs anything.               *)
ChainInv ==
  /\ \A b \in 1 .. Len(chain) : \A l \in chain[b] : l.contract \in TokenNetworks =>
       \E c \in 1 .. b : [contract |-> Registry, network |-> l.contract] \in chain[c]
  /\ \A b, c \in 1 .. Len(chain) : \A l \in chain[b], m \in chain[c] :
       l.network = m.network /\ l.network # NoNetwork => b = c

(* A poll is under way only while the process polls, and the walk is       *)
(* within the listeners or just past them.                                 *)
PollInv ==
  /\ pc \in {"down", "idle"} => poll = NoPoll
  /\ pc = "down" => listeners = <<>>
  /\ poll.next \in 1 .. Len(listeners) + 1

(* Only events of the chain are applied or wait to be, those of a token    *)
(* network when the network itself was applied before.                     *)
EventsInv ==
  /\ \A e \in Applied \cup Waiting : OnChain(e)
  /\ \A e \in Waiting : e.contract \in TokenNetworks => e.contract \in TokenNetworkIdentifiers

(* The node listens to the registries and the token networks it knows.     *)
ListenersInv ==
  /\ pc # "down" =>
       \A c \in {Registry, SecretRegistry} \cup TokenNetworkIdentifiers :
         \E i \in 1 .. Len(listeners) : listeners[i].contract = c
  /\ \A i \in 1 .. Len(listeners) :
       listeners[i].contract \in TokenNetworks => listeners[i].contract \in TokenNetworkIdentifiers

(* What a filter will not query again is applied or waits to be.           *)
CoverInv ==
  \A i \in 1 .. Len(listeners) : \A e \in Events :
    OnChain(e) /\ e.contract = listeners[i].contract /\ e.block < FirstBlock(listeners[i])
      => e \in Applied \cup Waiting

(* The listeners that were asked in this poll are past its last block.     *)
PolledInv ==
  \A i \in 1 .. Len(listeners) : i < poll.next => FirstBlock(listeners[i]) > poll.to

(* The loop over the ranges leaves no gap.                                 *)
QueryInv ==
  pc = "querying" =>
    /\ poll.next <= Len(listeners)
    /\ listeners[poll.next].fromBlock <= poll.from
    /\ IF poll.from <= poll.to THEN poll.from <= FirstBlock(listeners[poll.next])
       ELSE FirstBlock(listeners[poll.next]) > poll.to

(* The entries that wait are in chain order.                               *)
OrderInv ==
  \A j \in 1 .. Len(poll.entries) : \A f \in Events :
    OnChain(f) /\ f.contract = poll.entries[j].contract /\ f.block < poll.entries[j].block
      => f \in Applied \/ \E k \in 1 .. j - 1 : poll.entries[k] = f

IInv ==
  /\ TypeOK /\ ChainInv /\ PollInv /\ EventsInv /\ ListenersInv /\ CoverInv
  /\ PolledInv /\ QueryInv /\ OrderInv /\ NoEventLost /\ AppliedInChainOrder

-----------------------------------------------------------------------------
(* The operators of the model.                                             *)

LEMMA Types ==
  ASSUME TypeOK
  PROVE  /\ Len(chain) \in Nat /\ Len(chain) <= MaxBlock
         /\ Len(listeners) \in Nat /\ Len(state_changes) \in Nat /\ Len(poll.entries) \in Nat
         /\ listeners \in Seq(ListenerRecord)
         /\ \A i \in 1 .. Len(listeners) : listeners[i] \in ListenerRecord
         /\ poll.entries \in Seq(Events)
         /\ \A i \in 1 .. Len(poll.entries) : poll.entries[i] \in Events
         /\ \A i \in 1 .. Len(state_changes) : state_changes[i] \in Events
         /\ poll.to \in 0 .. Len(chain) /\ poll.latest \in 0 .. Len(chain)
         /\ poll.next \in Nat /\ poll.from \in Nat
         /\ block_number \in 0 .. Len(chain)
<1>1. chain \in Seq(SUBSET Logs) /\ Len(chain) <= MaxBlock /\ block_number \in 0 .. Len(chain)
  BY DEF TypeOK
<1>2. Len(chain) \in Nat
  BY <1>1, LenProperties
<1>3. listeners \in Seq(ListenerRecord) /\ state_changes \in Seq(Events)
  BY DEF TypeOK, ListenerRecord
<1>4. /\ poll.entries \in Seq(Events)
      /\ poll.to \in 0 .. Len(chain) /\ poll.latest \in 0 .. Len(chain)
      /\ poll.next \in Nat /\ poll.from \in Nat
  BY DEF TypeOK
<1>5. /\ Len(listeners) \in Nat /\ Len(state_changes) \in Nat /\ Len(poll.entries) \in Nat
      /\ \A i \in 1 .. Len(listeners) : listeners[i] \in ListenerRecord
      /\ \A i \in 1 .. Len(poll.entries) : poll.entries[i] \in Events
      /\ \A i \in 1 .. Len(state_changes) : state_changes[i] \in Events
  BY <1>3, <1>4, LenProperties, ElementOfSeq
<1> QED
  BY <1>1, <1>2, <1>3, <1>4, <1>5

LEMMA EventType ==
  ASSUME NEW e \in Events
  PROVE  /\ e.contract \in Contracts /\ e.network \in TokenNetworks \cup {NoNetwork}
         /\ e.block \in Nat /\ e.block >= 1
BY BlocksAssumption DEF Events

LEMMA FirstBlockType ==
  ASSUME TypeOK, NEW l \in ListenerRecord
  PROVE  /\ FirstBlock(l) \in Nat /\ FirstBlock(l) <= Len(chain) + 1
         /\ l.fromBlock \in Nat /\ l.last_block \in Int
         /\ l.fromBlock <= FirstBlock(l) /\ l.last_block + 1 <= FirstBlock(l)
<1>1. Len(chain) \in Nat
  BY Types
<1>2. l.fromBlock \in 0 .. Len(chain) /\ l.last_block \in -1 .. Len(chain)
  BY DEF ListenerRecord
<1> QED
  BY <1>1, <1>2 DEF FirstBlock

LEMMA UpTo ==
  ASSUME NEW n
  PROVE  \A e : e \in EventsUpTo(n) <=> OnChain(e) /\ e.block <= n
BY DEF EventsUpTo, OnChain

(* What eth_getLogs answers.                                               *)
LEMMA Answer ==
  ASSUME NEW contract, NEW from, NEW to, NEW result \in getLogs(contract, from, to)
  PROVE  /\ result \in Seq(Events) /\ Len(result) \in Nat
         /\ \A i \in 1 .. Len(result) :
              /\ OnChain(result[i]) /\ result[i].contract = contract
              /\ result[i].block \in from .. to
         /\ \A e \in Events :
              OnChain(e) /\ e.contract = contract /\ e.block \in from .. to
                => \E i \in 1 .. Len(result) : result[i] = e
         /\ \A i, j \in 1 .. Len(result) : i < j => result[i].block < result[j].block
<1> DEFINE S == LogsOf(contract, from, to)
<1>1. /\ result \in SeqOf(S, Cardinality(S)) /\ ToSet(result) = S
      /\ \A i, j \in 1 .. Len(result) : i < j => result[i].block < result[j].block
  BY DEF getLogs, Listings
<1>2. \A e \in S : OnChain(e) /\ e.contract = contract /\ e.block \in from .. to
  BY DEF LogsOf, OnChain
<1>3. \A e \in Events :
        OnChain(e) /\ e.contract = contract /\ e.block \in from .. to => e \in S
  BY DEF LogsOf, OnChain
<1>4. S \subseteq Events
  BY DEF LogsOf
<1> HIDE DEF S
<1>5. PICK m \in 0 .. Cardinality(S) : result \in [1 .. m -> S]
  BY <1>1 DEF SeqOf
<1>6. m \in Nat
  OBVIOUS
<1>7. result \in Seq(S) /\ Len(result) = m
  BY <1>5, <1>6
<1>8. \A i \in 1 .. Len(result) : result[i] \in S
  BY <1>5, <1>7
<1>9. \A e \in S : \E i \in 1 .. Len(result) : result[i] = e
  BY <1>1, <1>5, <1>7 DEF ToSet
<1>10. result \in Seq(Events)
  BY <1>4, <1>7, SeqMonotonic
<1> QED
  BY <1>1, <1>2, <1>3, <1>6, <1>7, <1>8, <1>9, <1>10

LEMMA Identifiers ==
  ASSUME NEW c
  PROVE  c \in TokenNetworkIdentifiers <=> c # NoNetwork /\ \E e \in Applied : e.network = c
BY DEF TokenNetworkIdentifiers, Applied

-----------------------------------------------------------------------------
(* The initial state.                                                      *)

LEMMA InitIInv == Init => IInv
<1> SUFFICES ASSUME Init
             PROVE  IInv
  OBVIOUS
<1>1. /\ chain = <<>> /\ state_changes = <<>> /\ block_number = 0
      /\ listeners = <<>> /\ known_block_number = 0 /\ poll = NoPoll /\ pc = "down"
      /\ crashes = 0
  BY DEF Init, GENESIS_BLOCK_NUMBER
<1>2. /\ Len(chain) = 0 /\ Len(state_changes) = 0 /\ Len(listeners) = 0
      /\ poll.entries = <<>> /\ Len(poll.entries) = 0 /\ poll.next = 1 /\ poll.to = 0
      /\ poll.latest = 0 /\ poll.from = 0
  BY <1>1 DEF NoPoll
<1>3. TypeOK
  <2>1. /\ chain \in Seq(SUBSET Logs) /\ state_changes \in Seq(Events)
        /\ listeners \in Seq([contract : Contracts, fromBlock : 0 .. Len(chain),
                              last_block : -1 .. Len(chain)])
    BY <1>1, EmptySeq
  <2>2. <<>> \in Seq(Events)
    BY EmptySeq
  <2>3. poll \in [latest : 0 .. Len(chain), to : 0 .. Len(chain),
                  next : Nat, from : Nat, entries : Seq(Events)]
    BY <1>1, <1>2, <2>2 DEF NoPoll
  <2> QED
    BY <1>1, <1>2, <2>1, <2>3, BlocksAssumption DEF TypeOK
<1>4. \A e : ~ OnChain(e)
  <2>1. \A e \in Events : e.block >= 1 /\ e.block \in Nat
    BY EventType
  <2> QED
    BY <1>2, <2>1 DEF OnChain
<1>5. Applied = {} /\ Waiting = {}
  BY <1>2 DEF Applied, Waiting
<1>6. ChainInv /\ PollInv /\ EventsInv /\ ListenersInv
  BY <1>1, <1>2, <1>5 DEF ChainInv, PollInv, EventsInv, ListenersInv
<1>7. CoverInv /\ PolledInv /\ QueryInv /\ OrderInv
  BY <1>1, <1>2 DEF CoverInv, PolledInv, QueryInv, OrderInv
<1>8. NoEventLost /\ AppliedInChainOrder
  BY <1>2, <1>4, UpTo DEF NoEventLost, AppliedInChainOrder
<1> QED
  BY <1>3, <1>6, <1>7, <1>8 DEF IInv

-----------------------------------------------------------------------------
(* The steps, one lemma per action.                                        *)

LEMMA SameLog ==
  ASSUME UNCHANGED <<chain, state_changes>>
  PROVE  /\ \A e : OnChain(e)' <=> OnChain(e)
         /\ Applied' = Applied /\ TokenNetworkIdentifiers' = TokenNetworkIdentifiers
         /\ ChainInv => ChainInv'
         /\ AppliedInChainOrder => AppliedInChainOrder'
         /\ (NoEventLost /\ UNCHANGED block_number) => NoEventLost'
<1>1. \A e : OnChain(e)' <=> OnChain(e)
  BY DEF OnChain
<1>2. Applied' = Applied /\ TokenNetworkIdentifiers' = TokenNetworkIdentifiers
  BY DEF Applied, TokenNetworkIdentifiers
<1>3. ChainInv => ChainInv'
  BY DEF ChainInv
<1>4. AppliedInChainOrder => AppliedInChainOrder'
  BY DEF AppliedInChainOrder, EventsUpTo
<1>5. (NoEventLost /\ UNCHANGED block_number) => NoEventLost'
  BY <1>2 DEF NoEventLost, EventsUpTo
<1> QED
  BY <1>1, <1>2, <1>3, <1>4, <1>5

LEMMA Stutter == IInv /\ UNCHANGED vars => IInv'
<1> SUFFICES ASSUME IInv, UNCHANGED vars
             PROVE  IInv'
  OBVIOUS
<1>1. /\ chain' = chain /\ state_changes' = state_changes /\ block_number' = block_number
      /\ listeners' = listeners /\ known_block_number' = known_block_number
      /\ poll' = poll /\ pc' = pc /\ crashes' = crashes
  BY DEF vars
<1>2. /\ \A e : OnChain(e)' <=> OnChain(e)
      /\ Applied' = Applied /\ TokenNetworkIdentifiers' = TokenNetworkIdentifiers
      /\ ChainInv' /\ AppliedInChainOrder' /\ NoEventLost'
  BY <1>1, SameLog DEF IInv
<1>3. TypeOK' /\ PollInv' /\ PolledInv' /\ QueryInv'
  BY <1>1 DEF IInv, TypeOK, PollInv, PolledInv, QueryInv
<1>4. Waiting' = Waiting
  BY <1>1 DEF Waiting
<1>5. EventsInv' /\ ListenersInv' /\ CoverInv' /\ OrderInv'
  BY <1>1, <1>2, <1>4 DEF IInv, EventsInv, ListenersInv, CoverInv, OrderInv
<1> QED
  BY <1>2, <1>3, <1>5 DEF IInv

LEMMA MaybeRunCallbacksStep == IInv /\ MaybeRunCallbacks => IInv'
<1> SUFFICES ASSUME IInv, MaybeRunCallbacks
             PROVE  IInv'
  OBVIOUS
<1> DEFINE to == IF Len(chain) - CONFIRMATION_BLOCKS > 0 THEN Len(chain) - CONFIRMATION_BLOCKS ELSE 0
<1>1. /\ pc = "idle" /\ pc' = "polling"
      /\ poll' = [NoPoll EXCEPT !.latest = Len(chain), !.to = to]
      /\ chain' = chain /\ state_changes' = state_changes /\ block_number' = block_number
      /\ listeners' = listeners /\ known_block_number' = known_block_number /\ crashes' = crashes
  BY DEF MaybeRunCallbacks, GENESIS_BLOCK_NUMBER
<1>2. TypeOK /\ Len(chain) \in Nat /\ Len(listeners) \in Nat
  BY Types DEF IInv
<1>3. to \in 0 .. Len(chain)
  BY <1>2, BlocksAssumption
<1> HIDE DEF to
<1>4. poll' = [latest |-> Len(chain), to |-> to, next |-> 1, from |-> 0, entries |-> <<>>]
  BY <1>1 DEF NoPoll
<1>5. poll.entries = <<>>
  BY <1>1 DEF IInv, PollInv, NoPoll
<1>6. /\ \A e : OnChain(e)' <=> OnChain(e)
      /\ Applied' = Applied /\ TokenNetworkIdentifiers' = TokenNetworkIdentifiers
      /\ ChainInv' /\ AppliedInChainOrder' /\ NoEventLost'
  BY <1>1, SameLog DEF IInv
<1>7. poll'.next = 1 /\ poll'.entries = poll.entries /\ poll'.to = to /\ Waiting' = Waiting
  BY <1>4, <1>5 DEF Waiting
<1>8. TypeOK'
  <2>1. <<>> \in Seq(Events)
    BY EmptySeq
  <2>2. poll' \in [latest : 0 .. Len(chain), to : 0 .. Len(chain),
                   next : Nat, from : Nat, entries : Seq(Events)]
    BY <1>2, <1>3, <1>4, <2>1
  <2> QED
    BY <1>1, <1>2, <2>2 DEF TypeOK
<1>9. PollInv' /\ PolledInv' /\ QueryInv'
  BY <1>1, <1>2, <1>7 DEF PollInv, PolledInv, QueryInv
<1>10. EventsInv' /\ ListenersInv' /\ CoverInv' /\ OrderInv'
  BY <1>1, <1>6, <1>7 DEF IInv, EventsInv, ListenersInv, CoverInv, OrderInv
<1> QED
  BY <1>6, <1>8, <1>9, <1>10 DEF IInv

LEMMA PollListenerStep == IInv /\ PollListener => IInv'
<1> SUFFICES ASSUME IInv, PollListener
             PROVE  IInv'
  OBVIOUS
<1> DEFINE l == listeners[poll.next]
<1>1. /\ pc' = "querying" /\ poll' = [poll EXCEPT !.from = FirstBlock(l)]
      /\ poll.next <= Len(listeners)
      /\ chain' = chain /\ state_changes' = state_changes /\ block_number' = block_number
      /\ listeners' = listeners /\ known_block_number' = known_block_number /\ crashes' = crashes
  BY DEF PollListener
<1>2. TypeOK /\ Len(chain) \in Nat /\ Len(listeners) \in Nat /\ poll.to \in Nat
  BY Types DEF IInv
<1>3. poll.next \in 1 .. Len(listeners)
  BY <1>1, <1>2 DEF IInv, PollInv
<1>4. l \in ListenerRecord
  BY <1>2, <1>3, Types
<1>5. /\ FirstBlock(l) \in Nat /\ l.fromBlock <= FirstBlock(l)
  BY <1>2, <1>4, FirstBlockType
<1>6. /\ poll'.next = poll.next /\ poll'.entries = poll.entries /\ poll'.to = poll.to
      /\ poll'.from = FirstBlock(l)
      /\ poll' \in [latest : 0 .. Len(chain), to : 0 .. Len(chain),
                    next : Nat, from : Nat, entries : Seq(Events)]
  BY <1>1, <1>2, <1>5 DEF TypeOK
<1>7. Waiting' = Waiting
  BY <1>6 DEF Waiting
<1>8. /\ \A e : OnChain(e)' <=> OnChain(e)
      /\ Applied' = Applied /\ TokenNetworkIdentifiers' = TokenNetworkIdentifiers
      /\ ChainInv' /\ AppliedInChainOrder' /\ NoEventLost'
  BY <1>1, SameLog DEF IInv
<1>9. TypeOK'
  BY <1>1, <1>2, <1>6 DEF TypeOK
<1>10. PollInv' /\ PolledInv'
  BY <1>1, <1>6 DEF IInv, PollInv, PolledInv
<1>11. QueryInv'
  <2>1. IF FirstBlock(l) <= poll.to THEN FirstBlock(l) <= FirstBlock(l)
        ELSE FirstBlock(l) > poll.to
    BY <1>2, <1>5
  <2> QED
    BY <1>1, <1>3, <1>5, <1>6, <2>1 DEF QueryInv
<1>12. EventsInv' /\ CoverInv' /\ OrderInv'
  BY <1>1, <1>6, <1>7, <1>8 DEF IInv, EventsInv, CoverInv, OrderInv
<1>13. ListenersInv'
  BY <1>1, <1>8 DEF IInv, ListenersInv, PollListener
<1> QED
  BY <1>8, <1>9, <1>10, <1>11, <1>12, <1>13 DEF IInv

LEMMA ReturnEntriesStep == IInv /\ ReturnEntries => IInv'
<1> SUFFICES ASSUME IInv, ReturnEntries
             PROVE  IInv'
  OBVIOUS
<1>1. /\ pc = "querying" /\ poll.from > poll.to
      /\ pc' = "polling" /\ poll' = [poll EXCEPT !.next = poll.next + 1, !.from = 0]
      /\ chain' = chain /\ state_changes' = state_changes /\ block_number' = block_number
      /\ listeners' = listeners /\ known_block_number' = known_block_number /\ crashes' = crashes
  BY DEF ReturnEntries
<1>2. /\ TypeOK /\ Len(chain) \in Nat /\ Len(listeners) \in Nat /\ poll.to \in Nat
      /\ poll.next \in Nat /\ poll.from \in Nat
  BY Types DEF IInv
<1>3. poll.next \in 1 .. Len(listeners) /\ FirstBlock(listeners[poll.next]) > poll.to
  BY <1>1, <1>2 DEF IInv, PollInv, QueryInv
<1>4. /\ poll'.next = poll.next + 1 /\ poll'.entries = poll.entries /\ poll'.to = poll.to
      /\ poll' \in [latest : 0 .. Len(chain), to : 0 .. Len(chain),
                    next : Nat, from : Nat, entries : Seq(Events)]
  <2>1. poll \in [latest : 0 .. Len(chain), to : 0 .. Len(chain),
                  next : Nat, from : Nat, entries : Seq(Events)]
    BY <1>2 DEF TypeOK
  <2>2. poll.next + 1 \in Nat /\ 0 \in Nat
    BY <1>2
  <2> QED
    BY <1>1, <2>1, <2>2
<1>5. Waiting' = Waiting
  BY <1>4 DEF Waiting
<1>6. /\ \A e : OnChain(e)' <=> OnChain(e)
      /\ Applied' = Applied /\ TokenNetworkIdentifiers' = TokenNetworkIdentifiers
      /\ ChainInv' /\ AppliedInChainOrder' /\ NoEventLost'
  BY <1>1, SameLog DEF IInv
<1>7. TypeOK'
  BY <1>1, <1>2, <1>4 DEF TypeOK
<1>8. PollInv' /\ QueryInv'
  BY <1>1, <1>2, <1>3, <1>4 DEF PollInv, QueryInv
<1>9. PolledInv'
  <2>1. \A i \in 1 .. Len(listeners) : i < poll.next + 1 => i < poll.next \/ i = poll.next
    BY <1>2
  <2> QED
    BY <1>1, <1>3, <1>4, <2>1 DEF IInv, PolledInv
<1>10. EventsInv' /\ ListenersInv' /\ CoverInv' /\ OrderInv'
  BY <1>1, <1>4, <1>5, <1>6 DEF IInv, EventsInv, ListenersInv, CoverInv, OrderInv
<1> QED
  BY <1>6, <1>7, <1>8, <1>9, <1>10 DEF IInv

LEMMA CrashStep == IInv /\ Crash => IInv'
<1> SUFFICES ASSUME IInv, Crash
             PROVE  IInv'
  OBVIOUS
<1>1. /\ crashes < MaxCrashes /\ crashes' = crashes + 1 /\ listeners' = <<>>
      /\ known_block_number' = 0 /\ poll' = NoPoll /\ pc' = "down"
      /\ chain' = chain /\ state_changes' = state_changes /\ block_number' = block_number
  BY DEF Crash
<1>2. TypeOK /\ Len(chain) \in Nat
  BY Types DEF IInv
<1>3. /\ Len(listeners') = 0 /\ poll'.entries = <<>> /\ Len(poll'.entries) = 0
      /\ poll'.next = 1 /\ Waiting' = {}
  BY <1>1 DEF NoPoll, Waiting
<1>4. /\ \A e : OnChain(e)' <=> OnChain(e)
      /\ Applied' = Applied /\ TokenNetworkIdentifiers' = TokenNetworkIdentifiers
      /\ ChainInv' /\ AppliedInChainOrder' /\ NoEventLost'
  BY <1>1, SameLog DEF IInv
<1>5. TypeOK'
  <2>1. /\ listeners' \in Seq([contract : Contracts, fromBlock : 0 .. Len(chain),
                               last_block : -1 .. Len(chain)])
        /\ <<>> \in Seq(Events)
    BY <1>1, EmptySeq
  <2>2. poll' \in [latest : 0 .. Len(chain), to : 0 .. Len(chain),
                   next : Nat, from : Nat, entries : Seq(Events)]
    BY <1>1, <1>2, <2>1 DEF NoPoll
  <2>3. crashes' \in 0 .. MaxCrashes /\ known_block_number' \in 0 .. Len(chain)
    <3>1. crashes \in 0 .. MaxCrashes
      BY <1>2 DEF TypeOK
    <3> QED
      BY <1>1, <1>2, <3>1, BlocksAssumption
  <2> QED
    BY <1>1, <1>2, <2>1, <2>2, <2>3 DEF TypeOK
<1>6. PollInv' /\ PolledInv' /\ QueryInv' /\ ListenersInv'
  BY <1>1, <1>3 DEF PollInv, PolledInv, QueryInv, ListenersInv
<1>7. EventsInv' /\ CoverInv' /\ OrderInv'
  BY <1>3, <1>4 DEF IInv, EventsInv, CoverInv, OrderInv
<1> QED
  BY <1>4, <1>5, <1>6, <1>7 DEF IInv

(* When all listeners were asked, every event up to the block of the poll  *)
(* is applied.                                                             *)
LEMMA DispatchBlockStep == IInv /\ DispatchBlock => IInv'
<1> SUFFICES ASSUME IInv, DispatchBlock
             PROVE  IInv'
  OBVIOUS
<1>1. /\ pc = "polling" /\ poll.entries = <<>> /\ poll.next > Len(listeners)
      /\ block_number' = poll.to /\ known_block_number' = poll.latest
      /\ poll' = NoPoll /\ pc' = "idle"
      /\ chain' = chain /\ state_changes' = state_changes
      /\ listeners' = listeners /\ crashes' = crashes
  BY DEF DispatchBlock
<1>2. /\ TypeOK /\ Len(chain) \in Nat /\ Len(listeners) \in Nat /\ poll.next \in Nat
      /\ poll.to \in 0 .. Len(chain) /\ poll.latest \in 0 .. Len(chain)
  BY Types DEF IInv
<1>3. Waiting = {} /\ Waiting' = {} /\ Len(poll'.entries) = 0 /\ poll'.next = 1
  BY <1>1 DEF Waiting, NoPoll
<1>4. /\ \A e : OnChain(e)' <=> OnChain(e)
      /\ Applied' = Applied /\ TokenNetworkIdentifiers' = TokenNetworkIdentifiers
      /\ ChainInv' /\ AppliedInChainOrder'
  BY <1>1, SameLog DEF IInv
<1>5. TypeOK'
  <2>1. <<>> \in Seq(Events)
    BY EmptySeq
  <2>2. poll' \in [latest : 0 .. Len(chain), to : 0 .. Len(chain),
                   next : Nat, from : Nat, entries : Seq(Events)]
    BY <1>1, <1>2, <2>1 DEF NoPoll
  <2> QED
    BY <1>1, <1>2, <2>2 DEF TypeOK
<1>6. PollInv' /\ PolledInv' /\ QueryInv'
  BY <1>1, <1>2, <1>3 DEF PollInv, PolledInv, QueryInv
<1>7. EventsInv' /\ ListenersInv' /\ CoverInv' /\ OrderInv'
  BY <1>1, <1>3, <1>4 DEF IInv, EventsInv, ListenersInv, CoverInv, OrderInv
<1>8. ASSUME NEW e \in Events, OnChain(e), e.block <= poll.to,
             \E i \in 1 .. Len(listeners) : listeners[i].contract = e.contract
      PROVE  e \in Applied
  <2>1. PICK i \in 1 .. Len(listeners) : listeners[i].contract = e.contract
    BY <1>8
  <2>2. FirstBlock(listeners[i]) > poll.to
    BY <1>1, <1>2 DEF IInv, PolledInv
  <2>3. FirstBlock(listeners[i]) \in Nat /\ e.block \in Nat /\ poll.to \in Nat
    BY <1>2, FirstBlockType, EventType, Types
  <2>4. e.block < FirstBlock(listeners[i])
    BY <1>8, <2>2, <2>3
  <2> QED
    BY <1>3, <1>8, <2>1, <2>4 DEF IInv, CoverInv
<1>9. ASSUME NEW e \in Events, OnChain(e), e.block <= poll.to, e.contract \in TokenNetworks
      PROVE  e.contract \in TokenNetworkIdentifiers
  <2>1. e.block \in Nat /\ e.block >= 1 /\ e.block <= Len(chain) /\ poll.to \in Nat
    BY <1>2, <1>9, EventType DEF OnChain
  <2>2. PICK c \in 1 .. e.block : [contract |-> Registry, network |-> e.contract] \in chain[c]
    <3> DEFINE l == [contract |-> e.contract, network |-> e.network]
    <3>1. l \in chain[e.block] /\ l.contract \in TokenNetworks /\ l.contract = e.contract
      BY <1>9 DEF OnChain
    <3>2. e.block \in 1 .. Len(chain)
      BY <1>2, <2>1
    <3> HIDE DEF l
    <3> QED
      BY <3>1, <3>2 DEF IInv, ChainInv
  <2> DEFINE f == [contract |-> Registry, network |-> e.contract, block |-> c]
  <2>3. f \in Events
    <3>1. c \in 1 .. MaxBlock
      BY <1>2, <2>1, BlocksAssumption, Types
    <3> QED
      BY <1>9, <3>1 DEF Events, Contracts
  <2>4. OnChain(f) /\ f.block <= poll.to /\ f.contract = Registry /\ f.network = e.contract
    BY <1>2, <1>9, <2>1, <2>2, <2>3 DEF OnChain
  <2>5. f \in Applied
    <3>1. \E i \in 1 .. Len(listeners) : listeners[i].contract = Registry
      BY <1>1 DEF IInv, ListenersInv
    <3> HIDE DEF f
    <3> QED
      BY <1>8, <2>3, <2>4, <3>1
  <2>6. e.contract # NoNetwork
    BY <1>9, ContractsAssumption
  <2> QED
    BY <2>4, <2>5, <2>6, Identifiers
<1>10. NoEventLost'
  <2> SUFFICES ASSUME NEW e, OnChain(e), e.block <= poll.to
               PROVE  e \in Applied
    BY <1>1, <1>4, UpTo DEF NoEventLost, EventsUpTo, OnChain
  <2>1. e \in Events /\ e.contract \in {Registry, SecretRegistry} \cup TokenNetworks
    BY EventType DEF OnChain, Contracts
  <2>2. e.contract \in {Registry, SecretRegistry} \cup TokenNetworkIdentifiers
    BY <1>9, <2>1
  <2>3. \E i \in 1 .. Len(listeners) : listeners[i].contract = e.contract
    BY <1>1, <2>2 DEF IInv, ListenersInv
  <2> QED
    BY <1>8, <2>1, <2>3
<1> QED
  BY <1>4, <1>5, <1>6, <1>7, <1>10 DEF IInv

LEMMA InstalledListeners ==
  ASSUME TypeOK, NEW networks \in Listings(TokenNetworkIdentifiers)
  PROVE  /\ Installed(networks) \in Seq(ListenerRecord)
         /\ \A i \in 1 .. Len(Installed(networks)) :
              /\ FirstBlock(Installed(networks)[i]) = block_number
              /\ Installed(networks)[i].contract \in TokenNetworks =>
                   Installed(networks)[i].contract \in TokenNetworkIdentifiers
         /\ \A c \in {Registry, SecretRegistry} \cup TokenNetworkIdentifiers :
              \E i \in 1 .. Len(Installed(networks)) : Installed(networks)[i].contract = c
<1> DEFINE first == <<Listener(Registry, block_number), Listener(SecretRegistry, block_number)>>
           rest  == [i \in 1 .. Len(networks) |-> Listener(networks[i], block_number)]
           all   == Installed(networks)
<1>1. /\ networks \in SeqOf(TokenNetworkIdentifiers, Cardinality(TokenNetworkIdentifiers))
      /\ ToSet(networks) = TokenNetworkIdentifiers
  BY DEF Listings
<1>2. PICK m \in 0 .. Cardinality(TokenNetworkIdentifiers) :
        networks \in [1 .. m -> TokenNetworkIdentifiers]
  BY <1>1 DEF SeqOf
<1>3. m \in Nat /\ Len(networks) = m
  BY <1>2
<1>4. \A c \in TokenNetworkIdentifiers : \E i \in 1 .. m : networks[i] = c
  BY <1>1, <1>2 DEF ToSet
<1>5. TokenNetworkIdentifiers \subseteq TokenNetworks
  <2>1. \A i \in 1 .. Len(state_changes) :
          state_changes[i].network \in TokenNetworks \cup {NoNetwork}
    BY Types, EventType
  <2> QED
    BY <2>1 DEF TokenNetworkIdentifiers
<1>6. /\ block_number \in 0 .. Len(chain) /\ Len(chain) \in Nat
  BY Types
<1>7. \A c \in Contracts : /\ Listener(c, block_number) \in ListenerRecord
                           /\ Listener(c, block_number).contract = c
                           /\ FirstBlock(Listener(c, block_number)) = block_number
  BY <1>6 DEF Listener, ListenerRecord, FirstBlock
<1>8. Registry \in Contracts /\ SecretRegistry \in Contracts /\ TokenNetworkIdentifiers \subseteq Contracts
  BY <1>5 DEF Contracts
<1>9. /\ Len(first) = 2 /\ first[1] = Listener(Registry, block_number)
      /\ first[2] = Listener(SecretRegistry, block_number)
      /\ first \in Seq(ListenerRecord)
  BY <1>7, <1>8
<1>10. /\ rest \in Seq(ListenerRecord) /\ Len(rest) = m
       /\ \A i \in 1 .. m : rest[i] = Listener(networks[i], block_number)
  <2>1. \A i \in 1 .. m : networks[i] \in Contracts
    BY <1>2, <1>8
  <2>2. rest \in [1 .. m -> ListenerRecord]
    BY <1>3, <1>7, <2>1
  <2> QED
    BY <1>3, <2>2
<1>11. all = first \o rest
  BY DEF Installed
<1> HIDE DEF first, rest, all
<1>12. /\ all \in Seq(ListenerRecord) /\ Len(all) = 2 + m
       /\ \A i \in 1 .. 2 + m : all[i] = IF i <= 2 THEN first[i] ELSE rest[i - 2]
  <2>1. /\ first \o rest \in Seq(ListenerRecord)
        /\ Len(first \o rest) = Len(first) + Len(rest)
        /\ \A i \in 1 .. Len(first) + Len(rest) :
             (first \o rest)[i] = IF i <= Len(first) THEN first[i] ELSE rest[i - Len(first)]
    BY <1>9, <1>10, ConcatProperties
  <2> QED
    BY <1>9, <1>10, <1>11, <2>1
<1>13. /\ all[1] = Listener(Registry, block_number) /\ all[2] = Listener(SecretRegistry, block_number)
       /\ \A i \in 1 .. m : all[i + 2] = Listener(networks[i], block_number)
  <2>1. 1 \in 1 .. 2 + m /\ 2 \in 1 .. 2 + m
    BY <1>3
  <2>2. \A i \in 1 .. m : i + 2 \in 1 .. 2 + m /\ ~ (i + 2 <= 2) /\ (i + 2) - 2 = i
    BY <1>3
  <2>3. \A i \in 1 .. m : all[i + 2] = rest[i]
    BY <1>12, <2>2
  <2> QED
    BY <1>9, <1>10, <1>12, <2>1, <2>3
<1>14. \A i \in 1 .. 2 + m : i = 1 \/ i = 2 \/ \E j \in 1 .. m : i = j + 2
  <2> SUFFICES ASSUME NEW i \in 1 .. 2 + m, i # 1, i # 2
               PROVE  \E j \in 1 .. m : i = j + 2
    OBVIOUS
  <2>1. i - 2 \in 1 .. m /\ i = (i - 2) + 2
    BY <1>3
  <2> QED
    BY <2>1
<1>15. ASSUME NEW i \in 1 .. Len(all)
       PROVE  \E c \in {Registry, SecretRegistry} \cup TokenNetworkIdentifiers :
                all[i] = Listener(c, block_number)
  BY <1>2, <1>12, <1>13, <1>14
<1>16. \A i \in 1 .. Len(all) :
         /\ FirstBlock(all[i]) = block_number
         /\ all[i].contract \in {Registry, SecretRegistry} \cup TokenNetworkIdentifiers
  BY <1>7, <1>8, <1>15
<1>17. \A c \in {Registry, SecretRegistry} \cup TokenNetworkIdentifiers :
         \E i \in 1 .. Len(all) : all[i].contract = c
  <2>1. 1 \in 1 .. Len(all) /\ 2 \in 1 .. Len(all) /\ \A i \in 1 .. m : i + 2 \in 1 .. Len(all)
    BY <1>3, <1>12
  <2> QED
    BY <1>4, <1>7, <1>8, <1>13, <2>1, SMTT(30)
<1>18. \A i \in 1 .. Len(all) :
         all[i].contract \in TokenNetworks => all[i].contract \in TokenNetworkIdentifiers
  BY <1>16, ContractsAssumption
<1> QED
  BY <1>12, <1>16, <1>17, <1>18 DEF all

LEMMA StartStep == IInv /\ Start => IInv'
<1> SUFFICES ASSUME IInv, Start
             PROVE  IInv'
  OBVIOUS
<1>1. /\ pc = "down" /\ pc' = "idle" /\ known_block_number' = block_number
      /\ chain' = chain /\ state_changes' = state_changes /\ block_number' = block_number
      /\ poll' = poll /\ crashes' = crashes
  BY DEF Start
<1>2. /\ TypeOK /\ block_number \in 0 .. Len(chain) /\ Len(chain) \in Nat
  BY Types DEF IInv
<1>3. PICK networks \in Listings(TokenNetworkIdentifiers) : listeners' = Installed(networks)
  BY DEF Start
<1>4. /\ listeners' \in Seq(ListenerRecord)
      /\ \A i \in 1 .. Len(listeners') :
           /\ FirstBlock(listeners'[i]) = block_number
           /\ listeners'[i].contract \in TokenNetworks =>
                listeners'[i].contract \in TokenNetworkIdentifiers
      /\ \A c \in {Registry, SecretRegistry} \cup TokenNetworkIdentifiers :
           \E i \in 1 .. Len(listeners') : listeners'[i].contract = c
  BY <1>2, <1>3, InstalledListeners
<1>5. /\ \A e : OnChain(e)' <=> OnChain(e)
      /\ Applied' = Applied /\ TokenNetworkIdentifiers' = TokenNetworkIdentifiers
      /\ ChainInv' /\ AppliedInChainOrder' /\ NoEventLost'
  BY <1>1, SameLog DEF IInv
<1>6. poll = NoPoll /\ poll.next = 1 /\ Len(listeners') \in Nat /\ Waiting' = Waiting
  <2>1. poll = NoPoll
    BY <1>1 DEF IInv, PollInv
  <2> QED
    BY <1>1, <1>4, <2>1, LenProperties DEF NoPoll, Waiting
<1>7. TypeOK'
  BY <1>1, <1>2, <1>4 DEF TypeOK, ListenerRecord
<1>8. PollInv' /\ PolledInv' /\ QueryInv'
  BY <1>1, <1>6 DEF PollInv, PolledInv, QueryInv
<1>9. EventsInv' /\ OrderInv'
  BY <1>1, <1>5, <1>6 DEF IInv, EventsInv, OrderInv
<1>10. ListenersInv'
  BY <1>4, <1>5 DEF ListenersInv
<1>11. CoverInv'
  <2> SUFFICES ASSUME NEW i \in 1 .. Len(listeners'), NEW e \in Events, OnChain(e),
                      e.block < FirstBlock(listeners'[i])
               PROVE  e \in Applied
    BY <1>5 DEF CoverInv, FirstBlock
  <2>1. e.block <= block_number
    BY <1>2, <1>4, EventType
  <2> QED
    BY <2>1, UpTo DEF IInv, NoEventLost
<1> QED
  BY <1>5, <1>7, <1>8, <1>9, <1>10, <1>11 DEF IInv

(* A new block is past everything that was queried.                        *)
LEMMA MineBlockStep == IInv /\ MineBlock => IInv'
<1> SUFFICES ASSUME IInv, MineBlock
             PROVE  IInv'
  OBVIOUS
<1>1. PICK logs \in SUBSET Logs :
        /\ \A l \in logs :
             /\ l.network \notin Created
             /\ l.contract \in TokenNetworks =>
                  \/ l.contract \in Created
                  \/ \E m \in logs : m.network = l.contract
        /\ chain' = Append(chain, logs)
  BY DEF MineBlock
<1>2. /\ Len(chain) < MaxBlock
      /\ state_changes' = state_changes /\ block_number' = block_number
      /\ listeners' = listeners /\ known_block_number' = known_block_number
      /\ poll' = poll /\ pc' = pc /\ crashes' = crashes
  BY DEF MineBlock
<1>3. TypeOK /\ Len(chain) \in Nat /\ chain \in Seq(SUBSET Logs)
  BY Types DEF IInv, TypeOK
<1>4. /\ chain' \in Seq(SUBSET Logs) /\ Len(chain') = Len(chain) + 1
      /\ \A b \in 1 .. Len(chain) : chain'[b] = chain[b]
      /\ chain'[Len(chain) + 1] = logs
  BY <1>1, <1>3, AppendProperties
<1>5. /\ \A e : OnChain(e) => OnChain(e)'
      /\ \A e \in Events : OnChain(e)' /\ e.block <= Len(chain) => OnChain(e)
  <2>1. \A e \in Events : e.block \in Nat /\ e.block >= 1
    BY EventType
  <2>2. \A e \in Events : e.block <= Len(chain) =>
          chain'[e.block] = chain[e.block] /\ e.block <= Len(chain')
    BY <1>3, <1>4, <2>1
  <2> QED
    BY <2>2 DEF OnChain
<1>6. Applied' = Applied /\ Waiting' = Waiting /\ TokenNetworkIdentifiers' = TokenNetworkIdentifiers
  BY <1>2 DEF Applied, Waiting, TokenNetworkIdentifiers
<1>7. TypeOK'
  <2>1. 0 .. Len(chain) \subseteq 0 .. Len(chain') /\ -1 .. Len(chain) \subseteq -1 .. Len(chain')
    BY <1>3, <1>4
  <2>2. listeners' \in Seq([contract : Contracts, fromBlock : 0 .. Len(chain'),
                            last_block : -1 .. Len(chain')])
    <3> DEFINE new == [contract : Contracts, fromBlock : 0 .. Len(chain'),
                       last_block : -1 .. Len(chain')]
    <3>1. ListenerRecord \subseteq new
      BY <2>1 DEF ListenerRecord
    <3>2. listeners \in Seq(ListenerRecord)
      BY <1>3, Types
    <3> HIDE DEF new
    <3>3. listeners \in Seq(new)
      BY <3>1, <3>2, SeqMonotonic
    <3> QED
      BY <1>2, <3>3 DEF new
  <2>3. poll' \in [latest : 0 .. Len(chain'), to : 0 .. Len(chain'),
                   next : Nat, from : Nat, entries : Seq(Events)]
    <3>1. poll \in [latest : 0 .. Len(chain), to : 0 .. Len(chain),
                    next : Nat, from : Nat, entries : Seq(Events)]
      BY <1>3 DEF TypeOK
    <3> QED
      BY <1>2, <2>1, <3>1
  <2>4. /\ block_number' \in 0 .. Len(chain') /\ known_block_number' \in 0 .. Len(chain')
        /\ Len(chain') <= MaxBlock
    BY <1>2, <1>3, <1>4, <2>1, BlocksAssumption DEF TypeOK
  <2> QED
    BY <1>2, <1>3, <1>4, <2>2, <2>3, <2>4 DEF TypeOK
<1>8. ChainInv'
  <2>1. ASSUME NEW b \in 1 .. Len(chain'), NEW l \in chain'[b], l.contract \in TokenNetworks
        PROVE  \E c \in 1 .. b : [contract |-> Registry, network |-> l.contract] \in chain'[c]
    <3>1. CASE b \in 1 .. Len(chain)
      <4>1. PICK c \in 1 .. b : [contract |-> Registry, network |-> l.contract] \in chain[c]
        BY <1>4, <2>1, <3>1 DEF IInv, ChainInv
      <4>2. c \in 1 .. Len(chain)
        BY <1>3, <3>1
      <4> QED
        BY <1>4, <4>1, <4>2
    <3>2. CASE b \notin 1 .. Len(chain)
      <4>1. b = Len(chain) + 1 /\ l \in logs
        BY <1>3, <1>4, <3>2
      <4>2. \A m \in Logs : m.network = l.contract =>
              m = [contract |-> Registry, network |-> l.contract]
        BY <2>1, ContractsAssumption DEF Logs
      <4>3. CASE l.contract \in Created
        <5>1. PICK c \in 1 .. Len(chain) : \E m \in chain[c] : m.network = l.contract
          BY <4>3 DEF Created
        <5>2. chain[c] \subseteq Logs
          BY <1>3, ElementOfSeq
        <5>3. [contract |-> Registry, network |-> l.contract] \in chain[c]
          BY <4>2, <5>1, <5>2
        <5>4. c \in 1 .. b /\ chain'[c] = chain[c]
          BY <1>3, <1>4, <4>1
        <5> QED
          BY <5>3, <5>4
      <4>4. CASE \E m \in logs : m.network = l.contract
        <5>1. [contract |-> Registry, network |-> l.contract] \in chain'[b]
          BY <1>4, <4>1, <4>2, <4>4
        <5>2. b \in 1 .. b
          BY <1>3, <4>1
        <5> QED
          BY <5>1, <5>2
      <4> QED
        BY <1>1, <2>1, <4>1, <4>3, <4>4
    <3> QED
      BY <3>1, <3>2
  <2>2. ASSUME NEW b \in 1 .. Len(chain), NEW l \in chain[b], NEW m \in logs,
               l.network = m.network, l.network # NoNetwork
        PROVE  FALSE
    <3>1. l.network \in Created
      BY <2>2 DEF Created
    <3> QED
      BY <1>1, <2>2, <3>1
  <2>3. ASSUME NEW b \in 1 .. Len(chain'), NEW c \in 1 .. Len(chain'),
               NEW l \in chain'[b], NEW m \in chain'[c],
               l.network = m.network, l.network # NoNetwork
        PROVE  b = c
    <3>1. /\ b \in 1 .. Len(chain) \/ b = Len(chain) + 1
          /\ c \in 1 .. Len(chain) \/ c = Len(chain) + 1
      BY <1>3, <1>4
    <3> QED
      BY <1>4, <2>2, <2>3, <3>1 DEF IInv, ChainInv
  <2> QED
    BY <2>1, <2>3 DEF ChainInv
<1>9. PollInv' /\ PolledInv' /\ QueryInv' /\ ListenersInv'
  BY <1>2, <1>6 DEF IInv, PollInv, PolledInv, QueryInv, ListenersInv, FirstBlock
<1>10. EventsInv'
  BY <1>5, <1>6 DEF IInv, EventsInv
<1>11. CoverInv'
  <2> SUFFICES ASSUME NEW i \in 1 .. Len(listeners), NEW e \in Events, OnChain(e)',
                      e.contract = listeners[i].contract, e.block < FirstBlock(listeners[i])
               PROVE  e \in Applied \cup Waiting
    BY <1>2, <1>6 DEF CoverInv, FirstBlock
  <2>1. FirstBlock(listeners[i]) \in Nat /\ FirstBlock(listeners[i]) <= Len(chain) + 1
    BY <1>3, Types, FirstBlockType
  <2>2. e.block <= Len(chain)
    BY <1>3, <2>1, EventType
  <2> QED
    BY <1>5, <2>2 DEF IInv, CoverInv
<1>12. OrderInv'
  <2> SUFFICES ASSUME NEW j \in 1 .. Len(poll.entries), NEW f \in Events, OnChain(f)',
                      f.contract = poll.entries[j].contract, f.block < poll.entries[j].block
               PROVE  f \in Applied \/ \E k \in 1 .. j - 1 : poll.entries[k] = f
    BY <1>2, <1>6 DEF OrderInv
  <2>1. OnChain(poll.entries[j])
    BY DEF IInv, EventsInv, Waiting
  <2>2. f.block <= Len(chain)
    BY <1>3, <2>1, EventType DEF OnChain
  <2> QED
    BY <1>5, <2>2 DEF IInv, OrderInv
<1>13. NoEventLost'
  <2> SUFFICES ASSUME NEW e, OnChain(e)', e.block <= block_number
               PROVE  e \in Applied
    BY <1>2, <1>6 DEF NoEventLost, EventsUpTo, OnChain
  <2>1. e \in Events /\ e.block \in Nat
    BY EventType DEF OnChain
  <2>2. e.block <= Len(chain)
    BY <1>3, <2>1 DEF TypeOK
  <2> QED
    BY <1>5, <2>1, <2>2, UpTo DEF IInv, NoEventLost
<1>14. AppliedInChainOrder'
  <2> SUFFICES ASSUME NEW i \in 1 .. Len(state_changes)
               PROVE  LET before == {state_changes[j] : j \in 1 .. i - 1}
                          e == state_changes[i]
                      IN  /\ \A f : OnChain(f)' /\ f.block <= e.block - 1 /\ f.contract = e.contract
                                      => f \in before
                          /\ e.contract \in TokenNetworks => \E f \in before : f.network = e.contract
    BY <1>2 DEF AppliedInChainOrder, EventsUpTo, OnChain
  <2> DEFINE before == {state_changes[j] : j \in 1 .. i - 1}
             e == state_changes[i]
  <2>1. /\ {f \in EventsUpTo(e.block - 1) : f.contract = e.contract} \subseteq before
        /\ e.contract \in TokenNetworks => \E f \in before : f.network = e.contract
    BY DEF IInv, AppliedInChainOrder
  <2>2. OnChain(e) /\ e \in Events /\ e.block \in Nat
    <3>1. e \in Applied
      BY DEF Applied
    <3> HIDE DEF e
    <3>2. OnChain(e)
      BY <3>1 DEF IInv, EventsInv
    <3> QED
      BY <3>2, EventType DEF OnChain
  <2> HIDE DEF before, e
  <2>3. ASSUME NEW f, OnChain(f)', f.block <= e.block - 1, f.contract = e.contract
        PROVE  f \in before
    <3>1. f \in Events /\ f.block \in Nat
      BY <2>3, EventType DEF OnChain
    <3>2. f.block <= Len(chain)
      BY <1>3, <2>2, <2>3, <3>1 DEF OnChain
    <3>3. OnChain(f)
      BY <1>5, <2>3, <3>1, <3>2
    <3>4. f \in EventsUpTo(e.block - 1)
      BY <2>3, <3>3, UpTo
    <3> QED
      BY <2>1, <2>3, <3>4
  <2> QED
    BY <2>1, <2>3 DEF before, e
<1> QED
  BY <1>7, <1>8, <1>9, <1>10, <1>11, <1>12, <1>13, <1>14 DEF IInv

(* A range is asked for and its answer is appended: the filter is past the *)
(* range, whose events all wait.                                           *)
LEMMA GetNewEntriesStep == IInv /\ GetNewEntries => IInv'
<1> SUFFICES ASSUME IInv, GetNewEntries
             PROVE  IInv'
  OBVIOUS
<1> DEFINE n  == poll.next
           l  == listeners[n]
           R  == FILTER_MAX_BLOCK_RANGE
           tb == IF poll.from + R < poll.to THEN poll.from + R ELSE poll.to
           l2 == [l EXCEPT !.last_block = tb]
<1>1. /\ pc = "querying" /\ poll.from <= poll.to
      /\ listeners' = [listeners EXCEPT ![n].last_block = tb]
      /\ chain' = chain /\ state_changes' = state_changes /\ block_number' = block_number
      /\ known_block_number' = known_block_number /\ pc' = pc /\ crashes' = crashes
  BY DEF GetNewEntries
<1>2. PICK result \in getLogs(l.contract, poll.from, tb) :
        poll' = [poll EXCEPT !.entries = poll.entries \o result, !.from = poll.from + R]
  BY DEF GetNewEntries
<1>3. /\ TypeOK /\ Len(chain) \in Nat /\ Len(listeners) \in Nat /\ Len(poll.entries) \in Nat
      /\ poll.to \in 0 .. Len(chain) /\ n \in Nat /\ poll.from \in Nat
      /\ listeners \in Seq(ListenerRecord) /\ poll.entries \in Seq(Events)
  BY Types DEF IInv
<1>4. R \in Nat /\ R >= 1
  BY BlocksAssumption
<1>5. /\ tb \in 0 .. Len(chain) /\ poll.from <= tb /\ tb <= poll.to
      /\ poll.from + R <= poll.to => poll.from + R <= tb + 1
      /\ poll.from + R > poll.to => tb = poll.to
  BY <1>1, <1>3, <1>4
<1>6. n \in 1 .. Len(listeners)
  BY <1>1, <1>3 DEF IInv, PollInv, QueryInv
<1>7. l \in ListenerRecord
  BY <1>3, <1>6, ElementOfSeq
<1>8. /\ FirstBlock(l) \in Nat /\ l.fromBlock \in Nat /\ l.fromBlock <= poll.from
      /\ poll.from <= FirstBlock(l)
  <2>1. /\ n <= Len(listeners) /\ l.fromBlock <= poll.from
        /\ IF poll.from <= poll.to THEN poll.from <= FirstBlock(l) ELSE FirstBlock(l) > poll.to
    BY <1>1 DEF IInv, QueryInv
  <2> QED
    BY <1>1, <1>3, <1>7, <2>1, FirstBlockType
<1>9. /\ result \in Seq(Events) /\ Len(result) \in Nat
      /\ \A i \in 1 .. Len(result) :
           /\ OnChain(result[i]) /\ result[i].contract = l.contract
           /\ result[i].block \in poll.from .. tb
      /\ \A e \in Events :
           OnChain(e) /\ e.contract = l.contract /\ e.block \in poll.from .. tb
             => \E i \in 1 .. Len(result) : result[i] = e
      /\ \A i, j \in 1 .. Len(result) : i < j => result[i].block < result[j].block
  BY Answer
<1>10. l2 \in ListenerRecord /\ l2.contract = l.contract /\ l2.fromBlock = l.fromBlock
       /\ l2.last_block = tb
  BY <1>5, <1>7 DEF ListenerRecord
<1>11. FirstBlock(l2) = tb + 1
  BY <1>3, <1>5, <1>8, <1>10 DEF FirstBlock
<1>12. /\ Len(listeners') = Len(listeners) /\ listeners' \in Seq(ListenerRecord)
       /\ listeners'[n] = l2
       /\ \A i \in 1 .. Len(listeners) : i # n => listeners'[i] = listeners[i]
  <2>1. listeners' = [listeners EXCEPT ![n] = l2]
    BY <1>1, <1>6
  <2> HIDE DEF l2
  <2>2. [listeners EXCEPT ![n] = l2] \in Seq(ListenerRecord)
    BY <1>3, <1>6, <1>10, ExceptSeq
  <2> QED
    BY <1>3, <1>6, <2>1, <2>2, ExceptSeq
<1> DEFINE ents == poll.entries \o result
           L == Len(poll.entries)
<1>13. /\ ents \in Seq(Events) /\ Len(ents) = L + Len(result)
       /\ \A i \in 1 .. L + Len(result) :
            ents[i] = IF i <= L THEN poll.entries[i] ELSE result[i - L]
  BY <1>3, <1>9, ConcatProperties
<1>14. /\ poll'.entries = ents /\ poll'.next = n /\ poll'.to = poll.to
       /\ poll'.from = poll.from + R
       /\ poll' \in [latest : 0 .. Len(chain), to : 0 .. Len(chain),
                     next : Nat, from : Nat, entries : Seq(Events)]
  <2>1. poll \in [latest : 0 .. Len(chain), to : 0 .. Len(chain),
                  next : Nat, from : Nat, entries : Seq(Events)]
    BY <1>3 DEF TypeOK
  <2>2. poll.from + R \in Nat
    BY <1>3, <1>4
  <2>3. poll' = [poll EXCEPT !.entries = ents, !.from = poll.from + R]
    BY <1>2
  <2> HIDE DEF ents, R
  <2> QED
    BY <1>13, <2>1, <2>2, <2>3
<1> HIDE DEF ents, L, l2, tb, l, R
<1>15. /\ \A i \in 1 .. L : i \in 1 .. L + Len(result) /\ ents[i] = poll.entries[i]
       /\ \A i \in 1 .. Len(result) : L + i \in 1 .. L + Len(result) /\ ents[L + i] = result[i]
       /\ \A i \in 1 .. L + Len(result) : i \in 1 .. L \/ \E k \in 1 .. Len(result) : i = L + k
  <2>1. \A i \in 1 .. L : i \in 1 .. L + Len(result) /\ i <= L
    BY <1>3, <1>9 DEF L
  <2>2. \A i \in 1 .. Len(result) :
          L + i \in 1 .. L + Len(result) /\ ~ (L + i <= L) /\ (L + i) - L = i
    BY <1>3, <1>9 DEF L
  <2>3. ASSUME NEW i \in 1 .. L + Len(result), i \notin 1 .. L
        PROVE  \E k \in 1 .. Len(result) : i = L + k
    <3>1. i - L \in 1 .. Len(result) /\ i = L + (i - L)
      BY <1>3, <1>9, <2>3 DEF L
    <3> QED
      BY <3>1
  <2>4. \A i \in 1 .. Len(result) : ents[L + i] = result[i]
    BY <1>13, <2>2
  <2> QED
    BY <1>13, <2>1, <2>2, <2>3, <2>4
<1>16. Waiting' = Waiting \cup {result[i] : i \in 1 .. Len(result)}
  <2>1. Waiting' = {ents[i] : i \in 1 .. L + Len(result)}
    BY <1>13, <1>14 DEF Waiting
  <2>2. Waiting = {poll.entries[i] : i \in 1 .. L}
    BY DEF Waiting, L
  <2> QED
    BY <1>15, <2>1, <2>2
<1>17. /\ \A e : OnChain(e)' <=> OnChain(e)
       /\ Applied' = Applied /\ TokenNetworkIdentifiers' = TokenNetworkIdentifiers
       /\ ChainInv' /\ AppliedInChainOrder' /\ NoEventLost'
  BY <1>1, SameLog DEF IInv
<1>18. TypeOK'
  BY <1>1, <1>3, <1>12, <1>14 DEF TypeOK, ListenerRecord
<1>19. PollInv'
  BY <1>1, <1>12, <1>14 DEF IInv, PollInv
<1>20. EventsInv'
  <2>1. l.contract \in TokenNetworks => l.contract \in TokenNetworkIdentifiers
    BY <1>6 DEF IInv, ListenersInv, l
  <2> QED
    BY <1>9, <1>16, <1>17, <2>1 DEF IInv, EventsInv
<1>21. \A i \in 1 .. Len(listeners) : listeners'[i].contract = listeners[i].contract
  BY <1>10, <1>12 DEF l
<1>22. ListenersInv'
  BY <1>1, <1>12, <1>17, <1>21 DEF IInv, ListenersInv
<1>23. ASSUME NEW e \in Events, OnChain(e), e.contract = l.contract, e.block < poll.from
       PROVE  e \in Applied \cup Waiting
  <2>1. e.block < FirstBlock(l)
    BY <1>3, <1>8, <1>23, EventType
  <2> QED
    BY <1>6, <1>23, <2>1 DEF IInv, CoverInv, l
<1>24. CoverInv'
  <2> SUFFICES ASSUME NEW i \in 1 .. Len(listeners), NEW e \in Events, OnChain(e),
                      e.contract = listeners'[i].contract, e.block < FirstBlock(listeners'[i])
               PROVE  e \in Applied \cup Waiting'
    BY <1>12, <1>17 DEF CoverInv, FirstBlock
  <2>1. CASE i # n
    <3>1. listeners'[i] = listeners[i]
      BY <1>12, <2>1
    <3>2. e \in Applied \cup Waiting
      BY <3>1 DEF IInv, CoverInv
    <3> QED
      BY <1>16, <3>2
  <2>2. CASE i = n
    <3>1. e.contract = l.contract /\ e.block < tb + 1
      BY <1>10, <1>11, <1>12, <2>2
    <3>2. e.block < poll.from \/ e.block \in poll.from .. tb
      BY <1>3, <1>5, <3>1, EventType
    <3>3. CASE e.block < poll.from
      BY <1>16, <1>23, <3>1, <3>3
    <3>4. CASE e.block \in poll.from .. tb
      BY <1>9, <1>16, <3>1, <3>4
    <3> QED
      BY <3>2, <3>3, <3>4
  <2> QED
    BY <2>1, <2>2
<1>25. PolledInv'
  <2>1. \A i \in 1 .. Len(listeners) : i < n => i # n
    BY <1>3
  <2> QED
    BY <1>12, <1>14, <2>1 DEF IInv, PolledInv
<1>26. QueryInv'
  <2>1. poll.from + R \in Nat /\ l.fromBlock <= poll.from + R
    BY <1>3, <1>4, <1>8 DEF R
  <2>2. IF poll.from + R <= poll.to THEN poll.from + R <= tb + 1 ELSE tb + 1 > poll.to
    BY <1>3, <1>5, <2>1
  <2>3. n <= Len(listeners)
    BY <1>6
  <2> QED
    BY <1>10, <1>11, <1>12, <1>14, <2>1, <2>2, <2>3 DEF QueryInv
<1>27. OrderInv'
  <2> SUFFICES ASSUME NEW j \in 1 .. L + Len(result), NEW f \in Events, OnChain(f),
                      f.contract = ents[j].contract, f.block < ents[j].block
               PROVE  f \in Applied \/ \E k \in 1 .. j - 1 : ents[k] = f
    BY <1>13, <1>14, <1>17 DEF OrderInv
  <2>1. CASE j \in 1 .. L
    <3>1. f \in Applied \/ \E k \in 1 .. j - 1 : poll.entries[k] = f
      BY <1>15, <2>1 DEF IInv, OrderInv, L
    <3>2. \A k \in 1 .. j - 1 : k \in 1 .. L
      BY <1>3, <2>1 DEF L
    <3> QED
      BY <1>15, <3>1, <3>2
  <2>2. ASSUME NEW i \in 1 .. Len(result), j = L + i
        PROVE  f \in Applied \/ \E k \in 1 .. j - 1 : ents[k] = f
    <3>1. /\ ents[j] = result[i] /\ f.contract = l.contract /\ result[i].block \in poll.from .. tb
          /\ f.block < result[i].block
      BY <1>9, <1>15, <2>2
    <3>2. f.block < poll.from \/ f.block \in poll.from .. tb
      BY <1>3, <1>5, <3>1, EventType
    <3>3. CASE f.block < poll.from
      <4>1. f \in Applied \/ \E k \in 1 .. L : poll.entries[k] = f
        BY <1>23, <3>1, <3>3 DEF Waiting, L
      <4>2. \A k \in 1 .. L : k \in 1 .. j - 1
        BY <1>3, <2>2 DEF L
      <4> QED
        BY <1>15, <4>1, <4>2
    <3>4. CASE f.block \in poll.from .. tb
      <4>1. PICK k \in 1 .. Len(result) : result[k] = f
        BY <1>9, <3>1, <3>4
      <4>2. k < i
        <5>1. ~ (i < k)
          <6>1. i < k => result[i].block < f.block
            BY <1>9, <4>1
          <6>2. f.block \in Nat /\ result[i].block \in Int
            BY <1>3, <1>5, <3>1, EventType
          <6> QED
            BY <3>1, <6>1, <6>2
        <5>2. i # k
          BY <3>1, <4>1, EventType
        <5> QED
          BY <1>9, <5>1, <5>2
      <4>3. L + k \in 1 .. j - 1
        BY <1>3, <1>9, <2>2, <4>2 DEF L
      <4> QED
        BY <1>15, <4>1, <4>3
    <3> QED
      BY <3>2, <3>3, <3>4
  <2> QED
    BY <1>15, <2>1, <2>2
<1> QED
  BY <1>17, <1>18, <1>19, <1>20, <1>22, <1>24, <1>25, <1>26, <1>27 DEF IInv

(* The listeners only grow, by a token network followed from its creation. *)
LEMMA NewListener ==
  ASSUME TypeOK, NEW ev, OnChain(ev),
         listeners' = IF ev.network = NoNetwork THEN listeners
                      ELSE add_event_listener(listeners, ev.network, ev.block)
  PROVE  /\ listeners' \in Seq(ListenerRecord) /\ Len(listeners') \in Nat
         /\ Len(listeners) <= Len(listeners')
         /\ \A i \in 1 .. Len(listeners) : listeners'[i] = listeners[i]
         /\ \A i \in 1 .. Len(listeners') :
              \/ i \in 1 .. Len(listeners)
              \/ /\ i = Len(listeners) + 1 /\ ev.network \in TokenNetworks
                 /\ listeners'[i].contract = ev.network
                 /\ FirstBlock(listeners'[i]) = ev.block
         /\ ev.network # NoNetwork =>
              \E i \in 1 .. Len(listeners') : listeners'[i].contract = ev.network
<1>1. /\ listeners \in Seq(ListenerRecord) /\ Len(listeners) \in Nat /\ Len(chain) \in Nat
  BY Types
<1>2. /\ ev.network \in TokenNetworks \cup {NoNetwork} /\ ev.block \in 0 .. Len(chain)
  BY <1>1, EventType DEF OnChain
<1>3. CASE listeners' = listeners /\ ev.network = NoNetwork
  BY <1>1, <1>3
<1>4. CASE listeners' = listeners /\ \E i \in 1 .. Len(listeners) : listeners[i].contract = ev.network
  BY <1>1, <1>4
<1>5. CASE /\ ev.network # NoNetwork
           /\ listeners' = Append(listeners, Listener(ev.network, ev.block))
  <2> DEFINE l == Listener(ev.network, ev.block)
  <2>1. ev.network \in TokenNetworks /\ ev.network \in Contracts
    BY <1>2, <1>5 DEF Contracts
  <2>2. l \in ListenerRecord /\ l.contract = ev.network /\ FirstBlock(l) = ev.block
    BY <1>1, <1>2, <2>1 DEF Listener, ListenerRecord, FirstBlock
  <2> HIDE DEF l
  <2>3. /\ Append(listeners, l) \in Seq(ListenerRecord)
        /\ Len(Append(listeners, l)) = Len(listeners) + 1
        /\ \A i \in 1 .. Len(listeners) : Append(listeners, l)[i] = listeners[i]
        /\ Append(listeners, l)[Len(listeners) + 1] = l
    BY <1>1, <2>2, AppendProperties
  <2>4. listeners' = Append(listeners, l)
    BY <1>5 DEF l
  <2>5. \A i \in 1 .. Len(listeners) + 1 : i \in 1 .. Len(listeners) \/ i = Len(listeners) + 1
    BY <1>1
  <2>6. Len(listeners) + 1 \in 1 .. Len(listeners) + 1 /\ Len(listeners) <= Len(listeners) + 1
        /\ Len(listeners) + 1 \in Nat
    BY <1>1
  <2> QED
    BY <2>1, <2>2, <2>3, <2>4, <2>5, <2>6
<1> QED
  BY <1>3, <1>4, <1>5 DEF add_event_listener

(* The first entry that waits is applied.                                  *)
LEMMA OnBlockchainEventStep == IInv /\ OnBlockchainEvent => IInv'
<1> SUFFICES ASSUME IInv, OnBlockchainEvent
             PROVE  IInv'
  OBVIOUS
<1> DEFINE ev == Head(poll.entries)
           L == Len(poll.entries)
           N == Len(state_changes)
<1>1. /\ pc = "polling" /\ poll.entries # <<>>
      /\ state_changes' = Append(state_changes, ev)
      /\ poll' = [poll EXCEPT !.entries = Tail(poll.entries)]
      /\ chain' = chain /\ block_number' = block_number
      /\ known_block_number' = known_block_number /\ pc' = pc /\ crashes' = crashes
  BY DEF OnBlockchainEvent
<1>2. listeners' = IF ev.network = NoNetwork THEN listeners
                   ELSE add_event_listener(listeners, ev.network, ev.block)
  BY DEF OnBlockchainEvent
<1>3. /\ TypeOK /\ Len(chain) \in Nat /\ Len(listeners) \in Nat /\ L \in Nat /\ N \in Nat
      /\ poll.next \in Nat /\ poll.entries \in Seq(Events) /\ state_changes \in Seq(Events)
  BY Types DEF IInv, TypeOK
<1>4. /\ L >= 1 /\ ev = poll.entries[1]
      /\ Tail(poll.entries) \in Seq(Events) /\ Len(Tail(poll.entries)) = L - 1
      /\ \A i \in 1 .. L - 1 : Tail(poll.entries)[i] = poll.entries[i + 1]
  BY <1>1, <1>3, EmptySeq, HeadTailProperties
<1>5. /\ 1 \in 1 .. L /\ ev \in Waiting
      /\ \A i \in 1 .. L - 1 : i + 1 \in 1 .. L
      /\ \A i \in 1 .. L : i = 1 \/ \E j \in 1 .. L - 1 : i = j + 1
  <2>1. 1 \in 1 .. L /\ \A i \in 1 .. L - 1 : i + 1 \in 1 .. L
    BY <1>3, <1>4
  <2>2. ASSUME NEW i \in 1 .. L, i # 1
        PROVE  \E j \in 1 .. L - 1 : i = j + 1
    <3>1. i - 1 \in 1 .. L - 1 /\ i = (i - 1) + 1
      BY <1>3, <2>2
    <3> QED
      BY <3>1
  <2> QED
    BY <1>4, <2>1, <2>2 DEF Waiting
<1> DEFINE rest == Tail(poll.entries)
<1>6. /\ poll'.entries = rest /\ poll'.next = poll.next /\ poll'.to = poll.to
      /\ poll' \in [latest : 0 .. Len(chain), to : 0 .. Len(chain),
                    next : Nat, from : Nat, entries : Seq(Events)]
  <2>1. poll \in [latest : 0 .. Len(chain), to : 0 .. Len(chain),
                  next : Nat, from : Nat, entries : Seq(Events)]
    BY <1>3 DEF TypeOK
  <2> HIDE DEF rest
  <2> QED
    BY <1>1, <1>4, <2>1 DEF rest
<1> HIDE DEF ev, L, rest, N
<1>7. /\ rest \in Seq(Events) /\ Len(rest) = L - 1
      /\ \A i \in 1 .. L - 1 : rest[i] = poll.entries[i + 1]
  BY <1>4 DEF rest
<1>8. Waiting = {poll.entries[i] : i \in 1 .. L} /\ Waiting' = {rest[i] : i \in 1 .. L - 1}
  BY <1>6, <1>7 DEF Waiting, L
<1>9. Waiting = {ev} \cup Waiting'
  <2>1. \A i \in 1 .. L : poll.entries[i] = ev \/ \E j \in 1 .. L - 1 : poll.entries[i] = rest[j]
    BY <1>4, <1>5, <1>7
  <2>2. \A j \in 1 .. L - 1 : \E i \in 1 .. L : poll.entries[i] = rest[j]
    BY <1>5, <1>7
  <2>3. Waiting \subseteq {ev} \cup Waiting' /\ Waiting' \subseteq Waiting
    BY <1>8, <2>1, <2>2
  <2> QED
    BY <1>5, <2>3
<1>10. /\ OnChain(ev) /\ ev \in Events /\ ev.block \in Nat
       /\ ev.contract \in TokenNetworks => ev.contract \in TokenNetworkIdentifiers
  <2>1. /\ OnChain(ev)
        /\ ev.contract \in TokenNetworks => ev.contract \in TokenNetworkIdentifiers
    BY <1>5 DEF IInv, EventsInv
  <2> QED
    BY <2>1, EventType DEF OnChain
<1>11. /\ state_changes' \in Seq(Events) /\ Len(state_changes') = N + 1
       /\ \A i \in 1 .. N : state_changes'[i] = state_changes[i]
       /\ state_changes'[N + 1] = ev
  BY <1>1, <1>3, <1>10, AppendProperties DEF N
<1>12. \A i \in 1 .. N + 1 : i \in 1 .. N \/ i = N + 1
  BY <1>3
<1>13. N + 1 \in 1 .. N + 1 /\ \A i \in 1 .. N : i \in 1 .. N + 1
  BY <1>3
<1>14. Applied' = Applied \cup {ev}
  <2>1. Applied = {state_changes[i] : i \in 1 .. N}
    BY DEF Applied, N
  <2>2. Applied' = {state_changes'[i] : i \in 1 .. N + 1}
    BY <1>11 DEF Applied
  <2> QED
    BY <1>11, <1>12, <1>13, <2>1, <2>2
<1>15. Applied' \cup Waiting' = Applied \cup Waiting
  BY <1>9, <1>14
<1>16. /\ TokenNetworkIdentifiers \subseteq TokenNetworkIdentifiers'
       /\ ev.network # NoNetwork => ev.network \in TokenNetworkIdentifiers'
       /\ \A c \in TokenNetworkIdentifiers' : c \in TokenNetworkIdentifiers \/ c = ev.network
  <2>1. \A c : c \in TokenNetworkIdentifiers <=> c # NoNetwork /\ \E e \in Applied : e.network = c
    BY Identifiers
  <2>2. \A c : c \in TokenNetworkIdentifiers' <=> c # NoNetwork /\ \E e \in Applied' : e.network = c
    BY DEF TokenNetworkIdentifiers, Applied
  <2> QED
    BY <1>14, <2>1, <2>2
<1>17. /\ \A e : OnChain(e)' <=> OnChain(e)
       /\ \A m : EventsUpTo(m)' = EventsUpTo(m)
       /\ ChainInv'
  BY <1>1 DEF IInv, OnChain, ChainInv, EventsUpTo
<1>18. /\ listeners' \in Seq(ListenerRecord) /\ Len(listeners') \in Nat
       /\ Len(listeners) <= Len(listeners')
       /\ \A i \in 1 .. Len(listeners) : listeners'[i] = listeners[i]
       /\ \A i \in 1 .. Len(listeners') :
            \/ i \in 1 .. Len(listeners)
            \/ /\ i = Len(listeners) + 1 /\ ev.network \in TokenNetworks
               /\ listeners'[i].contract = ev.network
               /\ FirstBlock(listeners'[i]) = ev.block
       /\ ev.network # NoNetwork =>
            \E i \in 1 .. Len(listeners') : listeners'[i].contract = ev.network
  BY <1>2, <1>3, <1>10, NewListener
<1>19. \A i \in 1 .. Len(listeners) : i \in 1 .. Len(listeners')
  BY <1>3, <1>18
<1>20. TypeOK'
  BY <1>1, <1>3, <1>6, <1>11, <1>18 DEF TypeOK, ListenerRecord
<1>21. PollInv' /\ QueryInv'
  <2>1. poll.next \in 1 .. Len(listeners) + 1
    BY DEF IInv, PollInv
  <2>2. poll.next \in 1 .. Len(listeners') + 1
    BY <1>3, <1>18, <2>1
  <2> QED
    BY <1>1, <1>6, <2>2 DEF PollInv, QueryInv
<1>22. EventsInv'
  BY <1>9, <1>15, <1>16, <1>17 DEF IInv, EventsInv
<1>23. ListenersInv'
  <2>1. \A c \in {Registry, SecretRegistry} \cup TokenNetworkIdentifiers :
          \E i \in 1 .. Len(listeners) : listeners[i].contract = c
    BY <1>1 DEF IInv, ListenersInv
  <2>2. ASSUME NEW c \in {Registry, SecretRegistry} \cup TokenNetworkIdentifiers'
        PROVE  \E i \in 1 .. Len(listeners') : listeners'[i].contract = c
    <3>1. CASE c \in {Registry, SecretRegistry} \cup TokenNetworkIdentifiers
      BY <1>18, <1>19, <2>1, <3>1
    <3>2. CASE c \in TokenNetworkIdentifiers' /\ c = ev.network
      BY <1>18, <3>2 DEF TokenNetworkIdentifiers
    <3> QED
      BY <1>16, <3>1, <3>2
  <2>3. ASSUME NEW i \in 1 .. Len(listeners'), listeners'[i].contract \in TokenNetworks
        PROVE  listeners'[i].contract \in TokenNetworkIdentifiers'
    <3>1. CASE i \in 1 .. Len(listeners)
      BY <1>16, <1>18, <2>3, <3>1 DEF IInv, ListenersInv
    <3>2. CASE i \notin 1 .. Len(listeners)
      BY <1>16, <1>18, <2>3, <3>2, ContractsAssumption
    <3> QED
      BY <3>1, <3>2
  <2> QED
    BY <2>2, <2>3 DEF ListenersInv
<1>24. CoverInv'
  <2> SUFFICES ASSUME NEW i \in 1 .. Len(listeners'), NEW e \in Events, OnChain(e),
                      e.contract = listeners'[i].contract, e.block < FirstBlock(listeners'[i])
               PROVE  e \in Applied \cup Waiting
    BY <1>15, <1>17 DEF CoverInv, FirstBlock
  <2>1. CASE i \in 1 .. Len(listeners)
    BY <1>18, <2>1 DEF IInv, CoverInv
  <2>2. CASE i \notin 1 .. Len(listeners)
    <3>1. /\ ev.network \in TokenNetworks /\ e.contract = ev.network /\ e.block < ev.block
      BY <1>18, <2>2
    <3> DEFINE le == [contract |-> e.contract, network |-> e.network]
               lv == [contract |-> ev.contract, network |-> ev.network]
    <3>2. /\ e.block \in 1 .. Len(chain) /\ ev.block \in 1 .. Len(chain)
          /\ le \in chain[e.block] /\ lv \in chain[ev.block]
      BY <1>3, <1>10, EventType DEF OnChain
    <3>3. le.contract = ev.network /\ lv.network = ev.network
      BY <3>1
    <3> HIDE DEF le, lv
    <3>4. PICK c \in 1 .. e.block : [contract |-> Registry, network |-> ev.network] \in chain[c]
      BY <3>1, <3>2, <3>3 DEF IInv, ChainInv
    <3>5. c \in 1 .. Len(chain) /\ c # ev.block
      BY <1>3, <1>10, <3>1, <3>2
    <3> DEFINE lr == [contract |-> Registry, network |-> ev.network]
    <3>6. lr \in chain[c] /\ lr.network = ev.network
      BY <3>4
    <3> HIDE DEF lr
    <3>7. lr.network = lv.network /\ lr.network # NoNetwork
      BY <3>1, <3>3, <3>6, ContractsAssumption
    <3>8. c = ev.block
      BY <3>2, <3>5, <3>6, <3>7 DEF IInv, ChainInv
    <3> QED
      BY <3>5, <3>8
  <2> QED
    BY <2>1, <2>2
<1>25. PolledInv'
  <2>1. poll.next \in 1 .. Len(listeners) + 1
    BY DEF IInv, PollInv
  <2>2. \A i \in 1 .. Len(listeners') : i < poll.next => i \in 1 .. Len(listeners)
    BY <1>3, <2>1
  <2> QED
    BY <1>6, <1>18, <2>2 DEF IInv, PolledInv
<1>26. OrderInv'
  <2> SUFFICES ASSUME NEW j \in 1 .. L - 1, NEW f \in Events, OnChain(f),
                      f.contract = rest[j].contract, f.block < rest[j].block
               PROVE  f \in Applied' \/ \E k \in 1 .. j - 1 : rest[k] = f
    BY <1>6, <1>7, <1>17 DEF OrderInv
  <2>1. rest[j] = poll.entries[j + 1] /\ j + 1 \in 1 .. L
    BY <1>5, <1>7
  <2>2. f \in Applied \/ \E k \in 1 .. (j + 1) - 1 : poll.entries[k] = f
    BY <2>1 DEF IInv, OrderInv, L
  <2>3. ASSUME NEW k \in 1 .. (j + 1) - 1, poll.entries[k] = f
        PROVE  f = ev \/ \E h \in 1 .. j - 1 : rest[h] = f
    <3>1. CASE k = 1
      BY <1>4, <2>3, <3>1
    <3>2. CASE k # 1
      <4>1. k - 1 \in 1 .. j - 1 /\ k - 1 \in 1 .. L - 1 /\ (k - 1) + 1 = k
        BY <1>3, <3>2
      <4> QED
        BY <1>7, <2>3, <4>1
    <3> QED
      BY <3>1, <3>2
  <2> QED
    BY <1>14, <2>2, <2>3
<1>27. NoEventLost'
  BY <1>1, <1>14, <1>17 DEF IInv, NoEventLost
<1>28. AppliedInChainOrder'
  <2> SUFFICES ASSUME NEW i \in 1 .. N + 1
               PROVE  LET before == {state_changes'[j] : j \in 1 .. i - 1}
                          e == state_changes'[i]
                      IN  /\ {f \in EventsUpTo(e.block - 1) : f.contract = e.contract} \subseteq before
                          /\ e.contract \in TokenNetworks => \E f \in before : f.network = e.contract
    BY <1>1, <1>11 DEF AppliedInChainOrder, EventsUpTo
  <2>1. \A j \in 1 .. i - 1 : j \in 1 .. N
    BY <1>3
  <2>2. {state_changes'[j] : j \in 1 .. i - 1} = {state_changes[j] : j \in 1 .. i - 1}
    BY <1>11, <2>1
  <2>3. CASE i \in 1 .. N
    <3>1. state_changes'[i] = state_changes[i]
      BY <1>11, <2>3
    <3> QED
      BY <2>2, <2>3, <3>1 DEF IInv, AppliedInChainOrder, N
  <2>4. CASE i = N + 1
    <3>1. {state_changes'[j] : j \in 1 .. i - 1} = Applied /\ state_changes'[i] = ev
      <4>1. i - 1 = N
        BY <1>3, <2>4
      <4> QED
        BY <1>11, <2>2, <2>4, <4>1 DEF Applied, N
    <3>2. ASSUME NEW f \in EventsUpTo(ev.block - 1), f.contract = ev.contract
          PROVE  f \in Applied
      <4>1. OnChain(f) /\ f \in Events /\ f.block <= ev.block - 1
        BY UpTo DEF OnChain
      <4>2. f.block < ev.block
        BY <1>10, <4>1, EventType
      <4>3. f \in Applied \/ \E k \in 1 .. 1 - 1 : poll.entries[k] = f
        BY <1>4, <1>5, <3>2, <4>1, <4>2 DEF IInv, OrderInv, L
      <4>4. 1 .. 1 - 1 = {}
        OBVIOUS
      <4> QED
        BY <4>3, <4>4
    <3>3. ev.contract \in TokenNetworks => \E f \in Applied : f.network = ev.contract
      BY <1>10, Identifiers
    <3> QED
      BY <3>1, <3>2, <3>3
  <2> QED
    BY <1>12, <2>3, <2>4
<1> QED
  BY <1>17, <1>20, <1>21, <1>22, <1>23, <1>24, <1>25, <1>26, <1>27, <1>28 DEF IInv

-----------------------------------------------------------------------------
LEMMA NextIInv == IInv /\ [Next]_vars => IInv'
BY Stutter, MineBlockStep, StartStep, MaybeRunCallbacksStep, PollListenerStep,
   GetNewEntriesStep, ReturnEntriesStep, OnBlockchainEventStep, DispatchBlockStep, CrashStep
   DEF Next

LEMMA SpecIInv == Spec => []IInv
<1> QED
  BY InitIInv, NextIInv, PTL DEF Spec

(* The chain, the log of the node, the filters of BlockchainEvents and the *)
(* poll of _callback_new_block keep their types; a filter is never past    *)
(* the chain.                                                              *)
THEOREM BlockchainEventsTypeOK == Spec => []TypeOK
<1>1. IInv => TypeOK
  BY DEF IInv
<1> QED
  BY <1>1, SpecIInv, PTL

(* What _callback_new_block promises of the Block it dispatches last: the  *)
(* stored state holds every event up to its block, for every range of a    *)
(* query, every chain, and wherever the process ends in a poll and starts  *)
(* again from its last Block.                                              *)
THEOREM NoEventIsLost == Spec => []NoEventLost
<1>1. IInv => NoEventLost
  BY DEF IInv
<1> QED
  BY <1>1, SpecIInv, PTL

(* What handle_channelnew relies on of the filters: when an event is       *)
(* applied the earlier ones of its contract are, and the event that        *)
(* created its token network is.                                           *)
THEOREM EventsAppliedInOrder == Spec => []AppliedInChainOrder
<1>1. IInv => AppliedInChainOrder
  BY DEF IInv
<1> QED
  BY <1>1, SpecIInv, PTL
=============================================================================
