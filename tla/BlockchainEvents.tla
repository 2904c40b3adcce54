-------------------------- MODULE BlockchainEvents --------------------------
(***************************************************************************)
(* How a node follows the chain: AlarmTask (raiden/tasks.py) notices new   *)
(* blocks, RaidenService._callback_new_block polls the filters of every    *)
(* contract it listens to (blockchain/events.py, utils/filters.py) up to   *)
(* the newest confirmed block, applies each event and then a Block state   *)
(* change.  After a crash RaidenService.start installs the filters again   *)
(* from the last Block it finds in its state.                              *)
(*                                                                         *)
(* The node listens to the token network registry, the secret registry     *)
(* and every token network it has heard of.  An event is the contract, the *)
(* block, and for the registry the token network it announces.  A contract *)
(* logs at most one event in a block.                                      *)
(***************************************************************************)
EXTENDS Integers, Sequences, FiniteSets, SequencesExt

CONSTANTS
  TokenNetworks, Registry, SecretRegistry, NoNetwork,
  CONFIRMATION_BLOCKS,
  FILTER_MAX_BLOCK_RANGE,
  MaxBlock,               \* bound: height of the chain
  MaxCrashes              \* bound: crashes of the node

ASSUME ContractsAssumption ==
  /\ Registry # SecretRegistry /\ {Registry, SecretRegistry} \cap TokenNetworks = {}
  /\ NoNetwork \notin TokenNetworks
ASSUME BlocksAssumption ==
  /\ CONFIRMATION_BLOCKS \in Nat /\ FILTER_MAX_BLOCK_RANGE \in Nat \ {0}
  /\ MaxBlock \in Nat /\ MaxCrashes \in Nat

GENESIS_BLOCK_NUMBER == 0

Contracts == {Registry, SecretRegistry} \cup TokenNetworks
Logs == {[contract |-> Registry, network |-> n] : n \in TokenNetworks}
        \cup {[contract |-> c, network |-> NoNetwork] : c \in Contracts \ {Registry}}
Events == [contract : Contracts, network : TokenNetworks \cup {NoNetwork}, block : 1 .. MaxBlock]

VARIABLES
  chain,               \* chain[b]: the logs of block b
  \* on disk: the state changes, and what they say the state is
  state_changes,       \* the events applied, in order
  block_number,        \* ChainState.block_number
  \* in memory
  listeners,           \* BlockchainEvents.event_listeners with their filters
  known_block_number,  \* AlarmTask.known_block_number
  poll,                \* the callback that is running
  pc,                  \* "down", "idle", "polling" or "querying" a filter
  crashes              \* so far

vars == <<chain, state_changes, block_number, listeners, known_block_number,
          poll, pc, crashes>>

NoPoll == [latest |-> 0, to |-> 0, next |-> 1, from |-> 0, entries |-> <<>>]

Init ==
  /\ chain = <<>> /\ state_changes = <<>> /\ block_number = GENESIS_BLOCK_NUMBER
  /\ listeners = <<>> /\ known_block_number = 0 /\ poll = NoPoll /\ pc = "down"
  /\ crashes = 0

-----------------------------------------------------------------------------
(* The chain (external) *)

Created == {l.network : l \in UNION {chain[b] : b \in 1 .. Len(chain)}} \ {NoNetwork}

(* A block is mined.  A token network is created once and logs events from *)
(* that block on.                                                          *)
MineBlock ==
  /\ Len(chain) < MaxBlock
  /\ \E logs \in SUBSET Logs :
       /\ \A l, m \in logs : l.contract = m.contract => l = m
       /\ \A l \in logs :
            /\ l.network \notin Created
            /\ l.contract \in TokenNetworks =>
                 \/ l.contract \in Created
                 \/ \E m \in logs : m.network = l.contract
       /\ chain' = Append(chain, logs)
  /\ UNCHANGED <<state_changes, block_number, listeners, known_block_number,
                 poll, pc, crashes>>

(* The sequences that list a set once.                                     *)
Listings(S) == {s \in SeqOf(S, Cardinality(S)) : ToSet(s) = S}

LogsOf(contract, from, to) ==
  {e \in Events : /\ e.contract = contract /\ e.block \in from .. to /\ e.block <= Len(chain)
                  /\ [contract |-> contract, network |-> e.network] \in chain[e.block]}

(* eth_getLogs for one contract: the logs, oldest first.                   *)
getLogs(contract, from, to) ==
  {s \in Listings(LogsOf(contract, from, to)) :
     \A i, j \in 1 .. Len(s) : i < j => s[i].block < s[j].block}

-----------------------------------------------------------------------------
(* Filters and listeners *)

Listener(contract, from) == [contract |-> contract, fromBlock |-> from, last_block |-> -1]

(* The first block a filter has not queried.                               *)
FirstBlock(listener) ==
  IF listener.fromBlock > listener.last_block + 1 THEN listener.fromBlock
  ELSE listener.last_block + 1

(* BlockchainEvents.add_event_listener: one listener per contract.         *)
add_event_listener(ls, contract, from) ==
  IF \E i \in 1 .. Len(ls) : ls[i].contract = contract THEN ls
  ELSE Append(ls, Listener(contract, from))

(* The token networks of the restored state.                               *)
TokenNetworkIdentifiers ==
  {state_changes[i].network : i \in 1 .. Len(state_changes)} \ {NoNetwork}

(* install_all_blockchain_filters, the token networks in any order.        *)
Installed(networks) ==
  <<Listener(Registry, block_number), Listener(SecretRegistry, block_number)>>
  \o [i \in 1 .. Len(networks) |-> Listener(networks[i], block_number)]

-----------------------------------------------------------------------------
(* Fault: the alarm is primed with the newest block.                       *)
Fault_Start ==
  /\ pc = "down"
  /\ \E networks \in Listings(TokenNetworkIdentifiers) : listeners' = Installed(networks)
  /\ known_block_number' = Len(chain)
  /\ pc' = "idle"
  /\ UNCHANGED <<chain, state_changes, block_number, poll, crashes>>

(* RaidenService.start: install_all_blockchain_filters from the block of   *)
(* the restored state; first_run primes the alarm with the same block.     *)
Start ==
  /\ pc = "down"
  /\ \E networks \in Listings(TokenNetworkIdentifiers) : listeners' = Installed(networks)
  /\ known_block_number' = block_number
  /\ pc' = "idle"
  /\ UNCHANGED <<chain, state_changes, block_number, poll, crashes>>

(* Fault: the confirmations are added to the newest block.                 *)
Fault_MaybeRunCallbacks ==
  /\ pc = "idle" /\ Len(chain) > known_block_number
  /\ poll' = [NoPoll EXCEPT !.latest = Len(chain), !.to = Len(chain) + CONFIRMATION_BLOCKS]
  /\ pc' = "polling"
  /\ UNCHANGED <<chain, state_changes, block_number, listeners,
                 known_block_number, crashes>>

(* AlarmTask._maybe_run_callbacks and the head of _callback_new_block.     *)
MaybeRunCallbacks ==
  /\ pc = "idle" /\ Len(chain) > known_block_number
  /\ LET confirmed == Len(chain) - CONFIRMATION_BLOCKS
     IN  poll' = [NoPoll EXCEPT
           !.latest = Len(chain),
           !.to = IF confirmed > GENESIS_BLOCK_NUMBER THEN confirmed ELSE GENESIS_BLOCK_NUMBER]
  /\ pc' = "polling"
  /\ UNCHANGED <<chain, state_changes, block_number, listeners,
                 known_block_number, crashes>>

(* poll_blockchain_events asks the next listener for new entries; the list *)
(* may grow while it is walked.                                            *)
PollListener ==
  /\ pc = "polling" /\ poll.entries = <<>> /\ poll.next <= Len(listeners)
  /\ poll' = [poll EXCEPT !.from = FirstBlock(listeners[poll.next])]
  /\ pc' = "querying"
  /\ UNCHANGED <<chain, state_changes, block_number, listeners,
                 known_block_number, crashes>>

(* Fault: the answer is put in front of the earlier ones.                  *)
Fault_GetNewEntries ==
  /\ pc = "querying" /\ poll.from <= poll.to
  /\ LET to_block == IF poll.from + FILTER_MAX_BLOCK_RANGE < poll.to
                     THEN poll.from + FILTER_MAX_BLOCK_RANGE ELSE poll.to
     IN  /\ \E result \in getLogs(listeners[poll.next].contract, poll.from, to_block) :
              poll' = [poll EXCEPT !.entries = result \o @,
                                   !.from = @ + FILTER_MAX_BLOCK_RANGE]
         /\ listeners' = [listeners EXCEPT ![poll.next].last_block = to_block]
  /\ UNCHANGED <<chain, state_changes, block_number, known_block_number, pc,
                 crashes>>

(* StatelessFilter.get_new_entries, one turn of its loop: blocks are mined *)
(* and the process may end between two queries.  The next range starts     *)
(* where this one ends.                                                    *)
GetNewEntries ==
  /\ pc = "querying" /\ poll.from <= poll.to
  /\ LET to_block == IF poll.from + FILTER_MAX_BLOCK_RANGE < poll.to
                     THEN poll.from + FILTER_MAX_BLOCK_RANGE ELSE poll.to
     IN  /\ \E result \in getLogs(listeners[poll.next].contract, poll.from, to_block) :
              poll' = [poll EXCEPT !.entries = @ \o result,
                                   !.from = @ + FILTER_MAX_BLOCK_RANGE]
         /\ listeners' = [listeners EXCEPT ![poll.next].last_block = to_block]
  /\ UNCHANGED <<chain, state_changes, block_number, known_block_number, pc,
                 crashes>>

(* The loop is over: the entries are returned to poll_blockchain_events.   *)
ReturnEntries ==
  /\ pc = "querying" /\ poll.from > poll.to
  /\ poll' = [poll EXCEPT !.next = @ + 1, !.from = 0]
  /\ pc' = "polling"
  /\ UNCHANGED <<chain, state_changes, block_number, listeners,
                 known_block_number, crashes>>

(* Fault: a new token network is followed from the next poll on.           *)
Fault_OnBlockchainEvent ==
  /\ pc = "polling" /\ poll.entries # <<>>
  /\ LET event == Head(poll.entries)
     IN  /\ listeners' = IF event.network = NoNetwork THEN listeners
                         ELSE add_event_listener(listeners, event.network, poll.to + 1)
         /\ state_changes' = Append(state_changes, event)
  /\ poll' = [poll EXCEPT !.entries = Tail(@)]
  /\ UNCHANGED <<chain, block_number, known_block_number, pc, crashes>>

(* on_blockchain_event: handle_tokennetwork_new adds a listener from the   *)
(* block of the event; every handler ends by applying its state change.    *)
OnBlockchainEvent ==
  /\ pc = "polling" /\ poll.entries # <<>>
  /\ LET event == Head(poll.entries)
     IN  /\ listeners' = IF event.network = NoNetwork THEN listeners
                         ELSE add_event_listener(listeners, event.network, event.block)
         /\ state_changes' = Append(state_changes, event)
  /\ poll' = [poll EXCEPT !.entries = Tail(@)]
  /\ UNCHANGED <<chain, block_number, known_block_number, pc, crashes>>

(* All events are applied: the Block state change, and the alarm moves on. *)
DispatchBlock ==
  /\ pc = "polling" /\ poll.entries = <<>> /\ poll.next > Len(listeners)
  /\ block_number' = poll.to
  /\ known_block_number' = poll.latest
  /\ poll' = NoPoll /\ pc' = "idle"
  /\ UNCHANGED <<chain, state_changes, listeners, crashes>>

(* The process ends between two state changes.                             *)
Crash ==
  /\ pc # "down" /\ crashes < MaxCrashes
  /\ crashes' = crashes + 1
  /\ listeners' = <<>> /\ known_block_number' = 0 /\ poll' = NoPoll /\ pc' = "down"
  /\ UNCHANGED <<chain, state_changes, block_number>>

Next ==
  \/ MineBlock \/ Start \/ MaybeRunCallbacks
  \/ PollListener \/ GetNewEntries \/ ReturnEntries
  \/ OnBlockchainEvent \/ DispatchBlock \/ Crash

Spec == Init /\ [][Next]_vars

(* The alarm loop runs for ever and a crashed node is started again.       *)
FairSpec ==
  /\ Spec
  /\ WF_vars(Start) /\ WF_vars(MaybeRunCallbacks) /\ WF_vars(PollListener)
  /\ WF_vars(GetNewEntries) /\ WF_vars(ReturnEntries)
  /\ WF_vars(OnBlockchainEvent) /\ WF_vars(DispatchBlock)

-----------------------------------------------------------------------------
(* Every variable keeps its type.                                          *)
TypeOK ==
  /\ chain \in Seq(SUBSET Logs) /\ Len(chain) <= MaxBlock
  /\ state_changes \in Seq(Events)
  /\ block_number \in 0 .. Len(chain)
  /\ listeners \in Seq([contract : Contracts, fromBlock : 0 .. Len(chain),
                        last_block : -1 .. Len(chain)])
  /\ known_block_number \in 0 .. Len(chain)
  /\ poll \in [latest : 0 .. Len(chain), to : 0 .. Len(chain),
               next : Nat, from : Nat, entries : Seq(Events)]
  /\ pc \in {"down", "idle", "polling", "querying"}
  /\ crashes \in 0 .. MaxCrashes

EventsUpTo(n) == {e \in Events : e.block <= n /\ e.block <= Len(chain)
                    /\ [contract |-> e.contract, network |-> e.network] \in chain[e.block]}
Applied == {state_changes[i] : i \in 1 .. Len(state_changes)}

(* "To avoid missing events the Block state change is dispatched only      *)
(* after all of the events have been processed" (_callback_new_block):     *)
(* whenever the stored state is at a block, every event up to that block   *)
(* is in it, wherever the node crashed and whenever a token network showed *)
(* up.                                                                     *)
NoEventLost == EventsUpTo(block_number) \subseteq Applied

(* Events of a contract are first applied in chain order, and a token      *)
(* network's events only after the network itself is known: what           *)
(* handle_channelnew relies on ("ChannelSettled and ChannelOpened must be  *)
(* processed in correct order, this should be guaranteed by the filters"). *)
AppliedInChainOrder ==
  \A i \in 1 .. Len(state_changes) :
    LET before == {state_changes[j] : j \in 1 .. i - 1}
        e == state_changes[i]
    IN  /\ {f \in EventsUpTo(e.block - 1) : f.contract = e.contract} \subseteq before
        /\ e.contract \in TokenNetworks => \E f \in before : f.network = e.contract

(* The node catches up with the confirmed chain, whenever it was down.     *)
CatchesUp == <>[](block_number = IF Len(chain) > CONFIRMATION_BLOCKS
                                 THEN Len(chain) - CONFIRMATION_BLOCKS ELSE 0)
=============================================================================
