# A TLA+ development of the Lumino node

Lumino is a payment channel network on RSK, derived from Raiden. A node keeps
channels with its partners, pays through them off chain with hash time locks,
follows the chain, and persists everything it does in a write-ahead log. This
directory holds TLA+ models of the parts of the node (`src/raiden/`) on which
its users' money depends, the TLC runs that check them and TLAPS proofs of
their safety properties. The program is the Python under `src/raiden/`; the JavaScript
of the repository is the minified bundle of the web interface with the file of
its settings, and a widget of the documentation that comes with Sphinx, and is
not modelled.

## 1. Inventory

The node is an event-sourced state machine. `RaidenService` turns messages,
blockchain events and API calls into *state changes*; `WriteAheadLog` logs each
one and applies it to the `ChainState` through `transfer/node.py`; the
transition returns *events* (messages to send, transactions to make) that
`RaidenEventHandler` executes in greenlets.

| component | state | operations | interacts with |
|---|---|---|---|
| payment channel (`transfer/channel.py`, `state.py`) | two `NettingChannelEndState`: balance proof, merkle tree, three lock dictionaries, contract balance; deposit queue; close/settle status | send/receive LockedTransfer, RefundTransfer, Unlock, LockExpired; register a secret off/on chain; deposit; block; close, update, settle, batch unlock | the tasks that own its locks; the partner's channel by messages; the chain by events |
| initiator task (`initiator.py`, `initiator_manager.py`) | route, received_secret_request, transfer state | init, secret request, secret reveal, on-chain reveal, refund, lock expired, block, cancel | its channel, the target by secret messages |
| mediator task (`mediator.py`) | transfers_pair with payer/payee states, waiting_transfer, secret | init, refund, node change, reveal, on-chain reveal, unlock, lock expired, block | two or more channels, the secret registry |
| target task (`target.py`) | transfer, state, secret | init, reveal, on-chain reveal, unlock, lock expired, block | its channel, initiator, secret registry |
| write-ahead log (`storage/wal.py`, `storage/sqlite.py`) | tables `state_changes`, `state_events`, `state_snapshot`; state_change_id, lock | log_and_dispatch, snapshot, restore | everything that changes state |
| event polling (`tasks.py`, `blockchain/events.py`, `utils/filters.py`, `blockchain_events_handler.py`) | known_block_number, listeners with fromBlock/_last_block | alarm, poll, on_blockchain_event, Block | the chain; the log; node start |
| secret registry proxy (`network/proxies/secret_registry.py`) | open_secret_transactions, lock, results | register_secret_batch | JSON-RPC client, concurrent greenlets |
| JSON-RPC client (`network/rpc/`) | account nonce, gas price | transact, poll, estimate_gas | Ethereum client |
| Raiden service, event and message handlers | greenlets, ready flag, snapshot group | start, stop, handle_state_change, dispatch | all of the above |
| channel settlement (`channel.py`, `raiden_event_handler.py`, `proxies/token_network.py`, `payment_channel.py`) | close/update/settle transactions, pending_transactions | close, update transfer, settle, batch unlock | chain, monitoring |
| token network state and routing (`transfer/token_network.py`, `routing.py`) | maps address → channel id → channel, network graph | channel new/closed/settled, find routes | tasks, chain events |
| message queues and transport (`transfer/node.py`, `network/transport/`) | queueids_to_queues, retry queues | enqueue, retry, Delivered/Processed | partner nodes |
| deposit, token, registry proxies; connection manager; light client hub; invoices; serialization; migrations; API; UI | see `PROJECT.json` | | |

**What is hard.** The two ends of a channel act on views of each other that are
always old. A lock can be paid, registered on chain, refunded and expire, and
these race: the thresholds of sender, receiver and mediator have to fit to the
block. Messages are lost, late and repeated. Every node is some blocks behind
the chain, and not the same number of blocks. The process can stop between any
two writes to disk and must rebuild the same state. Greenlets interleave at
every RPC call. `PROJECT.json` lists these hazards line by line.

**What makes each part correct.**
- channel: both nodes agree on every nonce; balance proofs are covered; locks,
  merkle tree and amounts are coherent; the channel never gets stuck; a lock
  claimable on chain is never given away;
- payment tasks: a mediator never pays without collecting; a registration in
  time counts in every channel; a task lives as long as its locks; every lock
  is resolved;
- log: memory is the log applied in order, each row as often as stated;
  snapshots are what they say;
- event polling: no confirmed event is missed, none applied before an earlier
  one of its contract;
- secret registry proxy: no secret is sent twice, a return means registered, no
  call waits for ever;
- message queues: a message is kept until the partner has it, and every queue
  is emptied in the end;
- settlement: both participants are paid by the last balance proof they
  accepted, whatever closes, crashes and transactions race; the channel is
  settled in the end and forgotten only when nothing is left in the contract.

## 2. Modules

| module | models | EXTENDS |
|---|---|---|
| `ChannelState` | one end of a channel: the record and every function of `channel.py` on it (checks, balance proofs, locks, secrets) | |
| `Channel` | one channel, both ends, the network and the chain | `ChannelState` |
| `ChannelStateProofs` | lemmas on the operators of `ChannelState` | `ChannelState`, TLAPS |
| `ChannelProofs`, `MediationProofs`, `SettlementProofs`, `WriteAheadLogProofs`, `SecretRegistryProxyProofs`, `MessageQueuesProofs`, `BlockchainEventsProofs` | the theorems of section 4 | the module each is named after, TLAPS |
| `Mediation` | one mediated payment: initiator, mediators, target, secret, time | |
| `WriteAheadLog` | the log, its greenlets, crash and restore | |
| `BlockchainEvents` | alarm, filters, listeners, Block, crash and restart | |
| `SecretRegistryProxy` | concurrent calls of register_secret_batch | |
| `MessageQueues` | two nodes' message queues, retry queues and the answers that empty them, crash and restart | |
| `ChannelPayout` | abstract: what closing a channel promises its participants | |
| `Settlement` | close, update, settle and unlock at both nodes, pending transactions, crash and restart, the contract | instantiates `ChannelPayout` |
| `MC*` | instances for TLC (sets of locks, paths, batches) | the module each is named after |

Names of definitions are those of the code where it has one; an action named
after a message or a state change (`ReceiveUnlock`, `MediatorBlock`) is the
whole handler of it. An operator `Fault_X` is a plausible mistake in the code
that `X` models; no module uses it, replacing `X` by it shows that the
property at stake would notice.

**Channel.** `our_state[n]` and `partner_state[n]` are the two end states node
n keeps. A merkle tree is the set of its leaves, a dictionary keyed by
secrethash a set of locks of which at most one has that secrethash; a locksroot
is the set of leaves it is the root of, so comparing roots compares sets. All
messages ever sent stay in `msgs` and any of them may be handled at any time:
loss, delay, repetition and reordering in one. Signatures are taken as valid
(both nodes are honest). Deposits are confirmed per node and queued as in
`handle_channel_newbalance`. The end of a channel's use is `LeaveOpened`; what
comes after it is `Settlement`.
Anybody may register a secret at any time. A LockedTransfer overtaken by the
registration of its secret is ignored by `handle_message_lockedtransfer`
(`Overtaken`), and the sender's later balance proofs never fit; `NeverStuck`
speaks of the checks of `channel.py` and `EventuallyInSync` excepts this case.
Both except a second one (`SecretReused`): a node draws a new secret for every
attempt to pay, but a user may hand in one that was used before, and
`is_valid_lock_expired` looks a registration up by the secrethash alone.

**Mediation.** A channel is the status of this payment's lock at its sender
(`sent`) and at its receiver (`received`): `none`, `locked`, `unlocked` (secret
known), `onchain` (registered in time), `claimed`, `expired`. `Channel` shows
that balance proofs are accepted in the order they are sent, so what is in
flight is what `sent` has and `received` does not. Reveals and requests stay
available for ever. Each node has its own `block_number`, at most `MAX_LAG`
behind the newest confirmed block, and a registration is mined within
`MINING_DELAY` blocks. `TimingAssumption` says that `REVEAL_TIMEOUT` is at least
the confirmations, the lag and the mining delay together: that is what the
reveal timeout is for, and `MediatorNeverLoses` is false without it. Whether a
partner is online and has capacity is a choice when a route is needed. The
assertions of the mediator are part of its handlers: `sanity_check` after the
ones that could break it, and those of `send_refundtransfer` before a refund
(`can_refund`). A mediator that fails one is in `stopped` and takes no step any
more: the state change is in the log before it is applied, so a restart replays
it and fails again. `SanityChecksHold` says what can lead there.

**WriteAheadLog.** A state change is its row number and the state machine is
opaque: its state is the sequence of rows it has applied. Steps are the units
between which another greenlet can run or the process can stop. `restored` is
history, the identifiers of the snapshots that restarts started from: a restart
reads the rows from the identifier of its snapshot on, that row included, so
these rows, and no others, are applied twice.

**BlockchainEvents.** The chain is a sequence of sets of logs. A poll walks the
listeners, which grow when a token network is announced, and asks each filter
one range at a time: between two queries blocks are mined and the process may
end, and two neighbouring ranges share a block, as in the code. The stored state is
`state_changes` and `block_number`; a crash loses the rest. Chain
reorganisations deeper than the confirmations are out of scope, as in the code.

**SecretRegistryProxy.** A call is a greenlet. Heights are kept as numbers of
confirmations. The chain mines any subset of the pool, others may register the
same secrets, the Ethereum client may raise and may forget a transaction.

**MessageQueues.** `queues[n]` is `queueids_to_queues` of the chain state, which
the log makes durable; `greenlets`, the retry queue `retrier` and the message
being handled are lost by a crash. "Transfer" stands for the messages with a
balance proof (queue of the channel, accepted as the next nonce only), "Reveal"
for those of the global queue that carry no balance proof. `_receive_message`
is two steps, because the Delivered it enqueues may be on the wire before the
state change is logged. The network loses, delays and reorders: of what is due
any subset arrives, and what arrives is handled in any order. `cutoff` and
`stranded` are history: the messages whose handling a crash cut off, and those
that were in a queue when the retry queue was lost. The transport proper
(rooms, presence) decides only whether a message arrives.

**Settlement.** A balance proof is its nonce; `ProofsWithLocks` says which have
pending locks. The contract is external: `Accepts` and `Execute` are its
requirements and effects, `block` is the block being mined, so a node sees the
blocks before it, each complete. `status`, `finished`, `pending` and `view` are
`get_status`, the block of the close, `pending_transactions` and the block
number of a node's chain state, all durable. A transaction is sent in two steps:
the proxy estimates its gas (`Transact`), then polls until it is mined
(`Polled`); between the two the node may crash, and the transaction stays in the
pool. At start (`Restart`, `FirstRun`, `Started`) the events from the restored
block on are handled without sending anything, then every pending transaction
is sent, one after the other, before the node takes part again.
`is_transaction_pending` leaves out `is_transaction_expired` (`node.py:1187`):
it is asked at events of contracts only, of which the settlement is the next one
this channel has after the window, and that drops the update too; the secret
registrations it is also about belong to `Mediation`. Three facts of
the code show in the handlers: the event of an update reaches neither node's
channel, so an update stays pending until the settlement; a second event of a
close finds no channel in the network graph; the handler of an unlock raises.
`UpdateInTime` is the assumption the settle timeout stands for: the chain does
not pass the end of the window before the node that did not close is up, has
seen the close and has no update left to send or to be mined. Errors of the
proxies are logged, as `_handle_event` does in production, and accounts have
gas.

## 3. Runs

Passing runs. All bounds are constants named in the cfg.

| run | bounds | shows |
|---|---|---|
| `channel_locks` | two locks with expirations 1 and 2, 3 balance proofs per node, deposits 3 and 0, 4 blocks | `PartnerViewIsPast`, `BalanceProofsCovered`, `OnlyPaymentRemovesClaimable` with both directions busy; locks are paid, registered and expire, one expiring while the other is registered |
| `channel_live` | a later deposit, a lock that expires and one under the same secret that spends the deposit, 4 blocks | `BalanceProofsCovered` while the views of deposits differ, `LocksCoherent`, `NeverStuck` and `NoExpiryOfRegistered` against a registration, `EventuallyInSync` |
| `mediation_line` | A-B-T, reveal timeout 3, lag 1, a waiting transfer tried again up to twice | `MediatorNeverLoses`, `OnchainUnlocksAtomic`, `LocksHaveTasks` |
| `mediation_refund` | B prefers the dead end C, which refunds; reveal timeout 2, no lag, a waiting transfer tried again up to twice | `MediatorNeverLoses`, `LocksHaveTasks`, `SanityChecksHold`, `EveryLockResolved` with two mediations at B, and mediators that their assertions stop |
| `wal` | 2 greenlets, snapshot every 2 rows, 6 rows, 3 crashes | `AppliedInLogOrder`, `SnapshotMatchesIdentifier`, `EventsLostOnlyByCrash`, `ThreadsComeToRest` |
| `events` | two token networks, 3 blocks, ranges of 1, one crash | `NoEventLost`, `AppliedInChainOrder`, `CatchesUp` |
| `secret_registry` | 2 calls, batches that overlap and repeat a secret | `RegisteredOnce`, `ReturnMeansRegistered`, `EndsUnlessDropped` |
| `message_queues` | one transfer, one reveal, two messages in flight to a node, a close, one crash | `UnacceptedStaysQueued`, `GlobalLostOnlyByCutoff` |
| `message_queues_live` | two transfers in order, one message in flight, one crash | `EventuallyDrained` |
| `settlement` | one balance proof each way, one of them with a lock, settle timeout 1, one crash | `OwedIsPending`, `ForgottenOnlyWhenEmpty`, `NothingLeftPending`, `ClosingSettles`, and that `Settlement` implements `ChannelPayout` (`PaysLastAccepted`) |

Why these bounds are enough to be of interest: three balance proofs per node
are a lock, its removal and one more message to be refused or accepted after
it; the chain of `channel_live` reaches past the early expiration plus twice the
confirmations, the last block at which anything in the code changes its mind,
and so do that of `channel_locks` for the first of its locks, which is enough
for the sender to announce the expiry and the receiver to take it, and the
chains of the mediation runs; two retries of a waiting transfer are the
first that can forward it twice, and where the properties begin to name it as
an exception; three nodes are one of each role and
the fourth adds the second mediation and the refund; the second crash of `wal`
can hit a state that was itself restored, and three snapshots occur; a poll of
`events` needs more than one range; with two messages in flight an answer
overtakes a retry, and with two transfers the second waits behind one a crash
left in its queue; one proof each way is enough for a node to accept it before,
between or after its own close, its partner's and the crash, and for a window
of one block there is exactly one block in which the update can be mined.
`MaxInFlight`, `LastOpenBlock`, `MaxNonce`, `MaxBlock`, `MaxDeposits`,
`MaxNodeChanges`, `MaxStateChanges`, `MaxCrashes` are such bounds, and because
of them all runs may stop (`CHECK_DEADLOCK FALSE`).

Runs that TLC refutes. Each checks one sentence of the code's own
documentation; the quotes are in `PROJECT.json`.

| run | what happens |
|---|---|
| `queues_restart` | after a restart nothing hands the messages left in the queues to the transport: the loop of `_initialize_messages_queues` is commented out |
| `settlement_unlock` | the unlock of a settled channel ends the node with an AttributeError (`storage/restore.py:23`), and so does every restart, which sends it again |

Observations made with the same models and not kept as runs (each is a state
TLC reaches, so the models contain the behaviour, and the properties above hold
all the same within the bounds of their runs):

- `initiator_manager.py:381` and `:298` look a channel identifier up in a map of
  addresses, so the initiator processes neither a refund nor its expiry, where
  the docstring at `initiator_manager.py:371` says it "needs to be able to
  properly process it";
- `sqlite.py:753` replays the row the snapshot already contains, where
  `raiden_service.py:350` speaks of the state changes "which are not 'part' of
  it"; `AppliedInLogOrder` and `SnapshotMatchesIdentifier` say exactly which rows
  are applied twice;
- `utils/filters.py:140` queries the block between two ranges in both, so its
  events are applied twice without any crash, against `raiden_service.py:819`;
- `client.py:819` polls for ever for a transaction that was added to the pool
  and then removed, which the comment at line 818 means to notice;
  `EndsUnlessDropped` excepts this case;
- `transport.py:864` enqueues the Delivered before the message is handled,
  where `messages.py:439` says that a Delivered means received and persisted:
  `GlobalLostOnlyByCutoff` excepts exactly the crash in between;
- `token_network.py:195` and `blockchain_events_handler.py:294` keep the event of
  an update from the channel, so a restart before the settlement sends an update
  that was mined already, where `raiden_service.py:838` says that only
  transactions without their effects applied are sent; the contract refuses it;
- `message_handler.py:198` drops a LockedTransfer whose secret is registered,
  where `target.py:116` says that such a message must be handled to keep the
  channels in sync;
- `target.py:350` passes a secret on that the target can no longer register in
  time: the initiator reports success (`transfer/events.py:422`), the mediator
  does not pay and the target's lock expires;
- `channel.py:213` (`is_transfer_expired`) looks a received lock up in
  `our_state`: a lock registered on chain counts as expired at the mediator;
- `channel.py:497` (`is_valid_lock_expired`) asks the receiver's own end state
  whether the secrethash was registered on chain: of two locks paid with one
  secret in opposite directions and with different expirations, the receiver
  refuses the LockExpired of the early one for ever once the other was registered
  in time (three balance proofs and six blocks are needed);
- `mediator.py:1396` mediates `waiting_transfer` again at a second change of
  network state, nothing clears it: a mediator can forward one transfer twice,
  and the assertion at `mediator.py:302` ("Check invariants that must hold") ends
  its node, or the one at `channel.py:1260` when it is to be refunded twice; where
  the first attempt was the refund to the payer the assertions hold and the
  mediator may pay two payees with one payer. `SanityChecksHold` and
  `MediatorNeverLoses` except the second attempt by name;
- `mediator.py:1321` (`handle_unlock`) does not store the secret it learns: the
  assertion at `mediator.py:277-278` fails, and ends the node at every restart,
  when the initiator was the first to learn the secret from the chain and its
  Unlock outruns the registration and every RevealSecret. This is the other
  exception of `SanityChecksHold`, and why `EveryLockResolved` is about the locks
  of nodes that run;
- `mediator.py:1276` unlocks a payee off chain only in the step that sees the
  registration: one whose secret is not known then has to unlock on chain;
- `raiden_service.py:460` starts the filters at the last applied block, so its
  events are applied again after every restart, not only after an interrupted
  poll as the comment at line 819 says.

**Fairness.** The alarm greenlet polls for ever (`AlarmTask.loop_until_stop`)
and a node that crashed is assumed to be started again, so the steps that follow the
chain are weakly fair. The transport retries a message until it is answered, so
handling a message that stays acceptable is weakly fair. In `Mediation` this is
one condition on all these steps together (`Progress`), of nodes that run and
messages between them: a stopped mediator neither takes nor sends anything
again, and the chain does not wait for it. It is weaker than one condition per
node, and as no step can be undone it suffices. Blocks keep coming; nobody has
to pay, deposit, reveal or come online. In the proxy a transaction that stays in the pool is mined, and the two steps that take the semaphore are
strongly fair because gevent's semaphore serves its queue in order; the client
never has to raise. In `MessageQueues` the retry queue wakes up every interval;
that a message sent again and again arrives in the end is strong fairness of
its sending, per transfer and per kind of the other messages, and nobody has to
send anything new. In `Settlement` what is in the pool is mined, greenlets run,
blocks come (within `UpdateInTime`) and a node that is down is started again,
all weakly fair; nobody has to close.

## 4. Proofs

TLAPS proves the following for every value of the constants that satisfies
their assumptions: any participants, locks, deposits, batches, messages and
bounds, where TLC has one small instance of each. All are proved the same way:
an inductive invariant, one lemma per action that the step preserves it (under
it one step per conjunct the action can disturb), and a temporal theorem that
combines them. Each inductive invariant was checked by TLC on the instance of
the component's run before it was proved. The assumptions are the `ASSUME`s of
the modules; they only say that names are distinct, sets of nodes finite, bounds
natural numbers, that a process has at least one greenlet (`ThreadsAssumption`)
and, for `Mediation`, that `reveal_timeout` covers the confirmations, the lag of
a node and the time a registration takes (`TimingAssumption`), which is what the
setting is for.

| theorem | states |
|---|---|
| `TypeCorrect`, `LocksStayCoherent`, `PartnerViewStaysPast`, `BalanceProofsStayCovered`, `ChannelNeverStuck`, `RegisteredNeverExpires`, `ClaimableLeavesPaid` (`ChannelProofs`) | `TypeOK`, `LocksCoherent`, `PartnerViewIsPast`, `BalanceProofsCovered`, `NeverStuck`, `NoExpiryOfRegistered` and the action property `OnlyPaymentRemovesClaimable` of `Channel` |
| `TypeCorrect`, `TasksOutliveLocks` (`MediationProofs`) | `TypeOK`, `LocksHaveTasks` of `Mediation` |
| `MediatorsNeverLose` (`MediationProofs`) | `MediatorNeverLoses` of `Mediation` |
| `OnlyUnlocksStop` (`MediationProofs`) | while at most one waiting transfer was tried again, `SanityChecksHold`, and of its two ways to stop only the Unlock of the initiator that outruns the secret |
| `UnlocksStayAtomic`, `OneRetryForwardsOnce` (`MediationProofs`) | `OnchainUnlocksAtomic` of `Mediation` in the behaviours where no mediator forwards the same transfer twice (`ForwardedOnce`); while at most one waiting transfer was tried again, `ForwardedOnce` holds of every behaviour |
| `SettlementTypeOK`, `OwedStaysPending`, `ForgottenWhenEmpty`, `ForgottenIsDone` (`SettlementProofs`) | `TypeOK`, `OwedIsPending`, `ForgottenOnlyWhenEmpty`, `NothingLeftPending` of `Settlement` |
| `SettlementImplementsPayout` (`SettlementProofs`) | `Settlement` implements `ChannelPayout` (`PaysLastAccepted`) |
| `WriteAheadLogTypeOK`, `StateIsReplay`, `SnapshotIsExact`, `CrashLosesOneStateChange` (`WriteAheadLogProofs`) | `TypeOK`, `AppliedInLogOrder`, `SnapshotMatchesIdentifier`, `EventsLostOnlyByCrash` of `WriteAheadLog` |
| `SecretRegistryTypeOK`, `SecretSentOnce`, `ReturnAfterRegistration` (`SecretRegistryProxyProofs`) | `TypeOK`, `RegisteredOnce`, `ReturnMeansRegistered` of `SecretRegistryProxy` |
| `MessageQueuesTypeOK`, `UnacceptedIsKept`, `GlobalIsKept` (`MessageQueuesProofs`) | `TypeOK`, `UnacceptedStaysQueued`, `GlobalLostOnlyByCutoff` of `MessageQueues` |
| `BlockchainEventsTypeOK`, `NoEventIsLost`, `EventsAppliedInOrder` (`BlockchainEventsProofs`) | `TypeOK`, `NoEventLost`, `AppliedInChainOrder` of `BlockchainEvents` |

**Channel.** In all four end states the leaves of the merkle tree are exactly
the locks of the three dictionaries, no secrethash is pending twice, and the
balance proof carries this merkle tree and the sum of its amounts;
`get_batch_unlock` relies on it. `TypeOK` is not inductive: that amounts stay
natural when a lock is removed needs that the locked amount is the sum over the
tree. `LocksCoherent` is not inductive either: the receiver of a transfer checks
the new locksroot against its own tree plus the lock, not that the secrethash
is new, so one needs that the sender never commits to two locks with the same
secrethash (`MessagesDistinct`). The invariant `WellFormed` is the conjunction
of the three; the lemmas of `ChannelStateProofs`, one per operator, rest on the
equations of the sum `AmountOf`. The other properties relate the two ends, and
what relates them is the history in `msgs`. `HistoryInv` says that every
balance proof anyone holds was sent (`ViewInv`), that the messages of a node
form one sequence, each made from the balance proof before it (`SequenceInv`),
and that each of them is covered at its sender, however old (`CoverageInv`); a
step either sends a message, accepts the next one or leaves all balance proofs,
and one lemma per kind shows that it keeps `HistoryInv`. `PartnerViewIsPast`
and `BalanceProofsCovered` follow. `ClaimInv` adds time: a node has processed
the registrations up to its block and announces an expiration only at the
sender's threshold (`BlocksInv`), and a registration it has processed moved the
lock exactly when it was in time (`RevealInv`); the receiver, asked at its own
lower block, cannot know of a registration in time that the sender missed, which
is `NoExpiryOfRegistered`. The step from "expired at the sender" to "not
claimable at the receiver" uses that the sender's threshold is one confirmation
period later. `NeverStuck` needs all three: the next message was made from the
balance proof the receiver holds, so the checks of locksroot, amounts, nonce and
capacity pass. The attempt to prove it without `SecretReused` failed at the one
leaf where the receiver's end state is asked about the sender's lock; TLC then
found the behaviour.

**Mediation.** `TaskInv` is the types and `LockInv`. `LocksHaveTasks` is not
inductive because `clear_if_finalized` looks at the pairs and at
`waiting_transfer` only: `Owns` says that every pending lock of a mediator is in
a pair or is the waiting one, and that a waiting lock is overwritten only when a
pair has it. Each mediator action is shown to be a `MediatorStep` (it keeps
`Owns`, touches the mediator's own channels and forgets no lock), which is done
once for `mediate_transfer` (`Mediated`) and once for the steps that start no
lock (`Quiet`). The initiator has one lock at most and the target accepts one at
most. A mediator that stops is a case of its own (`NextCases`): it changes
nothing but `stopped`, so each invariant is shown once for the steps that run
(`RunsNext`) and, where it speaks of `stopped`, once for the step that fails.
`SaneInv` says that the assertions hold of every task that is kept.

The other two properties need to know where the payment stands. `TipInv`: there
is one transfer to be forwarded at a time, on its way, at the target or waiting
(`Tip`), so a payment does not branch; `SecretInv`: as long as the target has not
received it, nobody but the initiator has the secret; `StartInv`: before the
payment nothing has happened, so the expiration is set once.
`OnchainUnlocksAtomic` rests on `ExpiryInv`: a mediator that noticed a
registration in time has no lock left that could expire (it knows the secret, so
it takes no refund, and it was not started by a registered transfer:
`NoticeInv`; a waiting transfer is not forwarded any more, because a registered
secret means that the tip is at the target), and a lock that expired before did
so at a confirmed block past the expiration, after which no registration is in
time (`Late`).

`MediatorNeverLoses` compares two cardinalities; the invariant behind it
(`CoverInv`) gives every payee of a mediator a payer of its own, by a function
`f` that is injective on the nodes the mediator has sent the transfer to, extends
with each pair and outlives the task. The lock of that payer is `Good` once the
payee was paid: claimed, or registered in time, or unlocked while there is still
time to register. The last case is the hard one, as it must survive the passing
of blocks: `is_safe_to_wait` at the node's own block leaves `MINING_DELAY` blocks
on the chain (`TimeInv`, `SafeToWait`; a node that has stopped follows no chain,
but it stopped after a registration in time), and the first block inside the danger zone
sends the registration, because `PairStates` says that the payer's state is not
yet final and that no registration was counted as started before
(`StartsRegistration`); from then on it is the registration under way that makes
the lock good (`RegistersInTime`). One lemma per handler shows that what it pays
is good (`SecretRevealPays`, `OnchainRevealPays`, `EndPays`, `BlockPays`), one that
a new pair gets a new payer (`TakesCovered`); `CoveredCount` turns `f` into the
injection between the two sets.

All of this is `LossInv`, and it is kept by the steps after which no task has two
pairs with the same payer (`ForwardedOnce`). Nothing clears `waiting_transfer`:
one that is tried a second time is forwarded twice, two payees are then covered
by one payer, and the argument ends there, as does the property. That is how the
code behaves (the observation on `mediator.py:1396` above); `LocksHaveTasks`
survives it. A first retry is harmless (`OnceInv`: before it, a waiting transfer
was not forwarded, since a new transfer comes from a payer that was not received
from before), so `MediatorsNeverLose` has no hypothesis on the behaviour.

`TimeInv` needs to know why a node stopped, which is `OnlyUnlocksStop`. An Unlock
is sent to a node that revealed the secret, or by the initiator because it saw
the registration (`ClaimInv`, with `KnownInv` for the payees that are known to
have it); a mediator that revealed it to a payer still has it while that lock is
open (`RevealInv`). So the Unlock that finds no secret comes from the initiator,
and the mediator has not noticed the registration (`StopInv`); and since
`ForwardedOnce` holds, neither a refund nor a retry meets an assertion
(`TransferWorks`, `RefundWorks`, `RetryWorks`). `OneInv` is `LossInv` with these
four, `SafeInv` is `TaskInv`, `SaneInv`, `OnceInv` and, while there was at most
one retry, `OneInv`; `SafeInv` is inductive.

**Settlement.** A step of `ChannelPayout` pays a participant by its last
accepted proof. That the contract's step is one needs to know what is in a
transaction that was sent long ago: `SentInv` says that a close or an update
that is pending, being handled or in the pool carries the last proof the node
accepts, `OnchainInv` that the contract holds the closer's proof and of the
other participant none or the last. That none is left when the window ends is
`UpdateInv`: the update is pending, then under way, then done, across crashes;
this is the place where the proof uses that blocks wait within the window
(`UpdateInTime`). `OwedIsPending` is not inductive because a restart reads the
logs again from the last Block of the state: `ViewInv`, `StatusInv` and
`LogsInv` say what a node has handled and that a restart does not skip the
close.

**WriteAheadLog.** `AppliedInLogOrder` needs that the row being applied is the
last one (`LockInv`: only the holder of the lock is between the two writes, and
the identifier in memory is the row it wrote); `SnapshotMatchesIdentifier` needs
that the identifier is the last row whenever a thread may snapshot
(`IdentifierInv`) and that a process that is down has none (`ProcessInv`). That
each row is applied as often as the two properties say needs `RestoredInv`: a
restart always starts from the newest snapshot, identifiers of snapshots grow,
and a row written after a restart is newer than every snapshot that was
restored, so a snapshot taken later has their rows twice and its own once. The
count of lost events is kept, with the lock held, for all rows but the last
(`EventsInv`).

**SecretRegistryProxy.** `RegisteredOnce` is stated of calls that send; it holds
because the loop that chooses the secrets holds the lock across its read of the
chain (`LockInv`), the dictionary has exactly the secrets of calls under way
(`OpenInv`), and a call that has removed its entries with success is seen on
chain by every later reader (`SeenInv`, from `AgeInv`); `ApartInv` carries it
from the loop to the transaction. `ReturnMeansRegistered` needs `ResultInv`
(what a set result means) and `BatchInv` (each secret of the batch is confirmed,
the call's own, or of a call it waits for).

**MessageQueues.** `SourceInv`: no message comes from nowhere; whatever is in a
retry queue or on the wire is a message the node sent or a Delivered for one
the partner sent. So a Processed names a transfer the partner accepted, and
nothing else removes a transfer (`UnacceptedStaysQueued`). `DeliveredInv`: a
Delivered is on its way only when its message was taken up, is being handled or
was cut off by a crash; without it `GlobalLostOnlyByCutoff` says nothing of a
late Delivered. It is stated through the four things any step does
(`CountersGrow`, `HistoryGrows`, `HandlingTakenUp`, `NoTransferReturns`), which
each action's lemma establishes.

**BlockchainEvents.** `NoEventLost` speaks of the moment the Block is
dispatched; what carries it there is `CoverInv` (an event before the first block
a filter will ask for next is applied or waits to be), `PolledInv` (the
listeners already asked are past the block of the poll) and `QueryInv` (the loop
over the ranges leaves no gap, whatever the range). A listener that is added in
the middle of a poll starts covered because a token network logs nothing before
the block that creates it and is created once (`ChainInv`), and it stands at the
end of the list, so the same walk still reaches it (`PollInv`). For
`AppliedInChainOrder` the entries that wait are in order over several answers of
overlapping ranges, with repetitions (`OrderInv`), and those of a token network
come after the network is known (`EventsInv`, `ListenersInv`). A crash forgets
the filters; `Start` restores the cover from `NoEventLost` itself.

Only model-checked: the liveness properties `EventuallyInSync`,
`EveryLockResolved`, `ThreadsComeToRest`, `CatchesUp`, `EndsUnlessDropped`,
`EventuallyDrained` and `ClosingSettles` (fairness and `ENABLED` are out of the
prover's reach), `SanityChecksHold` and `OnchainUnlocksAtomic` after the second
retry of a waiting transfer, and the two properties that the code violates.
Every other property of every run is proved.

## 5. What is not modelled

The opening of channels, routing and the network graph beyond what finds a
channel for its events, light clients, invoices, the connection manager, the
deposit and registry proxies, fees, several payments sharing the capacity of a
path, the event of an unlock sent by somebody else, the UDP transport, the
server side of Matrix, byzantine partners, deep reorganisations. `PROJECT.json`
gives the reason for each component and, among the hazards, what is known to be
fragile there.

## 6. Plan

Done: channels, mediation, log, event polling, secret registry, message queues,
settlement. Left:

1. `TokenNetwork`: the maps by address and channel identifier, the graph, and
   light client channels in them.
2. `LightClient`: the stored message protocol of the hub.
3. Deposit and open proxies, the connection manager, transaction nonces.
4. An abstract payment (every hop pays or none) implemented by `Mediation` on
   the schedules where no secret is late; `MessageQueues` shown to implement
   the network that `Channel` assumes.
