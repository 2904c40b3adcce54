---------------------------- MODULE WriteAheadLog ----------------------------
(***************************************************************************)
(* The write-ahead log of a node (raiden/storage/wal.py over the tables of *)
(* storage/sqlite.py) as RaidenService uses it: greenlets log and apply    *)
(* state changes, every SNAPSHOT_STATE_CHANGES_COUNT of them the state is  *)
(* snapshotted, the node may crash between any two writes, and a restart   *)
(* rebuilds the state from the last snapshot and the table.                *)
(*                                                                         *)
(* A state change is its identifier, the row number sqlite gives it.  The  *)
(* state machine is opaque: its state is the sequence of state changes it  *)
(* has applied, which tells apart any two histories.                       *)
(***************************************************************************)
EXTENDS Integers, Sequences, FiniteSets

CONSTANTS
  Threads,                        \* greenlets that dispatch state changes
  NoThread,
  SNAPSHOT_STATE_CHANGES_COUNT,
  MaxStateChanges,                \* bound: rows of the table state_changes
  MaxCrashes                      \* bound: crashes of the node

ASSUME ThreadsAssumption == Threads # {} /\ NoThread \notin Threads
ASSUME CountAssumption == SNAPSHOT_STATE_CHANGES_COUNT \in Nat \ {0}
ASSUME BoundsAssumption == MaxStateChanges \in Nat /\ MaxCrashes \in Nat

VARIABLES
  \* on disk
  state_changes,    \* number of rows of state_changes, the last identifier
  state_events,     \* identifiers whose events are in the table state_events
  state_snapshots,  \* rows of state_snapshot, in the order they were written
  \* in memory
  current_state,    \* StateManager.current_state
  state_change_id,  \* WriteAheadLog.state_change_id, 0 for None
  lock,             \* WriteAheadLog._lock
  snapshot_group,   \* RaidenService.snapshot_group
  ready,            \* RaidenService.ready_to_process_events
  pc,               \* what each thread is about to do
  local,            \* state_change_id, then new_snapshot_group, of each thread
  \* history
  crashes,
  restored          \* identifiers of the snapshots that restarts started from

disk == <<state_changes, state_events, state_snapshots>>
vars == <<disk, current_state, state_change_id, lock, snapshot_group, ready,
          pc, local, crashes, restored>>

Running == ready \/ \E t \in Threads : pc[t] # "down"

Init ==
  /\ state_changes = 0 /\ state_events = {} /\ state_snapshots = <<>>
  /\ current_state = <<>> /\ state_change_id = 0 /\ lock = NoThread
  /\ snapshot_group = 0 /\ ready = FALSE
  /\ pc = [t \in Threads |-> "down"] /\ local = [t \in Threads |-> 0]
  /\ crashes = 0 /\ restored = {}

-----------------------------------------------------------------------------
(* Restart *)

(* Storage.get_snapshot_closest_to_state_change("latest")                  *)
get_snapshot_closest_to_state_change ==
  IF state_snapshots = <<>> THEN [statechange_id |-> 0, data |-> <<>>]
  ELSE state_snapshots[Len(state_snapshots)]

(* Fault: rows taken to be numbered from 0.                                *)
Fault_rows_from_zero(from) == [i \in 1 .. state_changes - from + 1 |-> from + i - 1]

(* Fault: the last row is left out.                                        *)
Fault_without_last_row(from) ==
  LET first == IF from = 0 THEN 1 ELSE from
  IN  [i \in 1 .. state_changes - first |-> first + i - 1]

(* Storage.get_statechanges_by_identifier(from, "latest"): the rows with   *)
(* identifier >= from; rows are numbered from 1.                           *)
get_statechanges_by_identifier(from) ==
  LET first == IF from = 0 THEN 1 ELSE from
  IN  [i \in 1 .. state_changes - first + 1 |-> first + i - 1]

(* RaidenService.start up to the point where other greenlets run: the      *)
(* state is restored; WriteAheadLog() starts with no state_change_id.      *)
restore_to_state_change ==
  /\ ~Running
  /\ LET snapshot == get_snapshot_closest_to_state_change
     IN  /\ current_state' = snapshot.data
                             \o get_statechanges_by_identifier(snapshot.statechange_id)
         /\ restored' = restored \cup ({snapshot.statechange_id} \ {0})
  /\ snapshot_group' = state_changes \div SNAPSHOT_STATE_CHANGES_COUNT
  /\ pc' = [t \in Threads |-> "idle"]
  /\ UNCHANGED <<disk, state_change_id, lock, ready, local, crashes>>

(* RaidenService._initialize_ready_to_processed_events, after the alarm's  *)
(* first run.                                                              *)
InitializeReadyToProcessEvents ==
  /\ ~ready
  /\ \A t \in Threads : pc[t] = "idle"
  /\ ready' = TRUE
  /\ UNCHANGED <<disk, current_state, state_change_id, lock, snapshot_group,
                 pc, local, crashes, restored>>

-----------------------------------------------------------------------------
(* WriteAheadLog.log_and_dispatch, under the lock *)

(* Until the node is ready only the greenlet that starts it dispatches.    *)
WriteStateChange(t) ==
  /\ pc[t] = "idle"
  /\ ready \/ \A u \in Threads : pc[u] = "idle"
  /\ state_changes < MaxStateChanges
  /\ lock = NoThread /\ lock' = t
  /\ state_changes' = state_changes + 1
  /\ state_change_id' = state_changes'
  /\ pc' = [pc EXCEPT ![t] = "dispatch"]
  /\ local' = [local EXCEPT ![t] = state_changes']
  /\ UNCHANGED <<state_events, state_snapshots, current_state,
                 snapshot_group, ready, crashes, restored>>

(* Fault: the lock is released before the events are written.              *)
Fault_Dispatch(t) ==
  /\ pc[t] = "dispatch"
  /\ current_state' = Append(current_state, local[t])
  /\ lock' = NoThread
  /\ pc' = [pc EXCEPT ![t] = "write_events"]
  /\ UNCHANGED <<disk, state_change_id, snapshot_group, ready, local, crashes, restored>>

(* StateManager.dispatch *)
Dispatch(t) ==
  /\ pc[t] = "dispatch"
  /\ current_state' = Append(current_state, local[t])
  /\ pc' = [pc EXCEPT ![t] = "write_events"]
  /\ UNCHANGED <<disk, state_change_id, lock, snapshot_group, ready, local, crashes, restored>>

(* Fault: an exit of the critical section that keeps the lock.             *)
Fault_WriteEvents(t) ==
  /\ pc[t] = "write_events"
  /\ state_events' = state_events \cup {local[t]}
  /\ pc' = [pc EXCEPT ![t] = "count"]
  /\ UNCHANGED <<state_changes, state_snapshots, current_state, state_change_id,
                 lock, snapshot_group, ready, local, crashes, restored>>

(* Storage.write_events; the lock is released.                             *)
WriteEvents(t) ==
  /\ pc[t] = "write_events"
  /\ state_events' = state_events \cup {local[t]}
  /\ lock' = NoThread
  /\ pc' = [pc EXCEPT ![t] = "count"]
  /\ UNCHANGED <<state_changes, state_snapshots, current_state, state_change_id,
                 snapshot_group, ready, local, crashes, restored>>

-----------------------------------------------------------------------------
(* The end of RaidenService.handle_state_change *)

(* The rows are counted; nothing is snapshotted before the node is ready.  *)
CountStateChanges(t) ==
  /\ pc[t] = "count"
  /\ LET new_snapshot_group == state_changes \div SNAPSHOT_STATE_CHANGES_COUNT
     IN  IF ready /\ new_snapshot_group > snapshot_group
         THEN /\ local' = [local EXCEPT ![t] = new_snapshot_group]
              /\ pc' = [pc EXCEPT ![t] = "snapshot"]
         ELSE /\ local' = [local EXCEPT ![t] = 0]
              /\ pc' = [pc EXCEPT ![t] = "idle"]
  /\ UNCHANGED <<disk, current_state, state_change_id, lock, snapshot_group,
                 ready, crashes, restored>>

(* Fault: the snapshot is taken without the lock.                          *)
Fault_Snapshot(t) ==
  /\ pc[t] = "snapshot"
  /\ state_snapshots' = Append(state_snapshots,
       [statechange_id |-> state_change_id, data |-> current_state])
  /\ snapshot_group' = local[t]
  /\ local' = [local EXCEPT ![t] = 0]
  /\ pc' = [pc EXCEPT ![t] = "idle"]
  /\ UNCHANGED <<state_changes, state_events, current_state, state_change_id,
                 lock, ready, crashes, restored>>

(* WriteAheadLog.snapshot: state and identifier are read and written under *)
(* the lock.  The thread has dispatched, so state_change_id is set.        *)
Snapshot(t) ==
  /\ pc[t] = "snapshot"
  /\ lock = NoThread
  /\ state_snapshots' = Append(state_snapshots,
       [statechange_id |-> state_change_id, data |-> current_state])
  /\ snapshot_group' = local[t]
  /\ local' = [local EXCEPT ![t] = 0]
  /\ pc' = [pc EXCEPT ![t] = "idle"]
  /\ UNCHANGED <<state_changes, state_events, current_state, state_change_id,
                 lock, ready, crashes, restored>>

-----------------------------------------------------------------------------
(* The process ends: the tables are what remains.                          *)
Crash ==
  /\ Running /\ crashes < MaxCrashes
  /\ crashes' = crashes + 1
  /\ current_state' = <<>> /\ state_change_id' = 0 /\ lock' = NoThread
  /\ snapshot_group' = 0 /\ ready' = FALSE
  /\ pc' = [t \in Threads |-> "down"] /\ local' = [t \in Threads |-> 0]
  /\ UNCHANGED <<disk, restored>>

Next ==
  \/ restore_to_state_change
  \/ InitializeReadyToProcessEvents
  \/ \E t \in Threads :
       \/ WriteStateChange(t) \/ Dispatch(t) \/ WriteEvents(t)
       \/ CountStateChanges(t) \/ Snapshot(t)
  \/ Crash

Spec == Init /\ [][Next]_vars

(* A greenlet that has started handling a state change keeps running, and  *)
(* the node is restarted after a crash.                                    *)
FairSpec ==
  /\ Spec
  /\ WF_vars(restore_to_state_change) /\ WF_vars(InitializeReadyToProcessEvents)
  /\ \A t \in Threads :
       /\ WF_vars(Dispatch(t)) /\ WF_vars(WriteEvents(t))
       /\ WF_vars(CountStateChanges(t)) /\ WF_vars(Snapshot(t))

-----------------------------------------------------------------------------
Identifiers == 1 .. MaxStateChanges

(* Every variable keeps its type.                                          *)
TypeOK ==
  /\ state_changes \in 0 .. MaxStateChanges
  /\ state_events \subseteq 1 .. state_changes
  /\ \A i \in 1 .. Len(state_snapshots) :
       state_snapshots[i].statechange_id \in 1 .. state_changes
  /\ current_state \in Seq(Identifiers)
  /\ state_change_id \in 0 .. state_changes
  /\ lock \in Threads \cup {NoThread}
  /\ snapshot_group \in 0 .. MaxStateChanges
  /\ ready \in BOOLEAN
  /\ pc \in [Threads -> {"down", "idle", "dispatch", "write_events", "count", "snapshot"}]
  /\ local \in [Threads -> 0 .. MaxStateChanges]
  /\ crashes \in 0 .. MaxCrashes
  /\ restored \subseteq 1 .. state_changes

(* The history h applies the state changes 1 .. n in the order of the      *)
(* table, those in `twice' two times in a row and each other one once.     *)
AppliesInOrder(h, n, twice) ==
  /\ n = 0 => h = <<>>
  /\ n > 0 => /\ Len(h) > 0 /\ h[1] = 1 /\ h[Len(h)] = n
              /\ \A i \in 1 .. Len(h) - 1 :
                   h[i + 1] = h[i] + 1 \/ (h[i + 1] = h[i] /\ h[i] \in twice)
              /\ \A i \in 1 .. Len(h) - 2 : h[i + 2] # h[i]
              /\ \A r \in twice : \E i \in 1 .. Len(h) - 1 : h[i] = r /\ h[i + 1] = r

(* The state in memory is the table applied in order, whatever the         *)
(* interleaving of the greenlets: wal.py, "The state changes must be       *)
(* applied in the same order as they are saved to the WAL".  (The row      *)
(* being applied right now may be missing.)  No row is left out and none   *)
(* is applied again, with one exact exception: a restart reads the rows    *)
(* >= the identifier of its snapshot, so the row of every snapshot that    *)
(* was ever restored is applied twice, although raiden_service.py has      *)
(* "all state changes which are not 'part' of it are applied".             *)
AppliedInLogOrder ==
  Running =>
    AppliesInOrder(current_state,
      IF \E t \in Threads : pc[t] = "dispatch" THEN state_changes - 1 ELSE state_changes,
      restored)

(* A stored snapshot is the state right after the state change it names,   *)
(* reached with each row applied once, those of the earlier snapshots that *)
(* a restart started from excepted: their second application is kept in    *)
(* every snapshot that follows.                                            *)
SnapshotMatchesIdentifier ==
  \A i \in 1 .. Len(state_snapshots) :
    LET k == state_snapshots[i].statechange_id
    IN  AppliesInOrder(state_snapshots[i].data, k, {r \in restored : r < k})

(* What log_and_dispatch says, "Events produced by applying state change   *)
(* are also saved", up to crashes: whenever the lock is free, the state    *)
(* changes whose events are in no table are at most as many as crashes, so *)
(* a crash between the two writes loses the events of one state change and *)
(* never of two.                                                           *)
EventsLostOnlyByCrash ==
  lock = NoThread => Cardinality((1 .. state_changes) \ state_events) <= crashes

(* Every thread that started a state change finishes it, its snapshot      *)
(* included, and leaves the lock free: the two critical sections of the    *)
(* lock never wait for each other, across any number of restarts.          *)
ThreadsComeToRest ==
  <>[](\A t \in Threads : pc[t] = "idle" /\ lock = NoThread)
=============================================================================
