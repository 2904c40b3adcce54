------------------------ MODULE WriteAheadLogProofs ------------------------
(***************************************************************************)
(* Proofs about WriteAheadLog, for any number of greenlets, state changes  *)
(* and crashes and any snapshot interval: its safety invariants.           *)
(***************************************************************************)
EXTENDS WriteAheadLog, FiniteSetTheorems, SequenceTheorems, TLAPS

(* The threads that hold the lock.                                         *)
Critical == {"dispatch", "write_events"}

(* What a snapshot is, and that it names a row of the table.               *)
SnapshotsInv ==
  /\ state_snapshots \in Seq([statechange_id : Identifiers, data : Seq(Identifiers)])
  /\ \A i \in 1..Len(state_snapshots) : state_snapshots[i].statechange_id <= state_changes

(* All the threads are down, or none is, and a node that is down has       *)
(* nothing in memory.                                                      *)
ProcessInv ==
  \A t \in Threads : pc[t] = "down" =>
    /\ ~ ready /\ state_change_id = 0
    /\ \A u \in Threads : pc[u] = "down"

(* The lock is held by the thread between its two writes, which writes     *)
(* about the last row.                                                     *)
LockInv ==
  \A t \in Threads :
    /\ lock = t <=> pc[t] \in Critical
    /\ pc[t] \in Critical => /\ local[t] = state_changes
                             /\ state_change_id = state_changes
                             /\ state_changes >= 1
                             /\ state_changes \notin state_events

(* The identifier in memory is the last row, once the process has logged   *)
(* one; a thread that may snapshot has logged one.                         *)
IdentifierInv ==
  /\ state_change_id \in {0, state_changes}
  /\ \A t \in Threads : pc[t] \in {"count", "snapshot"} => state_change_id # 0

(* While the lock is held, the last row is the only one whose events may   *)
(* still come.                                                             *)
EventsInv ==
  lock # NoThread => Cardinality((1..state_changes - 1) \ state_events) <= crashes

(* A snapshot that a restart started from is in the table and the last     *)
(* snapshot names the latest row of all; what the process has logged since *)
(* is behind every row that was ever applied twice.                        *)
RestoredInv ==
  /\ \A r \in restored : \E i \in 1..Len(state_snapshots) :
                            state_snapshots[i].statechange_id = r
  /\ \A i \in 1..Len(state_snapshots) :
       state_snapshots[i].statechange_id
         <= state_snapshots[Len(state_snapshots)].statechange_id
  /\ state_change_id # 0 => \A r \in restored : r < state_change_id

IInv ==
  /\ TypeOK /\ SnapshotsInv /\ ProcessInv /\ LockInv /\ IdentifierInv /\ EventsInv
  /\ RestoredInv
  /\ AppliedInLogOrder /\ SnapshotMatchesIdentifier /\ EventsLostOnlyByCrash

-----------------------------------------------------------------------------
(* The operators of the model.                                             *)

LEMMA DivType ==
  ASSUME NEW a \in Nat, NEW b \in Nat \ {0}
  PROVE  a \div b \in 0..a
<1> DEFINE q == a \div b
<1>1. q \in Int /\ b * q <= a /\ a < b * q + b
  OBVIOUS
<1>2. q >= 0
  BY <1>1
<1>3. q <= a
  BY <1>1, <1>2
<1> QED
  BY <1>1, <1>2, <1>3

LEMMA AppendApplies ==
  ASSUME NEW n \in Nat, NEW h \in Seq(Nat), NEW twice, twice \subseteq 1..n,
         AppliesInOrder(h, n, twice)
  PROVE  AppliesInOrder(Append(h, n + 1), n + 1, twice)
<1> DEFINE g == Append(h, n + 1)
<1>1. /\ Len(h) \in Nat /\ Len(g) = Len(h) + 1
      /\ \A i \in 1..Len(h) : g[i] = h[i] /\ h[i] \in Nat
      /\ g[Len(h) + 1] = n + 1
  BY AppendProperties, LenProperties, ElementOfSeq
<1> HIDE DEF g
<1>2. CASE n = 0
  <2>1. Len(h) = 0 /\ twice = {}
    BY <1>2 DEF AppliesInOrder
  <2> QED
    BY <1>1, <1>2, <2>1 DEF AppliesInOrder, g
<1>3. CASE n > 0
  <2>1. /\ Len(h) > 0 /\ h[1] = 1 /\ h[Len(h)] = n
        /\ \A i \in 1..Len(h) - 1 : h[i + 1] = h[i] + 1 \/ (h[i + 1] = h[i] /\ h[i] \in twice)
        /\ \A i \in 1..Len(h) - 2 : h[i + 2] # h[i]
        /\ \A r \in twice : \E i \in 1..Len(h) - 1 : h[i] = r /\ h[i + 1] = r
    BY <1>3 DEF AppliesInOrder
  <2>2. g[1] = 1 /\ g[Len(g)] = n + 1
    BY <1>1, <2>1
  <2>3. ASSUME NEW i \in 1..Len(g) - 1
        PROVE  g[i + 1] = g[i] + 1 \/ (g[i + 1] = g[i] /\ g[i] \in twice)
    <3>1. CASE i = Len(h)
      BY <1>1, <2>1, <3>1
    <3>2. CASE i # Len(h)
      <4>1. i \in 1..Len(h) - 1 /\ i \in 1..Len(h) /\ i + 1 \in 1..Len(h)
        BY <1>1, <3>2
      <4>2. g[i] = h[i] /\ g[i + 1] = h[i + 1]
        BY <1>1, <4>1
      <4> QED
        BY <2>1, <4>1, <4>2
    <3> QED
      BY <3>1, <3>2
  <2>4. ASSUME NEW i \in 1..Len(g) - 2
        PROVE  g[i + 2] # g[i]
    <3>1. CASE i = Len(h) - 1
      <4>1. i \in 1..Len(h) - 1 /\ i \in 1..Len(h) /\ i + 1 = Len(h) /\ i + 2 = Len(h) + 1
        BY <1>1, <2>4, <3>1
      <4>2. h[i + 1] = h[i] + 1 \/ h[i + 1] = h[i]
        BY <2>1, <4>1
      <4>3. h[i] \in Nat /\ g[i] = h[i] /\ g[i + 2] = n + 1 /\ h[i + 1] = n
        BY <1>1, <2>1, <4>1
      <4> QED
        BY <4>2, <4>3
    <3>2. CASE i # Len(h) - 1
      <4>1. i \in 1..Len(h) - 2 /\ i \in 1..Len(h) /\ i + 2 \in 1..Len(h)
        BY <1>1, <2>4, <3>2
      <4> QED
        BY <1>1, <2>1, <4>1
    <3> QED
      BY <3>1, <3>2
  <2>5. ASSUME NEW r \in twice
        PROVE  \E i \in 1..Len(g) - 1 : g[i] = r /\ g[i + 1] = r
    <3>1. PICK i \in 1..Len(h) - 1 : h[i] = r /\ h[i + 1] = r
      BY <2>1, <2>5
    <3>2. i \in 1..Len(g) - 1 /\ g[i] = h[i] /\ g[i + 1] = h[i + 1]
      BY <1>1
    <3> QED
      BY <3>1, <3>2
  <2> QED
    BY <1>1, <1>3, <2>2, <2>3, <2>4, <2>5 DEF AppliesInOrder, g
<1> QED
  BY <1>2, <1>3

(* A snapshot followed by the rows from the one it names on: that row is   *)
(* applied twice.                                                          *)
LEMMA ReplayApplies ==
  ASSUME NEW n \in Nat, NEW m \in 1..n, NEW h \in Seq(Nat), NEW twice,
         twice \subseteq 1..m - 1, AppliesInOrder(h, m, twice)
  PROVE  AppliesInOrder(h \o [i \in 1..n - m + 1 |-> m + i - 1], n, twice \cup {m})
<1> DEFINE rows == [i \in 1..n - m + 1 |-> m + i - 1]
           g == h \o rows
<1>1. rows \in Seq(Nat) /\ Len(rows) = n - m + 1
  OBVIOUS
<1>2. \A i \in 1..n - m + 1 : rows[i] = m + i - 1
  OBVIOUS
<1> HIDE DEF rows
<1>0. m \in Nat /\ m >= 1 /\ m <= n
  OBVIOUS
<1>3. /\ Len(h) \in Nat /\ Len(g) = Len(h) + n - m + 1
      /\ \A i \in 1..Len(h) : g[i] = h[i] /\ h[i] \in Nat
      /\ \A j \in 1..n - m + 1 : g[Len(h) + j] = m + j - 1
  <2>1. Len(h) \in Nat /\ Len(g) = Len(h) + Len(rows)
    BY <1>1, ConcatProperties, LenProperties
  <2>2. \A i \in 1..Len(h) + Len(rows) : g[i] = IF i <= Len(h) THEN h[i] ELSE rows[i - Len(h)]
    BY <1>1, ConcatProperties, LenProperties
  <2>3. \A i \in 1..Len(h) : g[i] = h[i] /\ h[i] \in Nat
    BY <1>0, <1>1, <2>1, <2>2, ElementOfSeq
  <2>4. ASSUME NEW j \in 1..n - m + 1
        PROVE  g[Len(h) + j] = m + j - 1
    <3>1. Len(h) + j \in 1..Len(h) + Len(rows) /\ ~ (Len(h) + j <= Len(h))
      BY <1>0, <1>1, <2>1
    <3>2. g[Len(h) + j] = rows[Len(h) + j - Len(h)]
      BY <2>2, <3>1
    <3>3. Len(h) + j - Len(h) = j
      BY <1>0, <2>1
    <3> QED
      BY <1>2, <3>2, <3>3
  <2> QED
    BY <1>0, <1>1, <2>1, <2>3, <2>4
<1> HIDE DEF g
<1>4. /\ Len(h) > 0 /\ h[1] = 1 /\ h[Len(h)] = m
      /\ \A i \in 1..Len(h) - 1 : h[i + 1] = h[i] + 1 \/ (h[i + 1] = h[i] /\ h[i] \in twice)
      /\ \A i \in 1..Len(h) - 2 : h[i + 2] # h[i]
      /\ \A r \in twice : \E i \in 1..Len(h) - 1 : h[i] = r /\ h[i + 1] = r
  BY DEF AppliesInOrder
<1>5. g[1] = 1 /\ Len(g) > 0
  BY <1>0, <1>3, <1>4
<1>6. g[Len(g)] = n
  <2>0. n - m + 1 \in 1..n - m + 1
    BY <1>0
  <2>1. g[Len(h) + (n - m + 1)] = m + (n - m + 1) - 1
    BY <1>3, <2>0
  <2>2. Len(g) = Len(h) + (n - m + 1) /\ m + (n - m + 1) - 1 = n
    BY <1>0, <1>3
  <2> QED
    BY <2>1, <2>2
<1>7. /\ g[Len(h)] = m /\ g[Len(h) + 1] = m
      /\ Len(h) \in 1..Len(g) - 1
  <2>1. g[Len(h) + 1] = m + 1 - 1
    BY <1>0, <1>3
  <2> QED
    BY <1>0, <1>3, <1>4, <2>1
(* The rows behind the boundary.                                           *)
<1>8. ASSUME NEW i \in Nat, i > Len(h), i <= Len(g)
      PROVE  g[i] = m + (i - Len(h)) - 1
  <2>1. i - Len(h) \in 1..n - m + 1 /\ i = Len(h) + (i - Len(h))
    BY <1>0, <1>3, <1>8
  <2>2. g[Len(h) + (i - Len(h))] = m + (i - Len(h)) - 1
    BY <1>3, <2>1
  <2> QED
    BY <2>1, <2>2
<1>9. ASSUME NEW i \in 1..Len(g) - 1
      PROVE  g[i + 1] = g[i] + 1 \/ (g[i + 1] = g[i] /\ g[i] \in twice \cup {m})
  <2>1. CASE i < Len(h)
    <3>1. i \in 1..Len(h) - 1 /\ i \in 1..Len(h) /\ i + 1 \in 1..Len(h)
      BY <1>3, <2>1
    <3> QED
      BY <1>3, <1>4, <3>1
  <2>2. CASE i = Len(h)
    BY <1>7, <2>2
  <2>3. CASE i > Len(h)
    <3>1. i \in Nat /\ i + 1 \in Nat /\ i + 1 > Len(h) /\ i <= Len(g) /\ i + 1 <= Len(g)
      BY <1>3, <2>3
    <3>2. g[i] = m + (i - Len(h)) - 1 /\ g[i + 1] = m + (i + 1 - Len(h)) - 1
      BY <1>8, <2>3, <3>1
    <3> QED
      BY <1>0, <1>3, <3>1, <3>2
  <2> QED
    BY <1>3, <2>1, <2>2, <2>3
<1>10. ASSUME NEW i \in 1..Len(g) - 2
       PROVE  g[i + 2] # g[i]
  <2>1. CASE i < Len(h) - 1
    <3>1. i \in 1..Len(h) - 2 /\ i \in 1..Len(h) /\ i + 2 \in 1..Len(h)
      BY <1>3, <2>1
    <3> QED
      BY <1>3, <1>4, <3>1
  <2>2. CASE i = Len(h) - 1
    <3>1. i \in 1..Len(h) - 1 /\ i \in 1..Len(h) /\ i + 1 = Len(h) /\ i + 2 = Len(h) + 1
      BY <1>3, <2>2
    <3>2. h[i + 1] = h[i] + 1 \/ (h[i + 1] = h[i] /\ h[i] \in twice)
      BY <1>4, <3>1
    <3>3. h[i + 1] = m /\ h[i] \in Nat /\ m \notin twice
      BY <1>0, <1>3, <1>4, <3>1
    <3>4. h[i] # m
      BY <1>0, <3>2, <3>3
    <3>5. g[i] = h[i] /\ g[i + 2] = m
      BY <1>3, <1>7, <3>1
    <3> QED
      BY <3>4, <3>5
  <2>3. CASE i = Len(h)
    <3>1. i + 2 \in Nat /\ i + 2 > Len(h) /\ i + 2 <= Len(g) /\ i + 2 - Len(h) = 2
      BY <1>3, <2>3
    <3>2. g[i + 2] = m + 2 - 1
      BY <1>8, <3>1
    <3> QED
      BY <1>0, <1>7, <2>3, <3>2
  <2>4. CASE i > Len(h)
    <3>1. i \in Nat /\ i + 2 \in Nat /\ i + 2 > Len(h) /\ i <= Len(g) /\ i + 2 <= Len(g)
      BY <1>3, <2>4
    <3>2. g[i] = m + (i - Len(h)) - 1 /\ g[i + 2] = m + (i + 2 - Len(h)) - 1
      BY <1>8, <2>4, <3>1
    <3> QED
      BY <1>0, <1>3, <3>1, <3>2
  <2> QED
    BY <1>3, <2>1, <2>2, <2>3, <2>4
<1>11. ASSUME NEW r \in twice \cup {m}
       PROVE  \E i \in 1..Len(g) - 1 : g[i] = r /\ g[i + 1] = r
  <2>1. CASE r = m
    BY <1>7, <2>1
  <2>2. CASE r \in twice
    <3>1. PICK i \in 1..Len(h) - 1 : h[i] = r /\ h[i + 1] = r
      BY <1>4, <2>2
    <3>2. i \in 1..Len(g) - 1 /\ i \in 1..Len(h) /\ i + 1 \in 1..Len(h)
      BY <1>0, <1>3
    <3> QED
      BY <1>3, <3>1, <3>2
  <2> QED
    BY <2>1, <2>2
<1>12. AppliesInOrder(g, n, twice \cup {m})
  BY <1>0, <1>5, <1>6, <1>9, <1>10, <1>11 DEF AppliesInOrder
<1> QED
  BY <1>12 DEF g, rows

(* All the rows, when there is no snapshot.                                *)
LEMMA AllRowsApply ==
  ASSUME NEW n \in Nat
  PROVE  AppliesInOrder(<<>> \o [i \in 1..n - 1 + 1 |-> 1 + i - 1], n, {})
<1> DEFINE rows == [i \in 1..n - 1 + 1 |-> 1 + i - 1]
<1>1. rows \in Seq(Nat) /\ Len(rows) = n
  OBVIOUS
<1>2. \A i \in 1..n : rows[i] = i
  OBVIOUS
<1>3. n = 0 => rows = <<>>
  BY <1>1, EmptySeq
<1> HIDE DEF rows
<1>4. <<>> \o rows = rows
  BY <1>1
<1>5. AppliesInOrder(rows, n, {})
  BY <1>1, <1>2, <1>3 DEF AppliesInOrder
<1> QED
  BY <1>4, <1>5 DEF rows

-----------------------------------------------------------------------------
(* The inductive invariant.                                                *)

LEMMA InitIInv == Init => IInv
<1> SUFFICES ASSUME Init
             PROVE  IInv
  OBVIOUS
<1> USE DEF Init
<1>1. MaxStateChanges \in Nat /\ MaxCrashes \in Nat /\ NoThread \notin Threads
  BY BoundsAssumption, ThreadsAssumption
<1>2. TypeOK
  <2>1. current_state \in Seq(Identifiers) /\ Len(state_snapshots) = 0
    BY EmptySeq
  <2>2. /\ state_changes \in 0..MaxStateChanges /\ state_events \subseteq 1..state_changes
        /\ state_change_id \in 0..state_changes /\ snapshot_group \in 0..MaxStateChanges
        /\ crashes \in 0..MaxCrashes /\ restored \subseteq 1..state_changes
        /\ local \in [Threads -> 0..MaxStateChanges]
    BY <1>1
  <2>3. /\ lock \in Threads \cup {NoThread} /\ ready \in BOOLEAN
        /\ pc \in [Threads -> {"down", "idle", "dispatch", "write_events", "count", "snapshot"}]
    OBVIOUS
  <2> HIDE DEF Init
  <2> QED
    BY <2>1, <2>2, <2>3 DEF TypeOK
<1>3. SnapshotsInv /\ SnapshotMatchesIdentifier
  BY <1>1, EmptySeq DEF SnapshotsInv, SnapshotMatchesIdentifier
<1>4. ProcessInv /\ LockInv /\ IdentifierInv /\ RestoredInv
  BY <1>1, EmptySeq DEF ProcessInv, LockInv, IdentifierInv, RestoredInv, Critical
<1>5. AppliedInLogOrder
  BY DEF AppliedInLogOrder, Running
<1>6. (1..0) \ {} = {}
  OBVIOUS
<1>7. EventsInv /\ EventsLostOnlyByCrash
  BY <1>1, <1>6, FS_EmptySet DEF EventsInv, EventsLostOnlyByCrash
<1> QED
  BY <1>2, <1>3, <1>4, <1>5, <1>7 DEF IInv

(* What a restart restores.                                                *)
LEMMA Restored ==
  ASSUME TypeOK, SnapshotsInv, RestoredInv, SnapshotMatchesIdentifier,
         restore_to_state_change
  PROVE  /\ current_state' \in Seq(Identifiers)
         /\ AppliesInOrder(current_state', state_changes, restored')
         /\ \/ state_snapshots = <<>> /\ restored = {} /\ restored' = {}
            \/ /\ Len(state_snapshots) \in 1..Len(state_snapshots)
               /\ LET k == state_snapshots[Len(state_snapshots)].statechange_id
                  IN  k \in 1..state_changes /\ restored' = restored \cup {k}
<1>1. state_changes \in Nat /\ state_changes <= MaxStateChanges /\ MaxStateChanges \in Nat
  BY BoundsAssumption DEF TypeOK
<1>2. ASSUME NEW k \in 1..state_changes + 1
      PROVE  [i \in 1..state_changes - k + 1 |-> k + i - 1] \in Seq(Identifiers)
  <2>1. \A i \in 1..state_changes - k + 1 : k + i - 1 \in Identifiers
    BY <1>1 DEF Identifiers
  <2>2. state_changes - k + 1 \in Nat
    BY <1>1
  <2> QED
    BY <2>1, <2>2
<1>3. CASE state_snapshots = <<>>
  <2>1. current_state' = <<>> \o [i \in 1..state_changes - 1 + 1 |-> 1 + i - 1]
    BY <1>3 DEF restore_to_state_change, get_snapshot_closest_to_state_change,
                get_statechanges_by_identifier
  <2>2. <<>> \in Seq(Identifiers) /\ 1 \in 1..state_changes + 1
    BY <1>1, EmptySeq
  <2>3. current_state' \in Seq(Identifiers)
    BY <1>2, <2>1, <2>2, ConcatProperties
  <2>4. restored = {}
    BY <1>3, EmptySeq DEF RestoredInv
  <2>5. restored' = {}
    BY <1>3, <2>4 DEF restore_to_state_change, get_snapshot_closest_to_state_change
  <2> QED
    BY <1>1, <1>3, <2>1, <2>3, <2>4, <2>5, AllRowsApply
<1>4. CASE state_snapshots # <<>>
  <2> DEFINE last == state_snapshots[Len(state_snapshots)]
  <2>1. Len(state_snapshots) \in Nat /\ Len(state_snapshots) \in 1..Len(state_snapshots)
    BY <1>4, EmptySeq, LenProperties DEF SnapshotsInv
  <2>2. last \in [statechange_id : Identifiers, data : Seq(Identifiers)]
    BY <2>1, ElementOfSeq DEF SnapshotsInv
  <2> DEFINE before == {r \in restored : r < last.statechange_id}
  <2>3. last.statechange_id <= state_changes
          /\ AppliesInOrder(last.data, last.statechange_id, before)
    BY <2>1 DEF SnapshotsInv, SnapshotMatchesIdentifier
  <2>4. last.statechange_id \in 1..state_changes /\ last.data \in Seq(Identifiers)
    BY <1>1, <2>2, <2>3 DEF Identifiers
  <2>5. last.data \in Seq(Nat)
    <3>1. Identifiers \subseteq Nat
      BY <1>1 DEF Identifiers
    <3> QED
      BY <2>4, <3>1, SeqMonotonic
  <2>6. /\ current_state' = last.data \o get_statechanges_by_identifier(last.statechange_id)
        /\ restored' = restored \cup ({last.statechange_id} \ {0})
    BY <1>4 DEF restore_to_state_change, get_snapshot_closest_to_state_change
  <2>10. \A r \in restored : r \in 1..state_changes /\ r <= last.statechange_id
    BY DEF RestoredInv, TypeOK
  <2> HIDE DEF last
  <2>11. restored' = restored \cup {last.statechange_id}
    BY <1>1, <2>4, <2>6
  <2>12. restored' = before \cup {last.statechange_id}
    BY <1>1, <2>4, <2>10, <2>11
  <2>13. before \subseteq 1..last.statechange_id - 1
    BY <1>1, <2>4, <2>10
  <2> HIDE DEF before
  <2>7. current_state' = last.data
          \o [i \in 1..state_changes - last.statechange_id + 1 |-> last.statechange_id + i - 1]
    <3>1. last.statechange_id # 0
      BY <1>1, <2>4
    <3> QED
      BY <2>6, <3>1 DEF get_statechanges_by_identifier
  <2>8. last.statechange_id \in 1..state_changes + 1
    BY <1>1, <2>4
  <2>9. current_state' \in Seq(Identifiers)
    BY <1>2, <2>4, <2>7, <2>8, ConcatProperties
  <2>14. AppliesInOrder(current_state', state_changes, restored')
    BY <1>1, <2>3, <2>4, <2>5, <2>7, <2>12, <2>13, ReplayApplies
  <2> QED
    BY <2>1, <2>4, <2>9, <2>11, <2>14 DEF last
<1> QED
  BY <1>3, <1>4

LEMMA TypeStep == IInv /\ [Next]_vars => TypeOK'
<1> SUFFICES ASSUME IInv, [Next]_vars
             PROVE  TypeOK'
  OBVIOUS
<1>1. TypeOK
  BY DEF IInv
<1>2. MaxStateChanges \in Nat /\ MaxCrashes \in Nat
  BY BoundsAssumption
<1>3. state_changes \div SNAPSHOT_STATE_CHANGES_COUNT \in 0..MaxStateChanges
  <2>1. state_changes \in Nat /\ state_changes <= MaxStateChanges
    BY <1>1, <1>2 DEF TypeOK
  <2>2. state_changes \div SNAPSHOT_STATE_CHANGES_COUNT \in 0..state_changes
    BY <2>1, CountAssumption, DivType
  <2> QED
    BY <1>2, <2>1, <2>2
<1>4. CASE restore_to_state_change
  <2>1. current_state' \in Seq(Identifiers)
    BY <1>4, Restored DEF IInv
  <2>2. restored' \subseteq 1..state_changes
    BY <1>1, <1>4, Restored DEF IInv, TypeOK
  <2> QED
    BY <1>1, <1>3, <1>4, <2>1, <2>2 DEF TypeOK, restore_to_state_change, disk
<1>5. CASE InitializeReadyToProcessEvents
  BY <1>1, <1>5 DEF TypeOK, InitializeReadyToProcessEvents, disk
<1>6. ASSUME NEW t \in Threads, WriteStateChange(t)
      PROVE  TypeOK'
  <2>1. state_changes' \in 1..MaxStateChanges /\ 1..state_changes \subseteq 1..state_changes'
    BY <1>1, <1>2, <1>6 DEF TypeOK, WriteStateChange
  <2>2. \A i \in 1..Len(state_snapshots) : state_snapshots[i].statechange_id \in 1..state_changes'
    BY <1>1, <2>1 DEF TypeOK
  <2> QED
    BY <1>1, <1>6, <2>1, <2>2 DEF TypeOK, WriteStateChange
<1>7. ASSUME NEW t \in Threads, Dispatch(t)
      PROVE  TypeOK'
  <2>1. local[t] \in Identifiers
    BY <1>1, <1>2, <1>7 DEF IInv, LockInv, Critical, Dispatch, TypeOK, Identifiers
  <2>2. Append(current_state, local[t]) \in Seq(Identifiers)
    BY <1>1, <2>1, AppendProperties DEF TypeOK
  <2> QED
    BY <1>1, <1>7, <2>2 DEF TypeOK, Dispatch, disk
<1>8. ASSUME NEW t \in Threads, WriteEvents(t)
      PROVE  TypeOK'
  <2>1. local[t] \in 1..state_changes
    BY <1>1, <1>8 DEF IInv, LockInv, Critical, WriteEvents, TypeOK
  <2> QED
    BY <1>1, <1>8, <2>1 DEF TypeOK, WriteEvents
<1>9. ASSUME NEW t \in Threads, CountStateChanges(t)
      PROVE  TypeOK'
  BY <1>1, <1>2, <1>3, <1>9, SMTT(30) DEF TypeOK, CountStateChanges, disk
<1>10. ASSUME NEW t \in Threads, Snapshot(t)
       PROVE  TypeOK'
  <2>1. state_change_id \in 1..state_changes
    BY <1>1, <1>10 DEF IInv, IdentifierInv, Snapshot, TypeOK
  <2> DEFINE Row == [statechange_id : Identifiers, data : Seq(Identifiers)]
             row == [statechange_id |-> state_change_id, data |-> current_state]
  <2>2. row \in Row /\ row.statechange_id \in 1..state_changes
    BY <1>1, <1>2, <2>1 DEF TypeOK, Identifiers
  <2>3. state_snapshots \in Seq(Row) /\ state_snapshots' = Append(state_snapshots, row)
    BY <1>10 DEF IInv, SnapshotsInv, Snapshot
  <2> HIDE DEF Row, row
  <2>4. \A i \in 1..Len(state_snapshots') : state_snapshots'[i].statechange_id \in 1..state_changes
    BY <1>1, <2>2, <2>3, AppendProperties, LenProperties DEF TypeOK
  <2> QED
    BY <1>1, <1>2, <1>10, <2>4 DEF TypeOK, Snapshot
<1>11. CASE Crash
  <2>1. current_state' \in Seq(Identifiers)
    BY <1>11, EmptySeq DEF Crash
  <2>2. UNCHANGED <<state_changes, state_events, state_snapshots, restored>>
    BY <1>11 DEF Crash, disk
  <2>3. crashes' \in 0..MaxCrashes
    BY <1>1, <1>2, <1>11 DEF Crash, TypeOK
  <2>4. /\ state_change_id' \in 0..state_changes /\ snapshot_group' \in 0..MaxStateChanges
        /\ local' \in [Threads -> 0..MaxStateChanges]
    BY <1>1, <1>2, <1>11 DEF Crash, TypeOK
  <2>5. /\ lock' \in Threads \cup {NoThread} /\ ready' \in BOOLEAN
        /\ pc' \in [Threads -> {"down", "idle", "dispatch", "write_events", "count", "snapshot"}]
    BY <1>11 DEF Crash
  <2> QED
    BY <1>1, <2>1, <2>2, <2>3, <2>4, <2>5 DEF TypeOK
<1>12. CASE UNCHANGED vars
  BY <1>1, <1>12 DEF TypeOK, vars, disk
<1> QED
  BY <1>4, <1>5, <1>6, <1>7, <1>8, <1>9, <1>10, <1>11, <1>12 DEF Next

LEMMA ProcessStep == IInv /\ [Next]_vars => ProcessInv'
<1> SUFFICES ASSUME IInv, [Next]_vars
             PROVE  ProcessInv'
  OBVIOUS
<1> USE DEF IInv, ProcessInv, TypeOK
<1>1. CASE restore_to_state_change
  BY <1>1 DEF restore_to_state_change
<1>2. CASE InitializeReadyToProcessEvents
  BY <1>2 DEF InitializeReadyToProcessEvents
<1>3. ASSUME NEW t \in Threads, WriteStateChange(t)
      PROVE  ProcessInv'
  BY <1>3 DEF WriteStateChange
<1>4. ASSUME NEW t \in Threads, Dispatch(t) \/ WriteEvents(t)
      PROVE  ProcessInv'
  BY <1>4 DEF Dispatch, WriteEvents
<1>5. ASSUME NEW t \in Threads, CountStateChanges(t) \/ Snapshot(t)
      PROVE  ProcessInv'
  <2>1. /\ UNCHANGED <<ready, state_change_id>> /\ pc[t] # "down"
        /\ \E label \in {"idle", "snapshot"} : pc' = [pc EXCEPT ![t] = label]
    BY <1>5 DEF CountStateChanges, Snapshot
  <2> QED
    BY <2>1
<1>6. CASE Crash
  BY <1>6 DEF Crash
<1>7. CASE UNCHANGED vars
  BY <1>7 DEF vars
<1> QED
  BY <1>1, <1>2, <1>3, <1>4, <1>5, <1>6, <1>7 DEF Next

LEMMA LockStep == IInv /\ [Next]_vars => LockInv'
<1> SUFFICES ASSUME IInv, [Next]_vars
             PROVE  LockInv'
  OBVIOUS
<1>1. /\ NoThread \notin Threads /\ state_changes \in Nat /\ state_events \subseteq 1..state_changes
      /\ pc \in [Threads -> {"down", "idle", "dispatch", "write_events", "count", "snapshot"}]
      /\ local \in [Threads -> 0..MaxStateChanges]
      /\ LockInv
  BY ThreadsAssumption DEF IInv, TypeOK
<1> USE DEF LockInv, Critical
<1>2. CASE restore_to_state_change
  <2>1. \A t \in Threads : pc[t] = "down" /\ pc'[t] = "idle"
    BY <1>2 DEF restore_to_state_change, Running
  <2> QED
    BY <1>1, <1>2, <2>1 DEF restore_to_state_change, disk
<1>3. CASE InitializeReadyToProcessEvents
  BY <1>1, <1>3 DEF InitializeReadyToProcessEvents, disk
<1>4. ASSUME NEW t \in Threads, WriteStateChange(t)
      PROVE  LockInv'
  <2>1. \A u \in Threads : pc[u] \notin Critical
    BY <1>1, <1>4 DEF WriteStateChange
  <2>2. state_changes + 1 \notin state_events
    BY <1>1
  <2>3. \A u \in Threads : /\ u # t => pc'[u] = pc[u]
                           /\ pc'[t] = "dispatch" /\ local'[t] = state_changes'
    BY <1>1, <1>4 DEF WriteStateChange
  <2>4. /\ lock' = t /\ state_changes' = state_changes + 1 /\ state_change_id' = state_changes'
        /\ UNCHANGED state_events
    BY <1>4 DEF WriteStateChange
  <2> QED
    BY <1>1, <2>1, <2>2, <2>3, <2>4
<1>5. ASSUME NEW t \in Threads, Dispatch(t)
      PROVE  LockInv'
  BY <1>1, <1>5 DEF Dispatch, disk
<1>6. ASSUME NEW t \in Threads, WriteEvents(t)
      PROVE  LockInv'
  BY <1>1, <1>6 DEF WriteEvents
<1>7. ASSUME NEW t \in Threads, CountStateChanges(t) \/ Snapshot(t)
      PROVE  LockInv'
  <2>1. /\ UNCHANGED <<lock, state_changes, state_events, state_change_id>> /\ pc[t] \notin Critical
        /\ \E label \in {"idle", "snapshot"} : pc' = [pc EXCEPT ![t] = label]
        /\ \E value : local' = [local EXCEPT ![t] = value]
    BY <1>7 DEF CountStateChanges, Snapshot, disk
  <2> QED
    BY <1>1, <2>1
<1>8. CASE Crash
  BY <1>1, <1>8 DEF Crash
<1>9. CASE UNCHANGED vars
  BY <1>1, <1>9 DEF vars, disk
<1> QED
  BY <1>2, <1>3, <1>4, <1>5, <1>6, <1>7, <1>8, <1>9 DEF Next

LEMMA IdentifierStep == IInv /\ [Next]_vars => IdentifierInv'
<1> SUFFICES ASSUME IInv, [Next]_vars
             PROVE  IdentifierInv'
  OBVIOUS
<1>1. /\ state_changes \in Nat
      /\ pc \in [Threads -> {"down", "idle", "dispatch", "write_events", "count", "snapshot"}]
      /\ IdentifierInv
  BY DEF IInv, TypeOK
<1> USE DEF IdentifierInv
<1>2. CASE restore_to_state_change
  BY <1>1, <1>2 DEF restore_to_state_change, disk
<1>3. CASE InitializeReadyToProcessEvents
  BY <1>1, <1>3 DEF InitializeReadyToProcessEvents, disk
<1>4. ASSUME NEW t \in Threads, WriteStateChange(t)
      PROVE  IdentifierInv'
  BY <1>1, <1>4 DEF WriteStateChange
<1>5. ASSUME NEW t \in Threads, Dispatch(t)
      PROVE  IdentifierInv'
  BY <1>1, <1>5 DEF Dispatch, disk
<1>6. ASSUME NEW t \in Threads, WriteEvents(t)
      PROVE  IdentifierInv'
  <2>1. state_change_id # 0
    BY <1>1, <1>6 DEF WriteEvents, IInv, LockInv, Critical
  <2> QED
    BY <1>1, <1>6, <2>1 DEF WriteEvents
<1>7. ASSUME NEW t \in Threads, CountStateChanges(t) \/ Snapshot(t)
      PROVE  IdentifierInv'
  <2>1. /\ UNCHANGED <<state_changes, state_change_id>> /\ pc[t] \in {"count", "snapshot"}
        /\ \E label \in {"idle", "snapshot"} : pc' = [pc EXCEPT ![t] = label]
    BY <1>7 DEF CountStateChanges, Snapshot, disk
  <2> QED
    BY <1>1, <2>1
<1>8. CASE Crash
  BY <1>1, <1>8 DEF Crash
<1>9. CASE UNCHANGED vars
  BY <1>1, <1>9 DEF vars, disk
<1> QED
  BY <1>2, <1>3, <1>4, <1>5, <1>6, <1>7, <1>8, <1>9 DEF Next

-----------------------------------------------------------------------------
(* No row is skipped.                                                      *)

LEMMA AppliedStep == IInv /\ [Next]_vars => AppliedInLogOrder'
<1> SUFFICES ASSUME IInv, [Next]_vars
             PROVE  AppliedInLogOrder'
  OBVIOUS
<1> DEFINE Dispatching == \E t \in Threads : pc[t] = "dispatch"
<1>1. /\ state_changes \in Nat
      /\ pc \in [Threads -> {"down", "idle", "dispatch", "write_events", "count", "snapshot"}]
      /\ NoThread \notin Threads /\ Threads # {}
  BY ThreadsAssumption DEF IInv, TypeOK
<1>2. \A t, u \in Threads : lock = u /\ pc[t] = "dispatch" => t = u
  BY DEF IInv, LockInv, Critical
<1>3. /\ Running /\ Dispatching => AppliesInOrder(current_state, state_changes - 1, restored)
      /\ Running /\ ~ Dispatching => AppliesInOrder(current_state, state_changes, restored)
  BY DEF IInv, AppliedInLogOrder
<1>4. ASSUME Running, UNCHANGED <<current_state, state_changes, restored>>,
             Dispatching' = Dispatching
      PROVE  AppliedInLogOrder'
  BY <1>3, <1>4 DEF AppliedInLogOrder
<1>5. ASSUME NEW t \in Threads, pc[t] # "down"
      PROVE  Running
  BY <1>5 DEF Running
<1>6. CASE restore_to_state_change
  <2>1. AppliesInOrder(current_state', state_changes, restored')
    BY <1>6, Restored DEF IInv
  <2>2. ~ Dispatching' /\ state_changes' = state_changes
    BY <1>6 DEF restore_to_state_change, disk
  <2> QED
    BY <2>1, <2>2 DEF AppliedInLogOrder
<1>7. CASE InitializeReadyToProcessEvents
  <2>1. PICK t \in Threads : pc[t] # "down"
    BY <1>1, <1>7 DEF InitializeReadyToProcessEvents
  <2> QED
    BY <1>4, <1>5, <1>7, <2>1 DEF InitializeReadyToProcessEvents, disk
<1>8. ASSUME NEW t \in Threads, WriteStateChange(t)
      PROVE  AppliedInLogOrder'
  <2>1. Running /\ ~ Dispatching
    BY <1>1, <1>5, <1>8 DEF WriteStateChange, IInv, LockInv, Critical
  <2>2. /\ Dispatching' /\ state_changes' - 1 = state_changes
        /\ UNCHANGED <<current_state, restored>>
    BY <1>1, <1>8 DEF WriteStateChange
  <2> QED
    BY <1>3, <2>1, <2>2 DEF AppliedInLogOrder
<1>9. ASSUME NEW t \in Threads, Dispatch(t)
      PROVE  AppliedInLogOrder'
  <2>1. Running /\ Dispatching
    BY <1>5, <1>9 DEF Dispatch
  <2>2. local[t] = state_changes /\ state_changes >= 1
    BY <1>9 DEF Dispatch, IInv, LockInv, Critical
  <2>3. lock = t
    BY <1>9 DEF Dispatch, IInv, LockInv, Critical
  <2>4. ~ Dispatching'
    BY <1>1, <1>2, <1>9, <2>3 DEF Dispatch
  <2>5. current_state \in Seq(Nat)
    <3>1. Identifiers \subseteq Nat /\ current_state \in Seq(Identifiers)
      BY BoundsAssumption DEF IInv, TypeOK, Identifiers
    <3> QED
      BY <3>1, SeqMonotonic
  <2>6. AppliesInOrder(Append(current_state, state_changes - 1 + 1),
                       state_changes - 1 + 1, restored)
    <3>1. state_changes - 1 \in Nat /\ AppliesInOrder(current_state, state_changes - 1, restored)
      BY <1>1, <1>3, <2>1, <2>2
    <3>2. state_change_id = state_changes
      BY <1>9 DEF Dispatch, IInv, LockInv, Critical
    <3>3. restored \subseteq 1..state_changes - 1
      BY <1>1, <2>2, <3>2 DEF IInv, RestoredInv, TypeOK
    <3> QED
      BY <2>5, <3>1, <3>3, AppendApplies
  <2>7. state_changes - 1 + 1 = state_changes
    BY <1>1
  <2>8. /\ current_state' = Append(current_state, state_changes)
        /\ UNCHANGED <<state_changes, restored>>
    BY <1>9, <2>2 DEF Dispatch, disk
  <2> QED
    BY <2>4, <2>6, <2>7, <2>8 DEF AppliedInLogOrder
<1>10. ASSUME NEW t \in Threads, WriteEvents(t)
       PROVE  AppliedInLogOrder'
  <2>1. Running
    BY <1>5, <1>10 DEF WriteEvents
  <2>2. Dispatching' = Dispatching
    BY <1>1, <1>10 DEF WriteEvents
  <2> QED
    BY <1>4, <1>10, <2>1, <2>2 DEF WriteEvents
<1>11. ASSUME NEW t \in Threads, CountStateChanges(t) \/ Snapshot(t)
       PROVE  AppliedInLogOrder'
  <2>1. /\ UNCHANGED <<state_changes, current_state, restored>> /\ pc[t] \in {"count", "snapshot"}
        /\ \E label \in {"idle", "snapshot"} : pc' = [pc EXCEPT ![t] = label]
    BY <1>11 DEF CountStateChanges, Snapshot, disk
  <2>2. Running
    BY <1>5, <2>1
  <2>3. Dispatching' = Dispatching
    BY <1>1, <2>1
  <2> QED
    BY <1>4, <2>1, <2>2, <2>3
<1>12. CASE Crash
  BY <1>12 DEF Crash, AppliedInLogOrder, Running
<1>13. CASE UNCHANGED vars
  <2>1. Running' = Running /\ Dispatching' = Dispatching
    BY <1>13 DEF vars, Running
  <2> QED
    BY <1>3, <1>13, <2>1 DEF vars, disk, AppliedInLogOrder
<1> QED
  BY <1>6, <1>7, <1>8, <1>9, <1>10, <1>11, <1>12, <1>13 DEF Next

-----------------------------------------------------------------------------
(* Snapshots.                                                              *)

(* Only Snapshot writes a snapshot.                                        *)
LEMMA SnapshotsKept ==
  ASSUME [Next]_vars, \A t \in Threads : ~ Snapshot(t)
  PROVE  UNCHANGED state_snapshots
<1>1. restore_to_state_change \/ InitializeReadyToProcessEvents \/ Crash
        => UNCHANGED state_snapshots
  BY DEF restore_to_state_change, InitializeReadyToProcessEvents, Crash, disk
<1>2. \A t \in Threads : WriteStateChange(t) \/ Dispatch(t) \/ WriteEvents(t)
                           => UNCHANGED state_snapshots
  BY DEF WriteStateChange, Dispatch, WriteEvents, disk
<1>3. \A t \in Threads : CountStateChanges(t) => UNCHANGED state_snapshots
  BY DEF CountStateChanges, disk
<1>4. UNCHANGED vars => UNCHANGED state_snapshots
  BY DEF vars, disk
<1> QED
  BY <1>1, <1>2, <1>3, <1>4 DEF Next

(* The table of state changes only grows.                                  *)
LEMMA RowsGrow ==
  ASSUME TypeOK, [Next]_vars
  PROVE  state_changes' = state_changes \/ state_changes' = state_changes + 1
<1>1. restore_to_state_change \/ InitializeReadyToProcessEvents \/ Crash
        => UNCHANGED state_changes
  BY DEF restore_to_state_change, InitializeReadyToProcessEvents, Crash, disk
<1>2. \A t \in Threads : Dispatch(t) \/ WriteEvents(t) => UNCHANGED state_changes
  BY DEF Dispatch, WriteEvents, disk
<1>3. \A t \in Threads : CountStateChanges(t) \/ Snapshot(t) => UNCHANGED state_changes
  BY DEF CountStateChanges, Snapshot, disk
<1>4. \A t \in Threads : WriteStateChange(t) => state_changes' = state_changes + 1
  BY DEF WriteStateChange
<1>5. UNCHANGED vars => UNCHANGED state_changes
  BY DEF vars, disk
<1> QED
  BY <1>1, <1>2, <1>3, <1>4, <1>5 DEF Next

(* Only a restart adds to the rows applied twice, and it adds the row of   *)
(* the last snapshot.                                                      *)
LEMMA RestoredKept ==
  ASSUME [Next]_vars, ~ restore_to_state_change
  PROVE  UNCHANGED restored
<1>1. InitializeReadyToProcessEvents \/ Crash => UNCHANGED restored
  BY DEF InitializeReadyToProcessEvents, Crash
<1>2. \A t \in Threads : WriteStateChange(t) \/ Dispatch(t) \/ WriteEvents(t)
                           => UNCHANGED restored
  BY DEF WriteStateChange, Dispatch, WriteEvents
<1>3. \A t \in Threads : CountStateChanges(t) \/ Snapshot(t) => UNCHANGED restored
  BY DEF CountStateChanges, Snapshot
<1>4. UNCHANGED vars => UNCHANGED restored
  BY DEF vars
<1> QED
  BY <1>1, <1>2, <1>3, <1>4 DEF Next

LEMMA RestoredStep == IInv /\ [Next]_vars => RestoredInv'
<1> SUFFICES ASSUME IInv, [Next]_vars
             PROVE  RestoredInv'
  OBVIOUS
<1> DEFINE id(i) == state_snapshots[i].statechange_id
           last == Len(state_snapshots)
<1>1. /\ state_changes \in Nat /\ state_change_id \in {0, state_changes}
      /\ last \in Nat
      /\ \A i \in 1..last : id(i) \in 1..state_changes
      /\ restored \subseteq 1..state_changes
  BY LenProperties DEF IInv, TypeOK, SnapshotsInv, IdentifierInv
<1>2. /\ \A r \in restored : \E i \in 1..last : id(i) = r
      /\ \A i \in 1..last : id(i) <= id(last)
      /\ state_change_id # 0 => \A r \in restored : r < state_change_id
  BY DEF IInv, RestoredInv
<1>3. ASSUME UNCHANGED <<state_snapshots, restored>>,
             state_change_id' \in {0, state_change_id, state_changes + 1}
      PROVE  RestoredInv'
  <2>1. state_change_id' # 0 => \A r \in restored : r < state_change_id'
    BY <1>1, <1>2, <1>3
  <2> QED
    BY <1>2, <1>3, <2>1 DEF RestoredInv
<1>4. CASE restore_to_state_change
  <2>1. UNCHANGED <<state_snapshots, state_changes, state_change_id>>
    BY <1>4 DEF restore_to_state_change, disk
  <2>2. state_change_id = 0
    <3>1. PICK t \in Threads : TRUE
      BY ThreadsAssumption
    <3> QED
      BY <1>4, <3>1 DEF restore_to_state_change, Running, IInv, ProcessInv
  <2>3. \A r \in restored' : \E i \in 1..last : id(i) = r
    BY <1>2, <1>4, Restored DEF IInv
  <2> QED
    BY <1>2, <2>1, <2>2, <2>3 DEF RestoredInv
<1>5. ASSUME NEW t \in Threads, Snapshot(t)
      PROVE  RestoredInv'
  <2> DEFINE row == [statechange_id |-> state_change_id, data |-> current_state]
  <2>1. /\ state_snapshots' = Append(state_snapshots, row)
        /\ UNCHANGED <<restored, state_change_id>>
    BY <1>5 DEF Snapshot
  <2>2. state_change_id = state_changes /\ row.statechange_id = state_changes
    BY <1>5 DEF Snapshot, IInv, IdentifierInv
  <2> HIDE DEF row
  <2>3. /\ Len(state_snapshots') = last + 1
        /\ state_snapshots'[last + 1] = row
        /\ \A i \in 1..last : state_snapshots'[i] = state_snapshots[i]
    BY <2>1, AppendProperties DEF IInv, SnapshotsInv
  <2>4. \A i \in 1..Len(state_snapshots') :
          state_snapshots'[i].statechange_id
            <= state_snapshots'[Len(state_snapshots')].statechange_id
    <3> SUFFICES ASSUME NEW i \in 1..last + 1
                 PROVE  state_snapshots'[i].statechange_id <= state_changes
      BY <2>2, <2>3
    <3>1. CASE i = last + 1
      BY <1>1, <2>2, <2>3, <3>1
    <3>2. CASE i # last + 1
      <4>1. i \in 1..last
        BY <1>1, <3>2
      <4> QED
        BY <1>1, <2>3, <4>1
    <3> QED
      BY <3>1, <3>2
  <2>5. ASSUME NEW r \in restored
        PROVE  \E i \in 1..Len(state_snapshots') : state_snapshots'[i].statechange_id = r
    <3>1. PICK i \in 1..last : id(i) = r
      BY <1>2, <2>5
    <3>2. i \in 1..Len(state_snapshots') /\ state_snapshots'[i] = state_snapshots[i]
      BY <1>1, <2>3
    <3> QED
      BY <3>1, <3>2
  <2> QED
    BY <1>2, <2>1, <2>4, <2>5 DEF RestoredInv
<1>6. ASSUME ~ restore_to_state_change, \A t \in Threads : ~ Snapshot(t)
      PROVE  RestoredInv'
  <2>1. UNCHANGED <<state_snapshots, restored>>
    BY <1>6, SnapshotsKept, RestoredKept
  <2>2. state_change_id' \in {0, state_change_id, state_changes + 1}
    <3>1. InitializeReadyToProcessEvents \/ Crash => state_change_id' \in {0, state_change_id}
      BY DEF InitializeReadyToProcessEvents, Crash
    <3>2. \A t \in Threads : WriteStateChange(t) => state_change_id' = state_changes + 1
      BY DEF WriteStateChange
    <3>3. \A t \in Threads : Dispatch(t) \/ WriteEvents(t) \/ CountStateChanges(t)
                               => UNCHANGED state_change_id
      BY DEF Dispatch, WriteEvents, CountStateChanges
    <3>4. UNCHANGED vars => UNCHANGED state_change_id
      BY DEF vars
    <3> QED
      BY <1>6, <3>1, <3>2, <3>3, <3>4 DEF Next
  <2> QED
    BY <1>3, <2>1, <2>2
<1> QED
  BY <1>4, <1>5, <1>6

LEMMA SnapshotsStep == IInv /\ [Next]_vars => SnapshotsInv' /\ SnapshotMatchesIdentifier'
<1> SUFFICES ASSUME IInv, [Next]_vars
             PROVE  SnapshotsInv' /\ SnapshotMatchesIdentifier'
  OBVIOUS
<1> DEFINE Row == [statechange_id : Identifiers, data : Seq(Identifiers)]
<1>1. state_snapshots \in Seq(Row) /\ state_changes \in Nat
  BY DEF IInv, SnapshotsInv, TypeOK
<1> DEFINE Before(k) == {r \in restored : r < k}
<1>2. \A i \in 1..Len(state_snapshots) :
        /\ state_snapshots[i].statechange_id <= state_changes
        /\ state_snapshots[i].statechange_id \in Nat
        /\ AppliesInOrder(state_snapshots[i].data, state_snapshots[i].statechange_id,
                          Before(state_snapshots[i].statechange_id))
  <2>1. \A i \in 1..Len(state_snapshots) :
          /\ state_snapshots[i].statechange_id <= state_changes
          /\ state_snapshots[i].statechange_id \in Nat
    BY DEF IInv, SnapshotsInv, TypeOK
  <2> QED
    BY <2>1 DEF IInv, SnapshotMatchesIdentifier
<1>3. ASSUME NEW t \in Threads, Snapshot(t)
      PROVE  SnapshotsInv' /\ SnapshotMatchesIdentifier'
  <2> DEFINE row == [statechange_id |-> state_change_id, data |-> current_state]
  <2>1. Running /\ ~ \E u \in Threads : pc[u] = "dispatch"
    BY <1>3, ThreadsAssumption DEF Snapshot, Running, IInv, LockInv, Critical
  <2>2. state_change_id = state_changes /\ state_change_id # 0
    BY <1>3 DEF Snapshot, IInv, IdentifierInv
  <2>3. AppliesInOrder(current_state, state_change_id, Before(state_change_id))
    <3>1. AppliesInOrder(current_state, state_change_id, restored)
      BY <2>1, <2>2 DEF IInv, AppliedInLogOrder
    <3>2. Before(state_change_id) = restored
      BY <2>2 DEF IInv, RestoredInv
    <3> QED
      BY <3>1, <3>2
  <2>4. row \in Row
    BY <1>1, <2>2, BoundsAssumption DEF IInv, TypeOK, Identifiers
  <2>5. /\ row.statechange_id <= state_changes
        /\ AppliesInOrder(row.data, row.statechange_id, Before(row.statechange_id))
    BY <1>1, <2>2, <2>3
  <2>6. state_snapshots' = Append(state_snapshots, row) /\ UNCHANGED <<state_changes, restored>>
    BY <1>3 DEF Snapshot
  <2> HIDE DEF row, Row
  <2>7. /\ state_snapshots' \in Seq(Row)
        /\ \A i \in 1..Len(state_snapshots') :
             state_snapshots'[i] = row \/ \E j \in 1..Len(state_snapshots) :
                                            state_snapshots'[i] = state_snapshots[j]
    BY <1>1, <2>4, <2>6, AppendProperties, LenProperties
  <2>8. \A i \in 1..Len(state_snapshots') :
          /\ state_snapshots'[i].statechange_id <= state_changes'
          /\ AppliesInOrder(state_snapshots'[i].data, state_snapshots'[i].statechange_id,
                            Before(state_snapshots'[i].statechange_id))
    BY <1>2, <2>5, <2>6, <2>7
  <2> QED
    BY <2>6, <2>7, <2>8 DEF SnapshotsInv, SnapshotMatchesIdentifier, Row
<1>4. CASE \A t \in Threads : ~ Snapshot(t)
  <2>1. UNCHANGED state_snapshots
    BY <1>4, SnapshotsKept
  <2>2. state_changes <= state_changes' /\ state_changes' \in Nat
    BY <1>1, RowsGrow DEF IInv
  <2>3. \A i \in 1..Len(state_snapshots) : state_snapshots[i].statechange_id <= state_changes'
    <3>1. \A i \in 1..Len(state_snapshots) :
            /\ state_snapshots[i].statechange_id <= state_changes
            /\ state_snapshots[i].statechange_id \in Nat
      BY <1>2
    <3> QED
      BY <1>1, <2>2, <3>1
  <2>4. ASSUME NEW i \in 1..Len(state_snapshots)
        PROVE  {r \in restored' : r < state_snapshots[i].statechange_id}
                 = Before(state_snapshots[i].statechange_id)
    <3>1. CASE restore_to_state_change
      <4> DEFINE k == state_snapshots[Len(state_snapshots)].statechange_id
      <4>1. \/ state_snapshots = <<>>
            \/ k \in 1..state_changes /\ restored' = restored \cup {k}
        BY <3>1, Restored DEF IInv
      <4>2. state_snapshots # <<>>
        BY <2>4, EmptySeq
      <4>3. state_snapshots[i].statechange_id <= k
        BY DEF IInv, RestoredInv
      <4> HIDE DEF k
      <4>4. ~ k < state_snapshots[i].statechange_id
        <5>1. state_snapshots[i].statechange_id \in Nat
          BY <1>2
        <5> QED
          BY <1>1, <4>1, <4>2, <4>3, <5>1
      <4> QED
        BY <4>1, <4>2, <4>4
    <3>2. CASE ~ restore_to_state_change
      BY <3>2, RestoredKept
    <3> QED
      BY <3>1, <3>2
  <2>5. SnapshotMatchesIdentifier'
    BY <1>2, <2>1, <2>4 DEF SnapshotMatchesIdentifier
  <2> QED
    BY <1>1, <2>1, <2>3, <2>5 DEF SnapshotsInv
<1> QED
  BY <1>3, <1>4

-----------------------------------------------------------------------------
(* Events.                                                                 *)

LEMMA EventsStep == IInv /\ [Next]_vars => EventsInv' /\ EventsLostOnlyByCrash'
<1> SUFFICES ASSUME IInv, [Next]_vars
             PROVE  EventsInv' /\ EventsLostOnlyByCrash'
  OBVIOUS
<1> DEFINE lost(n) == (1..n) \ state_events
<1> USE DEF EventsInv, EventsLostOnlyByCrash
<1>1. /\ state_changes \in Nat /\ crashes \in Nat /\ NoThread \notin Threads
      /\ lock \in Threads \cup {NoThread} /\ state_events \subseteq 1..state_changes
  BY ThreadsAssumption DEF IInv, TypeOK
<1>2. /\ lock = NoThread => Cardinality(lost(state_changes)) <= crashes
      /\ lock # NoThread => Cardinality(lost(state_changes - 1)) <= crashes
  BY DEF IInv
<1>3. ASSUME NEW n \in Int
      PROVE  IsFiniteSet(lost(n)) /\ Cardinality(lost(n)) \in Nat
  <2>1. IsFiniteSet(1..n)
    BY FS_Interval
  <2> QED
    BY <2>1, FS_Subset, FS_CardinalityType
<1>4. UNCHANGED <<state_changes, state_events, lock, crashes>>
        => EventsInv' /\ EventsLostOnlyByCrash'
  BY DEF IInv
<1>5. ASSUME NEW t \in Threads, WriteStateChange(t)
      PROVE  EventsInv' /\ EventsLostOnlyByCrash'
  <2>1. /\ lock = NoThread /\ lock' = t /\ state_changes' - 1 = state_changes
        /\ UNCHANGED <<state_events, crashes>>
    BY <1>1, <1>5 DEF WriteStateChange
  <2> QED
    BY <1>1, <1>2, <2>1
<1>6. ASSUME NEW t \in Threads, WriteEvents(t)
      PROVE  EventsInv' /\ EventsLostOnlyByCrash'
  <2>1. /\ lock = t /\ lock' = NoThread /\ local[t] = state_changes /\ state_changes >= 1
        /\ state_events' = state_events \cup {local[t]} /\ UNCHANGED <<state_changes, crashes>>
    BY <1>6 DEF WriteEvents, IInv, LockInv, Critical
  <2>2. (1..state_changes) \ (state_events \cup {state_changes}) = lost(state_changes - 1)
    BY <1>1, <2>1
  <2> QED
    BY <1>1, <1>2, <2>1, <2>2
<1>7. CASE Crash
  <2>1. lock' = NoThread /\ crashes' = crashes + 1 /\ UNCHANGED <<state_changes, state_events>>
    BY <1>7 DEF Crash, disk
  <2>2. Cardinality(lost(state_changes)) <= crashes + 1
    <3>1. CASE lock = NoThread
      BY <1>1, <1>2, <1>3, <3>1
    <3>2. CASE lock # NoThread
      <4>1. state_changes >= 1 /\ state_changes \notin state_events
        BY <1>1, <3>2 DEF IInv, LockInv
      <4>2. lost(state_changes) = lost(state_changes - 1) \cup {state_changes}
        BY <1>1, <4>1
      <4>3. state_changes \notin lost(state_changes - 1)
        BY <1>1
      <4>4. state_changes - 1 \in Int
        BY <1>1
      <4>5. Cardinality(lost(state_changes)) = Cardinality(lost(state_changes - 1)) + 1
        <5>1. IsFiniteSet(lost(state_changes - 1))
          BY <1>3, <4>4
        <5> HIDE DEF lost
        <5>2. Cardinality(lost(state_changes - 1) \cup {state_changes})
                = Cardinality(lost(state_changes - 1)) + 1
          BY <4>3, <5>1, FS_AddElement
        <5> QED
          BY <4>2, <5>2
      <4>6. Cardinality(lost(state_changes - 1)) \in Nat
        BY <1>3, <4>4
      <4>7. Cardinality(lost(state_changes - 1)) <= crashes
        BY <1>2, <3>2
      <4> HIDE DEF lost
      <4> QED
        BY <1>1, <4>5, <4>6, <4>7
    <3> QED
      BY <3>1, <3>2
  <2> QED
    BY <1>1, <2>1, <2>2
<1>8. restore_to_state_change \/ InitializeReadyToProcessEvents
        => UNCHANGED <<state_changes, state_events, lock, crashes>>
  BY DEF restore_to_state_change, InitializeReadyToProcessEvents, disk
<1>9. \A t \in Threads : Dispatch(t)
        => UNCHANGED <<state_changes, state_events, lock, crashes>>
  BY DEF Dispatch, disk
<1>10. \A t \in Threads : CountStateChanges(t) \/ Snapshot(t)
         => UNCHANGED <<state_changes, state_events, lock, crashes>>
  BY DEF CountStateChanges, Snapshot, disk
<1>11. UNCHANGED vars => UNCHANGED <<state_changes, state_events, lock, crashes>>
  BY DEF vars, disk
<1> QED
  BY <1>4, <1>5, <1>6, <1>7, <1>8, <1>9, <1>10, <1>11 DEF Next

-----------------------------------------------------------------------------
(* The invariants.                                                         *)

LEMMA Inductive == Spec => []IInv
<1>1. IInv /\ [Next]_vars => IInv'
  BY TypeStep, ProcessStep, LockStep, IdentifierStep, AppliedStep, RestoredStep,
     SnapshotsStep, EventsStep
     DEF IInv
<1> QED
  BY InitIInv, <1>1, PTL DEF Spec

(* The type of the state: the identifiers in memory and in the snapshots   *)
(* are rows of the table.                                                  *)
THEOREM WriteAheadLogTypeOK == Spec => []TypeOK
<1>1. IInv => TypeOK
  BY DEF IInv
<1> QED
  BY <1>1, Inductive, PTL

(* log_and_dispatch and restore_to_state_change: for any greenlets,        *)
(* crashes and restarts, the state in memory is the table applied in       *)
(* order, every row exactly once but the rows of the snapshots that        *)
(* restarts started from, which are applied exactly twice.                 *)
THEOREM StateIsReplay == Spec => []AppliedInLogOrder
<1>1. IInv => AppliedInLogOrder
  BY DEF IInv
<1> QED
  BY <1>1, Inductive, PTL

(* WriteAheadLog.snapshot stores the state with the state change it is the *)
(* result of, whichever greenlets run when it is taken: rows 1 .. k once,  *)
(* and twice exactly those of the earlier snapshots that were restored.    *)
THEOREM SnapshotIsExact == Spec => []SnapshotMatchesIdentifier
<1>1. IInv => SnapshotMatchesIdentifier
  BY DEF IInv
<1> QED
  BY <1>1, Inductive, PTL

(* Between the write of a state change and the write of its events one     *)
(* crash loses the events of one state change, never of two.               *)
THEOREM CrashLosesOneStateChange == Spec => []EventsLostOnlyByCrash
<1>1. IInv => EventsLostOnlyByCrash
  BY DEF IInv
<1> QED
  BY <1>1, Inductive, PTL
=============================================================================
