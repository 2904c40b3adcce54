SPECIFICATION FairSpec
CONSTANTS
  Threads = {t1, t2}
  NoThread = NoThread
  SNAPSHOT_STATE_CHANGES_COUNT = 2
  MaxStateChanges = 6
  MaxCrashes = 3
CHECK_DEADLOCK FALSE
INVARIANTS
  TypeOK
  AppliedInLogOrder
  EventsLostOnlyByCrash
  SnapshotMatchesIdentifier
PROPERTIES
  ThreadsComeToRest
