SPECIFICATION Spec
CONSTANTS
  MaxEntries = 3
  Rooms = {r1}
  Unencrypted = {}
  Fingerprints = {}
  Notices <- PlainNotices
  BatchSize = 2
  BackoffBase = 2
  BackoffCap = 3
  SendMaxAttempts = 3
  MaxPendingAge = 3
  Retention = 2
  MaxHandlers = 1
  AdminCalls = {"retry"}
  Hazards <- AllHazards
  MaxFaults = 1
INVARIANTS TypeOK SnapshotsFresh NoLostWakeup
PROPERTIES NeverResendDelivered KeepsPromise
