SPECIFICATION FairSpec
CONSTANTS
  MaxEntries = 2
  Rooms = {r1, r2}
  Unencrypted = {r2}
  Fingerprints = {}
  Notices <- PlainNotices
  BatchSize = 2
  BackoffBase = 1
  BackoffCap = 2
  SendMaxAttempts = 3
  MaxPendingAge = 2
  Retention = 2
  MaxHandlers = 1
  AdminCalls = {"retry", "test"}
  Hazards <- AllHazards
  MaxFaults = 2
INVARIANT DuplicatesBounded
PROPERTY EveryEntrySettles
