SPECIFICATION Spec
CONSTANTS
  MaxEntries = 2
  Rooms = {r1, r2}
  Unencrypted = {}
  Fingerprints = {A, B}
  Notices <- ChartNotices
  BatchSize = 2
  BackoffBase = 1
  BackoffCap = 1
  SendMaxAttempts = 3
  MaxPendingAge = 1
  Retention = 0
  MaxHandlers = 1
  AdminCalls = {}
  Hazards <- AllHazards
  MaxFaults = 1
INVARIANTS MappingsSound EditsAnnounceNothing
