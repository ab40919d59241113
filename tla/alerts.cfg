SPECIFICATION Spec
CONSTANTS
  MaxEntries = 3
  Rooms = {r1}
  Unencrypted = {}
  Fingerprints = {A, B}
  Notices <- GroupNotices
  BatchSize = 2
  BackoffBase = 1
  BackoffCap = 1
  SendMaxAttempts = 3
  MaxPendingAge = 1
  Retention = 0
  MaxHandlers = 1
  AdminCalls = {}
  Hazards = {"down"}
  MaxFaults = 0
INVARIANTS FiringAlertsArePosted NoOvertaking
PROPERTIES EditsNewestAnnouncement StaleOnlyAfterRetry
