SPECIFICATION Spec
CONSTANTS
  Rooms = {r1}
  NoRoom = NoRoom
  Servers = {own, other}
  OwnServer = own
  AllowedServers = {}
  Bodies <- TwoBodies
  StaleThreshold = 0
  MaxEvents = 3
  MaxFaults = 1
INVARIANTS SyncTypeOK NeverInTheClear RefusedForCause CommandsRunOnce JoinsTrustedRooms
PROPERTY HealthFollowsSync
