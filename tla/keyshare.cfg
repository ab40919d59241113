SPECIFICATION Spec
CONSTANTS
  bot = bot
  peer = peer
  own = own
  phone = phone
  tablet = tablet
  Users <- TwoUsers
  Devices <- ThreeDevices
  DevicesOf <- Ownership
  Own = own
  Senders = {s1, s2}
  Commands = {s2}
  MaxSessions = 3
  MaxLogins = 2
INVARIANTS KeyShareTypeOK ReadableOrFresh NobodyOverlooked SessionsOfThisRun
