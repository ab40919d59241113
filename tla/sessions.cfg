SPECIFICATION Spec
CONSTANTS
  Calls = {c1, c2, c3}
  Passwords = {initial, other}
  Seed = initial
  MaxSecrets = 4
  Faults = {"lost_answer", "delete_row"}
INVARIANTS SessionsTypeOK CacheFollowsRow RevokedStaysRevoked
