SPECIFICATION Spec
CONSTANTS
  MaxIdentities = 4
  Events = {"lose_database", "lose_data_dir", "restore_key", "reset_elsewhere", "wipe_server"}
INVARIANTS IdentityTypeOK RecoverableUnlessMishap
PROPERTIES VerifiedWhenReady KeyFileKept IdentityKept RefusedOnlyWithoutAnchor ResetBurnsAndRebuilds
