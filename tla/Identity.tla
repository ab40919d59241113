------------------------------ MODULE Identity ------------------------------
(***************************************************************************)
(* The bot's cryptographic identity: ensureVerified of                     *)
(* internal/matrix/bot.go, run once per start, over the three places the   *)
(* identity lives in, which fail separately: the homeserver, the data      *)
(* directory and the process.                                              *)
(*                                                                         *)
(* Identities are numbered in the order they are minted.  Identity k       *)
(* stands for a set of cross-signing keys, the private ones stored on the  *)
(* server (SSSS) under a recovery key that is also called k.               *)
(***************************************************************************)
EXTENDS Integers

CONSTANTS
  MaxIdentities,  \* bound: identities ever minted
  Events          \* what happens around the bot, see EventKinds

\* lose_database: the crypto store is gone, the next login is a new device.
\* lose_data_dir: recovery.key is gone and, with pickle.key, the store too.
\* restore_key: the operator puts a recovery.key back from a backup.
\* reset_elsewhere: another session replaces the identity.
\* wipe_server: the bot is pointed at a new or wiped homeserver.
EventKinds == {"lose_database", "lose_data_dir", "restore_key", "reset_elsewhere", "wipe_server"}

ASSUME IdentityAssumption ==
  MaxIdentities \in Nat /\ Events \subseteq EventKinds

VARIABLES
  master,   \* the identity whose public keys the server publishes, 0 for none
  secrets,  \* the identity whose private keys the server stores, 0 for none
  signed,   \* the identity that signed the bot's current device, 0 for none
  others,   \* other devices of the account are logged in
  disk,     \* recovery.key: absent, torn, or the identity it unlocks
  mem,      \* the identity whose private keys the process holds, 0 for none
  pc,       \* a step of ensureVerified, "ready", or not running: "off", "refused"
  reset,    \* this start was given --reset-identity
  minted,   \* identities minted so far
  written,  \* history: the recovery keys that were once on disk
  mishap    \* history: something since the last bootstrap lost a part

server == <<master, secrets>>
vars == <<server, signed, others, disk, mem, pc, reset, minted, written, mishap>>

Absent == 0
Torn == -1
Identities == 1..MaxIdentities
Down == {"off", "refused"}
Starting == {"nuke", "check", "restore", "unlock", "generate", "sign", "truncate", "write"}

\* What VerifyIdentity establishes with a temporary device: the key on disk
\* unlocks the stored secrets and they belong to the published identity.
Recoverable == disk \in Identities /\ disk = secrets /\ secrets = master

Init ==
  /\ master = 0 /\ secrets = 0 /\ signed = 0 /\ others = FALSE
  /\ disk = Absent
  /\ mem = 0 /\ pc = "off" /\ reset = FALSE
  /\ minted = 0
  /\ written = {} /\ mishap = FALSE

------------------------------------------------------------------------------
(* One start of the bot. *)

\* The process starts, with or without --reset-identity.
Start ==
  /\ pc \in Down
  /\ reset' \in BOOLEAN
  /\ pc' = IF reset' THEN "nuke" ELSE "check"
  /\ UNCHANGED <<server, signed, others, disk, mem, minted, written, mishap>>

\* nukeOtherDevices: every device but this one is logged out.
M_NukeOtherDevices_skipped ==
  /\ pc = "nuke"
  /\ pc' = "generate"
  /\ UNCHANGED <<server, signed, others, disk, mem, reset, minted, written, mishap>>
NukeOtherDevices ==
  /\ pc = "nuke"
  /\ others' = FALSE
  /\ pc' = "generate"
  /\ UNCHANGED <<server, signed, disk, mem, reset, minted, written, mishap>>

\* GetOwnVerificationStatus and the switch on its answer.
Verified == master # 0 /\ signed = master
M_Check_ignoresKeys ==
  /\ pc = "check"
  /\ \/ Verified /\ pc' = "restore"
     \/ ~Verified /\ pc' = "generate"
  /\ UNCHANGED <<server, signed, others, disk, mem, reset, minted, written, mishap>>
M_Check_deviceOnly ==
  /\ pc = "check"
  /\ \/ signed # 0 /\ pc' = "restore"
     \/ signed = 0 /\ master # 0 /\ pc' = "unlock"
     \/ signed = 0 /\ master = 0 /\ pc' = "generate"
  /\ UNCHANGED <<server, signed, others, disk, mem, reset, minted, written, mishap>>
Check ==
  /\ pc = "check"
  /\ \/ Verified /\ pc' = "restore"
     \/ ~Verified /\ master # 0 /\ pc' = "unlock"
     \/ ~Verified /\ master = 0 /\ pc' = "generate"
  /\ UNCHANGED <<server, signed, others, disk, mem, reset, minted, written, mishap>>

\* The device is verified: loadCrossSigningPrivateKeys, whose failure, be it
\* a missing file, a wrong key or the network, is only a warning.
M_Restore_unverified ==
  /\ pc = "restore"
  /\ mem' \in {0, disk}
  /\ pc' = "ready"
  /\ UNCHANGED <<server, signed, others, disk, reset, minted, written, mishap>>
Restore ==
  /\ pc = "restore"
  /\ mem' \in {0} \cup (IF disk \in Identities /\ disk = secrets THEN {secrets} ELSE {})
  /\ pc' = "ready"
  /\ UNCHANGED <<server, signed, others, disk, reset, minted, written, mishap>>

\* A new device of a known identity: VerifyWithRecoveryKey fetches the
\* private keys and signs the device with them.
Unlock ==
  /\ pc = "unlock"
  /\ disk \in Identities /\ disk = secrets
  /\ mem' = secrets
  /\ signed' = secrets
  /\ pc' = "ready"
  /\ UNCHANGED <<server, others, disk, reset, minted, written, mishap>>

\* bootstrapCrossSigning does not overwrite a recovery.key unless asked to.
M_MayBootstrap_always == TRUE
MayBootstrap == reset \/ disk = Absent

\* Start returns an error: the key on disk is missing or does not fit, or it
\* is in the way.
Refuse ==
  /\ \/ pc = "unlock" /\ ~(disk \in Identities /\ disk = secrets)
     \/ pc = "generate" /\ ~MayBootstrap
  /\ pc' = "refused"
  /\ UNCHANGED <<server, signed, others, disk, mem, reset, minted, written, mishap>>

\* GenerateAndUploadCrossSigningKeysWithPassword: the private keys are stored
\* and the public ones published; the recovery key is still in memory only.
Generate ==
  /\ pc = "generate"
  /\ MayBootstrap
  /\ minted < MaxIdentities
  /\ minted' = minted + 1
  /\ master' = minted' /\ secrets' = minted' /\ mem' = minted'
  /\ pc' = "sign"
  /\ UNCHANGED <<signed, others, disk, reset, written, mishap>>

\* The same call cut short by an error, after it stored the private keys.
GeneratePartly ==
  /\ pc = "generate"
  /\ MayBootstrap
  /\ minted < MaxIdentities
  /\ minted' = minted + 1
  /\ secrets' = minted' /\ master' \in {master, minted'}
  /\ pc' = "off"
  /\ mishap' = TRUE
  /\ UNCHANGED <<signed, others, disk, mem, reset, written>>

\* SignOwnDevice and SignOwnMasterKey.
Sign ==
  /\ pc = "sign"
  /\ signed' = mem
  /\ pc' = "truncate"
  /\ UNCHANGED <<server, others, disk, mem, reset, minted, written, mishap>>

\* os.WriteFile truncates recovery.key before it writes it.
Truncate ==
  /\ pc = "truncate"
  /\ disk' = Torn
  /\ pc' = "write"
  /\ UNCHANGED <<server, signed, others, mem, reset, minted, written, mishap>>

M_Write_keepsOld ==
  /\ pc = "write"
  /\ disk' = IF written = {} THEN mem ELSE CHOOSE k \in written : TRUE
  /\ written' = written \cup {disk'}
  /\ mishap' = FALSE
  /\ pc' = "ready"
  /\ UNCHANGED <<server, signed, others, mem, reset, minted>>
Write ==
  /\ pc = "write"
  /\ disk' = mem
  /\ written' = written \cup {mem}
  /\ mishap' = FALSE
  /\ pc' = "ready"
  /\ UNCHANGED <<server, signed, others, mem, reset, minted>>

\* The process stops: a crash, SIGTERM, or any error that makes Start return
\* one.  It is a mishap between the publication and the end of the write.
Stop ==
  /\ pc \in Starting
  /\ mishap' = (mishap \/ pc \in {"sign", "truncate", "write"})
  /\ pc' = "off" /\ mem' = 0
  /\ UNCHANGED <<server, signed, others, disk, reset, minted, written>>

\* A running bot is shut down.
Shutdown ==
  /\ pc = "ready"
  /\ pc' = "off" /\ mem' = 0
  /\ UNCHANGED <<server, signed, others, disk, reset, minted, written, mishap>>

------------------------------------------------------------------------------
(* What happens around the bot, between two starts. *)

LoseDatabase ==
  /\ "lose_database" \in Events
  /\ pc \in Down
  /\ signed' = 0 /\ others' = TRUE
  /\ UNCHANGED <<server, disk, mem, pc, reset, minted, written, mishap>>

LoseDataDir ==
  /\ "lose_data_dir" \in Events
  /\ pc \in Down
  /\ disk' = Absent /\ signed' = 0 /\ others' = TRUE
  /\ mishap' = TRUE
  /\ UNCHANGED <<server, mem, pc, reset, minted, written>>

RestoreKey ==
  /\ "restore_key" \in Events
  /\ pc \in Down
  /\ disk' \in written
  /\ mishap' = TRUE
  /\ UNCHANGED <<server, signed, others, mem, pc, reset, minted, written>>

\* Another session resets the identity.  It is taken to fall outside a start.
ResetElsewhere ==
  /\ "reset_elsewhere" \in Events
  /\ pc \in Down \cup {"ready"}
  /\ minted < MaxIdentities
  /\ minted' = minted + 1
  /\ master' = minted' /\ secrets' = minted'
  /\ mishap' = TRUE
  /\ UNCHANGED <<signed, others, disk, mem, pc, reset, written>>

WipeServer ==
  /\ "wipe_server" \in Events
  /\ pc \in Down
  /\ master' = 0 /\ secrets' = 0 /\ signed' = 0 /\ others' = FALSE
  /\ mishap' = TRUE
  /\ UNCHANGED <<disk, mem, pc, reset, minted, written>>

Ensure ==
  \/ NukeOtherDevices \/ Check \/ Restore \/ Unlock \/ Refuse
  \/ Generate \/ GeneratePartly \/ Sign \/ Truncate \/ Write
Around == LoseDatabase \/ LoseDataDir \/ RestoreKey \/ ResetElsewhere \/ WipeServer

Next == Start \/ Ensure \/ Stop \/ Shutdown \/ Around

Spec == Init /\ [][Next]_vars
=============================================================================
