------------------------- MODULE IdentityProperties -------------------------
(***************************************************************************)
(* What should be true of the bot's identity.                              *)
(***************************************************************************)
EXTENDS Identity

\* The types of the server's, the disk's and the process's part.
IdentityTypeOK ==
  /\ master \in Nat /\ secrets \in Nat /\ signed \in Nat /\ mem \in Nat
  /\ others \in BOOLEAN /\ reset \in BOOLEAN /\ mishap \in BOOLEAN
  /\ disk \in {Absent, Torn} \cup Nat
  /\ pc \in Down \cup {"ready"} \cup Starting
  /\ minted \in Nat
  /\ written \in SUBSET Nat

BecomesReady == pc # "ready" /\ pc' = "ready"

\* A start that succeeds leaves the device signed by the identity the server
\* publishes, whatever was lost or interrupted before (Start,
\* bot.go:171-173: ready only after ensureVerified).
VerifiedWhenReady == [][BecomesReady => Verified']_vars

\* Once bootstrapped, the key on disk suffices to get the identity back, as
\* long as no bootstrap was cut short and nobody touched the file, the
\* server or the identity from outside (README:288, "the single file that
\* suffices").
RecoverableUnlessMishap ==
  master # 0 /\ ~mishap /\ pc \notin {"sign", "truncate", "write"} => Recoverable

\* A start never overwrites a recovery key unless it was asked to reset,
\* even if the server it finds knows no identity (bot.go:488-494).
KeyFileKept ==
  [][disk # Absent /\ disk' # disk => pc \in Down \cup {"write"} \/ reset]_vars

\* The identity clients trust changes only when a reset was asked for: no
\* start replaces a published one on its own, however often it was
\* interrupted and whatever it lost (README "The Matrix identity is unchanged").
IdentityKept ==
  [][master # 0 /\ master' # master => reset \/ pc \in Down \cup {"ready"}]_vars

\* A bot whose recovery key works is never refused: every start that is not
\* interrupted gets it back (README "Nothing to do - this is automatic").
RefusedOnlyWithoutAnchor == [][pc # "refused" /\ pc' = "refused" => ~Recoverable]_vars

\* A reset that succeeds burns the old identity completely: no other device
\* is left, and the new identity is verified and recoverable (README:330-350).
ResetBurnsAndRebuilds ==
  [][reset /\ BecomesReady => ~others' /\ Verified' /\ Recoverable']_vars

------------------------------------------------------------------------------
(* The parts of the inductive invariant. *)

\* The numbers in use are numbers of identities already minted.
Numbered ==
  /\ minted \in 0..MaxIdentities
  /\ master \in 0..minted /\ secrets \in 0..minted /\ mem \in 0..minted /\ signed \in 0..minted
  /\ written \subseteq 1..minted
  /\ disk \in {Absent, Torn} \cup written

\* A recovery key that was ever on disk and still unlocks the stored secrets
\* unlocks those of the published identity: the secrets of a bootstrap cut
\* short fit no key anybody has.
SecretsArePublished == secrets \in written => secrets = master

\* Where a start stands tells what it has established.
StartInPlace ==
  /\ pc = "nuke" => reset
  /\ pc \in {"check", "restore", "unlock"} => ~reset
  /\ pc = "restore" => Verified
  /\ pc = "generate" => reset \/ master = 0
  /\ reset /\ pc \in {"generate", "sign", "truncate", "write"} => ~others
  /\ pc \in {"sign", "truncate", "write"} => mem # 0 /\ mem = master /\ mem = secrets
  /\ pc \in {"truncate", "write"} => signed = mem
  /\ pc \in {"sign", "truncate"} => reset \/ disk = Absent

IdentityInv ==
  IdentityTypeOK /\ Numbered /\ SecretsArePublished /\ StartInPlace /\ RecoverableUnlessMishap
=============================================================================
