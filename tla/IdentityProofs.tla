--------------------------- MODULE IdentityProofs ---------------------------
(***************************************************************************)
(* Proofs about Identity, for every number of identities, starts and       *)
(* interruptions and for every order of the events around the bot.         *)
(***************************************************************************)
EXTENDS IdentityProperties, TLAPS

USE IdentityAssumption DEF IdentityAssumption

\* The parts of the invariant hold at the start,
LEMMA InitEstablishes == ASSUME Init PROVE IdentityInv
<1> USE DEF Init, Absent
<1>1. IdentityTypeOK
  BY DEF IdentityTypeOK, Down
<1>2. Numbered
  BY DEF Numbered
<1>3. SecretsArePublished /\ RecoverableUnlessMishap
  BY DEF SecretsArePublished, RecoverableUnlessMishap
<1>4. StartInPlace
  BY DEF StartInPlace
<1> QED
  BY <1>1, <1>2, <1>3, <1>4 DEF IdentityInv

\* and no step of a start,
LEMMA EnsureKeeps == ASSUME IdentityInv, Ensure PROVE IdentityInv'
<1> USE DEF IdentityInv, IdentityTypeOK, Numbered, SecretsArePublished, StartInPlace,
            RecoverableUnlessMishap, Recoverable, Verified, Starting, Down, Absent, Torn,
            Identities, server
<1>1. CASE NukeOtherDevices
  BY <1>1 DEF NukeOtherDevices
<1>2. CASE Check
  BY <1>2 DEF Check
<1>3. CASE Restore
  BY <1>3 DEF Restore
<1>4. CASE Unlock
  BY <1>4 DEF Unlock
<1>5. CASE Refuse
  BY <1>5 DEF Refuse, MayBootstrap
<1>6. CASE Generate
  BY <1>6 DEF Generate, MayBootstrap
<1>7. CASE GeneratePartly
  BY <1>7 DEF GeneratePartly, MayBootstrap
<1>8. CASE Sign
  BY <1>8 DEF Sign
<1>9. CASE Truncate
  BY <1>9 DEF Truncate
<1>10. CASE Write
  <2> USE <1>10 DEF Write
  <2>1. IdentityTypeOK'
    OBVIOUS
  <2>2. Numbered'
    OBVIOUS
  <2>3. SecretsArePublished'
    OBVIOUS
  <2>4. StartInPlace'
    OBVIOUS
  <2>5. RecoverableUnlessMishap'
    OBVIOUS
  <2> QED
    BY <2>1, <2>2, <2>3, <2>4, <2>5
<1> HIDE DEF IdentityInv
<1> QED
  BY <1>1, <1>2, <1>3, <1>4, <1>5, <1>6, <1>7, <1>8, <1>9, <1>10 DEF Ensure

\* no start, stop or shutdown,
LEMMA ProcessKeeps == ASSUME IdentityInv, Start \/ Stop \/ Shutdown PROVE IdentityInv'
<1> USE DEF IdentityInv, IdentityTypeOK, Numbered, SecretsArePublished, StartInPlace,
            RecoverableUnlessMishap, Recoverable, Verified, Starting, Down, Absent, Torn,
            Identities, server
<1>1. CASE Start
  BY <1>1 DEF Start
<1>2. CASE Stop
  <2> USE <1>2 DEF Stop
  <2>1. IdentityTypeOK'
    OBVIOUS
  <2>2. Numbered'
    OBVIOUS
  <2>3. SecretsArePublished'
    OBVIOUS
  <2>4. StartInPlace'
    OBVIOUS
  <2>5. RecoverableUnlessMishap'
    OBVIOUS
  <2> QED
    BY <2>1, <2>2, <2>3, <2>4, <2>5
<1>3. CASE Shutdown
  BY <1>3 DEF Shutdown
<1> HIDE DEF IdentityInv
<1> QED
  BY <1>1, <1>2, <1>3

\* and nothing that happens around the bot falsifies them.
LEMMA AroundKeeps == ASSUME IdentityInv, Around PROVE IdentityInv'
<1> USE DEF IdentityInv, IdentityTypeOK, Numbered, SecretsArePublished, StartInPlace,
            RecoverableUnlessMishap, Recoverable, Verified, Starting, Down, Absent, Torn,
            Identities, server
<1>1. CASE LoseDatabase
  BY <1>1 DEF LoseDatabase
<1>2. CASE LoseDataDir
  BY <1>2 DEF LoseDataDir
<1>3. CASE RestoreKey
  BY <1>3 DEF RestoreKey
<1>4. CASE ResetElsewhere
  BY <1>4 DEF ResetElsewhere
<1>5. CASE WipeServer
  <2> USE <1>5 DEF WipeServer
  <2>1. IdentityTypeOK'
    OBVIOUS
  <2>2. Numbered'
    OBVIOUS
  <2>3. SecretsArePublished'
    OBVIOUS
  <2>4. StartInPlace'
    OBVIOUS
  <2>5. RecoverableUnlessMishap'
    OBVIOUS
  <2> QED
    BY <2>1, <2>2, <2>3, <2>4, <2>5
<1> HIDE DEF IdentityInv
<1> QED
  BY <1>1, <1>2, <1>3, <1>4, <1>5 DEF Around

\* The inductive invariant holds in every reachable state.
THEOREM IdentityInvariant == Spec => []IdentityInv
<1>1. Init => IdentityInv
  BY InitEstablishes
<1>2. IdentityInv /\ [Next]_vars => IdentityInv'
  <2> SUFFICES ASSUME IdentityInv, [Next]_vars PROVE IdentityInv'
    OBVIOUS
  <2>1. CASE UNCHANGED vars
    BY <2>1 DEF vars, server, IdentityInv, IdentityTypeOK, Numbered, SecretsArePublished,
                StartInPlace, RecoverableUnlessMishap, Recoverable, Verified
  <2>2. CASE Next
    BY <2>2, EnsureKeeps, ProcessKeeps, AroundKeeps DEF Next
  <2> QED
    BY <2>1, <2>2
<1> QED
  BY <1>1, <1>2, PTL DEF Spec

\* Server, disk and process keep their types.
THEOREM IdentityTypeCorrect == Spec => []IdentityTypeOK
BY IdentityInvariant, PTL DEF IdentityInv

\* Whatever is interrupted, lost or restored, and in whatever order: the key
\* on disk suffices to get the published identity back unless a bootstrap was
\* cut short or a part was changed from outside.
THEOREM RecoveryKeySuffices == Spec => []RecoverableUnlessMishap
BY IdentityInvariant, PTL DEF IdentityInv

------------------------------------------------------------------------------
(* What a step may never do. *)

\* Whatever came before, a start that succeeds leaves a verified device.
THEOREM ReadyIsVerified == Spec => VerifiedWhenReady
<1>1. IdentityInv /\ [Next]_vars => [(BecomesReady => Verified')]_vars
  <2> SUFFICES ASSUME IdentityInv, Next PROVE (BecomesReady => Verified')
    BY DEF vars
  <2> USE DEF IdentityInv, StartInPlace, server, Starting, Down, BecomesReady, Verified, Recoverable, Numbered, SecretsArePublished
  <2>1. ASSUME Start \/ Stop \/ Shutdown \/ Around PROVE (BecomesReady => Verified')
    BY <2>1 DEF Start, Stop, Shutdown, Around, LoseDatabase, LoseDataDir, RestoreKey,
                ResetElsewhere, WipeServer
  <2>2. ASSUME Ensure PROVE (BecomesReady => Verified')
    <3>1. CASE Restore
      BY <3>1 DEF Restore
    <3>2. CASE Unlock
      <4>1. secrets \in written /\ secrets # 0
        BY <3>2 DEF Unlock, Absent, Torn, Identities
      <4>2. secrets = master
        BY <4>1
      <4> QED
        BY <3>2, <4>1, <4>2 DEF Unlock
    <3>3. CASE Write
      BY <3>3 DEF Write
    <3>4. CASE NukeOtherDevices \/ Check \/ Refuse \/ Generate \/ GeneratePartly \/ Sign \/ Truncate
      BY <3>4 DEF NukeOtherDevices, Check, Refuse, Generate, GeneratePartly, Sign, Truncate
    <3> QED
      BY <2>2, <3>1, <3>2, <3>3, <3>4 DEF Ensure
  <2> QED
    BY <2>1, <2>2 DEF Next
<1> QED
  BY <1>1, IdentityInvariant, PTL DEF Spec, VerifiedWhenReady

\* No start overwrites a recovery key unless asked to reset.
THEOREM KeyFileNotOverwritten == Spec => KeyFileKept
<1>1. IdentityInv /\ [Next]_vars => [(disk # Absent /\ disk' # disk => pc \in Down \cup {"write"} \/ reset)]_vars
  <2> SUFFICES ASSUME IdentityInv, Next PROVE (disk # Absent /\ disk' # disk => pc \in Down \cup {"write"} \/ reset)
    BY DEF vars
  <2> USE DEF IdentityInv, StartInPlace, server, Starting, Down, MayBootstrap, Absent
  <2>1. ASSUME Start \/ Stop \/ Shutdown \/ Around PROVE (disk # Absent /\ disk' # disk => pc \in Down \cup {"write"} \/ reset)
    BY <2>1 DEF Start, Stop, Shutdown, Around, LoseDatabase, LoseDataDir, RestoreKey,
                ResetElsewhere, WipeServer
  <2>2. ASSUME Ensure PROVE (disk # Absent /\ disk' # disk => pc \in Down \cup {"write"} \/ reset)
    BY <2>2 DEF Ensure, NukeOtherDevices, Check, Restore, Unlock, Refuse, Generate,
                GeneratePartly, Sign, Truncate, Write
  <2> QED
    BY <2>1, <2>2 DEF Next
<1> QED
  BY <1>1, IdentityInvariant, PTL DEF Spec, KeyFileKept

\* No start replaces a published identity unless asked to reset.
THEOREM IdentityNotReplaced == Spec => IdentityKept
<1>1. IdentityInv /\ [Next]_vars => [(master # 0 /\ master' # master => reset \/ pc \in Down \cup {"ready"})]_vars
  <2> SUFFICES ASSUME IdentityInv, Next PROVE (master # 0 /\ master' # master => reset \/ pc \in Down \cup {"ready"})
    BY DEF vars
  <2> USE DEF IdentityInv, StartInPlace, server, Starting, Down
  <2>1. ASSUME Start \/ Stop \/ Shutdown \/ Around PROVE (master # 0 /\ master' # master => reset \/ pc \in Down \cup {"ready"})
    BY <2>1 DEF Start, Stop, Shutdown, Around, LoseDatabase, LoseDataDir, RestoreKey,
                ResetElsewhere, WipeServer
  <2>2. ASSUME Ensure PROVE (master # 0 /\ master' # master => reset \/ pc \in Down \cup {"ready"})
    BY <2>2 DEF Ensure, NukeOtherDevices, Check, Restore, Unlock, Refuse, Generate,
                GeneratePartly, Sign, Truncate, Write
  <2> QED
    BY <2>1, <2>2 DEF Next
<1> QED
  BY <1>1, IdentityInvariant, PTL DEF Spec, IdentityKept

\* A start is refused only when the key on disk is no use.
THEOREM WorkingKeyNotRefused == Spec => RefusedOnlyWithoutAnchor
<1>1. IdentityInv /\ [Next]_vars => [(pc # "refused" /\ pc' = "refused" => ~Recoverable)]_vars
  <2> SUFFICES ASSUME IdentityInv, Next PROVE (pc # "refused" /\ pc' = "refused" => ~Recoverable)
    BY DEF vars
  <2> USE DEF IdentityInv, StartInPlace, server, Starting, Down, MayBootstrap, Recoverable, Identities, Numbered
  <2>1. ASSUME Start \/ Stop \/ Shutdown \/ Around PROVE (pc # "refused" /\ pc' = "refused" => ~Recoverable)
    BY <2>1 DEF Start, Stop, Shutdown, Around, LoseDatabase, LoseDataDir, RestoreKey,
                ResetElsewhere, WipeServer
  <2>2. ASSUME Ensure PROVE (pc # "refused" /\ pc' = "refused" => ~Recoverable)
    BY <2>2 DEF Ensure, NukeOtherDevices, Check, Restore, Unlock, Refuse, Generate,
                GeneratePartly, Sign, Truncate, Write
  <2> QED
    BY <2>1, <2>2 DEF Next
<1> QED
  BY <1>1, IdentityInvariant, PTL DEF Spec, RefusedOnlyWithoutAnchor

\* A reset that succeeds leaves one device and a recoverable identity.
THEOREM ResetIsComplete == Spec => ResetBurnsAndRebuilds
<1>1. IdentityInv /\ [Next]_vars => [(reset /\ BecomesReady => ~others' /\ Verified' /\ Recoverable')]_vars
  <2> SUFFICES ASSUME IdentityInv, Next PROVE (reset /\ BecomesReady => ~others' /\ Verified' /\ Recoverable')
    BY DEF vars
  <2> USE DEF IdentityInv, StartInPlace, server, Starting, Down, BecomesReady, Verified, Recoverable, Identities, Numbered
  <2>1. ASSUME Start \/ Stop \/ Shutdown \/ Around PROVE (reset /\ BecomesReady => ~others' /\ Verified' /\ Recoverable')
    BY <2>1 DEF Start, Stop, Shutdown, Around, LoseDatabase, LoseDataDir, RestoreKey,
                ResetElsewhere, WipeServer
  <2>2. ASSUME Ensure PROVE (reset /\ BecomesReady => ~others' /\ Verified' /\ Recoverable')
    <3>1. CASE Restore
      BY <3>1 DEF Restore
    <3>2. CASE Unlock
      BY <3>2 DEF Unlock
    <3>3. CASE Write
      BY <3>3 DEF Write
    <3>4. CASE NukeOtherDevices \/ Check \/ Refuse \/ Generate \/ GeneratePartly \/ Sign \/ Truncate
      BY <3>4 DEF NukeOtherDevices, Check, Refuse, Generate, GeneratePartly, Sign, Truncate
    <3> QED
      BY <2>2, <3>1, <3>2, <3>3, <3>4 DEF Ensure
  <2> QED
    BY <2>1, <2>2 DEF Next
<1> QED
  BY <1>1, IdentityInvariant, PTL DEF Spec, ResetBurnsAndRebuilds
=============================================================================
