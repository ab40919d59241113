------------------------- MODULE AdminSessionsProofs -------------------------
(***************************************************************************)
(* Proofs about AdminSessions for any number of concurrent calls.          *)
(*                                                                         *)
(* Neither CacheFollowsRow nor RevokedStaysRevoked is inductive: both need *)
(* to know what a call between its commit and its publication holds.       *)
(***************************************************************************)
EXTENDS AdminSessionsProperties, TLAPS

\* A secret is generated before anything uses it.
Generated ==
  /\ row.secret <= minted /\ cred.secret <= minted
  /\ \A c \in Calls : held[c].secret <= minted
  /\ \A s \in retired : s <= minted
  /\ \A s \in tokens : s <= minted

\* A call about to publish holds a credential with a secret.
HeldIsReal == \A c \in Calls : pc[c] = "publish" => held[c] \in CredentialType

\* No call outlives the process.
DownIsIdle == ~up => \A c \in Calls : pc[c] = "idle"

\* A call about to publish holds what the row says.
HeldIsRow == ~skewed => \A c \in Calls : pc[c] = "publish" => held[c] = row

\* Without overlap there is one call about to publish at most; it holds the
\* row unless that was deleted, and neither the row, the cache nor the call
\* holds a secret that was retired.
OnePublisher == \A c, d \in Calls : pc[c] = "publish" /\ pc[d] = "publish" => c = d
HeldIsNew == \A c \in Calls : pc[c] = "publish" =>
                /\ held[c].secret \notin retired \cup {cred.secret}
                /\ row = held[c] \/ row = NoRow
RowIsCurrent == row # NoRow => /\ row.secret \notin retired
                               /\ row.secret = cred.secret => row = cred
CacheIsCurrent == cred.secret \notin retired

NoneRetired == ~overlapped => OnePublisher /\ HeldIsNew /\ RowIsCurrent /\ CacheIsCurrent

SessionsInv ==
  /\ SessionsTypeOK /\ HeldIsReal /\ Generated /\ DownIsIdle
  /\ HeldIsRow /\ CacheFollowsRow
  /\ NoneRetired

USE SessionsAssumption DEF SessionsAssumption

\* A new credential has the type of one, and a secret larger than any so far.
LEMMA NewCredentialIsFresh ==
  ASSUME SessionsTypeOK, minted < MaxSecrets, NEW p \in Passwords
  PROVE  /\ NewCredential(p) \in CredentialType
         /\ NewCredential(p).secret = minted + 1
         /\ NewCredential(p) # NoRow
BY DEF SessionsTypeOK, NewCredential, CredentialType, NoRow

\* The database and the process start empty.
LEMMA InitSessionsInv == Init => SessionsInv
<1> SUFFICES ASSUME Init PROVE SessionsInv
  OBVIOUS
<1>1. SessionsTypeOK /\ HeldIsReal
  <2>1. up \in BOOLEAN /\ overlapped \in BOOLEAN /\ skewed \in BOOLEAN /\ ~up
    BY DEF Init
  <2>2. /\ pc \in [Calls -> {"idle", "mint", "update", "publish"}]
        /\ next \in [Calls -> Passwords]
        /\ held \in [Calls -> CredentialType \cup {NoRow}]
    BY DEF Init
  <2>3. /\ row = NoRow /\ cred = NoRow
        /\ tokens = {} /\ retired = {} /\ minted \in 0..MaxSecrets
    BY DEF Init
  <2>4. HeldIsReal
    BY DEF Init, HeldIsReal
  <2> QED BY <2>1, <2>2, <2>3, <2>4 DEF SessionsTypeOK
<1>2. Generated
  BY DEF Init, Generated, NoRow
<1>3. DownIsIdle /\ HeldIsRow /\ CacheFollowsRow
  BY DEF Init, DownIsIdle, HeldIsRow, CacheFollowsRow
<1>4. NoneRetired
  BY DEF Init, NoneRetired, OnePublisher, HeldIsNew, RowIsCurrent, CacheIsCurrent
<1> QED BY <1>1, <1>2, <1>3, <1>4 DEF SessionsInv

\* Types survive every step.
LEMMA TypesStep == SessionsTypeOK /\ HeldIsReal /\ [Next]_vars => SessionsTypeOK'
<1> SUFFICES ASSUME SessionsTypeOK, HeldIsReal, [Next]_vars
             PROVE  SessionsTypeOK'
  OBVIOUS
<1>n. NoRow.secret = 0 /\ \A k \in CredentialType \cup {NoRow} : k.secret \in 0..MaxSecrets
  BY DEF NoRow, CredentialType
<1>f. \A p \in Passwords : minted < MaxSecrets => NewCredential(p) \in CredentialType
  BY NewCredentialIsFresh
<1>1. CASE Boot
  <2>1. row' \in CredentialType /\ minted' \in 0..MaxSecrets
    BY <1>1, <1>f DEF Boot, SessionsTypeOK
  <2>2. cred' = row' /\ retired' \subseteq 0..MaxSecrets
    BY <1>1, <1>n DEF Boot, Cache, SessionsTypeOK
  <2> QED BY <1>1, <2>1, <2>2 DEF Boot, SessionsTypeOK, calls
<1>2. CASE Crash
  BY <1>2 DEF Crash, SessionsTypeOK
<1>3. CASE DeleteRow
  BY <1>3 DEF DeleteRow, SessionsTypeOK, calls
<1>4. ASSUME NEW c \in Calls, NEW p \in Passwords, Login(c, p) PROVE SessionsTypeOK'
  BY <1>4 DEF Login, SessionsTypeOK
<1>5. ASSUME NEW c \in Calls, NEW p \in Passwords, NEW q \in Passwords, Change(c, p, q)
      PROVE  SessionsTypeOK'
  BY <1>5 DEF Change, SessionsTypeOK
<1>6. ASSUME NEW c \in Calls, Update(c) PROVE SessionsTypeOK'
  <2>1. row' \in CredentialType /\ minted' \in 0..MaxSecrets
    BY <1>6, <1>f DEF Update, SessionsTypeOK
  <2>2. overlapped' \in BOOLEAN /\ skewed' \in BOOLEAN
    BY <1>6 DEF Update, SessionsTypeOK, Unpublished
  <2> QED BY <1>6, <2>1, <2>2 DEF Update, SessionsTypeOK
<1>7. ASSUME NEW c \in Calls, UpdateLost(c) PROVE SessionsTypeOK'
  <2>1. row' \in CredentialType /\ minted' \in 0..MaxSecrets
    BY <1>7, <1>f DEF UpdateLost, SessionsTypeOK
  <2>2. overlapped' \in BOOLEAN
    BY <1>7 DEF UpdateLost, SessionsTypeOK, Unpublished
  <2> QED BY <1>7, <2>1, <2>2 DEF UpdateLost, SessionsTypeOK
<1>8. ASSUME NEW c \in Calls, UpdateFails(c) PROVE SessionsTypeOK'
  BY <1>8 DEF UpdateFails, SessionsTypeOK
<1>9. ASSUME NEW c \in Calls, Publish(c) PROVE SessionsTypeOK'
  <2>1. retired' \subseteq 0..MaxSecrets
    BY <1>9, <1>n DEF Publish, Cache, SessionsTypeOK
  <2>2. cred' \in CredentialType
    BY <1>9 DEF Publish, Cache, HeldIsReal
  <2> QED BY <1>9, <2>1, <2>2 DEF Publish, SessionsTypeOK
<1>10. ASSUME NEW c \in Calls, Mint(c) PROVE SessionsTypeOK'
  BY <1>10, <1>n DEF Mint, SessionsTypeOK
<1>11. CASE UNCHANGED vars
  BY <1>11 DEF vars, calls, SessionsTypeOK, CredentialType, NoRow
<1> QED BY <1>1, <1>2, <1>3, <1>4, <1>5, <1>6, <1>7, <1>8, <1>9, <1>10, <1>11 DEF Next, Step

\* Only Update brings a call to its publication, with the row it wrote.
LEMMA HeldIsRealStep == SessionsTypeOK /\ HeldIsReal /\ [Next]_vars => HeldIsReal'
<1> SUFFICES ASSUME SessionsTypeOK, HeldIsReal, [Next]_vars PROVE HeldIsReal'
  OBVIOUS
<1>t. /\ pc \in [Calls -> {"idle", "mint", "update", "publish"}]
      /\ held \in [Calls -> CredentialType \cup {NoRow}]
      /\ next \in [Calls -> Passwords]
  BY DEF SessionsTypeOK
<1>1. CASE \E c \in Calls : Update(c)
  <2>1. PICK c \in Calls : Update(c)
    BY <1>1
  <2>2. held'[c] \in CredentialType
    BY <2>1, <1>t, NewCredentialIsFresh DEF Update
  <2>3. \A d \in Calls \ {c} : pc'[d] = pc[d] /\ held'[d] = held[d]
    BY <2>1, <1>t DEF Update
  <2> QED BY <2>2, <2>3 DEF HeldIsReal
<1>2. CASE ~\E c \in Calls : Update(c)
  <2>1. \A d \in Calls : pc'[d] = "publish" => pc[d] = "publish" /\ held'[d] = held[d]
    BY <1>2, <1>t DEF Next, Step, Boot, Crash, DeleteRow, Login, Change, UpdateLost,
                      UpdateFails, Publish, Mint, vars, calls
  <2> QED BY <2>1 DEF HeldIsReal
<1> QED BY <1>1, <1>2

\* Secrets only grow, and what is stored anywhere was generated first.
LEMMA GeneratedStep == SessionsTypeOK /\ Generated /\ [Next]_vars => Generated'
<1> SUFFICES ASSUME SessionsTypeOK, Generated, [Next]_vars PROVE Generated'
  OBVIOUS
<1>m. minted \in Nat
  BY DEF SessionsTypeOK
<1>n. NoRow.secret = 0
  BY DEF NoRow
<1>f. \A p \in Passwords : minted < MaxSecrets => NewCredential(p).secret = minted + 1
  BY NewCredentialIsFresh
<1>t. /\ held \in [Calls -> CredentialType \cup {NoRow}]
      /\ next \in [Calls -> Passwords]
      /\ retired \subseteq Int /\ tokens \subseteq Int
      /\ row.secret \in Int /\ cred.secret \in Int
      /\ \A c \in Calls : held[c].secret \in Int
  BY <1>n DEF SessionsTypeOK, CredentialType
<1>1. CASE Boot
  <2>1. row'.secret <= minted' /\ minted <= minted' /\ minted' \in Nat
    BY <1>1, <1>f, <1>m, <1>t DEF Boot, Generated
  <2>2. \A s \in retired' : s <= minted'
    BY <1>1, <2>1, <1>m, <1>t DEF Boot, Cache, Generated
  <2>3. /\ \A c \in Calls : held[c].secret <= minted'
        /\ \A s \in tokens : s <= minted'
    BY <2>1, <1>m, <1>t DEF Generated
  <2> QED BY <1>1, <2>1, <2>2, <2>3 DEF Boot, Cache, Generated, calls
<1>2. CASE Crash
  BY <1>2, <1>m, <1>n DEF Crash, Generated
<1>3. CASE DeleteRow
  BY <1>3, <1>m, <1>n DEF DeleteRow, Generated, calls
<1>4. ASSUME NEW c \in Calls, NEW p \in Passwords, Login(c, p) PROVE Generated'
  BY <1>4 DEF Login, Generated
<1>5. ASSUME NEW c \in Calls, NEW p \in Passwords, NEW q \in Passwords, Change(c, p, q)
      PROVE  Generated'
  BY <1>5 DEF Change, Generated
<1>6. ASSUME NEW c \in Calls, Update(c) PROVE Generated'
  <2>1. row'.secret = minted + 1 /\ minted' = minted + 1
    BY <1>6, <1>f, <1>t DEF Update
  <2>2. \A d \in Calls : held'[d].secret <= minted'
    BY <1>6, <2>1, <1>m, <1>t DEF Update, Generated
  <2>3. /\ cred.secret <= minted'
        /\ \A s \in retired : s <= minted'
        /\ \A s \in tokens : s <= minted'
    BY <2>1, <1>m, <1>t DEF Generated
  <2> QED BY <1>6, <1>m, <2>1, <2>2, <2>3 DEF Update, Generated
<1>7. ASSUME NEW c \in Calls, UpdateLost(c) PROVE Generated'
  <2>1. row'.secret = minted + 1 /\ minted' = minted + 1
    BY <1>7, <1>f, <1>t DEF UpdateLost
  <2>2. /\ cred.secret <= minted'
        /\ \A d \in Calls : held[d].secret <= minted'
        /\ \A s \in retired : s <= minted'
        /\ \A s \in tokens : s <= minted'
    BY <2>1, <1>m, <1>t DEF Generated
  <2> QED BY <1>7, <1>m, <2>1, <2>2 DEF UpdateLost, Generated
<1>8. ASSUME NEW c \in Calls, UpdateFails(c) PROVE Generated'
  BY <1>8 DEF UpdateFails, Generated
<1>9. ASSUME NEW c \in Calls, Publish(c) PROVE Generated'
  <2>1. \A d \in Calls : held'[d].secret <= minted
    BY <1>9, <1>m, <1>n, <1>t DEF Publish, Generated
  <2>2. cred'.secret <= minted /\ \A s \in retired' : s <= minted
    BY <1>9 DEF Publish, Cache, Generated
  <2> QED BY <1>9, <2>1, <2>2 DEF Publish, Generated
<1>10. ASSUME NEW c \in Calls, Mint(c) PROVE Generated'
  BY <1>10 DEF Mint, Generated
<1>11. CASE UNCHANGED vars
  BY <1>11 DEF vars, calls, Generated
<1> QED BY <1>1, <1>2, <1>3, <1>4, <1>5, <1>6, <1>7, <1>8, <1>9, <1>10, <1>11 DEF Next, Step

\* While nothing is skewed the row, the cache and the publisher agree.
LEMMA CacheStep ==
  SessionsTypeOK /\ DownIsIdle /\ HeldIsRow /\ CacheFollowsRow /\ [Next]_vars
    => DownIsIdle' /\ HeldIsRow' /\ CacheFollowsRow'
<1> SUFFICES ASSUME SessionsTypeOK, DownIsIdle, HeldIsRow, CacheFollowsRow, [Next]_vars
             PROVE  DownIsIdle' /\ HeldIsRow' /\ CacheFollowsRow'
  OBVIOUS
<1>t. pc \in [Calls -> {"idle", "mint", "update", "publish"}]
      /\ held \in [Calls -> CredentialType \cup {NoRow}]
  BY DEF SessionsTypeOK
<1> USE DEF DownIsIdle, HeldIsRow, CacheFollowsRow
<1>1. CASE Boot
  BY <1>1, <1>t DEF Boot, Cache, calls
<1>2. CASE Crash
  BY <1>2, <1>t DEF Crash
<1>3. CASE DeleteRow
  BY <1>3, <1>t DEF DeleteRow, calls
<1>4. ASSUME NEW c \in Calls, NEW p \in Passwords, Login(c, p)
      PROVE  DownIsIdle' /\ HeldIsRow' /\ CacheFollowsRow'
  <2>1. \A d \in Calls : pc'[d] = "publish" <=> pc[d] = "publish"
    BY <1>4, <1>t DEF Login
  <2> QED BY <1>4, <1>t, <2>1 DEF Login
<1>5. ASSUME NEW c \in Calls, NEW p \in Passwords, NEW q \in Passwords, Change(c, p, q)
      PROVE  DownIsIdle' /\ HeldIsRow' /\ CacheFollowsRow'
  <2>1. \A d \in Calls : pc'[d] = "publish" <=> pc[d] = "publish"
    BY <1>5, <1>t DEF Change
  <2> QED BY <1>5, <1>t, <2>1 DEF Change
<1>6. ASSUME NEW c \in Calls, Update(c)
      PROVE  DownIsIdle' /\ HeldIsRow' /\ CacheFollowsRow'
  <2>1. /\ \A d \in Calls \ {c} : pc'[d] = pc[d]
        /\ pc'[c] = "publish" /\ held'[c] = row' /\ up /\ up' = up
    BY <1>6, <1>t DEF Update
  <2>2. ~skewed' => \A d \in Calls \ {c} : pc[d] # "publish"
    BY <1>6 DEF Update, Unpublished
  <2> QED BY <2>1, <2>2
<1>7. ASSUME NEW c \in Calls, UpdateLost(c)
      PROVE  DownIsIdle' /\ HeldIsRow' /\ CacheFollowsRow'
  BY <1>7, <1>t DEF UpdateLost
<1>8. ASSUME NEW c \in Calls, UpdateFails(c)
      PROVE  DownIsIdle' /\ HeldIsRow' /\ CacheFollowsRow'
  <2>1. \A d \in Calls : pc'[d] = "publish" <=> pc[d] = "publish"
    BY <1>8, <1>t DEF UpdateFails
  <2> QED BY <1>8, <1>t, <2>1 DEF UpdateFails
<1>9. ASSUME NEW c \in Calls, Publish(c)
      PROVE  DownIsIdle' /\ HeldIsRow' /\ CacheFollowsRow'
  <2>1. /\ up /\ up' = up /\ row' = row /\ skewed' = skewed /\ cred' = held[c]
        /\ pc'[c] = "mint"
        /\ \A d \in Calls \ {c} : pc'[d] = pc[d] /\ held'[d] = held[d]
    BY <1>9, <1>t DEF Publish, Cache
  <2>2. pc[c] = "publish"
    BY <1>9 DEF Publish
  <2> QED BY <2>1, <2>2
<1>10. ASSUME NEW c \in Calls, Mint(c)
       PROVE  DownIsIdle' /\ HeldIsRow' /\ CacheFollowsRow'
  <2>1. \A d \in Calls : pc'[d] = "publish" <=> pc[d] = "publish"
    BY <1>10, <1>t DEF Mint
  <2> QED BY <1>10, <1>t, <2>1 DEF Mint
<1>11. CASE UNCHANGED vars
  BY <1>11 DEF vars, calls
<1> HIDE DEF DownIsIdle, HeldIsRow, CacheFollowsRow
<1> QED BY <1>1, <1>2, <1>3, <1>4, <1>5, <1>6, <1>7, <1>8, <1>9, <1>10, <1>11 DEF Next, Step

\* Without overlap no step brings a retired secret back.
LEMMA RetiredStep ==
  SessionsTypeOK /\ Generated /\ DownIsIdle /\ NoneRetired /\ [Next]_vars => NoneRetired'
<1> SUFFICES ASSUME SessionsTypeOK, Generated, DownIsIdle, NoneRetired, [Next]_vars,
                    ~overlapped'
             PROVE  (OnePublisher /\ HeldIsNew /\ RowIsCurrent /\ CacheIsCurrent)'
  BY DEF NoneRetired
<1>o. ~overlapped
  BY DEF Next, Step, Boot, Crash, DeleteRow, Login, Change, Update, UpdateLost, UpdateFails,
         Publish, Mint, vars
<1>i. OnePublisher /\ HeldIsNew /\ RowIsCurrent /\ CacheIsCurrent
  BY <1>o DEF NoneRetired
<1>n. NoRow.secret = 0 /\ NoRow \notin CredentialType
  BY DEF NoRow, CredentialType
<1>t. /\ pc \in [Calls -> {"idle", "mint", "update", "publish"}]
      /\ held \in [Calls -> CredentialType \cup {NoRow}]
      /\ next \in [Calls -> Passwords]
      /\ minted \in Nat
  BY DEF SessionsTypeOK
<1>f. \A p \in Passwords : minted < MaxSecrets =>
         /\ NewCredential(p) \in CredentialType
         /\ NewCredential(p).secret = minted + 1
         /\ NewCredential(p).secret \notin retired \cup {cred.secret, row.secret}
  BY <1>t, NewCredentialIsFresh DEF Generated
<1> USE DEF OnePublisher, HeldIsNew, RowIsCurrent, CacheIsCurrent
<1>1. CASE Boot
  <2>1. \A c \in Calls : pc'[c] = "idle"
    BY <1>1 DEF Boot, DownIsIdle, calls
  <2>2. row'.secret \notin retired /\ (row' # cred => row'.secret # cred.secret)
    BY <1>1, <1>i, <1>f DEF Boot
  <2>3. cred' = row' /\ cred'.secret \notin retired'
    BY <1>1, <2>2, <1>i DEF Boot, Cache
  <2> QED BY <2>1, <2>3
<1>2. CASE Crash
  BY <1>2, <1>i DEF Crash
<1>3. CASE DeleteRow
  BY <1>3, <1>i DEF DeleteRow, calls
<1>4. ASSUME NEW c \in Calls, NEW p \in Passwords, Login(c, p)
      PROVE  (OnePublisher /\ HeldIsNew /\ RowIsCurrent /\ CacheIsCurrent)'
  <2>1. \A d \in Calls : pc'[d] = "publish" => pc[d] = "publish"
    BY <1>4, <1>t DEF Login
  <2> QED BY <1>4, <1>i, <2>1 DEF Login
<1>5. ASSUME NEW c \in Calls, NEW p \in Passwords, NEW q \in Passwords, Change(c, p, q)
      PROVE  (OnePublisher /\ HeldIsNew /\ RowIsCurrent /\ CacheIsCurrent)'
  <2>1. \A d \in Calls : pc'[d] = "publish" => pc[d] = "publish"
    BY <1>5, <1>t DEF Change
  <2> QED BY <1>5, <1>i, <2>1 DEF Change
<1>6. ASSUME NEW c \in Calls, Update(c)
      PROVE  (OnePublisher /\ HeldIsNew /\ RowIsCurrent /\ CacheIsCurrent)'
  <2>1. \A d \in Calls \ {c} : pc'[d] # "publish"
    BY <1>6, <1>t DEF Update, Unpublished
  <2>2. /\ row' \in CredentialType /\ held'[c] = row'
        /\ row'.secret \notin retired \cup {cred.secret}
    BY <1>6, <1>t, <1>f DEF Update
  <2>3. cred' = cred /\ retired' = retired
    BY <1>6 DEF Update
  <2> QED BY <2>1, <2>2, <2>3, <1>i
<1>7. ASSUME NEW c \in Calls, UpdateLost(c)
      PROVE  (OnePublisher /\ HeldIsNew /\ RowIsCurrent /\ CacheIsCurrent)'
  <2>1. \A d \in Calls : pc'[d] # "publish"
    BY <1>7, <1>t DEF UpdateLost, Unpublished
  <2>2. row'.secret \notin retired \cup {cred.secret}
    BY <1>7, <1>t, <1>f DEF UpdateLost
  <2> QED BY <1>7, <2>1, <2>2, <1>i DEF UpdateLost
<1>8. ASSUME NEW c \in Calls, UpdateFails(c)
      PROVE  (OnePublisher /\ HeldIsNew /\ RowIsCurrent /\ CacheIsCurrent)'
  <2>1. \A d \in Calls : pc'[d] = "publish" => pc[d] = "publish"
    BY <1>8, <1>t DEF UpdateFails
  <2> QED BY <1>8, <1>i, <2>1 DEF UpdateFails
<1>9. ASSUME NEW c \in Calls, Publish(c)
      PROVE  (OnePublisher /\ HeldIsNew /\ RowIsCurrent /\ CacheIsCurrent)'
  <2>1. /\ held[c].secret \notin retired \cup {cred.secret}
        /\ row = held[c] \/ row = NoRow
    BY <1>9, <1>i DEF Publish
  <2>2. cred' = held[c] /\ retired' = retired \cup {cred.secret} /\ row' = row
    BY <1>9, <2>1 DEF Publish, Cache
  <2>3. \A d \in Calls : pc'[d] # "publish"
    BY <1>9, <1>t, <1>i DEF Publish
  <2> QED BY <2>1, <2>2, <2>3
<1>10. ASSUME NEW c \in Calls, Mint(c)
       PROVE  (OnePublisher /\ HeldIsNew /\ RowIsCurrent /\ CacheIsCurrent)'
  <2>1. \A d \in Calls : pc'[d] = "publish" => pc[d] = "publish"
    BY <1>10, <1>t DEF Mint
  <2> QED BY <1>10, <1>i, <2>1 DEF Mint
<1>11. CASE UNCHANGED vars
  BY <1>11, <1>i DEF vars, calls
<1> HIDE DEF OnePublisher, HeldIsNew, RowIsCurrent, CacheIsCurrent
<1> QED BY <1>1, <1>2, <1>3, <1>4, <1>5, <1>6, <1>7, <1>8, <1>9, <1>10, <1>11 DEF Next, Step

\* The inductive invariant holds of every reachable state.
THEOREM SessionsInvariant == Spec => []SessionsInv
<1>1. SessionsInv /\ [Next]_vars => SessionsInv'
  BY TypesStep, HeldIsRealStep, GeneratedStep, CacheStep, RetiredStep DEF SessionsInv
<1> QED BY <1>1, InitSessionsInv, PTL DEF Spec

\* The row, the cache and the calls keep their types, and a running process
\* has a secret to sign with (NewAdminAuth, mint).
THEOREM SessionsTypeCorrect == Spec => []SessionsTypeOK
<1>1. SessionsInv => SessionsTypeOK
  BY DEF SessionsInv
<1> QED BY <1>1, SessionsInvariant, PTL

\* However many calls run, the cache is the row or is about to become it
\* (ChangePassword), but for the faults "skewed" names.
THEOREM CacheFollowsDatabase == Spec => []CacheFollowsRow
<1>1. SessionsInv => CacheFollowsRow
  BY DEF SessionsInv
<1> QED BY <1>1, SessionsInvariant, PTL

\* However often the process restarts, the row is deleted or an answer is
\* lost, a token of a replaced secret is never accepted again (verify),
\* unless two changes overlapped.
THEOREM RevocationIsFinal == Spec => []RevokedStaysRevoked
<1>1. SessionsInv => RevokedStaysRevoked
  BY DEF SessionsInv, NoneRetired, CacheIsCurrent, RevokedStaysRevoked, Accepted
<1> QED BY <1>1, SessionsInvariant, PTL
==============================================================================
