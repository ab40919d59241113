----------------------- MODULE AdminSessionsProperties -----------------------
(***************************************************************************)
(* What should be true of the admin credential and its sessions.           *)
(***************************************************************************)
EXTENDS AdminSessions

CredentialType == [password : Passwords, secret : 1..MaxSecrets]

\* The types of the row, the cache and the calls; a cached credential has a
\* secret to sign with.
SessionsTypeOK ==
  /\ row \in CredentialType \cup {NoRow}
  /\ cred \in CredentialType \cup {NoRow}
  /\ up => cred \in CredentialType
  /\ up \in BOOLEAN /\ overlapped \in BOOLEAN /\ skewed \in BOOLEAN
  /\ pc \in [Calls -> {"idle", "mint", "update", "publish"}]
  /\ next \in [Calls -> Passwords]
  /\ held \in [Calls -> CredentialType \cup {NoRow}]
  /\ tokens \subseteq 0..MaxSecrets /\ retired \subseteq 0..MaxSecrets
  /\ minted \in 0..MaxSecrets

\* The cached credential is the stored one, or the change that made them
\* differ is about to publish it, as long as no two changes overlapped, no
\* commit's answer was lost and the row was not deleted ("password changes go
\* through ChangePassword which refreshes the cache", auth.go:35-38).
CacheFollowsRow ==
  up /\ ~skewed => cred = row \/ \E c \in Calls : pc[c] = "publish" /\ held[c] = row

\* A session a password change logged out stays logged out, across restarts,
\* lost answers and reseeding, unless changes overlapped ("killing every
\* outstanding session", auth.go:82-84).
RevokedStaysRevoked ==
  ~overlapped => \A secret \in tokens \cap retired : ~Accepted(secret)
==============================================================================
