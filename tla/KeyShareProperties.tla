-------------------------- MODULE KeyShareProperties --------------------------
(***************************************************************************)
(* What should be true of the messages the bot posts and the sessions they *)
(* are encrypted with.                                                     *)
(***************************************************************************)
EXTENDS KeyShare

SessionType == [id : 0..MaxSessions, reached : SUBSET Devices]

TaskType ==
  [pc : {"idle", "read", "reread", "discard", "encrypt", "share", "reencrypt", "sent"},
   roster : SUBSET Users, todo : SUBSET Users, seen : SUBSET Devices, used : SessionType,
   targets : SUBSET Devices, born : 0..MaxSessions, steady : SUBSET Devices]

\* The types of the store, the session and the sends; the session the room
\* has is the newest.
KeyShareTypeOK ==
  /\ live \subseteq Devices /\ logins \in 0..MaxLogins
  /\ members \subseteq Users /\ tracked \subseteq Users
  /\ known \in [Users -> SUBSET Devices]
  /\ outbound \in SessionType /\ outbound.id \in {0, minted}
  /\ minted \in 1..MaxSessions /\ since \in 0..MaxSessions
  /\ rotating \in BOOLEAN
  /\ task \in [Senders -> TaskType]

\* A message is encrypted with a session that reached a device its send knew
\* of, or with one created while the send was under way: an unreadable
\* session, however it came about, is never reused by a send that begins
\* after it (dropUnsharedSession, devicekeys.go:89-98).
ReadableOrFresh ==
  \A s \in Senders : At(s, {"sent"}) =>
    task[s].used.id > task[s].born \/ task[s].used.reached \cap Reach(s) # {}

\* A session is shared with at least one device of every member it was
\* checked for who had one all along, also of one the crypto store had
\* forgotten or had an empty list of (ensureRecipientKeys, devicekeys.go:32-34).
NobodyOverlooked ==
  \A s \in Senders : At(s, {"reencrypt"}) =>
    \A u \in task[s].roster : task[s].steady \cap DevicesOf[u] # {}
                                => task[s].targets \cap DevicesOf[u] # {}

\* Once Start has rotated the sessions, no message is encrypted with one of
\* an earlier run, whatever a reply sent during the start did (bot.go:169-178).
SessionsOfThisRun ==
  ~rotating => \A s \in Senders \ Commands : At(s, {"sent"}) => task[s].used.id > since
===============================================================================
