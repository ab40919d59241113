------------------------------ MODULE KeyShare ------------------------------
(***************************************************************************)
(* Who can read what the bot posts into one room: the megolm session that  *)
(* encrypts it, the devices its key was shared with, and the check that    *)
(* keyBootstrapCrypto (internal/matrix/devicekeys.go) puts before every    *)
(* encryption, run by several sends at once against a crypto store that    *)
(* /sync, a restart and "tocsin unwedge" change under them.                *)
(*                                                                         *)
(* mautrix is external: Encrypt uses the stored session, or shares a new   *)
(* one under its own lock and then encrypts; it marks a session shared     *)
(* even when no device could be reached.  A device is reached when the     *)
(* crypto store says so (crypto_megolm_outbound_session_shared).           *)
(***************************************************************************)
EXTENDS Integers

CONSTANTS
  Users,        \* accounts that can be members of the room, the bot's among them
  Devices,      \* their devices
  DevicesOf,    \* the devices of each user
  Own,          \* the bot's sending device
  Senders,      \* sends into the room that run at the same time
  Commands,     \* those that are replies to "!notify" commands
  MaxSessions,  \* bound: megolm sessions of the room
  MaxLogins     \* bound: devices logged in

ASSUME KeyShareAssumption ==
  /\ DevicesOf \in [Users -> SUBSET Devices]
  /\ \A u, v \in Users : u # v => DevicesOf[u] \cap DevicesOf[v] = {}
  /\ Own \in Devices
  /\ MaxSessions \in Nat \ {0} /\ MaxLogins \in Nat

VARIABLES
  live,        \* devices logged in at the homeserver
  logins,      \* logins so far
  members,     \* the room's members in the state store
  tracked,     \* users the crypto store has ever heard of
  known,       \* its device list of each user
  outbound,    \* the room's usable session, with the devices it was shared with
  minted,      \* sessions created so far
  rotating,    \* Start has not rotated the sessions yet
  since,       \* history: sessions created when this run rotated them
  task         \* the local variables of each send

store == <<members, tracked, known>>
session == <<outbound, minted>>
vars == <<live, logins, store, session, rotating, since, task>>

\* No session, or an expired one: no code path tells them apart.
NoSession == [id |-> 0, reached |-> {}]
Stored == outbound # NoSession

\* pc, then: the member list, the members whose devices are not read yet, the
\* devices read, the session of the message; and, as history, the device
\* lists shared with, the sessions created before the send began and the
\* devices logged in ever since.
Idle == [pc |-> "idle", roster |-> {}, todo |-> {}, seen |-> {}, used |-> NoSession,
         targets |-> {}, born |-> 0, steady |-> {}]

\* An earlier run may leave a session behind that reached nobody, from before
\* sends were checked.
Init ==
  /\ live = {Own} /\ logins = 0
  /\ members = {} /\ tracked = {} /\ known = [u \in Users |-> {}]
  /\ minted = 1 /\ outbound = [id |-> 1, reached |-> {}]
  /\ rotating = TRUE /\ since = 0
  /\ task = [s \in Senders |-> Idle]

At(s, positions) == task[s].pc \in positions
Goto(s, position) == task' = [task EXCEPT ![s].pc = position]
Return(s) == task' = [task EXCEPT ![s] = Idle]

-----------------------------------------------------------------------------
\* The check: ensureRecipientKeys

\* SendMessageEvent calls Encrypt.  (No member in the state store: an error.)
\* Until Start has rotated the sessions only command replies are sent.
Begin(s) ==
  /\ At(s, {"idle"})
  /\ rotating => s \in Commands
  /\ members # {}
  /\ task' = [task EXCEPT ![s] = [Idle EXCEPT !.pc = "read", !.roster = members, !.todo = members,
                                              !.born = minted, !.steady = live]]
  /\ UNCHANGED <<live, logins, store, session, rotating, since>>

\* knownDevices reads one member's device list.
ReadDevices(s, u) ==
  /\ At(s, {"read", "reread"}) /\ u \in task[s].todo
  /\ task' = [task EXCEPT ![s].seen = @ \cup known[u], ![s].todo = @ \ {u}]
  /\ UNCHANGED <<live, logins, store, session, rotating, since>>

\* usersNeedingKeys: untracked, or tracked with an empty list.
M_Missing_untracked(s) == task[s].roster \ tracked
Missing(s) == {u \in task[s].roster : task[s].seen \cap DevicesOf[u] = {}}

\* Changed device lists may make mautrix invalidate the room's session.
MayInvalidate == outbound' \in {outbound, NoSession} /\ UNCHANGED minted

\* /keys/query for the users in us; the store takes the answer.
FetchKeys(us) ==
  /\ known' = [u \in Users |-> IF u \in us THEN live \cap DevicesOf[u] ELSE known[u]]
  /\ tracked' = tracked \cup us

Query(s) ==
  /\ At(s, {"read"}) /\ task[s].todo = {}
  /\ Missing(s) # {}
  /\ FetchKeys(Missing(s))
  /\ MayInvalidate
  /\ task' = [task EXCEPT ![s].pc = "reread", ![s].todo = task[s].roster, ![s].seen = {}]
  /\ UNCHANGED <<live, logins, members, rotating, since>>

\* The device lists are read and, if need be, were queried.
Resolved(s) ==
  /\ At(s, {"read", "reread"}) /\ task[s].todo = {}
  /\ At(s, {"read"}) => Missing(s) = {}

\* checkRecipients: every device but the sending one.
Reach(s) == task[s].seen \ {Own}

Refuse(s) ==
  /\ Resolved(s) /\ Reach(s) = {}
  /\ Return(s)
  /\ UNCHANGED <<live, logins, store, session, rotating, since>>

\* dropUnsharedSession reads the stored session and whom it reached.  (The
\* rows of a stored session are complete and stay, so this is one step.)
M_Poisoned_never(s) == FALSE
Poisoned(s) == Stored /\ outbound.reached \cap Reach(s) = {}

Inspect(s) ==
  /\ Resolved(s) /\ Reach(s) # {}
  /\ Goto(s, IF Poisoned(s) THEN "discard" ELSE "encrypt")
  /\ UNCHANGED <<live, logins, store, session, rotating, since>>

\* RemoveOutboundGroupSession removes the session the room has by now.
Discard(s) ==
  /\ At(s, {"discard"})
  /\ outbound' = NoSession
  /\ Goto(s, "encrypt")
  /\ UNCHANGED <<live, logins, store, minted, rotating, since>>

-----------------------------------------------------------------------------
\* The encryption: CryptoHelper.Encrypt

\* With the stored session.
Encrypt(s) ==
  /\ At(s, {"encrypt", "reencrypt"}) /\ Stored
  /\ task' = [task EXCEPT ![s].pc = "sent", ![s].used = outbound, ![s].targets = {}]
  /\ UNCHANGED <<live, logins, store, session, rotating, since>>

\* Without one it has to be shared first.
NoGroupSession(s) ==
  /\ At(s, {"encrypt"}) /\ ~Stored
  /\ Goto(s, "share")
  /\ UNCHANGED <<live, logins, store, session, rotating, since>>

M_NewSession_reusesId(R) == [id |-> minted, reached |-> R]
NewSession(R) == [id |-> minted + 1, reached |-> R]

\* ShareGroupSession: the key of a new session goes to the devices of the
\* members, fetched for untracked ones only; any of them may be out of reach.
Share(s) ==
  /\ At(s, {"share"})
  /\ ~Stored /\ minted < MaxSessions
  /\ FetchKeys(members \ tracked)
  /\ LET lists == UNION {known'[u] : u \in members} IN
       /\ \E R \in SUBSET (lists \ {Own}) : outbound' = NewSession(R)
       /\ task' = [task EXCEPT ![s].pc = "reencrypt", ![s].targets = lists]
  /\ minted' = minted + 1
  /\ UNCHANGED <<live, logins, members, rotating, since>>

\* The message is posted or lost on the way; or a query or a statement fails,
\* another send has shared a session meanwhile (an error of Share), the one
\* just shared is gone again.  retrySend or the outbox begins anew.
End(s) ==
  /\ ~At(s, {"idle"})
  /\ Return(s)
  /\ UNCHANGED <<live, logins, store, session, rotating, since>>

-----------------------------------------------------------------------------
\* Around it

Login(d) ==
  /\ d \notin live /\ logins < MaxLogins
  /\ live' = live \cup {d} /\ logins' = logins + 1
  /\ UNCHANGED <<store, session, rotating, since, task>>

Logout(d) ==
  /\ d \in live \ {Own}
  /\ live' = live \ {d}
  /\ task' = [s \in Senders |-> [task[s] EXCEPT !.steady = @ \ {d}]]
  /\ UNCHANGED <<logins, store, session, rotating, since>>

\* /sync brings the device list of a tracked user up to date, at its leisure.
SyncDevices(u) ==
  /\ u \in tracked
  /\ known[u] # live \cap DevicesOf[u]
  /\ known' = [known EXCEPT ![u] = live \cap DevicesOf[u]]
  /\ MayInvalidate
  /\ UNCHANGED <<live, logins, members, tracked, rotating, since, task>>

SyncMember(u) ==
  /\ u \notin members
  /\ members' = members \cup {u}
  /\ UNCHANGED <<live, logins, tracked, known, session, rotating, since, task>>

\* The session expires, or "tocsin unwedge" deletes it next to the running bot.
LoseSession ==
  /\ outbound' = NoSession
  /\ UNCHANGED <<live, logins, store, minted, rotating, since, task>>

Restart ==
  /\ rotating' = TRUE /\ since' = 0
  /\ task' = [s \in Senders |-> Idle]
  /\ UNCHANGED <<live, logins, store, session>>

\* Start, once synced and verified, unwedges every room.  If that fails it
\* says so and goes on.
M_Rotate_keeps ==
  /\ rotating /\ rotating' = FALSE
  /\ since' = minted
  /\ UNCHANGED <<live, logins, store, session, task>>
Rotate ==
  /\ rotating
  /\ rotating' = FALSE
  /\ \/ outbound' = NoSession /\ since' = minted
     \/ outbound' = outbound /\ since' = 0
  /\ UNCHANGED <<live, logins, store, minted, task>>

Send(s) ==
  \/ Begin(s) \/ Query(s) \/ Refuse(s) \/ Inspect(s) \/ Discard(s)
  \/ Encrypt(s) \/ NoGroupSession(s) \/ Share(s) \/ End(s)
  \/ \E u \in Users : ReadDevices(s, u)

Environment ==
  \/ \E d \in Devices : Login(d) \/ Logout(d)
  \/ \E u \in Users : SyncDevices(u) \/ SyncMember(u)
  \/ LoseSession

Next == Environment \/ Restart \/ Rotate \/ \E s \in Senders : Send(s)

Spec == Init /\ [][Next]_vars
=============================================================================
