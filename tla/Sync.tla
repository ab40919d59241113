--------------------------------- MODULE Sync ---------------------------------
(***************************************************************************)
(* The process (cmd/tocsin/main.go) and its connection to the homeserver   *)
(* (internal/matrix): how it starts, the /sync loop and the handlers it    *)
(* runs one event at a time, /health, the way to a room, and the ends: a   *)
(* fatal sync error, a failed start, a crash.                              *)
(*                                                                         *)
(* The loop itself belongs to the Matrix library, and is modelled from     *)
(* what the code says of it (bot.go:417-422, verification.go:67-68): it    *)
(* saves the token of a response before it processes the response, and     *)
(* runs the handlers itself.  events is all the account was ever sent; the *)
(* token, saved, is how many of them a response has covered.               *)
(***************************************************************************)
EXTENDS Integers, Sequences

CONSTANTS
  Rooms,           \* Matrix rooms
  NoRoom,          \* not a room
  Servers,         \* homeservers of the users who invite
  OwnServer,       \* the homeserver of the bot
  AllowedServers,  \* matrix.allowed_servers
  Bodies,          \* what people write: sequences of words in lower case
  StaleThreshold,  \* syncStaleThreshold, in ticks
  MaxEvents,       \* bound: events, those that joins bring not counted
  MaxFaults        \* bound: crashes, revoked tokens, databases restored,
                   \* identities lost, failed reads of the state store

ASSUME SyncAssumption ==
  /\ NoRoom \notin Rooms
  /\ OwnServer \in Servers /\ AllowedServers \subseteq Servers
  /\ "self" \notin Servers
  /\ StaleThreshold \in Nat /\ MaxEvents \in Nat /\ MaxFaults \in Nat

VARIABLES
  up,         \* the homeserver answers
  valid,      \* the access token is good
  member,     \* the bot's membership of each room
  encrypted,  \* the rooms that are encrypted
  events,     \* what the account was sent
  saved,      \* database: the sync token
  known,      \* database: rooms the state store calls encrypted
  identity,   \* what ensureVerified will find, see Identities
  pc,         \* run, and Start within it
  loop,       \* the sync goroutine
  next,       \* the event it processes next
  age,        \* ticks since lastSyncUnix
  syncErr,    \* a fatal error is in the channel
  recent,     \* events that are not older than startTime
  sender,     \* a send of the dispatcher, and one of the command handler
  callbacks,  \* goroutines that call the verification helper
  lock,       \* who holds its transaction lock
  runs,       \* history: how often the command of each event was run
  invited,    \* history: whose users invited the bot to each room
  faults      \* history: how many of the faults MaxFaults bounds

server == <<up, valid, member, encrypted, events>>
durable == <<saved, known, identity>>
process == <<pc, age, syncErr, recent>>
verification == <<callbacks, lock>>
history == <<runs, invited, faults>>
vars == <<server, durable, process, loop, next, sender, verification, history>>

NoSync == StaleThreshold + 2      \* lastSyncUnix is zero
Senders == {"dispatcher", "command"}

\* What becomes of the bot's identity is the module Identity's; here it matters
\* what a start makes of it.  none: no cross-signing keys and no recovery.key,
\* a bootstrap is due.  kept: the device is verified, or recovery.key verifies
\* it.  lost: there are keys and no recovery.key that unlocks them, or a
\* recovery.key without keys is in the way.
Identities == {"none", "kept", "lost"}

\* excused is history: something that entitles the send to be refused.
Idle == [pc |-> "idle", room |-> NoRoom, command |-> "", excused |-> FALSE]

Init ==
  /\ up = TRUE /\ valid = TRUE
  /\ member = [room \in Rooms |-> "out"] /\ encrypted = {} /\ events = <<>>
  /\ saved = 0 /\ known = {} /\ identity = "none"
  /\ pc = "down" /\ loop = "off" /\ next = 1 /\ age = NoSync /\ syncErr = FALSE
  /\ recent = {}
  /\ sender = [s \in Senders |-> Idle]
  /\ callbacks = 0 /\ lock = "free"
  /\ runs = <<>> /\ invited = [room \in Rooms |-> {}] /\ faults = 0

Serves == up /\ valid             \* a request of the bot is answered

------------------------------------------------------------------------------
(* The rest of the world. *)

Event(kind, room, from, enc, body) ==
  [kind |-> kind, room |-> room, from |-> from, encrypted |-> enc, body |-> body]

\* An event for the account; it is younger than a process that runs.
Emit(e) ==
  /\ events' = Append(events, e)
  /\ runs' = Append(runs, 0)
  /\ recent' = IF pc = "down" THEN recent ELSE recent \cup {Len(events) + 1}

Invite(room, from) ==
  /\ Len(events) < MaxEvents
  /\ member[room] # "joined"
  /\ member' = [member EXCEPT ![room] = "invited"]
  /\ invited' = [invited EXCEPT ![room] = @ \cup {from}]
  /\ Emit(Event("invite", room, from, FALSE, <<>>))
  /\ UNCHANGED <<up, valid, encrypted, durable, pc, age, syncErr, loop, next,
                 sender, verification, faults>>

Remove(room) ==
  /\ member[room] # "out"
  /\ member' = [member EXCEPT ![room] = "out"]
  /\ UNCHANGED <<up, valid, encrypted, events, durable, process, loop, next,
                 sender, verification, history>>

\* Encryption is switched on; it cannot be switched off.
Encrypt(room) ==
  /\ room \notin encrypted
  /\ encrypted' = encrypted \cup {room}
  /\ IF member[room] = "joined"
     THEN /\ Len(events) < MaxEvents
          /\ Emit(Event("state", room, OwnServer, TRUE, <<>>))
     ELSE UNCHANGED <<events, runs, recent>>
  /\ UNCHANGED <<up, valid, member, durable, pc, age, syncErr, loop, next,
                 sender, verification, invited, faults>>

\* A message; anybody can leave one unencrypted.
Write(room, body, enc) ==
  /\ Len(events) < MaxEvents
  /\ member[room] = "joined"
  /\ enc => room \in encrypted
  /\ Emit(Event("message", room, OwnServer, enc, body))
  /\ UNCHANGED <<up, valid, member, encrypted, durable, pc, age, syncErr, loop, next,
                 sender, verification, invited, faults>>

Verify(room) ==
  /\ Len(events) < MaxEvents
  /\ member[room] = "joined"
  /\ Emit(Event("verification", room, OwnServer, TRUE, <<>>))
  /\ UNCHANGED <<up, valid, member, encrypted, durable, pc, age, syncErr, loop, next,
                 sender, verification, invited, faults>>

Outage ==
  /\ up' = ~up
  /\ UNCHANGED <<valid, member, encrypted, events, durable, process, loop, next,
                 sender, verification, history>>

Revoke ==
  /\ faults < MaxFaults
  /\ valid /\ pc # "down"
  /\ valid' = FALSE
  /\ faults' = faults + 1
  /\ UNCHANGED <<up, member, encrypted, events, durable, process, loop, next,
                 sender, verification, runs, invited>>

\* An earlier database is put back while the process is down; the device in it
\* may not be the one the identity signed.
Restore ==
  /\ faults < MaxFaults
  /\ pc = "down"
  /\ saved' \in 0..saved /\ known' \in SUBSET known
  /\ identity' \in {identity} \cup (IF identity = "kept" THEN {"lost"} ELSE {})
  /\ faults' = faults + 1
  /\ UNCHANGED <<server, process, loop, next, sender, verification, runs, invited>>

\* recovery.key is lost and the device with it, another session replaces the
\* keys, or the homeserver is wiped.  Nothing looks until the next start has
\* come to it, so that it may as well happen then.
LoseIdentity ==
  /\ faults < MaxFaults
  /\ pc = "verifying" /\ identity = "kept"
  /\ identity' = "lost"
  /\ faults' = faults + 1
  /\ UNCHANGED <<server, saved, known, process, loop, next, sender, verification,
                 runs, invited>>

\* The operator restores recovery.key, moves it out of the way, or has the
\* identity reset.
RepairIdentity ==
  /\ pc = "down" /\ identity = "lost"
  /\ identity' \in {"none", "kept"}
  /\ UNCHANGED <<server, saved, known, process, loop, next, sender, verification, history>>

------------------------------------------------------------------------------
(* The main goroutine. *)

\* The process ends, and with it every goroutine.  A bootstrap that is cut
\* short leaves nothing behind, keys that no recovery.key fits, or a device
\* that is signed already.
Stop ==
  /\ pc' = "down" /\ loop' = "off" /\ next' = 1
  /\ age' = NoSync /\ syncErr' = FALSE /\ recent' = {}
  /\ sender' = [s \in Senders |-> Idle]
  /\ callbacks' = 0 /\ lock' = "free"
  /\ identity' \in IF pc = "verifying" /\ identity = "none" THEN Identities ELSE {identity}
  /\ UNCHANGED <<server, saved, known, runs, invited>>

\* The supervisor starts it: New, and Start up to the go statement.  Init logs
\* in; if it cannot, the process ends again and nothing has changed.
Boot ==
  /\ pc = "down" /\ up
  /\ pc' = "starting" /\ valid' = TRUE
  /\ loop' = "poll" /\ next' = saved + 1
  /\ UNCHANGED <<up, member, encrypted, events, durable, age, syncErr, recent,
                 sender, verification, history>>

FirstSync ==
  /\ pc = "starting" /\ age # NoSync
  /\ pc' = "verifying"
  /\ UNCHANGED <<server, durable, age, syncErr, recent, loop, next, sender,
                 verification, history>>

\* The loop has ended, or 30 seconds passed without an answer.
FirstSyncFails ==
  /\ pc = "starting" /\ (syncErr \/ ~up)
  /\ Stop
  /\ UNCHANGED faults

\* ensureVerified, with a bootstrap if one is due; what follows is best effort
\* or local: the sessions, the aliases, the credential, the dispatcher, the
\* HTTP server.
Ready ==
  /\ pc = "verifying" /\ Serves /\ identity # "lost"
  /\ pc' = "serving"
  /\ identity' = "kept"
  /\ UNCHANGED <<server, saved, known, age, syncErr, recent, loop, next, sender,
                 verification, history>>

\* ensureVerified cannot ask the homeserver, or it finds an identity that it
\* can neither use nor may replace, as the next start will again.
NotVerified ==
  /\ pc = "verifying" /\ (~Serves \/ identity = "lost")
  /\ Stop
  /\ UNCHANGED faults

\* Which of the channels run waits for has something for it.
M_Doomed_httpOnly == FALSE
Doomed == syncErr

SyncDied ==
  /\ pc = "serving" /\ Doomed
  /\ Stop
  /\ UNCHANGED faults

\* A signal, a crash, a deployment, or a local step of run that fails.
Crash ==
  /\ pc # "down" /\ faults < MaxFaults
  /\ Stop
  /\ faults' = faults + 1

Main == Boot \/ FirstSync \/ FirstSyncFails \/ Ready \/ NotVerified \/ SyncDied

------------------------------------------------------------------------------
(* The sync goroutine. *)

\* What a token says: how much of events a response covers.
M_NextToken_after == Len(events) + 1
NextToken == Len(events)

\* A response: its token is saved, then OnSync runs, which ends the wait of
\* Start, then the events are processed.
SyncResponse ==
  /\ loop = "poll" /\ Serves
  /\ saved' = NextToken
  /\ age' = 0
  /\ loop' = "process"
  /\ UNCHANGED <<server, known, identity, pc, syncErr, recent, next, sender, verification, history>>

\* A fatal error: SyncWithContext returns.  Others are retried.
SyncEnds ==
  /\ loop = "poll" /\ up /\ ~valid
  /\ loop' = "off" /\ syncErr' = TRUE
  /\ UNCHANGED <<server, durable, pc, age, recent, next, sender, verification, history>>

Processed ==
  /\ loop = "process" /\ next > saved
  /\ loop' = "poll"
  /\ UNCHANGED <<server, durable, process, next, sender, verification, history>>

Handles(kind) == loop = "process" /\ next <= saved /\ events[next].kind = kind

\* The library stores the room state.
StoreState ==
  /\ Handles("state")
  /\ known' = IF events[next].encrypted THEN known \cup {events[next].room} ELSE known
  /\ next' = next + 1
  /\ UNCHANGED <<server, saved, identity, process, loop, sender, verification, history>>

M_InviterAllowed_anyone(from) == AllowedServers = {} \/ from \in AllowedServers
InviterAllowed(from) ==
  IF AllowedServers = {} THEN from = OwnServer ELSE from \in AllowedServers

\* JoinRoomByID, if the bot is invited; the room state comes with the next response.
JoinRoom(room) ==
  IF Serves /\ member[room] = "invited"
  THEN /\ member' = [member EXCEPT ![room] = "joined"]
       /\ Emit(Event("state", room, OwnServer, room \in encrypted, <<>>))
  ELSE UNCHANGED <<member, events, runs, recent>>

\* A failed request of handleMember is only logged.
LeaveRoom(room) ==
  /\ member' = IF Serves THEN [member EXCEPT ![room] = "out"] ELSE member
  /\ UNCHANGED <<events, runs, recent>>

HandleMember ==
  /\ Handles("invite")
  /\ IF InviterAllowed(events[next].from)
     THEN JoinRoom(events[next].room)
     ELSE LeaveRoom(events[next].room)
  /\ next' = next + 1
  /\ UNCHANGED <<up, valid, encrypted, durable, pc, age, syncErr, loop, sender,
                 verification, invited, faults>>

\* The command in a message, "" if it is not for the bot.  A message that is
\* not of the type m.text counts as one without words.
ParseCommand(body) ==
  IF body = <<>> \/ Head(body) # "!notify" THEN ""
  ELSE IF Len(body) = 1 THEN "help" ELSE body[2]

M_Heeded_old(i) ==
  /\ events[i].from # "self"
  /\ events[i].encrypted
  /\ ParseCommand(events[i].body) # ""
Heeded(i) ==
  /\ events[i].from # "self"
  /\ i \in recent
  /\ events[i].encrypted
  /\ ParseCommand(events[i].body) # ""

\* A send begins: the bot's room may not be ready for it.
Begin(s, room, command) ==
  sender' = [sender EXCEPT ![s] =
    [pc |-> "check", room |-> room, command |-> command,
     excused |-> member[room] # "joined" \/ room \notin encrypted]]

\* The handler runs the command and answers in the room, or, to test, sends
\* what it was asked for; the loop waits for it.
HandleMessage ==
  /\ Handles("message")
  /\ IF Heeded(next)
     THEN /\ Begin("command", events[next].room, ParseCommand(events[next].body))
          /\ runs' = [runs EXCEPT ![next] = @ + 1]
          /\ loop' = "reply"
     ELSE UNCHANGED <<sender, runs, loop>>
  /\ next' = next + 1
  /\ UNCHANGED <<server, durable, process, verification, invited, faults>>

Replied ==
  /\ loop = "reply" /\ sender["command"].pc = "idle"
  /\ loop' = "process"
  /\ UNCHANGED <<server, durable, process, next, sender, verification, history>>

\* The helper holds its lock while it calls back; the callback starts a
\* goroutine for what it has to call itself.
HandleVerification ==
  /\ Handles("verification")
  /\ lock = "free"
  /\ lock' = "sync"
  /\ callbacks' = callbacks + 1
  /\ loop' = "callback"
  /\ next' = next + 1
  /\ UNCHANGED <<server, durable, process, sender, history>>

\* What VerificationRequested and ShowSAS wait for before they return.
CallbackDone == TRUE

CallbackReturns ==
  /\ loop = "callback" /\ CallbackDone
  /\ lock' = "free"
  /\ loop' = "process"
  /\ UNCHANGED <<server, durable, process, next, sender, callbacks, history>>

Loop ==
  \/ SyncResponse \/ SyncEnds \/ Processed
  \/ StoreState \/ HandleMember \/ HandleMessage \/ Replied
  \/ HandleVerification \/ CallbackReturns

\* AcceptVerification and ConfirmSAS, in their goroutines.
CallHelper ==
  /\ callbacks > 0 /\ lock = "free"
  /\ lock' = "call"
  /\ UNCHANGED <<server, durable, process, loop, next, sender, callbacks, history>>

HelperReturns ==
  /\ lock = "call"
  /\ lock' = "free"
  /\ callbacks' = callbacks - 1
  /\ UNCHANGED <<server, durable, process, loop, next, sender, history>>

Tick ==
  /\ age <= StaleThreshold
  /\ age' = age + 1
  /\ UNCHANGED <<server, durable, pc, syncErr, recent, loop, next, sender,
                 verification, history>>

\* What /health answers.
Healthy == pc = "serving" /\ age <= StaleThreshold

------------------------------------------------------------------------------
(* Sending to a room. *)

Deliver(room) ==
  /\ pc = "serving" /\ sender["dispatcher"] = Idle
  /\ Begin("dispatcher", room, "")
  /\ UNCHANGED <<server, durable, process, loop, next, verification, history>>

Goto(s, label) == sender' = [sender EXCEPT ![s].pc = label]

\* roomEncrypted asks the state store first.
M_Unknown_refuses == "refused"
Unknown == "refetch"

CheckRoom(s) ==
  /\ sender[s].pc = "check"
  /\ Goto(s, IF sender[s].room \in known THEN "send" ELSE Unknown)
  /\ UNCHANGED <<server, durable, process, loop, next, verification, history>>

\* The store cannot be read, the first time or the second.
StoreFails(s) ==
  /\ sender[s].pc \in {"check", "recheck"}
  /\ faults < MaxFaults
  /\ sender' = [sender EXCEPT ![s].pc = "refused", ![s].excused = TRUE]
  /\ faults' = faults + 1
  /\ UNCHANGED <<server, durable, process, loop, next, verification, runs, invited>>

\* It fetches the state of the room, which the library stores.
RefetchState(s) ==
  /\ sender[s].pc = "refetch"
  /\ Serves /\ member[sender[s].room] = "joined"
  /\ known' = known \cup ({sender[s].room} \cap encrypted)
  /\ Goto(s, "recheck")
  /\ UNCHANGED <<server, saved, identity, process, loop, next, verification, history>>

M_AfterRefetchError_sends == "send"
AfterRefetchError == "refused"

RefetchFails(s) ==
  /\ sender[s].pc = "refetch"
  /\ ~(Serves /\ member[sender[s].room] = "joined")
  /\ sender' = [sender EXCEPT ![s].pc = AfterRefetchError, ![s].excused = TRUE]
  /\ UNCHANGED <<server, durable, process, loop, next, verification, history>>

\* And asks the store again.
RecheckRoom(s) ==
  /\ sender[s].pc = "recheck"
  /\ Goto(s, IF sender[s].room \in known THEN "send" ELSE "refused")
  /\ UNCHANGED <<server, durable, process, loop, next, verification, history>>

\* The message arrives, and comes back as an event of the bot's own; what it
\* says may read like a command.
Transmit(s) ==
  /\ sender[s].pc = "send"
  /\ Serves /\ member[sender[s].room] = "joined"
  /\ sender' = [sender EXCEPT ![s] = Idle]
  /\ \/ /\ Len(events) < MaxEvents
        /\ \E body \in Bodies : Emit(Event("message", sender[s].room, "self", TRUE, body))
     \/ /\ Len(events) >= MaxEvents
        /\ UNCHANGED <<events, runs, recent>>
  /\ UNCHANGED <<up, valid, member, encrypted, durable, pc, age, syncErr, loop, next,
                 verification, invited, faults>>

\* It is refused, or does not arrive after sendMaxAttempts.  A test answers that
\* it failed; anything else ends there.
GiveUp(s) ==
  /\ sender[s].pc \in {"refused", "send"}
  /\ IF sender[s].command = "test"
     THEN Begin(s, sender[s].room, "answer")
     ELSE sender' = [sender EXCEPT ![s] = Idle]
  /\ UNCHANGED <<server, durable, process, loop, next, verification, history>>

Sending(s) ==
  \/ CheckRoom(s) \/ StoreFails(s)
  \/ RefetchState(s) \/ RefetchFails(s) \/ RecheckRoom(s)
  \/ Transmit(s) \/ GiveUp(s)

------------------------------------------------------------------------------
World ==
  \/ \E room \in Rooms :
       \/ \E from \in Servers : Invite(room, from)
       \/ Remove(room) \/ Encrypt(room) \/ Verify(room) \/ Deliver(room)
       \/ \E body \in Bodies, enc \in BOOLEAN : Write(room, body, enc)
  \/ Outage \/ Revoke \/ Restore \/ LoseIdentity \/ RepairIdentity \/ Crash

Next ==
  \/ World \/ Main \/ Loop \/ CallHelper \/ HelperReturns \/ Tick
  \/ \E s \in Senders : Sending(s)

\* Each goroutine runs on, and the supervisor restarts the process.
Fairness ==
  /\ WF_vars(Main) /\ WF_vars(Loop) /\ WF_vars(Tick)
  /\ WF_vars(CallHelper \/ HelperReturns)
  /\ \A s \in Senders : WF_vars(Sending(s))

Spec == Init /\ [][Next]_vars /\ Fairness
================================================================================
