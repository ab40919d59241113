---------------------------- MODULE SyncProperties ----------------------------
(***************************************************************************)
(* What should be true of the process and its connection to Matrix.        *)
(***************************************************************************)
EXTENDS Sync

Kinds == {"invite", "state", "message", "verification"}
EventType == [kind : Kinds, room : Rooms, from : Servers \cup {"self"},
              encrypted : BOOLEAN, body : Bodies \cup {<<>>}]
Commands ==
  {"", "help", "answer"} \cup {body[2] : body \in {b \in Bodies : b # <<>> /\ Len(b) # 1}}
SenderType == [pc : {"idle", "check", "refetch", "recheck", "send", "refused"},
               room : Rooms \cup {NoRoom}, command : Commands, excused : BOOLEAN]

\* The types of the variables; the token never points beyond what was sent.
SyncTypeOK ==
  /\ up \in BOOLEAN /\ valid \in BOOLEAN
  /\ member \in [Rooms -> {"out", "invited", "joined"}]
  /\ encrypted \subseteq Rooms
  /\ events \in Seq(EventType)
  /\ saved \in 0..Len(events) /\ known \subseteq Rooms /\ identity \in Identities
  /\ pc \in {"down", "starting", "verifying", "serving"}
  /\ loop \in {"off", "poll", "process", "reply", "callback"}
  /\ next \in 1..saved + 1
  /\ age \in 0..NoSync /\ syncErr \in BOOLEAN
  /\ recent \subseteq 1..Len(events)
  /\ sender \in [Senders -> SenderType]
  /\ callbacks \in Nat /\ lock \in {"free", "sync", "call"}
  /\ runs \in [1..Len(events) -> Nat]
  /\ invited \in [Rooms -> SUBSET Servers]
  /\ faults \in 0..MaxFaults

\* A message goes out only to an encrypted room (README:136-137 "refuses to
\* send to a room that is not encrypted"), though the state store lags behind
\* the room, loses events to crashes and is restored to what it was
\* (roomEncrypted).
NeverInTheClear ==
  \A s \in Senders : sender[s].pc = "send" => sender[s].room \in encrypted

\* A room that was joined and encrypted when the send began is refused only if
\* the homeserver, or the database, would not answer: a run that died between saving the token
\* and processing the response does not "poison the store forever"
\* (bot.go:417-422).
RefusedForCause ==
  \A s \in Senders : sender[s].pc = "refused" => sender[s].excused

\* A command is run at most once, however often its event is delivered: the
\* token may fall behind with a restored database, but then the process is
\* younger than the event (handleMessage, startTime).  What the bot wrote
\* itself, or what came unencrypted, is never run.
CommandsRunOnce ==
  \A i \in DOMAIN runs :
    /\ runs[i] <= 1
    /\ runs[i] > 0 => events[i].from # "self" /\ events[i].encrypted

Trusted == IF AllowedServers = {} THEN {OwnServer} ELSE AllowedServers

\* The bot is only in rooms that somebody on an allowed homeserver invited it
\* to, whatever stale invites the loop works through (README:255-257).
JoinsTrustedRooms ==
  \A room \in Rooms : member[room] = "joined" => invited[room] \cap Trusted # {}

\* /health tells: if the homeserver stays up and the identity usable, it is
\* green again and again, whatever crashed, expired or deadlocked before ("the
\* process exits loudly; restarting it self-heals", README:138), a lost
\* identity that was repaired included; if the homeserver stays away, it does
\* not stay green (bot.go:781-797).
HealthFollowsSync ==
  /\ <>[](up /\ identity # "lost") => []<>Healthy
  /\ <>[]~up => <>[]~Healthy
==============================================================================
