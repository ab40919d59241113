------------------------------- MODULE Routing -------------------------------
(***************************************************************************)
(* Where a notification goes: the channels and ingest tokens of            *)
(* internal/store/store.go, the admin API that changes them, and the       *)
(* ingest handlers of internal/server/server.go that resolve a presented   *)
(* token to a room while it does.                                          *)
(*                                                                         *)
(* A transaction of the store is one step: SQLite has one writer, and on   *)
(* Postgres the foreign key makes one of two that conflict fail.  What     *)
(* runs outside a transaction is one step per statement: ResolveToken      *)
(* reads a token and then, for Preload, its channel; CreateToken reads a   *)
(* channel and then inserts a token.                                       *)
(***************************************************************************)
EXTENDS Integers

CONSTANTS
  Rooms,        \* Matrix rooms
  NoRoom,       \* the RoomID of a Channel that Preload did not find
  Names,        \* names of channels
  TokenNames,   \* names of tokens
  Endpoints,    \* the endpoints a token can be restricted to
  Kinds,        \* the kinds of tokens in use
  Requests,     \* ingest requests handled at the same time
  Creations,    \* CreateToken calls handled at the same time
  MaxChannels,  \* bound: channels ever created
  MaxTokens,    \* bound: tokens ever created
  MaxTime       \* bound: time, in ticks

ASSUME RoutingAssumption ==
  /\ NoRoom \notin Rooms
  /\ "any" \notin Endpoints /\ Kinds \subseteq Endpoints \cup {"any"}
  /\ MaxChannels \in Nat /\ MaxTokens \in Nat /\ MaxTime \in Nat

VARIABLES
  channels,     \* the channels table
  lastChannel,  \* its autoincrement
  tokens,       \* the ingest_tokens table; an id stands for the secret as well
  lastToken,    \* its autoincrement
  now,          \* time
  leaving,      \* rooms whose channels LeaveRoom has deleted and not left yet
  left,         \* rooms LeaveRoom took the bot out of
  emptied,      \* history: lastChannel at the LeaveRoom that is under way or done
  removed,      \* history: ids of channels that were deleted
  creation,     \* the channel each CreateToken call has read
  request       \* the local variables of each handler

tables == <<channels, lastChannel, tokens, lastToken>>
departures == <<leaving, left, emptied, removed>>
vars == <<tables, now, departures, creation, request>>

Never == MaxTime          \* an ExpiresAt the clock does not pass: that of a token without one
NoChannel == [id |-> 0, name |-> "", room |-> NoRoom]
NoToken == [id |-> 0, name |-> "", kind |-> "any",
            channel |-> 0, expires |-> Never]

\* token and room are what the handler works with; grant is history: the
\* room its token entitled it to when it was looked up, if any.
NoRequest == [pc |-> "idle", token |-> NoToken, endpoint |-> "any", room |-> NoRoom, grant |-> {}]

Init ==
  /\ channels = {} /\ lastChannel = 0
  /\ tokens = {} /\ lastToken = 0
  /\ now = 0
  /\ leaving = {} /\ left = {} /\ emptied = [room \in Rooms |-> 0]
  /\ removed = {}
  /\ creation = [c \in Creations |-> NoChannel]
  /\ request = [r \in Requests |-> NoRequest]

------------------------------------------------------------------------------
(* Channels. *)

Named(name) == {ch \in channels : ch.name = name}
ChannelOf(id) == {ch \in channels : ch.id = id}
InUse(ch) == \E t \in tokens : t.channel = ch.id

\* CreateChannel; the name is unique.  The id is not used for another channel.
M_NewChannel_reusesId(name, room) ==
  LET id == CHOOSE n \in 1..MaxChannels : ChannelOf(n) = {} /\ \A m \in 1..(n - 1) : ChannelOf(m) # {}
  IN  [id |-> id, name |-> name, room |-> room]
M_NewChannel_same(name, room) == [id |-> lastChannel, name |-> name, room |-> room]
NewChannel(name, room) == [id |-> lastChannel + 1, name |-> name, room |-> room]

CreateChannel(name, room) ==
  /\ Named(name) = {}
  /\ lastChannel < MaxChannels
  /\ channels' = channels \cup {NewChannel(name, room)}
  /\ lastChannel' = lastChannel + 1
  /\ UNCHANGED <<tokens, lastToken, now, departures, creation, request>>

\* DeleteChannel, refused while the channel has tokens.
DeleteChannel(ch) ==
  /\ ch \in channels
  /\ ~InUse(ch)
  /\ channels' = channels \ {ch}
  /\ removed' = removed \cup {ch.id}
  /\ UNCHANGED <<lastChannel, tokens, lastToken, now, leaving, left, emptied, creation, request>>

\* LeaveRoom begins with DeleteChannelsForRoom: the channels bound to the
\* room and their tokens.  (If that fails, the call ends.)
M_BoundTo_unused(room) == {ch \in channels : ch.room = room /\ ~InUse(ch)}
BoundTo(room) == {ch \in channels : ch.room = room}

DeleteChannelsForRoom(room) ==
  /\ leaving = {}             \* bound: one LeaveRoom at a time
  /\ channels' = channels \ BoundTo(room)
  /\ tokens' = {t \in tokens : \A ch \in BoundTo(room) : ch.id # t.channel}
  /\ leaving' = leaving \cup {room}
  /\ emptied' = [emptied EXCEPT ![room] = lastChannel]
  /\ removed' = removed \cup {ch.id : ch \in BoundTo(room)}
  /\ UNCHANGED <<lastChannel, lastToken, now, left, creation, request>>

\* Then the bot leaves, or the homeserver refuses and the call fails.
LeaveRoom(room) ==
  /\ room \in leaving
  /\ leaving' = leaving \ {room}
  /\ left' \in {left, left \cup {room}}
  /\ emptied' = IF room \in left' THEN emptied ELSE [emptied EXCEPT ![room] = 0]
  /\ UNCHANGED <<tables, now, removed, creation, request>>

\* The bot accepts an invite.
JoinRoom(room) ==
  /\ room \in left
  /\ left' = left \ {room}
  /\ emptied' = IF room \in leaving THEN emptied ELSE [emptied EXCEPT ![room] = 0]
  /\ UNCHANGED <<tables, now, leaving, removed, creation, request>>

------------------------------------------------------------------------------
(* Tokens. *)

\* CreateToken reads the channel it is asked for.
CreateToken(c, ch) ==
  /\ creation[c] = NoChannel
  /\ ch \in channels
  /\ creation' = [creation EXCEPT ![c] = ch]
  /\ UNCHANGED <<tables, now, departures, request>>

\* The token carries the Channel that was read, and gorm's Create saves it
\* first: a channel deleted meanwhile is inserted again, with its id, unless
\* its name was given away (ON CONFLICT DO NOTHING).
Restored(ch) == IF ChannelOf(ch.id) = {} /\ Named(ch.name) = {} THEN {ch} ELSE {}

\* The foreign key of IngestToken.Channel.
M_Referable_always(table, id) == TRUE
Referable(table, id) == \E ch \in table : ch.id = id

\* Then it inserts the token, in the same transaction; its name is unique.
InsertToken(c, name, kind, expires) ==
  LET ch == creation[c]
  IN  /\ ch # NoChannel
      /\ channels' = channels \cup Restored(ch)
      /\ Referable(channels', ch.id)
      /\ \A t \in tokens : t.name # name
      /\ lastToken < MaxTokens
      /\ tokens' = tokens \cup {[id |-> lastToken + 1, name |-> name, kind |-> kind,
                                 channel |-> ch.id, expires |-> expires]}
      /\ lastToken' = lastToken + 1
      /\ creation' = [creation EXCEPT ![c] = NoChannel]
      /\ UNCHANGED <<lastChannel, now, departures, request>>

\* Or fails and changes nothing: the name is taken, the channel gone and its
\* name reused, the database down.
CreateTokenFails(c) ==
  /\ creation[c] # NoChannel
  /\ creation' = [creation EXCEPT ![c] = NoChannel]
  /\ UNCHANGED <<tables, now, departures, request>>

\* UpdateToken: another channel and another expiry, or the same.
UpdateToken(t, ch, expires) ==
  /\ t \in tokens /\ ch \in channels
  /\ expires = t.expires \/ expires >= now
  /\ tokens' = (tokens \ {t}) \cup {[t EXCEPT !.channel = ch.id, !.expires = expires]}
  /\ UNCHANGED <<channels, lastChannel, lastToken, now, departures, creation, request>>

DeleteToken(t) ==
  /\ t \in tokens
  /\ tokens' = tokens \ {t}
  /\ UNCHANGED <<channels, lastChannel, lastToken, now, departures, creation, request>>

------------------------------------------------------------------------------
(* Ingest requests. *)

\* Whether ResolveToken accepts a token it has read.
Valid(t, endpoint) == t.kind \in {"any", endpoint} /\ now <= t.expires

Entitled(t, endpoint) == {ch.room : ch \in {c \in ChannelOf(t.channel) : Valid(t, endpoint)}}

\* ResolveToken finds the presented token.  (Unknown: 401, nothing happens.)
FindToken(r, t, endpoint) ==
  /\ request[r].pc = "idle"
  /\ t \in tokens
  /\ request' = [request EXCEPT ![r] = [pc |-> "preload", token |-> t, endpoint |-> endpoint,
                                          room |-> NoRoom, grant |-> Entitled(t, endpoint)]]
  /\ UNCHANGED <<tables, now, departures, creation>>

\* Preload reads its channel; a channel that is gone leaves the zero Channel,
\* without an error.
Preload(r) ==
  LET found == ChannelOf(request[r].token.channel)
  IN  /\ request[r].pc = "preload"
      /\ \E room \in IF found = {} THEN {NoRoom} ELSE {ch.room : ch \in found} :
           request' = [request EXCEPT ![r].pc = "resolve", ![r].room = room]
      /\ UNCHANGED <<tables, now, departures, creation>>

\* The token is valid, the rate limiter and the parser agree: the entry is
\* queued for the room.  Nothing shared is read in between.
Queue(r) ==
  /\ request[r].pc = "resolve"
  /\ Valid(request[r].token, request[r].endpoint)
  /\ request' = [request EXCEPT ![r].pc = "queued"]
  /\ UNCHANGED <<tables, now, departures, creation>>

\* The handler answers 200; or 401, 429, 400 or 500 earlier on.
Answer(r) ==
  /\ request[r].pc # "idle"
  /\ request' = [request EXCEPT ![r] = NoRequest]
  /\ UNCHANGED <<tables, now, departures, creation>>

Tick ==
  /\ now < MaxTime
  /\ now' = now + 1
  /\ UNCHANGED <<tables, departures, creation, request>>

------------------------------------------------------------------------------
Admin ==
  \/ \E name \in Names, room \in Rooms : CreateChannel(name, room)
  \/ \E ch \in channels : DeleteChannel(ch)
  \/ \E room \in Rooms : DeleteChannelsForRoom(room) \/ LeaveRoom(room)
  \/ \E c \in Creations :
       \/ \E ch \in channels : CreateToken(c, ch)
       \/ \E name \in TokenNames, kind \in Kinds, expires \in now..Never :
            InsertToken(c, name, kind, expires)
       \/ CreateTokenFails(c)
  \/ \E t \in tokens : \/ \E ch \in channels, expires \in 0..Never : UpdateToken(t, ch, expires)
                       \/ DeleteToken(t)

Ingest(r) ==
  \/ \E t \in tokens, endpoint \in Endpoints : FindToken(r, t, endpoint)
  \/ Preload(r) \/ Queue(r) \/ Answer(r)

Next ==
  \/ Admin
  \/ \E room \in Rooms : JoinRoom(room)
  \/ \E r \in Requests : Ingest(r)
  \/ Tick

Spec == Init /\ [][Next]_vars
==============================================================================
