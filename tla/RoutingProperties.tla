-------------------------- MODULE RoutingProperties --------------------------
(***************************************************************************)
(* What should be true of channels, tokens and the requests between them.  *)
(***************************************************************************)
EXTENDS Routing

ChannelType == [id : 1..lastChannel, name : Names, room : Rooms]
TokenType == [id : 1..lastToken, name : TokenNames, kind : Kinds,
              channel : 1..lastChannel, expires : 0..Never]
RequestType == [pc : {"idle", "preload", "resolve", "queued"}, token : TokenType \cup {NoToken},
                endpoint : Endpoints \cup {"any"}, room : Rooms \cup {NoRoom}, grant : SUBSET Rooms]

\* The types of the tables and the calls; the ids in use were handed out.
RoutingTypeOK ==
  /\ channels \subseteq ChannelType /\ lastChannel \in 0..MaxChannels
  /\ tokens \subseteq TokenType /\ lastToken \in 0..MaxTokens
  /\ now \in 0..MaxTime
  /\ leaving \subseteq Rooms /\ left \subseteq Rooms
  /\ emptied \in [Rooms -> 0..lastChannel] /\ removed \subseteq 1..lastChannel
  /\ creation \in [Creations -> ChannelType \cup {NoChannel}]
  /\ request \in [Requests -> RequestType]

\* "Every ingest token belongs to a channel" (README:98-99), though CreateToken
\* reads the channel in one statement and refers to it in another, and
\* channels are deleted one by one and room by room.
TokensHaveChannels == \A t \in tokens : ChannelOf(t.channel) # {}

\* A request queues its notification for the room that its token, unexpired
\* and made for that endpoint, named when it was looked up, whatever is
\* created, deleted, brought back, renewed or rebound between the reads of
\* ResolveToken; or for no room, if its channel was deleted (store.go:272-293).
RoutedByItsToken ==
  \A r \in Requests : request[r].pc = "queued" =>
    /\ request[r].grant # {}
    /\ \/ request[r].room \in request[r].grant
       \/ request[r].room = NoRoom /\ request[r].token.channel \in removed

\* A room that LeaveRoom took the bot out of has no channel older than the
\* call: they and their tokens "are deleted first - after leaving they could
\* never deliver anyway" (api.go:149-151).  The only exception is a deleted
\* channel that a CreateToken under way has brought back (store.go:237-243).
LeftRoomsAreUnbound ==
  \A ch \in channels : ch.room \in left => ch.id > emptied[ch.room] \/ ch.id \in removed

\* The room of a token's channel.  The table holds a token once its channel
\* does, so a token without one would lead where no token of the promise does.
RoomOf(t) ==
  IF ChannelOf(t.channel) = {} THEN NoRoom
  ELSE (CHOOSE ch \in ChannelOf(t.channel) : TRUE).room

\* The tokens ever created, where those in the table lead, and what the
\* requests are entitled to and have done.
Issued == 1..lastToken
Directions == {<<t.id, RoomOf(t)>> : t \in tokens}
Claims == [r \in Requests |-> request[r].grant]
Deliveries == [r \in Requests |-> IF request[r].pc = "queued" THEN {request[r].room} ELSE {}]

\* The tables keep the promise of TokenRoutes: creating a channel, deleting
\* one, bringing one back or joining a room changes no token's route; creating,
\* rebinding or deleting a token changes no other token's; leaving a room takes
\* away the tokens that led there and no others; and what a request read in two
\* statements is the route of one moment, its token found (store.go:111-335,
\* api.go:149-167).
Routes ==
  INSTANCE TokenRoutes WITH
    Tokens <- 1..MaxTokens, Nowhere <- NoRoom,
    issued <- Issued, routes <- Directions, claim <- Claims, sent <- Deliveries
RoutesKept == Routes!Spec
==============================================================================
