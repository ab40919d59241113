---------------------------- MODULE RoutingProofs ----------------------------
(***************************************************************************)
(* Proofs about Routing for any number of rooms, requests and calls.       *)
(*                                                                         *)
(* What a request has read stays right because an id is never given to     *)
(* another channel: the channel its token names is the one it named, or it *)
(* was deleted, or it was deleted and brought back as it was.              *)
(***************************************************************************)
EXTENDS RoutingProperties, TLAPS

\* The channels there are, and those a CreateToken call may bring back.
Known == channels \cup ({creation[c] : c \in Creations} \ {NoChannel})

\* An id is one channel's.
OneChannel == \A c, d \in Known : c.id = d.id => c = d

\* Channels of a room are younger than its last departure, or brought back.
Emptied == \A ch \in channels : ch.id > emptied[ch.room] \/ ch.id \in removed

\* What is known of but not in the table was deleted.
Gone == \A ch \in Known : ch \in channels \/ ch.id \in removed

\* What a request that may still queue knows: its grant is the room of its
\* token's channel, unless that was deleted; what comes back is the same.
Good(q) == Valid(q.token, q.endpoint)
LookedUp ==
  \A r \in Requests : request[r].pc = "preload" /\ Good(request[r]) =>
    /\ request[r].grant # {}
    /\ \A ch \in Known : ch.id = request[r].token.channel => ch.room \in request[r].grant
    /\ ChannelOf(request[r].token.channel) # {} \/ request[r].token.channel \in removed
Resolved ==
  \A r \in Requests : request[r].pc = "resolve" /\ Good(request[r]) =>
    /\ request[r].grant # {}
    /\ \/ request[r].room \in request[r].grant
       \/ request[r].room = NoRoom /\ request[r].token.channel \in removed

\* A request that is under way has a token that was stored.
HasToken == \A r \in Requests : request[r].pc # "idle" => request[r].token \in TokenType

RoutingInv ==
  /\ RoutingTypeOK /\ OneChannel /\ TokensHaveChannels /\ Emptied /\ Gone
  /\ HasToken /\ LookedUp /\ Resolved /\ RoutedByItsToken

USE RoutingAssumption DEF RoutingAssumption

LEMMA InitRoutingInv == Init => RoutingInv
<1> SUFFICES ASSUME Init PROVE RoutingInv
  OBVIOUS
<1>1. \A r \in Requests : request[r] = NoRequest
  BY DEF Init
<1>2. NoRequest \in RequestType
  BY DEF NoRequest, RequestType
<1>3. RoutingTypeOK
  BY <1>1, <1>2 DEF Init, RoutingTypeOK
<1>4. HasToken /\ LookedUp /\ Resolved /\ RoutedByItsToken
  BY <1>1 DEF HasToken, LookedUp, Resolved, RoutedByItsToken, NoRequest
<1>5. Known = {}
  BY DEF Init, Known
<1>6. OneChannel /\ TokensHaveChannels /\ Emptied /\ Gone
  BY <1>5 DEF Init, OneChannel, TokensHaveChannels, Emptied, Gone
<1> QED BY <1>3, <1>4, <1>6 DEF RoutingInv

\* Types that grow with the ids.
LEMMA TypesGrow ==
  ASSUME RoutingTypeOK,
         lastChannel' \in Nat, lastChannel <= lastChannel',
         lastToken' \in Nat, lastToken <= lastToken'
  PROVE  /\ ChannelType \subseteq ChannelType' /\ TokenType \subseteq TokenType'
         /\ RequestType \subseteq RequestType'
         /\ 0..lastChannel \subseteq 0..lastChannel'
<1>1. /\ 1..lastChannel \subseteq 1..lastChannel' /\ 1..lastToken \subseteq 1..lastToken'
      /\ 0..lastChannel \subseteq 0..lastChannel'
  BY DEF RoutingTypeOK
<1>2. ChannelType \subseteq ChannelType'
  BY <1>1 DEF ChannelType
<1>3. TokenType \subseteq TokenType'
  BY <1>1 DEF TokenType, Never
<1>4. RequestType \subseteq RequestType'
  BY <1>3 DEF RequestType, NoToken, Never
<1> QED BY <1>1, <1>2, <1>3, <1>4

\* A step that leaves the requests and time alone, reuses no id, rebinds no
\* channel and remembers what it deletes keeps what the requests know.
LEMMA RequestsUndisturbed ==
  ASSUME RoutingInv, UNCHANGED <<now, request>>,
         \A ch \in Known' : ch \in Known \/ ch.id > lastChannel,
         \A ch \in channels : ch \in channels' \/ ch.id \in removed',
         removed \subseteq removed', TokenType \subseteq TokenType'
  PROVE  (HasToken /\ LookedUp /\ Resolved /\ RoutedByItsToken)'
<1>1. \A r \in Requests : request[r].pc # "idle" =>
         /\ request[r].token \in TokenType /\ request[r].token.channel \in 1..lastChannel
         /\ lastChannel \in Nat
  BY DEF RoutingInv, HasToken, TokenType, RoutingTypeOK
<1>2. \A r \in Requests : request[r].pc # "idle" =>
         \A ch \in Known' : ch.id = request[r].token.channel => ch \in Known
  <2> TAKE r \in Requests
  <2> SUFFICES ASSUME request[r].pc # "idle", NEW ch \in Known', ch.id = request[r].token.channel
               PROVE  ch \in Known
    OBVIOUS
  <2>1. ch.id \in 1..lastChannel /\ lastChannel \in Nat
    BY <1>1
  <2> QED BY <2>1
<1>3. \A r \in Requests : Good(request[r])' = Good(request[r])
  BY DEF Good, Valid, Never
<1>4. \A id : ChannelOf(id) # {} \/ id \in removed => ChannelOf(id)' # {} \/ id \in removed'
  BY DEF ChannelOf
<1>5. HasToken'
  BY <1>1 DEF HasToken
<1>6. LookedUp'
  <2> SUFFICES ASSUME NEW r \in Requests, request[r].pc = "preload", Good(request[r])
               PROVE  /\ request[r].grant # {}
                      /\ \A ch \in Known' : ch.id = request[r].token.channel => ch.room \in request[r].grant
                      /\ \/ ChannelOf(request[r].token.channel)' # {}
                         \/ request[r].token.channel \in removed'
    BY <1>3 DEF LookedUp, ChannelOf
  <2>1. /\ request[r].grant # {}
        /\ \A ch \in Known : ch.id = request[r].token.channel => ch.room \in request[r].grant
        /\ ChannelOf(request[r].token.channel) # {} \/ request[r].token.channel \in removed
    BY DEF RoutingInv, LookedUp
  <2> QED BY <1>2, <1>4, <2>1
<1>7. Resolved'
  BY <1>3 DEF RoutingInv, Resolved
<1>8. RoutedByItsToken'
  BY DEF RoutingInv, RoutedByItsToken
<1> QED BY <1>5, <1>6, <1>7, <1>8

\* Writing the local variables of one request.
LEMMA OneRequest ==
  ASSUME RoutingInv, NEW r \in Requests, NEW q \in RequestType,
         request' = [request EXCEPT ![r] = q],
         UNCHANGED <<tables, now, departures, creation>>,
         q.pc # "idle" => q.token \in TokenType,
         q.pc = "preload" /\ Good(q) =>
           /\ q.grant # {}
           /\ \A ch \in Known : ch.id = q.token.channel => ch.room \in q.grant
           /\ ChannelOf(q.token.channel) # {} \/ q.token.channel \in removed,
         (q.pc = "resolve" /\ Good(q)) \/ q.pc = "queued" =>
           /\ q.grant # {}
           /\ \/ q.room \in q.grant
              \/ q.room = NoRoom /\ q.token.channel \in removed
  PROVE  RoutingInv'
<1>1. /\ request'[r] = q
      /\ \A s \in Requests \ {r} : request'[s] = request[s]
  BY DEF RoutingInv, RoutingTypeOK
<1>t. UNCHANGED <<channels, lastChannel, tokens, lastToken, now, leaving, left, emptied, removed, creation>>
  BY DEF tables, departures
<1>2. RoutingTypeOK'
  <2>1. request' \in [Requests -> RequestType]
    BY DEF RoutingInv, RoutingTypeOK
  <2>2. UNCHANGED <<ChannelType, TokenType, RequestType>>
    BY <1>t DEF ChannelType, TokenType, RequestType, NoToken, Never
  <2> QED BY <1>t, <2>1, <2>2 DEF RoutingInv, RoutingTypeOK
<1>k. Known' = Known
  BY <1>t DEF Known, NoChannel
<1>3. OneChannel' /\ TokensHaveChannels' /\ Emptied' /\ Gone'
  BY <1>t, <1>k DEF RoutingInv, OneChannel, TokensHaveChannels, Emptied, Gone, ChannelOf
<1>4. /\ \A p : Good(p)' = Good(p)
      /\ \A n : ChannelOf(n)' = ChannelOf(n)
      /\ TokenType' = TokenType
  BY <1>t DEF Good, Valid, ChannelOf, TokenType, Never
<1>5. HasToken'
  BY <1>1, <1>4 DEF RoutingInv, HasToken
<1>6. LookedUp'
  BY <1>1, <1>t, <1>k DEF RoutingInv, LookedUp, Good, Valid, Never, ChannelOf
<1>7. Resolved'
  BY <1>1, <1>t DEF RoutingInv, Resolved, Good, Valid, Never
<1>8. RoutedByItsToken'
  BY <1>1, <1>t DEF RoutingInv, RoutedByItsToken
<1> QED BY <1>2, <1>3, <1>5, <1>6, <1>7, <1>8 DEF RoutingInv

\* A call that at most brings channels back.
LEMMA ChannelsKept ==
  ASSUME RoutingInv, UNCHANGED <<lastChannel, now, removed, request>>,
         channels \subseteq channels', channels' \subseteq Known, Known' \subseteq Known,
         lastToken' \in 0..MaxTokens, lastToken <= lastToken',
         tokens' \subseteq TokenType', \A t \in tokens' : ChannelOf(t.channel)' # {},
         leaving' \subseteq Rooms, left' \subseteq Rooms,
         emptied' \in [Rooms -> 0..lastChannel],
         \A room \in Rooms : emptied'[room] <= emptied[room],
         creation' \in [Creations -> ChannelType \cup {NoChannel}]
  PROVE  RoutingInv'
<1>1. /\ ChannelType \subseteq ChannelType' /\ TokenType \subseteq TokenType'
      /\ RequestType \subseteq RequestType'
  BY TypesGrow DEF RoutingInv, RoutingTypeOK
<1>2. ChannelType' = ChannelType /\ NoChannel' = NoChannel
  BY DEF ChannelType, NoChannel
<1>3. Known \subseteq ChannelType
  BY DEF Known, RoutingInv, RoutingTypeOK
<1>4. RoutingTypeOK'
  <2>1. request' \in [Requests -> RequestType']
    BY <1>1 DEF RoutingInv, RoutingTypeOK
  <2>2. channels' \subseteq ChannelType'
    BY <1>2, <1>3
  <2> QED BY <1>2, <2>1, <2>2 DEF RoutingInv, RoutingTypeOK
<1>5. OneChannel' /\ TokensHaveChannels'
  BY DEF RoutingInv, OneChannel, TokensHaveChannels
<1>6. Emptied'
  <2> SUFFICES ASSUME NEW ch \in channels', ch.id \notin removed PROVE ch.id > emptied'[ch.room]
    BY DEF Emptied
  <2>1. ch \in channels
    BY DEF RoutingInv, Gone
  <2>2. /\ ch.id \in Nat /\ ch.room \in Rooms
        /\ emptied[ch.room] \in Nat /\ emptied'[ch.room] \in Nat /\ ch.id > emptied[ch.room]
    BY <2>1 DEF RoutingInv, RoutingTypeOK, ChannelType, Emptied
  <2>3. emptied'[ch.room] <= emptied[ch.room]
    BY <2>2
  <2> QED BY <2>2, <2>3
<1>7. Gone'
  BY DEF RoutingInv, Gone
<1>8. (HasToken /\ LookedUp /\ Resolved /\ RoutedByItsToken)'
  BY <1>1, RequestsUndisturbed
<1> QED BY <1>4, <1>5, <1>6, <1>7, <1>8 DEF RoutingInv

LEMMA RoutingStep == RoutingInv /\ [Next]_vars => RoutingInv'
<1> SUFFICES ASSUME RoutingInv, [Next]_vars PROVE RoutingInv'
  OBVIOUS
<1>t. /\ lastChannel \in Nat /\ lastToken \in Nat /\ lastChannel <= MaxChannels
      /\ \A ch \in Known : ch \in ChannelType /\ ch.id \in 1..lastChannel /\ ch.room \in Rooms
      /\ channels \subseteq Known
      /\ \A t \in tokens : t \in TokenType
      /\ \A r \in Requests : request[r] \in RequestType
  BY DEF RoutingInv, RoutingTypeOK, ChannelType, Known
\* The tables.
<1>1. ASSUME NEW name \in Names, NEW room \in Rooms, CreateChannel(name, room) PROVE RoutingInv'
  <2> DEFINE new == [id |-> lastChannel + 1, name |-> name, room |-> room]
  <2>1. /\ channels' = channels \cup {new} /\ lastChannel' = lastChannel + 1
        /\ lastChannel < MaxChannels
        /\ UNCHANGED <<tokens, lastToken, now, leaving, left, emptied, removed, creation, request>>
    BY <1>1 DEF CreateChannel, NewChannel, departures
  <2>2. lastChannel' \in Nat /\ lastChannel <= lastChannel' /\ lastChannel' <= MaxChannels
    BY <1>t, <2>1
  <2>3. /\ ChannelType \subseteq ChannelType' /\ TokenType \subseteq TokenType'
        /\ RequestType \subseteq RequestType' /\ 0..lastChannel \subseteq 0..lastChannel'
    BY <1>t, <2>1, <2>2, TypesGrow DEF RoutingInv
  <2>4. new \in ChannelType' /\ new.id = lastChannel + 1 /\ new.room = room
    BY <1>t, <2>1 DEF ChannelType
  <2> HIDE DEF new
  <2>5. /\ RoutingTypeOK
        /\ emptied \in [Rooms -> 0..lastChannel'] /\ removed \subseteq 1..lastChannel'
    BY <1>t, <2>1, <2>3 DEF RoutingInv, RoutingTypeOK
  <2>6. RoutingTypeOK'
    <3>1. channels' \subseteq ChannelType' /\ tokens' \subseteq TokenType'
      BY <2>1, <2>3, <2>4, <2>5 DEF RoutingTypeOK
    <3>2. creation' \in [Creations -> (ChannelType \cup {NoChannel})']
      BY <2>1, <2>3, <2>5 DEF RoutingTypeOK, NoChannel
    <3>3. request' \in [Requests -> RequestType']
      BY <2>1, <2>3, <2>5 DEF RoutingTypeOK
    <3>4. lastChannel' \in 0..MaxChannels
      BY <2>2
    <3> QED BY <2>1, <2>5, <3>1, <3>2, <3>3, <3>4 DEF RoutingTypeOK
  <2>k. Known' = Known \cup {new}
    BY <2>1 DEF Known, NoChannel
  <2>7. OneChannel'
    <3>1. \A ch \in Known : ch.id # new.id
      BY <1>t, <2>4
    <3> QED BY <2>k, <3>1 DEF RoutingInv, OneChannel
  <2>8. TokensHaveChannels'
    BY <2>1 DEF RoutingInv, TokensHaveChannels, ChannelOf
  <2>9. Emptied' /\ Gone'
    <3>1. \A r \in Rooms : emptied[r] <= lastChannel /\ emptied[r] \in Nat
      BY <1>t DEF RoutingInv, RoutingTypeOK
    <3>2. new.id > emptied[new.room]
      BY <1>t, <2>4, <3>1
    <3> QED BY <2>1, <2>k, <3>2 DEF RoutingInv, Emptied, Gone
  <2>10. (HasToken /\ LookedUp /\ Resolved /\ RoutedByItsToken)'
    <3>1. \A ch \in Known' : ch \in Known \/ ch.id > lastChannel
      BY <1>t, <2>k, <2>4
    <3> QED BY <2>1, <2>3, <3>1, RequestsUndisturbed
  <2> QED BY <2>6, <2>7, <2>8, <2>9, <2>10 DEF RoutingInv
<1>2. ASSUME NEW ch \in channels, DeleteChannel(ch) PROVE RoutingInv'
  <2>1. /\ channels' = channels \ {ch} /\ ~InUse(ch) /\ removed' = removed \cup {ch.id}
        /\ UNCHANGED <<lastChannel, tokens, lastToken, now, leaving, left, emptied, creation, request>>
    BY <1>2 DEF DeleteChannel
  <2>2. UNCHANGED <<ChannelType, TokenType, RequestType, NoChannel>>
    BY <2>1 DEF ChannelType, TokenType, RequestType, NoToken, Never, NoChannel
  <2>k. Known' \subseteq Known
    BY <2>1, <2>2 DEF Known
  <2>3. RoutingTypeOK'
    <3>1. removed' \subseteq 1..lastChannel'
      BY <1>t, <2>1 DEF RoutingInv, RoutingTypeOK
    <3> QED BY <2>1, <2>2, <3>1 DEF RoutingInv, RoutingTypeOK
  <2>4. OneChannel' /\ Emptied' /\ Gone'
    BY <2>1, <2>k DEF RoutingInv, OneChannel, Emptied, Gone
  <2>5. TokensHaveChannels'
    BY <2>1 DEF RoutingInv, TokensHaveChannels, ChannelOf, InUse
  <2>6. (HasToken /\ LookedUp /\ Resolved /\ RoutedByItsToken)'
    BY <2>1, <2>2, <2>k, RequestsUndisturbed
  <2> QED BY <2>3, <2>4, <2>5, <2>6 DEF RoutingInv
<1>3. ASSUME NEW room \in Rooms, DeleteChannelsForRoom(room) PROVE RoutingInv'
  <2>1. /\ channels' = channels \ BoundTo(room)
        /\ tokens' = {t \in tokens : \A ch \in BoundTo(room) : ch.id # t.channel}
        /\ leaving' = leaving \cup {room}
        /\ emptied' = [emptied EXCEPT ![room] = lastChannel]
        /\ removed' = removed \cup {ch.id : ch \in BoundTo(room)}
        /\ UNCHANGED <<lastChannel, lastToken, now, left, creation, request>>
    BY <1>3 DEF DeleteChannelsForRoom
  <2>2. UNCHANGED <<ChannelType, TokenType, RequestType, NoChannel>>
    BY <2>1 DEF ChannelType, TokenType, RequestType, NoToken, Never, NoChannel
  <2>k. Known' \subseteq Known /\ BoundTo(room) \subseteq channels
    BY <2>1, <2>2 DEF Known, BoundTo
  <2>3. RoutingTypeOK'
    <3>1. emptied' \in [Rooms -> 0..lastChannel']
      BY <1>t, <2>1 DEF RoutingInv, RoutingTypeOK
    <3>2. removed' \subseteq 1..lastChannel'
      BY <1>t, <2>1, <2>k DEF RoutingInv, RoutingTypeOK
    <3> QED BY <2>1, <2>2, <3>1, <3>2 DEF RoutingInv, RoutingTypeOK
  <2>4. OneChannel' /\ Gone'
    BY <2>1, <2>k DEF RoutingInv, OneChannel, Gone
  <2>5. Emptied'
    <3>1. ASSUME NEW ch \in channels', ch.id \notin removed' PROVE ch.id > emptied'[ch.room]
      <4>1. ch \in channels /\ ch.room # room /\ ch.id \notin removed
        BY <2>1, <3>1 DEF BoundTo
      <4>2. emptied'[ch.room] = emptied[ch.room]
        BY <1>t, <2>1, <4>1 DEF RoutingInv, RoutingTypeOK
      <4> QED BY <4>1, <4>2 DEF RoutingInv, Emptied
    <3> QED BY <3>1 DEF Emptied
  <2>6. TokensHaveChannels'
    <3>1. ASSUME NEW t \in tokens' PROVE ChannelOf(t.channel)' # {}
      <4>1. t \in tokens /\ \A ch \in BoundTo(room) : ch.id # t.channel
        BY <2>1
      <4>2. PICK ch \in channels : ch.id = t.channel
        BY <4>1 DEF RoutingInv, TokensHaveChannels, ChannelOf
      <4>3. ch \in channels'
        BY <2>1, <4>1, <4>2
      <4> QED BY <4>2, <4>3 DEF ChannelOf
    <3> QED BY <3>1 DEF TokensHaveChannels
  <2>7. (HasToken /\ LookedUp /\ Resolved /\ RoutedByItsToken)'
    <3>1. \A ch \in channels : ch \in channels' \/ ch.id \in removed'
      BY <2>1
    <3> QED BY <2>1, <2>2, <2>k, <3>1, RequestsUndisturbed
  <2> QED BY <2>3, <2>4, <2>5, <2>6, <2>7 DEF RoutingInv
\* Calls that delete no channel and create none.
<1>s. /\ \A t \in tokens : ChannelOf(t.channel) # {}
      /\ tokens \subseteq TokenType /\ lastToken \in 0..MaxTokens
      /\ leaving \subseteq Rooms /\ left \subseteq Rooms
      /\ creation \in [Creations -> ChannelType \cup {NoChannel}]
      /\ emptied \in [Rooms -> 0..lastChannel]
      /\ \A room \in Rooms : emptied[room] \in Nat
  BY DEF RoutingInv, RoutingTypeOK, TokensHaveChannels
<1>k. /\ lastChannel' = lastChannel /\ lastToken' = lastToken => TokenType' = TokenType
      /\ NoChannel' = NoChannel
  BY DEF TokenType, Never, NoChannel
<1>c. channels' = channels => \A t : ChannelOf(t.channel)' = ChannelOf(t.channel)
  BY DEF ChannelOf
<1>4. ASSUME NEW room \in Rooms, LeaveRoom(room) \/ JoinRoom(room) PROVE RoutingInv'
  <2>1. /\ UNCHANGED <<channels, lastChannel, tokens, lastToken, now, removed, creation, request>>
        /\ leaving' \subseteq Rooms /\ left' \subseteq Rooms
        /\ emptied' = emptied \/ emptied' = [emptied EXCEPT ![room] = 0]
    BY <1>4, <1>s DEF LeaveRoom, JoinRoom, tables
  <2>2. emptied' \in [Rooms -> 0..lastChannel] /\ \A x \in Rooms : emptied'[x] <= emptied[x]
    BY <1>s, <1>t, <2>1
  <2>3. Known' = Known
    BY <1>k, <2>1 DEF Known
  <2> QED BY <1>s, <1>k, <1>t, <1>c, <2>1, <2>2, <2>3, ChannelsKept
<1>5. ASSUME NEW c \in Creations, CreateTokenFails(c) \/ \E ch \in channels : CreateToken(c, ch)
      PROVE  RoutingInv'
  <2>1. UNCHANGED <<channels, lastChannel, tokens, lastToken, now, leaving, left, emptied, removed, request>>
    BY <1>5 DEF CreateTokenFails, CreateToken, tables, departures
  <2>2. PICK x \in channels \cup {NoChannel} : creation' = [creation EXCEPT ![c] = x]
    BY <1>5 DEF CreateTokenFails, CreateToken
  <2>3. creation' \in [Creations -> ChannelType \cup {NoChannel}]
    BY <1>s, <1>t, <2>2
  <2>4. Known' \subseteq Known
    BY <1>s, <1>k, <2>1, <2>2 DEF Known
  <2>5. \A room \in Rooms : emptied'[room] <= emptied[room]
    BY <1>s, <2>1
  <2> QED BY <1>s, <1>k, <1>t, <1>c, <2>1, <2>3, <2>4, <2>5, ChannelsKept
<1>6. ASSUME NEW c \in Creations, NEW name \in TokenNames, NEW kind \in Kinds,
             NEW expires \in now..Never, InsertToken(c, name, kind, expires)
      PROVE  RoutingInv'
  <2> DEFINE new == [id |-> lastToken + 1, name |-> name, kind |-> kind,
                     channel |-> creation[c].id, expires |-> expires]
  <2>1. /\ tokens' = tokens \cup {new} /\ lastToken' = lastToken + 1 /\ lastToken < MaxTokens
        /\ creation[c] # NoChannel /\ channels' = channels \cup Restored(creation[c])
        /\ Referable(channels', creation[c].id)
        /\ creation' = [creation EXCEPT ![c] = NoChannel]
        /\ UNCHANGED <<lastChannel, now, leaving, left, emptied, removed, request>>
    BY <1>6 DEF InsertToken, departures
  <2>2. creation[c] \in Known /\ creation[c].id \in 1..lastChannel
    BY <1>t, <2>1 DEF Known
  <2>3. TokenType \subseteq TokenType'
    BY <1>t, <2>1, TypesGrow DEF RoutingInv
  <2>4. new \in TokenType'
    <3>1. expires \in 0..Never
      BY DEF RoutingInv, RoutingTypeOK, Never
    <3>2. lastToken + 1 \in 1..lastToken'
      BY <1>t, <2>1
    <3> QED BY <2>1, <2>2, <3>1, <3>2 DEF TokenType, Never
  <2>5. channels \subseteq channels' /\ channels' \subseteq Known
    BY <1>t, <2>1, <2>2 DEF Restored
  <2>6. Known' \subseteq Known
    BY <1>s, <1>k, <2>1, <2>5 DEF Known
  <2>7. new.channel = creation[c].id
    OBVIOUS
  <2> HIDE DEF new
  <2>8. tokens' \subseteq TokenType'
    BY <1>s, <2>1, <2>3, <2>4
  <2>9. \A t \in tokens' : ChannelOf(t.channel)' # {}
    <3>1. \E ch \in channels' : ch.id = new.channel
      BY <2>1, <2>7 DEF Referable
    <3>2. \A t \in tokens : \E ch \in channels' : ch.id = t.channel
      BY <1>s, <2>5 DEF ChannelOf
    <3>3. \A t \in tokens' : \E ch \in channels' : ch.id = t.channel
      BY <2>1, <3>1, <3>2
    <3> QED BY <3>3 DEF ChannelOf
  <2>10. creation' \in [Creations -> ChannelType \cup {NoChannel}]
    BY <1>s, <2>1
  <2>11. /\ lastToken' \in 0..MaxTokens /\ lastToken <= lastToken'
         /\ \A room \in Rooms : emptied'[room] <= emptied[room]
    BY <1>s, <1>t, <2>1
  <2> QED BY <1>s, <2>1, <2>5, <2>6, <2>8, <2>9, <2>10, <2>11, ChannelsKept
<1>7. ASSUME NEW t \in tokens, NEW ch \in channels, NEW expires \in 0..Never,
             UpdateToken(t, ch, expires)
      PROVE  RoutingInv'
  <2> DEFINE new == [t EXCEPT !.channel = ch.id, !.expires = expires]
  <2>1. /\ tokens' = (tokens \ {t}) \cup {new}
        /\ UNCHANGED <<channels, lastChannel, lastToken, now, leaving, left, emptied, removed, creation, request>>
    BY <1>7 DEF UpdateToken, departures
  <2>2. new \in TokenType
    BY <1>t DEF TokenType
  <2>3. new.channel = ch.id
    BY <1>t DEF TokenType
  <2>4. ChannelOf(ch.id) # {}
    BY DEF ChannelOf
  <2> HIDE DEF new
  <2>5. tokens' \subseteq TokenType /\ \A u \in tokens' : ChannelOf(u.channel) # {}
    BY <1>s, <2>1, <2>2, <2>3, <2>4
  <2>6. Known' = Known /\ \A room \in Rooms : emptied'[room] <= emptied[room]
    BY <1>s, <1>k, <2>1 DEF Known
  <2> QED BY <1>s, <1>k, <1>t, <1>c, <2>1, <2>5, <2>6, ChannelsKept
<1>8. ASSUME NEW t \in tokens, DeleteToken(t) PROVE RoutingInv'
  <2>1. /\ tokens' = tokens \ {t}
        /\ UNCHANGED <<channels, lastChannel, lastToken, now, leaving, left, emptied, removed, creation, request>>
    BY <1>8 DEF DeleteToken, departures
  <2>2. Known' = Known /\ \A room \in Rooms : emptied'[room] <= emptied[room]
    BY <1>s, <1>k, <2>1 DEF Known
  <2> QED BY <1>s, <1>k, <1>t, <1>c, <2>1, <2>2, ChannelsKept
\* The requests.
<1>9. ASSUME NEW r \in Requests, NEW t \in tokens, NEW endpoint \in Endpoints,
             FindToken(r, t, endpoint)
      PROVE  RoutingInv'
  <2> DEFINE q == [pc |-> "preload", token |-> t, endpoint |-> endpoint, room |-> NoRoom,
                   grant |-> Entitled(t, endpoint)]
  <2>1. request' = [request EXCEPT ![r] = q] /\ UNCHANGED <<tables, now, departures, creation>>
    BY <1>9 DEF FindToken
  <2>2. Entitled(t, endpoint) \subseteq Rooms
    BY <1>t DEF Entitled, ChannelOf
  <2>3. q \in RequestType
    BY <1>t, <2>2 DEF RequestType
  <2>4. PICK ch \in channels : ch.id = t.channel
    BY DEF RoutingInv, TokensHaveChannels, ChannelOf
  <2>5. Valid(t, endpoint) => /\ Entitled(t, endpoint) # {}
                              /\ \A x \in Known : x.id = t.channel => x.room \in Entitled(t, endpoint)
    <3>1. \A x \in Known : x.id = t.channel => x = ch
      BY <1>t, <2>4 DEF RoutingInv, OneChannel
    <3>2. Valid(t, endpoint) => ch.room \in Entitled(t, endpoint)
      BY <2>4 DEF Entitled, ChannelOf
    <3> QED BY <3>1, <3>2
  <2>c. ChannelOf(t.channel) # {}
    BY <2>4 DEF ChannelOf
  <2>6. q.pc = "preload" /\ q.token = t /\ q.endpoint = endpoint /\ q.grant = Entitled(t, endpoint)
    OBVIOUS
  <2> HIDE DEF q
  <2> QED BY <1>t, <2>1, <2>3, <2>5, <2>c, <2>6, OneRequest DEF Good
<1>10. ASSUME NEW r \in Requests, Preload(r) PROVE RoutingInv'
  <2> DEFINE id == request[r].token.channel
  <2>1. PICK room \in IF ChannelOf(id) = {} THEN {NoRoom} ELSE {ch.room : ch \in ChannelOf(id)} :
          request' = [request EXCEPT ![r].pc = "resolve", ![r].room = room]
    BY <1>10 DEF Preload
  <2> DEFINE q == [request[r] EXCEPT !.pc = "resolve", !.room = room]
  <2>2. /\ request' = [request EXCEPT ![r] = q] /\ UNCHANGED <<tables, now, departures, creation>>
        /\ request[r].pc = "preload"
    BY <1>10, <2>1 DEF Preload, RoutingInv, RoutingTypeOK
  <2>3. room \in Rooms \cup {NoRoom}
    BY <1>t, <2>1 DEF ChannelOf
  <2>4. /\ q \in RequestType
        /\ q.pc = "resolve" /\ q.token = request[r].token /\ q.endpoint = request[r].endpoint
        /\ q.grant = request[r].grant /\ q.room = room
    BY <1>t, <2>3 DEF RequestType
  <2>5. request[r].token \in TokenType
    BY <2>2 DEF RoutingInv, HasToken
  <2>6. Good(request[r]) => /\ request[r].grant # {}
                            /\ \/ room \in request[r].grant
                               \/ room = NoRoom /\ id \in removed
    <3>1. ASSUME Good(request[r]) PROVE /\ request[r].grant # {}
                                        /\ \A ch \in Known : ch.id = id => ch.room \in request[r].grant
                                        /\ ChannelOf(id) # {} \/ id \in removed
      BY <2>2, <3>1 DEF RoutingInv, LookedUp
    <3>2. ChannelOf(id) \subseteq {ch \in Known : ch.id = id}
      BY <1>t DEF ChannelOf
    <3> QED BY <2>1, <3>1, <3>2
  <2>7. Good(q) = Good(request[r])
    BY <2>4 DEF Good
  <2> HIDE DEF q
  <2> QED BY <2>2, <2>4, <2>5, <2>6, <2>7, OneRequest
<1>11. ASSUME NEW r \in Requests, Queue(r) PROVE RoutingInv'
  <2> DEFINE q == [request[r] EXCEPT !.pc = "queued"]
  <2>1. /\ request' = [request EXCEPT ![r] = q] /\ UNCHANGED <<tables, now, departures, creation>>
        /\ request[r].pc = "resolve" /\ Good(request[r])
    BY <1>11 DEF Queue, Good, RoutingInv, RoutingTypeOK
  <2>2. /\ q \in RequestType
        /\ q.pc = "queued" /\ q.token = request[r].token
        /\ q.grant = request[r].grant /\ q.room = request[r].room
    BY <1>t DEF RequestType
  <2>3. /\ request[r].token \in TokenType /\ request[r].grant # {}
        /\ \/ request[r].room \in request[r].grant
           \/ request[r].room = NoRoom /\ request[r].token.channel \in removed
    BY <2>1 DEF RoutingInv, HasToken, Resolved
  <2> HIDE DEF q
  <2> QED BY <2>1, <2>2, <2>3, OneRequest
<1>12. ASSUME NEW r \in Requests, Answer(r) PROVE RoutingInv'
  <2>1. NoRequest \in RequestType /\ NoRequest.pc = "idle"
    BY DEF NoRequest, RequestType
  <2> QED BY <1>12, <2>1, OneRequest DEF Answer
<1>13. CASE Tick
  <2>1. /\ now' = now + 1 /\ now < MaxTime
        /\ UNCHANGED <<channels, lastChannel, tokens, lastToken, leaving, left, emptied, removed, creation, request>>
    BY <1>13 DEF Tick, tables, departures
  <2>2. UNCHANGED <<ChannelType, TokenType, RequestType, NoChannel>>
    BY <2>1 DEF ChannelType, TokenType, RequestType, NoToken, Never, NoChannel
  <2>k. Known' = Known
    BY <2>1, <2>2 DEF Known
  <2>3. RoutingTypeOK'
    BY <2>1, <2>2 DEF RoutingInv, RoutingTypeOK
  <2>4. OneChannel' /\ Emptied' /\ Gone' /\ TokensHaveChannels' /\ HasToken' /\ RoutedByItsToken'
    BY <2>1, <2>2, <2>k DEF RoutingInv, OneChannel, Emptied, Gone, TokensHaveChannels, HasToken,
                            RoutedByItsToken, ChannelOf
  <2>5. ASSUME NEW r \in Requests, request[r].pc # "idle", Good(request[r])' PROVE Good(request[r])
    <3>1. request[r].token.expires \in 0..Never /\ now \in Nat /\ now' \in Nat
      BY <2>1, <2>5 DEF RoutingInv, HasToken, TokenType, RoutingTypeOK
    <3> QED BY <2>1, <2>5, <3>1 DEF Good, Valid, Never
  <2>6. LookedUp' /\ Resolved'
    BY <2>1, <2>k, <2>5 DEF RoutingInv, LookedUp, Resolved, ChannelOf
  <2> QED BY <2>3, <2>4, <2>6 DEF RoutingInv
<1>14. CASE UNCHANGED vars
  <2>1. UNCHANGED <<channels, lastChannel, tokens, lastToken, now, leaving, left, emptied, removed, creation, request>>
    BY <1>14 DEF vars, tables, departures
  <2>2. Known' = Known /\ \A room \in Rooms : emptied'[room] <= emptied[room]
    BY <1>s, <1>k, <2>1 DEF Known
  <2> QED BY <1>s, <1>k, <1>t, <1>c, <2>1, <2>2, ChannelsKept
<1> QED BY <1>1, <1>2, <1>3, <1>4, <1>5, <1>6, <1>7, <1>8, <1>9, <1>10, <1>11, <1>12, <1>13, <1>14
        DEF Next, Admin, Ingest

THEOREM RoutingInvariant == Spec => []RoutingInv
BY InitRoutingInv, RoutingStep, PTL DEF Spec

\* The tables and calls keep their types, and no id is used twice.
THEOREM RoutingTypeCorrect == Spec => []RoutingTypeOK
<1>1. RoutingInv => RoutingTypeOK
  BY DEF RoutingInv
<1> QED BY <1>1, RoutingInvariant, PTL

\* However many tokens are created while channels are deleted, each has one.
THEOREM EveryTokenHasAChannel == Spec => []TokensHaveChannels
<1>1. RoutingInv => TokensHaveChannels
  BY DEF RoutingInv
<1> QED BY <1>1, RoutingInvariant, PTL

\* No interleaving of administration and requests sends a notification to a
\* room its token was not for (ResolveToken, store.go:272-293).
THEOREM RequestsRoutedByToken == Spec => []RoutedByItsToken
<1>1. RoutingInv => RoutedByItsToken
  BY DEF RoutingInv
<1> QED BY <1>1, RoutingInvariant, PTL

\* A room LeaveRoom has left keeps no older channel (api.go:152-167), but for
\* one that a CreateToken brought back.
THEOREM LeftRoomsHaveNoChannels == Spec => []LeftRoomsAreUnbound
<1>1. RoutingInv => LeftRoomsAreUnbound
  BY DEF RoutingInv, Emptied, LeftRoomsAreUnbound
<1> QED BY <1>1, RoutingInvariant, PTL

------------------------------------------------------------------------------
(* The tables keep the promise of TokenRoutes. *)

\* An id is one token's, and a handler that is not at work holds nothing.
OneToken == \A t, u \in tokens : t.id = u.id => t = u
IdleIsEmpty == \A r \in Requests : request[r].pc = "idle" => request[r] = NoRequest
RouteInv == RoutingInv /\ OneToken /\ IdleIsEmpty

LEMMA InitRouteInv == Init => RouteInv
BY InitRoutingInv DEF Init, RouteInv, OneToken, IdleIsEmpty

LEMMA RouteStep == RouteInv /\ [Next]_vars => RouteInv'
<1> SUFFICES ASSUME RouteInv, [Next]_vars PROVE (OneToken /\ IdleIsEmpty)'
  BY RoutingStep DEF RouteInv
<1>t. /\ lastToken \in Nat
      /\ \A t \in tokens : t \in TokenType /\ t.id \in 1..lastToken
      /\ \A r \in Requests : request[r] \in RequestType
      /\ request \in [Requests -> RequestType]
  BY DEF RouteInv, RoutingInv, RoutingTypeOK, TokenType
<1> USE DEF RouteInv, OneToken, IdleIsEmpty
<1>1. ASSUME NEW c \in Creations, NEW name \in TokenNames, NEW kind \in Kinds,
             NEW expires \in now..Never, InsertToken(c, name, kind, expires)
      PROVE  OneToken' /\ IdleIsEmpty'
  <2>1. PICK new : new.id = lastToken + 1 /\ tokens' = tokens \cup {new} /\ request' = request
    BY <1>1 DEF InsertToken
  <2>2. \A t \in tokens : t.id # new.id
    BY <1>t, <2>1
  <2> QED BY <2>1, <2>2
<1>2. ASSUME NEW t \in tokens, NEW ch \in channels, NEW expires \in 0..Never,
             UpdateToken(t, ch, expires)
      PROVE  OneToken' /\ IdleIsEmpty'
  <2>1. PICK new : new.id = t.id /\ tokens' = (tokens \ {t}) \cup {new} /\ request' = request
    BY <1>2, <1>t DEF UpdateToken, TokenType
  <2> QED BY <2>1
<1>3. CASE tokens' \subseteq tokens /\ request' = request
  BY <1>3
<1>4. ASSUME NEW r \in Requests, NEW q, q.pc = "idle" => q = NoRequest,
             request' = [request EXCEPT ![r] = q], tokens' = tokens
      PROVE  OneToken' /\ IdleIsEmpty'
  BY <1>4, <1>t
<1>5. ASSUME NEW r \in Requests, NEW t \in tokens, NEW endpoint \in Endpoints,
             FindToken(r, t, endpoint)
      PROVE  OneToken' /\ IdleIsEmpty'
  BY <1>4, <1>5 DEF FindToken, tables
<1>6. ASSUME NEW r \in Requests, Preload(r) \/ Queue(r) PROVE OneToken' /\ IdleIsEmpty'
  <2>1. /\ tokens' = tokens
        /\ \A s \in Requests : request'[s].pc = "idle" => request'[s] = request[s]
        /\ \A s \in Requests : request'[s].pc = "idle" => request[s].pc = "idle"
    BY <1>6, <1>t DEF Preload, Queue, tables, RequestType
  <2> QED BY <2>1
<1>7. ASSUME NEW r \in Requests, Answer(r) PROVE OneToken' /\ IdleIsEmpty'
  BY <1>4, <1>7 DEF Answer, tables
<1>8. ASSUME NEW name \in Names, NEW room \in Rooms, CreateChannel(name, room)
      PROVE  OneToken' /\ IdleIsEmpty'
  BY <1>3, <1>8 DEF CreateChannel
<1>9. ASSUME NEW ch \in channels, DeleteChannel(ch) PROVE OneToken' /\ IdleIsEmpty'
  BY <1>3, <1>9 DEF DeleteChannel
<1>10. ASSUME NEW room \in Rooms, DeleteChannelsForRoom(room) \/ LeaveRoom(room) \/ JoinRoom(room)
       PROVE  OneToken' /\ IdleIsEmpty'
  BY <1>3, <1>10 DEF DeleteChannelsForRoom, LeaveRoom, JoinRoom, tables
<1>11. ASSUME NEW c \in Creations, CreateTokenFails(c) \/ \E ch \in channels : CreateToken(c, ch)
       PROVE  OneToken' /\ IdleIsEmpty'
  BY <1>3, <1>11 DEF CreateTokenFails, CreateToken, tables
<1>12. ASSUME NEW t \in tokens, DeleteToken(t) PROVE OneToken' /\ IdleIsEmpty'
  BY <1>3, <1>12 DEF DeleteToken
<1>13. CASE Tick \/ UNCHANGED vars
  BY <1>3, <1>13 DEF Tick, vars, tables
<1> QED BY <1>1, <1>2, <1>5, <1>6, <1>7, <1>8, <1>9, <1>10, <1>11, <1>12, <1>13
        DEF Next, Admin, Ingest

\* A channel of a table in which ids are unique is found by its id.
LEMMA FoundById ==
  ASSUME NEW table, NEW ch \in table, \A c, d \in table : c.id = d.id => c = d
  PROVE  /\ {c \in table : c.id = ch.id} # {}
         /\ (CHOOSE c \in {c \in table : c.id = ch.id} : TRUE) = ch
OBVIOUS

\* A token leads to the room of its channel, which is a room.
LEMMA RoomIs ==
  ASSUME RoutingInv, NEW t, NEW ch \in channels, t.channel = ch.id
  PROVE  RoomOf(t) = ch.room /\ ch.room \in Rooms
<1>1. \A c, d \in channels : c.id = d.id => c = d
  BY DEF RoutingInv, OneChannel, Known
<1>2. ch.room \in Rooms
  BY DEF RoutingInv, RoutingTypeOK, ChannelType
<1> QED BY <1>1, <1>2, FoundById DEF RoomOf, ChannelOf
LEMMA RoomIsNext ==
  ASSUME RoutingInv', NEW t, NEW ch \in channels', t.channel = ch.id
  PROVE  RoomOf(t)' = ch.room /\ ch.room \in Rooms
<1>1. \A c, d \in channels' : c.id = d.id => c = d
  BY DEF RoutingInv, OneChannel, Known
<1>2. ch.room \in Rooms
  BY DEF RoutingInv, RoutingTypeOK, ChannelType
<1> QED BY <1>1, <1>2, FoundById DEF RoomOf, ChannelOf

\* A token that keeps its channel keeps its route.
LEMMA RouteKept ==
  ASSUME RoutingInv, RoutingInv', NEW t \in tokens,
         \A ch \in channels : ch.id = t.channel => ch \in channels'
  PROVE  RoomOf(t)' = RoomOf(t) /\ RoomOf(t) \in Rooms
<1>1. PICK ch \in channels : ch.id = t.channel
  BY DEF RoutingInv, TokensHaveChannels, ChannelOf
<1> QED BY <1>1, RoomIs, RoomIsNext

\* A step that touches no token, no channel in use and nothing a request is
\* entitled to or has done is no step of the promise.
LEMMA NothingPromised ==
  ASSUME RoutingInv, RoutingInv', UNCHANGED <<tokens, lastToken, Claims, Deliveries>>,
         \A ch \in channels : ch \in channels' \/ ~InUse(ch)
  PROVE  UNCHANGED Routes!promised
<1>1. ASSUME NEW t \in tokens PROVE RoomOf(t)' = RoomOf(t)
  BY <1>1, RouteKept DEF InUse
<1>2. Directions' = Directions
  BY <1>1 DEF Directions
<1> QED BY <1>2 DEF Routes!promised, Issued

\* What a request is entitled to and has done, after it wrote its variables.
LEMMA OneClaim ==
  ASSUME RoutingInv, NEW r \in Requests, NEW q, request' = [request EXCEPT ![r] = q]
  PROVE  /\ Claims' = [Claims EXCEPT ![r] = q.grant]
         /\ Deliveries' = [Deliveries EXCEPT ![r] = IF q.pc = "queued" THEN {q.room} ELSE {}]
         /\ Claims[r] = request[r].grant
         /\ Deliveries[r] = IF request[r].pc = "queued" THEN {request[r].room} ELSE {}
<1>1. request \in [Requests -> RequestType]
  BY DEF RoutingInv, RoutingTypeOK
<1> QED BY <1>1 DEF Claims, Deliveries
LEMMA SameClaims ==
  ASSUME request' = request PROVE Claims' = Claims /\ Deliveries' = Deliveries
BY DEF Claims, Deliveries

LEMMA RoutesInit == Init => Routes!Init
BY DEF Init, Routes!Init, Issued, Directions, Claims, Deliveries, NoRequest

LEMMA RoutesStep == RouteInv /\ RouteInv' /\ [Next]_vars => [Routes!Next]_(Routes!promised)
<1> SUFFICES ASSUME RouteInv, RouteInv', [Next]_vars
             PROVE  Routes!Next \/ UNCHANGED Routes!promised
  OBVIOUS
<1> USE DEF RouteInv
<1>t. /\ lastToken \in Nat /\ lastToken \in 0..MaxTokens /\ lastToken' \in 0..MaxTokens
      /\ \A t \in tokens : t \in TokenType /\ t.id \in 1..lastToken
      /\ \A ch \in channels : ch.room \in Rooms
      /\ \A r \in Requests : request[r] \in RequestType
      /\ request \in [Requests -> RequestType]
  BY DEF RoutingInv, RoutingTypeOK, TokenType, ChannelType
<1>d. Directions' = {<<u.id, RoomOf(u)'>> : u \in tokens'}
  BY DEF Directions
\* Tokens.
<1>1. ASSUME NEW c \in Creations, NEW name \in TokenNames, NEW kind \in Kinds,
             NEW expires \in now..Never, InsertToken(c, name, kind, expires)
      PROVE  Routes!Next
  <2>1. /\ channels \subseteq channels' /\ Referable(channels', creation[c].id)
        /\ lastToken' = lastToken + 1 /\ request' = request
    BY <1>1 DEF InsertToken
  <2>2. PICK new : /\ tokens' = tokens \cup {new}
                   /\ new.id = lastToken + 1 /\ new.channel = creation[c].id
    <3> DEFINE t == [id |-> lastToken + 1, name |-> name, kind |-> kind,
                     channel |-> creation[c].id, expires |-> expires]
    <3>1. tokens' = tokens \cup {t}
      BY <1>1 DEF InsertToken
    <3>2. t.id = lastToken + 1 /\ t.channel = creation[c].id
      OBVIOUS
    <3> HIDE DEF t
    <3> QED BY <3>1, <3>2
  <2>3. PICK ch \in channels' : ch.id = new.channel
    BY <2>1, <2>2 DEF Referable
  <2>4. RoomOf(new)' = ch.room /\ ch.room \in Rooms
    BY <2>3, RoomIsNext
  <2>5. \A u \in tokens : RoomOf(u)' = RoomOf(u)
    BY <2>1, RouteKept
  <2>6. Directions' = Directions \cup {<<lastToken + 1, ch.room>>}
    BY <1>d, <2>1, <2>2, <2>4, <2>5 DEF Directions
  <2>7. Issued' = Issued \cup {lastToken + 1} /\ lastToken + 1 \notin Issued
        /\ lastToken + 1 \in 1..MaxTokens
    BY <1>t, <2>1 DEF Issued
  <2>8. Routes!Issue(lastToken + 1, ch.room)
    BY <2>1, <2>6, <2>7, SameClaims DEF Routes!Issue
  <2> QED BY <2>4, <2>7, <2>8 DEF Routes!Next
<1>2. ASSUME NEW t \in tokens, NEW ch \in channels, NEW expires \in 0..Never,
             UpdateToken(t, ch, expires)
      PROVE  Routes!Next
  <2> DEFINE new == [t EXCEPT !.channel = ch.id, !.expires = expires]
  <2>1. /\ tokens' = (tokens \ {t}) \cup {new}
        /\ UNCHANGED <<channels, lastToken, request>>
    BY <1>2 DEF UpdateToken
  <2>2. new.id = t.id /\ new.channel = ch.id
    BY <1>t DEF TokenType
  <2> HIDE DEF new
  <2>3. RoomOf(new)' = ch.room /\ ch.room \in Rooms
    BY <2>1, <2>2, RoomIsNext
  <2>4. \A u \in tokens : RoomOf(u)' = RoomOf(u)
    BY <2>1, RouteKept
  <2>5. Routes!Others(t.id) = {<<u.id, RoomOf(u)>> : u \in tokens \ {t}}
    BY DEF Routes!Others, Directions, OneToken
  <2>6. Directions' = Routes!Others(t.id) \cup {<<t.id, ch.room>>}
    BY <1>d, <2>1, <2>2, <2>3, <2>4, <2>5
  <2>7. <<t.id, RoomOf(t)>> \in Directions /\ <<t.id, RoomOf(t)>> \notin Routes!Others(t.id)
    BY DEF Directions, Routes!Others
  <2>8. Routes!Redirect(t.id, ch.room)
    BY <2>1, <2>6, <2>7, SameClaims DEF Routes!Redirect, Issued
  <2>9. t.id \in 1..MaxTokens
    BY <1>t
  <2> QED BY <2>3, <2>8, <2>9 DEF Routes!Next
<1>3. ASSUME NEW t \in tokens, DeleteToken(t) PROVE Routes!Next
  <2>1. tokens' = tokens \ {t} /\ UNCHANGED <<channels, lastToken, request>>
    BY <1>3 DEF DeleteToken
  <2>2. \A u \in tokens : RoomOf(u)' = RoomOf(u)
    BY <2>1, RouteKept
  <2>3. Routes!Others(t.id) = {<<u.id, RoomOf(u)>> : u \in tokens \ {t}}
    BY DEF Routes!Others, Directions, OneToken
  <2>4. Directions' = Routes!Others(t.id)
    BY <1>d, <2>1, <2>2, <2>3
  <2>5. Routes!Revoke(t.id)
    BY <2>1, <2>4, SameClaims DEF Routes!Revoke, Issued
  <2>6. t.id \in 1..MaxTokens
    BY <1>t
  <2> QED BY <2>5, <2>6 DEF Routes!Next
\* A room is left: the tokens that led there are those of its channels.
<1>4. ASSUME NEW room \in Rooms, DeleteChannelsForRoom(room) PROVE Routes!Next
  <2>1. /\ channels' = channels \ BoundTo(room)
        /\ tokens' = {t \in tokens : \A ch \in BoundTo(room) : ch.id # t.channel}
        /\ UNCHANGED <<lastToken, request>>
    BY <1>4 DEF DeleteChannelsForRoom
  <2>2. ASSUME NEW t \in tokens PROVE t \in tokens' <=> RoomOf(t) # room
    <3>1. PICK ch \in channels : ch.id = t.channel
      BY DEF RoutingInv, TokensHaveChannels, ChannelOf
    <3>2. RoomOf(t) = ch.room
      BY <3>1, RoomIs
    <3>3. \A d \in channels : d.id = t.channel => d = ch
      BY <3>1 DEF RoutingInv, OneChannel, Known
    <3> QED BY <2>1, <3>1, <3>2, <3>3 DEF BoundTo
  <2>3. ASSUME NEW t \in tokens' PROVE t \in tokens /\ RoomOf(t)' = RoomOf(t)
    BY <2>1, <2>3, RouteKept
  <2>4. Directions' = {route \in Directions : route[2] # room}
    BY <1>d, <2>1, <2>2, <2>3 DEF Directions
  <2>5. Routes!Evacuate(room)
    BY <2>1, <2>4, SameClaims DEF Routes!Evacuate, Issued
  <2> QED BY <2>5 DEF Routes!Next
\* Requests.
<1>5. ASSUME NEW r \in Requests, NEW t \in tokens, NEW endpoint \in Endpoints,
             FindToken(r, t, endpoint)
      PROVE  Routes!Next \/ UNCHANGED Routes!promised
  <2> DEFINE q == [pc |-> "preload", token |-> t, endpoint |-> endpoint, room |-> NoRoom,
                   grant |-> Entitled(t, endpoint)]
  <2>1. /\ request' = [request EXCEPT ![r] = q] /\ request[r] = NoRequest
        /\ UNCHANGED <<channels, tokens, lastToken>>
    BY <1>5 DEF FindToken, tables, IdleIsEmpty
  <2>2. q.pc = "preload" /\ q.grant = Entitled(t, endpoint)
    OBVIOUS
  <2> HIDE DEF q
  <2>3. PICK ch \in channels : ch.id = t.channel
    BY DEF RoutingInv, TokensHaveChannels, ChannelOf
  <2>4. RoomOf(t) = ch.room /\ ch.room \in Rooms
    BY <2>3, RoomIs
  <2>5. Entitled(t, endpoint) \in {{}, {ch.room}}
    <3>1. \A d \in channels : d.id = t.channel => d = ch
      BY <2>3 DEF RoutingInv, OneChannel, Known
    <3> QED BY <2>3, <3>1 DEF Entitled, ChannelOf
  <2>6. /\ Claims' = [Claims EXCEPT ![r] = Entitled(t, endpoint)]
        /\ Deliveries' = [Deliveries EXCEPT ![r] = {}]
        /\ Claims[r] = {} /\ Deliveries[r] = {}
    <3>1. /\ Claims' = [Claims EXCEPT ![r] = q.grant]
          /\ Deliveries' = [Deliveries EXCEPT ![r] = IF q.pc = "queued" THEN {q.room} ELSE {}]
          /\ Claims[r] = request[r].grant
          /\ Deliveries[r] = IF request[r].pc = "queued" THEN {request[r].room} ELSE {}
      BY <2>1, OneClaim
    <3> QED BY <2>1, <2>2, <3>1 DEF NoRequest
  <2>7. Deliveries' = Deliveries
    BY <2>6 DEF Deliveries
  <2>8. \A u \in tokens : RoomOf(u)' = RoomOf(u)
    BY <2>1, RouteKept
  <2>9. Directions' = Directions /\ Issued' = Issued
    BY <1>d, <2>1, <2>8 DEF Directions, Issued
  <2>10. CASE Entitled(t, endpoint) = {}
    <3>1. Claims' = Claims
      BY <2>6, <2>10 DEF Claims
    <3> QED BY <2>7, <2>9, <3>1 DEF Routes!promised
  <2>11. CASE Entitled(t, endpoint) = {ch.room}
    <3>1. <<t.id, ch.room>> \in Directions
      BY <2>4 DEF Directions
    <3>2. Routes!Show(r, t.id)
      BY <2>4, <2>6, <2>7, <2>9, <2>11, <3>1 DEF Routes!Show
    <3>3. t.id \in 1..MaxTokens
      BY <1>t
    <3> QED BY <3>2, <3>3 DEF Routes!Next
  <2> QED BY <2>5, <2>10, <2>11
<1>6. ASSUME NEW r \in Requests, Preload(r) PROVE UNCHANGED Routes!promised
  <2>1. PICK q : /\ request' = [request EXCEPT ![r] = q]
                 /\ q.pc = "resolve" /\ q.grant = request[r].grant
    <3>1. PICK room : request' = [request EXCEPT ![r].pc = "resolve", ![r].room = room]
      BY <1>6 DEF Preload
    <3> DEFINE w == [request[r] EXCEPT !.pc = "resolve", !.room = room]
    <3>2. request' = [request EXCEPT ![r] = w]
      BY <1>t, <3>1
    <3>3. w.pc = "resolve" /\ w.grant = request[r].grant
      BY <1>t DEF RequestType
    <3> HIDE DEF w
    <3> QED BY <3>2, <3>3
  <2>2. request[r].pc = "preload"
    BY <1>6 DEF Preload
  <2>3. /\ Claims' = [Claims EXCEPT ![r] = Claims[r]]
        /\ Deliveries' = [Deliveries EXCEPT ![r] = Deliveries[r]]
    <3>1. /\ Claims' = [Claims EXCEPT ![r] = q.grant]
          /\ Deliveries' = [Deliveries EXCEPT ![r] = IF q.pc = "queued" THEN {q.room} ELSE {}]
          /\ Claims[r] = request[r].grant
          /\ Deliveries[r] = IF request[r].pc = "queued" THEN {request[r].room} ELSE {}
      BY <2>1, OneClaim
    <3> QED BY <2>1, <2>2, <3>1
  <2>4. Claims' = Claims /\ Deliveries' = Deliveries
    BY <2>3 DEF Claims, Deliveries
  <2>5. UNCHANGED <<channels, tokens, lastToken>>
    BY <1>6 DEF Preload, tables
  <2> QED BY <2>4, <2>5, NothingPromised
<1>7. ASSUME NEW r \in Requests, Queue(r) PROVE Routes!Next
  <2> DEFINE q == [request[r] EXCEPT !.pc = "queued"]
  <2>1. /\ request' = [request EXCEPT ![r] = q] /\ request[r].pc = "resolve"
        /\ UNCHANGED <<channels, tokens, lastToken>>
    BY <1>7, <1>t DEF Queue, tables
  <2>2. q.pc = "queued" /\ q.grant = request[r].grant /\ q.room = request[r].room
    BY <1>t DEF RequestType
  <2>3. request'[r] = q
    BY <1>t, <2>1
  <2> HIDE DEF q
  <2>4. request[r].grant # {} /\ request[r].room \in request[r].grant \cup {NoRoom}
    BY <2>2, <2>3 DEF RoutingInv, RoutedByItsToken
  <2>5. /\ Claims' = [Claims EXCEPT ![r] = Claims[r]]
        /\ Deliveries' = [Deliveries EXCEPT ![r] = {request[r].room}]
        /\ Claims[r] = request[r].grant /\ Deliveries[r] = {}
    <3>1. /\ Claims' = [Claims EXCEPT ![r] = q.grant]
          /\ Deliveries' = [Deliveries EXCEPT ![r] = IF q.pc = "queued" THEN {q.room} ELSE {}]
          /\ Claims[r] = request[r].grant
          /\ Deliveries[r] = IF request[r].pc = "queued" THEN {request[r].room} ELSE {}
      BY <2>1, OneClaim
    <3> QED BY <2>1, <2>2, <3>1
  <2>6. Claims' = Claims
    BY <2>5 DEF Claims
  <2>7. \A u \in tokens : RoomOf(u)' = RoomOf(u)
    BY <2>1, RouteKept
  <2>8. Directions' = Directions /\ Issued' = Issued
    BY <1>d, <2>1, <2>7 DEF Directions, Issued
  <2>9. Routes!Send(r)
    BY <2>4, <2>5, <2>6, <2>8 DEF Routes!Send
  <2> QED BY <2>9 DEF Routes!Next
<1>8. ASSUME NEW r \in Requests, Answer(r) PROVE Routes!Next
  <2>1. request' = [request EXCEPT ![r] = NoRequest] /\ UNCHANGED <<channels, tokens, lastToken>>
    BY <1>8 DEF Answer, tables
  <2>2. Claims' = [Claims EXCEPT ![r] = {}] /\ Deliveries' = [Deliveries EXCEPT ![r] = {}]
    <3>1. /\ Claims' = [Claims EXCEPT ![r] = NoRequest.grant]
          /\ Deliveries' =
               [Deliveries EXCEPT ![r] = IF NoRequest.pc = "queued" THEN {NoRequest.room} ELSE {}]
      BY <2>1, OneClaim
    <3> QED BY <3>1 DEF NoRequest
  <2>3. \A u \in tokens : RoomOf(u)' = RoomOf(u)
    BY <2>1, RouteKept
  <2>4. Directions' = Directions /\ Issued' = Issued
    BY <1>d, <2>1, <2>3 DEF Directions, Issued
  <2>5. Routes!End(r)
    BY <2>2, <2>4 DEF Routes!End
  <2> QED BY <2>5 DEF Routes!Next
\* What no token's route depends on.
<1>9. CASE /\ UNCHANGED <<tokens, lastToken, request>>
           /\ \A ch \in channels : ch \in channels' \/ ~InUse(ch)
  BY <1>9, SameClaims, NothingPromised
<1>10. ASSUME NEW name \in Names, NEW room \in Rooms, CreateChannel(name, room)
       PROVE  UNCHANGED Routes!promised
  BY <1>10, SameClaims, NothingPromised DEF CreateChannel
<1>11. ASSUME NEW ch \in channels, DeleteChannel(ch) PROVE UNCHANGED Routes!promised
  BY <1>11, SameClaims, NothingPromised DEF DeleteChannel
<1>12. ASSUME NEW room \in Rooms, LeaveRoom(room) \/ JoinRoom(room)
       PROVE  UNCHANGED Routes!promised
  BY <1>12, SameClaims, NothingPromised DEF LeaveRoom, JoinRoom, tables
<1>13. ASSUME NEW c \in Creations, CreateTokenFails(c) \/ \E ch \in channels : CreateToken(c, ch)
       PROVE  UNCHANGED Routes!promised
  BY <1>13, SameClaims, NothingPromised DEF CreateTokenFails, CreateToken, tables
<1>14. CASE Tick \/ UNCHANGED vars
  BY <1>9, <1>14 DEF Tick, vars, tables
<1> QED BY <1>1, <1>2, <1>3, <1>4, <1>5, <1>6, <1>7, <1>8, <1>10, <1>11, <1>12, <1>13, <1>14
        DEF Next, Admin, Ingest

\* What the handlers and the tables do is what TokenRoutes allows: a token's
\* route changes by its own administration or the departure from its room
\* alone, and a request follows the route of one moment, however the two reads
\* of ResolveToken and of CreateToken interleave with the rest.
THEOREM RoutesAreKept == Spec => RoutesKept
<1>1. Spec => []RouteInv
  BY InitRouteInv, RouteStep, PTL DEF Spec
<1> QED BY <1>1, RoutesInit, RoutesStep, PTL DEF Spec, RoutesKept, Routes!Spec
==============================================================================
