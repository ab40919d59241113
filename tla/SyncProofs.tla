------------------------------ MODULE SyncProofs ------------------------------
(***************************************************************************)
(* Proofs about Sync for any rooms, servers and bounds.                    *)
(*                                                                         *)
(* The state store only ever errs on one side: every room it calls         *)
(* encrypted is.  A command is not run again because what a process calls  *)
(* recent came after it started, and its loop only moves forward.          *)
(***************************************************************************)
EXTENDS SyncProperties, TLAPS

USE SyncAssumption DEF SyncAssumption

\* A process that is down keeps nothing.
Stopped ==
  pc = "down" =>
    /\ loop = "off" /\ next = 1 /\ recent = {}
    /\ \A s \in Senders : sender[s].pc = "idle"

\* Who calls the helper holds its lock, and was called back before.
HelperInPlace == lock = "call" => callbacks > 0

\* What the store knows, and what events say, is so; rooms stay encrypted.
StoreSound ==
  /\ known \subseteq encrypted
  /\ \A i \in 1..Len(events) :
       events[i].kind = "state" /\ events[i].encrypted => events[i].room \in encrypted

InvitesRecorded ==
  \A i \in 1..Len(events) :
    events[i].kind = "invite" => events[i].from \in invited[events[i].room]

\* What ran and is recent lies behind the loop.
RunsBehind == \A i \in recent : runs[i] > 0 => i < next

\* What a send that has no excuse found, or will find.
SendersInPlace ==
  \A s \in Senders :
    /\ sender[s].pc # "idle" => sender[s].room \in Rooms
    /\ sender[s].pc # "idle" /\ ~sender[s].excused => sender[s].room \in encrypted
    /\ sender[s].pc = "recheck" /\ ~sender[s].excused => sender[s].room \in known

SyncInv ==
  /\ SyncTypeOK /\ Stopped /\ HelperInPlace
  /\ StoreSound /\ InvitesRecorded /\ RunsBehind /\ SendersInPlace
  /\ NeverInTheClear /\ RefusedForCause /\ CommandsRunOnce /\ JoinsTrustedRooms

\* The parts of it, by what they are about.
EventsInv == StoreSound /\ InvitesRecorded /\ RunsBehind /\ CommandsRunOnce
SendingInv == SendersInPlace /\ NeverInTheClear /\ RefusedForCause
ProcessInv == SyncTypeOK /\ Stopped /\ HelperInPlace

LEMMA InitSyncInv == Init => SyncInv
<1> SUFFICES ASSUME Init PROVE SyncInv
  OBVIOUS
<1> USE DEF Init
<1>1. SyncTypeOK
  <2>1. events \in Seq(EventType) /\ Len(events) = 0
    OBVIOUS
  <2>2. runs \in [1..Len(events) -> Nat]
    BY <2>1
  <2>3. sender \in [Senders -> SenderType]
    BY DEF Idle, SenderType, Commands
  <2>4. StaleThreshold + 2 \in 0..StaleThreshold + 2
    OBVIOUS
  <2> HIDE DEF Init
  <2>5. /\ up \in BOOLEAN /\ valid \in BOOLEAN /\ encrypted \subseteq Rooms /\ known \subseteq Rooms
        /\ identity \in Identities
        /\ member \in [Rooms -> {"out", "invited", "joined"}]
        /\ invited \in [Rooms -> SUBSET Servers]
    BY DEF Init, Identities
  <2>6. /\ saved \in 0..Len(events) /\ next \in 1..saved + 1
        /\ recent \subseteq 1..Len(events) /\ callbacks \in Nat /\ faults \in 0..MaxFaults
    BY <2>1 DEF Init
  <2>7. age \in 0..NoSync /\ syncErr \in BOOLEAN /\ pc = "down" /\ loop = "off" /\ lock = "free"
    BY <2>4 DEF Init, NoSync
  <2> QED BY <2>1, <2>2, <2>3, <2>5, <2>6, <2>7 DEF SyncTypeOK
<1>2. Stopped /\ HelperInPlace /\ SendingInv
  BY DEF Stopped, HelperInPlace, SendingInv, SendersInPlace, NeverInTheClear,
         RefusedForCause, Idle
<1>3. EventsInv /\ JoinsTrustedRooms
  BY DEF EventsInv, StoreSound, InvitesRecorded, RunsBehind, CommandsRunOnce, JoinsTrustedRooms
<1> QED BY <1>1, <1>2, <1>3 DEF SyncInv, EventsInv, SendingInv

------------------------------------------------------------------------------
(* What steps have in common. *)

LEMMA EventTypes ==
  ASSUME SyncTypeOK, NEW i \in 1..Len(events)
  PROVE  /\ events[i] \in EventType
         /\ events[i].room \in Rooms /\ events[i].from \in Servers \cup {"self"}
<1>1. events \in Seq(EventType)
  BY DEF SyncTypeOK
<1>2. events[i] \in EventType
  BY <1>1
<1> QED BY <1>2 DEF EventType

\* Nothing happened to an event.
LEMMA EventsKept ==
  ASSUME SyncInv, UNCHANGED <<events, runs>>,
         \A i \in recent' : i \in recent /\ next <= next', next' \in Int,
         encrypted \subseteq encrypted', known' \subseteq encrypted',
         \A room \in Rooms : invited[room] \subseteq invited'[room]
  PROVE  EventsInv'
<1> USE DEF SyncInv
<1>1. \A i \in 1..Len(events) : events[i].room \in Rooms
  BY EventTypes
<1>2. StoreSound' /\ InvitesRecorded'
  BY <1>1 DEF StoreSound, InvitesRecorded
<1>3. CommandsRunOnce'
  BY DEF CommandsRunOnce
<1>4. recent \subseteq 1..Len(events) /\ Len(events) \in Nat /\ next \in Int
  BY DEF SyncTypeOK
<1>5. RunsBehind'
  <2> SUFFICES ASSUME NEW i \in recent', runs[i] > 0 PROVE i < next'
    BY DEF RunsBehind
  <2>1. i \in recent /\ next <= next'
    OBVIOUS
  <2>2. i \in 1..Len(events) /\ next \in Int
    BY <1>4, <2>1
  <2> QED BY <2>1, <2>2 DEF RunsBehind
<1> QED BY <1>2, <1>3, <1>5 DEF EventsInv

\* An event was sent.
LEMMA EmitTypes ==
  ASSUME SyncTypeOK, NEW e \in EventType, Emit(e)
  PROVE  /\ events' \in Seq(EventType) /\ Len(events') = Len(events) + 1
         /\ Len(events) \in Nat
         /\ events'[Len(events) + 1] = e
         /\ \A i \in 1..Len(events) : events'[i] = events[i] /\ runs'[i] = runs[i]
         /\ runs' \in [1..Len(events') -> Nat] /\ runs'[Len(events) + 1] = 0
         /\ recent' \subseteq 1..Len(events')
         /\ recent' \subseteq recent \cup {Len(events) + 1}
<1>1. /\ events \in Seq(EventType) /\ Len(events) \in Nat
      /\ runs \in [1..Len(events) -> Nat] /\ recent \subseteq 1..Len(events)
  BY DEF SyncTypeOK
<1>2. /\ events' = Append(events, e) /\ runs' = Append(runs, 0)
      /\ recent' \subseteq recent \cup {Len(events) + 1}
  BY DEF Emit
<1>3. /\ events' \in Seq(EventType) /\ Len(events') = Len(events) + 1
      /\ events'[Len(events) + 1] = e
      /\ \A i \in 1..Len(events) : events'[i] = events[i]
  BY <1>1, <1>2
<1>4. runs \in Seq(Nat) /\ Len(runs) = Len(events)
  BY <1>1
<1>5. /\ runs' \in Seq(Nat) /\ Len(runs') = Len(events) + 1
      /\ runs'[Len(events) + 1] = 0
      /\ \A i \in 1..Len(events) : runs'[i] = runs[i]
  BY <1>1, <1>2, <1>4
<1>6. runs' \in [1..Len(events') -> Nat]
  BY <1>3, <1>5
<1>7. /\ recent' \subseteq recent \cup {Len(events) + 1}
      /\ recent' \subseteq 1..Len(events')
  <2>1. 1..Len(events) \cup {Len(events) + 1} \subseteq 1..Len(events')
    BY <1>1, <1>3
  <2> QED BY <1>1, <1>2, <2>1
<1> QED BY <1>1, <1>3, <1>5, <1>6, <1>7

LEMMA EventSent ==
  ASSUME SyncInv, NEW e \in EventType, Emit(e), next <= next', next' \in Int,
         encrypted \subseteq encrypted', UNCHANGED known,
         \A room \in Rooms : invited[room] \subseteq invited'[room],
         e.kind = "state" /\ e.encrypted => e.room \in encrypted',
         e.kind = "invite" => e.from \in invited'[e.room]
  PROVE  EventsInv'
<1> USE DEF SyncInv
<1>1. \A i \in 1..Len(events) : events[i].room \in Rooms
  BY EventTypes
<1>2. StoreSound' /\ InvitesRecorded'
  BY <1>1, EmitTypes DEF StoreSound, InvitesRecorded
<1>3. /\ runs \in [1..Len(events) -> Nat] /\ recent \subseteq 1..Len(events)
      /\ next \in Int
  BY DEF SyncTypeOK
<1>4. RunsBehind'
  BY <1>3, EmitTypes DEF RunsBehind
<1>5. CommandsRunOnce'
  <2>1. DOMAIN runs = 1..Len(events) /\ DOMAIN runs' = 1..Len(events')
    BY <1>3, EmitTypes
  <2> QED BY <2>1, EmitTypes DEF CommandsRunOnce
<1> QED BY <1>2, <1>4, <1>5 DEF EventsInv

\* No send did anything.
LEMMA SendersKept ==
  ASSUME SyncInv, UNCHANGED sender, encrypted \subseteq encrypted', known \subseteq known'
  PROVE  SendingInv'
BY DEF SyncInv, SendingInv, SendersInPlace, NeverInTheClear, RefusedForCause

\* Nobody joined, and no invite was forgotten.
LEMMA MembersKept ==
  ASSUME SyncInv,
         \A room \in Rooms : member'[room] = "joined" => member[room] = "joined",
         \A room \in Rooms : invited[room] \subseteq invited'[room]
  PROVE  JoinsTrustedRooms'
BY DEF SyncInv, JoinsTrustedRooms, Trusted

\* Events, sends and what both rest on are as they were.
LEMMA QuietStep ==
  ASSUME SyncInv, ProcessInv', UNCHANGED <<events, runs, encrypted, known, invited, sender>>,
         recent' = recent /\ next <= next' /\ next' \in Int,
         \A room \in Rooms : member'[room] = "joined" => member[room] = "joined"
  PROVE  SyncInv'
<1>1. EventsInv'
  BY EventsKept DEF SyncInv, StoreSound
<1>2. SendingInv' /\ JoinsTrustedRooms'
  BY SendersKept, MembersKept
<1> QED BY <1>1, <1>2 DEF SyncInv, ProcessInv, EventsInv, SendingInv

------------------------------------------------------------------------------
(* The steps. *)

USE DEF server, durable, process, verification, history

\* Steps that touch no event, no send and no room.
LEMMA QuietSteps ==
  ASSUME SyncInv,
         \/ \E room \in Rooms : Remove(room)
         \/ Outage \/ Revoke \/ LoseIdentity \/ RepairIdentity \/ FirstSync \/ Ready \/ SyncEnds
         \/ Processed \/ Replied \/ CallHelper \/ HelperReturns \/ Tick
         \/ CallbackReturns \/ HandleVerification
  PROVE  SyncInv'
<1> USE DEF SyncInv
<1>1. /\ UNCHANGED <<events, runs, encrypted, known, invited, sender, saved, recent>>
      /\ next' = next \/ (Handles("verification") /\ next' = next + 1)
  BY DEF Remove, Outage, Revoke, LoseIdentity, RepairIdentity, FirstSync, Ready, SyncEnds, Processed, Replied, CallHelper,
         HelperReturns, Tick, CallbackReturns, HandleVerification
<1>2. next' \in 1..saved' + 1 /\ next <= next' /\ next' \in Int
  BY <1>1 DEF SyncTypeOK, Handles
<1>3. /\ member' \in [Rooms -> {"out", "invited", "joined"}]
      /\ \A room \in Rooms : member'[room] = "joined" => member[room] = "joined"
  BY DEF SyncTypeOK, Remove, Outage, Revoke, LoseIdentity, RepairIdentity, FirstSync, Ready, SyncEnds, Processed, Replied,
         CallHelper, HelperReturns, Tick, CallbackReturns, HandleVerification
<1>4. /\ up' \in BOOLEAN /\ valid' \in BOOLEAN /\ syncErr' \in BOOLEAN
      /\ age' \in 0..NoSync /\ faults' \in 0..MaxFaults
  <2>1. faults' = faults \/ (faults < MaxFaults /\ faults' = faults + 1)
    BY DEF Remove, Outage, Revoke, LoseIdentity, RepairIdentity, FirstSync, Ready, SyncEnds, Processed, Replied,
           CallHelper, HelperReturns, Tick, CallbackReturns, HandleVerification
  <2>2. age' = age \/ (age <= StaleThreshold /\ age' = age + 1)
    BY DEF Remove, Outage, Revoke, LoseIdentity, RepairIdentity, FirstSync, Ready, SyncEnds, Processed, Replied,
           CallHelper, HelperReturns, Tick, CallbackReturns, HandleVerification
  <2>3. faults' \in 0..MaxFaults /\ age' \in 0..NoSync
    BY <2>1, <2>2 DEF SyncTypeOK, NoSync
  <2>4. up' \in BOOLEAN /\ valid' \in BOOLEAN /\ syncErr' \in BOOLEAN
    BY DEF SyncTypeOK, Remove, Outage, Revoke, LoseIdentity, RepairIdentity, FirstSync, Ready, SyncEnds, Processed, Replied,
           CallHelper, HelperReturns, Tick, CallbackReturns, HandleVerification
  <2> QED BY <2>3, <2>4
<1>5. /\ pc' \in {"down", "starting", "verifying", "serving"}
      /\ loop' \in {"off", "poll", "process", "reply", "callback"}
      /\ callbacks' \in Nat /\ lock' \in {"free", "sync", "call"}
      /\ HelperInPlace' /\ identity' \in Identities
  BY DEF SyncTypeOK, Identities, HelperInPlace, Remove, Outage, Revoke, LoseIdentity, RepairIdentity, FirstSync, Ready, SyncEnds,
         Processed, Replied, CallHelper, HelperReturns, Tick, CallbackReturns, HandleVerification
<1>6. Stopped'
  BY DEF Stopped, Remove, Outage, Revoke, LoseIdentity, RepairIdentity, FirstSync, Ready, SyncEnds, Processed, Replied,
         CallHelper, HelperReturns, Tick, CallbackReturns, HandleVerification, Handles
<1>7. SyncTypeOK'
  BY <1>1, <1>2, <1>3, <1>4, <1>5 DEF SyncTypeOK, NoSync
<1> QED BY <1>1, <1>2, <1>3, <1>5, <1>6, <1>7, QuietStep DEF ProcessInv

\* The process ends.
LEMMA StopInv ==
  ASSUME SyncInv, Stop, faults' \in 0..MaxFaults
  PROVE  SyncInv'
<1> USE DEF SyncInv
<1>1. sender' \in [Senders -> SenderType] /\ \A s \in Senders : sender'[s].pc = "idle"
  BY DEF Stop, Idle, SenderType, Commands
<1>2. NoSync \in 0..NoSync /\ 1 \in 1..saved' + 1
  BY DEF SyncTypeOK, NoSync, Stop
<1>3. identity' \in Identities
  BY DEF Stop, SyncTypeOK
<1>7. SyncTypeOK'
  BY <1>1, <1>2, <1>3 DEF SyncTypeOK, Stop, NoSync
<1>4. Stopped' /\ HelperInPlace' /\ SendingInv'
  BY <1>1 DEF Stop, Stopped, HelperInPlace, SendingInv, SendersInPlace, NeverInTheClear,
              RefusedForCause
<1>5. EventsInv'
  BY EventsKept DEF Stop, StoreSound
<1>6. JoinsTrustedRooms'
  BY MembersKept DEF Stop
<1> QED BY <1>4, <1>5, <1>6, <1>7 DEF ProcessInv, EventsInv, SendingInv

LEMMA RestoreInv == ASSUME SyncInv, Restore PROVE SyncInv'
<1> USE DEF SyncInv
<1>1. pc = "down" /\ next = 1 /\ \A s \in Senders : sender[s].pc = "idle"
  BY DEF Restore, Stopped
<1>2. saved' \in 0..Len(events) /\ next' \in 1..saved' + 1 /\ known' \subseteq known
  <2>1. saved \in 0..Len(events) /\ Len(events) \in Nat
    BY DEF SyncTypeOK
  <2>2. saved' \in 0..saved /\ known' \subseteq known /\ next' = 1
    BY <1>1 DEF Restore
  <2>3. ASSUME NEW len \in Nat, NEW old \in 0..len, NEW new \in 0..old
        PROVE  new \in 0..len /\ 1 \in 1..new + 1
    OBVIOUS
  <2>4. saved' \in 0..Len(events) /\ 1 \in 1..saved' + 1
    BY <2>1, <2>2, <2>3
  <2> QED BY <2>2, <2>4
<1>3. SyncTypeOK'
  <2>1. known' \subseteq Rooms /\ faults' \in 0..MaxFaults /\ identity' \in Identities
    BY <1>2 DEF SyncTypeOK, Restore, Identities
  <2> QED BY <1>2, <2>1 DEF SyncTypeOK, Restore, NoSync
<1>4. Stopped' /\ HelperInPlace' /\ SendingInv'
  BY <1>1 DEF Restore, Stopped, HelperInPlace, SendingInv, SendersInPlace, NeverInTheClear,
              RefusedForCause
<1>5. EventsInv'
  <2>1. UNCHANGED <<events, runs, recent, next, encrypted, invited>>
    BY DEF Restore
  <2>2. next \in Int /\ known' \subseteq encrypted'
    BY <1>2, <2>1 DEF SyncTypeOK, StoreSound
  <2> QED BY <2>1, <2>2, EventsKept
<1>6. JoinsTrustedRooms'
  BY MembersKept DEF Restore
<1> QED BY <1>3, <1>4, <1>5, <1>6 DEF ProcessInv, EventsInv, SendingInv

LEMMA BootInv == ASSUME SyncInv, Boot PROVE SyncInv'
<1> USE DEF SyncInv
<1>1. next = 1 /\ next' = saved + 1 /\ saved' = saved /\ saved \in Nat
  BY DEF Boot, Stopped, SyncTypeOK
<1>2. SyncTypeOK'
  BY <1>1 DEF SyncTypeOK, Boot, NoSync
<1>3. Stopped' /\ HelperInPlace'
  BY DEF Boot, Stopped, HelperInPlace
<1> QED BY <1>1, <1>2, <1>3, QuietStep DEF Boot, ProcessInv

LEMMA SyncResponseInv == ASSUME SyncInv, SyncResponse PROVE SyncInv'
<1> USE DEF SyncInv
<1>1. saved' = Len(events) /\ Len(events) \in Nat /\ next \in 1..saved' + 1 /\ next' = next
  BY DEF SyncResponse, NextToken, SyncTypeOK
<1>2. age' = 0 /\ 0 \in 0..NoSync
  BY DEF SyncResponse, NoSync
<1>3. SyncTypeOK'
  BY <1>1, <1>2 DEF SyncTypeOK, SyncResponse, NoSync
<1>4. Stopped' /\ HelperInPlace'
  BY DEF SyncResponse, Stopped, HelperInPlace
<1>5. next \in Int
  BY <1>1
<1> QED BY <1>1, <1>3, <1>4, <1>5, QuietStep DEF SyncResponse, ProcessInv

\* What an event that is sent leaves of the types.
LEMMA EmitKeepsTypes ==
  ASSUME SyncInv, NEW e \in EventType, Emit(e), UNCHANGED <<saved, next>>
  PROVE  /\ events' \in Seq(EventType) /\ runs' \in [1..Len(events') -> Nat]
         /\ recent' \subseteq 1..Len(events')
         /\ saved' \in 0..Len(events') /\ next' \in 1..saved' + 1
         /\ pc = "down" => recent' = recent
<1>1. SyncTypeOK
  BY DEF SyncInv
<1>2. saved \in 0..Len(events) /\ next \in 1..saved + 1
  BY <1>1 DEF SyncTypeOK
<1> QED BY <1>1, <1>2, EmitTypes DEF Emit

LEMMA InviteInv ==
  ASSUME SyncInv, NEW room \in Rooms, NEW from \in Servers, Invite(room, from)
  PROVE  SyncInv'
<1> DEFINE e == Event("invite", room, from, FALSE, <<>>)
<1> USE DEF SyncInv
<1>1. e \in EventType /\ Emit(e) /\ UNCHANGED <<saved, next, known, encrypted, sender, pc>>
  BY DEF Invite, Event, EventType, Kinds
<1>2. invited' \in [Rooms -> SUBSET Servers] /\ from \in invited'[room]
      /\ \A r \in Rooms : invited[r] \subseteq invited'[r]
  BY DEF Invite, SyncTypeOK
<1>3. /\ member' \in [Rooms -> {"out", "invited", "joined"}]
      /\ \A r \in Rooms : member'[r] = "joined" => member[r] = "joined"
  BY DEF Invite, SyncTypeOK
<1> HIDE DEF e
<1>4. SyncTypeOK'
  BY <1>1, <1>2, <1>3, EmitKeepsTypes DEF SyncTypeOK, Invite, NoSync
<1>5. Stopped' /\ HelperInPlace'
  BY <1>1, EmitKeepsTypes DEF Stopped, HelperInPlace, Invite
<1>6. EventsInv'
  <2>1. e.kind = "invite" /\ e.room = room /\ e.from = from
    BY DEF e, Event
  <2> QED BY <1>1, <1>2, <2>1, EventSent DEF SyncTypeOK
<1>7. SendingInv' /\ JoinsTrustedRooms'
  BY <1>1, <1>2, <1>3, SendersKept, MembersKept
<1> QED BY <1>4, <1>5, <1>6, <1>7 DEF ProcessInv, EventsInv, SendingInv

\* Write and Verify, and Encrypt in a room the bot is in.
LEMMA RoomEventInv ==
  ASSUME SyncInv, NEW e \in EventType, Emit(e), e.kind # "invite",
         e.kind = "state" => e.room \in encrypted',
         encrypted \subseteq encrypted', encrypted' \subseteq Rooms,
         UNCHANGED <<up, valid, member, durable, pc, age, syncErr, loop, next,
                     sender, verification, invited, faults>>
  PROVE  SyncInv'
<1> USE DEF SyncInv
<1>1. SyncTypeOK'
  BY EmitKeepsTypes DEF SyncTypeOK, NoSync
<1>2. Stopped' /\ HelperInPlace'
  BY EmitKeepsTypes DEF Stopped, HelperInPlace
<1>3. EventsInv'
  BY EventSent DEF SyncTypeOK
<1>4. SendingInv' /\ JoinsTrustedRooms'
  BY SendersKept, MembersKept
<1> QED BY <1>1, <1>2, <1>3, <1>4 DEF ProcessInv, EventsInv, SendingInv

LEMMA RoomEvents ==
  ASSUME SyncInv, NEW room \in Rooms,
         \/ Encrypt(room) \/ Verify(room)
         \/ \E body \in Bodies, enc \in BOOLEAN : Write(room, body, enc)
  PROVE  SyncInv'
<1>0. encrypted \subseteq Rooms
  BY DEF SyncInv, SyncTypeOK
<1>1. ASSUME NEW body \in Bodies, NEW enc \in BOOLEAN, Write(room, body, enc) PROVE SyncInv'
  <2> DEFINE e == Event("message", room, OwnServer, enc, body)
  <2>1. e \in EventType /\ e.kind = "message" /\ Emit(e)
    BY <1>1 DEF Write, Event, EventType, Kinds
  <2> HIDE DEF e
  <2> QED BY <1>0, <1>1, <2>1, RoomEventInv DEF Write
<1>2. CASE Verify(room)
  <2> DEFINE e == Event("verification", room, OwnServer, TRUE, <<>>)
  <2>1. e \in EventType /\ e.kind = "verification" /\ Emit(e)
    BY <1>2 DEF Verify, Event, EventType, Kinds
  <2> HIDE DEF e
  <2> QED BY <1>0, <1>2, <2>1, RoomEventInv DEF Verify
<1>3. CASE Encrypt(room) /\ member[room] = "joined"
  <2> DEFINE e == Event("state", room, OwnServer, TRUE, <<>>)
  <2>1. e \in EventType /\ e.kind = "state" /\ e.room = room /\ Emit(e)
    BY <1>3 DEF Encrypt, Event, EventType, Kinds
  <2>2. encrypted' = encrypted \cup {room}
    BY <1>3 DEF Encrypt
  <2> HIDE DEF e
  <2> QED BY <1>0, <1>3, <2>1, <2>2, RoomEventInv DEF Encrypt
<1>4. CASE Encrypt(room) /\ member[room] # "joined"
  <2>1. /\ encrypted' = encrypted \cup {room} /\ encrypted' \subseteq Rooms
        /\ UNCHANGED <<up, valid, member, events, durable, process, loop, next,
                       sender, verification, history>>
    BY <1>0, <1>4 DEF Encrypt
  <2>2. SyncTypeOK' /\ Stopped' /\ HelperInPlace'
    BY <2>1 DEF SyncInv, SyncTypeOK, Stopped, HelperInPlace, NoSync
  <2>3. next \in Int /\ next <= next
    BY DEF SyncInv, SyncTypeOK
  <2>4. EventsInv'
    BY <2>1, <2>3, EventsKept DEF SyncInv, StoreSound
  <2>5. SendingInv' /\ JoinsTrustedRooms'
    BY <2>1, SendersKept, MembersKept
  <2> QED BY <2>2, <2>4, <2>5 DEF SyncInv, EventsInv, SendingInv
<1> QED BY <1>1, <1>2, <1>3, <1>4

LEMMA StoreStateInv == ASSUME SyncInv, StoreState PROVE SyncInv'
<1> USE DEF SyncInv
<1>1. /\ next \in 1..Len(events) /\ next <= saved /\ next' = next + 1
      /\ saved' = saved /\ saved \in 0..Len(events) /\ Len(events) \in Nat
  BY DEF StoreState, Handles, SyncTypeOK
<1>2. events[next].kind = "state" /\ events[next].room \in Rooms
  BY <1>1, EventTypes DEF StoreState, Handles
<1>3. known \subseteq known' /\ known' \subseteq encrypted /\ known' \subseteq Rooms
  BY <1>1, <1>2 DEF StoreState, StoreSound, SyncTypeOK
<1>4. next' \in 1..saved' + 1 /\ next' \in Int /\ next <= next'
  BY <1>1
<1>5. SyncTypeOK' /\ Stopped' /\ HelperInPlace'
  BY <1>3, <1>4 DEF SyncTypeOK, StoreState, Handles, Stopped, HelperInPlace, NoSync
<1>6. EventsInv'
  BY <1>3, <1>4, EventsKept DEF StoreState
<1>7. SendingInv' /\ JoinsTrustedRooms'
  BY <1>3, SendersKept, MembersKept DEF StoreState
<1> QED BY <1>5, <1>6, <1>7 DEF EventsInv, SendingInv

\* Who may invite the bot is trusted.
LEMMA AllowedIsTrusted ==
  ASSUME NEW from, InviterAllowed(from) PROVE from \in Trusted
BY DEF InviterAllowed, Trusted

LEMMA HandleMemberInv == ASSUME SyncInv, HandleMember PROVE SyncInv'
<1> DEFINE room == events[next].room
           e == Event("state", room, OwnServer, room \in encrypted, <<>>)
<1> USE DEF SyncInv
<1>1. /\ next \in 1..Len(events) /\ next <= saved /\ next' = next + 1
      /\ saved' = saved /\ saved \in 0..Len(events) /\ Len(events) \in Nat
      /\ loop = "process" /\ next' \in 1..saved' + 1 /\ next' \in Int /\ next <= next'
  BY DEF HandleMember, Handles, SyncTypeOK
<1>2. /\ events[next].kind = "invite" /\ room \in Rooms
      /\ events[next].from \in invited[room]
  BY <1>1, EventTypes DEF HandleMember, Handles, InvitesRecorded
<1>3. pc # "down"
  BY <1>1 DEF Stopped
<1>4. UNCHANGED <<up, valid, encrypted, durable, pc, age, syncErr, loop, sender,
                  verification, invited, faults>>
  BY DEF HandleMember
<1>5. SendingInv'
  BY <1>4, SendersKept
<1>6. CASE UNCHANGED <<events, runs, recent>> /\ member' = member
  <2>1. SyncTypeOK' /\ Stopped' /\ HelperInPlace'
    BY <1>1, <1>3, <1>4, <1>6 DEF SyncTypeOK, Stopped, HelperInPlace, NoSync
  <2> QED BY <1>1, <1>4, <1>6, <2>1, QuietStep DEF ProcessInv
<1>7. CASE UNCHANGED <<events, runs, recent>> /\ member' = [member EXCEPT ![room] = "out"]
  <2>1. /\ member' \in [Rooms -> {"out", "invited", "joined"}]
        /\ \A r \in Rooms : member'[r] = "joined" => member[r] = "joined"
    BY <1>2, <1>7 DEF SyncTypeOK
  <2>2. SyncTypeOK' /\ Stopped' /\ HelperInPlace'
    BY <1>1, <1>3, <1>4, <1>7, <2>1 DEF SyncTypeOK, Stopped, HelperInPlace, NoSync
  <2> QED BY <1>1, <1>4, <1>7, <2>1, <2>2, QuietStep DEF ProcessInv
<1>8. CASE /\ InviterAllowed(events[next].from)
           /\ member' = [member EXCEPT ![room] = "joined"] /\ Emit(e)
  <2>1. e \in EventType /\ e.kind = "state" /\ e.room = room /\ (e.encrypted => room \in encrypted)
    <3>1. CASE room \in encrypted
      <4>1. e = Event("state", room, OwnServer, TRUE, <<>>)
        BY <3>1 DEF Event
      <4> QED BY <1>2, <3>1, <4>1 DEF Event, EventType, Kinds
    <3>2. CASE room \notin encrypted
      <4>1. (room \in encrypted) = FALSE
        BY <3>2
      <4>2. e = Event("state", room, OwnServer, FALSE, <<>>)
        BY <4>1, Zenon
      <4> HIDE DEF e
      <4> QED BY <1>2, <3>2, <4>2 DEF Event, EventType, Kinds
    <3> QED BY <3>1, <3>2
  <2> HIDE DEF e
  <2>2. /\ events' \in Seq(EventType) /\ runs' \in [1..Len(events') -> Nat]
        /\ recent' \subseteq 1..Len(events') /\ Len(events') = Len(events) + 1
    BY <1>8, <2>1, EmitTypes
  <2>3. member' \in [Rooms -> {"out", "invited", "joined"}]
    BY <1>2, <1>8 DEF SyncTypeOK
  <2>4. saved' \in 0..Len(events')
    BY <1>1, <2>2
  <2>5. SyncTypeOK' /\ Stopped' /\ HelperInPlace'
    BY <1>1, <1>3, <1>4, <2>2, <2>3, <2>4 DEF SyncTypeOK, Stopped, HelperInPlace, NoSync
  <2>6. EventsInv'
    BY <1>1, <1>4, <1>8, <2>1, EventSent
  <2>7. events[next].from \in invited[room] \cap Trusted
    BY <1>2, <1>8, AllowedIsTrusted
  <2>8. JoinsTrustedRooms'
    BY <1>2, <1>4, <1>8, <2>7 DEF JoinsTrustedRooms, SyncTypeOK, Trusted
  <2> QED BY <1>5, <2>5, <2>6, <2>8 DEF EventsInv, SendingInv
<1> QED BY <1>6, <1>7, <1>8 DEF HandleMember, JoinRoom, LeaveRoom

\* A command has a name.
LEMMA CommandTypes ==
  ASSUME NEW body \in Bodies \cup {<<>>} PROVE ParseCommand(body) \in Commands
BY DEF ParseCommand, Commands

\* What a send may become.
SendsSafely(rec) ==
  /\ rec.pc # "idle" => rec.room \in Rooms
  /\ rec.pc # "idle" /\ ~rec.excused => rec.room \in encrypted
  /\ rec.pc = "recheck" /\ ~rec.excused => rec.room \in known'
  /\ rec.pc = "send" => rec.room \in encrypted
  /\ rec.pc = "refused" => rec.excused

LEMMA OneSender ==
  ASSUME SyncInv, NEW s \in Senders, NEW rec \in SenderType, SendsSafely(rec),
         sender' = [sender EXCEPT ![s] = rec],
         encrypted' = encrypted, known \subseteq known'
  PROVE  /\ SendingInv' /\ sender' \in [Senders -> SenderType]
         /\ \A t \in Senders \ {s} : sender'[t] = sender[t]
<1>1. sender \in [Senders -> SenderType]
  BY DEF SyncInv, SyncTypeOK
<1>2. sender'[s] = rec /\ \A t \in Senders \ {s} : sender'[t] = sender[t]
  BY <1>1
<1>3. SendersInPlace'
  BY <1>2 DEF SyncInv, SendersInPlace, SendsSafely
<1>4. NeverInTheClear' /\ RefusedForCause'
  BY <1>2 DEF SyncInv, NeverInTheClear, RefusedForCause, SendsSafely
<1> QED BY <1>1, <1>2, <1>3, <1>4 DEF SendingInv

\* A command, or anything else that is sent, begins.
LEMMA BeginSafe ==
  ASSUME SyncInv, NEW s \in Senders, NEW room \in Rooms, NEW command \in Commands,
         Begin(s, room, command)
  PROVE  \E rec \in SenderType :
           SendsSafely(rec) /\ rec.pc # "idle" /\ sender' = [sender EXCEPT ![s] = rec]
<1> DEFINE rec == [pc |-> "check", room |-> room, command |-> command,
                   excused |-> member[room] # "joined" \/ room \notin encrypted]
<1>1. rec \in SenderType
  BY DEF SenderType
<1>2. SendsSafely(rec)
  BY DEF SendsSafely
<1> QED BY <1>1, <1>2 DEF Begin

LEMMA HandleMessageInv == ASSUME SyncInv, HandleMessage PROVE SyncInv'
<1> USE DEF SyncInv
<1>1. /\ next \in 1..Len(events) /\ next' = next + 1 /\ loop = "process"
      /\ saved' = saved /\ next' \in 1..saved' + 1 /\ next' \in Int /\ next <= next'
  BY DEF HandleMessage, Handles, SyncTypeOK
<1>2. pc # "down" /\ UNCHANGED <<server, durable, process, verification, invited, faults>>
  BY <1>1 DEF HandleMessage, Stopped
<1>3. JoinsTrustedRooms'
  BY <1>2, MembersKept
<1>4. CASE ~Heeded(next)
  <2>1. UNCHANGED <<sender, runs, loop>>
    BY <1>4 DEF HandleMessage
  <2>2. SyncTypeOK' /\ Stopped' /\ HelperInPlace'
    BY <1>1, <1>2, <2>1 DEF SyncTypeOK, Stopped, HelperInPlace, NoSync
  <2> QED BY <1>1, <1>2, <2>1, <2>2, QuietStep DEF ProcessInv
<1>5. CASE Heeded(next)
  <2>1. /\ Begin("command", events[next].room, ParseCommand(events[next].body))
        /\ runs' = [runs EXCEPT ![next] = @ + 1] /\ loop' = "reply"
    BY <1>5 DEF HandleMessage
  <2>2. events[next].room \in Rooms /\ events[next].body \in Bodies \cup {<<>>}
    BY <1>1, EventTypes DEF EventType
  <2>3. PICK rec \in SenderType :
          SendsSafely(rec) /\ sender' = [sender EXCEPT !["command"] = rec]
    BY <2>1, <2>2, CommandTypes, BeginSafe DEF Senders
  <2>4. SendingInv' /\ sender' \in [Senders -> SenderType]
    BY <1>2, <2>3, OneSender DEF Senders
  <2>5. runs \in [1..Len(events) -> Nat] /\ runs' \in [1..Len(events) -> Nat]
    BY <1>1, <2>1 DEF SyncTypeOK
  <2>6. SyncTypeOK' /\ Stopped' /\ HelperInPlace'
    BY <1>1, <1>2, <2>1, <2>4, <2>5 DEF SyncTypeOK, Stopped, HelperInPlace, NoSync
  <2>7. StoreSound' /\ InvitesRecorded'
    BY <1>2 DEF StoreSound, InvitesRecorded
  <2>8. RunsBehind'
    <3>1. recent \subseteq 1..Len(events)
      BY DEF SyncTypeOK
    <3> QED BY <1>1, <1>2, <2>1, <2>5, <3>1 DEF RunsBehind
  <2>9. CommandsRunOnce'
    <3>1. runs[next] = 0
      <4>1. next \in recent
        BY <1>5 DEF Heeded
      <4>2. runs[next] \in Nat /\ next \in Int
        BY <1>1, <2>5
      <4>3. ~(next < next)
        BY <4>2
      <4> QED BY <4>1, <4>2, <4>3 DEF RunsBehind
    <3>2. \A i \in 1..Len(events) : runs'[i] = IF i = next THEN 1 ELSE runs[i]
      BY <1>1, <2>1, <2>5, <3>1
    <3>3. events[next].from # "self" /\ events[next].encrypted
      BY <1>5 DEF Heeded
    <3> QED BY <1>2, <2>5, <3>2, <3>3 DEF CommandsRunOnce
  <2> QED BY <1>3, <2>4, <2>6, <2>7, <2>8, <2>9 DEF SendingInv
<1> QED BY <1>4, <1>5

\* A step of a send that changes nothing but what the state store knows.
LEMMA SendStep ==
  ASSUME SyncInv, NEW s \in Senders, NEW rec \in SenderType, SendsSafely(rec),
         sender' = [sender EXCEPT ![s] = rec],
         UNCHANGED <<server, saved, identity, process, loop, next, verification, runs, invited>>,
         faults' \in 0..MaxFaults, pc # "down", known \subseteq known', known' \subseteq encrypted
  PROVE  SyncInv'
<1> USE DEF SyncInv
<1>1. SendingInv' /\ sender' \in [Senders -> SenderType]
  BY OneSender
<1>2. known' \subseteq Rooms /\ next \in Int /\ next <= next
  BY DEF SyncTypeOK
<1>3. SyncTypeOK' /\ Stopped' /\ HelperInPlace'
  BY <1>1, <1>2 DEF SyncTypeOK, Stopped, HelperInPlace, NoSync
<1>4. EventsInv' /\ JoinsTrustedRooms'
  BY <1>2, EventsKept, MembersKept
<1> QED BY <1>1, <1>3, <1>4 DEF EventsInv, SendingInv

LEMMA DeliverInv == ASSUME SyncInv, NEW room \in Rooms, Deliver(room) PROVE SyncInv'
<1>1. PICK rec \in SenderType :
        SendsSafely(rec) /\ sender' = [sender EXCEPT !["dispatcher"] = rec]
  BY BeginSafe DEF Deliver, Senders, Commands
<1> QED BY <1>1, SendStep DEF Deliver, Senders, SyncInv, SyncTypeOK, StoreSound

\* What is known of a send under way.
LEMMA SendUnderWay ==
  ASSUME SyncInv, NEW s \in Senders, sender[s].pc # "idle"
  PROVE  /\ sender[s] \in SenderType /\ sender[s].room \in Rooms /\ pc # "down"
         /\ ~sender[s].excused => sender[s].room \in encrypted
         /\ known \subseteq encrypted
BY DEF SyncInv, SyncTypeOK, SendersInPlace, Stopped, StoreSound

\* Every step of a send but its transmission.
LEMMA SendingSteps ==
  ASSUME SyncInv, NEW s \in Senders,
         CheckRoom(s) \/ StoreFails(s) \/ RefetchState(s) \/ RefetchFails(s) \/ RecheckRoom(s) \/ GiveUp(s)
  PROVE  SyncInv'
<1>1. /\ sender[s].pc # "idle"
      /\ UNCHANGED <<server, saved, identity, process, loop, next, verification, runs, invited>>
      /\ faults' \in 0..MaxFaults
  BY DEF CheckRoom, StoreFails, RefetchState, RefetchFails, RecheckRoom, GiveUp,
         SyncInv, SyncTypeOK
<1>2. /\ sender \in [Senders -> SenderType]
      /\ sender[s] \in SenderType /\ sender[s].room \in Rooms /\ pc # "down"
      /\ ~sender[s].excused => sender[s].room \in encrypted
      /\ known \subseteq encrypted
  BY <1>1, SendUnderWay DEF SyncInv, SyncTypeOK
<1>3. ASSUME NEW label \in {"refetch", "recheck", "send", "refused"}, Goto(s, label),
             known \subseteq known', known' \subseteq encrypted,
             label = "send" => sender[s].room \in encrypted,
             label = "recheck" /\ ~sender[s].excused => sender[s].room \in known',
             label = "refused" => sender[s].excused
      PROVE  SyncInv'
  <2> DEFINE rec == [sender[s] EXCEPT !.pc = label]
  <2>1. /\ rec \in SenderType /\ rec.pc = label
        /\ rec.room = sender[s].room /\ rec.excused = sender[s].excused
    BY <1>2 DEF SenderType
  <2>2. sender' = [sender EXCEPT ![s] = rec]
    BY <1>3 DEF Goto
  <2> HIDE DEF rec
  <2>3. SendsSafely(rec)
    BY <1>2, <1>3, <2>1 DEF SendsSafely
  <2> QED BY <1>1, <1>2, <1>3, <2>1, <2>2, <2>3, SendStep
<1>4. CASE CheckRoom(s)
  <2>1. UNCHANGED known
    BY <1>4 DEF CheckRoom
  <2>2. CASE sender[s].room \in known
    BY <1>2, <1>3, <1>4, <2>1, <2>2 DEF CheckRoom
  <2>3. CASE sender[s].room \notin known
    BY <1>2, <1>3, <1>4, <2>1, <2>3 DEF CheckRoom, Unknown
  <2> QED BY <2>2, <2>3
<1>5. CASE RefetchState(s)
  <2>1. known' = known \cup ({sender[s].room} \cap encrypted) /\ Goto(s, "recheck")
    BY <1>5 DEF RefetchState
  <2> QED BY <1>2, <1>3, <2>1
<1>6. CASE StoreFails(s) \/ RefetchFails(s)
  <2> DEFINE rec == [sender[s] EXCEPT !.pc = "refused", !.excused = TRUE]
  <2>1. rec \in SenderType /\ rec.pc = "refused" /\ rec.room \in Rooms /\ rec.excused
    BY <1>2 DEF SenderType
  <2>2. sender' = [sender EXCEPT ![s] = rec] /\ UNCHANGED known
    BY <1>6 DEF StoreFails, RefetchFails, AfterRefetchError
  <2> HIDE DEF rec
  <2>3. SendsSafely(rec)
    BY <2>1 DEF SendsSafely
  <2> QED BY <1>1, <1>2, <2>1, <2>2, <2>3, SendStep
<1>7. CASE RecheckRoom(s)
  <2>1. UNCHANGED known /\ (~sender[s].excused => sender[s].room \in known)
    BY <1>7 DEF RecheckRoom, SyncInv, SendersInPlace
  <2>2. CASE sender[s].room \in known
    BY <1>2, <1>3, <1>7, <2>1, <2>2 DEF RecheckRoom
  <2>3. CASE sender[s].room \notin known
    BY <1>2, <1>3, <1>7, <2>1, <2>3 DEF RecheckRoom
  <2> QED BY <2>2, <2>3
<1>8. CASE GiveUp(s)
  <2>1. UNCHANGED known
    BY <1>8 DEF GiveUp
  <2>2. CASE sender[s].command = "test"
    <3>1. PICK rec \in SenderType :
            SendsSafely(rec) /\ sender' = [sender EXCEPT ![s] = rec]
      BY <1>2, <1>8, <2>2, BeginSafe DEF GiveUp, Commands
    <3> QED BY <1>1, <1>2, <2>1, <3>1, SendStep
  <2>3. CASE sender[s].command # "test"
    <3>1. Idle \in SenderType /\ SendsSafely(Idle)
      BY DEF Idle, SenderType, Commands, SendsSafely
    <3>2. sender' = [sender EXCEPT ![s] = Idle]
      BY <1>8, <2>3 DEF GiveUp
    <3> QED BY <1>1, <1>2, <2>1, <3>1, <3>2, SendStep
  <2> QED BY <2>2, <2>3
<1> QED BY <1>4, <1>5, <1>6, <1>7, <1>8

LEMMA TransmitInv == ASSUME SyncInv, NEW s \in Senders, Transmit(s) PROVE SyncInv'
<1> USE DEF SyncInv
<1>1. /\ sender[s].room \in Rooms /\ pc # "down" /\ sender' = [sender EXCEPT ![s] = Idle]
      /\ known \subseteq encrypted
      /\ UNCHANGED <<up, valid, member, encrypted, durable, pc, age, syncErr, loop, next,
                     verification, invited, faults>>
  BY SendUnderWay DEF Transmit
<1>2. Idle \in SenderType /\ SendsSafely(Idle)
  BY DEF Idle, SenderType, Commands, SendsSafely
<1>3. CASE UNCHANGED <<events, runs, recent>>
  BY <1>1, <1>2, <1>3, SendStep DEF SyncTypeOK
<1>4. ASSUME NEW body \in Bodies,
             Emit(Event("message", sender[s].room, "self", TRUE, body))
      PROVE  SyncInv'
  <2> DEFINE e == Event("message", sender[s].room, "self", TRUE, body)
  <2>1. e \in EventType /\ e.kind = "message"
    BY <1>1 DEF Event, EventType, Kinds
  <2> HIDE DEF e
  <2>2. Emit(e)
    BY <1>4 DEF e
  <2>3. SendingInv' /\ sender' \in [Senders -> SenderType]
    BY <1>1, <1>2, OneSender
  <2>4. SyncTypeOK'
    BY <1>1, <2>1, <2>2, <2>3, EmitKeepsTypes DEF SyncTypeOK, NoSync
  <2>5. Stopped' /\ HelperInPlace'
    BY <1>1 DEF Stopped, HelperInPlace
  <2>6. EventsInv'
    BY <1>1, <2>1, <2>2, EventSent DEF SyncTypeOK
  <2>7. JoinsTrustedRooms'
    BY <1>1, MembersKept
  <2> QED BY <2>3, <2>4, <2>5, <2>6, <2>7 DEF EventsInv, SendingInv
<1> QED BY <1>3, <1>4 DEF Transmit

------------------------------------------------------------------------------

LEMMA NextSyncInv == SyncInv /\ [Next]_vars => SyncInv'
<1> SUFFICES ASSUME SyncInv, [Next]_vars PROVE SyncInv'
  OBVIOUS
<1>0. faults \in 0..MaxFaults /\ (faults < MaxFaults => faults + 1 \in 0..MaxFaults)
  BY DEF SyncInv, SyncTypeOK
<1>1. CASE World
  BY <1>0, <1>1, InviteInv, RoomEvents, DeliverInv, QuietSteps, RestoreInv, StopInv DEF World, Crash
<1>2. CASE Main
  BY <1>0, <1>2, BootInv, QuietSteps, StopInv DEF Main, FirstSyncFails, NotVerified, SyncDied
<1>3. CASE Loop
  BY <1>3, SyncResponseInv, QuietSteps, StoreStateInv, HandleMemberInv, HandleMessageInv DEF Loop
<1>4. CASE CallHelper \/ HelperReturns \/ Tick
  BY <1>4, QuietSteps
<1>5. ASSUME NEW s \in Senders, Sending(s) PROVE SyncInv'
  BY <1>5, SendingSteps, TransmitInv DEF Sending
<1>6. CASE UNCHANGED vars
  <2>1. SyncTypeOK' /\ Stopped' /\ HelperInPlace'
    BY <1>6 DEF vars, SyncInv, SyncTypeOK, Stopped, HelperInPlace, NoSync
  <2> QED BY <1>6, <2>1, QuietStep DEF vars, ProcessInv, SyncInv, SyncTypeOK
<1> QED BY <1>1, <1>2, <1>3, <1>4, <1>5, <1>6 DEF Next

LEMMA Invariance == Spec => []SyncInv
BY InitSyncInv, NextSyncInv, PTL DEF Spec

\* The variables keep their types; the token never points beyond the events
\* (bot.go:131-190, main.go:127-218).
THEOREM SyncTypeCorrect == Spec => []SyncTypeOK
BY Invariance, PTL DEF SyncInv

\* No message goes out to a room that is not encrypted, whatever the state
\* store has missed (roomEncrypted, bot.go:423-434).
THEOREM NothingSentInTheClear == Spec => []NeverInTheClear
BY Invariance, PTL DEF SyncInv

\* An encrypted room is refused only if the homeserver would not say what it
\* is: losing the events of a response poisons nothing (bot.go:417-434).
THEOREM NothingRefusedWithoutCause == Spec => []RefusedForCause
BY Invariance, PTL DEF SyncInv

\* However often an event is delivered, its command is run at most once, and
\* only if a person sent it encrypted (handleMessage, commands.go:37-64).
THEOREM NoCommandRunsTwice == Spec => []CommandsRunOnce
BY Invariance, PTL DEF SyncInv

\* The bot is in no room but those a user of an allowed homeserver invited it
\* to (handleMember, InviterAllowed, bot.go:586-623).
THEOREM OnlyTrustedRooms == Spec => []JoinsTrustedRooms
BY Invariance, PTL DEF SyncInv
=============================================================================
