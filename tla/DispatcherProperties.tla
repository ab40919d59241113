------------------------ MODULE DispatcherProperties ------------------------
(***************************************************************************)
(* What should be true of the outbox: the properties the runs check and    *)
(* DispatcherProofs proves.                                                *)
(***************************************************************************)
EXTENDS Dispatcher

RowType == [status : Statuses, attempts : Nat, wait : 0..BackoffCap, age : 0..AgeCap]
MappingType == [event : Nat, age : 0..AgeCap]
MessageType == [by : Ids, shows : Ids, image : BOOLEAN, room : Rooms]

\* The types of the two tables, the rooms and the process.
TypeOK ==
  /\ outbox \in [Ids -> RowType]
  /\ notice \in [Ids -> NoticeType]
  /\ alerts \in [Rooms -> [Fingerprints -> MappingType]]
  /\ timeline \in Seq(MessageType)
  /\ shown \in SUBSET Ids
  /\ pc \in {"boot", "idle", "drain", "counting", "each"} \cup Attempting
  /\ batch \in SUBSET Ids
  /\ seen \in [Ids -> Nat]
  /\ target \in Nat
  /\ kick \in BOOLEAN
  /\ owed \in Nat
  /\ faults \in Nat
  /\ missed \in BOOLEAN

------------------------------------------------------------------------------
(* The queue. *)

\* The structs drain iterates over were copied up to 32 one-minute attempts
\* ago; each still says what its row says: pending, due and with that many
\* attempts (drain reads at outbox.go:112 and uses at :124, :134).
SnapshotsFresh ==
  \A id \in batch : IsDue(outbox, id) /\ outbox[id].attempts = seen[id]

\* While Run sleeps or is about to, a row no attempt has been recorded for since it was
\* queued or requeued has its wake-up coming: a token in the kick channel,
\* or a handler about to send one, unless the last SELECT failed
\* (outbox.go:76-82, 95-105; Enqueue and RetryDelivery kick after commit).
NoLostWakeup ==
  /\ pc \in {"counting", "idle"}
  /\ \E id \in Ids : outbox[id].status = "pending" /\ outbox[id].attempts = 0
  => kick \/ owed > 0 \/ missed

\* The rest of the inductive invariant NoLostWakeup and SnapshotsFresh need:
\* a batch exists exactly while its entries are attempted, and a row that no
\* attempt has been recorded for is due.
BatchInPlace == batch = {} <=> pc \in {"boot", "idle", "drain", "counting"}
FreshIsDue ==
  \A id \in Ids : outbox[id].status = "pending" /\ outbox[id].attempts = 0
                  => outbox[id].wait = 0
QueueInv == SnapshotsFresh /\ BatchInPlace /\ FreshIsDue /\ NoLostWakeup

\* Every message of an entry beyond its first is paid for by a fault of its
\* own: a lost reply, a failed UPDATE or a crash costs at most one duplicate
\* (attempt, outbox.go:132-156).
DuplicatesBounded ==
  Len(timeline) <= Cardinality({timeline[ev].by : ev \in 1..Len(timeline)}) + faults

\* Nothing is posted for a row that says delivered (RequeueOutbox: "re-sending
\* a delivered one would duplicate the notification", store/outbox.go:125).
NeverResendDelivered ==
  [][\A ev \in DOMAIN timeline' \ DOMAIN timeline :
       outbox[timeline'[ev].by].status # "delivered"]_vars

\* No overtaking: while a notification waits for its first attempt, none
\* accepted after it is delivered.  Failed UPDATEs, test sends and requeued
\* rows excepted (ORDER BY id in DueOutbox, one Run).
NoOvertaking ==
  faults = 0 /\ AdminCalls = {} =>
    \A i, j \in Ids :
      i < j /\ outbox[i].status = "pending" /\ outbox[i].attempts = 0
      => outbox[j].status # "delivered"

\* The outbox keeps the promise of DurableDelivery at every step.
Promise == INSTANCE DurableDelivery WITH status <- [id \in Ids |-> outbox[id].status]
KeepsPromise == Promise!Spec

\* Every accepted notification is settled, delivered or failed, whatever the
\* homeserver does and though the process crash and the database fail a few
\* times (README "Durable delivery").
EveryEntrySettles ==
  \A id \in Ids : outbox[id].status = "pending" ~> outbox[id].status # "pending"

------------------------------------------------------------------------------
(* Alert messages. *)

Announces(ev, room, fp) ==
  /\ timeline[ev].room = room
  /\ fp \in notice[timeline[ev].by].fires

\* A mapping names a text message of that room which announced that alert as
\* firing (RecordAlertMessages is called with the event Send returned).
MappingsSound ==
  \A room \in Rooms, fp \in Fingerprints :
    LET ev == alerts[room][fp].event
    IN  ev # 0 => ev \in 1..Len(timeline) /\ ~timeline[ev].image /\ Announces(ev, room, fp)

\* An edit pings nobody: the rendering a message carries shows no firing
\* alert that its own post did not announce, stays in the entry's room and
\* never replaces an image (editTarget, outbox.go:212-220).
EditsAnnounceNothing ==
  \A ev \in 1..Len(timeline) :
    LET m == timeline[ev] IN
    /\ notice[m.shows].fires \subseteq notice[m.by].fires
    /\ notice[m.shows].room = m.room
    /\ m.image => m.shows = m.by

\* Somebody was pinged for every alert a delivered notification calls firing:
\* some message of the room was posted, not edited, to announce it.
FiringAlertsArePosted ==
  \A id \in Ids : outbox[id].status = "delivered" =>
    \A fp \in notice[id].fires :
      \E ev \in 1..Len(timeline) : Announces(ev, notice[id].room, fp)

Newest(ev, room, fp) ==
  /\ Announces(ev, room, fp)
  /\ \A later \in 1..Len(timeline) : Announces(later, room, fp) => later <= ev

Edited(ev) == ev \in DOMAIN timeline /\ timeline'[ev].shows # timeline[ev].shows

\* An edit lands on the newest message that announced the alerts it is about
\* ("a re-firing alert resolves against its newest announcement",
\* alertmessage.go:21-23).  An image announces and is not recorded, and a
\* recording can fail: both are left out.
EditsNewestAnnouncement ==
  [][faults = 0 /\ (\A n \in Notices : ~n.chart) =>
       \A ev \in DOMAIN timeline : Edited(ev) =>
         LET n == notice[timeline'[ev].shows] IN
         \A fp \in n.fires \cup n.resolves :
           alerts[n.room][fp].event # 0 => Newest(ev, n.room, fp)]_vars

\* While nothing fails and no operator interferes, only a retry can put an
\* older rendering over a newer one: "the final resolution flips the whole
\* message" (outbox.go:216-218) holds unless the older entry failed before.
StaleOnlyAfterRetry ==
  [][faults = 0 /\ AdminCalls = {} =>
       \A ev \in DOMAIN timeline : Edited(ev) =>
         \/ timeline'[ev].shows > timeline[ev].shows
         \/ seen[timeline'[ev].shows] > 0]_vars

------------------------------------------------------------------------------
(* A claim of the documentation the code does not keep; see the README. *)

\* "Mappings die by being re-pointed (alert fires again)" (alertmessage.go:44-45)
\* and a firing alert pings by posting: no edit turns an alert its message
\* shows as resolved back to firing.
RefiringAlertPosts ==
  [][\A ev \in DOMAIN timeline : Edited(ev) =>
       notice[timeline[ev].shows].resolves \cap notice[timeline'[ev].shows].fires = {}]_vars
=============================================================================
