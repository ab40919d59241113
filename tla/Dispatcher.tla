----------------------------- MODULE Dispatcher -----------------------------
(***************************************************************************)
(* The durable outbox: the drain loop of internal/outbox/outbox.go with    *)
(* the actors it shares the database with, the ingest handlers that        *)
(* Enqueue and the admin API's RetryDelivery and test sends.               *)
(*                                                                         *)
(* Run is a single goroutine, so its position is one variable, pc:         *)
(*   "boot"      started; Run prunes, then drains the backlog              *)
(*   "idle"      blocked in Run's select                                   *)
(*   "drain"     about to SELECT the due rows                              *)
(*   "each"      between two entries of the batch                          *)
(*   "edit"      editTarget named a message, SendEdit is in flight         *)
(*   "post"      Send or SendWithImage is in flight                        *)
(*   "record"    posted, the alert mappings are about to be written        *)
(*   "counting"  the due set is exhausted, CountPendingOutbox for the gauge *)
(*   "succeeded" deliver returned nil, the row is about to be marked       *)
(*   "failing"   deliver returned an error, the row is about to be settled *)
(* Everything between two database or network calls is one action; between *)
(* them handlers run, time passes and the process may die.                 *)
(***************************************************************************)
EXTENDS OutboxStore, AlertStore, Sequences

CONSTANTS
  MaxEntries,     \* bound: rows ever inserted
  Rooms,          \* Matrix rooms
  Unencrypted,    \* the rooms Send and SendEdit refuse
  Fingerprints,   \* alert fingerprints
  Notices,        \* what ingest requests ask for, see NoticeType
  BatchSize,      \* batchSize
  BackoffBase,    \* backoffBase, in ticks
  BackoffCap,     \* backoffCap, in ticks
  SendMaxAttempts,  \* sendMaxAttempts, the tries of retrySend
  MaxPendingAge,  \* maxPendingAge, in ticks
  Retention,      \* outbox_retention_hours, in ticks
  MaxHandlers,    \* bound: handlers between their commit and their Kick
  AdminCalls,     \* the admin calls in use, see AdminCallKinds
  Hazards,        \* what the environment may do, see HazardKinds
  MaxFaults       \* bound: faults, Matrix outages ("down") not counted

NoticeType == [room : Rooms, fires : SUBSET Fingerprints,
               resolves : SUBSET Fingerprints, chart : BOOLEAN]
AdminCallKinds == {"retry", "test"}
\* down: a request does not reach the homeserver, or is not made before the
\* attempt's time is up.  lost_reply: a message reaches the room but its event
\* ID never reaches the bot.  db_read, db_write: a
\* query fails.  crash: the process stops, by SIGTERM or worse.
HazardKinds == {"down", "lost_reply", "db_read", "db_write", "crash"}

ASSUME BoundsAssumption ==
  /\ MaxEntries \in Nat /\ MaxHandlers \in Nat /\ MaxFaults \in Nat
ASSUME TimingAssumption ==
  /\ BackoffBase \in Nat /\ BackoffCap \in Nat
  /\ MaxPendingAge \in Nat /\ Retention \in Nat
ASSUME BatchAssumption == BatchSize \in Nat \ {0} /\ SendMaxAttempts \in Nat
ASSUME EnvironmentAssumption ==
  /\ Rooms # {}
  /\ Notices \subseteq NoticeType
  /\ Unencrypted \subseteq Rooms
  /\ AdminCalls \subseteq AdminCallKinds
  /\ Hazards \subseteq HazardKinds

VARIABLES
  outbox,    \* the outbox_entries table: id -> row
  notice,    \* the columns written once, at insertion: id -> what to send
  alerts,    \* the alert_messages table
  timeline,  \* the messages in the rooms, oldest first; an event is an index
  shown,     \* history: the ids whose rendering has reached a room
  pc,        \* the position of Run
  batch,     \* the ids of the batch drain still has to attempt
  seen,      \* Attempts as the batch's rows had it when they were read
  target,    \* the event SendEdit is replacing
  kick,      \* the kick channel of capacity one holds a token
  owed,      \* handlers that have committed a row and not called Kick yet
  faults,    \* faults so far
  missed     \* history: the last drain stopped at a failed SELECT

process == <<pc, batch, seen, target>>
vars == <<outbox, notice, alerts, timeline, shown, process, kick, owed, faults, missed>>

Ids == 1..MaxEntries
AgeCap == IF MaxPendingAge > Retention THEN MaxPendingAge ELSE Retention + 1
NoNotice == [room |-> CHOOSE r \in Rooms : TRUE, fires |-> {}, resolves |-> {}, chart |-> FALSE]
Attempting == {"edit", "post", "record", "succeeded", "failing"}

Init ==
  /\ outbox = [id \in Ids |-> EmptyRow("absent")]
  /\ notice = [id \in Ids |-> NoNotice]
  /\ alerts = [r \in Rooms |-> [fp \in Fingerprints |-> NoMapping]]
  /\ timeline = <<>>
  /\ shown = {}
  /\ pc = "boot" /\ batch = {} /\ seen = [id \in Ids |-> 0] /\ target = 0
  /\ kick = FALSE
  /\ owed = 0
  /\ faults = 0
  /\ missed = FALSE

\* n faults of a kind the environment may show, charged to the budget.
Faults(kind, n) ==
  /\ n > 0 => kind \in Hazards
  /\ faults + n <= MaxFaults
  /\ faults' = faults + n
Fault(kind) == Faults(kind, 1)
NoFault == UNCHANGED faults

------------------------------------------------------------------------------
(* Requests: ingest handlers and the admin API. *)

IsFresh(id) == /\ outbox[id].status = "absent"
               /\ \A j \in Ids : j < id => outbox[j].status # "absent"

\* An authenticated ingest request: Enqueue commits the row and the handler
\* has yet to Kick.  (A refused INSERT changes nothing and answers 500.)
Enqueue(n) ==
  \E id \in Ids :
    /\ IsFresh(id)
    /\ owed < MaxHandlers
    /\ outbox' = EnqueueOutbox(outbox, id)
    /\ notice' = [notice EXCEPT ![id] = n]
    /\ owed' = owed + 1
    /\ UNCHANGED <<alerts, timeline, shown, process, kick, faults, missed>>

\* Kick: a non-blocking send on a channel of capacity one.
M_Kick_onlyWhenIdle ==
  /\ owed > 0
  /\ owed' = owed - 1
  /\ kick' = (kick \/ pc = "idle")
  /\ UNCHANGED <<outbox, notice, alerts, timeline, shown, process, faults, missed>>
Kick ==
  /\ owed > 0
  /\ owed' = owed - 1
  /\ kick' = TRUE
  /\ UNCHANGED <<outbox, notice, alerts, timeline, shown, process, faults, missed>>

\* RetryDelivery: requeue a failed row, then Kick.
RetryDelivery(id) ==
  /\ "retry" \in AdminCalls
  /\ CanRequeue(outbox, id)
  /\ owed < MaxHandlers
  /\ outbox' = RequeueOutbox(outbox, id)
  /\ owed' = owed + 1
  /\ UNCHANGED <<notice, alerts, timeline, shown, process, kick, faults, missed>>

Message(id, image, room) == [by |-> id, shows |-> id, image |-> image, room |-> room]

\* What the homeserver and retrySend can make of one Send: `landed` copies in
\* the room, and an event ID for the caller or none.  Of the tries, those in
\* `lost` reached the room without their reply reaching the bot, `answered` is
\* the one that ended the loop (beyond the last: none did), the others did not
\* arrive.  Each that arrives adds a copy, as SendMessageEvent uses a new
\* transaction ID each time.
SendOutcome(room, landed, ok) ==
  \/ /\ room \notin Unencrypted
     /\ \E answered \in 1..SendMaxAttempts + 1 : \E lost \in SUBSET (1..answered - 1) :
          /\ ok = (answered <= SendMaxAttempts)
          /\ landed = Cardinality(lost) + (IF ok THEN 1 ELSE 0)
          /\ lost # 1..answered - 1 => "down" \in Hazards
          /\ Faults("lost_reply", Cardinality(lost))
  \/ room \in Unencrypted /\ landed = 0 /\ ~ok /\ NoFault

\* The room after `landed` copies of a message were added.
Landed(message, landed) == timeline \o [i \in 1..landed |-> message]

\* A test button: testSend sends synchronously, then RecordDelivery inserts
\* the outcome as a row that is already delivered or failed.  (When the
\* INSERT fails the message has no history row and no variable here knows it.)
TestSend(room) ==
  \E id \in Ids, landed \in 0..SendMaxAttempts, ok \in BOOLEAN :
    /\ "test" \in AdminCalls
    /\ IsFresh(id)
    /\ SendOutcome(room, landed, ok)
    /\ timeline' = Landed(Message(id, FALSE, room), landed)
    /\ shown' = IF landed > 0 THEN shown \cup {id} ELSE shown
    /\ outbox' = RecordDelivery(outbox, id, IF ok THEN "delivered" ELSE "failed")
    /\ notice' = [notice EXCEPT ![id] = [NoNotice EXCEPT !.room = room]]
    /\ UNCHANGED <<alerts, process, kick, owed, missed>>

------------------------------------------------------------------------------
(* Run: starting, waiting, pruning. *)

\* prune: old terminal rows, then old mappings; a failed DELETE of the rows
\* returns before the mappings, a failed DELETE of the mappings is logged.
Prune ==
  \/ /\ outbox' = PruneOutbox(outbox, Retention)
     /\ alerts' = PruneAlertMessages(alerts, Retention)
     /\ NoFault
  \/ /\ outbox' = PruneOutbox(outbox, Retention)
     /\ UNCHANGED alerts
     /\ Fault("db_write")
  \/ UNCHANGED <<outbox, alerts>> /\ Fault("db_write")

\* Run's first lines: prune, then drain the backlog of earlier runs.
Boot ==
  /\ pc = "boot"
  /\ Prune
  /\ pc' = "drain"
  /\ UNCHANGED <<notice, timeline, shown, batch, seen, target, kick, owed, missed>>

Wake ==
  /\ pc = "idle"
  /\ kick
  /\ kick' = FALSE
  /\ pc' = "drain"
  /\ UNCHANGED <<outbox, notice, alerts, timeline, shown, batch, seen, target, owed, faults, missed>>

\* The poll ticker fires.
M_Poll_never == FALSE /\ UNCHANGED vars
Poll ==
  /\ pc = "idle"
  /\ pc' = "drain"
  /\ UNCHANGED <<outbox, notice, alerts, timeline, shown, batch, seen, target, kick, owed, faults, missed>>

\* The prune ticker fires; the loop continues without draining.
PruneTick ==
  /\ pc = "idle"
  /\ Prune
  /\ UNCHANGED <<notice, timeline, shown, process, kick, owed, missed>>

------------------------------------------------------------------------------
(* drain: read a batch of due rows, attempt each, read again. *)

IsHead(id) == id \in batch /\ \A j \in batch : id <= j

\* DueOutbox answered: an empty batch ends the drain, another is attempted
\* in the order of the ids.  seen is what each entry's struct says from now on.
ReadDue ==
  LET due == DueOutbox(outbox, BatchSize)
  IN  /\ pc = "drain"
      /\ batch' = due
      /\ seen' = [id \in Ids |-> IF id \in due THEN outbox[id].attempts ELSE 0]
      /\ pc' = IF due = {} THEN "counting" ELSE "each"
      /\ missed' = FALSE
      /\ UNCHANGED <<outbox, notice, alerts, timeline, shown, target, kick, owed, faults>>

\* DueOutbox failed: drain gives up until the next wake-up.
ReadDueFails ==
  /\ pc = "drain"
  /\ Fault("db_read")
  /\ pc' = "counting"
  /\ missed' = TRUE
  /\ UNCHANGED <<outbox, notice, alerts, timeline, shown, batch, seen, target, kick, owed>>

\* CountPendingOutbox, for a gauge only; then drain returns to Run's select.
CountPending ==
  /\ pc = "counting"
  /\ pc' = "idle"
  /\ UNCHANGED <<outbox, notice, alerts, timeline, shown, batch, seen, target, kick, owed, faults, missed>>

\* editTarget: the one message the entry may update in place, 0 for none.
\* Every firing alert must be mapped, at least one resolved alert too, and
\* all mapped alerts of the entry to the same message.
M_EditTarget_anyMapped(m, n) ==
  LET known   == MapAlertMessages(m, n.room, n.fires \cup n.resolves)
      targets == {known[fp] : fp \in DOMAIN known}
  IN  IF n.resolves # {} /\ \E ev \in targets : targets = {ev}
      THEN CHOOSE ev \in targets : TRUE ELSE 0
EditTarget(m, n) ==
  LET known   == MapAlertMessages(m, n.room, n.fires \cup n.resolves)
      targets == {known[fp] : fp \in DOMAIN known}
  IN  IF /\ n.fires \subseteq DOMAIN known
         /\ n.resolves \cap DOMAIN known # {}
         /\ \E ev \in targets : targets = {ev}
      THEN CHOOSE ev \in targets : TRUE ELSE 0

\* attempt and deliver begin: look for a message to edit.  A failed lookup
\* is logged and the entry posts.
BeginAttempt ==
  \E id \in batch :
    /\ pc = "each"
    /\ IsHead(id)
    /\ \/ /\ target' = EditTarget(alerts, notice[id])
          /\ pc' = IF target' # 0 THEN "edit" ELSE "post"
          /\ NoFault
       \/ /\ notice[id].resolves # {}
          /\ Fault("db_read")
          /\ pc' = "post"
          /\ UNCHANGED target
    /\ UNCHANGED <<outbox, notice, alerts, timeline, shown, batch, seen, kick, owed, missed>>

\* SendEdit: replaced, or failed with or without the room having seen it.
\* Any error falls back to posting.
SendEdit ==
  \E id \in batch, landed \in 0..SendMaxAttempts, ok \in BOOLEAN :
    /\ pc = "edit"
    /\ IsHead(id)
    /\ SendOutcome(notice[id].room, landed, ok)
    /\ timeline' = IF landed > 0 THEN [timeline EXCEPT ![target].shows = id] ELSE timeline
    /\ shown' = IF landed > 0 THEN shown \cup {id} ELSE shown
    /\ pc' = IF ok THEN "succeeded" ELSE "post"
    /\ target' = 0
    /\ UNCHANGED <<outbox, notice, alerts, batch, seen, kick, owed, missed>>

\* Send, or SendWithImage when the entry asks for a chart and it renders.
\* Only a text message that announces alerts is recorded.
Post ==
  \E id \in batch, image \in BOOLEAN, landed \in 0..SendMaxAttempts, ok \in BOOLEAN :
    /\ pc = "post"
    /\ IsHead(id)
    /\ image => notice[id].chart
    /\ SendOutcome(notice[id].room, landed, ok)
    /\ timeline' = Landed(Message(id, image, notice[id].room), landed)
    /\ shown' = IF landed > 0 THEN shown \cup {id} ELSE shown
    /\ pc' = IF ~ok THEN "failing"
             ELSE IF ~image /\ notice[id].fires # {} THEN "record" ELSE "succeeded"
    /\ UNCHANGED <<outbox, notice, alerts, batch, seen, target, kick, owed, missed>>

\* RecordAlertMessages for the event Send returned, the last one posted by
\* the entry; a failure is logged and the delivery stands.
RecordMappings ==
  \E id \in batch, ev \in 1..Len(timeline) :
    /\ pc = "record"
    /\ IsHead(id)
    /\ timeline[ev].by = id
    /\ \A later \in 1..Len(timeline) : later > ev => timeline[later].by # id
    /\ \/ /\ alerts' = RecordAlertMessages(alerts, notice[id].room, ev, notice[id].fires)
          /\ NoFault
       \/ UNCHANGED alerts /\ Fault("db_write")
    /\ pc' = "succeeded"
    /\ UNCHANGED <<outbox, notice, timeline, shown, batch, seen, target, kick, owed, missed>>

\* attempt returns and drain moves on to the rest of the batch.
NextEntry(id) ==
  /\ batch' = batch \ {id}
  /\ seen' = [seen EXCEPT ![id] = 0]
  /\ pc' = IF batch' = {} THEN "drain" ELSE "each"

\* attempt after a delivery: MarkOutboxDelivered, whose failure is only logged.
MarkDelivered ==
  \E id \in batch :
    /\ pc = "succeeded"
    /\ IsHead(id)
    /\ \/ outbox' = MarkOutboxDelivered(outbox, id, seen[id] + 1) /\ NoFault
       \/ UNCHANGED outbox /\ Fault("db_write")
    /\ NextEntry(id)
    /\ UNCHANGED <<notice, alerts, timeline, shown, target, kick, owed, missed>>

\* The backoff loop doubles the delay attempts - 1 times, stopping once it
\* has reached the cap.
Doubled[n \in Nat] ==
  IF n <= 1 THEN BackoffBase
  ELSE LET d == Doubled[n - 1] IN IF d < BackoffCap THEN 2 * d ELSE d
M_Backoff_uncapped(attempts) == Doubled[attempts]
Backoff(attempts) ==
  IF Doubled[attempts] < BackoffCap THEN Doubled[attempts] ELSE BackoffCap

\* What attempt writes after an error: failed for good at maxPendingAge,
\* else rescheduled.
Settled(id) ==
  IF outbox[id].age >= MaxPendingAge
  THEN MarkOutboxFailed(outbox, id, seen[id] + 1)
  ELSE RescheduleOutbox(outbox, id, seen[id] + 1, Backoff(seen[id] + 1))

\* attempt after an error, with the failure of its UPDATE only logged.
Settle ==
  \E id \in batch :
    /\ pc = "failing"
    /\ IsHead(id)
    /\ \/ outbox' = Settled(id) /\ NoFault
       \/ UNCHANGED outbox /\ Fault("db_write")
    /\ NextEntry(id)
    /\ UNCHANGED <<notice, alerts, timeline, shown, target, kick, owed, missed>>

------------------------------------------------------------------------------
(* The environment. *)

\* The process stops and is started again: the database and the rooms stay,
\* the goroutine, the channel and the handlers between commit and Kick go.
Crash ==
  /\ pc # "boot"
  /\ Fault("crash")
  /\ pc' = "boot" /\ batch' = {} /\ seen' = [id \in Ids |-> 0] /\ target' = 0
  /\ kick' = FALSE
  /\ owed' = 0
  /\ missed' = FALSE
  /\ UNCHANGED <<outbox, notice, alerts, timeline, shown>>

Tick ==
  /\ outbox' = TickRows(outbox, AgeCap)
  /\ alerts' = TickMappings(alerts, AgeCap)
  /\ UNCHANGED <<notice, timeline, shown, process, kick, owed, faults, missed>>

Attempt == BeginAttempt \/ SendEdit \/ Post \/ RecordMappings \/ MarkDelivered \/ Settle
Drain == ReadDue \/ ReadDueFails \/ CountPending \/ Attempt
Request ==
  \/ \E n \in Notices : Enqueue(n)
  \/ Kick
  \/ \E id \in Ids : RetryDelivery(id)
  \/ \E r \in Rooms : TestSend(r)

Next == Request \/ Boot \/ Wake \/ Poll \/ PruneTick \/ Drain \/ Crash \/ Tick

Spec == Init /\ [][Next]_vars

(* The Go scheduler runs every goroutine that can run, both tickers keep   *)
(* firing and time passes; nothing obliges a producer, an operator or a    *)
(* fault to act.                                                           *)
Fairness == /\ WF_vars(Boot \/ Drain)
            /\ WF_vars(Kick)
            /\ WF_vars(Wake)
            /\ WF_vars(Poll)
            /\ WF_vars(Tick)
FairSpec == Spec /\ Fairness
=============================================================================
