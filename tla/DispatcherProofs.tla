-------------------------- MODULE DispatcherProofs --------------------------
(***************************************************************************)
(* Proofs about Dispatcher for every number of rows, rooms, alerts, every  *)
(* timing and every fault budget.                                          *)
(***************************************************************************)
EXTENDS DispatcherProperties, LeastNumber, SequenceTheorems, TLAPS

USE BoundsAssumption, TimingAssumption, BatchAssumption, EnvironmentAssumption

------------------------------------------------------------------------------
(* The operators of the two tables keep the tables' types. *)

Table == [Ids -> RowType]
AlertTable == [Rooms -> [Fingerprints -> MappingType]]

\* AgeCap is a number of ticks above both ages that matter.
LEMMA AgeCapNat == AgeCap \in Nat /\ MaxPendingAge <= AgeCap /\ Retention < AgeCap
BY DEF AgeCap

\* The doubling loop has a value for every number of attempts.
LEMMA DoubledIs ==
  /\ Doubled \in [Nat -> Nat]
  /\ \A n \in Nat : Doubled[n] =
       IF n <= 1 THEN BackoffBase
       ELSE IF Doubled[n - 1] < BackoffCap THEN 2 * Doubled[n - 1] ELSE Doubled[n - 1]
<1> DEFINE Next1(n, d) == IF n <= 1 THEN BackoffBase ELSE IF d < BackoffCap THEN 2 * d ELSE d
           step == [p \in (Nat \ {0}) \X Nat |-> Next1(p[1], p[2])]
           Is(f) == f = [n \in Nat |-> IF n <= 1 THEN BackoffBase
                                       ELSE LET d == f[n - 1]
                                            IN IF d < BackoffCap THEN 2 * d ELSE d]
<1>1. step \in [(Nat \ {0}) \X Nat -> Nat]
  OBVIOUS
<1>2. PICK f : RunsOn(f, Nat, BackoffBase, step)
  <2>1. BackoffBase \in Nat
    OBVIOUS
  <2> HIDE DEF step
  <2> QED BY ONLY <1>1, <2>1, EndlessLoopValues
<1>3. ASSUME NEW n \in Nat
      PROVE  f[n] = IF n <= 1 THEN BackoffBase ELSE Next1(n, f[n - 1])
  <2>1. CASE n = 0
    BY <1>2, <2>1 DEF RunsOn
  <2>2. CASE n # 0
    <3>1. n - 1 \in Nat /\ f[n - 1] \in Nat
      BY <1>2, <2>2 DEF RunsOn
    <3>2. <<n, f[n - 1]>> \in (Nat \ {0}) \X Nat
      BY <2>2, <3>1
    <3>3. f[n] = Next1(n, f[n - 1])
      BY <1>2, <2>2, <3>2 DEF RunsOn
    <3> QED BY <3>3
  <2> QED BY <2>1, <2>2
<1>4. Is(f)
  BY <1>2, <1>3 DEF RunsOn
<1>5. Is(Doubled)
  <2>1. \E g : Is(g)
    BY <1>4
  <2>2. Doubled = CHOOSE g : Is(g)
    BY DEF Doubled
  <2> HIDE DEF Is
  <2> QED BY <2>1, <2>2
<1>6. \A n \in Nat : Doubled[n] =
        IF n <= 1 THEN BackoffBase
        ELSE IF Doubled[n - 1] < BackoffCap THEN 2 * Doubled[n - 1] ELSE Doubled[n - 1]
  BY <1>5
<1>7. ASSUME NEW n \in Nat PROVE Doubled[n] \in Nat
  <2> DEFINE Good == {k \in 0..n : Doubled[k] \in Nat}
  <2>1. 0 \in Good
    BY <1>6
  <2>2. ASSUME NEW k \in 1..n, k - 1 \in Good PROVE k \in Good
    BY <1>6, <2>2
  <2>3. Good \in SUBSET (0..n)
    OBVIOUS
  <2> HIDE DEF Good
  <2>4. 0..n \subseteq Good
    BY ONLY n \in Nat, <2>1, <2>2, <2>3, UpTo
  <2> QED BY <2>4 DEF Good
<1>8. Doubled \in [Nat -> Nat]
  BY <1>5, <1>7
<1> QED BY <1>6, <1>8

\* A delay chosen by the backoff is one wait can hold.
LEMMA BackoffType == ASSUME NEW n \in Nat PROVE Backoff(n) \in 0..BackoffCap
<1>1. Doubled[n] \in Nat
  BY DoubledIs
<1> QED BY <1>1 DEF Backoff

\* backoff, whatever its base and cap: the first delay is the base, each later
\* one twice the one before, and none is above the cap.  A homeserver that is
\* down is asked at the cap's interval after as many attempts as the cap has
\* ticks, if not before, and the loop's own value stays below twice the cap, so
\* that the time.Duration it doubles does not overflow.
THEOREM BackoffDoublesAndCaps ==
  ASSUME BackoffBase # 0
  PROVE  /\ Backoff(1) = (IF BackoffBase < BackoffCap THEN BackoffBase ELSE BackoffCap)
         /\ \A n \in Nat \ {0} :
              /\ Backoff(n + 1) =
                   (IF 2 * Backoff(n) < BackoffCap THEN 2 * Backoff(n) ELSE BackoffCap)
              /\ Backoff(n) <= Backoff(n + 1)
              /\ n >= BackoffCap => Backoff(n) = BackoffCap
              /\ Doubled[n] = BackoffBase \/ Doubled[n] < 2 * BackoffCap
<1>1. ASSUME NEW n \in Nat \ {0}
      PROVE  /\ Doubled[n] \in Nat
             /\ Doubled[n + 1] = IF Doubled[n] < BackoffCap THEN 2 * Doubled[n] ELSE Doubled[n]
  <2>1. n + 1 \in Nat /\ ~(n + 1 <= 1) /\ (n + 1) - 1 = n
    OBVIOUS
  <2> QED BY <2>1, DoubledIs
<1>2. Doubled[1] = BackoffBase
  BY DoubledIs
<1>3. ASSUME NEW n \in Nat \ {0}
      PROVE  /\ Doubled[n] >= 1
             /\ Doubled[n] >= n \/ Doubled[n] >= BackoffCap
             /\ Doubled[n] = BackoffBase \/ Doubled[n] < 2 * BackoffCap
  <2> DEFINE Fine(k) == /\ Doubled[k] >= 1
                        /\ Doubled[k] >= k \/ Doubled[k] >= BackoffCap
                        /\ Doubled[k] = BackoffBase \/ Doubled[k] < 2 * BackoffCap
             Good == {k \in 0..n : k = 0 \/ Fine(k)}
  <2>1. 0 \in Good
    OBVIOUS
  <2>2. ASSUME NEW k \in 1..n, k - 1 \in Good PROVE k \in Good
    <3>1. CASE k = 1
      BY <1>2, <3>1
    <3>2. CASE k # 1
      <4>1. k - 1 \in Nat \ {0} /\ (k - 1) + 1 = k
        BY <3>2
      <4>2. /\ Doubled[k - 1] \in Nat
            /\ Doubled[k] = IF Doubled[k - 1] < BackoffCap THEN 2 * Doubled[k - 1]
                            ELSE Doubled[k - 1]
        BY <1>1, <4>1
      <4> QED BY <2>2, <4>1, <4>2
    <3> QED BY <3>1, <3>2
  <2>3. Good \in SUBSET (0..n)
    OBVIOUS
  <2> HIDE DEF Good
  <2>4. 0..n \subseteq Good
    BY ONLY n \in Nat \ {0}, <2>1, <2>2, <2>3, UpTo
  <2>5. n \in Good
    BY <2>4
  <2> QED BY <2>5 DEF Good
<1>4. Backoff(1) = (IF BackoffBase < BackoffCap THEN BackoffBase ELSE BackoffCap)
  BY <1>2 DEF Backoff
<1>5. ASSUME NEW n \in Nat \ {0}
      PROVE  /\ Backoff(n + 1) =
                  (IF 2 * Backoff(n) < BackoffCap THEN 2 * Backoff(n) ELSE BackoffCap)
             /\ Backoff(n) <= Backoff(n + 1)
             /\ n >= BackoffCap => Backoff(n) = BackoffCap
  BY <1>1, <1>3 DEF Backoff
<1> QED BY <1>3, <1>4, <1>5

\* A new row has the type of a row.
LEMMA EmptyRowType == ASSUME NEW st \in Statuses PROVE EmptyRow(st) \in RowType
BY AgeCapNat DEF EmptyRow, RowType

\* Setting one column to a value of its type leaves a row.
LEMMA ColumnType ==
  ASSUME NEW row \in RowType
  PROVE  /\ \A st \in Statuses : [row EXCEPT !.status = st] \in RowType
         /\ \A n \in Nat : [row EXCEPT !.attempts = n] \in RowType
         /\ \A d \in 0..BackoffCap : [row EXCEPT !.wait = d] \in RowType
         /\ \A a \in 0..AgeCap : [row EXCEPT !.age = a] \in RowType
<1>1. \A st \in Statuses : [row EXCEPT !.status = st] \in RowType
  BY DEF RowType
<1>2. \A n \in Nat : [row EXCEPT !.attempts = n] \in RowType
  BY DEF RowType
<1>3. \A d \in 0..BackoffCap : [row EXCEPT !.wait = d] \in RowType
  BY DEF RowType
<1>4. \A a \in 0..AgeCap : [row EXCEPT !.age = a] \in RowType
  BY DEF RowType
<1> QED
  BY <1>1, <1>2, <1>3, <1>4

\* Every write of store/outbox.go leaves a table: queueing and requeueing,
LEMMA QueueType ==
  ASSUME NEW t \in Table, NEW id \in Ids
  PROVE  EnqueueOutbox(t, id) \in Table /\ RequeueOutbox(t, id) \in Table
<1>1. EnqueueOutbox(t, id) \in Table
  BY EmptyRowType DEF Table, EnqueueOutbox, Statuses
<1>2. RequeueOutbox(t, id) \in Table
  <2> DEFINE r1 == [t[id] EXCEPT !.status = "pending"]
             r2 == [r1 EXCEPT !.attempts = 0]
             r3 == [r2 EXCEPT !.wait = 0]
  <2>1. r1 \in RowType
    BY ColumnType DEF Table, Statuses
  <2>2. r2 \in RowType
    BY <2>1, ColumnType
  <2>3. r3 \in RowType
    <3> HIDE DEF r2
    <3> QED BY <2>2, ColumnType
  <2> QED
    BY <2>3 DEF Table, RequeueOutbox
<1> QED
  BY <1>1, <1>2

\* the outcome of a test send,
LEMMA RecordType ==
  ASSUME NEW t \in Table, NEW id \in Ids, NEW st \in Terminal
  PROVE  RecordDelivery(t, id, st) \in Table
<1>1. EmptyRow(st) \in RowType
  BY EmptyRowType DEF Statuses, Terminal
<1>2. [EmptyRow(st) EXCEPT !.attempts = 1] \in RowType
  BY <1>1 DEF RowType
<1> QED
  BY <1>2 DEF Table, RecordDelivery

\* the two ways of settling a row,
LEMMA MarkType ==
  ASSUME NEW t \in Table, NEW id \in Ids, NEW n \in Nat
  PROVE  MarkOutboxDelivered(t, id, n) \in Table /\ MarkOutboxFailed(t, id, n) \in Table
<1>1. \A st \in Statuses : [[t[id] EXCEPT !.status = st] EXCEPT !.attempts = n] \in RowType
  BY DEF Table, RowType
<1>2. MarkOutboxDelivered(t, id, n) \in Table
  BY <1>1 DEF Table, MarkOutboxDelivered, Statuses
<1>3. MarkOutboxFailed(t, id, n) \in Table
  BY <1>1 DEF Table, MarkOutboxFailed, Statuses
<1> QED
  BY <1>2, <1>3

\* and putting it off.
LEMMA RescheduleType ==
  ASSUME NEW t \in Table, NEW id \in Ids, NEW n \in Nat, NEW d \in 0..BackoffCap
  PROVE  RescheduleOutbox(t, id, n, d) \in Table
BY DEF Table, RowType, RescheduleOutbox

\* So do the retention pass and the passing of time.
LEMMA SweepType ==
  ASSUME NEW t \in Table
  PROVE  PruneOutbox(t, Retention) \in Table /\ TickRows(t, AgeCap) \in Table
<1>1. EmptyRow("pruned") \in RowType
  BY EmptyRowType DEF Statuses
<1>2. PruneOutbox(t, Retention) \in Table
  BY <1>1 DEF Table, PruneOutbox
<1>3. TickRows(t, AgeCap) \in Table
  <2>1. ASSUME NEW row \in RowType
        PROVE  [row EXCEPT !.wait = IF @ > 0 THEN @ - 1 ELSE 0,
                           !.age  = IF @ < AgeCap THEN @ + 1 ELSE AgeCap] \in RowType
    <3> DEFINE w == IF row.wait > 0 THEN row.wait - 1 ELSE 0
               a == IF row.age < AgeCap THEN row.age + 1 ELSE AgeCap
               r1 == [row EXCEPT !.wait = w]
    <3>1. w \in 0..BackoffCap /\ a \in 0..AgeCap
      BY AgeCapNat DEF RowType
    <3>2. r1 \in RowType /\ r1.age = row.age
      BY <3>1, ColumnType DEF RowType
    <3>3. [r1 EXCEPT !.age = a] \in RowType
      <4> HIDE DEF r1, a
      <4> QED BY <3>1, <3>2, ColumnType
    <3> QED
      BY <3>2, <3>3
  <2> QED
    BY <2>1 DEF Table, TickRows
<1> QED
  BY <1>2, <1>3

\* The alert table keeps its type under recording,
LEMMA AlertOpsType ==
  ASSUME NEW m \in AlertTable, NEW room \in Rooms, NEW ev \in Nat, NEW fps
  PROVE  RecordAlertMessages(m, room, ev, fps) \in AlertTable
BY AgeCapNat DEF AlertTable, MappingType, RecordAlertMessages

\* pruning and time.
LEMMA TickMappingsType ==
  ASSUME NEW m \in AlertTable
  PROVE  PruneAlertMessages(m, Retention) \in AlertTable /\ TickMappings(m, AgeCap) \in AlertTable
<1>1. PruneAlertMessages(m, Retention) \in AlertTable
  BY AgeCapNat DEF AlertTable, MappingType, PruneAlertMessages, NoMapping
<1>2. TickMappings(m, AgeCap) \in AlertTable
  BY AgeCapNat DEF AlertTable, MappingType, TickMappings
<1> QED
  BY <1>1, <1>2

------------------------------------------------------------------------------
(* Type correctness. *)

\* A fault is counted, and nothing else is known of the counter.
LEMMA FaultsNat ==
  ASSUME faults \in Nat, NEW kind, NoFault \/ Fault(kind)
  PROVE  faults' \in Nat
BY DEF NoFault, Fault, Faults

\* What an answer costs: of the copies that landed, all but the one answered
\* with an event ID lost their reply, and each lost reply is a fault.
LEMMA AnswerCost ==
  ASSUME faults \in Nat, NEW room, NEW landed, NEW ok \in BOOLEAN,
         SendOutcome(room, landed, ok)
  PROVE  /\ landed \in Nat /\ faults' \in Nat /\ faults' >= faults
         /\ ok => landed > 0 /\ faults' = faults + (landed - 1)
         /\ ~ok => faults' = faults + landed
<1>1. CASE room \in Unencrypted
  BY <1>1 DEF SendOutcome, NoFault
<1>2. CASE room \notin Unencrypted
  <2>1. PICK answered \in 1..SendMaxAttempts + 1 : \E lost \in SUBSET (1..answered - 1) :
          /\ landed = Cardinality(lost) + (IF ok THEN 1 ELSE 0)
          /\ faults' = faults + Cardinality(lost)
    BY <1>2 DEF SendOutcome, Faults
  <2>2. PICK lost \in SUBSET (1..answered - 1) :
          /\ landed = Cardinality(lost) + (IF ok THEN 1 ELSE 0)
          /\ faults' = faults + Cardinality(lost)
    BY <2>1
  <2>3. IsFiniteSet(1..answered - 1)
    BY <2>1, FS_Interval
  <2>4. Cardinality(lost) \in Nat
    BY <2>2, <2>3, FS_Subset, FS_CardinalityType
  <2> QED
    BY <2>2, <2>4
<1> QED
  BY <1>1, <1>2

LEMMA SendOutcomeType ==
  ASSUME faults \in Nat, NEW room, NEW landed, NEW ok \in BOOLEAN,
         SendOutcome(room, landed, ok)
  PROVE  faults' \in Nat
BY AnswerCost

\* Posting and editing leave a sequence of messages.
LEMMA TimelineType ==
  ASSUME timeline \in Seq(MessageType), NEW id \in Ids, NEW image \in BOOLEAN,
         NEW room \in Rooms, NEW landed \in 0..SendMaxAttempts
  PROVE  /\ Landed(Message(id, image, room), landed) \in Seq(MessageType)
         /\ [timeline EXCEPT ![target].shows = id] \in Seq(MessageType)
<1>1. Message(id, image, room) \in MessageType
  BY DEF Message, MessageType
<1>2. [i \in 1..landed |-> Message(id, image, room)] \in Seq(MessageType)
  BY <1>1
<1>3. Landed(Message(id, image, room), landed) \in Seq(MessageType)
  BY <1>2 DEF Landed
<1>4. [timeline EXCEPT ![target].shows = id] \in Seq(MessageType)
  <2> DEFINE m == [timeline[target] EXCEPT !.shows = id]
  <2>1. CASE target \in 1..Len(timeline)
    <3>1. timeline[target] \in MessageType
      BY <2>1, LenProperties
    <3>2. m \in MessageType
      BY <3>1 DEF MessageType
    <3>3. [timeline EXCEPT ![target] = m] \in Seq(MessageType)
      <4> HIDE DEF m
      <4> QED BY <2>1, <3>2, ExceptSeq
    <3> QED
      BY <3>3
  <2>2. CASE target \notin 1..Len(timeline)
    <3>1. [timeline EXCEPT ![target].shows = id] = timeline
      BY <2>2, LenProperties
    <3> QED
      BY <3>1
  <2> QED
    BY <2>1, <2>2
<1> QED
  BY <1>3, <1>4

\* The message editTarget names is an event, or none.
LEMMA EditTargetType ==
  ASSUME alerts \in AlertTable, NEW n \in NoticeType
  PROVE  EditTarget(alerts, n) \in Nat
<1> DEFINE known == MapAlertMessages(alerts, n.room, n.fires \cup n.resolves)
           targets == {known[fp] : fp \in DOMAIN known}
<1>1. targets \subseteq Nat
  <2>1. \A fp \in n.fires \cup n.resolves : alerts[n.room][fp] \in MappingType
    BY DEF AlertTable, NoticeType
  <2> QED
    BY <2>1 DEF MapAlertMessages, MappingType
<1>2. CASE \E ev \in targets : targets = {ev}
  <2>1. (CHOOSE ev \in targets : TRUE) \in targets
    BY <1>2
  <2> QED
    BY <1>1, <2>1 DEF EditTarget
<1>3. CASE ~ \E ev \in targets : targets = {ev}
  BY <1>3 DEF EditTarget
<1> QED
  BY <1>2, <1>3

\* Pruning, whatever part of it fails.
LEMMA PruneType ==
  ASSUME TypeOK, Prune
  PROVE  outbox' \in [Ids -> RowType] /\ faults' \in Nat
         /\ alerts' \in [Rooms -> [Fingerprints -> MappingType]]
<1>1. outbox' \in [Ids -> RowType]
  BY SweepType DEF TypeOK, Prune, Table
<1>2. alerts' \in [Rooms -> [Fingerprints -> MappingType]]
  BY TickMappingsType DEF TypeOK, Prune, AlertTable
<1>3. faults' \in Nat
  BY DEF TypeOK, Prune, NoFault, Fault, Faults
<1> QED
  BY <1>1, <1>2, <1>3

\* What attempt writes after an error is a table.
LEMMA SettledType ==
  ASSUME TypeOK, NEW id \in Ids PROVE Settled(id) \in Table
<1>1. outbox \in Table /\ seen[id] + 1 \in Nat
  BY DEF TypeOK, Table
<1>2. MarkOutboxFailed(outbox, id, seen[id] + 1) \in Table
  BY <1>1, MarkType
<1>3. RescheduleOutbox(outbox, id, seen[id] + 1, Backoff(seen[id] + 1)) \in Table
  BY <1>1, RescheduleType, BackoffType
<1> QED
  BY <1>2, <1>3 DEF Settled

LEMMA TypeInit == Init => TypeOK
<1> SUFFICES ASSUME Init PROVE TypeOK
  OBVIOUS
<1>1. outbox \in [Ids -> RowType]
  BY EmptyRowType DEF Init, Statuses
<1>2. NoNotice \in NoticeType
  BY DEF NoNotice, NoticeType
<1>3. notice \in [Ids -> NoticeType]
  BY <1>2 DEF Init
<1>4. alerts \in [Rooms -> [Fingerprints -> MappingType]]
  BY AgeCapNat DEF Init, NoMapping, MappingType
<1>5. timeline \in Seq(MessageType)
  BY EmptySeq DEF Init
<1> QED
  BY <1>1, <1>3, <1>4, <1>5 DEF Init, TypeOK, Attempting

LEMMA TypeStep == TypeOK /\ [Next]_vars => TypeOK'
<1> SUFFICES ASSUME TypeOK, [Next]_vars PROVE TypeOK'
  OBVIOUS
<1> USE DEF TypeOK
<1>1. ASSUME NEW n \in Notices, Enqueue(n) PROVE TypeOK'
  <2>1. PICK id \in Ids : /\ outbox' = EnqueueOutbox(outbox, id)
                         /\ notice' = [notice EXCEPT ![id] = n]
    BY <1>1 DEF Enqueue
  <2>2. outbox' \in [Ids -> RowType]
    BY <2>1, QueueType DEF Table
  <2>3. notice' \in [Ids -> NoticeType]
    BY <2>1
  <2> QED
    BY <1>1, <2>2, <2>3 DEF Enqueue, process
<1>2. CASE Kick
  BY <1>2 DEF Kick, process, Attempting
<1>3. ASSUME NEW id \in Ids, RetryDelivery(id) PROVE TypeOK'
  <2>1. outbox' \in [Ids -> RowType]
    BY <1>3, QueueType DEF RetryDelivery, Table
  <2> QED
    BY <1>3, <2>1 DEF RetryDelivery, process
<1>4. ASSUME NEW r \in Rooms, TestSend(r) PROVE TypeOK'
  <2>1. PICK id \in Ids, landed \in 0..SendMaxAttempts, ok \in BOOLEAN :
          /\ SendOutcome(r, landed, ok)
          /\ timeline' = Landed(Message(id, FALSE, r), landed)
          /\ shown' = IF landed > 0 THEN shown \cup {id} ELSE shown
          /\ outbox' = RecordDelivery(outbox, id, IF ok THEN "delivered" ELSE "failed")
          /\ notice' = [notice EXCEPT ![id] = [NoNotice EXCEPT !.room = r]]
          /\ UNCHANGED <<alerts, process, kick, owed, missed>>
    <3> HIDE DEF TypeOK
    <3> QED BY <1>4 DEF TestSend
  <2>2. outbox' \in [Ids -> RowType]
    BY <2>1, RecordType DEF Table, Terminal
  <2>3. notice' \in [Ids -> NoticeType]
    BY <2>1 DEF NoNotice, NoticeType
  <2>4. timeline' \in Seq(MessageType)
    BY <2>1, TimelineType
  <2>5. faults' \in Nat
    BY <2>1, SendOutcomeType
  <2> QED
    BY <2>1, <2>2, <2>3, <2>4, <2>5 DEF process
<1>5. CASE Boot
  BY <1>5, PruneType DEF Boot
<1>6. CASE Wake
  BY <1>6 DEF Wake
<1>7. CASE Poll
  BY <1>7 DEF Poll
<1>8. CASE PruneTick
  BY <1>8, PruneType DEF PruneTick, process
<1>9. CASE ReadDue
  BY <1>9 DEF ReadDue, DueOutbox, RowType
<1>10. CASE ReadDueFails
  BY <1>10 DEF ReadDueFails, Fault, Faults
<1>11. CASE CountPending
  BY <1>11 DEF CountPending
<1>12. CASE BeginAttempt
  <2>1. target' \in Nat
    BY <1>12, EditTargetType DEF BeginAttempt, AlertTable
  <2> QED
    BY <1>12, <2>1 DEF BeginAttempt, NoFault, Fault, Faults, Attempting
<1>13. CASE SendEdit
  <2>1. faults' \in Nat
    BY <1>13, SendOutcomeType DEF SendEdit
  <2>2. timeline' \in Seq(MessageType)
    BY <1>13, TimelineType DEF SendEdit
  <2>3. /\ shown' \in SUBSET Ids /\ pc' \in Attempting /\ target' = 0
        /\ UNCHANGED <<outbox, notice, alerts, batch, seen, kick, owed, missed>>
    BY <1>13 DEF SendEdit, Attempting
  <2> QED
    BY <2>1, <2>2, <2>3
<1>14. CASE Post
  <2>1. faults' \in Nat
    BY <1>14, SendOutcomeType DEF Post
  <2>2. timeline' \in Seq(MessageType)
    <3>1. PICK id \in batch, image \in BOOLEAN, landed \in 0..SendMaxAttempts :
            timeline' = Landed(Message(id, image, notice[id].room), landed)
      BY <1>14 DEF Post
    <3>2. id \in Ids /\ notice[id].room \in Rooms
      BY DEF NoticeType
    <3> QED
      BY <3>1, <3>2, TimelineType
  <2>3. /\ shown' \in SUBSET Ids /\ pc' \in Attempting
        /\ UNCHANGED <<outbox, notice, alerts, batch, seen, target, kick, owed, missed>>
    BY <1>14 DEF Post, Attempting
  <2> QED
    BY <2>1, <2>2, <2>3
<1>15. CASE RecordMappings
  <2>1. alerts' \in [Rooms -> [Fingerprints -> MappingType]]
    BY <1>15, AlertOpsType, LenProperties DEF RecordMappings, AlertTable, NoticeType
  <2> QED
    BY <1>15, <2>1 DEF RecordMappings, NoFault, Fault, Faults, Attempting
<1>16. CASE MarkDelivered
  <2>1. outbox' \in [Ids -> RowType]
    BY <1>16, MarkType DEF MarkDelivered, Table
  <2>2. faults' \in Nat
    BY <1>16 DEF MarkDelivered, NoFault, Fault, Faults
  <2>3. /\ batch' \in SUBSET Ids /\ seen' \in [Ids -> Nat] /\ pc' \in {"drain", "each"}
        /\ UNCHANGED <<notice, alerts, timeline, shown, target, kick, owed, missed>>
    BY <1>16 DEF MarkDelivered, NextEntry
  <2> QED
    BY <2>1, <2>2, <2>3
<1>17. CASE Settle
  <2>1. outbox' \in [Ids -> RowType]
    BY <1>17, SettledType DEF Settle, Table
  <2>2. faults' \in Nat
    BY <1>17 DEF Settle, NoFault, Fault, Faults
  <2>3. /\ batch' \in SUBSET Ids /\ seen' \in [Ids -> Nat] /\ pc' \in {"drain", "each"}
        /\ UNCHANGED <<notice, alerts, timeline, shown, target, kick, owed, missed>>
    BY <1>17 DEF Settle, NextEntry
  <2> QED
    BY <2>1, <2>2, <2>3
<1>18. CASE Crash
  <2>1. faults' \in Nat
    BY <1>18 DEF Crash, Fault, Faults
  <2> QED
    BY <1>18, <2>1 DEF Crash
<1>19. CASE Tick
  <2>1. outbox' \in [Ids -> RowType]
    BY <1>19, SweepType DEF Tick, Table
  <2>2. alerts' \in [Rooms -> [Fingerprints -> MappingType]]
    BY <1>19, TickMappingsType DEF Tick, AlertTable
  <2> QED
    BY <1>19, <2>1, <2>2 DEF Tick, process
<1>20. CASE UNCHANGED vars
  BY <1>20 DEF vars, process, Attempting
<1> QED
  BY <1>1, <1>2, <1>3, <1>4, <1>5, <1>6, <1>7, <1>8, <1>9, <1>10, <1>11, <1>12,
     <1>13, <1>14, <1>15, <1>16, <1>17, <1>18, <1>19, <1>20
     DEF Next, Request, Drain, Attempt

\* Dispatcher's variables keep their types in every behaviour.
THEOREM TypeCorrect == Spec => []TypeOK
BY TypeInit, TypeStep, PTL DEF Spec

------------------------------------------------------------------------------
(* The queue: fresh snapshots and no lost wake-up. *)

\* DueOutbox returns due rows only, and an empty result means there is none:
\* the oldest due row is always within the limit.
LEMMA DueOutboxExact ==
  ASSUME NEW t \in Table
  PROVE  /\ \A id \in DueOutbox(t, BatchSize) : id \in Ids /\ IsDue(t, id)
         /\ DueOutbox(t, BatchSize) = {} => \A id \in Ids : ~IsDue(t, id)
<1> DEFINE due == {id \in DOMAIN t : IsDue(t, id)}
<1>1. DOMAIN t = Ids /\ due \in SUBSET Nat
  BY DEF Table, Ids
<1>2. ASSUME NEW id \in Ids, IsDue(t, id) PROVE DueOutbox(t, BatchSize) # {}
  <2>1. PICK m \in due : \A k \in due : m <= k
    <3>1. due # {}
      BY <1>1, <1>2
    <3> HIDE DEF due
    <3> QED BY <1>1, <3>1, LeastElement
  <2>2. {j \in due : j < m} = {}
    BY <1>1, <2>1
  <2>3. Cardinality({j \in due : j < m}) < BatchSize
    BY <2>2, FS_EmptySet
  <2>4. m \in DueOutbox(t, BatchSize)
    BY <2>1, <2>3 DEF DueOutbox
  <2> QED
    BY <2>4
<1> QED
  BY <1>1, <1>2 DEF DueOutbox

LEMMA QueueInit == Init => QueueInv
BY DEF Init, QueueInv, SnapshotsFresh, BatchInPlace, FreshIsDue, NoLostWakeup, EmptyRow

\* Pruning and time leave the pending rows as due as they were.
LEMMA PruneKeepsQueue ==
  ASSUME TypeOK, Prune, NEW id \in Ids
  PROVE  outbox[id].status = "pending" \/ outbox'[id].status = "pending"
         => outbox'[id] = outbox[id]
<1>1. DOMAIN outbox = Ids
  BY DEF TypeOK
<1>2. CASE UNCHANGED outbox
  BY <1>2
<1>3. CASE outbox' = PruneOutbox(outbox, Retention)
  <2>1. outbox'[id] = IF outbox[id].status \in Terminal /\ outbox[id].age > Retention
                      THEN EmptyRow("pruned") ELSE outbox[id]
    BY <1>1, <1>3 DEF PruneOutbox
  <2> QED
    BY <2>1 DEF Terminal, EmptyRow
<1> QED
  BY <1>2, <1>3 DEF Prune

LEMMA TickKeepsQueue ==
  ASSUME TypeOK, Tick, NEW id \in Ids
  PROVE  /\ outbox'[id].status = outbox[id].status
         /\ outbox'[id].attempts = outbox[id].attempts
         /\ outbox[id].wait = 0 => outbox'[id].wait = 0
<1>1. outbox[id] \in RowType
  BY DEF TypeOK
<1>2. outbox' = TickRows(outbox, AgeCap) /\ DOMAIN outbox = Ids
  BY DEF Tick, TypeOK
<1>3. outbox'[id] = IF outbox[id].status \in {"absent", "pruned"} THEN outbox[id]
                    ELSE [outbox[id] EXCEPT !.wait = IF @ > 0 THEN @ - 1 ELSE 0,
                                            !.age  = IF @ < AgeCap THEN @ + 1 ELSE AgeCap]
  BY <1>2 DEF TickRows
<1> QED
  BY <1>1, <1>3 DEF RowType

LEMMA QueueStep == TypeOK /\ QueueInv /\ [Next]_vars => QueueInv'
<1> SUFFICES ASSUME TypeOK, QueueInv, [Next]_vars PROVE QueueInv'
  OBVIOUS
<1> USE DEF QueueInv, SnapshotsFresh, BatchInPlace, FreshIsDue, NoLostWakeup, IsDue
<1>0. /\ DOMAIN outbox = Ids /\ owed \in Nat /\ batch \subseteq Ids
      /\ \A id \in Ids : seen[id] \in Nat /\ outbox[id] \in RowType
  BY DEF TypeOK
<1>1. ASSUME NEW n \in Notices, Enqueue(n) PROVE QueueInv'
  BY <1>0, <1>1 DEF Enqueue, IsFresh, EnqueueOutbox, EmptyRow, process
<1>2. CASE Kick
  BY <1>2 DEF Kick, process
<1>3. ASSUME NEW id \in Ids, RetryDelivery(id) PROVE QueueInv'
  BY <1>0, <1>3 DEF RetryDelivery, CanRequeue, RequeueOutbox, RowType, process
<1>4. ASSUME NEW r \in Rooms, TestSend(r) PROVE QueueInv'
  BY <1>0, <1>4 DEF TestSend, IsFresh, RecordDelivery, EmptyRow, process
<1>5. CASE Boot
  BY <1>0, <1>5, PruneKeepsQueue DEF Boot
<1>6. CASE Wake
  BY <1>6 DEF Wake
<1>7. CASE Poll
  BY <1>7 DEF Poll
<1>8. CASE PruneTick
  BY <1>0, <1>8, PruneKeepsQueue DEF PruneTick, process
<1>9. CASE ReadDue
  BY <1>0, <1>9, DueOutboxExact DEF ReadDue, TypeOK, Table
<1>10. CASE ReadDueFails
  BY <1>10 DEF ReadDueFails
<1>11. CASE CountPending
  BY <1>11 DEF CountPending
<1>12. CASE BeginAttempt
  BY <1>12 DEF BeginAttempt
<1>13. CASE SendEdit
  BY <1>13 DEF SendEdit
<1>14. CASE Post
  BY <1>14 DEF Post
<1>15. CASE RecordMappings
  BY <1>15 DEF RecordMappings
<1>16. CASE MarkDelivered
  BY <1>0, <1>16 DEF MarkDelivered, NextEntry, MarkOutboxDelivered, RowType
<1>17. CASE Settle
  BY <1>0, <1>17 DEF Settle, NextEntry, Settled, MarkOutboxFailed, RescheduleOutbox, RowType
<1>18. CASE Crash
  BY <1>18 DEF Crash
<1>19. CASE Tick
  BY <1>0, <1>19, TickKeepsQueue DEF Tick, process
<1>20. CASE UNCHANGED vars
  BY <1>20 DEF vars, process
<1> QED
  BY <1>1, <1>2, <1>3, <1>4, <1>5, <1>6, <1>7, <1>8, <1>9, <1>10, <1>11, <1>12,
     <1>13, <1>14, <1>15, <1>16, <1>17, <1>18, <1>19, <1>20
     DEF Next, Request, Drain, Attempt

\* The four parts hold together in every behaviour; none is inductive alone.
THEOREM QueueInvariant == Spec => []QueueInv
BY TypeInit, TypeStep, QueueInit, QueueStep, PTL DEF Spec

\* The structs drain works from never go stale.
THEOREM SnapshotsStayFresh == Spec => []SnapshotsFresh
<1>1. QueueInv => SnapshotsFresh
  BY DEF QueueInv
<1> QED
  BY <1>1, QueueInvariant, PTL

\* No interleaving of handlers, ticks and the drain loop loses a wake-up.
THEOREM WakeupNotLost == Spec => []NoLostWakeup
<1>1. QueueInv => NoLostWakeup
  BY DEF QueueInv
<1> QED
  BY <1>1, QueueInvariant, PTL

------------------------------------------------------------------------------
(* The outbox implements the promise of DurableDelivery. *)

\* Between the answer to a send and the UPDATE, the rendering is in the room.
ShownFirst == pc \in {"record", "succeeded"} => \A id \in batch : IsHead(id) => id \in shown

\* One entry is attempted at a time.
LEMMA OneHead ==
  ASSUME TypeOK, NEW id \in batch, NEW other \in batch, IsHead(id), IsHead(other)
  PROVE  id = other
BY DEF TypeOK, IsHead, Ids

\* An answer with an event ID means at least one copy landed.
LEMMA AnswerLanded ==
  ASSUME faults \in Nat, NEW room, NEW landed, NEW ok \in BOOLEAN, SendOutcome(room, landed, ok), ok
  PROVE  landed > 0
BY AnswerCost

LEMMA ShownInit == Init => ShownFirst
BY DEF Init, ShownFirst

LEMMA ShownStep == TypeOK /\ ShownFirst /\ [Next]_vars => ShownFirst'
<1> SUFFICES ASSUME TypeOK, ShownFirst, [Next]_vars PROVE ShownFirst'
  OBVIOUS
<1> USE DEF ShownFirst, IsHead
<1>1. CASE SendEdit
  <2>1. PICK id \in batch, landed \in 0..SendMaxAttempts, ok \in BOOLEAN :
          /\ IsHead(id)
          /\ SendOutcome(notice[id].room, landed, ok)
          /\ shown' = IF landed > 0 THEN shown \cup {id} ELSE shown
          /\ pc' = IF ok THEN "succeeded" ELSE "post"
          /\ batch' = batch
    BY <1>1 DEF SendEdit
  <2>2. CASE ok
    BY <2>1, <2>2, AnswerLanded, OneHead DEF TypeOK
  <2>3. CASE ~ok
    BY <2>1, <2>3
  <2> QED
    BY <2>2, <2>3
<1>2. CASE Post
  <2>1. PICK id \in batch, image \in BOOLEAN, landed \in 0..SendMaxAttempts, ok \in BOOLEAN :
          /\ IsHead(id)
          /\ SendOutcome(notice[id].room, landed, ok)
          /\ shown' = IF landed > 0 THEN shown \cup {id} ELSE shown
          /\ pc' = IF ~ok THEN "failing"
                   ELSE IF ~image /\ notice[id].fires # {} THEN "record" ELSE "succeeded"
          /\ batch' = batch
    BY <1>2 DEF Post
  <2>2. CASE ok
    BY <2>1, <2>2, AnswerLanded, OneHead DEF TypeOK
  <2>3. CASE ~ok
    BY <2>1, <2>3
  <2> QED
    BY <2>2, <2>3
<1>3. CASE RecordMappings
  BY <1>3 DEF RecordMappings
<1>4. CASE Boot \/ Wake \/ Poll \/ ReadDue \/ ReadDueFails \/ CountPending \/ Crash
  BY <1>4 DEF Boot, Wake, Poll, ReadDue, ReadDueFails, CountPending, Crash
<1>5. CASE BeginAttempt
  BY <1>5 DEF BeginAttempt
<1>6. CASE MarkDelivered
  BY <1>6 DEF MarkDelivered, NextEntry
<1>7. CASE Settle
  BY <1>7 DEF Settle, NextEntry
<1>8. ASSUME NEW r \in Rooms, TestSend(r) PROVE ShownFirst'
  <2>1. UNCHANGED <<pc, batch>> /\ shown \subseteq shown'
    BY <1>8 DEF TestSend, process
  <2> QED
    BY <2>1
<1>9. CASE UNCHANGED <<pc, batch, shown>>
  BY <1>9
<1>10. ASSUME NEW n \in Notices, Enqueue(n) PROVE ShownFirst'
  BY <1>9, <1>10 DEF Enqueue, process
<1>11. ASSUME NEW id \in Ids, RetryDelivery(id) PROVE ShownFirst'
  BY <1>9, <1>11 DEF RetryDelivery, process
<1>12. CASE Kick \/ PruneTick \/ Tick \/ UNCHANGED vars
  BY <1>9, <1>12 DEF Kick, PruneTick, Tick, vars, process
<1> QED
  BY <1>1, <1>2, <1>3, <1>4, <1>5, <1>6, <1>7, <1>8, <1>10, <1>11, <1>12
     DEF Next, Request, Drain, Attempt

\* The promise, step by step.
statusOf == [id \in Ids |-> outbox[id].status]

LEMMA PromiseInit == Init => Promise!Init
BY DEF Init, Promise!Init, EmptyRow

\* A write that changes the status of one row alone.
LEMMA OneStatus ==
  ASSUME NEW id \in Ids, NEW st, DOMAIN outbox = Ids,
         \A other \in Ids : outbox'[other].status
                              = IF other = id THEN st ELSE outbox[other].status
  PROVE  statusOf' = [statusOf EXCEPT ![id] = st]
BY DEF statusOf

\* A write that changes no status.
LEMMA SameStatus ==
  ASSUME \A id \in Ids : outbox'[id].status = outbox[id].status
  PROVE  statusOf' = statusOf
BY DEF statusOf

LEMMA PromiseStep ==
  TypeOK /\ QueueInv /\ ShownFirst /\ [Next]_vars => [Promise!Next]_(Promise!promise)
<1> SUFFICES ASSUME TypeOK, QueueInv, ShownFirst, [Next]_vars,
                    ~ UNCHANGED Promise!promise
             PROVE  Promise!Next
  OBVIOUS
<1>0. /\ DOMAIN outbox = Ids /\ batch \subseteq Ids
      /\ \A id \in Ids : outbox[id] \in RowType
      /\ \A id \in batch : outbox[id].status = "pending"
  BY DEF TypeOK, QueueInv, SnapshotsFresh, IsDue
<1>1. ~ (UNCHANGED <<outbox, shown>>)
  BY DEF Promise!promise
<1>2. \/ ~ UNCHANGED shown
      \/ ~ \A id \in Ids : outbox'[id].status = outbox[id].status
  BY SameStatus DEF Promise!promise, statusOf
<1>3. ASSUME NEW n \in Notices, Enqueue(n) PROVE Promise!Next
  <2>1. PICK id \in Ids : IsFresh(id) /\ outbox' = EnqueueOutbox(outbox, id) /\ UNCHANGED shown
    BY <1>3 DEF Enqueue
  <2>2. statusOf' = [statusOf EXCEPT ![id] = "pending"] /\ outbox[id].status = "absent"
    BY <1>0, <2>1, OneStatus DEF EnqueueOutbox, EmptyRow, IsFresh
  <2>3. Promise!Accept(id)
    BY <2>1, <2>2 DEF Promise!Accept, Promise!Become, statusOf
  <2> QED
    BY <2>3 DEF Promise!Next
<1>4. ASSUME NEW id \in Ids, RetryDelivery(id) PROVE Promise!Next
  <2>1. statusOf' = [statusOf EXCEPT ![id] = "pending"] /\ outbox[id].status = "failed"
    BY <1>0, <1>4, OneStatus DEF RetryDelivery, CanRequeue, RequeueOutbox, RowType
  <2>2. Promise!Retry(id)
    BY <1>4, <2>1 DEF RetryDelivery, Promise!Retry, Promise!Become, statusOf
  <2> QED
    BY <2>2 DEF Promise!Next
<1>5. ASSUME NEW r \in Rooms, TestSend(r) PROVE Promise!Next
  <2>1. PICK id \in Ids, landed \in 0..SendMaxAttempts, ok \in BOOLEAN :
          /\ IsFresh(id)
          /\ SendOutcome(r, landed, ok)
          /\ shown' = IF landed > 0 THEN shown \cup {id} ELSE shown
          /\ outbox' = RecordDelivery(outbox, id, IF ok THEN "delivered" ELSE "failed")
    BY <1>5 DEF TestSend
  <2>2. /\ statusOf' = [statusOf EXCEPT ![id] = IF ok THEN "delivered" ELSE "failed"]
        /\ outbox[id].status = "absent"
    BY <1>0, <2>1, OneStatus DEF RecordDelivery, EmptyRow, IsFresh
  <2>3. statusOf[id] = "absent" /\ shown' \in {shown, shown \cup {id}}
    BY <2>1, <2>2 DEF statusOf
  <2>a. CASE ok
    <3>1. landed > 0
      BY <2>1, <2>a, AnswerLanded DEF TypeOK
    <3>2. shown' = shown \cup {id} /\ statusOf' = [statusOf EXCEPT ![id] = "delivered"]
      BY <2>1, <2>2, <2>a, <3>1
    <3>3. Promise!Record(id)
      BY <2>3, <3>2 DEF Promise!Record, Promise!Become, statusOf
    <3> QED BY <3>3 DEF Promise!Next
  <2>b. CASE ~ok
    <3>1. statusOf' = [statusOf EXCEPT ![id] = "failed"]
      BY <2>2, <2>b
    <3>2. Promise!Record(id)
      BY <2>3, <3>1 DEF Promise!Record, Promise!Become, statusOf
    <3> QED BY <3>2 DEF Promise!Next
  <2> QED BY <2>a, <2>b
<1>6. CASE Prune /\ UNCHANGED shown
  <2>1. outbox' = PruneOutbox(outbox, Retention)
    BY <1>1, <1>6 DEF Prune
  <2> DEFINE S == {id \in Ids : outbox[id].status \in Terminal /\ outbox[id].age > Retention}
  <2>2. \A id \in Ids : outbox'[id] = IF id \in S THEN EmptyRow("pruned") ELSE outbox[id]
    BY <1>0, <2>1 DEF PruneOutbox
  <2>3. statusOf' = [id \in Ids |-> IF id \in S THEN "pruned" ELSE statusOf[id]]
    BY <2>2 DEF statusOf, EmptyRow
  <2>4. S \in SUBSET Ids /\ \A id \in S : statusOf[id] \in {"delivered", "failed"}
    BY DEF statusOf, Terminal
  <2>5. \E forgotten \in SUBSET Ids :
          /\ \A id \in forgotten : statusOf[id] \in {"delivered", "failed"}
          /\ statusOf' = [id \in Ids |-> IF id \in forgotten THEN "pruned" ELSE statusOf[id]]
    <3> HIDE DEF S
    <3> QED BY <2>3, <2>4
  <2> HIDE DEF S
  <2> QED
    BY <1>6, <2>5 DEF Promise!Next, Promise!Forget, statusOf
<1>7. ASSUME NEW id \in batch, shown' = shown \cup {id}, UNCHANGED outbox PROVE Promise!Next
  <2>1. Promise!Show(id)
    BY <1>0, <1>7 DEF Promise!Show, statusOf
  <2> QED
    BY <1>0, <2>1 DEF Promise!Next
<1>8. CASE SendEdit \/ Post
  BY <1>1, <1>7, <1>8 DEF SendEdit, Post
<1>9. CASE MarkDelivered
  <2>1. PICK id \in batch : /\ IsHead(id)
                            /\ outbox' = MarkOutboxDelivered(outbox, id, seen[id] + 1)
                            /\ UNCHANGED shown
    BY <1>1, <1>9 DEF MarkDelivered
  <2>2. id \in Ids /\ outbox[id].status = "pending" /\ id \in shown
    BY <1>0, <1>9, <2>1 DEF MarkDelivered, ShownFirst
  <2>3. \A other \in Ids : outbox'[other].status
          = IF other = id THEN "delivered" ELSE outbox[other].status
    BY <1>0, <2>1, <2>2 DEF MarkOutboxDelivered, RowType
  <2>4. statusOf' = [statusOf EXCEPT ![id] = "delivered"]
    BY <1>0, <2>2, <2>3, OneStatus
  <2>5. Promise!Deliver(id)
    BY <2>1, <2>2, <2>4 DEF Promise!Deliver, Promise!Become, statusOf
  <2> QED
    BY <2>2, <2>5 DEF Promise!Next
<1>10. CASE Settle
  <2>1. PICK id \in batch : outbox' = Settled(id) /\ UNCHANGED shown
    BY <1>1, <1>10 DEF Settle
  <2>2. id \in Ids /\ outbox[id].status = "pending"
    BY <1>0, <2>1
  <2>3. CASE outbox[id].age >= MaxPendingAge
    <3>1. \A other \in Ids : outbox'[other].status
            = IF other = id THEN "failed" ELSE outbox[other].status
      BY <1>0, <2>1, <2>2, <2>3 DEF Settled, MarkOutboxFailed, RowType
    <3>2. statusOf' = [statusOf EXCEPT ![id] = "failed"]
      BY <1>0, <2>2, <3>1, OneStatus
    <3>3. Promise!GiveUp(id)
      BY <2>1, <2>2, <3>2 DEF Promise!GiveUp, Promise!Become, statusOf
    <3> QED
      BY <2>2, <3>3 DEF Promise!Next
  <2>4. CASE ~(outbox[id].age >= MaxPendingAge)
    <3>1. \A other \in Ids : outbox'[other].status = outbox[other].status
      BY <1>0, <2>1, <2>2, <2>4 DEF Settled, RescheduleOutbox, RowType
    <3> QED
      BY <1>2, <2>1, <3>1
  <2> QED
    BY <2>3, <2>4
<1>11. CASE Boot \/ PruneTick
  BY <1>6, <1>11 DEF Boot, PruneTick
<1>12. CASE Tick
  BY <1>2, <1>12, TickKeepsQueue DEF Tick
<1>13. CASE UNCHANGED <<outbox, shown>>
  BY <1>1, <1>13
<1>14. CASE Kick \/ Wake \/ Poll \/ ReadDue \/ ReadDueFails \/ CountPending \/ BeginAttempt
            \/ RecordMappings \/ Crash \/ UNCHANGED vars
  BY <1>13, <1>14 DEF Kick, Wake, Poll, ReadDue, ReadDueFails, CountPending, BeginAttempt,
     RecordMappings, Crash, vars
<1> QED
  BY <1>3, <1>4, <1>5, <1>8, <1>9, <1>10, <1>11, <1>12, <1>14
     DEF Next, Request, Drain, Attempt

\* Every behaviour of the dispatcher, seen through the status column, is one
\* DurableDelivery allows.
THEOREM ImplementsPromise == Spec => KeepsPromise
<1>1. Spec => [](TypeOK /\ QueueInv /\ ShownFirst)
  BY TypeInit, TypeStep, QueueInit, QueueStep, ShownInit, ShownStep, PTL DEF Spec
<1> QED
  BY <1>1, PromiseInit, PromiseStep, PTL DEF Spec, KeepsPromise, Promise!Spec
------------------------------------------------------------------------------
(* Nothing delivered is sent again. *)

\* The messages a post adds are all its own.
LEMMA LandedBy ==
  ASSUME timeline \in Seq(MessageType), NEW m \in MessageType, NEW landed \in 0..SendMaxAttempts,
         timeline' = Landed(m, landed)
  PROVE  \A ev \in DOMAIN timeline' \ DOMAIN timeline : timeline'[ev] = m
<1> DEFINE new == [i \in 1..landed |-> m]
<1>1. new \in Seq(MessageType) /\ Len(new) = landed
  OBVIOUS
<1>2. \A ev \in (Len(timeline) + 1)..(Len(timeline) + landed) :
        (timeline \o new)[ev] = new[ev - Len(timeline)]
  <2> HIDE DEF new
  <2> QED BY <1>1, ConcatProperties
<1>3. Len(timeline \o new) = Len(timeline) + landed /\ timeline \o new \in Seq(MessageType)
  <2> HIDE DEF new
  <2> QED BY <1>1, ConcatProperties
<1>4. timeline' = timeline \o new
  BY DEF Landed
<1>5. DOMAIN timeline' \ DOMAIN timeline \subseteq (Len(timeline) + 1)..(Len(timeline) + landed)
  <2> HIDE DEF new
  <2> QED BY <1>3, <1>4, LenProperties
<1> QED
  BY <1>2, <1>4, <1>5

LEMMA ResendStep ==
  TypeOK /\ QueueInv /\ [Next]_vars =>
    \A ev \in DOMAIN timeline' \ DOMAIN timeline :
      outbox[timeline'[ev].by].status # "delivered"
<1> SUFFICES ASSUME TypeOK, QueueInv, [Next]_vars,
                    NEW ev \in DOMAIN timeline' \ DOMAIN timeline
             PROVE  outbox[timeline'[ev].by].status # "delivered"
  OBVIOUS
<1>0. /\ timeline \in Seq(MessageType) /\ batch \subseteq Ids
      /\ \A id \in Ids : notice[id].room \in Rooms
      /\ \A id \in batch : outbox[id].status = "pending"
  BY DEF TypeOK, NoticeType, QueueInv, SnapshotsFresh, IsDue
<1>1. ASSUME NEW id \in Ids, NEW image \in BOOLEAN, NEW room \in Rooms, NEW landed \in 0..SendMaxAttempts,
             timeline' = Landed(Message(id, image, room), landed)
      PROVE  timeline'[ev].by = id
  <2>1. Message(id, image, room) \in MessageType
    BY DEF Message, MessageType
  <2>2. timeline'[ev] = Message(id, image, room)
    BY <1>0, <1>1, <2>1, LandedBy
  <2> QED
    BY <2>2 DEF Message
<1>2. ASSUME NEW r \in Rooms, TestSend(r) PROVE outbox[timeline'[ev].by].status # "delivered"
  <2>1. PICK id \in Ids, landed \in 0..SendMaxAttempts :
          IsFresh(id) /\ timeline' = Landed(Message(id, FALSE, r), landed)
    BY <1>2 DEF TestSend
  <2> QED
    BY <1>1, <2>1 DEF IsFresh
<1>3. CASE Post
  <2>1. PICK id \in batch, image \in BOOLEAN, landed \in 0..SendMaxAttempts :
          timeline' = Landed(Message(id, image, notice[id].room), landed)
    BY <1>3 DEF Post
  <2> QED
    BY <1>0, <1>1, <2>1
<1>4. CASE SendEdit
  <2>1. DOMAIN timeline' = DOMAIN timeline
    BY <1>4 DEF SendEdit
  <2> QED
    BY <2>1
<1>5. CASE UNCHANGED timeline
  BY <1>5
<1>6. CASE \/ \E n \in Notices : Enqueue(n)
           \/ \E id \in Ids : RetryDelivery(id)
           \/ Kick \/ Boot \/ Wake \/ Poll \/ PruneTick \/ ReadDue \/ ReadDueFails
           \/ CountPending \/ BeginAttempt \/ RecordMappings \/ MarkDelivered \/ Settle
           \/ Crash \/ Tick \/ UNCHANGED vars
  BY <1>5, <1>6 DEF Enqueue, RetryDelivery, Kick, Boot, Wake, Poll, PruneTick, ReadDue,
     ReadDueFails, CountPending, BeginAttempt, RecordMappings, MarkDelivered, Settle,
     Crash, Tick, vars
<1> QED
  BY <1>2, <1>3, <1>4, <1>6 DEF Next, Request, Drain, Attempt

\* No step posts a message for a row that says delivered.
THEOREM DeliveredNotResent == Spec => NeverResendDelivered
<1>1. Spec => [](TypeOK /\ QueueInv)
  BY TypeInit, TypeStep, QueueInit, QueueStep, PTL DEF Spec
<1>2. TypeOK /\ QueueInv /\ [Next]_vars =>
        [\A ev \in DOMAIN timeline' \ DOMAIN timeline :
           outbox[timeline'[ev].by].status # "delivered"]_vars
  BY ResendStep
<1> QED
  BY <1>1, <1>2, PTL DEF Spec, NeverResendDelivered

------------------------------------------------------------------------------
(* Alert messages: what the rooms and the mappings say of each other.      *)

\* A message belongs to a row that exists, and so does what it shows.
PostedRows ==
  \A ev \in 1..Len(timeline) :
    /\ outbox[timeline[ev].by].status # "absent"
    /\ outbox[timeline[ev].shows].status # "absent"
    /\ timeline[ev].room = notice[timeline[ev].by].room

\* While an edit is in flight its target is a text message of the entry's
\* room that announced everything the entry calls firing.
EditSound ==
  pc = "edit" => \A id \in batch : IsHead(id) =>
    /\ target \in 1..Len(timeline)
    /\ ~timeline[target].image
    /\ \A fp \in notice[id].fires : Announces(target, notice[id].room, fp)
    /\ timeline[target].room = notice[id].room

\* The event RecordAlertMessages is about to be called with is a text message.
RecordSound ==
  pc = "record" => \A id \in batch : IsHead(id) =>
    \A ev \in 1..Len(timeline) :
      /\ timeline[ev].by = id
      /\ \A later \in 1..Len(timeline) : later > ev => timeline[later].by # id
      => ~timeline[ev].image

\* Somebody was pinged for every alert the entry calls firing.
Announced(id) ==
  \A fp \in notice[id].fires :
    \E ev \in 1..Len(timeline) : Announces(ev, notice[id].room, fp)
SuccessAnnounced ==
  pc \in {"record", "succeeded"} => \A id \in batch : IsHead(id) => Announced(id)

AlertsInv ==
  /\ PostedRows /\ EditSound /\ RecordSound /\ SuccessAnnounced
  /\ MappingsSound /\ EditsAnnounceNothing /\ FiringAlertsArePosted

\* A step keeps the messages that are there, up to what they show, and what
\* the rows that exist asked for.
MessagesKept ==
  /\ Len(timeline) \in Nat /\ Len(timeline') \in Nat /\ Len(timeline) <= Len(timeline')
  /\ \A ev \in 1..Len(timeline) :
       /\ timeline'[ev].by = timeline[ev].by
       /\ timeline'[ev].room = timeline[ev].room
       /\ timeline'[ev].image = timeline[ev].image
RowsKept ==
  \A id \in Ids : outbox[id].status # "absent"
                  => outbox'[id].status # "absent" /\ notice'[id] = notice[id]

\* What posting adds, and where.
LEMMA LandedShape ==
  ASSUME timeline \in Seq(MessageType), NEW m \in MessageType, NEW landed \in 0..SendMaxAttempts,
         timeline' = Landed(m, landed)
  PROVE  /\ Len(timeline') = Len(timeline) + landed
         /\ \A ev \in 1..Len(timeline) : timeline'[ev] = timeline[ev]
         /\ \A ev \in 1..Len(timeline') : ev > Len(timeline) => timeline'[ev] = m
<1> DEFINE new == [i \in 1..landed |-> m]
<1>1. new \in Seq(MessageType) /\ Len(new) = landed /\ \A i \in 1..landed : new[i] = m
  OBVIOUS
<1>2. timeline' = timeline \o new
  BY DEF Landed
<1>3. /\ Len(timeline \o new) = Len(timeline) + Len(new)
      /\ \A ev \in 1..(Len(timeline) + Len(new)) :
           (timeline \o new)[ev] = IF ev <= Len(timeline) THEN timeline[ev]
                                   ELSE new[ev - Len(timeline)]
  <2> HIDE DEF new
  <2> QED BY <1>1, ConcatProperties
<1>4. Len(timeline) \in Nat
  BY LenProperties
<1> HIDE DEF new
<1> QED
  BY <1>1, <1>2, <1>3, <1>4

\* Replacing a message changes what it shows alone.
LEMMA EditShape ==
  ASSUME timeline \in Seq(MessageType), NEW id \in Ids, target \in 1..Len(timeline),
         timeline' = [timeline EXCEPT ![target].shows = id]
  PROVE  /\ Len(timeline') = Len(timeline)
         /\ timeline'[target] = [timeline[target] EXCEPT !.shows = id]
         /\ \A ev \in 1..Len(timeline) : ev # target => timeline'[ev] = timeline[ev]
         /\ timeline'[target].shows = id
         /\ timeline'[target].by = timeline[target].by
         /\ timeline'[target].room = timeline[target].room
         /\ timeline'[target].image = timeline[target].image
<1>1. timeline[target] \in MessageType /\ DOMAIN timeline = 1..Len(timeline)
  BY LenProperties
<1>2. timeline' \in Seq(MessageType)
  <2>1. [timeline[target] EXCEPT !.shows = id] \in MessageType
    BY <1>1 DEF MessageType
  <2> DEFINE m == [timeline[target] EXCEPT !.shows = id]
  <2>2. [timeline EXCEPT ![target] = m] \in Seq(MessageType)
    <3> HIDE DEF m
    <3>1. m \in MessageType
      BY <2>1 DEF m
    <3> QED BY <3>1, ExceptSeq
  <2> QED BY <2>2
<1>3. DOMAIN timeline' = DOMAIN timeline
  OBVIOUS
<1>4. Len(timeline') = Len(timeline)
  BY <1>1, <1>2, <1>3, LenProperties
<1> QED
  BY <1>1, <1>4 DEF MessageType

\* A write that leaves the rows that exist in existence.
LEMMA RowsStay ==
  ASSUME TypeOK, QueueInv, [Next]_vars, NEW id \in Ids, outbox[id].status # "absent"
  PROVE  outbox'[id].status # "absent" /\ notice'[id] = notice[id]
<1>0. /\ DOMAIN outbox = Ids /\ DOMAIN notice = Ids /\ batch \subseteq Ids
      /\ outbox[id] \in RowType
  BY DEF TypeOK
<1>1. ASSUME NEW n \in Notices, Enqueue(n) PROVE outbox'[id].status # "absent" /\ notice'[id] = notice[id]
  BY <1>0, <1>1 DEF Enqueue, IsFresh, EnqueueOutbox, EmptyRow
<1>2. ASSUME NEW i \in Ids, RetryDelivery(i)
      PROVE  outbox'[id].status # "absent" /\ notice'[id] = notice[id]
  BY <1>0, <1>2 DEF RetryDelivery, RequeueOutbox, RowType
<1>3. ASSUME NEW r \in Rooms, TestSend(r)
      PROVE  outbox'[id].status # "absent" /\ notice'[id] = notice[id]
  <2>1. PICK i \in Ids, ok \in BOOLEAN :
          /\ IsFresh(i)
          /\ outbox' = RecordDelivery(outbox, i, IF ok THEN "delivered" ELSE "failed")
          /\ notice' = [notice EXCEPT ![i] = [NoNotice EXCEPT !.room = r]]
    BY <1>3 DEF TestSend
  <2> QED BY <1>0, <2>1 DEF IsFresh, RecordDelivery
<1>4. CASE Prune /\ UNCHANGED notice
  BY <1>0, <1>4 DEF Prune, PruneOutbox, EmptyRow
<1>5. CASE MarkDelivered
  BY <1>0, <1>5 DEF MarkDelivered, MarkOutboxDelivered, RowType
<1>6. CASE Settle
  BY <1>0, <1>6 DEF Settle, Settled, MarkOutboxFailed, RescheduleOutbox, RowType
<1>7. CASE Tick
  BY <1>7, TickKeepsQueue DEF Tick
<1>8. CASE UNCHANGED <<outbox, notice>>
  BY <1>8
<1>9. CASE Boot \/ PruneTick
  BY <1>4, <1>9 DEF Boot, PruneTick
<1>10. CASE \/ Kick \/ Wake \/ Poll \/ ReadDue \/ ReadDueFails \/ CountPending \/ BeginAttempt
            \/ SendEdit \/ Post \/ RecordMappings \/ Crash \/ UNCHANGED vars
  BY <1>8, <1>10 DEF Kick, Wake, Poll, ReadDue, ReadDueFails, CountPending, BeginAttempt,
     SendEdit, Post, RecordMappings, Crash, vars
<1> QED
  BY <1>1, <1>2, <1>3, <1>5, <1>6, <1>7, <1>9, <1>10 DEF Next, Request, Drain, Attempt

\* The three ways a step can change the rooms: a post adds copies of one
\* message, an edit changes what its target shows, or nothing changes.
LEMMA RoomsStep ==
  ASSUME TypeOK, EditSound, [Next]_vars
  PROVE  MessagesKept
<1> USE DEF MessagesKept
<1>0. /\ timeline \in Seq(MessageType) /\ Len(timeline) \in Nat
      /\ \A id \in batch : id \in Ids /\ notice[id].room \in Rooms
  BY LenProperties DEF TypeOK, NoticeType
<1>1. ASSUME NEW id \in Ids, NEW image \in BOOLEAN, NEW room \in Rooms, NEW landed \in 0..SendMaxAttempts,
             timeline' = Landed(Message(id, image, room), landed)
      PROVE  Len(timeline') = Len(timeline) + landed
             /\ \A ev \in 1..Len(timeline) : timeline'[ev] = timeline[ev]
  <2>1. Message(id, image, room) \in MessageType
    BY DEF Message, MessageType
  <2> QED BY <1>0, <1>1, <2>1, LandedShape
<1>2. ASSUME NEW r \in Rooms, TestSend(r)
      PROVE  \E landed \in 0..SendMaxAttempts : Len(timeline') = Len(timeline) + landed
             /\ \A ev \in 1..Len(timeline) : timeline'[ev] = timeline[ev]
  BY <1>1, <1>2 DEF TestSend
<1>3. CASE Post
  <2>1. \E landed \in 0..SendMaxAttempts : Len(timeline') = Len(timeline) + landed
             /\ \A ev \in 1..Len(timeline) : timeline'[ev] = timeline[ev]
    BY <1>0, <1>1, <1>3 DEF Post
  <2> QED BY <1>0, <2>1
<1>4. CASE SendEdit
  <2>1. PICK id \in batch : /\ IsHead(id) /\ pc = "edit"
                            /\ \/ timeline' = [timeline EXCEPT ![target].shows = id]
                               \/ timeline' = timeline
    BY <1>4 DEF SendEdit
  <2>2. target \in 1..Len(timeline) /\ id \in Ids
    BY <1>0, <2>1 DEF EditSound
  <2>3. CASE timeline' = timeline
    BY <1>0, <2>3
  <2>4. CASE timeline' = [timeline EXCEPT ![target].shows = id]
    BY <1>0, <2>2, <2>4, EditShape
  <2> QED BY <2>1, <2>3, <2>4
<1>5. CASE UNCHANGED timeline
  BY <1>0, <1>5
<1>6. CASE \/ \E n \in Notices : Enqueue(n)
           \/ \E id \in Ids : RetryDelivery(id)
           \/ Kick \/ Boot \/ Wake \/ Poll \/ PruneTick \/ ReadDue \/ ReadDueFails
           \/ CountPending \/ BeginAttempt \/ RecordMappings \/ MarkDelivered \/ Settle
           \/ Crash \/ Tick \/ UNCHANGED vars
  BY <1>5, <1>6 DEF Enqueue, RetryDelivery, Kick, Boot, Wake, Poll, PruneTick, ReadDue,
     ReadDueFails, CountPending, BeginAttempt, RecordMappings, MarkDelivered, Settle,
     Crash, Tick, vars
<1> QED
  BY <1>0, <1>2, <1>3, <1>4, <1>6 DEF Next, Request, Drain, Attempt

LEMMA StepKeeps ==
  TypeOK /\ QueueInv /\ EditSound /\ [Next]_vars => MessagesKept /\ RowsKept
BY RowsStay, RoomsStep DEF RowsKept

\* So an announcement, once made, stays made.
LEMMA AnnouncementStays ==
  ASSUME TypeOK, PostedRows, MessagesKept, RowsKept, NEW ev \in 1..Len(timeline)
  PROVE  /\ ev \in 1..Len(timeline')
         /\ timeline[ev].by \in Ids /\ timeline[ev].shows \in Ids
         /\ notice'[timeline[ev].by] = notice[timeline[ev].by]
         /\ notice'[timeline[ev].shows] = notice[timeline[ev].shows]
         /\ \A room, fp : Announces(ev, room, fp) => Announces(ev, room, fp)'
<1>1. timeline[ev] \in MessageType
  BY LenProperties DEF TypeOK
<1>2. timeline[ev].by \in Ids /\ timeline[ev].shows \in Ids
  BY <1>1 DEF MessageType
<1>3. notice'[timeline[ev].by] = notice[timeline[ev].by]
      /\ notice'[timeline[ev].shows] = notice[timeline[ev].shows]
  BY <1>2 DEF PostedRows, RowsKept
<1>4. ev \in 1..Len(timeline')
  BY DEF MessagesKept
<1> QED
  BY <1>2, <1>3, <1>4 DEF MessagesKept, Announces

LEMMA AnnouncedStays ==
  ASSUME TypeOK, PostedRows, MessagesKept, RowsKept, NEW id \in Ids,
         outbox[id].status # "absent", Announced(id)
  PROVE  Announced(id)'
<1>1. notice'[id] = notice[id]
  BY DEF RowsKept
<1> QED
  BY <1>1, AnnouncementStays DEF Announced

\* editTarget names a text message of the room that announced everything the
\* entry calls firing.
LEMMA EditTargetSound ==
  ASSUME TypeOK, MappingsSound, NEW id \in Ids, EditTarget(alerts, notice[id]) # 0
  PROVE  LET ev == EditTarget(alerts, notice[id]) IN
         /\ ev \in 1..Len(timeline)
         /\ ~timeline[ev].image
         /\ \A fp \in notice[id].fires : Announces(ev, notice[id].room, fp)
         /\ timeline[ev].room = notice[id].room
<1> DEFINE n       == notice[id]
           known   == MapAlertMessages(alerts, n.room, n.fires \cup n.resolves)
           targets == {known[fp] : fp \in DOMAIN known}
           chosen  == CHOOSE ev \in targets : TRUE
<1>1. /\ n.fires \subseteq DOMAIN known
      /\ n.resolves \cap DOMAIN known # {}
      /\ \E ev \in targets : targets = {ev}
      /\ EditTarget(alerts, n) = chosen
  BY DEF EditTarget
<1>2. targets = {chosen}
  <2> HIDE DEF targets
  <2> QED BY <1>1
<1>3. \A fp \in DOMAIN known :
        /\ fp \in Fingerprints /\ n.room \in Rooms
        /\ known[fp] = alerts[n.room][fp].event /\ known[fp] # 0
  <2>1. n \in NoticeType
    BY DEF TypeOK
  <2> QED BY <2>1 DEF MapAlertMessages, NoticeType
<1>4. \A fp \in DOMAIN known : alerts[n.room][fp].event = chosen /\ chosen # 0
  BY <1>2, <1>3
<1>5. \A fp \in DOMAIN known : /\ chosen \in 1..Len(timeline)
                               /\ ~timeline[chosen].image
                               /\ Announces(chosen, n.room, fp)
  <2> HIDE DEF chosen, known, n
  <2> QED BY <1>3, <1>4 DEF MappingsSound
<1>6. PICK fp \in DOMAIN known : TRUE
  BY <1>1
<1> HIDE DEF known, targets, chosen
<1> QED
  BY <1>1, <1>5, <1>6 DEF Announces

\* Mappings that stay or go stay sound.
MappingsShrink ==
  \A room \in Rooms, fp \in Fingerprints :
    alerts'[room][fp].event = alerts[room][fp].event \/ alerts'[room][fp].event = 0

LEMMA MappingsStay ==
  ASSUME TypeOK, PostedRows, MessagesKept, RowsKept, MappingsSound, MappingsShrink
  PROVE  MappingsSound'
<1> SUFFICES ASSUME NEW room \in Rooms, NEW fp \in Fingerprints, NEW ev,
                    ev = alerts'[room][fp].event, ev # 0
             PROVE  ev \in 1..Len(timeline') /\ ~timeline'[ev].image /\ Announces(ev, room, fp)'
  BY DEF MappingsSound, Announces
<1>1. ev \in 1..Len(timeline) /\ ~timeline[ev].image /\ Announces(ev, room, fp)
  BY DEF MappingsShrink, MappingsSound
<1>2. ev \in 1..Len(timeline') /\ Announces(ev, room, fp)'
  BY <1>1, AnnouncementStays
<1>3. ~timeline'[ev].image
  BY <1>1 DEF MessagesKept
<1> QED
  BY <1>2, <1>3

\* What the rooms say survives a step that adds no message and edits none.
LEMMA RoomsStay ==
  ASSUME TypeOK, PostedRows, EditsAnnounceNothing, MessagesKept, RowsKept, UNCHANGED timeline
  PROVE  PostedRows' /\ EditsAnnounceNothing'
<1>1. ASSUME NEW ev \in 1..Len(timeline)
      PROVE  /\ timeline[ev].by \in Ids /\ timeline[ev].shows \in Ids
             /\ notice'[timeline[ev].by] = notice[timeline[ev].by]
             /\ notice'[timeline[ev].shows] = notice[timeline[ev].shows]
  BY AnnouncementStays
<1>2. PostedRows'
  BY <1>1 DEF PostedRows, RowsKept
<1>3. EditsAnnounceNothing'
  BY <1>1 DEF EditsAnnounceNothing
<1> QED BY <1>2, <1>3

\* Posting a row's own rendering says nothing wrong, and announces the row.
LEMMA PostingSound ==
  ASSUME TypeOK, PostedRows, EditsAnnounceNothing, MessagesKept, RowsKept,
         NEW id \in Ids, NEW image \in BOOLEAN, NEW room \in Rooms, NEW landed \in 0..SendMaxAttempts,
         timeline' = Landed(Message(id, image, room), landed),
         outbox'[id].status # "absent", notice'[id].room = room
  PROVE  /\ PostedRows' /\ EditsAnnounceNothing'
         /\ landed > 0 => /\ Announced(id)'
                          /\ Len(timeline') \in 1..Len(timeline')
                          /\ timeline'[Len(timeline')] = Message(id, image, room)
<1> DEFINE m == Message(id, image, room)
<1>0. timeline \in Seq(MessageType) /\ Len(timeline) \in Nat
  BY LenProperties DEF TypeOK
<1>1. /\ m \in MessageType
      /\ m.by = id /\ m.shows = id /\ m.image = image /\ m.room = room
  BY DEF Message, MessageType
<1>2. /\ Len(timeline') = Len(timeline) + landed
      /\ \A ev \in 1..Len(timeline) : timeline'[ev] = timeline[ev]
      /\ \A ev \in 1..Len(timeline') : ev > Len(timeline) => timeline'[ev] = m
  <2>1. timeline' = Landed(m, landed)
    OBVIOUS
  <2> HIDE DEF m
  <2> QED BY <1>0, <1>1, <2>1, LandedShape
<1>3. ASSUME NEW ev \in 1..Len(timeline)
      PROVE  /\ timeline[ev].by \in Ids /\ timeline[ev].shows \in Ids
             /\ notice'[timeline[ev].by] = notice[timeline[ev].by]
             /\ notice'[timeline[ev].shows] = notice[timeline[ev].shows]
             /\ timeline'[ev] = timeline[ev]
  BY <1>2, AnnouncementStays
<1> HIDE DEF m
<1>4. PostedRows'
  <2> SUFFICES ASSUME NEW ev \in 1..Len(timeline')
               PROVE  /\ outbox'[timeline'[ev].by].status # "absent"
                      /\ outbox'[timeline'[ev].shows].status # "absent"
                      /\ timeline'[ev].room = notice'[timeline'[ev].by].room
    BY DEF PostedRows
  <2>1. CASE ev <= Len(timeline)
    <3>1. ev \in 1..Len(timeline)
      BY <1>0, <2>1
    <3> QED BY <1>3, <3>1 DEF PostedRows, RowsKept
  <2>2. CASE ev > Len(timeline)
    BY <1>1, <1>2, <2>2
  <2> QED BY <1>0, <1>2, <2>1, <2>2
<1>5. EditsAnnounceNothing'
  <2> SUFFICES ASSUME NEW ev \in 1..Len(timeline')
               PROVE  LET k == timeline'[ev] IN
                      /\ notice'[k.shows].fires \subseteq notice'[k.by].fires
                      /\ notice'[k.shows].room = k.room
                      /\ k.image => k.shows = k.by
    BY DEF EditsAnnounceNothing
  <2>1. CASE ev <= Len(timeline)
    <3>1. ev \in 1..Len(timeline)
      BY <1>0, <2>1
    <3>2. /\ notice[timeline[ev].shows].fires \subseteq notice[timeline[ev].by].fires
          /\ notice[timeline[ev].shows].room = timeline[ev].room
          /\ timeline[ev].image => timeline[ev].shows = timeline[ev].by
      BY <3>1 DEF EditsAnnounceNothing
    <3>3. /\ notice'[timeline[ev].by] = notice[timeline[ev].by]
          /\ notice'[timeline[ev].shows] = notice[timeline[ev].shows]
          /\ timeline'[ev] = timeline[ev]
      BY <1>3, <3>1
    <3> QED BY <3>2, <3>3
  <2>2. CASE ev > Len(timeline)
    BY <1>1, <1>2, <2>2
  <2> QED BY <1>0, <1>2, <2>1, <2>2
<1>6. ASSUME landed > 0
      PROVE  /\ Announced(id)'
             /\ Len(timeline') \in 1..Len(timeline')
             /\ timeline'[Len(timeline')] = m
  <2>1. Len(timeline') \in 1..Len(timeline') /\ Len(timeline') > Len(timeline)
    BY <1>0, <1>2, <1>6
  <2>2. PICK last \in 1..Len(timeline') : last = Len(timeline') /\ timeline'[last] = m
    BY <1>2, <2>1
  <2>3. \A fp \in notice'[id].fires :
          timeline'[last].room = notice'[id].room /\ fp \in notice'[timeline'[last].by].fires
    BY <1>1, <2>2
  <2> QED BY <2>2, <2>3 DEF Announced, Announces
<1> QED BY <1>4, <1>5, <1>6 DEF m

\* A step that leaves the rooms alone, delivers nothing and points no
\* mapping anywhere new, and either leaves Run where it is or takes it to a
\* point where nothing is known of the entry.
Quiet ==
  /\ UNCHANGED timeline
  /\ MappingsShrink
  /\ \A id \in Ids : outbox'[id].status = "delivered" => outbox[id].status = "delivered"
  /\ pc' \in {"edit", "record", "succeeded"} => UNCHANGED <<pc, batch, target>>

\* The rows of the batch exist.
LEMMA BatchExists ==
  ASSUME TypeOK, QueueInv, NEW id \in batch
  PROVE  id \in Ids /\ outbox[id].status = "pending"
BY DEF TypeOK, QueueInv, SnapshotsFresh, IsDue

\* What is known of the entry stays true while Run stays where it is.
LEMMA EntryStays ==
  ASSUME TypeOK, QueueInv, AlertsInv, MessagesKept, RowsKept, UNCHANGED <<pc, batch, target>>
  PROVE  EditSound' /\ SuccessAnnounced'
<1> USE DEF AlertsInv
<1>1. ASSUME NEW id \in batch PROVE id \in Ids /\ notice'[id] = notice[id]
  BY <1>1, BatchExists DEF RowsKept
<1>2. EditSound'
  <2> SUFFICES ASSUME pc = "edit", NEW id \in batch, IsHead(id)
               PROVE  /\ target \in 1..Len(timeline')
                      /\ ~timeline'[target].image
                      /\ \A fp \in notice'[id].fires :
                           /\ timeline'[target].room = notice'[id].room
                           /\ fp \in notice'[timeline'[target].by].fires
                      /\ timeline'[target].room = notice'[id].room
    BY DEF EditSound, IsHead, Announces
  <2>1. /\ target \in 1..Len(timeline)
        /\ ~timeline[target].image
        /\ \A fp \in notice[id].fires : Announces(target, notice[id].room, fp)
        /\ timeline[target].room = notice[id].room
    BY DEF EditSound
  <2>2. /\ target \in 1..Len(timeline')
        /\ timeline'[target].by = timeline[target].by
        /\ timeline'[target].room = timeline[target].room
        /\ timeline'[target].image = timeline[target].image
        /\ notice'[timeline[target].by] = notice[timeline[target].by]
    BY <2>1, AnnouncementStays DEF MessagesKept
  <2> QED BY <1>1, <2>1, <2>2 DEF Announces
<1>3. SuccessAnnounced'
  <2> SUFFICES ASSUME pc \in {"record", "succeeded"}, NEW id \in batch, IsHead(id)
               PROVE  Announced(id)'
    BY DEF SuccessAnnounced, IsHead
  <2>1. Announced(id) /\ id \in Ids /\ outbox[id].status # "absent"
    BY BatchExists DEF SuccessAnnounced
  <2> QED BY <2>1, AnnouncedStays
<1> QED BY <1>2, <1>3

\* A delivered row that was delivered before is announced still.
LEMMA DeliveredStays ==
  ASSUME TypeOK, AlertsInv, MessagesKept, RowsKept, NEW id \in Ids, outbox[id].status = "delivered"
  PROVE  Announced(id)'
<1>1. Announced(id)
  BY DEF AlertsInv, FiringAlertsArePosted, Announced
<1> QED BY <1>1, AnnouncedStays DEF AlertsInv

LEMMA QuietStep ==
  ASSUME TypeOK, QueueInv, AlertsInv, MessagesKept, RowsKept, Quiet
  PROVE  AlertsInv'
<1> USE DEF AlertsInv, Quiet
<1>1. PostedRows' /\ EditsAnnounceNothing'
  BY RoomsStay
<1>2. MappingsSound'
  BY MappingsStay
<1>3. FiringAlertsArePosted'
  BY DeliveredStays DEF FiringAlertsArePosted, Announced
<1>4. CASE pc' \in {"edit", "record", "succeeded"}
  <2>1. UNCHANGED <<pc, batch, target>>
    BY <1>4
  <2>2. RecordSound'
    BY <2>1 DEF RecordSound, IsHead
  <2>3. EditSound' /\ SuccessAnnounced'
    BY <2>1, EntryStays
  <2> QED BY <1>1, <1>2, <1>3, <2>2, <2>3
<1>5. CASE pc' \notin {"edit", "record", "succeeded"}
  BY <1>1, <1>2, <1>3, <1>5 DEF EditSound, RecordSound, SuccessAnnounced
<1> QED BY <1>4, <1>5

\* Pruning and the passing of time point no mapping anywhere new.
LEMMA SweepShrinks ==
  ASSUME TypeOK, Prune \/ Tick
  PROVE  /\ MappingsShrink
         /\ \A id \in Ids : outbox'[id].status = "delivered" => outbox[id].status = "delivered"
<1>0. /\ \A room \in Rooms, fp \in Fingerprints : alerts[room][fp] \in MappingType
      /\ DOMAIN alerts = Rooms /\ \A room \in Rooms : DOMAIN alerts[room] = Fingerprints
      /\ DOMAIN outbox = Ids
  BY DEF TypeOK
<1>1. CASE Prune
  <2>1. MappingsShrink
    BY <1>0, <1>1 DEF Prune, PruneAlertMessages, NoMapping, MappingsShrink
  <2>2. \A id \in Ids : outbox'[id].status = "delivered" => outbox[id].status = "delivered"
    BY <1>0, <1>1 DEF Prune, PruneOutbox, EmptyRow
  <2> QED BY <2>1, <2>2
<1>2. CASE Tick
  <2>1. MappingsShrink
    <3> SUFFICES ASSUME NEW room \in Rooms, NEW fp \in Fingerprints
                 PROVE  alerts'[room][fp].event = alerts[room][fp].event
      BY DEF MappingsShrink
    <3> DEFINE row == alerts[room][fp]
    <3>1. alerts'[room][fp] = IF row.event = 0 THEN row
                              ELSE [row EXCEPT !.age = IF @ < AgeCap THEN @ + 1 ELSE AgeCap]
      BY <1>0, <1>2 DEF Tick, TickMappings
    <3>2. row \in MappingType
      BY <1>0
    <3> QED BY <3>1, <3>2 DEF MappingType
  <2>2. \A id \in Ids : outbox'[id].status = outbox[id].status
    BY <1>2, TickKeepsQueue
  <2> QED BY <2>1, <2>2
<1> QED BY <1>1, <1>2

LEMMA AlertsInit == Init => AlertsInv
<1> SUFFICES ASSUME Init PROVE AlertsInv
  OBVIOUS
<1>1. Len(timeline) = 0
  BY DEF Init
<1>2. PostedRows /\ EditsAnnounceNothing
  BY <1>1 DEF PostedRows, EditsAnnounceNothing
<1>3. MappingsSound
  BY DEF Init, MappingsSound, NoMapping
<1>4. FiringAlertsArePosted
  BY DEF Init, FiringAlertsArePosted, EmptyRow
<1>5. EditSound /\ RecordSound /\ SuccessAnnounced
  BY DEF Init, EditSound, RecordSound, SuccessAnnounced
<1> QED BY <1>2, <1>3, <1>4, <1>5 DEF AlertsInv

\* The steps that do more.  A test send posts for a new row.
LEMMA TestSendStep ==
  ASSUME TypeOK, QueueInv, AlertsInv, MessagesKept, RowsKept, NEW r \in Rooms, TestSend(r)
  PROVE  AlertsInv'
<1> USE DEF AlertsInv
<1>1. PICK id \in Ids, landed \in 0..SendMaxAttempts, ok \in BOOLEAN :
        /\ IsFresh(id)
        /\ timeline' = Landed(Message(id, FALSE, r), landed)
        /\ outbox' = RecordDelivery(outbox, id, IF ok THEN "delivered" ELSE "failed")
        /\ notice' = [notice EXCEPT ![id] = [NoNotice EXCEPT !.room = r]]
        /\ UNCHANGED <<alerts, process>>
  BY DEF TestSend
<1>2. UNCHANGED <<pc, batch, target, alerts>>
  BY <1>1 DEF process
<1>3. /\ notice'[id].room = r /\ notice'[id].fires = {}
      /\ outbox'[id].status \in {"delivered", "failed"}
      /\ \A i \in Ids : i # id => outbox'[i] = outbox[i] /\ notice'[i] = notice[i]
  BY <1>1 DEF TypeOK, NoNotice, RecordDelivery, EmptyRow
<1>4. PostedRows' /\ EditsAnnounceNothing'
  BY <1>1, <1>3, PostingSound
<1>5. MappingsSound'
  BY <1>2, MappingsStay DEF MappingsShrink
<1>6. FiringAlertsArePosted'
  <2> SUFFICES ASSUME NEW i \in Ids, outbox'[i].status = "delivered" PROVE Announced(i)'
    BY DEF FiringAlertsArePosted, Announced
  <2>1. CASE i = id
    BY <1>3, <2>1 DEF Announced
  <2>2. CASE i # id
    BY <1>3, <2>2, DeliveredStays
  <2> QED BY <2>1, <2>2
<1>7. RecordSound'
  <2> SUFFICES ASSUME pc = "record", NEW i \in batch, IsHead(i), NEW ev \in 1..Len(timeline'),
                      timeline'[ev].by = i,
                      \A later \in 1..Len(timeline') : later > ev => timeline'[later].by # i
               PROVE  ~timeline'[ev].image
    BY <1>2 DEF RecordSound, IsHead
  <2>1. i # id
    BY <1>1, BatchExists DEF IsFresh
  <2>2. Message(id, FALSE, r) \in MessageType /\ Message(id, FALSE, r).by = id
    BY DEF Message, MessageType
  <2>3. timeline \in Seq(MessageType) /\ Len(timeline) \in Nat /\ Len(timeline') \in Nat
    BY LenProperties DEF TypeOK, MessagesKept
  <2>4. \A k \in 1..Len(timeline') : k > Len(timeline) => timeline'[k] = Message(id, FALSE, r)
    BY <1>1, <2>2, <2>3, LandedShape
  <2>5. ev \in 1..Len(timeline)
    <3>1. ~(ev > Len(timeline))
      BY <2>1, <2>2, <2>4
    <3> QED BY <2>3, <3>1
  <2>6. \A later \in 1..Len(timeline) : later > ev => timeline[later].by # i
    BY DEF MessagesKept
  <2>7. timeline[ev].by = i /\ timeline'[ev].image = timeline[ev].image
    BY <2>5 DEF MessagesKept
  <2> QED BY <2>5, <2>6, <2>7 DEF RecordSound
<1>8. EditSound' /\ SuccessAnnounced'
  BY <1>2, EntryStays
<1> QED BY <1>4, <1>5, <1>6, <1>7, <1>8

\* Looking a target up finds a sound one.
LEMMA BeginAttemptStep ==
  ASSUME TypeOK, QueueInv, AlertsInv, MessagesKept, RowsKept, BeginAttempt
  PROVE  AlertsInv'
<1> USE DEF AlertsInv
<1>1. PICK id \in batch :
        /\ pc = "each" /\ IsHead(id)
        /\ \/ target' = EditTarget(alerts, notice[id]) /\ pc' = IF target' # 0 THEN "edit" ELSE "post"
           \/ pc' = "post"
        /\ UNCHANGED <<outbox, notice, alerts, timeline, batch>>
  BY DEF BeginAttempt
<1>2. CASE pc' = "post"
  <2>1. Quiet
    BY <1>1, <1>2 DEF Quiet, MappingsShrink
  <2> QED BY <2>1, QuietStep
<1>3. CASE pc' # "post"
  <2>1. pc' = "edit" /\ target' # 0 /\ target' = EditTarget(alerts, notice[id])
    BY <1>1, <1>3
  <2>2. /\ target' \in 1..Len(timeline)
        /\ ~timeline[target'].image
        /\ \A fp \in notice[id].fires : Announces(target', notice[id].room, fp)
        /\ timeline[target'].room = notice[id].room
    BY <2>1, BatchExists, EditTargetSound
  <2>3. \A other \in batch : IsHead(other) => other = id
    BY <1>1, OneHead
  <2>4. EditSound'
    BY <1>1, <2>2, <2>3 DEF EditSound, IsHead, Announces
  <2>5. RecordSound' /\ SuccessAnnounced'
    BY <2>1 DEF RecordSound, SuccessAnnounced
  <2>6. PostedRows' /\ EditsAnnounceNothing'
    BY <1>1, RoomsStay
  <2>7. MappingsSound' /\ FiringAlertsArePosted'
    BY <1>1 DEF MappingsSound, FiringAlertsArePosted, Announces
  <2> QED BY <2>4, <2>5, <2>6, <2>7
<1> QED BY <1>2, <1>3

\* An edit shows no firing alert its target did not announce.
LEMMA SendEditStep ==
  ASSUME TypeOK, QueueInv, AlertsInv, MessagesKept, RowsKept, SendEdit
  PROVE  AlertsInv'
<1> USE DEF AlertsInv
<1>1. PICK id \in batch, landed \in 0..SendMaxAttempts, ok \in BOOLEAN :
        /\ pc = "edit" /\ IsHead(id)
        /\ SendOutcome(notice[id].room, landed, ok)
        /\ timeline' = IF landed > 0 THEN [timeline EXCEPT ![target].shows = id] ELSE timeline
        /\ pc' = IF ok THEN "succeeded" ELSE "post"
        /\ UNCHANGED <<outbox, notice, alerts, batch>>
  BY DEF SendEdit
<1>2. id \in Ids /\ outbox[id].status = "pending"
  BY <1>1, BatchExists
<1>3. /\ target \in 1..Len(timeline)
      /\ ~timeline[target].image
      /\ \A fp \in notice[id].fires : Announces(target, notice[id].room, fp)
      /\ timeline[target].room = notice[id].room
  BY <1>1 DEF EditSound
<1>4. notice[id].fires \subseteq notice[timeline[target].by].fires
  BY <1>3 DEF Announces
<1>5. PostedRows' /\ EditsAnnounceNothing'
  <2>1. CASE UNCHANGED timeline
    BY <2>1, RoomsStay
  <2>2. CASE timeline' = [timeline EXCEPT ![target].shows = id]
    <3>1. /\ Len(timeline') = Len(timeline)
          /\ \A ev \in 1..Len(timeline) : ev # target => timeline'[ev] = timeline[ev]
          /\ timeline'[target].shows = id
          /\ timeline'[target].by = timeline[target].by
          /\ timeline'[target].room = timeline[target].room
          /\ timeline'[target].image = timeline[target].image
      BY <1>2, <1>3, <2>2, EditShape DEF TypeOK
    <3>2. PostedRows'
      BY <1>1, <1>2, <1>3, <3>1 DEF PostedRows
    <3>3. EditsAnnounceNothing'
      <4> SUFFICES ASSUME NEW ev \in 1..Len(timeline)
                   PROVE  /\ notice[timeline'[ev].shows].fires \subseteq notice[timeline'[ev].by].fires
                          /\ notice[timeline'[ev].shows].room = timeline'[ev].room
                          /\ timeline'[ev].image => timeline'[ev].shows = timeline'[ev].by
        BY <1>1, <3>1 DEF EditsAnnounceNothing
      <4>1. CASE ev = target
        BY <1>3, <1>4, <3>1, <4>1
      <4>2. CASE ev # target
        BY <3>1, <4>2 DEF EditsAnnounceNothing
      <4> QED BY <4>1, <4>2
    <3> QED BY <3>2, <3>3
  <2> QED BY <1>1, <2>1, <2>2
<1>6. MappingsSound'
  BY <1>1, MappingsStay DEF MappingsShrink
<1>7. FiringAlertsArePosted'
  BY <1>1, DeliveredStays DEF FiringAlertsArePosted, Announced
<1>8. EditSound' /\ RecordSound'
  BY <1>1 DEF EditSound, RecordSound
<1>9. SuccessAnnounced'
  <2>1. \A other \in batch : IsHead(other) => other = id
    BY <1>1, OneHead
  <2>2. Announced(id)
    BY <1>3 DEF Announced
  <2>3. Announced(id)'
    BY <1>2, <2>2, AnnouncedStays
  <2> QED BY <1>1, <2>1, <2>3 DEF SuccessAnnounced, IsHead
<1> QED BY <1>5, <1>6, <1>7, <1>8, <1>9

\* A post announces its entry; the event Send returned is a text message
\* exactly when mappings are about to be recorded.
LEMMA PostStep ==
  ASSUME TypeOK, QueueInv, AlertsInv, MessagesKept, RowsKept, Post
  PROVE  AlertsInv'
<1> USE DEF AlertsInv
<1>1. PICK id \in batch, image \in BOOLEAN, landed \in 0..SendMaxAttempts, ok \in BOOLEAN :
        /\ pc = "post" /\ IsHead(id)
        /\ SendOutcome(notice[id].room, landed, ok)
        /\ timeline' = Landed(Message(id, image, notice[id].room), landed)
        /\ pc' = IF ~ok THEN "failing"
                 ELSE IF ~image /\ notice[id].fires # {} THEN "record" ELSE "succeeded"
        /\ UNCHANGED <<outbox, notice, alerts, batch>>
  BY DEF Post
<1>2. /\ id \in Ids /\ outbox[id].status = "pending"
      /\ notice[id].room \in Rooms
  BY <1>1, BatchExists DEF TypeOK, NoticeType
<1>3. /\ PostedRows' /\ EditsAnnounceNothing'
      /\ landed > 0 => /\ Announced(id)'
                       /\ Len(timeline') \in 1..Len(timeline')
                       /\ timeline'[Len(timeline')] = Message(id, image, notice[id].room)
  BY <1>1, <1>2, PostingSound
<1>4. \A other \in batch : IsHead(other) => other = id
  BY <1>1, OneHead
<1>5. MappingsSound'
  BY <1>1, MappingsStay DEF MappingsShrink
<1>6. FiringAlertsArePosted'
  BY <1>1, DeliveredStays DEF FiringAlertsArePosted, Announced
<1>7. EditSound'
  BY <1>1 DEF EditSound
<1>8. ok => landed > 0
  BY <1>1, AnswerLanded DEF TypeOK
<1>9. SuccessAnnounced'
  BY <1>1, <1>3, <1>4, <1>8 DEF SuccessAnnounced, IsHead
<1>10. RecordSound'
  <2> SUFFICES ASSUME pc' = "record", NEW i \in batch, IsHead(i), NEW ev \in 1..Len(timeline'),
                      timeline'[ev].by = i,
                      \A later \in 1..Len(timeline') : later > ev => timeline'[later].by # i
               PROVE  ~timeline'[ev].image
    BY <1>1 DEF RecordSound, IsHead
  <2>1. ok /\ ~image /\ i = id
    BY <1>1, <1>4
  <2>2. timeline'[Len(timeline')] = Message(id, image, notice[id].room)
        /\ Len(timeline') \in 1..Len(timeline')
    BY <1>3, <1>8, <2>1
  <2>3. ev = Len(timeline')
    BY <2>1, <2>2 DEF Message, MessagesKept
  <2> QED BY <2>1, <2>2, <2>3 DEF Message
<1> QED BY <1>3, <1>5, <1>6, <1>7, <1>9, <1>10

\* What RecordAlertMessages writes is so.
LEMMA RecordStep ==
  ASSUME TypeOK, QueueInv, AlertsInv, MessagesKept, RowsKept, RecordMappings
  PROVE  AlertsInv'
<1> USE DEF AlertsInv
<1>1. PICK id \in batch, ev \in 1..Len(timeline) :
        /\ pc = "record" /\ IsHead(id)
        /\ timeline[ev].by = id
        /\ \A later \in 1..Len(timeline) : later > ev => timeline[later].by # id
        /\ \/ alerts' = RecordAlertMessages(alerts, notice[id].room, ev, notice[id].fires)
           \/ UNCHANGED alerts
        /\ pc' = "succeeded"
        /\ UNCHANGED <<outbox, notice, timeline, batch>>
  BY DEF RecordMappings
<1>2. ~timeline[ev].image /\ timeline[ev].room = notice[id].room
  BY <1>1 DEF RecordSound, PostedRows
<1>3. \A fp \in notice[id].fires : Announces(ev, notice[id].room, fp)
  BY <1>1, <1>2 DEF Announces
<1>4. MappingsSound'
  <2> SUFFICES ASSUME NEW room \in Rooms, NEW fp \in Fingerprints, alerts'[room][fp].event # 0
               PROVE  /\ alerts'[room][fp].event \in 1..Len(timeline)
                      /\ ~timeline[alerts'[room][fp].event].image
                      /\ Announces(alerts'[room][fp].event, room, fp)
    BY <1>1 DEF MappingsSound, Announces
  <2>1. CASE alerts'[room][fp] = alerts[room][fp]
    BY <2>1 DEF MappingsSound
  <2>2. CASE alerts'[room][fp] # alerts[room][fp]
    <3>1. room = notice[id].room /\ fp \in notice[id].fires /\ alerts'[room][fp].event = ev
      BY <1>1, <2>2 DEF RecordAlertMessages, TypeOK
    <3> QED BY <1>2, <1>3, <3>1
  <2> QED BY <2>1, <2>2
<1>5. PostedRows' /\ EditsAnnounceNothing'
  BY <1>1, RoomsStay
<1>6. FiringAlertsArePosted'
  BY <1>1, DeliveredStays DEF FiringAlertsArePosted, Announced
<1>7. EditSound' /\ RecordSound'
  BY <1>1 DEF EditSound, RecordSound
<1>8. SuccessAnnounced'
  BY <1>1 DEF SuccessAnnounced, IsHead, Announced, Announces
<1> QED BY <1>4, <1>5, <1>6, <1>7, <1>8

\* Only an announced entry is marked delivered.
LEMMA MarkStep ==
  ASSUME TypeOK, QueueInv, AlertsInv, MessagesKept, RowsKept, MarkDelivered
  PROVE  AlertsInv'
<1> USE DEF AlertsInv
<1>1. PICK id \in batch :
        /\ pc = "succeeded" /\ IsHead(id)
        /\ outbox' = MarkOutboxDelivered(outbox, id, seen[id] + 1) \/ UNCHANGED outbox
        /\ pc' \in {"drain", "each"}
        /\ UNCHANGED <<notice, alerts, timeline>>
  BY DEF MarkDelivered, NextEntry
<1>2. id \in Ids /\ outbox[id].status # "absent" /\ Announced(id)
  BY <1>1, BatchExists DEF SuccessAnnounced
<1>3. FiringAlertsArePosted'
  <2> SUFFICES ASSUME NEW i \in Ids, outbox'[i].status = "delivered" PROVE Announced(i)'
    BY DEF FiringAlertsArePosted, Announced
  <2>1. CASE i = id
    BY <1>2, <2>1, AnnouncedStays
  <2>2. CASE i # id
    <3>1. outbox[i].status = "delivered"
      BY <1>1, <1>2, <2>2 DEF MarkOutboxDelivered, TypeOK
    <3> QED BY <3>1, DeliveredStays
  <2> QED BY <2>1, <2>2
<1>4. MappingsSound'
  BY <1>1, MappingsStay DEF MappingsShrink
<1>5. PostedRows' /\ EditsAnnounceNothing'
  BY <1>1, RoomsStay
<1>6. EditSound' /\ RecordSound' /\ SuccessAnnounced'
  BY <1>1 DEF EditSound, RecordSound, SuccessAnnounced
<1> QED BY <1>3, <1>4, <1>5, <1>6

LEMMA AlertsStep == TypeOK /\ QueueInv /\ AlertsInv /\ [Next]_vars => AlertsInv'
<1> SUFFICES ASSUME TypeOK, QueueInv, AlertsInv, [Next]_vars PROVE AlertsInv'
  OBVIOUS
<1>0. MessagesKept /\ RowsKept /\ DOMAIN outbox = Ids /\ batch \subseteq Ids
      /\ \A id \in Ids : outbox[id] \in RowType
  BY StepKeeps DEF AlertsInv, TypeOK
<1> USE DEF Quiet
<1>1. ASSUME UNCHANGED alerts PROVE MappingsShrink
  BY <1>1 DEF MappingsShrink
<1>2. ASSUME NEW n \in Notices, Enqueue(n) PROVE Quiet
  BY <1>0, <1>1, <1>2 DEF Enqueue, EnqueueOutbox, EmptyRow, process
<1>3. ASSUME NEW id \in Ids, RetryDelivery(id) PROVE Quiet
  BY <1>0, <1>1, <1>3 DEF RetryDelivery, RequeueOutbox, RowType, process
<1>4. ASSUME Boot PROVE Quiet
  BY <1>4, SweepShrinks DEF Boot
<1>5. ASSUME PruneTick PROVE Quiet
  BY <1>5, SweepShrinks DEF PruneTick, process
<1>6. ASSUME Tick PROVE Quiet
  BY <1>6, SweepShrinks DEF Tick, process
<1>7. ASSUME Settle PROVE Quiet
  BY <1>0, <1>1, <1>7 DEF Settle, NextEntry, Settled, MarkOutboxFailed, RescheduleOutbox, RowType
<1>8. ASSUME Kick \/ UNCHANGED vars PROVE Quiet
  BY <1>1, <1>8 DEF Kick, vars, process
<1>9. ASSUME Wake \/ Poll \/ ReadDue \/ ReadDueFails \/ CountPending \/ Crash PROVE Quiet
  BY <1>1, <1>9 DEF Wake, Poll, ReadDue, ReadDueFails, CountPending, Crash
<1> HIDE DEF Quiet
<1> QED
  BY <1>0, <1>2, <1>3, <1>4, <1>5, <1>6, <1>7, <1>8, <1>9, QuietStep, TestSendStep,
     BeginAttemptStep, SendEditStep, PostStep, RecordStep, MarkStep
     DEF Next, Request, Drain, Attempt

\* What the alert properties rest on holds in every behaviour.
THEOREM AlertsInvariant == Spec => []AlertsInv
BY TypeInit, TypeStep, QueueInit, QueueStep, AlertsInit, AlertsStep, PTL DEF Spec

\* Every mapping RecordAlertMessages leaves behind names a text message of
\* its room that announced its alert.
THEOREM MappingsAreSound == Spec => []MappingsSound
<1>1. AlertsInv => MappingsSound
  BY DEF AlertsInv
<1> QED
  BY <1>1, AlertsInvariant, PTL

\* editTarget and SendEdit ping nobody: an edited message shows no firing
\* alert its post did not announce.
THEOREM EditsPingNobody == Spec => []EditsAnnounceNothing
<1>1. AlertsInv => EditsAnnounceNothing
  BY DEF AlertsInv
<1> QED
  BY <1>1, AlertsInvariant, PTL

\* An entry attempt marks delivered had all its firing alerts posted.
THEOREM DeliveredMeansPosted == Spec => []FiringAlertsArePosted
<1>1. AlertsInv => FiringAlertsArePosted
  BY DEF AlertsInv
<1> QED
  BY <1>1, AlertsInvariant, PTL

------------------------------------------------------------------------------
(* The order of first attempts. *)

Fresh(id) == outbox[id].status = "pending" /\ outbox[id].attempts = 0

\* Ids are given out in order.
AbsentAbove ==
  \A i, j \in Ids : i < j /\ outbox[i].status = "absent" => outbox[j].status = "absent"

\* A batch that holds an entry holds every older one not attempted yet.
BatchInOrder ==
  \A i, j \in Ids : i < j /\ Fresh(i) /\ j \in batch => i \in batch

Undisturbed == faults = 0 /\ AdminCalls = {}
OrderInv == AbsentAbove /\ (Undisturbed => BatchInOrder /\ NoOvertaking)

\* DueOutbox takes the oldest due rows: with a row it takes every older one.
LEMMA DueOutboxOldest ==
  ASSUME NEW t \in Table, NEW i \in Ids, NEW j \in DueOutbox(t, BatchSize), i < j, IsDue(t, i)
  PROVE  i \in DueOutbox(t, BatchSize)
<1> DEFINE due      == {id \in DOMAIN t : IsDue(t, id)}
           older(k) == {id \in due : id < k}
<1>1. DOMAIN t = Ids /\ j \in due /\ Cardinality(older(j)) < BatchSize /\ due \subseteq Ids
  BY DEF Table, DueOutbox
<1>2. older(i) \subseteq older(j)
  BY <1>1 DEF Ids
<1>3. IsFiniteSet(older(j))
  <2>1. IsFiniteSet(Ids)
    BY FS_Interval DEF Ids
  <2>2. older(j) \in SUBSET Ids
    BY <1>1
  <2> HIDE DEF older
  <2> QED BY <2>1, <2>2, FS_Subset
<1>4. /\ Cardinality(older(i)) \in Nat /\ Cardinality(older(j)) \in Nat
      /\ Cardinality(older(i)) <= Cardinality(older(j))
  <2> HIDE DEF older
  <2>1. older(i) \in SUBSET older(j)
    BY <1>2
  <2>2. IsFiniteSet(older(i)) /\ Cardinality(older(i)) <= Cardinality(older(j))
    BY <1>3, <2>1, FS_Subset
  <2> QED BY <1>3, <2>2, FS_CardinalityType
<1>5. Cardinality(older(i)) < BatchSize
  <2> HIDE DEF older
  <2> QED BY <1>1, <1>4
<1> QED
  BY <1>1, <1>5 DEF DueOutbox, Table

\* A step after which no fault has happened was none, and none came before.
LEMMA FaultsGrow ==
  ASSUME TypeOK, [Next]_vars, faults' = 0
  PROVE  faults = 0
<1>0. faults \in Nat
  BY DEF TypeOK
<1>1. \A kind : NoFault \/ Fault(kind) => faults = 0
  BY <1>0 DEF NoFault, Fault, Faults
<1>2. ASSUME NEW room, NEW landed, NEW ok \in BOOLEAN, SendOutcome(room, landed, ok)
      PROVE  faults = 0
  BY <1>0, <1>2, AnswerCost
<1>3. CASE Prune
  BY <1>1, <1>3 DEF Prune
<1>4. CASE Boot \/ PruneTick
  BY <1>3, <1>4 DEF Boot, PruneTick
<1>5. CASE SendEdit \/ Post \/ \E r \in Rooms : TestSend(r)
  BY <1>2, <1>5 DEF SendEdit, Post, TestSend
<1>6. CASE BeginAttempt \/ RecordMappings \/ MarkDelivered \/ Settle \/ Crash \/ ReadDueFails
  BY <1>1, <1>6 DEF BeginAttempt, RecordMappings, MarkDelivered, Settle, Crash, ReadDueFails
<1>7. CASE \/ \E n \in Notices : Enqueue(n)
           \/ \E id \in Ids : RetryDelivery(id)
           \/ Kick \/ Wake \/ Poll \/ ReadDue \/ CountPending \/ Tick \/ UNCHANGED vars
  BY <1>7 DEF Enqueue, RetryDelivery, Kick, Wake, Poll, ReadDue, CountPending, Tick, vars
<1> QED
  BY <1>4, <1>5, <1>6, <1>7 DEF Next, Request, Drain, Attempt

LEMMA OrderInit == Init => OrderInv
BY DEF Init, OrderInv, AbsentAbove, BatchInOrder, NoOvertaking, Fresh, EmptyRow

\* Only a new row ends an absence, and the new row is the first absent one.
LEMMA AbsentStep ==
  ASSUME TypeOK, QueueInv, AbsentAbove, [Next]_vars
  PROVE  AbsentAbove'
<1>0. /\ DOMAIN outbox = Ids /\ batch \subseteq Ids
      /\ \A id \in Ids : outbox[id] \in RowType
  BY DEF TypeOK
<1>1. ASSUME NEW id \in Ids, IsFresh(id), \A i \in Ids : i # id => outbox'[i] = outbox[i],
             outbox'[id].status # "absent"
      PROVE  AbsentAbove'
  BY <1>0, <1>1 DEF AbsentAbove, IsFresh, Ids
<1>2. ASSUME \A id \in Ids : (outbox'[id].status = "absent") <=> (outbox[id].status = "absent")
      PROVE  AbsentAbove'
  BY <1>2 DEF AbsentAbove
<1>3. ASSUME NEW n \in Notices, Enqueue(n) PROVE AbsentAbove'
  BY <1>0, <1>1, <1>3 DEF Enqueue, EnqueueOutbox, EmptyRow
<1>4. ASSUME NEW r \in Rooms, TestSend(r) PROVE AbsentAbove'
  <2>1. PICK id \in Ids, ok \in BOOLEAN :
          IsFresh(id) /\ outbox' = RecordDelivery(outbox, id, IF ok THEN "delivered" ELSE "failed")
    BY <1>4 DEF TestSend
  <2> QED BY <1>0, <1>1, <2>1 DEF RecordDelivery, EmptyRow
<1>5. ASSUME NEW id \in Ids, RetryDelivery(id) PROVE AbsentAbove'
  BY <1>0, <1>2, <1>5 DEF RetryDelivery, CanRequeue, RequeueOutbox, RowType
<1>6. CASE Prune
  BY <1>0, <1>2, <1>6 DEF Prune, PruneOutbox, EmptyRow, Terminal
<1>7. CASE Boot \/ PruneTick
  BY <1>6, <1>7 DEF Boot, PruneTick
<1>8. CASE MarkDelivered
  BY <1>0, <1>2, <1>8, BatchExists DEF MarkDelivered, MarkOutboxDelivered, RowType
<1>9. CASE Settle
  BY <1>0, <1>2, <1>9, BatchExists DEF Settle, Settled, MarkOutboxFailed, RescheduleOutbox, RowType
<1>10. CASE Tick
  BY <1>2, <1>10, TickKeepsQueue
<1>11. CASE UNCHANGED outbox
  BY <1>2, <1>11
<1>12. CASE \/ Kick \/ Wake \/ Poll \/ ReadDue \/ ReadDueFails \/ CountPending \/ BeginAttempt
            \/ SendEdit \/ Post \/ RecordMappings \/ Crash \/ UNCHANGED vars
  BY <1>11, <1>12 DEF Kick, Wake, Poll, ReadDue, ReadDueFails, CountPending, BeginAttempt,
     SendEdit, Post, RecordMappings, Crash, vars
<1> QED
  BY <1>3, <1>4, <1>5, <1>7, <1>8, <1>9, <1>10, <1>12 DEF Next, Request, Drain, Attempt

LEMMA OrderStep == TypeOK /\ QueueInv /\ OrderInv /\ [Next]_vars => OrderInv'
<1> SUFFICES ASSUME TypeOK, QueueInv, OrderInv, [Next]_vars PROVE OrderInv'
  OBVIOUS
<1>1. AbsentAbove'
  BY AbsentStep DEF OrderInv
<1> SUFFICES ASSUME Undisturbed' PROVE BatchInOrder' /\ NoOvertaking'
  BY <1>1 DEF OrderInv
<1>0. /\ AbsentAbove /\ BatchInOrder /\ AdminCalls = {}
      /\ \A i, j \in Ids : i < j /\ Fresh(i) => outbox[j].status # "delivered"
      /\ faults = 0 /\ \A kind : ~Fault(kind)
  <2>1. faults = 0 /\ faults' = 0 /\ AdminCalls = {}
    BY FaultsGrow DEF Undisturbed
  <2>2. \A kind : ~Fault(kind)
    BY <2>1 DEF Fault, Faults
  <2> QED BY <2>1, <2>2 DEF OrderInv, Undisturbed, NoOvertaking, Fresh
<1>a. /\ DOMAIN outbox = Ids /\ batch \subseteq Ids
      /\ \A id \in Ids : outbox[id] \in RowType /\ seen[id] \in Nat
  BY DEF TypeOK
\* Nothing new is fresh and nothing new is delivered.
<1>2. ASSUME \A id \in Ids : Fresh(id)' => Fresh(id),
             \A id \in Ids : outbox'[id].status = "delivered" => outbox[id].status = "delivered"
      PROVE  NoOvertaking' /\ (UNCHANGED batch => BatchInOrder')
  <2>1. NoOvertaking'
    BY <1>0, <1>2 DEF NoOvertaking, Fresh
  <2>2. UNCHANGED batch => BatchInOrder'
    BY <1>0, <1>2 DEF BatchInOrder
  <2> QED BY <2>1, <2>2
<1>3. ASSUME UNCHANGED outbox PROVE NoOvertaking' /\ (UNCHANGED batch => BatchInOrder')
  BY <1>2, <1>3 DEF Fresh
<1>4. ASSUME NEW n \in Notices, Enqueue(n) PROVE BatchInOrder' /\ NoOvertaking'
  <2>1. PICK id \in Ids : IsFresh(id) /\ outbox' = EnqueueOutbox(outbox, id) /\ UNCHANGED batch
    BY <1>4 DEF Enqueue, process
  <2>2. /\ outbox'[id].status = "pending"
        /\ \A i \in Ids : i # id => outbox'[i] = outbox[i]
        /\ \A j \in Ids : id < j => outbox[j].status = "absent"
    BY <1>0, <1>a, <2>1 DEF EnqueueOutbox, EmptyRow, IsFresh, AbsentAbove
  <2>3. \A j \in batch : outbox[j].status = "pending"
    BY BatchExists
  <2>4. NoOvertaking'
    BY <1>0, <2>2 DEF NoOvertaking, Fresh
  <2>5. BatchInOrder'
    BY <1>0, <1>a, <2>1, <2>2, <2>3 DEF BatchInOrder, Fresh, IsFresh
  <2> QED BY <2>4, <2>5
<1>5. CASE ReadDue
  <2>1. batch' = DueOutbox(outbox, BatchSize) /\ UNCHANGED outbox /\ outbox \in Table
    BY <1>5 DEF ReadDue, TypeOK, Table
  <2>2. BatchInOrder'
    <3> SUFFICES ASSUME NEW i \in Ids, NEW j \in batch', i < j, Fresh(i) PROVE i \in batch'
      BY <2>1 DEF BatchInOrder, Fresh
    <3>1. IsDue(outbox, i)
      BY DEF Fresh, IsDue, QueueInv, FreshIsDue
    <3> QED BY <2>1, <3>1, DueOutboxOldest
  <2> QED BY <1>3, <2>1, <2>2
<1>6. CASE MarkDelivered
  <2>1. PICK id \in batch :
          /\ IsHead(id)
          /\ outbox' = MarkOutboxDelivered(outbox, id, seen[id] + 1)
          /\ batch' = batch \ {id}
    BY <1>0, <1>6 DEF MarkDelivered, NextEntry
  <2>2. /\ outbox'[id].status = "delivered"
        /\ \A i \in Ids : i # id => outbox'[i] = outbox[i]
    BY <1>a, <2>1 DEF MarkOutboxDelivered, RowType
  <2>3. \A i \in Ids : i < id => ~Fresh(i)
    BY <1>0, <1>a, <2>1 DEF BatchInOrder, IsHead, Ids
  <2>4. NoOvertaking'
    BY <1>0, <2>2, <2>3 DEF NoOvertaking, Fresh
  <2>5. BatchInOrder'
    BY <1>0, <2>1, <2>2 DEF BatchInOrder, Fresh
  <2> QED BY <2>4, <2>5
<1>7. CASE Settle
  <2>1. PICK id \in batch : outbox' = Settled(id) /\ batch' = batch \ {id}
    BY <1>0, <1>7 DEF Settle, NextEntry
  <2>2. /\ outbox'[id].attempts = seen[id] + 1
        /\ outbox'[id].status \in {"pending", "failed"}
        /\ \A i \in Ids : i # id => outbox'[i] = outbox[i]
    BY <1>a, <2>1, BatchExists DEF Settled, MarkOutboxFailed, RescheduleOutbox, RowType
  <2>3. ~Fresh(id)'
    BY <1>a, <2>2 DEF Fresh
  <2>4. NoOvertaking'
    BY <1>2, <2>2, <2>3 DEF Fresh
  <2>5. BatchInOrder'
    BY <1>0, <2>1, <2>2, <2>3 DEF BatchInOrder, Fresh
  <2> QED BY <2>4, <2>5
<1>8. CASE Prune /\ UNCHANGED batch
  BY <1>2, <1>8, PruneKeepsQueue, SweepShrinks DEF Fresh
<1>9. CASE Boot \/ PruneTick
  BY <1>8, <1>9 DEF Boot, PruneTick, process
<1>10. CASE Tick
  BY <1>2, <1>10, TickKeepsQueue DEF Tick, Fresh, process
<1>11. ASSUME NEW id \in Ids, RetryDelivery(id) PROVE FALSE
  BY <1>0, <1>11 DEF RetryDelivery
<1>12. ASSUME NEW r \in Rooms, TestSend(r) PROVE FALSE
  BY <1>0, <1>12 DEF TestSend
<1>13. CASE Crash \/ ReadDueFails
  BY <1>0, <1>13 DEF Crash, ReadDueFails
<1>14. CASE \/ Kick \/ Wake \/ Poll \/ CountPending \/ BeginAttempt
            \/ SendEdit \/ Post \/ RecordMappings \/ UNCHANGED vars
  BY <1>3, <1>14 DEF Kick, Wake, Poll, CountPending, BeginAttempt,
     SendEdit, Post, RecordMappings, vars, process
<1> QED
  BY <1>4, <1>5, <1>6, <1>7, <1>9, <1>10, <1>11, <1>12, <1>13, <1>14
     DEF Next, Request, Drain, Attempt

\* While nothing fails and no operator interferes, entries get their first
\* attempt in the order they were accepted, across batches.
THEOREM FirstComeFirstServed == Spec => []NoOvertaking
<1>1. Spec => []OrderInv
  BY TypeInit, TypeStep, QueueInit, QueueStep, OrderInit, OrderStep, PTL DEF Spec
<1>2. OrderInv => NoOvertaking
  BY DEF OrderInv, Undisturbed, NoOvertaking
<1> QED
  BY <1>1, <1>2, PTL

------------------------------------------------------------------------------
(* Duplicates. *)

Posters == {timeline[ev].by : ev \in 1..Len(timeline)}

\* Rows with a message in the room that are not on their way to "delivered":
\* what they have posted was paid for by a fault that no message used yet.
Open(id) ==
  /\ outbox[id].status \in {"pending", "failed"}
  /\ ~(pc \in {"record", "succeeded"} /\ IsHead(id))
Owing == {id \in Posters : Open(id)}

DuplicatesInv == Len(timeline) + Cardinality(Owing) <= Cardinality(Posters) + faults

LEMMA PostersFinite ==
  ASSUME TypeOK
  PROVE  /\ Posters \subseteq Ids /\ IsFiniteSet(Posters) /\ IsFiniteSet(Owing)
         /\ Cardinality(Posters) \in Nat /\ Cardinality(Owing) \in Nat
         /\ Len(timeline) \in Nat /\ faults \in Nat
<1>1. \A ev \in 1..Len(timeline) : timeline[ev] \in MessageType
  BY LenProperties DEF TypeOK
<1>2. Posters \in SUBSET Ids
  BY <1>1 DEF Posters, MessageType
<1>3. IsFiniteSet(Ids)
  BY FS_Interval DEF Ids
<1>4. IsFiniteSet(Posters)
  BY <1>2, <1>3, FS_Subset
<1>5. Owing \in SUBSET Posters
  BY DEF Owing
<1>6. IsFiniteSet(Owing)
  BY <1>4, <1>5, FS_Subset
<1>7. Len(timeline) \in Nat /\ faults \in Nat
  BY LenProperties DEF TypeOK
<1> QED
  BY <1>2, <1>4, <1>6, <1>7, FS_CardinalityType

LEMMA DuplicatesInit == Init => DuplicatesInv
<1> SUFFICES ASSUME Init PROVE DuplicatesInv
  OBVIOUS
<1>1. Len(timeline) = 0 /\ faults = 0
  BY DEF Init
<1>2. Posters = {} /\ Owing = {}
  BY <1>1 DEF Posters, Owing
<1> QED
  BY <1>1, <1>2, FS_EmptySet DEF DuplicatesInv

\* The three ways the account can move.  Nobody new owes anything;
LEMMA NobodyOwes ==
  ASSUME TypeOK, DuplicatesInv, Len(timeline') = Len(timeline), Posters' = Posters,
         Owing' \subseteq Owing, faults' \in Nat, faults' >= faults
  PROVE  DuplicatesInv'
<1>1. Owing' \in SUBSET Owing
  OBVIOUS
<1>2. IsFiniteSet(Owing') /\ Cardinality(Owing') <= Cardinality(Owing)
  BY <1>1, PostersFinite, FS_Subset
<1>3. Cardinality(Owing') \in Nat
  BY <1>2, FS_CardinalityType
<1> QED
  BY <1>2, <1>3, PostersFinite DEF DuplicatesInv

\* one more row owes, and a fault pays;
LEMMA OneMoreOwes ==
  ASSUME TypeOK, DuplicatesInv, Len(timeline') = Len(timeline), Posters' = Posters,
         NEW x, Owing' \subseteq Owing \cup {x}, faults' = faults + 1
  PROVE  DuplicatesInv'
<1>1. /\ IsFiniteSet(Owing \cup {x})
      /\ Cardinality(Owing \cup {x})
           = IF x \in Owing THEN Cardinality(Owing) ELSE Cardinality(Owing) + 1
  BY PostersFinite, FS_AddElement
<1>2. Owing' \in SUBSET (Owing \cup {x})
  OBVIOUS
<1>3. IsFiniteSet(Owing') /\ Cardinality(Owing') <= Cardinality(Owing \cup {x})
  BY <1>1, <1>2, FS_Subset
<1>4. Cardinality(Owing') \in Nat /\ Cardinality(Owing \cup {x}) \in Nat
  BY <1>1, <1>3, FS_CardinalityType
<1> QED
  BY <1>1, <1>3, <1>4, PostersFinite DEF DuplicatesInv

\* copies of a row's message land.  A row that had posted before owed for it.
LEMMA CopiesLand ==
  ASSUME TypeOK, DuplicatesInv, NEW landed \in 1..SendMaxAttempts, NEW x, NEW ok \in BOOLEAN,
         Len(timeline') = Len(timeline) + landed,
         Posters' = Posters \cup {x}, x \in Posters => x \in Owing,
         ok => Owing' \subseteq Owing \ {x} /\ faults' = faults + (landed - 1),
         ~ok => Owing' \subseteq Owing \cup {x} /\ faults' = faults + landed
  PROVE  DuplicatesInv'
<1>1. Cardinality(Posters') = IF x \in Posters THEN Cardinality(Posters) ELSE Cardinality(Posters) + 1
  BY PostersFinite, FS_AddElement
<1>2. CASE ok
  <2>1. /\ IsFiniteSet(Owing \ {x})
        /\ Cardinality(Owing \ {x})
             = IF x \in Owing THEN Cardinality(Owing) - 1 ELSE Cardinality(Owing)
    BY PostersFinite, FS_RemoveElement
  <2>2. Owing' \in SUBSET (Owing \ {x})
    BY <1>2
  <2>3. IsFiniteSet(Owing') /\ Cardinality(Owing') <= Cardinality(Owing \ {x})
    BY <2>1, <2>2, FS_Subset
  <2>4. Cardinality(Owing') \in Nat /\ Cardinality(Owing \ {x}) \in Nat
    BY <2>1, <2>3, FS_CardinalityType
  <2>5. x \in Posters => Cardinality(Owing') <= Cardinality(Owing) - 1
    BY <2>1, <2>3, <2>4, PostersFinite
  <2>6. Cardinality(Owing') <= Cardinality(Owing)
    BY <2>1, <2>3, <2>4, PostersFinite
  <2>7. CASE x \in Posters
    BY <1>1, <1>2, <2>4, <2>5, <2>7, PostersFinite DEF DuplicatesInv
  <2>8. CASE x \notin Posters
    BY <1>1, <1>2, <2>4, <2>6, <2>8, PostersFinite DEF DuplicatesInv
  <2> QED BY <2>7, <2>8
<1>3. CASE ~ok
  <2>1. /\ IsFiniteSet(Owing \cup {x})
        /\ Cardinality(Owing \cup {x})
             = IF x \in Owing THEN Cardinality(Owing) ELSE Cardinality(Owing) + 1
    BY PostersFinite, FS_AddElement
  <2>2. Owing' \in SUBSET (Owing \cup {x})
    BY <1>3
  <2>3. IsFiniteSet(Owing') /\ Cardinality(Owing') <= Cardinality(Owing \cup {x})
    BY <2>1, <2>2, FS_Subset
  <2>4. Cardinality(Owing') \in Nat /\ Cardinality(Owing \cup {x}) \in Nat
    BY <2>1, <2>3, FS_CardinalityType
  <2>5. CASE x \in Posters
    BY <1>1, <1>3, <2>1, <2>3, <2>4, <2>5, PostersFinite DEF DuplicatesInv
  <2>6. CASE x \notin Posters
    BY <1>1, <1>3, <2>1, <2>3, <2>4, <2>6, PostersFinite DEF DuplicatesInv
  <2> QED BY <2>5, <2>6
<1> QED BY <1>2, <1>3

\* Posting adds the row to the posters, and nobody else.
LEMMA PostersGrow ==
  ASSUME TypeOK, NEW id \in Ids, NEW image \in BOOLEAN, NEW room \in Rooms, NEW landed \in 0..SendMaxAttempts,
         timeline' = Landed(Message(id, image, room), landed)
  PROVE  /\ Len(timeline') = Len(timeline) + landed
         /\ landed > 0 => Posters' = Posters \cup {id}
         /\ landed = 0 => Posters' = Posters
<1> DEFINE m == Message(id, image, room)
<1>1. m \in MessageType /\ m.by = id
  BY DEF Message, MessageType
<1>2. timeline \in Seq(MessageType) /\ Len(timeline) \in Nat /\ timeline' = Landed(m, landed)
  BY LenProperties DEF TypeOK
<1> HIDE DEF m
<1>3. /\ Len(timeline') = Len(timeline) + landed
      /\ \A ev \in 1..Len(timeline) : timeline'[ev] = timeline[ev]
      /\ \A ev \in 1..Len(timeline') : ev > Len(timeline) => timeline'[ev] = m
  BY <1>1, <1>2, LandedShape
<1>4. ASSUME landed > 0 PROVE Posters' = Posters \cup {id}
  <2>1. Posters' \subseteq Posters \cup {id}
    BY <1>1, <1>2, <1>3 DEF Posters
  <2>2. Posters \subseteq Posters'
    BY <1>2, <1>3 DEF Posters
  <2>3. Len(timeline') \in 1..Len(timeline') /\ Len(timeline') > Len(timeline)
    BY <1>2, <1>3, <1>4
  <2>4. timeline'[Len(timeline')].by = id
    BY <1>1, <1>3, <2>3
  <2>5. id \in Posters'
    BY <2>3, <2>4 DEF Posters
  <2> QED BY <2>1, <2>2, <2>5
<1>5. ASSUME landed = 0 PROVE Posters' = Posters
  BY <1>2, <1>3, <1>5 DEF Posters
<1> QED BY <1>3, <1>4, <1>5

LEMMA DuplicatesStep ==
  TypeOK /\ QueueInv /\ PostedRows /\ EditSound /\ DuplicatesInv /\ [Next]_vars => DuplicatesInv'
<1> SUFFICES ASSUME TypeOK, QueueInv, PostedRows, EditSound, DuplicatesInv, [Next]_vars
             PROVE  DuplicatesInv'
  OBVIOUS
<1>0. /\ DOMAIN outbox = Ids /\ batch \subseteq Ids /\ faults \in Nat /\ faults' \in Nat
      /\ \A id \in Ids : outbox[id] \in RowType
      /\ \A id \in Ids : seen[id] \in Nat /\ notice[id].room \in Rooms
  <2>1. TypeOK'
    BY TypeStep
  <2> QED BY <2>1 DEF TypeOK, NoticeType
<1>1. \A id \in Posters : id \in Ids /\ outbox[id].status # "absent"
  BY PostersFinite DEF Posters, PostedRows
<1>2. \A kind : NoFault \/ Fault(kind) => faults' >= faults
  BY <1>0 DEF NoFault, Fault, Faults
\* A step that leaves the rooms alone and makes no row owe.
<1>3. ASSUME UNCHANGED timeline, faults' >= faults, \A id \in Posters : Open(id)' => Open(id)
      PROVE  DuplicatesInv'
  <2>1. Posters' = Posters /\ Len(timeline') = Len(timeline)
    BY <1>3 DEF Posters
  <2>2. Owing' \subseteq Owing
    BY <1>3, <2>1 DEF Owing
  <2> QED BY <1>0, <1>3, <2>1, <2>2, NobodyOwes
\* A step that leaves the rooms alone, whose fault makes the entry owe again.
<1>4. ASSUME UNCHANGED timeline, faults' = faults + 1, NEW x,
             \A id \in Posters : Open(id)' => Open(id) \/ id = x
      PROVE  DuplicatesInv'
  <2>1. Posters' = Posters /\ Len(timeline') = Len(timeline)
    BY <1>4 DEF Posters
  <2>2. Owing' \subseteq Owing \cup {x}
    BY <1>4, <2>1 DEF Owing
  <2> QED BY <1>4, <2>1, <2>2, OneMoreOwes
<1>5. ASSUME NEW n \in Notices, Enqueue(n) PROVE DuplicatesInv'
  <2>1. PICK id \in Ids : IsFresh(id) /\ outbox' = EnqueueOutbox(outbox, id)
                          /\ UNCHANGED <<timeline, pc, batch, faults>>
    BY <1>5 DEF Enqueue, process
  <2>2. \A i \in Posters : i # id /\ outbox'[i] = outbox[i]
    BY <1>0, <1>1, <2>1 DEF IsFresh, EnqueueOutbox
  <2> QED BY <1>0, <1>3, <2>1, <2>2 DEF Open, IsHead
<1>6. ASSUME NEW id \in Ids, RetryDelivery(id) PROVE DuplicatesInv'
  BY <1>0, <1>1, <1>3, <1>6 DEF RetryDelivery, CanRequeue, RequeueOutbox, RowType, Open, IsHead, process
<1>7. ASSUME NEW r \in Rooms, TestSend(r) PROVE DuplicatesInv'
  <2>1. PICK id \in Ids, landed \in 0..SendMaxAttempts, ok \in BOOLEAN :
          /\ IsFresh(id)
          /\ SendOutcome(r, landed, ok)
          /\ timeline' = Landed(Message(id, FALSE, r), landed)
          /\ outbox' = RecordDelivery(outbox, id, IF ok THEN "delivered" ELSE "failed")
          /\ UNCHANGED <<pc, batch>>
    BY <1>7 DEF TestSend, process
  <2>2. id \notin Posters /\ \A i \in Posters : outbox'[i] = outbox[i]
    BY <1>0, <1>1, <2>1 DEF IsFresh, RecordDelivery
  <2>3. /\ Len(timeline') = Len(timeline) + landed
        /\ landed > 0 => Posters' = Posters \cup {id}
        /\ landed = 0 => Posters' = Posters
    BY <2>1, PostersGrow
  <2>4. /\ faults' >= faults
        /\ landed > 0 /\ ok => faults' = faults + (landed - 1)
        /\ landed > 0 /\ ~ok => faults' = faults + landed
    BY <1>0, <2>1, AnswerCost
  <2>5. \A i \in Posters : Open(i)' => Open(i)
    BY <2>1, <2>2 DEF Open, IsHead
  <2>6. CASE landed = 0
    <3>1. Owing' \subseteq Owing
      BY <2>3, <2>5, <2>6 DEF Owing
    <3>2. Len(timeline') = Len(timeline)
      BY <2>3, <2>6, PostersFinite
    <3> QED BY <1>0, <2>3, <2>4, <2>6, <3>1, <3>2, NobodyOwes
  <2>7. CASE landed > 0
    <3>1. Owing' \subseteq Owing \cup {id}
      BY <2>3, <2>5, <2>7 DEF Owing
    <3>2. ASSUME ok PROVE Owing' \subseteq Owing \ {id}
      <4>1. outbox'[id].status = "delivered"
        BY <1>0, <2>1, <3>2 DEF RecordDelivery, EmptyRow
      <4>2. id \notin Owing'
        BY <4>1 DEF Owing, Open
      <4> QED BY <2>2, <3>1, <4>2
    <3>3. landed \in 1..SendMaxAttempts
      BY <2>7
    <3> QED BY <2>2, <2>3, <2>4, <2>7, <3>1, <3>2, <3>3, CopiesLand
  <2> QED BY <2>6, <2>7
<1>8. CASE Post
  <2>1. PICK id \in batch, image \in BOOLEAN, landed \in 0..SendMaxAttempts, ok \in BOOLEAN :
          /\ pc = "post" /\ IsHead(id)
          /\ SendOutcome(notice[id].room, landed, ok)
          /\ timeline' = Landed(Message(id, image, notice[id].room), landed)
          /\ pc' = IF ~ok THEN "failing"
                   ELSE IF ~image /\ notice[id].fires # {} THEN "record" ELSE "succeeded"
          /\ UNCHANGED <<outbox, batch>>
    BY <1>8 DEF Post
  <2>2. id \in Ids /\ outbox[id].status = "pending"
    BY <2>1, BatchExists
  <2>3. /\ Len(timeline') = Len(timeline) + landed
        /\ landed > 0 => Posters' = Posters \cup {id}
        /\ landed = 0 => Posters' = Posters
    BY <1>0, <2>1, <2>2, PostersGrow
  <2>4. /\ faults' >= faults
        /\ landed > 0 /\ ok => faults' = faults + (landed - 1)
        /\ landed > 0 /\ ~ok => faults' = faults + landed
    BY <1>0, <2>1, AnswerCost
  <2>5. \A i \in Ids : Open(i)' => Open(i)
    BY <2>1 DEF Open, IsHead
  <2>6. CASE landed = 0
    <3>1. Owing' \subseteq Owing
      BY <1>1, <2>3, <2>5, <2>6 DEF Owing
    <3>2. Len(timeline') = Len(timeline)
      BY <2>3, <2>6, PostersFinite
    <3> QED BY <1>0, <2>3, <2>4, <2>6, <3>1, <3>2, NobodyOwes
  <2>7. CASE landed > 0
    <3>1. Owing' \subseteq Owing \cup {id}
      BY <1>1, <2>3, <2>5, <2>7 DEF Owing
    <3>2. ASSUME ok PROVE Owing' \subseteq Owing \ {id}
      <4>1. ~Open(id)'
        BY <2>1, <3>2 DEF Open, IsHead
      <4> QED BY <3>1, <4>1 DEF Owing
    <3>3. id \in Posters => id \in Owing
      BY <2>1, <2>2 DEF Owing, Open
    <3>4. landed \in 1..SendMaxAttempts
      BY <2>7
    <3> QED BY <2>3, <2>4, <2>7, <3>1, <3>2, <3>3, <3>4, CopiesLand
  <2> QED BY <2>6, <2>7
<1>9. CASE SendEdit
  <2>1. PICK id \in batch, landed \in 0..SendMaxAttempts, ok \in BOOLEAN :
          /\ pc = "edit" /\ IsHead(id)
          /\ SendOutcome(notice[id].room, landed, ok)
          /\ timeline' = IF landed > 0 THEN [timeline EXCEPT ![target].shows = id] ELSE timeline
          /\ UNCHANGED <<outbox, batch>>
    BY <1>9 DEF SendEdit
  <2>2. id \in Ids /\ target \in 1..Len(timeline)
    BY <1>0, <2>1 DEF EditSound
  <2>3. Len(timeline') = Len(timeline) /\ Posters' = Posters
    <3>1. CASE timeline' = timeline
      BY <3>1 DEF Posters
    <3>2. CASE timeline' = [timeline EXCEPT ![target].shows = id]
      <4>1. /\ Len(timeline') = Len(timeline)
            /\ \A ev \in 1..Len(timeline) : timeline'[ev].by = timeline[ev].by
        BY <2>2, <3>2, EditShape DEF TypeOK
      <4> QED BY <4>1 DEF Posters
    <3> QED BY <2>1, <3>1, <3>2
  <2>4. Owing' \subseteq Owing
    BY <2>1, <2>3 DEF Owing, Open
  <2>5. faults' >= faults
    BY <1>0, <2>1, AnswerCost
  <2> QED BY <1>0, <2>3, <2>4, <2>5, NobodyOwes
<1>10. CASE MarkDelivered
  <2>1. PICK id \in batch :
          /\ pc = "succeeded" /\ IsHead(id)
          /\ \/ outbox' = MarkOutboxDelivered(outbox, id, seen[id] + 1) /\ faults' = faults
             \/ UNCHANGED outbox /\ faults' = faults + 1
          /\ UNCHANGED timeline
    BY <1>10 DEF MarkDelivered, NoFault, Fault, Faults
  <2>2. \A i \in batch : IsHead(i) => i = id
    BY <2>1, OneHead
  <2>3. CASE outbox' = MarkOutboxDelivered(outbox, id, seen[id] + 1) /\ faults' = faults
    <3>1. outbox'[id].status = "delivered" /\ \A i \in Ids : i # id => outbox'[i] = outbox[i]
      BY <1>0, <2>1, <2>3 DEF MarkOutboxDelivered, RowType
    <3>2. \A i \in Posters : Open(i)' => Open(i)
      BY <1>1, <2>2, <3>1 DEF Open, IsHead
    <3> QED BY <1>0, <1>3, <2>1, <2>3, <3>2
  <2>4. CASE UNCHANGED outbox /\ faults' = faults + 1
    <3>1. \A i \in Posters : Open(i)' => Open(i) \/ i = id
      BY <2>2, <2>4 DEF Open, IsHead
    <3> QED BY <1>4, <2>1, <2>4, <3>1
  <2> QED BY <2>1, <2>3, <2>4
<1>11. CASE Settle
  <2>1. PICK id \in batch : outbox' = Settled(id) \/ UNCHANGED outbox
    BY <1>11 DEF Settle
  <2>2. \A i \in Ids : outbox'[i].status \in {"pending", "failed"} => outbox[i].status \in {"pending", "failed"}
    BY <1>0, <2>1, BatchExists DEF Settled, MarkOutboxFailed, RescheduleOutbox, RowType
  <2>3. pc = "failing" /\ UNCHANGED timeline /\ faults' >= faults
    BY <1>2, <1>11 DEF Settle
  <2> QED BY <1>1, <1>3, <2>2, <2>3 DEF Open
<1>12. CASE Prune /\ UNCHANGED timeline /\ (UNCHANGED <<pc, batch>> \/ pc = "boot")
  <2>1. \A i \in Ids : outbox'[i].status \in {"pending", "failed"} => outbox[i].status \in {"pending", "failed"}
    BY <1>0, <1>12 DEF Prune, PruneOutbox, EmptyRow
  <2>2. faults' >= faults
    BY <1>2, <1>12 DEF Prune
  <2> QED BY <1>1, <1>3, <1>12, <2>1, <2>2 DEF Open, IsHead
<1>13. CASE Boot \/ PruneTick
  BY <1>12, <1>13 DEF Boot, PruneTick, process
<1>14. CASE Tick
  BY <1>0, <1>1, <1>3, <1>14, TickKeepsQueue DEF Tick, Open, IsHead, process
<1>15. CASE Crash
  <2>1. UNCHANGED <<outbox, timeline>> /\ faults' = faults + 1
    BY <1>15 DEF Crash, Fault, Faults
  <2>2. CASE \E x \in batch : IsHead(x)
    <3>1. PICK x \in batch : IsHead(x)
      BY <2>2
    <3>2. \A i \in Posters : Open(i)' => Open(i) \/ i = x
      BY <2>1, <3>1, OneHead DEF Open, IsHead
    <3> QED BY <1>4, <2>1, <3>2
  <2>3. CASE ~ \E x \in batch : IsHead(x)
    <3>1. \A i \in Posters : Open(i)' => Open(i)
      BY <2>1, <2>3 DEF Open, IsHead
    <3> QED BY <1>0, <1>3, <2>1, <3>1
  <2> QED BY <2>2, <2>3
<1>16. CASE RecordMappings
  BY <1>2, <1>3, <1>16 DEF RecordMappings, Open, IsHead
<1>17. CASE BeginAttempt
  BY <1>2, <1>3, <1>17 DEF BeginAttempt, Open
<1>18. CASE ReadDue \/ ReadDueFails \/ CountPending \/ Wake \/ Poll
  BY <1>0, <1>2, <1>3, <1>18 DEF ReadDue, ReadDueFails, CountPending, Wake, Poll, Open
<1>19. CASE Kick \/ UNCHANGED vars
  BY <1>0, <1>3, <1>19 DEF Kick, vars, process, Open, IsHead
<1> QED
  BY <1>5, <1>6, <1>7, <1>8, <1>9, <1>10, <1>11, <1>13, <1>14, <1>15, <1>16, <1>17, <1>18, <1>19
     DEF Next, Request, Drain, Attempt

\* A room holds one message per posted row, plus at most one per fault.
THEOREM DuplicatesArePaidFor == Spec => []DuplicatesBounded
<1>1. TypeOK /\ QueueInv /\ AlertsInv /\ DuplicatesInv /\ [Next]_vars => DuplicatesInv'
  BY DuplicatesStep DEF AlertsInv
<1>2. Spec => [](TypeOK /\ DuplicatesInv)
  BY <1>1, TypeInit, TypeStep, QueueInit, QueueStep, AlertsInit, AlertsStep, DuplicatesInit,
     PTL DEF Spec
<1>3. TypeOK /\ DuplicatesInv => DuplicatesBounded
  BY PostersFinite DEF DuplicatesInv, DuplicatesBounded, Posters
<1> QED
  BY <1>2, <1>3, PTL

------------------------------------------------------------------------------
(* What an edit replaces. *)

\* Nothing younger than a row that waits for its first attempt is shown.
ShownInOrder ==
  Undisturbed => \A ev \in 1..Len(timeline), i \in Ids : Fresh(i) => timeline[ev].shows <= i

LEMMA ShownOrderInit == Init => ShownInOrder
BY DEF Init, ShownInOrder, Fresh, EmptyRow

\* The entry being attempted is the oldest of those never attempted.
LEMMA HeadFirst ==
  ASSUME TypeOK, OrderInv, Undisturbed, NEW id \in batch, IsHead(id), NEW i \in Ids, Fresh(i)
  PROVE  id <= i
<1>1. id \in Ids /\ \A j \in Ids : j < id /\ Fresh(j) => j \in batch
  BY DEF TypeOK, OrderInv, BatchInOrder
<1> QED
  BY <1>1 DEF IsHead, Ids

LEMMA ShownOrderStep ==
  TypeOK /\ QueueInv /\ AlertsInv /\ OrderInv /\ ShownInOrder /\ [Next]_vars => ShownInOrder'
<1> SUFFICES ASSUME TypeOK, QueueInv, AlertsInv, OrderInv, ShownInOrder, [Next]_vars, Undisturbed'
             PROVE  \A ev \in 1..Len(timeline'), i \in Ids : Fresh(i)' => timeline'[ev].shows <= i
  BY DEF ShownInOrder
<1>0. /\ Undisturbed /\ DOMAIN outbox = Ids /\ batch \subseteq Ids
      /\ timeline \in Seq(MessageType) /\ Len(timeline) \in Nat
      /\ \A id \in Ids : outbox[id] \in RowType /\ seen[id] \in Nat /\ notice[id].room \in Rooms
      /\ \A ev \in 1..Len(timeline), i \in Ids : Fresh(i) => timeline[ev].shows <= i
  BY FaultsGrow, LenProperties DEF Undisturbed, TypeOK, NoticeType, ShownInOrder
<1>1. \A kind : ~Fault(kind)
  BY <1>0 DEF Undisturbed, Fault, Faults
<1>2. ASSUME UNCHANGED timeline, \A i \in Ids : Fresh(i)' => Fresh(i)
      PROVE  \A ev \in 1..Len(timeline'), i \in Ids : Fresh(i)' => timeline'[ev].shows <= i
  BY <1>0, <1>2
<1>3. ASSUME NEW n \in Notices, Enqueue(n)
      PROVE  \A ev \in 1..Len(timeline'), i \in Ids : Fresh(i)' => timeline'[ev].shows <= i
  <2>1. PICK id \in Ids : IsFresh(id) /\ outbox' = EnqueueOutbox(outbox, id) /\ UNCHANGED timeline
    BY <1>3 DEF Enqueue
  <2>2. \A i \in Ids : i # id => (Fresh(i)' <=> Fresh(i))
    BY <1>0, <2>1 DEF EnqueueOutbox, Fresh
  <2>3. \A ev \in 1..Len(timeline) :
          timeline[ev].shows \in Ids /\ outbox[timeline[ev].shows].status # "absent"
    <3>1. \A ev \in 1..Len(timeline) : timeline[ev] \in MessageType
      BY <1>0, LenProperties
    <3> QED BY <3>1 DEF AlertsInv, PostedRows, MessageType
  <2>4. \A j \in Ids : id < j => outbox[j].status = "absent"
    BY <2>1 DEF OrderInv, AbsentAbove, IsFresh
  <2>5. \A ev \in 1..Len(timeline) : timeline[ev].shows <= id
    BY <2>3, <2>4 DEF Ids
  <2> QED BY <1>0, <2>1, <2>2, <2>5
<1>4. CASE Post
  <2>1. PICK id \in batch, image \in BOOLEAN, landed \in 0..SendMaxAttempts :
          /\ IsHead(id)
          /\ timeline' = Landed(Message(id, image, notice[id].room), landed)
          /\ UNCHANGED outbox
    BY <1>4 DEF Post
  <2> DEFINE m == Message(id, image, notice[id].room)
  <2>2. m \in MessageType /\ m.shows = id /\ timeline' = Landed(m, landed)
    BY <1>0, <2>1 DEF Message, MessageType
  <2> HIDE DEF m
  <2>3. /\ Len(timeline') = Len(timeline) + landed
        /\ \A ev \in 1..Len(timeline) : timeline'[ev] = timeline[ev]
        /\ \A ev \in 1..Len(timeline') : ev > Len(timeline) => timeline'[ev] = m
    BY <1>0, <2>2, LandedShape
  <2>4. \A i \in Ids : Fresh(i) => id <= i
    BY <1>0, <2>1, HeadFirst
  <2>5. \A i \in Ids : Fresh(i)' <=> Fresh(i)
    BY <2>1 DEF Fresh
  <2> SUFFICES ASSUME NEW ev \in 1..Len(timeline'), NEW i \in Ids, Fresh(i)
               PROVE  timeline'[ev].shows <= i
    BY <2>5
  <2>6. CASE ev <= Len(timeline)
    <3>1. ev \in 1..Len(timeline)
      BY <1>0, <2>6
    <3> QED BY <1>0, <2>3, <3>1
  <2>7. CASE ev > Len(timeline)
    BY <2>2, <2>3, <2>4, <2>7
  <2> QED BY <1>0, <2>3, <2>6, <2>7
<1>5. CASE SendEdit
  <2>1. PICK id \in batch :
          /\ pc = "edit" /\ IsHead(id)
          /\ \/ timeline' = [timeline EXCEPT ![target].shows = id]
             \/ timeline' = timeline
          /\ UNCHANGED outbox
    BY <1>5 DEF SendEdit
  <2>2. id \in Ids /\ target \in 1..Len(timeline)
    BY <1>0, <2>1 DEF AlertsInv, EditSound
  <2>3. \A i \in Ids : Fresh(i) => id <= i
    BY <1>0, <2>1, HeadFirst
  <2>4. \A i \in Ids : Fresh(i)' <=> Fresh(i)
    BY <2>1 DEF Fresh
  <2>5. CASE timeline' = timeline
    BY <1>0, <2>4, <2>5
  <2>6. CASE timeline' = [timeline EXCEPT ![target].shows = id]
    <3>1. /\ Len(timeline') = Len(timeline)
          /\ timeline'[target].shows = id
          /\ \A ev \in 1..Len(timeline) : ev # target => timeline'[ev] = timeline[ev]
      BY <1>0, <2>2, <2>6, EditShape
    <3> QED BY <1>0, <2>3, <2>4, <3>1
  <2> QED BY <2>1, <2>5, <2>6
<1>6. CASE Settle
  <2>1. PICK id \in batch : outbox' = Settled(id) /\ UNCHANGED timeline
    BY <1>1, <1>6 DEF Settle
  <2>2. \A i \in Ids : Fresh(i)' => Fresh(i)
    BY <1>0, <2>1, BatchExists
       DEF Settled, MarkOutboxFailed, RescheduleOutbox, RowType, Fresh
  <2> QED BY <1>2, <2>1, <2>2
<1>7. CASE MarkDelivered
  <2>1. PICK id \in batch : /\ outbox' = MarkOutboxDelivered(outbox, id, seen[id] + 1)
                            /\ UNCHANGED timeline
    BY <1>1, <1>7 DEF MarkDelivered
  <2>2. outbox'[id].status = "delivered" /\ \A i \in Ids : i # id => outbox'[i] = outbox[i]
    BY <1>0, <2>1 DEF MarkOutboxDelivered, RowType
  <2>3. \A i \in Ids : Fresh(i)' => Fresh(i)
    BY <2>2 DEF Fresh
  <2> QED BY <1>2, <2>1, <2>3
<1>8. CASE Boot \/ PruneTick
  BY <1>2, <1>8, PruneKeepsQueue DEF Boot, PruneTick, Fresh
<1>9. CASE Tick
  BY <1>2, <1>9, TickKeepsQueue DEF Tick, Fresh
<1>10. ASSUME NEW id \in Ids, RetryDelivery(id) PROVE FALSE
  BY <1>0, <1>10 DEF RetryDelivery, Undisturbed
<1>11. ASSUME NEW r \in Rooms, TestSend(r) PROVE FALSE
  BY <1>0, <1>11 DEF TestSend, Undisturbed
<1>12. CASE UNCHANGED <<outbox, timeline>>
  BY <1>2, <1>12 DEF Fresh
<1>13. CASE \/ Kick \/ Wake \/ Poll \/ ReadDue \/ ReadDueFails \/ CountPending \/ BeginAttempt
            \/ RecordMappings \/ Crash \/ UNCHANGED vars
  BY <1>12, <1>13 DEF Kick, Wake, Poll, ReadDue, ReadDueFails, CountPending, BeginAttempt,
     RecordMappings, Crash, vars
<1> QED
  BY <1>3, <1>4, <1>5, <1>6, <1>7, <1>8, <1>9, <1>10, <1>11, <1>13
     DEF Next, Request, Drain, Attempt

\* Only SendEdit changes what a message shows, and it shows the entry there.
LEMMA OnlyEditsEdit ==
  ASSUME TypeOK, EditSound, [Next]_vars, NEW ev \in DOMAIN timeline, Edited(ev)
  PROVE  /\ ev = target /\ pc = "edit" /\ ev \in 1..Len(timeline)
         /\ \E id \in batch : IsHead(id) /\ timeline'[ev].shows = id
<1>0. /\ timeline \in Seq(MessageType) /\ ev \in 1..Len(timeline)
      /\ batch \subseteq Ids /\ \A id \in Ids : notice[id].room \in Rooms
  BY LenProperties DEF TypeOK, NoticeType
<1>1. ASSUME NEW id \in Ids, NEW image \in BOOLEAN, NEW room \in Rooms, NEW landed \in 0..SendMaxAttempts,
             timeline' = Landed(Message(id, image, room), landed)
      PROVE  FALSE
  <2>1. Message(id, image, room) \in MessageType
    BY DEF Message, MessageType
  <2>2. timeline'[ev] = timeline[ev]
    BY <1>0, <1>1, <2>1, LandedShape
  <2> QED BY <2>2 DEF Edited
<1>2. CASE SendEdit
  <2>1. PICK id \in batch :
          /\ pc = "edit" /\ IsHead(id)
          /\ \/ timeline' = [timeline EXCEPT ![target].shows = id]
             \/ timeline' = timeline
    BY <1>2 DEF SendEdit
  <2>2. timeline' = [timeline EXCEPT ![target].shows = id]
    BY <2>1 DEF Edited
  <2>3. id \in Ids /\ target \in 1..Len(timeline)
    BY <1>0, <2>1 DEF EditSound
  <2>4. /\ timeline'[target].shows = id
        /\ \A k \in 1..Len(timeline) : k # target => timeline'[k] = timeline[k]
    BY <1>0, <2>2, <2>3, EditShape
  <2> QED BY <1>0, <2>1, <2>4 DEF Edited
<1>3. CASE Post
  BY <1>0, <1>1, <1>3 DEF Post
<1>4. ASSUME NEW r \in Rooms, TestSend(r) PROVE FALSE
  BY <1>1, <1>4 DEF TestSend
<1>5. ASSUME UNCHANGED timeline PROVE FALSE
  BY <1>5 DEF Edited
<1>6. CASE \/ \E n \in Notices : Enqueue(n)
           \/ \E id \in Ids : RetryDelivery(id)
           \/ Kick \/ Boot \/ Wake \/ Poll \/ PruneTick \/ ReadDue \/ ReadDueFails
           \/ CountPending \/ BeginAttempt \/ RecordMappings \/ MarkDelivered \/ Settle
           \/ Crash \/ Tick \/ UNCHANGED vars
  BY <1>5, <1>6 DEF Enqueue, RetryDelivery, Kick, Boot, Wake, Poll, PruneTick, ReadDue,
     ReadDueFails, CountPending, BeginAttempt, RecordMappings, MarkDelivered, Settle,
     Crash, Tick, vars
<1> QED
  BY <1>2, <1>3, <1>4, <1>6 DEF Next, Request, Drain, Attempt

\* While nothing fails, an edit of an entry attempted for the first time
\* replaces an older rendering.
THEOREM EditsMoveForward == Spec => StaleOnlyAfterRetry
<1> DEFINE Forward ==
      faults = 0 /\ AdminCalls = {} =>
        \A ev \in DOMAIN timeline : Edited(ev) =>
          \/ timeline'[ev].shows > timeline[ev].shows
          \/ seen[timeline'[ev].shows] > 0
<1>1. TypeOK /\ QueueInv /\ AlertsInv /\ OrderInv /\ ShownInOrder /\ [Next]_vars => [Forward]_vars
  <2> SUFFICES ASSUME TypeOK, QueueInv, AlertsInv, OrderInv, ShownInOrder, [Next]_vars,
                      Undisturbed, NEW ev \in DOMAIN timeline, Edited(ev)
               PROVE  timeline'[ev].shows > timeline[ev].shows \/ seen[timeline'[ev].shows] > 0
    BY DEF Undisturbed
  <2>1. PICK id \in batch : IsHead(id) /\ timeline'[ev].shows = id
    BY OnlyEditsEdit DEF AlertsInv
  <2>2. /\ id \in Ids /\ seen[id] \in Nat /\ ev \in 1..Len(timeline)
        /\ timeline[ev] \in MessageType
        /\ outbox[id].status = "pending" /\ outbox[id].attempts = seen[id]
    BY <2>1, OnlyEditsEdit, LenProperties
       DEF AlertsInv, TypeOK, QueueInv, SnapshotsFresh, IsDue
  <2>3. CASE seen[id] = 0
    <3>1. timeline[ev].shows <= id
      BY <2>2, <2>3 DEF ShownInOrder, Fresh
    <3>2. timeline[ev].shows # id /\ timeline[ev].shows \in Nat /\ id \in Nat
      BY <2>1, <2>2 DEF Edited, MessageType, Ids
    <3> QED BY <2>1, <3>1, <3>2
  <2>4. CASE seen[id] # 0
    BY <2>1, <2>2, <2>4
  <2> QED BY <2>3, <2>4
<1>2. Spec => [](TypeOK /\ QueueInv /\ AlertsInv /\ OrderInv /\ ShownInOrder)
  BY TypeInit, TypeStep, QueueInit, QueueStep, AlertsInit, AlertsStep, OrderInit, OrderStep,
     ShownOrderInit, ShownOrderStep, PTL DEF Spec
<1> QED
  BY <1>1, <1>2, PTL DEF Spec, StaleOnlyAfterRetry

\* Without images and faults, a mapping names the newest announcement, but
\* for one a post has just made and RecordAlertMessages is about to record.
NoCharts == \A n \in Notices : ~n.chart
NoneAsked == NoCharts => \A id \in Ids : ~notice[id].chart
MappedNewest ==
  faults = 0 /\ NoCharts =>
    \A room \in Rooms, fp \in Fingerprints : alerts[room][fp].event # 0 =>
      \A later \in 1..Len(timeline) :
        later > alerts[room][fp].event /\ Announces(later, room, fp)
        => pc = "record" /\ \E id \in batch : IsHead(id) /\ timeline[later].by = id

\* Only test messages follow the message about to be recorded.
RecordTail ==
  pc = "record" => \A id \in batch : IsHead(id) =>
    \E last \in 1..Len(timeline) :
      /\ timeline[last].by = id
      /\ \A later \in 1..Len(timeline) :
           later > last => notice[timeline[later].by].fires = {}

\* All mappings of the entry being edited name the message being edited.
OneTarget ==
  pc = "edit" => \A id \in batch : IsHead(id) =>
    \A fp \in notice[id].fires \cup notice[id].resolves :
      alerts[notice[id].room][fp].event = target \/ alerts[notice[id].room][fp].event = 0

NewestInv == NoneAsked /\ MappedNewest /\ RecordTail /\ OneTarget

LEMMA NewestInit == Init => NewestInv
<1> SUFFICES ASSUME Init PROVE NewestInv
  OBVIOUS
<1>1. NoneAsked
  BY DEF Init, NoneAsked, NoNotice
<1>2. MappedNewest
  BY DEF Init, MappedNewest, NoMapping
<1>3. RecordTail /\ OneTarget
  BY DEF Init, RecordTail, OneTarget
<1> QED BY <1>1, <1>2, <1>3 DEF NewestInv

\* Charts come from requests alone.
LEMMA AskedStep ==
  ASSUME TypeOK, NoneAsked, [Next]_vars
  PROVE  NoneAsked'
<1>0. DOMAIN notice = Ids
  BY DEF TypeOK
<1>1. ASSUME NEW n \in Notices, Enqueue(n) PROVE NoneAsked'
  BY <1>0, <1>1 DEF Enqueue, NoneAsked, NoCharts
<1>2. ASSUME NEW r \in Rooms, TestSend(r) PROVE NoneAsked'
  <2>1. PICK id \in Ids : notice' = [notice EXCEPT ![id] = [NoNotice EXCEPT !.room = r]]
    BY <1>2 DEF TestSend
  <2>2. ~[NoNotice EXCEPT !.room = r].chart
    BY DEF NoNotice
  <2> QED BY <1>0, <2>1, <2>2 DEF NoneAsked
<1>3. CASE UNCHANGED notice
  BY <1>3 DEF NoneAsked
<1>4. CASE \/ \E id \in Ids : RetryDelivery(id)
           \/ Kick \/ Boot \/ Wake \/ Poll \/ PruneTick \/ ReadDue \/ ReadDueFails
           \/ CountPending \/ BeginAttempt \/ SendEdit \/ Post \/ RecordMappings
           \/ MarkDelivered \/ Settle \/ Crash \/ Tick \/ UNCHANGED vars
  BY <1>3, <1>4 DEF RetryDelivery, Kick, Boot, Wake, Poll, PruneTick, ReadDue,
     ReadDueFails, CountPending, BeginAttempt, SendEdit, Post, RecordMappings, MarkDelivered,
     Settle, Crash, Tick, vars
<1> QED
  BY <1>1, <1>2, <1>4 DEF Next, Request, Drain, Attempt

\* The steps that post nothing and map nothing new.
LEMMA NewestStays ==
  ASSUME TypeOK, QueueInv, AlertsInv, MessagesKept, RowsKept, NewestInv,
         faults' = 0 => faults = 0, Len(timeline') = Len(timeline), MappingsShrink,
         pc = "record" /\ faults' = 0 => UNCHANGED <<pc, batch>>,
         pc' \in {"edit", "record"} => UNCHANGED <<pc, batch, target>>
  PROVE  MappedNewest' /\ RecordTail' /\ OneTarget'
<1>1. ASSUME NEW ev \in 1..Len(timeline)
      PROVE  /\ timeline'[ev].by = timeline[ev].by /\ timeline'[ev].room = timeline[ev].room
             /\ notice'[timeline[ev].by] = notice[timeline[ev].by]
  BY AnnouncementStays DEF MessagesKept, AlertsInv
<1>2. MappedNewest'
  <2> SUFFICES ASSUME faults' = 0, NoCharts, NEW room \in Rooms, NEW fp \in Fingerprints,
                      alerts'[room][fp].event # 0, NEW later \in 1..Len(timeline'),
                      later > alerts'[room][fp].event, Announces(later, room, fp)'
               PROVE  pc' = "record" /\ \E id \in batch' : IsHead(id)' /\ timeline'[later].by = id
    BY DEF MappedNewest, NoCharts
  <2>1. alerts'[room][fp].event = alerts[room][fp].event /\ later \in 1..Len(timeline)
    BY DEF MappingsShrink
  <2>2. Announces(later, room, fp)
    BY <1>1, <2>1 DEF Announces
  <2>3. pc = "record" /\ \E id \in batch : IsHead(id) /\ timeline[later].by = id
    BY <2>1, <2>2 DEF NewestInv, MappedNewest
  <2>4. UNCHANGED <<pc, batch>>
    BY <2>3
  <2> QED BY <1>1, <2>1, <2>3, <2>4 DEF IsHead
<1>3. RecordTail'
  <2> SUFFICES ASSUME pc' = "record", NEW id \in batch', IsHead(id)'
               PROVE  \E last \in 1..Len(timeline') :
                        /\ timeline'[last].by = id
                        /\ \A later \in 1..Len(timeline') :
                             later > last => notice'[timeline'[later].by].fires = {}
    BY DEF RecordTail
  <2>1. UNCHANGED <<pc, batch>> /\ IsHead(id)
    BY DEF IsHead
  <2>2. PICK last \in 1..Len(timeline) :
          /\ timeline[last].by = id
          /\ \A later \in 1..Len(timeline) : later > last => notice[timeline[later].by].fires = {}
    BY <2>1 DEF NewestInv, RecordTail
  <2>3. last \in 1..Len(timeline') /\ timeline'[last].by = id
    BY <1>1, <2>2
  <2>4. ASSUME NEW later \in 1..Len(timeline'), later > last
        PROVE  notice'[timeline'[later].by].fires = {}
    <3>1. later \in 1..Len(timeline)
      BY <2>4
    <3>2. notice'[timeline'[later].by] = notice[timeline[later].by]
      BY <1>1, <3>1
    <3> QED BY <2>2, <2>4, <3>1, <3>2
  <2> QED BY <2>3, <2>4
<1>4. OneTarget'
  <2> SUFFICES ASSUME pc' = "edit", NEW id \in batch', IsHead(id)',
                      NEW fp \in notice'[id].fires \cup notice'[id].resolves
               PROVE  \/ alerts'[notice'[id].room][fp].event = target'
                      \/ alerts'[notice'[id].room][fp].event = 0
    BY DEF OneTarget
  <2>1. UNCHANGED <<pc, batch, target>> /\ IsHead(id)
    BY DEF IsHead
  <2>2. id \in Ids /\ notice'[id] = notice[id]
    BY <2>1, BatchExists DEF RowsKept
  <2>3. notice[id].room \in Rooms /\ fp \in Fingerprints
    BY <2>2 DEF TypeOK, NoticeType
  <2>4. alerts[notice[id].room][fp].event = target \/ alerts[notice[id].room][fp].event = 0
    BY <2>1, <2>2 DEF NewestInv, OneTarget
  <2> QED BY <2>1, <2>2, <2>3, <2>4 DEF MappingsShrink
<1> QED BY <1>2, <1>3, <1>4

\* A target is the one message all mapped alerts of the entry are mapped to.
LEMMA EditTargetOne ==
  ASSUME TypeOK, NEW id \in Ids, EditTarget(alerts, notice[id]) # 0,
         NEW fp \in notice[id].fires \cup notice[id].resolves
  PROVE  LET event == alerts[notice[id].room][fp].event
         IN  event = EditTarget(alerts, notice[id]) \/ event = 0
<1> DEFINE n       == notice[id]
           known   == MapAlertMessages(alerts, n.room, n.fires \cup n.resolves)
           targets == {known[f] : f \in DOMAIN known}
           chosen  == CHOOSE ev \in targets : TRUE
<1>1. (\E ev \in targets : targets = {ev}) /\ EditTarget(alerts, n) = chosen
  BY DEF EditTarget
<1>2. targets = {chosen}
  <2> HIDE DEF targets
  <2> QED BY <1>1
<1>3. alerts[n.room][fp].event # 0 => alerts[n.room][fp].event \in targets
  BY DEF MapAlertMessages
<1> QED BY <1>1, <1>2, <1>3

\* A test message announces nothing.
LEMMA NewestTestSend ==
  ASSUME TypeOK, QueueInv, AlertsInv, MessagesKept, RowsKept, NewestInv,
         faults' = 0 => faults = 0, NEW r \in Rooms, TestSend(r)
  PROVE  MappedNewest' /\ RecordTail' /\ OneTarget'
<1>1. PICK id \in Ids, landed \in 0..SendMaxAttempts :
        /\ timeline' = Landed(Message(id, FALSE, r), landed)
        /\ notice' = [notice EXCEPT ![id] = [NoNotice EXCEPT !.room = r]]
        /\ UNCHANGED <<alerts, process>>
  BY DEF TestSend
<1>2. UNCHANGED <<pc, batch, target, alerts>>
  BY <1>1 DEF process
<1>3. notice'[id].fires = {}
  BY <1>1 DEF TypeOK, NoNotice
<1>4. timeline \in Seq(MessageType) /\ Len(timeline) \in Nat /\ Len(timeline') \in Nat
  BY LenProperties DEF TypeOK, MessagesKept
<1>5. \A ev \in 1..Len(timeline') : ev > Len(timeline) => timeline'[ev].by = id
  <2> DEFINE m == Message(id, FALSE, r)
  <2>1. m \in MessageType /\ m.by = id /\ timeline' = Landed(m, landed)
    BY <1>1 DEF Message, MessageType
  <2> HIDE DEF m
  <2> QED BY <1>4, <2>1, LandedShape
<1>6. ASSUME NEW ev \in 1..Len(timeline') , notice'[timeline'[ev].by].fires # {}
      PROVE  /\ ev \in 1..Len(timeline)
             /\ timeline'[ev].by = timeline[ev].by /\ timeline'[ev].room = timeline[ev].room
             /\ notice'[timeline[ev].by] = notice[timeline[ev].by]
  <2>1. ~(ev > Len(timeline))
    BY <1>3, <1>5, <1>6
  <2>2. ev \in 1..Len(timeline)
    BY <1>4, <2>1
  <2> QED BY <2>2, AnnouncementStays DEF MessagesKept, AlertsInv
<1>7. MappedNewest'
  <2> SUFFICES ASSUME faults' = 0, NoCharts, NEW room \in Rooms, NEW fp \in Fingerprints,
                      alerts'[room][fp].event # 0, NEW later \in 1..Len(timeline'),
                      later > alerts'[room][fp].event, Announces(later, room, fp)'
               PROVE  pc' = "record" /\ \E i \in batch' : IsHead(i)' /\ timeline'[later].by = i
    BY DEF MappedNewest, NoCharts
  <2>1. /\ later \in 1..Len(timeline) /\ Announces(later, room, fp)
        /\ timeline'[later].by = timeline[later].by
    BY <1>6 DEF Announces
  <2> QED BY <1>2, <2>1 DEF NewestInv, MappedNewest, IsHead
<1>8. RecordTail'
  <2> SUFFICES ASSUME pc' = "record", NEW i \in batch', IsHead(i)'
               PROVE  \E last \in 1..Len(timeline') :
                        /\ timeline'[last].by = i
                        /\ \A later \in 1..Len(timeline') :
                             later > last => notice'[timeline'[later].by].fires = {}
    BY DEF RecordTail
  <2>1. pc = "record" /\ i \in batch /\ IsHead(i)
    BY <1>2 DEF IsHead
  <2>2. PICK last \in 1..Len(timeline) :
          /\ timeline[last].by = i
          /\ \A later \in 1..Len(timeline) : later > last => notice[timeline[later].by].fires = {}
    BY <2>1 DEF NewestInv, RecordTail
  <2>3. last \in 1..Len(timeline') /\ timeline'[last].by = i
    BY <2>2 DEF MessagesKept
  <2>4. ASSUME NEW later \in 1..Len(timeline'), later > last,
               notice'[timeline'[later].by].fires # {}
        PROVE  FALSE
    <3>1. /\ later \in 1..Len(timeline)
          /\ timeline'[later].by = timeline[later].by
          /\ notice'[timeline[later].by] = notice[timeline[later].by]
      BY <1>6, <2>4
    <3>2. notice[timeline[later].by].fires = {}
      BY <2>2, <2>4, <3>1
    <3> QED BY <2>4, <3>1, <3>2
  <2> QED BY <2>3, <2>4
<1>9. OneTarget'
  <2>1. \A i \in batch : notice'[i] = notice[i]
    BY BatchExists DEF RowsKept
  <2> QED BY <1>2, <2>1 DEF NewestInv, OneTarget, IsHead
<1> QED BY <1>7, <1>8, <1>9

\* A post is the newest announcement, and its recording comes next.
LEMMA NewestPost ==
  ASSUME TypeOK, QueueInv, AlertsInv, MessagesKept, RowsKept, NewestInv,
         faults' = 0 => faults = 0, Post
  PROVE  MappedNewest' /\ RecordTail' /\ OneTarget'
<1>1. PICK id \in batch, image \in BOOLEAN, landed \in 0..SendMaxAttempts, ok \in BOOLEAN :
        /\ pc = "post" /\ IsHead(id) /\ (image => notice[id].chart)
        /\ SendOutcome(notice[id].room, landed, ok)
        /\ timeline' = Landed(Message(id, image, notice[id].room), landed)
        /\ pc' = IF ~ok THEN "failing"
                 ELSE IF ~image /\ notice[id].fires # {} THEN "record" ELSE "succeeded"
        /\ UNCHANGED <<notice, alerts, batch>>
  BY DEF Post
<1>2. /\ id \in Ids /\ notice[id].room \in Rooms
      /\ timeline \in Seq(MessageType) /\ Len(timeline) \in Nat /\ Len(timeline') \in Nat
  BY <1>1, BatchExists, LenProperties DEF TypeOK, NoticeType, MessagesKept
<1>3. /\ Len(timeline') = Len(timeline) + landed
      /\ \A ev \in 1..Len(timeline) : timeline'[ev] = timeline[ev]
      /\ \A ev \in 1..Len(timeline') : ev > Len(timeline) => timeline'[ev].by = id
  <2> DEFINE m == Message(id, image, notice[id].room)
  <2>1. m \in MessageType /\ m.by = id /\ timeline' = Landed(m, landed)
    BY <1>1, <1>2 DEF Message, MessageType
  <2> HIDE DEF m
  <2> QED BY <1>2, <2>1, LandedShape
<1>4. OneTarget'
  BY <1>1 DEF OneTarget
<1>5. ok => landed > 0
  BY <1>1, AnswerLanded DEF TypeOK
<1>6. RecordTail'
  <2> SUFFICES ASSUME pc' = "record", NEW i \in batch', IsHead(i)'
               PROVE  \E last \in 1..Len(timeline') :
                        /\ timeline'[last].by = i
                        /\ \A later \in 1..Len(timeline') :
                             later > last => notice'[timeline'[later].by].fires = {}
    BY DEF RecordTail
  <2>1. ok /\ i \in batch /\ IsHead(i)
    BY <1>1 DEF IsHead
  <2>2. i = id
    BY <1>1, <2>1, OneHead
  <2>3. Len(timeline') \in 1..Len(timeline') /\ Len(timeline') > Len(timeline)
    BY <1>2, <1>3, <1>5, <2>1
  <2>4. timeline'[Len(timeline')].by = i
    BY <1>3, <2>2, <2>3
  <2>5. \A later \in 1..Len(timeline') : ~(later > Len(timeline'))
    BY <1>2
  <2> QED BY <2>3, <2>4, <2>5
<1>7. MappedNewest'
  <2> SUFFICES ASSUME faults' = 0, NoCharts, NEW room \in Rooms, NEW fp \in Fingerprints,
                      alerts[room][fp].event # 0, NEW later \in 1..Len(timeline'),
                      later > alerts[room][fp].event, Announces(later, room, fp)'
               PROVE  pc' = "record" /\ \E i \in batch : IsHead(i) /\ timeline'[later].by = i
    BY <1>1 DEF MappedNewest, NoCharts, IsHead
  <2>1. CASE later <= Len(timeline)
    <3>1. later \in 1..Len(timeline) /\ timeline'[later] = timeline[later]
      BY <1>2, <1>3, <2>1
    <3>2. Announces(later, room, fp)
      BY <1>1, <3>1 DEF Announces
    <3> QED BY <1>1, <3>1, <3>2 DEF NewestInv, MappedNewest
  <2>2. CASE later > Len(timeline)
    <3>1. timeline'[later].by = id /\ notice[id].fires # {} /\ landed > 0
      BY <1>1, <1>2, <1>3, <2>2 DEF Announces
    <3>2. ~ok => faults' = faults + landed
      BY <1>1, AnswerCost DEF TypeOK
    <3>3. ok
      BY <1>1, <3>1, <3>2 DEF TypeOK
    <3>4. ~image
      BY <1>1, <1>2 DEF NewestInv, NoneAsked
    <3> QED BY <1>1, <3>1, <3>3, <3>4
  <2> QED BY <1>2, <2>1, <2>2
<1> QED BY <1>4, <1>6, <1>7

\* Recording points the mappings at the newest announcement.
LEMMA NewestRecord ==
  ASSUME TypeOK, QueueInv, AlertsInv, MessagesKept, RowsKept, NewestInv,
         faults' = 0 => faults = 0, RecordMappings
  PROVE  MappedNewest' /\ RecordTail' /\ OneTarget'
<1>1. PICK id \in batch, ev \in 1..Len(timeline) :
        /\ pc = "record" /\ IsHead(id)
        /\ timeline[ev].by = id
        /\ \A later \in 1..Len(timeline) : later > ev => timeline[later].by # id
        /\ \/ alerts' = RecordAlertMessages(alerts, notice[id].room, ev, notice[id].fires)
           \/ \E kind : Fault(kind)
        /\ pc' = "succeeded"
        /\ UNCHANGED <<notice, timeline, batch>>
  BY DEF RecordMappings
<1>2. RecordTail' /\ OneTarget'
  BY <1>1 DEF RecordTail, OneTarget
<1>3. PICK last \in 1..Len(timeline) :
        /\ timeline[last].by = id
        /\ \A later \in 1..Len(timeline) : later > last => notice[timeline[later].by].fires = {}
  BY <1>1 DEF NewestInv, RecordTail
<1>4. \A later \in 1..Len(timeline) : later > ev => notice[timeline[later].by].fires = {}
  <2>1. last <= ev /\ Len(timeline) \in Nat
    BY <1>1, <1>3, LenProperties DEF TypeOK
  <2> QED BY <1>3, <2>1
<1>5. \A other \in batch : IsHead(other) => other = id
  BY <1>1, OneHead
<1>6. MappedNewest'
  <2> SUFFICES ASSUME faults' = 0, NoCharts, NEW room \in Rooms, NEW fp \in Fingerprints,
                      alerts'[room][fp].event # 0, NEW later \in 1..Len(timeline),
                      later > alerts'[room][fp].event, Announces(later, room, fp)
               PROVE  FALSE
    BY <1>1 DEF MappedNewest, NoCharts, Announces
  <2>1. \A kind : ~Fault(kind)
    BY DEF TypeOK, Fault, Faults
  <2>2. alerts' = RecordAlertMessages(alerts, notice[id].room, ev, notice[id].fires)
    BY <1>1, <2>1
  <2>3. CASE room = notice[id].room /\ fp \in notice[id].fires
    <3>1. alerts'[room][fp].event = ev
      BY <2>2, <2>3 DEF RecordAlertMessages, TypeOK
    <3> QED BY <1>4, <3>1 DEF Announces
  <2>4. CASE ~(room = notice[id].room /\ fp \in notice[id].fires)
    <3>1. alerts'[room][fp] = alerts[room][fp]
      BY <2>2, <2>4 DEF RecordAlertMessages, TypeOK
    <3>2. timeline[later].by = id
      BY <1>5, <3>1 DEF NewestInv, MappedNewest
    <3>3. timeline[later].room = notice[id].room
      BY <3>2 DEF AlertsInv, PostedRows
    <3> QED BY <2>4, <3>2, <3>3 DEF Announces
  <2> QED BY <2>3, <2>4
<1> QED BY <1>2, <1>6

\* A lookup finds one target for everything the entry is about.
LEMMA NewestBegin ==
  ASSUME TypeOK, QueueInv, AlertsInv, MessagesKept, RowsKept, NewestInv,
         faults' = 0 => faults = 0, BeginAttempt
  PROVE  MappedNewest' /\ RecordTail' /\ OneTarget'
<1>1. PICK id \in batch :
        /\ pc = "each" /\ IsHead(id)
        /\ \/ target' = EditTarget(alerts, notice[id]) /\ pc' = IF target' # 0 THEN "edit" ELSE "post"
           \/ pc' = "post"
        /\ UNCHANGED <<outbox, notice, alerts, timeline, batch>>
  BY DEF BeginAttempt
<1>2. RecordTail'
  BY <1>1 DEF RecordTail
<1>3. MappedNewest'
  BY <1>1 DEF NewestInv, MappedNewest, NoCharts, Announces
<1>4. OneTarget'
  <2> SUFFICES ASSUME pc' = "edit", NEW i \in batch, IsHead(i),
                      NEW fp \in notice[i].fires \cup notice[i].resolves
               PROVE  \/ alerts[notice[i].room][fp].event = target'
                      \/ alerts[notice[i].room][fp].event = 0
    BY <1>1 DEF OneTarget, IsHead
  <2>1. i = id /\ i \in Ids /\ target' # 0 /\ target' = EditTarget(alerts, notice[i])
    BY <1>1, OneHead, BatchExists
  <2> QED BY <2>1, EditTargetOne
<1> QED BY <1>2, <1>3, <1>4

LEMMA NewestStep ==
  TypeOK /\ QueueInv /\ AlertsInv /\ NewestInv /\ [Next]_vars => NewestInv'
<1> SUFFICES ASSUME TypeOK, QueueInv, AlertsInv, NewestInv, [Next]_vars PROVE NewestInv'
  OBVIOUS
<1>0. MessagesKept /\ RowsKept /\ NoneAsked' /\ (faults' = 0 => faults = 0)
  BY StepKeeps, AskedStep, FaultsGrow DEF AlertsInv, NewestInv
<1> DEFINE Rest == MappedNewest' /\ RecordTail' /\ OneTarget'
           Still == /\ Len(timeline') = Len(timeline) /\ MappingsShrink
                    /\ pc = "record" /\ faults' = 0 => UNCHANGED <<pc, batch>>
                    /\ pc' \in {"edit", "record"} => UNCHANGED <<pc, batch, target>>
<1>1. Still => Rest
  BY <1>0, NewestStays
<1>2. UNCHANGED alerts => MappingsShrink
  BY DEF MappingsShrink
<1>3. ASSUME NEW n \in Notices, Enqueue(n) PROVE Still
  BY <1>2, <1>3 DEF Enqueue, process
<1>4. ASSUME NEW id \in Ids, RetryDelivery(id) PROVE Still
  BY <1>2, <1>4 DEF RetryDelivery, process
<1>5. ASSUME Boot \/ PruneTick PROVE Still
  BY <1>5, SweepShrinks DEF Boot, PruneTick, process
<1>6. ASSUME Tick PROVE Still
  BY <1>6, SweepShrinks DEF Tick, process
<1>7. ASSUME Settle \/ MarkDelivered PROVE Still
  BY <1>2, <1>7 DEF Settle, MarkDelivered, NextEntry
<1>8. ASSUME Kick \/ UNCHANGED vars PROVE Still
  BY <1>2, <1>8 DEF Kick, vars, process
<1>9. ASSUME Wake \/ Poll \/ ReadDue \/ ReadDueFails \/ CountPending PROVE Still
  BY <1>2, <1>9 DEF Wake, Poll, ReadDue, ReadDueFails, CountPending
<1>10. ASSUME Crash PROVE Still
  <2>1. faults' # 0
    BY <1>10 DEF Crash, Fault, Faults, TypeOK
  <2> QED BY <1>2, <1>10, <2>1 DEF Crash
<1>11. ASSUME SendEdit PROVE Still
  <2>1. PICK id \in batch :
          /\ pc = "edit" /\ IsHead(id)
          /\ \/ timeline' = [timeline EXCEPT ![target].shows = id]
             \/ timeline' = timeline
          /\ pc' \in {"succeeded", "post"}
          /\ UNCHANGED alerts
    BY <1>11 DEF SendEdit
  <2>2. id \in Ids /\ target \in 1..Len(timeline)
    BY <2>1 DEF AlertsInv, EditSound, TypeOK
  <2>3. Len(timeline') = Len(timeline)
    BY <2>1, <2>2, EditShape DEF TypeOK
  <2> QED BY <1>2, <2>1, <2>3
<1>12. ASSUME NEW r \in Rooms, TestSend(r) PROVE Rest
  BY <1>0, <1>12, NewestTestSend
<1>13. ASSUME Post PROVE Rest
  BY <1>0, <1>13, NewestPost
<1>14. ASSUME RecordMappings PROVE Rest
  BY <1>0, <1>14, NewestRecord
<1>15. ASSUME BeginAttempt PROVE Rest
  BY <1>0, <1>15, NewestBegin
<1> HIDE DEF Still, Rest
<1>16. Rest
  BY <1>1, <1>3, <1>4, <1>5, <1>6, <1>7, <1>8, <1>9, <1>10, <1>11, <1>12, <1>13, <1>14, <1>15
     DEF Next, Request, Drain, Attempt
<1> QED
  BY <1>0, <1>16 DEF NewestInv, Rest

\* An edit lands on the newest message that announced what it is about,
\* unless an image announced it or something failed.
THEOREM EditsFindNewest == Spec => EditsNewestAnnouncement
<1> DEFINE Finds ==
      faults = 0 /\ (\A n \in Notices : ~n.chart) =>
        \A ev \in DOMAIN timeline : Edited(ev) =>
          LET n == notice[timeline'[ev].shows] IN
          \A fp \in n.fires \cup n.resolves :
            alerts[n.room][fp].event # 0 => Newest(ev, n.room, fp)
<1>1. TypeOK /\ QueueInv /\ AlertsInv /\ NewestInv /\ [Next]_vars => [Finds]_vars
  <2> SUFFICES ASSUME TypeOK, QueueInv, AlertsInv, NewestInv, [Next]_vars,
                      faults = 0, NoCharts, NEW ev \in DOMAIN timeline, Edited(ev),
                      NEW fp \in notice[timeline'[ev].shows].fires
                                   \cup notice[timeline'[ev].shows].resolves,
                      alerts[notice[timeline'[ev].shows].room][fp].event # 0
               PROVE  Newest(ev, notice[timeline'[ev].shows].room, fp)
    BY DEF NoCharts
  <2>1. PICK id \in batch : IsHead(id) /\ timeline'[ev].shows = id
    BY OnlyEditsEdit DEF AlertsInv
  <2>2. /\ ev = target /\ pc = "edit" /\ ev \in 1..Len(timeline) /\ id \in Ids
        /\ notice[id].room \in Rooms /\ fp \in Fingerprints
    BY <2>1, OnlyEditsEdit, BatchExists DEF AlertsInv, TypeOK, NoticeType
  <2>3. alerts[notice[id].room][fp].event = ev
    BY <2>1, <2>2 DEF NewestInv, OneTarget
  <2>4. Announces(ev, notice[id].room, fp)
    BY <2>1, <2>2, <2>3 DEF AlertsInv, MappingsSound
  <2>5. \A later \in 1..Len(timeline) :
          ~(later > ev /\ Announces(later, notice[id].room, fp))
    BY <2>1, <2>2, <2>3 DEF NewestInv, MappedNewest
  <2>6. \A later \in 1..Len(timeline) : Announces(later, notice[id].room, fp) => later <= ev
    BY <2>2, <2>5
  <2> QED BY <2>1, <2>4, <2>6 DEF Newest
<1>2. Spec => [](TypeOK /\ QueueInv /\ AlertsInv /\ NewestInv)
  BY TypeInit, TypeStep, QueueInit, QueueStep, AlertsInit, AlertsStep, NewestInit, NewestStep,
     PTL DEF Spec
<1> QED
  BY <1>1, <1>2, PTL DEF Spec, EditsNewestAnnouncement
=============================================================================
