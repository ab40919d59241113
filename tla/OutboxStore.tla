---------------------------- MODULE OutboxStore ----------------------------
(***************************************************************************)
(* The outbox table of internal/store/outbox.go as pure operators: each    *)
(* method of Store that reads or writes OutboxEntry rows is an operator on *)
(* a table t, a function from row ids to rows.                             *)
(*                                                                         *)
(* A row keeps the columns the queue's behaviour depends on.  The two      *)
(* timestamps are kept relative to the present: `wait` is how many ticks   *)
(* remain until next_attempt_at (0 once it has passed) and `age` is how    *)
(* many ticks ago created_at was.  A row never inserted is "absent", a     *)
(* deleted one "pruned"; ids grow with insertion, so they order the rows   *)
(* the way ORDER BY id does.                                               *)
(***************************************************************************)
EXTENDS Integers, FiniteSets

Statuses == {"absent", "pending", "delivered", "failed", "pruned"}
Terminal == {"delivered", "failed"}

EmptyRow(st) == [status |-> st, attempts |-> 0, wait |-> 0, age |-> 0]

\* Insert a notification as pending, due immediately.
EnqueueOutbox(t, id) == [t EXCEPT ![id] = EmptyRow("pending")]

\* Insert the outcome of a synchronous send: a row that is born terminal.
RecordDelivery(t, id, st) ==
  [t EXCEPT ![id] = [EmptyRow(st) EXCEPT !.attempts = 1]]

M_IsDue_notFailed(t, id) == t[id].status \in {"pending", "delivered"} /\ t[id].wait = 0
IsDue(t, id) == t[id].status = "pending" /\ t[id].wait = 0

\* The ids SELECTed by DueOutbox: the `limit` oldest of the due rows.
M_DueOutbox_newest(t, limit) ==
  LET due == {id \in DOMAIN t : IsDue(t, id)}
  IN  {id \in due : Cardinality({j \in due : j > id}) < limit}
DueOutbox(t, limit) ==
  LET due == {id \in DOMAIN t : IsDue(t, id)}
  IN  {id \in due : Cardinality({j \in due : j < id}) < limit}

MarkOutboxDelivered(t, id, n) ==
  [t EXCEPT ![id].status = "delivered", ![id].attempts = n]

RescheduleOutbox(t, id, n, delay) ==
  [t EXCEPT ![id].attempts = n, ![id].wait = delay]

MarkOutboxFailed(t, id, n) ==
  [t EXCEPT ![id].status = "failed", ![id].attempts = n]

\* The WHERE clause of RequeueOutbox; without a matching row it returns
\* ErrNotFound and changes nothing.
M_CanRequeue_unsettled(t, id) == t[id].status \in {"pending", "failed"}
M_CanRequeue_anyTerminal(t, id) == t[id].status \in Terminal
CanRequeue(t, id) == t[id].status = "failed"

\* created_at is not among the updated columns.
RequeueOutbox(t, id) ==
  [t EXCEPT ![id].status = "pending", ![id].attempts = 0, ![id].wait = 0]

\* DELETE of the terminal rows created before now - retention.
M_PruneOutbox_anyStatus(t, retention) ==
  [id \in DOMAIN t |->
     IF t[id].status \in {"pending", "delivered", "failed"} /\ t[id].age > retention
     THEN EmptyRow("pruned") ELSE t[id]]
PruneOutbox(t, retention) ==
  [id \in DOMAIN t |->
     IF t[id].status \in Terminal /\ t[id].age > retention
     THEN EmptyRow("pruned") ELSE t[id]]

\* One tick of the wall clock as the rows see it; ages saturate at maxAge.
TickRows(t, maxAge) ==
  [id \in DOMAIN t |->
     IF t[id].status \in {"absent", "pruned"} THEN t[id]
     ELSE [t[id] EXCEPT !.wait = IF @ > 0 THEN @ - 1 ELSE 0,
                        !.age  = IF @ < maxAge THEN @ + 1 ELSE maxAge]]
=============================================================================
