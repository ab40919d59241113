--------------------------- MODULE DurableDelivery ---------------------------
(***************************************************************************)
(* What the outbox promises, without batches, kicks, timers or faults: an  *)
(* accepted notification is settled exactly one way, "delivered" only once *)
(* its rendering is in a room, never forgotten before it is settled, and   *)
(* revived only from a failure.  (internal/store/outbox.go:18-21 and       *)
(* 124-126, README "Durable delivery".)                                    *)
(***************************************************************************)
CONSTANT Ids
VARIABLES status, shown

promise == <<status, shown>>

Init == status = [id \in Ids |-> "absent"] /\ shown = {}

Become(id, from, to) == status[id] = from /\ status' = [status EXCEPT ![id] = to]

Accept(id)  == Become(id, "absent", "pending") /\ UNCHANGED shown
Show(id)    == status[id] = "pending" /\ shown' = shown \cup {id} /\ UNCHANGED status
Deliver(id) == id \in shown /\ Become(id, "pending", "delivered") /\ UNCHANGED shown
GiveUp(id)  == Become(id, "pending", "failed") /\ UNCHANGED shown
Retry(id)   == Become(id, "failed", "pending") /\ UNCHANGED shown

\* A synchronous send and its outcome; an error does not prove that nothing
\* reached the room.
Record(id) ==
  \/ Become(id, "absent", "delivered") /\ shown' = shown \cup {id}
  \/ Become(id, "absent", "failed") /\ shown' \in {shown, shown \cup {id}}

\* Retention forgets settled rows, any number at a time.
Forget(S) ==
  /\ \A id \in S : status[id] \in {"delivered", "failed"}
  /\ status' = [id \in Ids |-> IF id \in S THEN "pruned" ELSE status[id]]
  /\ UNCHANGED shown

Next ==
  \/ \E id \in Ids : \/ Accept(id) \/ Show(id) \/ Deliver(id)
                     \/ GiveUp(id) \/ Retry(id) \/ Record(id)
  \/ \E S \in SUBSET Ids : Forget(S)

Spec == Init /\ [][Next]_promise
==============================================================================
