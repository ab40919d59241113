----------------------------- MODULE AlertStore -----------------------------
(***************************************************************************)
(* The alert_messages table of internal/store/alertmessage.go: for a room  *)
(* and an alert fingerprint, the Matrix message that announced the alert.  *)
(* The table m is a function of rooms and fingerprints; event 0 stands for *)
(* "no row".  RecordAlertMessages deletes the older rows of a fingerprint  *)
(* in the transaction that inserts the new one, so there is at most one.   *)
(***************************************************************************)
EXTENDS Integers

NoMapping == [event |-> 0, age |-> 0]

\* Point each fingerprint at the message that just announced it.
M_RecordAlertMessages_keepsOld(m, room, ev, fps) ==
  [m EXCEPT ![room] = [fp \in DOMAIN @ |->
     IF fp \in fps /\ @[fp].event = 0 THEN [event |-> ev, age |-> 0] ELSE @[fp]]]
M_RecordAlertMessages_wrongRoom(m, room, ev, fps) ==
  [r \in DOMAIN m |-> [fp \in DOMAIN m[r] |->
     IF fp \in fps THEN [event |-> ev, age |-> 0] ELSE m[r][fp]]]
RecordAlertMessages(m, room, ev, fps) ==
  [m EXCEPT ![room] = [fp \in DOMAIN @ |->
     IF fp \in fps THEN [event |-> ev, age |-> 0] ELSE @[fp]]]

\* fingerprint -> announcing event, for those fingerprints that have a row.
M_MapAlertMessages_anyRoom(m, room, fps) ==
  [fp \in {f \in fps : \E r \in DOMAIN m : m[r][f].event # 0} |->
     m[CHOOSE r \in DOMAIN m : m[r][fp].event # 0][fp].event]
MapAlertMessages(m, room, fps) ==
  [fp \in {f \in fps : m[room][f].event # 0} |-> m[room][fp].event]

\* DELETE of the rows created before now - retention.
PruneAlertMessages(m, retention) ==
  [r \in DOMAIN m |-> [fp \in DOMAIN m[r] |->
     IF m[r][fp].age > retention THEN NoMapping ELSE m[r][fp]]]

TickMappings(m, maxAge) ==
  [r \in DOMAIN m |-> [fp \in DOMAIN m[r] |->
     IF m[r][fp].event = 0 THEN m[r][fp]
     ELSE [m[r][fp] EXCEPT !.age = IF @ < maxAge THEN @ + 1 ELSE maxAge]]]
=============================================================================
