----------------------------- MODULE TokenRoutes -----------------------------
(***************************************************************************)
(* What the tables of channels and tokens promise to whoever holds a token,*)
(* without channels, statements or transactions: a token leads to one room *)
(* until its own administration, or the departure from that room, changes  *)
(* that; a request goes where its token led at one moment of the request,  *)
(* or nowhere.  (README:98-103, internal/store/store.go.)                  *)
(***************************************************************************)
CONSTANTS Tokens, Rooms, Nowhere, Requests
VARIABLES
  issued,   \* the tokens ever created
  routes,   \* pairs of a token and the room it leads to
  claim,    \* the room a request may be delivered to, if any
  sent      \* where it was delivered, if it was

promised == <<issued, routes, claim, sent>>

Init ==
  /\ issued = {} /\ routes = {}
  /\ claim = [r \in Requests |-> {}]
  /\ sent = [r \in Requests |-> {}]

\* A token is created once, with its route.
Issue(t, room) ==
  /\ t \notin issued
  /\ issued' = issued \cup {t}
  /\ routes' = routes \cup {<<t, room>>}
  /\ UNCHANGED <<claim, sent>>

\* An operator moves a token to another room or takes it away: the others stay
\* as they are.
Others(t) == {route \in routes : route[1] # t}
Redirect(t, room) ==
  /\ routes # Others(t)
  /\ routes' = Others(t) \cup {<<t, room>>}
  /\ UNCHANGED <<issued, claim, sent>>
Revoke(t) ==
  /\ routes' = Others(t)
  /\ UNCHANGED <<issued, claim, sent>>

\* A room is left: all its tokens are taken away, and no other.
Evacuate(room) ==
  /\ routes' = {route \in routes : route[2] # room}
  /\ UNCHANGED <<issued, claim, sent>>

\* A request shows its token, is delivered at most once, and ends.
Show(r, t) ==
  /\ claim[r] = {} /\ sent[r] = {}
  /\ \E room \in Rooms : <<t, room>> \in routes /\ claim' = [claim EXCEPT ![r] = {room}]
  /\ UNCHANGED <<issued, routes, sent>>
Send(r) ==
  /\ claim[r] # {} /\ sent[r] = {}
  /\ \E room \in claim[r] \cup {Nowhere} : sent' = [sent EXCEPT ![r] = {room}]
  /\ UNCHANGED <<issued, routes, claim>>
End(r) ==
  /\ claim' = [claim EXCEPT ![r] = {}]
  /\ sent' = [sent EXCEPT ![r] = {}]
  /\ UNCHANGED <<issued, routes>>

Next ==
  \/ \E t \in Tokens : \/ \E room \in Rooms : Issue(t, room) \/ Redirect(t, room)
                       \/ Revoke(t)
  \/ \E room \in Rooms : Evacuate(room)
  \/ \E r \in Requests : (\E t \in Tokens : Show(r, t)) \/ Send(r) \/ End(r)

Spec == Init /\ [][Next]_promised
==============================================================================
