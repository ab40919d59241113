---------------------------- MODULE MCDispatcher ----------------------------
(***************************************************************************)
(* Values of Dispatcher's constants for TLC.                               *)
(***************************************************************************)
EXTENDS DispatcherProperties

\* A gotify, slack or gitea message: no alert, no chart.
Plain(room) == [room |-> room, fires |-> {}, resolves |-> {}, chart |-> FALSE]
Group(room, fires, resolves) ==
  [room |-> room, fires |-> fires, resolves |-> resolves, chart |-> FALSE]
Charted(n) == [n EXCEPT !.chart = TRUE]

PlainNotices == {Plain(r) : r \in Rooms}

\* What a group of two alerts sends while they fire and resolve one by one.
OneGroup(room, a, b) ==
  {Group(room, {a}, {}), Group(room, {a, b}, {}), Group(room, {b}, {a}),
   Group(room, {}, {a}), Group(room, {}, {a, b})}
TwoAlerts == CHOOSE p \in Fingerprints \X Fingerprints : p[1] # p[2]
GroupNotices == UNION {OneGroup(room, TwoAlerts[1], TwoAlerts[2]) : room \in Rooms}

\* A chart-enabled channel: the same group, whose firing alerts ask for a chart.
ChartNotices ==
  {IF n.fires # {} THEN Charted(n) ELSE n : n \in GroupNotices}

AllHazards == HazardKinds
=============================================================================
