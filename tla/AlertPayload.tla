----------------------------- MODULE AlertPayload -----------------------------
(***************************************************************************)
(* Reading the webhook payloads of Alertmanager and Grafana                *)
(* (internal/ingest/alertmanager, internal/ingest/grafana): a group of     *)
(* alerts becomes one notification, and what correlates it with others.    *)
(*                                                                         *)
(* A payload has its format, groupLabels (a function from label to value), *)
(* the receiver's name and the alerts.  Texts are sequences of words; of   *)
(* an alert's line only the mark and the name are kept.                    *)
(***************************************************************************)
EXTENDS Integers, Sequences, SequencesExt

Resolved(a) == a.status = "resolved"
IsFiring(a) == ~Resolved(a)

\* ParsePayload refuses a payload without alerts.
AcceptsAlerts(p) == p.alerts # <<>>

FirstName(alerts) ==
  LET named == {i \in DOMAIN alerts : alerts[i].name # ""}
  IN  IF named = {} THEN <<>> ELSE <<alerts[Min(named)].name>>

\* The labels, sorted and joined: one word, the same for the same labels.
Pairs(labels, keys) == IF keys = {} THEN <<>> ELSE <<[k \in keys |-> labels[k]]>>

\* The name of the group: the first of these that is there.
AlertmanagerNames(p) ==
  <<Pairs(p.group, DOMAIN p.group), p.receiver, FirstName(p.alerts), <<"alerts">>>>
GrafanaNames(p) ==
  <<Pairs(p.group, DOMAIN p.group \ {"grafana_folder"}), FirstName(p.alerts),
    p.receiver, <<"alerts">>>>

GroupName(p) ==
  LET names == IF p.format = "grafana" THEN GrafanaNames(p) ELSE AlertmanagerNames(p)
  IN  IF "alertname" \in DOMAIN p.group /\ p.group["alertname"] # ""
      THEN <<p.group["alertname"]>>
      ELSE names[Min({i \in DOMAIN names : names[i] # <<>>})]

\* The priority: any firing critical alert decides, then any warning.
M_Severer_last(prio, a) ==
  IF Resolved(a) THEN prio
  ELSE CASE a.severity = "critical" -> 8
         [] a.severity = "warning" -> 5
         [] OTHER -> prio
Severer(prio, a) ==
  IF prio = 8 \/ Resolved(a) THEN prio
  ELSE CASE a.severity = "critical" -> 8
         [] a.severity = "warning" -> 5
         [] OTHER -> prio

\* The priority after each number of alerts.
Priorities(alerts) ==
  LET prio[i \in 0..Len(alerts)] == IF i = 0 THEN 3 ELSE Severer(prio[i - 1], alerts[i])
  IN  prio

AlertPriority(p) == Priorities(p.alerts)[Len(p.alerts)]

Line(a) == <<IF Resolved(a) THEN "resolved" ELSE "firing",
             IF a.name = "" THEN "alert" ELSE a.name>>

\* The counts in the title, of which only the presence is kept.
Mark(p, resolved, word) ==
  IF \E a \in Range(p.alerts) : Resolved(a) = resolved THEN <<word>> ELSE <<>>

FormatAlerts(p) ==
  [title |-> Mark(p, FALSE, "FIRING") \o Mark(p, TRUE, "RESOLVED") \o GroupName(p),
   body |-> [i \in DOMAIN p.alerts |-> Line(p.alerts[i])],
   priority |-> AlertPriority(p)]

\* Fingerprints, of the firing or of the resolved alerts that have one: those
\* found after each number of alerts.
Marked(a, resolved) == Resolved(a) = resolved /\ a.fingerprint # ""

FingerprintsUpTo(alerts, resolved) ==
  LET found[i \in 0..Len(alerts)] ==
        IF i = 0 THEN <<>>
        ELSE IF Marked(alerts[i], resolved) THEN Append(found[i - 1], alerts[i].fingerprint)
        ELSE found[i - 1]
  IN  found

FingerprintsOf(p, resolved) == FingerprintsUpTo(p.alerts, resolved)[Len(p.alerts)]

\* The alert to chart: one that asks for it and has a generator URL, firing if
\* possible.
NoAlert == [status |-> "none"]
Charted(a) == a.url # "" /\ a.chart

ChartTarget(p) ==
  LET wanted == {i \in DOMAIN p.alerts : Charted(p.alerts[i])}
      firing == {i \in wanted : IsFiring(p.alerts[i])}
  IN  CASE firing # {} -> p.alerts[Min(firing)]
        [] firing = {} /\ wanted # {} -> p.alerts[Min(wanted)]
        [] OTHER -> NoAlert
================================================================================
