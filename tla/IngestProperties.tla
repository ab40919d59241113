--------------------------- MODULE IngestProperties ---------------------------
(***************************************************************************)
(* What should be true of ingest requests, of the entries made of them,    *)
(* and of the charts.                                                      *)
(***************************************************************************)
EXTENDS Ingest

\* However many requests race for the first use of a token, and however long
\* it was left alone, no period sees more of them pass than the burst and
\* what the period earned (config.go:44-45, ratelimit.go:9-12).
WithinBudget ==
  Limited => \A name \in Names, t \in 0..now :
    passed[name] - ledger[name][t] <= Capacity + PerTick * (now - t)

Firing(p) == {a \in Range(p.alerts) : a.status # "resolved"}
Severity(p) ==
  CASE \E a \in Firing(p) : a.severity = "critical" -> 8
    [] ~\E a \in Firing(p) : a.severity \in {"critical", "warning"} -> 3
    [] OTHER -> 5

OptedIn(p) == {a \in Range(p.alerts) : a.chart /\ a.url # ""}

\* The entry of a group of alerts says what the group says: the worst firing
\* severity in any order of the alerts, every fingerprint on its side, a chart
\* of a firing alert if any that opted in fires (alertmanager.go:202-247).
GroupFaithful(p, name, entry) ==
  /\ entry.priority = Severity(p)
  /\ Range(entry.fires) = {a.fingerprint : a \in Firing(p)} \ {""}
  /\ Range(entry.resolves) =
       {a.fingerprint : a \in Range(p.alerts) \ Firing(p)} \ {""}
  /\ IF p.format = "grafana" \/ name \notin Charting \/ OptedIn(p) = {}
     THEN entry.target = NoAlert
     ELSE /\ entry.target \in OptedIn(p)
          /\ OptedIn(p) \cap Firing(p) # {} => entry.target \in Firing(p)

\* What is accepted is delivered as something: an entry never renders to an
\* empty text, which Send would drop and call delivered (bot.go:674-676); it carries
\* the token's prefix (server.go:197-208), and that of a group of alerts is
\* faithful to the group.
EntryFaithful ==
  queued # Nothing =>
    /\ Markdown(queued.entry) # <<>>
    /\ Range(PrefixOf[queued.name]) \subseteq Range(Markdown(queued.entry))
    /\ queued.payload.format \in AlertFormats =>
         GroupFaithful(queued.payload, queued.name, queued.entry)

Drawn == drawn # Nothing /\ drawn.pc = "drawn"
WithData(answer) == {s \in Range(answer) : s.samples # <<>>}
Rank(answer, s) == Cardinality({o \in WithData(answer) : o.label < s.label})

\* A chart shows the onset of the alert, however late it is drawn (README:89
\* "still charts the alert's window"); it shows every sample of the series it
\* shows; and which those are, and in which order, does not depend on the
\* order of the answer: "re-renders of the same alert look the same"
\* (chart_more_test.go:33-34).
ChartFaithful ==
  Drawn =>
    /\ drawn.startsAt # Unset => drawn.start <= drawn.startsAt
    /\ Cardinality(Points(drawn.start, drawn.end)) <= 2 * Steps + 1
    /\ Len(drawn.picture.rows) = Min({MaxSeries, Cardinality(WithData(drawn.answer))})
    /\ \A s \in WithData(drawn.answer) : Rank(drawn.answer, s) < MaxSeries =>
         LET row == drawn.picture.rows[Rank(drawn.answer, s) + 1]
         IN  /\ DOMAIN s.samples \subseteq DOMAIN row
             /\ \A j \in DOMAIN row : row[j] = IF j \in DOMAIN s.samples THEN s.samples[j] ELSE Null

------------------------------------------------------------------------------
(* A claim of a test the code does not keep; see the README. *)

\* "Misaligned series lengths (scrape gaps) must not panic or skew columns"
\* (chart_more_test.go:82): a value is drawn in the column of its own time.
ColumnsAligned ==
  Drawn => \A i \in DOMAIN drawn.picture.rows : \A j \in DOMAIN drawn.picture.times :
    drawn.picture.rows[i][j] \in {Null, drawn.picture.times[j]}
==============================================================================
