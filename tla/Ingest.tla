-------------------------------- MODULE Ingest --------------------------------
(***************************************************************************)
(* An ingest request after its token was resolved (internal/server): the   *)
(* rate limit, the payload, the outbox entry made of it; and what the      *)
(* dispatcher makes of the entry later, the text and the chart.  Which     *)
(* room a token leads to is in Routing, what becomes of an entry in        *)
(* Dispatcher.                                                             *)
(***************************************************************************)
EXTENDS RateLimiter, AlertPayload, MessagePayload, Chart

CONSTANTS
  Requests,    \* requests handled at the same time
  PrefixOf,    \* the prefix of each token, a sequence of words
  Charting,    \* the tokens whose channel has the chart flag
  Payloads,    \* what is posted
  DrawTimes,   \* when a chart may be drawn, in seconds
  Answers      \* what Prometheus may answer, see Chart

\* A list of anything, as a decoder makes it.
IsList(s) == s \in Seq(Range(s))

AlertFormats == {"alertmanager", "grafana"}

AlertsTyped(p) ==
  /\ IsList(p.receiver)
  /\ IsList(p.alerts) /\ \A a \in Range(p.alerts) : a.startsAt \in Int
BlocksTyped(blocks) == IsList(blocks) /\ \A b \in Range(blocks) : IsList(b.text)
SlackTyped(p) ==
  /\ IsList(p.username) /\ IsList(p.text) /\ BlocksTyped(p.blocks)
  /\ IsList(p.attachments)
  /\ \A a \in Range(p.attachments) :
       IsList(a.title) /\ IsList(a.text) /\ IsList(a.fallback) /\ BlocksTyped(a.blocks)
GiteaTyped(p) == IsList(p.link) /\ IsList(p.commits) /\ IsList(p.pusher) /\ IsList(p.sender)

\* Payloads have the types of the structs they are decoded into.
ASSUME PayloadAssumption == \A p \in Payloads :
  \/ p.format \in AlertFormats /\ AlertsTyped(p)
  \/ p.format = "gotify" /\ IsList(p.title) /\ IsList(p.message)
  \/ p.format = "slack" /\ SlackTyped(p)
  \/ p.format = "gitea" /\ GiteaTyped(p)

ASSUME PrefixAssumption == DOMAIN PrefixOf = Names /\ \A name \in Names : IsList(PrefixOf[name])

\* No two series of an answer have the same labels: Prometheus refuses a query
\* whose result would.
ASSUME AnswerAssumption ==
  /\ DrawTimes \subseteq Int
  /\ \A answer \in Answers :
       /\ IsList(answer)
       /\ \A s \in Range(answer) : s.label \in Int /\ s.samples \in Seq(Int)
       /\ \A i, j \in DOMAIN answer : answer[i].label = answer[j].label => i = j

VARIABLES
  request,     \* where each handler is
  queued,      \* the entry the last step queued, and what it was made of
  drawn        \* the chart the last step drew, and what it was made of

vars == <<limiter, request, queued, drawn>>

Nothing == [pc |-> "none"]
NoRequest == [pc |-> "idle"]

Init ==
  /\ LimiterInit
  /\ request = [r \in Requests |-> NoRequest]
  /\ queued = Nothing /\ drawn = Nothing

Goto(r, label, name, bucket) ==
  /\ request' = [request EXCEPT ![r] = [pc |-> label, name |-> name, bucket |-> bucket]]
  /\ queued' = Nothing /\ drawn' = Nothing

Finish(r) == request' = [request EXCEPT ![r] = NoRequest]

At(r, label) == request[r].pc = label

------------------------------------------------------------------------------
(* Reading a payload. *)

Accepts(p) ==
  CASE p.format \in AlertFormats -> AcceptsAlerts(p)
    [] p.format = "gotify" -> AcceptsGotify(p)
    [] p.format = "slack" -> AcceptsSlack(p)
    [] p.format = "gitea" -> AcceptsGitea(p)

Read(p) ==
  CASE p.format \in AlertFormats -> FormatAlerts(p)
    [] p.format = "gotify" -> ReadGotify(p)
    [] p.format = "slack" -> ReadSlack(p)
    [] p.format = "gitea" -> ReadGitea(p)

Prefixed(n, prefix) ==
  IF n.title # <<>> THEN [n EXCEPT !.title = prefix \o @] ELSE [n EXCEPT !.body = prefix \o @]

Target(p, name) ==
  IF p.format = "alertmanager" /\ name \in Charting THEN ChartTarget(p) ELSE NoAlert

Correlated(p, resolved) ==
  IF p.format \in AlertFormats THEN FingerprintsOf(p, resolved) ELSE <<>>

EntryOf(p, name) ==
  LET n == Prefixed(Read(p), PrefixOf[name])
  IN  [title |-> n.title, body |-> n.body, priority |-> n.priority,
       fires |-> Correlated(p, FALSE), resolves |-> Correlated(p, TRUE),
       target |-> Target(p, name)]

------------------------------------------------------------------------------
(* The handlers. *)

\* The token is good; without a limit the request goes on at once.
Resolve(r, name) ==
  /\ At(r, "idle")
  /\ Goto(r, IF Limited THEN "limit" ELSE "parse", name, 0)
  /\ UNCHANGED limiter

AskLimiter(r) ==
  /\ At(r, "limit")
  /\ FindLimiter(request[r].name)
  /\ Goto(r, "allow", request[r].name, limiterOf'[request[r].name])

Pass(r) ==
  /\ At(r, "allow") /\ HasRoom(request[r].bucket)
  /\ Take(request[r].bucket, request[r].name)
  /\ Goto(r, "parse", request[r].name, request[r].bucket)

\* 429.
Throttle(r) ==
  /\ At(r, "allow") /\ ~HasRoom(request[r].bucket)
  /\ Finish(r)
  /\ queued' = Nothing /\ drawn' = Nothing
  /\ UNCHANGED limiter

\* The entry is inserted, and the request answered 200.
Queue(r, p) ==
  /\ At(r, "parse") /\ Accepts(p)
  /\ queued' = [pc |-> "queued", name |-> request[r].name, payload |-> p,
                entry |-> EntryOf(p, request[r].name)]
  /\ drawn' = Nothing
  /\ Finish(r)
  /\ UNCHANGED limiter

\* 400: the payload is refused; 500: the database refuses the entry.
Refuse(r) ==
  /\ At(r, "parse")
  /\ Finish(r)
  /\ queued' = Nothing /\ drawn' = Nothing
  /\ UNCHANGED limiter

------------------------------------------------------------------------------
(* The dispatcher, when it delivers the entry. *)

\* BuildMarkdown.
Markdown(entry) ==
  (IF entry.title # <<>> /\ entry.priority >= 8 THEN <<"!!">> ELSE <<>>) \o entry.title \o entry.body

\* ChartForAlert: a picture, or an error if the query returned no data.
ChartForAlert(end, startsAt, answer) ==
  LET start  == StartOf(end, startsAt)
      series == SeriesOf(answer)
  IN  [pc |-> IF series = <<>> THEN "error" ELSE "drawn",
       start |-> start, end |-> end, startsAt |-> startsAt, answer |-> answer,
       picture |-> IF series = <<>> THEN <<>> ELSE Render(series)]

\* Prometheus evaluates the query at the points of the range.
Sampled(answer, start, end) ==
  \A i \in DOMAIN answer : \A j \in DOMAIN answer[i].samples :
    answer[i].samples[j] \in Points(start, end)

Draw(end, answer) ==
  /\ queued # Nothing
  /\ queued.entry.target # NoAlert
  /\ queued.entry.target.startsAt <= end
  /\ Sampled(answer, StartOf(end, queued.entry.target.startsAt), end)
  /\ drawn' = ChartForAlert(end, queued.entry.target.startsAt, answer)
  /\ queued' = Nothing
  /\ UNCHANGED <<limiter, request>>

Clock == Tick /\ queued' = Nothing /\ drawn' = Nothing /\ UNCHANGED request

Handle(r) ==
  \/ \E name \in Names : Resolve(r, name)
  \/ AskLimiter(r) \/ Pass(r) \/ Throttle(r) \/ Refuse(r)
  \/ \E p \in Payloads : Queue(r, p)

Next ==
  \/ \E r \in Requests : Handle(r)
  \/ \E end \in DrawTimes, answer \in Answers : Draw(end, answer)
  \/ Clock

Spec == Init /\ [][Next]_vars
================================================================================
