------------------------------- MODULE MCIngest -------------------------------
(***************************************************************************)
(* Values of Ingest's constants for TLC.                                   *)
(***************************************************************************)
EXTENDS IngestProperties, TLC

TokenNames == {"plain", "charted"}
SomePrefixes == [name \in TokenNames |-> IF name = "plain" THEN <<"prefix">> ELSE <<>>]
Flagged == {"charted"}

\* Alerts of every status and severity, with and without a name, a
\* fingerprint and a chart; Prometheus always gives the URL and the onset.
Alert(name, status, severity, fingerprint, chart, startsAt) ==
  [name |-> name, status |-> status, severity |-> severity, fingerprint |-> fingerprint,
   chart |-> chart, url |-> IF fingerprint = "" THEN "" ELSE "url", startsAt |-> startsAt]
Alerts == {
  Alert("disk", "firing", "critical", "f1", TRUE, 3),
  Alert("load", "firing", "warning", "f2", FALSE, 12),
  Alert("", "firing", "", "", TRUE, Unset),
  Alert("mail", "firing", "warning", "f3", TRUE, Unset),
  Alert("disk", "resolved", "critical", "f1", TRUE, 12),
  Alert("load", "resolved", "critical", "f2", FALSE, 3)}
AlertLists == {<<>>} \cup {<<a>> : a \in Alerts} \cup (Alerts \X Alerts)
Groups == {<<>>, [alertname |-> "disk"], [grafana_folder |-> "infra"], [job |-> "node"]}

AlertPayloads ==
  [format : AlertFormats, group : {<<>>}, receiver : {<<>>}, alerts : AlertLists]
  \cup [format : AlertFormats, group : Groups, receiver : {<<>>, <<"team">>},
        alerts : {<<a>> : a \in {x \in Alerts : x.name = ""}}]

GotifyPayloads ==
  [format : {"gotify"}, title : {<<>>, <<"t">>}, message : {<<>>, <<"m">>},
   numeric : BOOLEAN, priority : {0, 9}]

Section == [type |-> "section", text |-> <<"b">>]
Divider == [type |-> "divider", text |-> <<>>]
Attachments == [title : {<<>>}, text : {<<>>}, fallback : {<<>>, <<"f">>},
                color : {"danger", "warning"}, blocks : {<<>>, <<Section>>}]
SlackPayloads ==
  [format : {"slack"}, username : {<<>>}, text : {<<>>, <<"x">>}, blocks : {<<>>, <<Divider>>},
   attachments : {<<>>} \cup {<<a>> : a \in Attachments}]

GiteaPayloads ==
  [format : {"gitea"}, event : {"", "push", "create", "fork"} \cup ObjectEvents, present : BOOLEAN,
   action : {"closed"}, merged : {TRUE}, link : {<<"link">>}, commits : {<<>>},
   pusher : {<<>>, <<"dev">>}, sender : {<<>>}]

AllPayloads == AlertPayloads \cup SlackPayloads \cup GiteaPayloads \cup GotifyPayloads

\* Two or three series of a range, one of them perhaps with a gap.
Series(label, samples) == [label |-> label, samples |-> samples]
SomeAnswers ==
  LET runs == {<<>>, <<7, 8, 9>>, <<8, 9>>, <<9>>}
  IN  UNION {{<<Series(i, s), Series(3 - i, t)>> : i \in {1, 2}} : s \in runs, t \in runs}
      \cup {<<Series(i, <<8, 9>>), Series(3, <<9>>), Series(3 - i, <<8, 9>>)>> : i \in {1, 2}}

Symmetry == Permutations(Requests)
================================================================================
