---------------------------- MODULE MessagePayload ----------------------------
(***************************************************************************)
(* Reading the other payloads: Gotify messages, Slack webhooks and Gitea   *)
(* or Forgejo events (internal/ingest/gotify, slack, gitea).  A text is a  *)
(* sequence of words, empty when the field is; an object that is missing   *)
(* has the value FALSE in "present".                                       *)
(***************************************************************************)
EXTENDS Integers, Sequences, SequencesExt

Notification(title, body, priority) == [title |-> title, body |-> body, priority |-> priority]

FirstNonEmpty(texts, default) ==
  LET some == {i \in DOMAIN texts : texts[i] # <<>>}
  IN  IF some = {} THEN default ELSE texts[Min(some)]

------------------------------------------------------------------------------
(* Gotify: a title, a message and a priority, in JSON or in a form. *)

\* A priority that is not a number fails to decode, in either.
AcceptsGotify(p) == p.numeric /\ p.message # <<>>

ReadGotify(p) == Notification(p.title, p.message, p.priority)

------------------------------------------------------------------------------
(* Slack: a text, blocks and attachments. *)

\* Of the blocks, headers and sections are shown.
BlockText(b) == IF b.type \in {"header", "section"} THEN b.text ELSE <<>>
BlockTexts(blocks) == FlattenSeq([i \in DOMAIN blocks |-> BlockText(blocks[i])])

AttachmentText(a) == a.title \o FirstNonEmpty(<<a.text, a.fallback>>, <<>>) \o BlockTexts(a.blocks)

SlackBody(p) ==
  p.text \o BlockTexts(p.blocks)
         \o FlattenSeq([i \in DOMAIN p.attachments |-> AttachmentText(p.attachments[i])])

AcceptsSlack(p) == SlackBody(p) # <<>>

\* "danger" decides, then any "warning".
Louder(prio, a) ==
  IF prio = 5 THEN prio
  ELSE CASE a.color = "danger" -> 5
         [] a.color = "warning" -> 4
         [] OTHER -> prio

SlackPriority(p) ==
  LET prio[i \in 0..Len(p.attachments)] ==
        IF i = 0 THEN 3 ELSE Louder(prio[i - 1], p.attachments[i])
  IN  prio[Len(p.attachments)]

ReadSlack(p) == Notification(p.username, SlackBody(p), SlackPriority(p))

------------------------------------------------------------------------------
(* Gitea: the event is named in a header. *)

AcceptsGitea(p) == p.event # ""

Generic(p) == Notification(<<p.event, p.action>>, <<>>, 3)

\* A merged pull request arrives as closed.
PullAction(p) == IF p.action = "closed" /\ p.merged THEN "merged" ELSE p.action

ReadPullRequest(p) ==
  Notification(<<"PR", PullAction(p)>>, p.link, IF PullAction(p) = "merged" THEN 4 ELSE 3)
ReadIssue(p) == Notification(<<"issue", p.action>>, p.link, 3)
ReadRelease(p) == Notification(<<"release", p.action>>, p.link, 4)
ReadPush(p) == Notification(<<"pushed">> \o FirstNonEmpty(<<p.pusher, p.sender>>, <<"someone">>), p.commits, 3)
ReadRef(p) ==
  Notification(<<IF p.event = "delete" THEN "deleted" ELSE "created">>
                 \o FirstNonEmpty(<<p.sender, p.pusher>>, <<"someone">>), <<>>, 3)

ReadRun(p) ==
  LET verb == CASE p.event = "action_run_success" -> "succeeded"
                [] p.event = "action_run_recover" -> "recovered"
                [] OTHER -> "failed"
  IN  Notification(<<"CI", verb>>, p.link, IF verb = "failed" THEN 5 ELSE 3)

RunEvents == {"action_run_failure", "action_run_success", "action_run_recover"}
ObjectEvents == {"pull_request", "issues", "release"} \cup RunEvents

ReadGitea(p) ==
  CASE p.event \in ObjectEvents /\ ~p.present -> Generic(p)
    [] p.event = "push" -> ReadPush(p)
    [] p.event = "pull_request" /\ p.present -> ReadPullRequest(p)
    [] p.event = "issues" /\ p.present -> ReadIssue(p)
    [] p.event = "release" /\ p.present -> ReadRelease(p)
    [] p.event \in {"create", "delete"} -> ReadRef(p)
    [] p.event \in RunEvents /\ p.present -> ReadRun(p)
    [] OTHER -> Notification(<<p.event>>, <<p.event>>, 3)
================================================================================
