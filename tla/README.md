# Verification of tocsin

tocsin is an HTTP gateway that takes notifications in the formats of Gotify,
Alertmanager, Gitea/Forgejo, Slack and Grafana and delivers them to
end-to-end encrypted Matrix rooms. This directory holds TLA+ models of it,
the TLC configurations that check them on small instances, and proofs that
TLAPS checks for instances of any size. Every definition is translated from
the Go source; `PROJECT.json` ("map") gives the lines each one stands for.

## 1. The system

### Components, their state and their operations

| component | source | state | operations |
|---|---|---|---|
| outbox table | `internal/store/outbox.go` | rows of `outbox_entries`: status, attempts, next attempt, creation time, what to send | enqueue, record a synchronous send, read due rows, mark delivered / failed, reschedule, requeue, prune |
| alert-message table | `internal/store/alertmessage.go` | rows of `alert_messages`: room, fingerprint, announcing event | record, map, prune |
| dispatcher | `internal/outbox/outbox.go` | one goroutine; a kick channel of capacity one; the batch it is working on | `Run`, `drain`, `attempt`, `deliver`, `editTarget`, `prune`; `Enqueue` and `Kick` from any goroutine |
| ingest server | `internal/server/server.go` | none of its own | one handler per format: resolve the token, rate limit, parse, prefix, correlate, enqueue |
| ingest parsers | `internal/ingest/*` | none | payload to title, body, priority, fingerprints, chart target |
| rate limiter | `internal/server/ratelimit.go` | one token bucket per ingest token | `allow` |
| channels and tokens | `internal/store/store.go` | `channels`, `ingest_tokens` | create, update, delete, cascade for a room, resolve a presented token |
| admin API | `internal/api/api.go` | none of its own | RPCs over the stores and the bot: channels, tokens, rooms, test sends, retries, profile |
| admin sessions | `internal/api/auth.go`, `internal/store/admin.go` | the credential row; a cached copy behind a lock | seed, login, change password, verify a session |
| Matrix send path | `internal/matrix/bot.go` | none of its own | `Send`, `SendEdit`, `SendWithImage`, `retrySend`, `roomEncrypted` |
| key sharing | `internal/matrix/devicekeys.go`, `unwedge.go` | device lists and outbound megolm sessions of the crypto store | check the recipients before every encryption, drop unshared sessions, rotate sessions |
| bot identity | `internal/matrix/bot.go`, `verify.go` | cross-signing keys on the server, `recovery.key` on disk, keys in memory | `ensureVerified`, `bootstrapCrossSigning`, restore from the recovery key, reset |
| sync, health, membership | `internal/matrix/bot.go` | sync token and room states in the store; last sync time; the fatal-error channel | `Start`, first sync, handlers, fatal sync errors, `/health`, invites |
| interactive verification, chat commands | `internal/matrix/verification.go`, `commands.go` | transactions of the Matrix library | accept and confirm; `!notify` |
| charts | `internal/chart` | none | window, query, choice of series, drawing |
| process, configuration | `cmd/tocsin`, `internal/config` | none | start, wait for a signal, the HTTP servers or the sync to end, stop |

### How they interact

An ingest handler authenticates its token, builds an entry and calls
`Dispatcher.Enqueue`: one INSERT, then a non-blocking send on the kick
channel, then the answer 200. From there the entry belongs to the dispatcher:
its single goroutine reads a batch of due rows, attempts each in turn (edit
an earlier message, or post; then record which message announced which
alert; then update the row) and reads again until nothing is due. The admin
API writes the same table from its own goroutines: `RetryDelivery` requeues a
failed row and kicks, the test buttons send synchronously and insert a
terminal row. Nothing but the database survives a restart. Sends go through
the bot, whose crypto store and room state the sync goroutine updates at the
same time.

### What is hard

* interleavings of handlers, admin calls, tickers and the drain loop, which
  works from copies of rows up to 32 attempts old;
* a homeserver that is down, or that accepts a message whose answer is lost:
  the bot cannot tell the difference, and a retry uses a new transaction ID;
* database errors after a delivery, which are logged and passed over;
* SIGTERM or a crash between the answer of the homeserver and the UPDATE;
* retries that deliver entries out of order, while edits assume they are the
  newest rendering;
* device lists and room members that change between the check of the
  recipients and the encryption;
* a sync token that is saved before the events it covers are processed: a
  crash in between loses them, a restored database repeats them;
* a sync goroutine that runs every handler itself, so that whatever one waits
  for, /sync waits for;
* requests that meet at a rate limiter nobody has made yet;
* admin operations made of several statements, or of several systems, that
  stop halfway or interleave.

`PROJECT.json` ("hazards") lists each of them at its line, with the
properties that would catch it going wrong.

## 2. Plan

The order follows what a user of tocsin relies on most.

| step | subject | modules | state |
|---|---|---|---|
| 1 | the outbox: "accepted means delivered or visibly failed"; alerts and edits | `OutboxStore`, `AlertStore`, `Dispatcher`, abstract specification `DurableDelivery` | modelled, checked, proved but for liveness |
| 2 | the bot's identity across interrupted starts, losses and resets | `Identity` | modelled, checked, proved |
| 3 | the admin credential and its sessions | `AdminSessions` | modelled, checked, proved |
| 4 | key sharing: no message goes into a session nobody can read | `KeyShare` | modelled, checked, proved |
| 5 | routing: channels, tokens and cascades against the handlers that resolve a token in two reads; leaving a room | `Routing`, abstract specification `TokenRoutes` | modelled, checked, proved |
| 6 | sync and membership: the room state after a sync whose events were lost, invites, commands, verification, `/health`, the end of the process | `Sync` | modelled, checked, proved but for liveness |
| 7 | a request from its token to its entry, and the entry's text and chart | `Ingest` over `RateLimiter`, `AlertPayload`, `MessagePayload`, `Chart` | modelled, checked, proved |

Left for later: abstract specifications of what `AdminSessions` and `KeyShare`
promise, and the rewriting of aliases into room ids at startup.

## 3. The modules

### Outbox

`OutboxStore` and `AlertStore` are the two tables: one operator per method of
the store that writes, from table to table, each a single SQL statement and so
one atomic step. A row keeps `status`, `attempts`, `wait` (ticks until
`next_attempt_at`) and `age` (ticks since `created_at`); what to send is in
`notice`, since it is written once. Ages saturate at `AgeCap`, beyond which no
comparison in the code can change.

`Dispatcher` is the system around them. `Run` is one goroutine, so its position is
the variable `pc`; the actions are cut exactly where the code calls the
database or the homeserver, because anything else may happen there:

| code | actions |
|---|---|
| `Run`: first prune and drain, select on kick, poll and prune tickers | `Boot`, `Wake`, `Poll`, `PruneTick` |
| `drain`: SELECT the due rows, iterate over the copy, SELECT again, count | `ReadDue`, `ReadDueFails`, `NextEntry`, `CountPending` |
| `attempt` and `deliver`: edit or post, record the mappings, mark or settle | `BeginAttempt`, `SendEdit`, `Post`, `RecordMappings`, `MarkDelivered`, `Settle` |
| `Enqueue` (INSERT, then `Kick`), from a handler | `Enqueue`, `Kick` |
| `RetryDelivery`, test sends of the admin API | `RetryDelivery`, `TestSend` |
| the process dies and starts again | `Crash`, then `Boot` |
| time | `Tick` |

`batch` and `seen` are the copy of the rows the loop works from. `SendOutcome`
is what a send can come to, `retrySend` included: each of its `SendMaxAttempts`
tries is answered and ends the loop, arrives while its reply is lost, or does not
arrive, so that a send leaves up to three copies, with an event ID or without one.
Every lost reply is a fault. A room in `Unencrypted` refuses
every send. The environment's faults (`Hazards`) are charged to `MaxFaults`,
except outages, which are free. `timeline` is what people see: the messages of
the rooms with the entry that posted each and the entry whose rendering it
shows now.

`DurableDelivery` is the abstract specification: each notification goes
absent, pending, then delivered or failed; a failed one may be requeued; only
settled ones are forgotten. It knows nothing of batches, kicks or messages.
`DispatcherProperties` states the properties, `MCDispatcher` the values for TLC.

### Identity

`Identity` is `ensureVerified` as one start after the other executes it, over
the places an identity lives in: public keys (`master`) and encrypted private
keys (`secrets`) on the homeserver, the device's signature (`signed`), the file
`recovery.key` (`disk`) and the process (`mem`). An identity is a number; a
recovery key has the number of the identity it unlocks; a half-written file is
`Torn`, because `os.WriteFile` truncates before it writes. The steps of
`bootstrapCrossSigning` (generate and upload, sign, truncate, write) are actions
of their own, and `Stop` may follow any of them: an error of a call and a crash
leave the same behind. `GeneratePartly` is an upload that got only half way.
Between starts the environment loses the database or the data directory,
restores an old key file, replaces the identity from another session (never
during a start) or wipes the server.

### Admin sessions

`AdminSessions` has the credential row, the cached copy `cred` and concurrent
calls. A password and a signing secret are a number or a model value each;
`tokens` holds the secrets that ever signed a session, `retired` those of
sessions a password change ended. `Login` compares and leaves the lock, `Mint`
reads the cache again: two actions, as in the code. `Change` compares, then
`Update` commits, then `Publish` writes the cache; `UpdateLost` is a commit whose
answer is lost. `Boot` seeds the row when there is none and fills the cache.

### Key sharing

`KeyShare` is one room. Each send (`Senders`; those in `Commands` answer chat
commands and may run before startup has finished) runs `ensureRecipientKeys`
and then `Encrypt`:

| code | actions |
|---|---|
| read the members, read their device lists | `Begin`, `ReadDevices` |
| query the devices of those with no usable key; read again | `Query`, `Refuse` |
| `dropUnsharedSession`: look at the stored session, remove it | `Inspect`, `Discard` |
| the library: encrypt, or share a new session and encrypt | `Encrypt`, `Share`, `End` |
| `Start` rotates all sessions; `tocsin unwedge` deletes them | `Rotate`, `LoseSession` |
| `/sync`: device lists, joins; devices log in and out; restart | `SyncDevices`, `SyncMember`, `Login`, `Logout`, `Restart` |

A session keeps the devices that received its key. `MayInvalidate` is the
library's choice to drop the room's session when a device list changes.
`targets`, `born` and `steady` are history: the device lists shared with, the
sessions older than the send, and the devices logged in all along.

### Routing

`Routing` has the tables `channels` and `ingest_tokens`, the admin calls that
change them and the handlers that resolve a token while they do. A channel
keeps its id, name and room; a token its id (which stands for the secret), name,
kind, channel and expiry. A transaction is one step; what runs outside one is
one step per statement:

| code | actions |
|---|---|
| `CreateChannel`, `DeleteChannel`, `UpdateToken`, `DeleteToken` | actions of the same names |
| `LeaveRoom` of the admin API: delete the channels, leave the room or fail | `DeleteChannelsForRoom`, `LeaveRoom` |
| an accepted invite | `JoinRoom` |
| `CreateToken`: read the channel, insert the token or fail | `CreateToken`, `InsertToken`, `CreateTokenFails` |
| `ResolveToken`: SELECT the token, SELECT its channel (Preload), check kind and expiry; then queue the entry, or answer an error | `FindToken`, `Preload`, `Queue`, `Answer` |
| time | `Tick` |

`CreateToken` hands the channel it read to gorm's `Create` together with the
token (`store.go:240`), and gorm saves it first: `Restored` is the channel that
comes back if it was deleted meanwhile. `grant`, `emptied` and `removed` are
history: the room a request was entitled to when its token was looked up, the
newest channel at the time of a `LeaveRoom`, and the ids that were ever deleted.

`TokenRoutes` is the abstract specification: tokens lead to rooms. A token is
issued once and is redirected or revoked alone, a room is evacuated, and a
request that shows a token is sent where it led at that moment, or nowhere. It has
no channels, no transactions and no two reads. `RoutesKept` maps the tables to
it: a token leads to the room of its channel, or would lead to "no room", which
`TokenRoutes` never does, if it had none.

### Sync

`Sync` is the process from its start to its end, its connection to the
homeserver and the sends of its two senders, the dispatcher and the command
handler. `events` is everything the account was ever sent; `saved` is the token
in the database, which says how many of them a response has covered; `known` is
what the state store believes to be encrypted. Three goroutines have a position of
their own (`pc`, `loop`, `sender`); `lock` is that of the verification helper.

| code | actions |
|---|---|
| `New`, `Start` up to the `go` statement, the wait for the first sync, `ensureVerified`, `run` | `Boot`, `FirstSync` or `FirstSyncFails`, `Ready` or `NotVerified` |
| `run` learns of a fatal sync error; a signal or a crash | `SyncDied`; `Crash` |
| the library's loop: a response, a fatal error, the end of a response | `SyncResponse`, `SyncEnds`, `Processed` |
| the handlers, one event at a time | `StoreState`, `HandleMember`, `HandleMessage` and `Replied`, `HandleVerification` and `CallbackReturns` |
| the goroutines the verification callbacks start | `CallHelper`, `HelperReturns` |
| `Send` and `roomEncrypted`: ask the store, fetch the state, ask again; transmit or give up | `Deliver`, then `CheckRoom` or `StoreFails`, `RefetchState` or `RefetchFails`, `RecheckRoom`, `Transmit` or `GiveUp` |
| `lastSyncUnix` growing old; `/health` | `Tick`; the predicate `Healthy` |
| people and the homeserver | `Invite`, `Remove`, `Encrypt`, `Write`, `Verify`, `Outage`, `Revoke` |
| an earlier database is put back | `Restore` |
| the bot's identity is lost, or the operator repairs it | `LoseIdentity`, `RepairIdentity` |

`identity` is what `ensureVerified` will find, `Identity`'s state boiled down to its
three answers: a bootstrap is due (`none`), the device is or can be verified
(`kept`), or the start is refused with the homeserver up, now and every time
(`lost`, `bot.go:469-494`). A process that ends in its first bootstrap may
leave any of them behind (`Stop`), so a crash alone can make the bot refuse to
start until the operator steps in.

`CallbackDone` is what a verification callback waits for before it returns:
nothing, since it starts a goroutine for what it must call. A mutant that makes
it call the helper itself stops the loop for good, as `verification.go:65-69`
warns. `runs`, `invited` and the `excused` of a sender are history.

### Ingest

`Ingest` follows a request whose token was resolved: `Resolve`, `AskLimiter` (the
map of limiters, under its mutex), `Pass` or `Throttle` (the bucket, after the mutex
was released), then `Queue` or `Refuse`. `Queue` makes the whole entry: `Read`
parses one of the six formats, `Prefixed` adds the token's prefix, `Target` chooses
the alert to chart, `Correlated` the fingerprints. `Draw` is what the dispatcher
makes of the entry when it delivers it, with whatever Prometheus answers.

`RateLimiter` holds the limiters; `AlertPayload` the formats made of alerts
(Alertmanager, Grafana), `MessagePayload` the others (Gotify, Slack, Gitea with
Forgejo), `Chart` the window of a chart, its series and its columns. Texts are
sequences of words: a title, a body or a prefix is present or not, and what it
consists of can be traced. A loop that carries a value from one alert to the
next is a recursive function of the index, and the sorting of the series an order
of them (`Orders`) in which each comes where `InOrder` puts it. `queued` and
`drawn` keep what the last step made, and from what; `passed` and `ledger` are history. `Ingest` and `Dispatcher` meet
at the entry: what `Ingest` puts into it, `Dispatcher` has as `notice`.

## 4. What TLC checks

| run | what is asked | instance | distinct states |
|---|---|---|---|
| `queue` | is the batch ever stale, a wake-up lost, a delivered entry sent again, the promise broken? | 3 entries, batch of 2, retries, outages, 1 fault of any kind | 1,077,966 |
| `faults` | does each duplicate cost a fault? does every entry settle? | 2 entries, a room that refuses, retries, test sends, 2 faults, fair | 323,111 |
| `alerts` | is every firing alert posted, in order, and edits aimed at the newest message? | 3 notifications of a group of 2 alerts, outages | 2,037,263 |
| `alerts_rooms` | do mappings and edits keep to their room and to text messages? | 2 rooms, charts, 1 fault of any kind | 2,498,357 |
| `identity` | is the identity kept, verified and recoverable? | 4 identities, all five events | 6,554 |
| `sessions` | does the cache follow the row, and logged out stay logged out? | 3 calls, 4 secrets, lost answers, deleted row | 126,968 |
| `keyshare` | is an unreadable session reused, a member overlooked, an old session used? | 2 sends, 2 users, 3 devices, 3 sessions, 2 logins | 4,767,478 |
| `routing` | does a token lead where it should, each request to its room, are left rooms unbound? | 2 rooms, 2 names, 2 channels, 2 tokens of one name, 1 request, 1 token creation | 982,560 |
| `sync` | is anything sent in the clear, refused without cause, run twice, joined on a stranger's word? does `/health` tell? | 1 room, 2 servers, 2 bodies, 3 events, 1 fault, stale after any tick, fair | 901,740 |
| `ingest` | is a rate budget exceeded? does the entry say what its payload says? does the chart show the onset? | 2 requests, 2 tokens, all six formats, groups of up to 2 alerts, 1 tick, burst 1 | 64,496 |

Two more runs, `doc_refire` and `doc_chart`, end in a violation on purpose; see
section 7.

**Why the bounds are enough.** Every hazard of the queue needs at most: an entry
in the batch, one the operator requeues meanwhile, and one that arrives after
the SELECT. That is three entries with a batch of two, and the batch is then
smaller than the table, so a drain reads twice. `BackoffCap` above `BackoffBase`
but below its double makes the cap bite; `MaxPendingAge` lets an entry fail. One
handler between commit and kick suffices, as a second kick changes nothing in a
channel of capacity one. Two faults allow a duplicate of a duplicate, and
two lost replies within one send; the third is the proof's. Alerts
need a group of two, as a mapping is consulted by the whole group, and three
notifications (announce, resolve, fire again). Four identities allow one, a
replacement from elsewhere, a reset and a second reset. Two password changes can
overlap and a third call can log in meanwhile. Two sends race in every way the
store distinguishes (which of them inspects, discards, shares); three sessions
allow one left over, one dropped and a new one. In `routing`, requests write
nothing another reads, and neither do two token creations before they insert, so
one of each meets every interleaving with the administration; two channel names
allow a token to be rebound and a name to be given away, two tokens allow one to
be created while a request still holds the first, and one tick lets a token
expire. The tokens are of one kind (`Kinds`) and two endpoints are asked, so
that a request may come to the wrong one. The two tokens share a name and exist one
after the other: that the administration of one leaves another alone is
`RoutesAreKept`'s to say, for any number. One `LeaveRoom` runs at a time. Rooms
and names are interchangeable, hence the symmetry. In `sync`, rooms do not interact but
through the order of events, so one room is enough; three events are an invite
that was overtaken by another and what follows the join, or a command, the bot's
own echo and a state event; the events a join brings are not counted. One fault
is a crash at any point, a revoked token, a restored database, a lost identity or
a failed read of the state store. A stale
threshold of no tick separates fresh, stale and never synced; how many ticks are
fresh changes nothing else. In `ingest`, two
requests race for one limiter or use two; one tick fills a bucket of one, and a
period longer than a tick is the proof's; two alerts show every order of status
and severity, with and without a name, a fingerprint and a chart. Answers have
two series, or three where only `MaxSeries` of them are drawn. The requests are
interchangeable. The proofs of section 5 make the safety part independent of
these bounds.

**Fairness.** `FairSpec` of `Dispatcher` (run `faults`) assumes weak fairness of
the dispatcher's own steps (a goroutine that can run does), of handlers reaching
their `Kick`, of the poll ticker and of time. It assumes nothing of the
homeserver, which may refuse for ever, of the operator, of requests or of
faults. Faults are finite (`MaxFaults`): a database that fails for ever keeps an
entry pending for ever, and rightly so. Retries are not bounded by a budget, but
`EveryEntrySettles` only says that each pending period ends.

`Sync` assumes weak fairness of the main goroutine and of the supervisor that
restarts the process, of the sync goroutine, of the goroutines of the
verification callbacks, of each send and of the clock: each is a goroutine, or a
process under a restart policy. The homeserver may come and go as it likes, for
ever; `HealthFollowsSync` speaks of the cases that it stays up or stays away. That
it stays up is not enough for a green `/health`: the identity must also be
usable from some moment on, because it was never lost or because the operator
repaired it (`RepairIdentity` is not fair: nobody has to). Without that
condition the property is false of the code, and after a single crash.
`Ingest` has no liveness and no fairness; a handler may always stop there.

`CHECK_DEADLOCK` is on everywhere.

## 5. What is proved

All for any value of the constants that satisfies the named assumptions:
`BoundsAssumption`, `TimingAssumption`, `BatchAssumption`,
`EnvironmentAssumption` (types only), `IdentityAssumption`,
`SessionsAssumption`, `KeyShareAssumption` (the users' devices are disjoint),
`RoutingAssumption` (the values that stand for "no room" and "any endpoint" are
not rooms or endpoints), `SyncAssumption` (the bot's own server is one, and so
are the allowed ones), `RateAssumption`, `ChartAssumption`,
`PayloadAssumption` and `PrefixAssumption` (types only), and
`AnswerAssumption` (types, and the series of an answer of Prometheus have
distinct labels).

**`LeastNumber`** holds what the proofs know of numbers: a set of them has a least
element, what holds at 0 and is handed on holds up to n (`UpTo`), a loop has its
values (`LoopValues`, `EndlessLoopValues`), a function on 1..n a first largest
value. The library's induction theorems take an operator, which the provers
cannot instantiate; these take a set and a function. The least element comes
from the library's theorem that strict inclusion of finite sets is well founded,
and the others from it. A recursive function of a model is `CHOOSE f : f = ...`:
the proofs first show that there is such a function, then use its equation.

**`DispatcherProofs`.** `TypeCorrect` first. `SnapshotsFresh` and `NoLostWakeup`
are not inductive: a batch must be known to exist only while its entries are
attempted (`BatchInPlace`), and a row no attempt has been recorded for must be
due (`FreshIsDue`), else the SELECT that finds nothing would prove nothing.
`QueueInv` is the conjunction of the four. The step "the SELECT found nothing,
so no fresh row exists" needs that a non-empty set of due ids has a least
element, which is within the batch limit.
`SnapshotsFresh` holds because only `failed` rows can be requeued and only
settled ones pruned, so nobody but the dispatcher touches a pending row.
`ImplementsPromise` maps every step to one of `DurableDelivery` or a stutter,
and `DeliveredNotResent` follows from the freshness of the batch.

The alert messages need a second invariant, `AlertsInv`: who posted a message is
an entry that exists (`PostedRows`), a target that an edit is about to change
announced everything the entry fires (`EditSound`), an event about to be recorded
is a text message that announced it (`RecordSound`), and an entry about to be marked
delivered has been announced (`SuccessAnnounced`). `MappingsAreSound`,
`EditsPingNobody` and `DeliveredMeansPosted` are its conjuncts; every way a
send can end is a case of its own. `FirstComeFirstServed` needs that ids are
handed out in order (`AbsentAbove`) and that of two entries without an attempt the
elder is in the batch whenever the younger is (`BatchInOrder`).

`DuplicatesArePaidFor` is an account. An entry that has posted and may post again
(pending, or failed and to be requeued) owes; `DuplicatesInv` says that the
messages and the entries that owe are at most the entries that posted and the
faults. A post of an entry that posted before takes its debt off and adds a message;
every way into debt has cost a fault. What a send costs is a lemma about
`SendOutcome` (`AnswerCost`): however many tries `retrySend` makes, the copies
are its lost replies and, if there is an event ID, one more. The proof follows both sets
through every action with the library's theorems on cardinality.

`BackoffDoublesAndCaps` says what the loop of `backoff` computes, for any base
above zero and any cap: the first delay is the base, each later one twice the one before, none is above the cap, which
is reached for good; and the value being doubled stays below twice the cap, so a
`time.Duration` does not overflow however often an entry is attempted.

`EditsMoveForward` needs that what a message shows is older than any entry
attempted for the first time (`ShownInOrder`). `EditsFindNewest` needs that a
mapping names the newest announcement but for the event that is being recorded
(`MappedNewest`), that nothing but test messages follows the message about to be
recorded (`RecordTail`), and that an edit's target is the message its alerts are
mapped to (`OneTarget`). Both hold as long as nothing fails: a mapping that
could not be written, and an image, are why the conditions are there.

**`IdentityProofs`.** `RecoverableUnlessMishap` is strengthened with
`Numbered` (numbers in use were minted), `SecretsArePublished` (a key that was
once on disk and unlocks the stored secrets unlocks the published ones: the
secrets of an interrupted bootstrap fit no key anybody has) and `StartInPlace`
(where a start stands tells what it has established). The action properties
follow from that invariant, action by action.

**`AdminSessionsProofs`.** `SessionsInv` adds to the two properties: what a call
holds is real and was generated, a process that is down has no call under way,
the row is held by whoever committed it last, and no secret still cached or
stored has been retired.

**`KeyShareProofs`.** `KeyShareInv` adds that the store remembers who it has
heard of (`Remembered`), that sessions are numbered (`Numbered`), that a stored
session which somebody inspected and kept reached a device that send knew of
(`StoredIsReadable`), that the lists a send shares with contain the steady
devices (`ListsFilled`), and that a rotated store holds sessions of this run
(`Rotated`). The number of sends that race is arbitrary.

**`RoutingProofs`.** `RoutingInv` adds to the four properties that an id is
one channel's (`OneChannel`), counting the channels that a `CreateToken` call
has read and may bring back (`Known`); that what is known and not in the table
was deleted (`Gone`); that a room's channels are younger than its last departure
or were brought back (`Emptied`); and what a request knows between its two reads
(`HasToken`, `LookedUp`, `Resolved`): the room it was granted is that of every
channel that has, had or may again have the id it is about to look up. The
number of requests and of token creations is arbitrary.

`RoutesAreKept` is the refinement of `TokenRoutes`. It adds that an id is one
token's (`OneToken`) and that an idle handler holds nothing (`IdleIsEmpty`). A
step that keeps the tokens and the channels in use is a stutter, whatever it does to
other channels (`NothingPromised`); the token that `InsertToken` adds leads
to the room of the channel that is in the table by then, read or brought back;
and `LeaveRoom` deletes exactly the tokens that led to the room, because an id is
one channel's.

**`SyncProofs`.** `SyncInv` adds to the four properties: a process that is down has
nothing running (`Stopped`), the helper is called by somebody (`HelperInPlace`),
the state store and the state events never call a room encrypted that is not
(`StoreSound`), the invite events are of people who invited (`InvitesRecorded`), an
event younger than the process whose command was run lies behind the loop
(`RunsBehind`, which is why a restored token runs no command again: only
a new process moves the loop back, and nothing is recent to it), and a sender that
was told to fetch the state has its excuse or finds the room in the store
(`SendersInPlace`). The number of rooms, servers, events and faults is
arbitrary.

**`IngestProofs`.** First `BudgetKept`, for any rate and burst. The argument is a
potential: for every earlier moment, what has passed since and what the bucket still
holds is at most the burst and what the time since earned (`Budget`); a request
moves one from the bucket to what has passed, a tick adds at most what it earns. It
needs that a name has one bucket and a bucket one name (`OwnBuckets`), which is
what the mutex is for, that a request between its two steps holds the bucket of its
name (`HeldBuckets`), and that a bucket is neither overdrawn nor overfull
(`LevelsFit`).

`EntriesAreFaithful` speaks of every payload of every format, with any number of
alerts or blocks. `QueuedInv` says that the last entry was read from a payload
of the instance: what is left is what the parsers compute. The loop over
the alerts keeps the most severe priority so far (`PriorityIsSeverity`) and the
fingerprints in order of appearance (`FingerprintsAre`); the first alert with a
chart is the target (`TargetIs`); a Slack body is the concatenation of its
blocks and never empty (`SlackBodyIsList`, `AcceptedHasText`).

`ChartsAreFaithful` speaks of every answer. `DrawnInv` says what the last chart was
drawn from. The window reaches back to the onset (`WindowReachesOnset`); the
step, a rounded quotient, is long enough for the number of points
(`StepIsLong`, `FewPoints`); an order of the series by label exists, since the
place of a series among distinct labels is the number of those before it
(`OrderExists`), and it is the same whatever order Prometheus answered in
(`OrderIsByLabel`, `RankIs`); each column that is drawn is a sample of its series and
none of a shown series is cut off (`RowsAre`, `SeriesAre`).

## 6. What is only model-checked

`EveryEntrySettles` and `HealthFollowsSync`: they are liveness under fairness,
which is beyond the proof system. Every other property of a passing run is
stated by a theorem.

## 7. Where the documentation says something else

Runs that end in a violation show the code doing other than a comment or the
README says:

* `doc_refire`: "mappings die by being re-pointed (alert fires again)"
  (`alertmessage.go:44-45`), a new firing alert "always posts fresh". If an
  alert fires again in the payload that resolves another of its group, both are
  mapped and the message is edited: nobody is pinged.
* `doc_chart`: "Misaligned series lengths (scrape gaps) must not panic or skew
  columns" (`chart_more_test.go:82`). `Render` fills the row of each series by
  index from the left (`chart.go:173-184`). Prometheus leaves the points of a
  gap out, so a series that began late, or missed a scrape, is drawn too far to
  the left. The test pads a series that ends early, the one case where nothing
  moves.

Noted while modelling, without a run:

* The recovery key is "persisted in the data dir on first generation"
  (`bot.go:438-439`). A stop between signing the device and writing the file
  leaves a bot that runs and cannot be recovered; the next start only warns.
  `RecoverableUnlessMishap` counts such a stop as a mishap. A stop before the
  signature leaves keys that nothing unlocks, and every start is refused.
* "The database is the source of truth" (`admin.go:14-16`). Of two overlapping
  password changes the first to commit may be the last to publish, and the cache
  differs from the row until the next start or change. `CacheFollowsRow` and
  `RevokedStaysRevoked` set overlapping changes aside.
* "Channels bound to the room and their tokens are deleted first"
  (`api.go:149-151`). A `CreateToken` that read its channel before the deletion
  and inserts after it puts the channel back, with its old id
  (`store.go:240-243`): the room that was left is bound again.
  `LeftRoomsAreUnbound` shows that this is the only way for an older channel, and
  `RoutesKept` that no other token is rerouted by it.
* "Entries that fail are rescheduled into the future, so the loop terminates"
  (`outbox.go:108-109`): an entry whose UPDATE fails stays due and is attempted
  again at once; if the message had been posted, it is posted again.
* A login whose comparison began before a password change mints a session with
  the secret of after it (`auth.go:79`): whoever knew the old password is in.
* `RequeueOutbox` keeps `created_at`, so an entry older than 24 hours that is
  retried by hand fails for good at its first error (`store/outbox.go:127-143`).
* An alert announced with an image is not mapped; if an older text message still
  is, the resolution edits that one (`outbox.go:190-194`), while README:23-24
  says it is posted as a new message.
* A mapping that could not be written leaves the older one in place, and the
  resolution edits the older message (`outbox.go:203-206`).
* An entry that failed once and is retried after a newer one of its group puts
  the older rendering back (`outbox.go:216-218`); `StaleOnlyAfterRetry` shows
  that this is the only way.
* More than 32 old entries that are due at every SELECT would keep newer ones
  out of the batch (`store/outbox.go:79`).
* A send can reach nobody although the recipients were checked
  (`bot.go:146-148`): the device list may change between the check and the
  encryption, and key claims may fail. `ReadableOrFresh` shows that the damage
  stays with sends under way: the next one discards the session.
* README:94-95 says that sending to an unencrypted room is "refused permanently,
  not retried": `retrySend` is indeed skipped, but the dispatcher attempts the
  entry again after every backoff until it is 24 hours old (`bot.go:681-683`,
  `outbox.go:151-152`).
* `ResolveToken` promises the token "with its channel preloaded"
  (`store.go:270`). If the channel is deleted between the two SELECTs the
  channel is empty, and the entry is queued for room "" (`store.go:274`);
  `RoutedByItsToken` shows that it never goes to another room.
* An alert without a fingerprint is invisible to `editTarget`: a payload in
  which it fires for the first time is folded into an edit if it also resolves a
  known alert and the others are mapped to the same message, although "a new
  alert always posts" (`server.go:163`).
* Mappings are pruned by age while their alert still fires (`outbox.go:280`):
  its resolution is then a message of its own.
* A stale invite from a server that is not allowed makes `handleMember` leave a
  room that the bot joined on a trusted invite meanwhile, or decline that invite
  (`bot.go:603-607`). `JoinsTrustedRooms` is the other half: it never joins on
  the wrong word.
* An invite whose join fails, or is lost to a crash after the token was saved,
  is not handled again (`bot.go:594`); somebody has to invite the bot once more.
* The rate budget is spent by requests that do not parse, since the limiter
  comes before the payload, and a restart refills it (`ratelimit.go`).
* `dropUnsharedSession` removes whatever session the room has by then, which may
  be a healthy one of another send (`devicekeys.go:133`). It costs one more
  share and no message.

## 8. What is not modelled, and what is assumed

Not modelled, and why:

* generated code (`gen/`, more than a third of the Go lines), the test client
  (`dev/cmdclient`), the UI, the configuration, logging and metrics: they keep
  no state another component depends on;
* wording, links, ages and values of the messages, the HTML rendering, the
  drawing of a chart and the upload of its image: no property is about them;
* HTTP transport, cookies, the expiry of an admin session, `last_used_at`, the
  list calls and the output of the one-shot commands: they read, or write what
  nothing else reads;
* the rewriting of aliases into room ids at startup;
* verification transactions and the token bucket: they belong to libraries, and
  are modelled only from how the code uses them.

Assumed of what is not under `src/`:

* a SQL statement is atomic, and rows survive a crash once committed; a
  transaction of the store is one step, as SQLite has one writer and on Postgres
  the unique indexes and the foreign key let only one of two conflicting
  transactions commit; an autoincrement id is never handed out twice;
* gorm's `Preload` is a second SELECT and leaves the zero value where it finds
  nothing; its `Create` saves the associated struct first, with ON CONFLICT DO
  NOTHING, in the same transaction;
* the homeserver orders a room's messages as it accepts them;
* the Matrix library uploads private cross-signing keys before it publishes
  the public ones, encrypts and shares under its own lock, records the devices a
  session reached together with the session, marks it shared even if that was
  nobody, and treats an expired session as none;
* the library saves the token of a /sync response before it processes it, runs
  the handlers on the goroutine that syncs, and retries every error but an unknown
  token;
* a homeserver that is up answers the first sync within 30 seconds, and its clock
  agrees with the bot's;
* x/time/rate's bucket fills with time up to its burst and is asked under a
  lock of its own;
* Prometheus evaluates a range query at the points of the range, in order, and
  leaves out those without a value; the series of an answer differ in their
  labels, and `labelString` keeps them apart (it would not for the one series
  without labels and one named `value`; of equal labels, `sort.Slice` may put
  either first);
* another client resets the identity only while no start of the bot is under way.

Simplified in the models: a test send of the admin API and the INSERT of its
outcome (`api.go:288-308`) are one step, so a crash between them, which leaves a
message without a history row, is left out; `InsertToken` takes an expiry that is
not past when the token is inserted, while `api.go:227` compares it a moment
before; `Sync` heeds a command in a message of any type (`commands.go:52` asks for
m.text), which adds behaviours and hides none.

In `KeyShare` members only join: a member who left keeps nothing from others.
Time is discrete, and a tick may pass between any two steps.
