# LibreDesk in TLA+

LibreDesk (`src/`) is a support desk written in Go: customers write by e-mail or
live chat, agents answer from a web application. One server process holds many
goroutines (pollers, worker pools, tickers, websocket readers and writers, HTTP
handlers) that share PostgreSQL, Redis and in-memory maps, caches and channels.
Single statements are atomic in the database; almost nothing else is. This
directory specifies the parts of the server whose correctness depends on the order
in which those goroutines take their steps.

## 1. Inventory

Every component is listed with its status in `PROJECT.json`. Those that keep
state which others change concurrently are these.

| component | state | operations | interacts with | what is hard | what makes it correct |
|---|---|---|---|---|---|
| outgoing messages (`conversation/message.go`) | rows with a status, map of ids in flight, bounded channel | store a reply, scan, push, send, store the outcome, stamp the conversation, retry | inbox channels, SLA, automation, shutdown | the scan selects rows that are still in flight; crash between send and status write; stale retries; full channel | nothing is sent twice without a reason, nothing is lost, the map is exact |
| automatic assignment (`autoassigner`) | a rotation of agents per team | reload the rotations, list unassigned conversations, count, claim | teams, users, conversations | everything read at the start of a sweep is stale when used | limits hold, only eligible agents are chosen, nothing is taken from people, no starvation |
| shutdown (`cmd/main.go` and every `Close`) | locks, closed flags, channels, wait groups | signal, close one after the other | all worker pools call each other | a `Close` waits under a lock its workers want; senders without lock | no send on a closed channel, what is closed is quiet, every `Close` returns |
| agent cache (`user/agent.go`) | record per agent with epoch and generation | load, store, invalidate; ping, availability, edit, role update, sweep | database, websocket clients, HTTP handlers | a load that straddles an invalidation; read-check-write handlers | an outdated entry is about to be invalidated; a handler reads its write |
| inbox manager (`inbox/inbox.go`) | inbox and receiver per id, wait group | reload, start, close | handlers, IMAP receivers | two reloads of one inbox | one receiver per inbox, all gone after `Close` |
| websocket hub (`ws`) | clients per user, subscriptions both ways | connect, serve, listen, subscribe, kick, broadcast, disconnect | sessions, conversations | reader, writer and hub goroutines end in any order; a full send buffer | both maps agree, the dead leave no trace, revoked sessions are closed |
| live chat (`inbox/channel/livechat`) | connections per contact | connect, replace, send, disconnect | outgoing messages | same as the hub | messages reach every live connection |
| e-mail receiving (`email/imap.go`) | cursor over a mailbox | search window, fetch, enqueue | incoming messages | mailbox changes between searches, full queue | no mail is skipped |
| incoming messages (`conversation/message.go`) | bounded channel | enqueue, deduplicate, thread, insert, reopen | IMAP, widget, status | check-then-insert by several workers | each mail once, replies reopen |
| status, snooze, surveys (`conversation.go`, `unsnoozer.go`) | category, snooze time, survey row | set status, unsnooze, reopen, survey | automation, SLA | status read, compared and written in several statements | the history agrees with the row, a survey is sent once |
| continuity (`continuity.go`) | times a visitor was mailed | find unread, mail, mark | live chat, outgoing | mail sent, marking fails | unread messages are mailed, not twice |
| sla (`sla`) | deadlines, events, breaches | apply, evaluate, next response | replies, status | evaluation of rows read earlier, partial failures | a terminal status is right and final |
| automation rules (`automation`) | rule cache, task channel | reload, evaluate, act | conversations | events dropped, rules unavailable | evaluation order and matching as configured |
| media (`media/media.go`) | objects in a store, rows in the database, quotas | upload, thumbnail, take back, attach, merge owners, collect | messages, users, visitors | no transaction spans store and database; quotas of several owners; a stale list of the collector | quotas hold, no object is unknown, what a message shows is stored |
| users, contacts, visitors (`user`, `cmd/chat.go`, `cmd/widget_middleware.go`) | rows of users, widget sessions in Redis | visit, exchange, merge, upgrade, ticket, mail, register, verify, edit, block, log out | conversations, messages | a request reads a user, and others merge, upgrade, edit or block it before it writes; addresses are compared with and without regard to case | messages are their sender's, persons are not mixed up, merges lose nothing, the blocked are silent |
| notifications, webhooks | bounded channels | enqueue, deliver, drop | everything | full channel, shutdown | only the shutdown |
| importer (`importer`) | status and log of one job | start, read status | handlers | job and readers share a record | one job at a time |

The others (settings, templates, macros, views, tags, search, reports, roles as
tables, authentication, rate limits, AI, migrations, helpers, HTTP wiring,
frontend) are single statements, I/O, pure functions or wiring; the reason for each
is in `PROJECT.json`. Where the code is exposed to each kind of difficulty, with
its line and the properties that watch it, is listed there under `hazards`.

## 2. Modules and plan

Done:

| module | models | with |
|---|---|---|
| `Delivery` | the promise of the outgoing side: a reply is attempted and settled; a further attempt needs a reason | abstract |
| `Outgoing` | the outgoing pipeline, implements `Delivery` | `MCOutgoing`, `OutgoingProofs` |
| `Assignment` | engine, people, teams and moves of conversations | `MCAssignment`, `CapacityProofs` |
| `Shutdown` | main, closers, pools, callers, tickers | `MCShutdown`, `ChannelProofs` |
| `AgentCache` | cache, its readers and all writers behind it | `MCAgentCache`, `AgentCacheProofs` |
| `Sla` | applied SLAs of a conversation, their evaluator, replies, resolutions, replacements | `MCSla`, `SlaProofs` |
| `Inboxes` | the row of an inbox, its instances and receivers, reloads, token refresh, start and close | `MCInboxes`, `InboxesProofs` |
| `Incoming` | IMAP pollers, the incoming queue, the workers that thread and insert | `MCIncoming`, `IncomingProofs` |
| `Conversation` | status, snooze, unsnoozer, survey, next-response events | `MCConversation`, `CustomerProofs` |
| `WsHub` | the agents' websockets: hub, readers, writers, broadcasts | part of `Sockets` |
| `LiveChat` | the visitors' websockets and the live chat instance | part of `Sockets` |
| `Sockets` | both together: what agents type reaches visitors and the reverse | `MCSockets`, `ChannelProofs` |
| `Media` | stored files, quotas, attachments, merge of owners, collector | `MCMedia`, `CapacityProofs` |
| `Contacts` | visitors, contacts, widget sessions and what they write | `MCContacts`, `CustomerProofs` |

`Sockets` extends `WsHub` and `LiveChat`: an action of the one leaves the variables of
the other alone, and the senders of the live chat are the readers of the hub, the
pushers of the hub the handlers of the visitors' connections. The other modules share
no variables. Where one needs another its effect is an action that may happen: a
worker's task in `Shutdown`, the reopening by a message in `Conversation`, the merge of
two owners in `Media`.

Planned, in this order:

1. `Continuity`: the unread messages of a live chat, the mail and the two marks, against
   the contact's reading and the merge of visitors. Abstract specification: a message is
   mailed once unless a mark failed.
2. `Importer`: one job, its log and its readers.
3. `SlaCalculator`: the deadline over business hours and holidays as a recursive function,
   against a minute-by-minute definition, over bounded weeks; `Conversation` and `Sla`
   take any deadline and need no change.
4. `RuleEvaluator`: groups, conditions and execution modes of automation rules.
5. An abstract specification each for `Incoming` (a mailbox whose mails become messages of
   conversations) and `AgentCache` (a register that answers with the latest value), with
   the proofs that they are implemented.

Each module takes its sets and bounds as CONSTANTS with one named assumption, has
one action per database statement, lock section or channel operation, and keeps its
inductive invariant, where it is proved, as a conjunction of named parts. No module
declares a RECURSIVE operator.

## 3. How the modules correspond to the code

The `map` of `PROJECT.json` gives source lines for every definition. In short:

**Outgoing.** `status` is the column of `conversation_messages`; `processing` is the
`sync.Map` `outgoingProcessingMessages`; `queue` is the channel. The scanner's loop is
five places: read the map (`ScanTick`), query (`ScanQuery`), record one id
(`ScanStore`), push it (`ScanPush`), stop. A worker receives, gets an answer from the
transport (accepted, refused, or refused though taken), stores the outcome (which may
fail), stamps the conversation if an agent wrote the reply, and deletes the id. A
retry is a check and a write, by any number of requests. `Crash`, `ScanPanics` and
`Exit` lose everything but the rows; `Restart` begins again. `sends` and `reasons` are
histories: how often the transport took a reply, and how often a retry, a lost status
write or a death gave cause for another attempt. Under the mapping "attempted while
somebody holds an answer that is not stored" the pipeline implements `Delivery`.

**Assignment.** `team`, `agent`, `status`, `member`, `available` and `roundRobin` are
columns. `pool` is the balancer's rotation (the external library is modelled as its use
needs: `Get` moves the head to the end). A conversation begins open or
resolved. A sweep is `Tick`, `LoadTeam` for every
round-robin team, `List`, and per conversation as many of `Get`, `Count`, `Claim` as the
rotation has agents. Each may fail where its statement may. People act between any two
steps. A move to another team is four statements of a request. `given`, `fresh`,
`loaded`, `manual` and `claimedFor` are histories for the properties.

**Shutdown.** Four components have the same shape (channel, workers, lock, flag) and
differ in whether callers share the lock; `Order` is the order of `main.go`. A worker's
task may call any component in `Callees`, which the MC module sets to the calls the
code makes. `CloseLocks`, `CloseMarks`, `CloseWaits` are the three stages of every
`Close`. The automation ticker and the autoassigner's `Run` are goroutines of their own.

**AgentCache.** A record is the availability and an edition number that every change
raises, so "older" is meaningful. `cache`, `epoch`, `generation` are the fields of the
manager. The readers' path (`Hit`, `Miss`, `Load`, `Store`) is shared by all handlers;
`then` says where a handler goes on with the record. Writers: availability (user or
idle detection), admin edit (load, write, invalidate, teams, load, invalidate), ping
(snapshot and update of one statement, two steps, since PostgreSQL's read committed
evaluates the CTE on the snapshot and the CASE on the locked row), sweep, role update.

**Sla.** One conversation. `fact` is `first_reply_at` and `resolved_at`, each written
once; a reply takes its time (`Reply`) before it is written (`ReplyWritten`). `state`,
`due`, `met`, `breached` are the columns of `applied_slas`, `notices` the breach rows of
`scheduled_sla_notifications`. A pass of the evaluator is `Query` (the snapshot `row`,
`seen`, `decided`), for each metric `Skip`, `Met` or `Breach` and `Notice`, then
`SetStatus`; `Fail` is every early return with an error. `Apply` is one statement whose
two halves PostgreSQL may run in either order; the unique index makes the other order an
error that changes nothing. The unique index also means that a pass finds at most one row
of the conversation; the rows of others only take time. `raced` is a history: breaches
written when a fact existed, or was about to be written, that the query had not read.
Left out: `next_sla_deadline_at`, which only lists and filters read, and warnings,
which are scheduled once when the SLA is applied.

**Inboxes.** One row of `inboxes` and the manager's two maps for its id: `installed`
(`m.inboxes`) and `receiver` (`m.receivers`) are places in `instances`, the sequence of
all instances ever built, since an instance that is no longer in a map may still
receive. A request reads (`Read`), writes (`Create`, `Update`, `Toggle`, `SoftDelete`,
`Reconnect`) and reloads: `Stop` cancels and forgets the receiver, `Wait` waits for it
without the lock, `CloseOld` closes whatever is installed by then, `Fetch` and `Install`
build the next. `RefreshToken` and `Persist` are an instance that writes its
configuration back. `Signal`, `ServerDown`, `CloseAll`, `Closed` are the shutdown.
`edit`, `token`, `secret`, `version` in the row number what was saved; only their order
matters. `overlapped` is a history: two requests were under way at once.
An instance is built from the koanf of the whole process, into which the row's configuration
is loaded (`cmd/init.go:733, 797`): `key` is one optional key, `shared` what was loaded last,
and `Merged` what the instance gets. A configuration marshalled from its type has every key
(`Marshalled`). `Forms` are what an admin may save, a change of channel included.

**Incoming.** `mailbox` is what the server holds, oldest first, so that a place is an
IMAP sequence number; `aged` are mails the search no longer finds, because they are older
than `scan_inbox_since` or were removed. A poll computes `Window` from the number of mails
and the cursor (`boundedIMAPSearchWindow`), searches it, and looks at one mail after the
other: known to the database and passed over, or charged to the two budgets, fetched and
queued. A full queue drops the mail and the page goes on (`EnqueueIncoming`), and so it does
when the rolling budget is used up (`OverIngress`) or a mail fails (`MailFails`,
`BodyFails`); when the budget of the poll is used up, the poll ends and leaves the cursor
there (`Exhausted`). A body that is refused whenever it is fetched is `Malformed`; it is
charged all the same. `worker` is a goroutine that checks again, threads (`Parent` is what a
mail answers), creates a conversation, inserts, and deletes the new conversation when that
failed. A row of `messages` carries the mail, its conversation and a number that tells
copies apart. The failures, `Reload` and `Crash` may come at any step.
Abstracted: every mail has size one; the hour and the day, the mailbox and the sender are
one rolling budget, `spent`; a mail that is removed does not come back to that mailbox; a
mail that is stored has no age. Left out: the finding of a conversation by plus-address,
which `Contacts` has.

**Conversation.** `status` and `snoozedUntil` are columns, `survey` the row of
`csat_responses` with its unique conversation, `mails` the survey mails queued. An actor
is an agent's request or a rule: `ReadStatus`, `UpdateStatus`, `RecordChange`,
`CreateSurvey`, `QueueSurvey`. A receiver handles a message of the contact: `Reopen`,
`Look`, `InsertEvent`; the last two are the test and the insertion of one
`INSERT ... WHERE NOT EXISTS`, which do not exclude each other in two transactions. The
sender's `Meet` writes `met_at` of the newest unmet event. The evaluator reads a batch
(`Query`) and judges it row by row from what it read. Left out: `waiting_since`,
`last_reply_at`, activities, webhooks, notifications, and more than one applied SLA; the
deadline is `now` plus a constant and computed in `Look`.

**WsHub, LiveChat, Sockets.** A connection is its network connection (`conn`), the
goroutine that reads (`listener`, or `visitor`), the one that writes (`writer`, or
`forwarder`), and the channel between (`send`, `chan`). The hub's four subscription maps
are variables of their own, because they are updated together under one lock and
emptied by one call. `enqueue` is two steps, the test of the flag under the read lock
(`Grab`) and the push (`Put`); `Close` waits until nobody holds that lock. A live chat
instance keeps its clients per instance: a reload empties the old map and closes its
channels (`Empty`), deletes it from the manager's map (`CloseInstance`) and installs another; the
end of the program closes the instance where it is, after the HTTP server, while hijacked
connections and senders go on (`ManagerClose`, `cut`). A sender holds the instance's lock for
reading from `SenderLocks` to the last push.

**Media.** Per upload a row, a file and a thumbnail, and the step its request has reached.
`LockQuota`, `LockOwner`, `Insert` are the transaction of `insertWithQuotas`, whose advisory
lock and row lock others wait for; `UndoFile`, `UndoRow`, `UndoThumb` take back what was
done. Agents pick their file for a message later (`Pick`), or the body of the message names
an image they uploaded (`NameInline`), whose row nobody reads before the message stands; customers'
files are attached in the same request. Each upload goes into one message at most; both paths
leave a file that another message has, and two messages that take one file at the same moment are left
out. `MergeLock`, `MergeMove`, `MergeCommit` are one transaction; others see
its effect at the commit. `SweepList` to `SweepThumb` are the collector. Sizes count in
files and thumbnails. `raced`, `unattached`, `leaked` are histories: attached while or
after the collector took the file, attaching failed unnoticed, object given up by a
clean-up that failed.

**Contacts.** A request is one process; its `job` holds what it has read, `at` its next
statement. `Auth` and `Valid` are the middleware with the session's version and the
user's type; `Create`, `Find`, `Message`, `CleanUp` the chat; `Note` to `Reuse` the
exchange of a signed token with its look-up by external id, the enrichment of a contact
and the merge (`MergeLock`, `MergeMove`, `MergeCommit`, in the order of the statements);
`IsEmailBlocked`, `Known`, `InsertContact` the ticket; `Answer`, `UpgradeVisitorToContact`,
`Override` the mail; `Registered`, `Register`, `Verify`, `Activate` the portal; `Logout`; `Toggle`
blocks and unblocks; `Edit` is the agent who changes an address. An address is a mailbox and
whether the row has it in lower case: what comes in is lowered and compared with `=`
(`Spelled`), agents store the spelling they type, and the mail's path (`message.go:811`,
`893`) and the portal fold the case. A mail may answer from the address of the conversation's customer or from any
other, which makes its sender a `stranger`: the message is threaded, and is that sender's. It answers what has been sent
to an address, so its conversation is there to stay (`Settled`); one that is matched by its
References instead of its plus address takes the same paths. The pre-chat form may give a new
visitor an address, a blocked one too. `BeginCustomerPortalRegistration` is called by nothing in
`src/`, so registrations that wait to be verified are there from the start (`Pending`). A wrong code, or one that has expired, ends
`VerifyCustomerPortalRegistration` early like a registration that does not exist. The portal's tickets and replies take the steps of `ticket` and `send`, but for
the name an authenticated ticket writes to its contact with the address it already has;
participants and notes of contacts are left out.

## 4. Runs

Every run is listed in `PROJECT.json` with its properties and a sentence on what it
shows. Runs that expect a violation each check one statement of a comment or text of
the repository that the code does not keep; the finding quotes it.

| run | question | bounds and why they suffice |
|---|---|---|
| `outgoing` | map exact and one holder (`Custody`), no unexplained duplicate, sent is stamped, implements `Delivery`, nothing stays pending unless a stop hangs | 2 replies (an agent's and the system's), 2 workers, 1 retry request, channel of 1, 1 stop, 1 reason per reply: the channel is full with a second reply waiting, a worker and a stale retry compete for one reply, and a stop falls anywhere |
| `assignment_sweep` | the limit, rotations are fresh, claims suit the team a conversation has by then, no starvation | 2 conversations, 2 agents, 2 teams, 1 move request, limit 1, 1 step of people or errors: both agents may be full, one may be filled between count and claim, a member may leave or the conversation change its team within one sweep |
| `shutdown_close` | no caller panics, `Close` returns | automation, notifier, conversation manager and the assigner, 1 worker each, 1 request, channels of 1, 2 calls: one call fills a channel, the second waits behind it while `Close` holds the lock |
| `shutdown_automation` | violation: `Close` of the engine and its own worker wait for each other | 1 worker, 3 calls |
| `agentcache_coherence` | no outdated entry stays, a handler reads its write | 1 agent (entries of different agents share only the epoch, which role updates move), 2 requests, 2 roles, 3 writing requests or sweeps; readers are unbounded |
| `sla_evaluation` | verdicts true and in agreement with the status, notified once, reached | 2 SLAs (the second may replace the first in the middle of a pass), times 0 to 2 with deadlines before, at and after each event, 1 error |
| `inboxes` | one receiver, what is installed agrees with the row, a moved boundary revokes sessions, everything ends | 2 requests (apart or at once), 4 forms (both channels, with the optional key or without, on and off), 1 token: an instance refreshes it and writes it back before, within or after another's reload |
| `incoming` | few copies, empty conversations are explained, clean-ups take nothing, mail arrives | 1 mailbox, 1 worker, 3 mails of which one is refused whenever its body is fetched and one answers another, windows of 2 and heads of 1 (the mailbox is longer than a poll), a queue of 1, budgets of one body a poll and one a rolling hour (both run out all the time), every mail may grow too old, 1 failure, reload, death or removal |
| `sockets` | nobody pushes on a closed channel, what is gone is in no map, who joined is reached, both goroutines end | 1 connection of an agent, 1 of a visitor, each with two goroutines, 1 conversation, 2 instances (one reload), the end of the program, channels of 1, 1 connection per contact |
| `conversation` | one survey, verdicts of events are due, snoozes end, events are judged | 2 actors, 2 receivers, clock to 3 (longer than snooze and deadline), 3 requests, messages or replies, 1 fault |
| `media` | quotas hold, store and rows agree, what is unused is collected | 3 uploads: an image of a visitor, a file of the contact it is merged into, an image of an agent; quotas that two of them exceed together; 1 failure or death |
| `contacts` | messages are their sender's, persons stay apart, merges lose nothing, the blocked are silent | a visitor with and without address, a contact with and without external id and in either spelling, 3 requests of fitting kinds (`WhatIsAsked`), 2 persons, 2 mailboxes, 1 registration that waits, 1 failure: a merge, a writer and a third who blocks, edits, verifies or logs out in between |

Where a set's members play different parts they are told apart by constants
(`Threads`, `WhoUploads`, `WhatIsAsked` in the MC modules); symmetry is used in
`agentcache_coherence` only, which checks no liveness.

Deadlock is checked in `Outgoing`, `Assignment` and `AgentCache`. It is not in
`Shutdown` and `Inboxes`, whose purpose is to end (a deadlock before that violates a
liveness property, which says more), and not in `Sla`, `Incoming`, `Sockets`,
`Conversation`, `Media` and `Contacts`, whose clocks, mails, connections and requests run
out: there, too, what must still happen is a liveness property, except in `Contacts`,
whose requests wait only for the row locks of a merge, taken together and released at
its commit.

### What the code does that no run states

These were met while modelling; the modules contain them, and a reader of the code
should know them.

- `conversation/message.go:105`: `Close` closes the channel and waits for the workers,
  not for the scanner, which may then push on the closed channel and panic
  (`Outgoing!ScanPanics`). Nothing is lost by it: the row is pending at the restart.
- `autoassigner/autoassigner.go:113`: `Close` waits for `Run` with `closedMu` held, and
  `Run` takes `closedMu` at every tick; when the tick comes first both wait for ever
  (`Shutdown!AssignerReads`).
- `automation/automation.go:136`: the ticker pushes on the task channel without lock and
  flag; when `Close` was faster this panics (`Shutdown!TickerPushes`).
- `conversation/queries.sql:447` counts only conversations of category open, while the
  comment of its caller (`conversation.go:689`) counts those "not closed or resolved":
  snoozed and waiting ones are left out. `Assignment!Active` follows the query.
- `user/queries.sql:147`: the CTE of a ping reads the row in the statement's snapshot,
  its CASE the locked row. When another write lies between, the ping may bring an agent
  online without saying so; nobody invalidates the cache for it, and an entry filled in
  between stays outdated until it expires. `cmd/roles.go:89` can miss a change of
  permissions in the same way, of two updates that undo each other. `AgentCache` collects
  both in `missed`, which `Coherent` excepts.
- `sla/queries.sql:33`: the delete and the insert of `apply-sla` touch one unique index in
  one statement. If the insert runs first a conversation with a pending SLA cannot get
  another; `Sla!Apply` allows both.
- An SLA whose policy sets one of the two targets has one metric that is never judged,
  and its status stays pending (`Sla!Verdict`), however often it is selected.
- `sla/sla.go:946`: when the policy cannot be read after the breach was written, the
  notification of that breach is never scheduled: `OneNotice` says at most one.

- `autoassigner/autoassigner.go:137` keeps the rotation of a team that was round robin and
  is manual now, although the text of the setting (`i18n/en-US.json:385`) says that
  agents pick conversations themselves; the next reload that succeeds drops it.
- `conversation/conversation.go:815`: a move keeps the agent of the old team when recording
  the move fails, or when two moves overlap.
- `cmd/users.go:127`: idle detection reads the availability and writes "away" later, over a
  state the agent chose meanwhile.
- `inbox/inbox.go:532`: two reloads of one inbox may both find no receiver; the first to be
  installed is then overwritten and receives until the end. A token refresh overwrites an
  edit made since the instance was built (`email/email.go:228`), an update overwrites the
  version a toggle has raised, and `ReloadInbox` treats a failing query as a missing row.
- `cmd/init.go:733`, `797`: each inbox's configuration is loaded into the one koanf `ko` of
  the process and read back from there. A key the row lacks keeps the value that was loaded
  last, that of another inbox or an older one of this inbox, and a refreshed token
  (`init.go:757`) or a reconnection writes all keys back into the row.
  `Inboxes!InstalledIsCurrent` says nothing of keys the row lacks.
- `livechat/livechat.go:267`: `Close` closes the channels, not the connections: a widget
  stays connected after a reload and receives nothing until it joins again; one that
  joins while the reload is under way is added to the closed instance. At the end of the
  program (`inbox.go:582`) the instance is closed where it is, and those who had joined are
  cut off the same way until the process is gone. `JoinedIsReached` excepts all three. The limiter of
  connections is released when the handler returns, and so counts upgrades only.
- `conversation/conversation.go:1464`: the survey row is created, and when a later step
  fails no survey is ever sent. A survey that an agent's resolution sends counts as a reply
  and meets the next-response event (`message.go:198`).
- `sla/sla.go:334`: two messages at once create two unmet events, of which a reply meets the
  newest only; the other is judged breached. An event met exactly at its deadline is
  neither (timestamps are never equal in `Conversation`).
- `conversation/conversation.go:925`: an agent's resolution is written over a message that
  arrived since the status was read, and an early return reports a status that is no
  longer there. The unsnoozer records no activity and calls no webhook.
- `media/media.go:584`: when the file is deleted and the row is not, the row can still be
  picked for a message. A file attached after the collector's list was read is deleted
  (`media.go:629`). `conversation/message.go:592` ignores the error of `Attach`, and `1096`-`1124`
  leaves an inline image it cannot read or attach: the message stands without its file.
- `conversation/conversation.go:355` says that a creation beyond the limit is "atomically
  rejected"; under read committed two creations count the same rows. `Contacts` leaves the
  limit out.
- `user/contact.go:30`: a contact found without external id is given one by a later
  statement, which overwrites another's. A contact without one is created twice when its
  enrichment falls between look-up and insertion, three requests may leave two portal
  accounts of one address, and "prevent multiple conversations" is a check before the
  creation.
- `cmd/chat.go:281`: the clean-up of a refused first message deletes the conversation with
  whatever else was written in it.
- `cmd/widget_middleware.go:159`: a visitor who was upgraded loses the session, with an answer
  401, at the next request. `getContactConversation` reports an error and returns nil, so
  its handler goes on without a sender, which the foreign key refuses.
- `email/imap.go:704-710`: a mail whose body is refused is charged to the budgets at every
  poll that finds it, and a poll that has used its budget up starts again at the same place:
  a few such mails of the largest size can hold up others until they are older than `scan_inbox_since`, 48 hours
  by default, and what has grown that old itself is never stored (`MailArrives` excepts it).
- `conversation/message.go:891-903`: a mail that answers a conversation from an address its customer
  does not have is threaded there under the contact of its own address, as the comments intend
  (`stranger` in `Contacts`). The same happens to the customer's own mail when the conversation
  cannot be read again (`message.go:808`).
- `user/queries.sql:327` compares `email = $1`, and `email/imap.go:671`, `699` lower the sender before
  they ask, but `cmd/contacts.go:98` stores an address as the agent types it. A contact kept in mixed case
  is not recognised as blocked, and `message.go:811`, `893` then fold the case and store the answer as the
  contact's own. `BlockedIsSilent` promises nothing of the mails of such a contact.
- `cmd/chat.go:1277-1298`: nobody asks whether the address in the pre-chat form is blocked; who gives
  one opens a visitor of that address, whose messages are stored (`Contacts!CreateVisitor`).

## 5. Fairness

`Outgoing`: goroutines that can go on do; the ticker fires; a blocked channel
operation that stays possible happens; transports answer because they have timeouts;
a process that ended is restarted (`restart: unless-stopped` in `docker-compose.yml`). All
of this is weak fairness. Nothing is assumed of `main` once it was signalled: it closes the
automation engine and the assigner before the conversation manager (`main.go:349-357`), both
may block for ever (see `shutdown_automation` and `autoassigner.go:113`), and a process that
hangs is not restarted. `EventuallySettled` excepts a stop that hangs. One strong fairness is assumed: a scan that is tried again and
again does not meet a failing database each time. Retries and crashes are bounded by
`MaxReasons` and `MaxStops`, so they end.

`Assignment`: weak fairness of the engine as a whole; errors consume the bounded
`events`, so they end. Which conversation is next and which agents are shuffled first
stays arbitrary.

`Shutdown`: weak fairness of every goroutine; strong fairness of leaving for the two
loops whose `select` may prefer the ticker, because Go chooses among ready cases at
random. No fairness for calls: a worker need not call.

`Sla`: weak fairness of the evaluator as a whole (its ticker fires and its goroutine
runs); its errors are bounded. The clock need not advance, people need not reply.

`Inboxes`: weak fairness of the steps of requests and receivers and of the shutdown once it
was signalled; no request, refresh or signal need come.

`Incoming`: weak fairness of every poller and every worker. As time passes, bodies leave the
rolling budget and a mail whose body is refused grows too old to be searched for; both are
weak fairness too. No other mail need grow old, so that `MailArrives` does not hold merely
because every mail does. Mails need not arrive and troubles are bounded; a mail that is
removed or has grown too old is not promised anything.

`Conversation`: weak fairness of the clock, the unsnoozer and the evaluator. Nobody need
act, write or answer.

`Sockets`: the goroutines of a connection go on. The reader's and the handler's fairness is
strong, because they take mutexes for writing that broadcasts hold for reading, and
`sync.RWMutex` admits no new reader before a writer that waits. Nobody need connect,
type or reload, and a connection need not end.

`Media`: weak fairness of every upload that has begun, of the collector, and of a merge
that has begun; nobody need upload, pick or merge.

`AgentCache` and `Contacts` state no liveness.

## 6. Proofs

TLAPS checks the following for every value of the constants that satisfies their
assumption.

*`OutgoingProofs`.* The invariant the runs check is not inductive: that the scanner does
not pick up a reply in flight depends on the ids it read before its query, that a
duplicate has a reason depends on a reserve. `IInv` adds `ScannerOK` (an id in the map
at the query was in the map when the scanner read it), `WorkersOK`, `OnlyStored` and
`Reserve` (a reply waiting for its answer has one delivery less than its reasons
allow). From `Init => IInv` and `IInv /\ [Next]_vars => IInv'` follow `OneHolder`,
`MapIsInFlight`, `InFlightIsPending`, `DuplicatesExplained`; `SentIsStamped` has an
induction of its own on top of it, `SettledByHolder` is an action property, and
`ImplementsDelivery` maps every step to a step or stutter of `Delivery`.

*`AgentCacheProofs`.* `Coherent` depends on loads in flight: `LoadOf` says that a load
that may still be stored (its version is current) and is outdated will meet an
invalidation, `VersionOf` that versions only grow, `WriteOf` that after a writer's own
invalidation nothing older than its write is cached or may still be stored, `ShapeOf`
what a request holds at each place.

*`SlaProofs`.* The truth of a verdict depends on what the evaluator read: `IInv` adds
`SnapshotOK` (what was read as set still has that value, and the SLA in hand is pending
or was replaced), `AheadOK` (a metric whose turn has not come and that had no verdict has
none), `NoticeOK`, `TimesOK`, `RowsOK` and `StampExplained` (a reply about to be written
cannot contradict a breach). From it follow `OneVerdict`, `MetIsTrue`,
`BreachExplained`, `FinalAgrees`, `OneNotice`, and the action property
`NothingWithdrawn`.

*`CapacityProofs`, Assignment.* Both `PoolsAreFresh` and `WithinCapacity` speak of a sweep whose data
grow old. `IInv` is `TypeOK`, `EngineOK` (what the engine holds at each of its places),
`MovesOK` (a move under way has its conversation and its team), `FreshOK` (while rotations
are loaded, who is eligible is remembered as having been so in this sweep) and the two;
that the engine's claims stay within the limit needs that what it counted can only have
been raised by people, whose part is in `manual`. `ClaimsSuitTeam` is an action
property from the same invariant: the engine holds only who was eligible in the sweep for the
conversation it is about to claim. Cardinalities are finite because the sets are.

*`CapacityProofs`, Media.* Two invariants, the second on top of the first. `QuotaIInv`: a
request past its count holds the lock it counted under and the room it counted is still
there, since only holders of that lock add to it (`RoomOK`); a customer's image counts its
reserve until the thumbnail takes its place (`ReserveOK`); a merge has both owners locked, and
what they own together fits (`MergeOK`); files that no row knows yet are in nobody's hands
(`PastOK`). Room is the cardinality of a set of units, so the lemmas on it (`FewerTakeLess`,
`OneMoreTakes`) rest on the library's facts about finite sets. `StoreIInv` says for every step of a
request what it has put into the store (`Stored`) and what may be left there (`Left`), and
in which order the collector deletes (`SweepOK`). From them follow `QuotasKept` and
`StoreAgrees`.

*`ChannelProofs`, Shutdown.* No caller pushes on a closed channel because the flag is set and the
channel closed under the lock the caller holds for reading: `IInv` is `TypeOK`,
`CallersOK` (who pushes is inside the lock of an open component), `LocksOK` (nobody is
inside a lock that `Close` has), `ClosersOK` (a `Close` under way has its lock), `ClosedOK` (what
is closed is idle, or a `Close` waits for that), `CallersNeverPanic` and `ClosedIsQuiet`.

*`ChannelProofs`, Sockets.* `SocketsIInv` is `HubIInv` and `ChatIInv`, which share nothing: an
action of the one leaves the other's variables alone. For the hub: who holds the send lock of a
client found its channel open, and nobody holds it when `close` closes it (`HubOK`); the
maps by client and by conversation agree and a client that is being closed is in none
(`MapsOK`). For the live chat: a connection is in no other map than that of the instance it
joined, from `AddClient` to `RemoveClient` or the instance's `Close`, and its channel is open
while it is in a map (`VisitorsOK`); what a sender has still to send to is in the map whose
lock it holds (`SendersOK`). From them follow `PushesAreSafe`, `GoneIsForgotten` and
`JoinedIsReached`, which excepts those whom `ManagerClose` has cut off.

*`InboxesProofs`.* `IInv` is `TypeOK`, `TwoBusy => overlapped`, `AllAnswered` (the server is down
only when all requests are answered), `QuietAfterClose` and, while nothing overlapped, `OneRequest`: for every place of the only request what the
maps, the instances and the row look like. `OneReceiver`, `InstalledIsCurrent` and
`BoundaryRevokes` follow from it; `QuietAfterClose` holds of overlapping reloads too.

*`IncomingProofs`.* `IInv` is `TypeOK`, `Distinct` (a mail lies in a mailbox once), `RowsOK`
(conversations of rows exist), `Positions` (a conversation a worker has created is nobody
else's and empty, one it has found has a message), `CopiesBounded` and `EmptyExplained`: the
copies stored and those about to be stored never exceed the workers, since a worker looks
again before it inserts. `NothingLost` is an action property: a conversation that is taken
back is empty, because a mail is threaded only into one that has a message already.
`WindowWithinMailbox` is about the arithmetic of the window: any cursor, any size.

*`CustomerProofs`, Conversation.* `IInv` is `TypeOK`, `MetInPast`, `BatchOK` (what the evaluator read is
what it was, or a reply came since), `VerdictsAreDue`, `SurveyOnce`, `UnmetBounded`.

*`CustomerProofs`, Contacts.* Nothing the runs check is inductive, because a request acts on
what it read. `ContactsIInv` is `ContactsTypeOK`, `RowsOK` (a conversation's customer exists, a
message lies in its sender's conversation or was a stranger's mail, a session signed for a person is of that
person's contact, and nothing refers to a user not yet created), `LockOK` (merges under way
touch different rows, and a merge about to commit has moved all that refers to the visitor:
nothing was added since, because rows that refer to a locked user cannot be inserted) and, for
every request, `JobOK` (what it read is still good at the place where it uses it: a mail on its way was let in because no lowered address of who is out is its own, `NoMails`). The
interference is a relation of its own, as in rely-guarantee proofs: `ContactsStep(r)` says what
a step of `r` may do to users (`UserStep`), conversations, messages, sessions and locks. Who is out for a
request stays blocked and gains no address in a new spelling, or is out no more: `OutStays`, which `AddressWritten` proves
of the steps that write addresses. The lemmas `...Stay` show once that such a step keeps the invariant for everybody else, and one lemma `...Keeps` per action
shows that the action is such a step and leaves its own request what it needs next. From the
invariant follow `SenderOwns` and `PersonsApart`, from the relation the action properties
`NothingVanishes` and `BlockedIsSilent`.

The assumptions are the named ones of the modules: bounds are natural numbers, the sets
whose members are counted (agents, actors, receivers, mails, workers, uploads) are
finite, and the values that stand for nobody are no members. Two say more: in `Media` the
users' and the uploads' names differ, since both may hold a lock; in `Contacts` what a request
may ask for is well formed (a signed exchange, and only it, names a person; who acts through the
widget has a token; who writes names a conversation), which `cmd/chat.go` and
`widgetAuth` reject otherwise.

Every invariant and every action property of a passing run is a theorem, and so is the
refinement of `Delivery`. Model-checked only: the liveness properties (`EventuallySettled`,
`NoStarvation`, `LeavesClose`, `JudgedEventually`, `EverythingEnds`, `MailArrives`, `EndsAreNoticed`,
`SnoozeEnds`, `EventsAreJudged`, `UnusedGoes`), because they need fairness and ENABLED, which are
outside what TLAPS proves here, and the violation, for which TLC's trace is the evidence.

## 7. Not modelled

Contents of messages, e-mail formats, templates, image processing, authentication and
permissions of handlers, rate limits, and all components marked `not_modelled`: continuity
e-mails and the importer, which are planned, drafts, settings, tags, views, macros,
search, reports and the like, which are single statements without a relation to others.
The calculation of deadlines over business hours and the evaluation of conditions are pure
functions over calendars and records; they are planned too, and the present modules allow
any of their results.

Within the modelled components: deletion of an agent is in `Assignment` but not in
`AgentCache`; `Shutdown` begins with all goroutines started; `Inboxes` has one inbox, since
inboxes share only a lock that is not held while anything is waited for, and the koanf, of
which any other inbox's value may have been loaded before (`Inboxes!Install`); `WsHub` takes any subset of a
subscription as authorised; `Conversation` has one applied SLA; a second server process on
the same database is not considered (the deployment has one).
