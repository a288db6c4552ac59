# A TLA+ model of hearsay

hearsay lets coding agents tell each other what they are working on.  An agent
*claims* a resource (`file:///src/a.go`, `file:///src/**`) for an operation and a
time; a claim that conflicts with an active one of another agent is refused.
Everything about claims is a row in an append-only table of messages, one per
namespace, kept by a *provider* (memory, sqlite, postgres, d1, or another
hearsay server).  There is no table of claims and no lock: the active claims are
computed from the rows on every read.  That is what makes the system worth a
model: a decision is taken on a snapshot and recorded later, rows are deleted
under readers, and the clock ends claims between any two steps.

All paths below are relative to the repository.

## Inventory

| Component | State | Operations | Hard behaviour |
| --- | --- | --- | --- |
| conflict rules, `pkg/hearsay/claims.go` | none | `CheckConflict`, `resourceMatches`, `ResourceMatchesPattern` | patterns against patterns, asymmetry of the rules |
| client, `client.go`, `activeclaims.go` | none; works on the provider's rows | `Claim`, `Release`, `Transfer`, `Heartbeat`, `UpdateIntent`, `ActiveClaims` | `Claim` checks, then appends; deadlines pass between the two |
| providers, `internal/{memory,sqlite,postgres,d1}` | messages, mailbox, A2A tasks, history, artifacts, audit rows | `Append`, `Query`, `ReleaseExpired`, `AgentState`, `DeleteNamespace`, `SubscribeEvents`, mailbox and task calls | offsets and sequence numbers, deletion row by row, polling readers |
| managed provider, `internal/managed` | none | the provider's calls as HTTP requests | an answer lost after the call took effect |
| serve, `cmd/hearsay/cmd_serve.go`, `sweeper_native.go` | a death detector's round | sweep every 60 s, detector every 15 s, shutdown | works on a list that goes stale; stops at any point |
| HTTP server, `internal/server/server.go` | none | one handler per client call, raw provider calls | concurrent requests |
| event stream, `sse.go` and `SubscribeEvents` | last sequence number sent, a channel of 100 | replay, poll every 500 ms | numbers used again after a sweep, a slow reader under a lock |
| A2A server, `internal/a2a` | tasks, a JWKS cache | `tasks/send`, `sendSubscribe`, `get`, `cancel`; skills | a task's copy against the stored one, disconnects, partial failure |
| mailbox, `internal/mailbox` | messages with a read and an archived flag | send, get, mark read, archive, expire | broadcasts share their flags |
| audit log, `internal/server/audit.go` | a channel of 256, a batch of 32 | log, flush | drops when full, loses a failed batch and what a shutdown finds |
| rate limiter, `ratelimit.go` | times of requests per agent | wrap | the time is read before the lock |
| hooks, `cmd/hearsay/cursor.go`, `sdk/typescript/src/hooks.ts` | claim per tool call, in a file or a map; heartbeat timers | before and after a tool, end of session | concurrent processes on one file, callbacks that overlap |
| watcher, `internal/watcher`; `internal/do` | debounce timers | claim what was edited; the sweep in a durable object | repeats the above |

How they interact: the HTTP and the A2A server share one provider and one client; a
skill of a task is a client call or a mailbox call on behalf of the task; the hooks
and extensions are clients of the HTTP server, for claims and for the mailbox; the
request handlers put events on the audit log's channel.  The claim log, the event
stream, the tasks, the mailbox and the audit log live in different tables: they
meet in the deletion of the namespace and in the restart of the process, which each
module has where they matter, and in the claims that tasks and hooks take, which their modules abstract to a set.

What makes each of them correct:

* *conflict rules*: a pattern and a resource meet exactly when the pattern stands
  for the resource; nobody is refused without a shared resource; two operations
  that change a resource exclude each other in both orders.
* *claims*: a grant is consistent with what was read; once over, a claim stays
  over; a claim in force is not removed; rows of dead claims go in the end; two
  conflicting claims are not in force together (**which the code does not give**).
* *background work*: a sweep removes expired claims and nothing else (**which the code does not
  give** when two sweeps overlap); the detector ends no claim of an agent that sends heartbeats
  (**which the code does not give**: it can hear claims only).
* *event stream*: every row is sent, in order, once, and reaches the client (**which the code does
  not give**); a slow reader stops nobody else (**nor that**, with the memory provider).
* *tasks*: a task is finished, cancelled or deleted in the end, unless the process crashes at work on it; the claim of a task
  can be found from its row or from the call that works on it; a cancelled task
  leaves no claim behind (**which the code does not give**); a completed one is shown with its artifact.
* *hooks*: a claim made for a tool call covers the call and is released when the
  call or the session ends.
* *mailbox*: a message to one agent is not lost before that agent has seen it; what
  was acknowledged does not come back; nobody is stopped for good.
* *audit log*: what was logged is stored once and in order, or is lost in one of the
  ways that the code provides for.
* *rate limit*: no more requests than the limit in a window.

The hazards, with the line where each of them bites, are listed in `PROJECT.json`.

## Modules

`Conflict.tla` holds the conflict rules as operators.  A URI is the sequence of
the parts between slashes, which is all that `strings.HasSuffix(a, "/**")`,
`strings.HasPrefix(b, prefix+"/")` and `path.Match` look at as long as a wildcard
fills a whole part; `*.go` is not represented.  `path.Match` is the library's, modelled from its
use: a wildcard stands for one part.  `ConflictQuestions.tla` asks every question of these rules,
for URIs up to a length, and states what the answers should be: `Denotes` gives the set of
concrete resources that a URI stands for, the reference that the rules are compared with.

`ClaimLog.tla` extends it with one namespace.

| In the model | In the code |
| --- | --- |
| `log`, a set of rows with an offset | the `messages` table; `Append1` is `Provider.Append` of one message, the transaction one step |
| `claims[id]` | the payload of the claim row: agent, resource, operation, TTL, `CreatedAt`; fixed when `Claim` builds it |
| `ClaimRead`, `ClaimDenied` / `ClaimGranted`, `ClaimAppend` | the three parts of `Client.Claim` (`client.go:34-68`): query, filter and check, append.  The filter runs on the rows read earlier, at the present time |
| `ClaimFails` | a provider error in the query or the append, a request that is cancelled |
| `Release`, `Transfer`, `Heartbeat`, `UpdateIntent` | the client calls of these names: they append a row without an agent and look at nothing; any agent may send any of them for any claim, more than once and late |
| `ActiveIn`, `Released`, `InTime` | `FilterActiveClaims` (`activeclaims.go:54-105`) |
| `Visible` | the `Types` the SQL providers ask for: without heartbeats |
| `SweepScan`, `SweepDelete`, `SweepFails`, `plan` | `ReleaseExpired` (`sqlite.go:422-459`): one query, then a DELETE per offset of `toDelete`.  Sweeps overlap: `Sweepers` are the ticker's and those that are posted, `Tickers` the ones that come round by themselves |
| `kept`, `lost` | history: of the rows that a sweep's query saw those that are left, and the claims of which a sweep has deleted the release |
| `DetectorScan`, `DetectorJudge`, `DetectorRelease`, `detector` | the death detector (`cmd_serve.go:131-179`): its list, the state of one agent after the other, one append per claim.  The rows with an agent's id are its claims and what the detector appends for it: heartbeats, releases and intents carry none (`client.go:70-137`) |
| `DeleteNamespace` | the provider's call; offsets start again |
| `Restart` | the process ends: calls, sweep and detector are gone, and with the memory provider the table too |
| `Tick` | the clock |

`Provider` selects what differs.  Memory reads heartbeats and has a sweep that
does nothing.  sqlite sweeps.  The postgres sweep selects a column named `offset`
without quotes, a reserved word there, so it always fails and deletes nothing.  Its offsets come
from a sequence; since only the order of rows of one claim matters, and
those are appended one after the other, the model's numbering stands for it.

`Leases.tla` is what agents are promised by such a service, in terms that know nothing of rows: who
asks is shown every claim in force, and perhaps some that are over (`Look`); it takes a claim
that clashes with none of those it was shown and that still are in force (`Take`); the claim
begins later, or has run out before it begins (`Begin`); claims end, any number at once, and never
come back (`End`); agents give up, and what was promised them is free again
(`GiveUp`).  It does not promise that clashing claims are never in force together, since
the code does not: two agents may look before either claim begins.  `ImplementsLeases` in
`ClaimLog` is the refinement: in force and over are computed from the log at the present time, an
agent asks between `ClaimRead` and the decision, and was shown the claims with a row in what it read.

`EventStream.tla` stands beside it, over the same rows reduced to their sequence
numbers.  It looks at one namespace.

| In the model | In the code |
| --- | --- |
| `table`, rows with `seq`, `offset` and the position `no` of their commit | `messages` (in memory `seq` is the offset); `no` is a history field |
| `AppendLock`, `AppendLocked` | memory's `Append`: `mu.Lock()`, then the append.  A waiting writer keeps new readers out, as `sync.RWMutex` does |
| `AppendSqlite`; `AppendBegin`, `AppendCommit`, `AppendAborted` | `Append` of sqlite in one step, of postgres in two: its transactions overlap |
| `D1Offset`, `D1Seq`, `AppendCommit` | `Append` of d1: two queries and an INSERT with nothing around them; the key of the table is the offset (`FreeOffset`) |
| `Subscribe`, `StreamQuery`, `StreamSend`, `StreamRest`, `StreamStop` | the goroutine of `SubscribeEvents`: replay, poll, send, wait, cancellation.  While `reading`, memory holds the read lock; a SQL provider reads a cursor, `batch` |
| `ReplayFails`, `CursorFails` | the errors: a failing first query closes the channel, a later one is retried, an early end of `rows.Next` leaves the rest to the next poll |
| `sent`, `read` | the channel with its history; `Len(sent) - read` events are in it, at most `Cap` (100) |
| `Deliver`, `Finish`, `Disconnect` | the loop of `handleSSE`, which writes to the response, its end, and the request's context |
| `arrived`, `Arrive` | what has left the server.  `LoggingMiddleware` wraps each response in a `responseWriter` without `Flush` (`middleware.go:64,78-86`), so `handleSSE` finds no `http.Flusher` (`sse.go:29`), and what is written waits in net/http's buffer until that is full or the request ends |

`Feed.tla` is what the handler may expect of it, in terms that know neither table nor polls: who
asks for what comes after number `n` (`Join`) is given `n + 1`, `n + 2` and so on (`Give`), at most
`Size` ahead of what it has taken (`Take`), and is let go only when it has taken everything (`Leave`).
The service keeps this with memory, sqlite and d1 until a row is removed; postgres may give one number
to two rows, and after a removal numbers are given out again.  `ImplementsFeed` in `EventStream` is the
refinement, step by step until a row is removed: a reader's `from` is the number it named, and it
was given the positions `no` of the rows in `sent`.  Number 0 has no special meaning in it, and
none in the providers, although `provider.go:40-42` says that a stream from 0 begins with new events only
(`EventStream_replay.cfg`).  That a reader *names* a number is up to it: `handleSSE` writes type and
payload of an event and not its number (`sse.go:50-52`), so the client that
dual-runtime-design.md:303 describes, which "track[s] the last received `seq`", does not learn one.

In `ClaimLog`, `witnessed` is a history variable: for each claim, the claims with a row in the
snapshot it was granted on.

`TaskLifecycle.tla` is the A2A server over one task table.  A task id is chosen by
the client; a call holds its own copy of the task, and each provider call is a step.

| In the model | In the code |
| --- | --- |
| `task`, `history`, `artifact` | the tables `a2a_tasks`, `a2a_task_history`, `a2a_artifacts`, or the maps of the memory provider |
| `call[c]` | a request with its copy of the task: `tasks/send`, `sendSubscribe`, `cancel`, `get`; for a stream also the executor goroutine and its channel of 8 |
| `Start`, `AppendHistory`, `SendSkill`, `SendFail`, `SendArtifact`, `SendComplete` | `handleTasksSend` (`handler_tasks.go:26-92`) from provider call to provider call |
| `ExecSubmitted` ... `ExecLast`, `Send` | `StartTaskExecution` and `send` (`task_executor.go`): when the client has left and there is room, either case of the `select` is taken |
| `StreamStatus`, `StreamArtifact`, `StreamEnd`, `StreamClosed` | the loop of `handleTasksSendSubscribe` (157-185) |
| `CancelRead`, `CancelUpdate` | `handleTasksCancel`: the row read, and then written back |
| `ExecuteSkill` | `executeSkill`; a claim is granted, refused or fails in one step, for how it is decided is the subject of `ClaimLog` |
| `AnswersTo` | which provider calls can fail: memory's only on a missing or duplicate task; the SQL providers' at any time, and always when the request's context is done; d1's at any time, its code does not look at the context |
| `GetArtifacts` | `handleTasksGet` from the row to the answer: an error of the query is returned (203-206), but d1's `GetArtifacts` has none, it takes a failed query for an empty one (`d1.go:432-434`); `unread` marks such an answer |
| `Restart` | a crash at any step: the calls end, memory loses its tables, and nothing looks for submitted rows at the next start |
| `Disconnect`, `Lapse`, `DeleteNamespace` with its statements | a client that leaves, a claim's deadline, the deletion: one transaction in sqlite, four statements in postgres and d1 |

`troubled` is a history variable: the tasks with a failed provider call, a client
that left, a crash of the process at work on them, or a deletion of the namespace.  It is what `ClaimsTraceable` and
`TaskSettles` except, so they say what holds while nothing fails, with calls that
overlap in every way.  `ArtifactsBeforeRow` holds through failures and crashes; it excepts the two errors that
the code passes over, d1's and that of a stream which could not store the artifact
(`handler_tasks.go:162-165`), by `unread` and the history variable `unkept`.

`ToolHooks.tla` is what runs around an agent's tools, in one session.  `book` is the
map from tool call to claim: Cursor's state file, which each hook process reads
(`CursorPreToolUse`, `CursorPostToolUse`), changes in a copy and rewrites in two steps
(`Truncate`, `SaveCursorState`), or the map `activeClaims` of the SDK and of the
extensions, whose hooks are interleaved at each `await` (`CheckCriticalMailbox`,
`Claim`, `ClaimAnswered`, `Release`, `Forget`).  The SDK also has a heartbeat timer per
claim.  `EndBegin`, `EndRelease`, `EndFinish` are the hook at the end of the session; a
JavaScript map shows entries that are added while it is iterated, and those that are deleted and set again
(`Forget` takes the key from `ender.seen`), Cursor's copy does
not.  `Killed` and `EndKilled` are Cursor's time limit of 5 seconds for a hook.  `late` are the timers
that were started while the end of the session awaited its releases.  `shared`, `ended`, `overlapped` and
`stray` are history variables that name the circumstances in which the
hooks lose a claim; the properties say that there are no others.  `overlapped` covers two
Cursor processes at once, one that is killed while it writes, and one that meets a file which it cannot
read (`MeetsTornFile`), since its entry then stays under a tool call that is over.  A torn state file
is never repaired before the session is over: `session-end` cannot parse it and does not remove it.

Between the hooks of the SDK or the extensions and this server there is a mistake in names: they send
`agent_id` and `resource_uri` (`client.ts:47-54`), and the server decodes into `ClaimRequest`, whose fields have no
json tags (`client.go:15-23`), so that it finds neither and answers 400 (`server.go:69-78`).  The hooks take
this for an outage.  `IsRead` says whether a claim gets through: with `NamesAgree` FALSE, as the
code is, they never hold one (`ToolHooks_http.cfg`), and everything the module says of their claims is true because there
are none.  The other runs have `NamesAgree` TRUE: what the hooks do with claims is checked as
for a server that understands them.  Cursor's hooks call `Client.Claim` in their own process and are not affected.

`Mailbox.tla` is the message table with what reads and writes it: the handlers of the HTTP
API, the A2A skill, and the check for critical messages that the hooks of
`ToolHooks` make before every tool.  `told` is the history of who was shown what.

| In the model | In the code |
| --- | --- |
| `box` | `mailbox_messages`, or memory's slice |
| `Send`, `SkillSend`, `SkillSendRefused` | `Service.Send`, which makes an id; the skill `send_mailbox`, which leaves it empty (`mapper.go:49-57`), so that a table with that key refuses the second |
| `Mailbox`, `Unread`, `Unexpired` | the query of `GetMailbox`: memory and sqlite show a message in its last instant, postgres does not, d1 does not look at `expires_at` |
| `CheckCriticalMailbox`, `CheckFails` | `checkCriticalMailbox` of `hooks.ts` and the extensions |
| `MarkRead`, `ArchiveMessage`, `Named` | the two handlers: by message id, from anyone who knows it |
| `ExpireMessages` | `Service.Expire`, which nothing in the program calls |

Ids are all that protects a message.  The module assumes that **agents ask under their own id**: `GET /mailbox`
takes `agent_id` from the query (`mailbox_handlers.go:70-75`) and needs no token (`server.go:44`),
so an agent that names another's id is shown the ids of its messages, and `DirectReaches` does not
hold against it.  The sender of a message is told its id too; it is assumed not to use it.  With the
managed provider a message is sent by the API of the server behind it, for
the provider's own `SendMessage` is always refused there: its body names no namespace.

`AuditLog.tla` is the channel, the worker and the table of audit events, which are
numbered in the order they come to the channel.  `Log` is `AuditLogger.Log`, `Receive` and
`TickerFires` the two cases of the worker's `select`, `StoreRow`, `StoreAll` and
`FlushFails` the provider's `AppendAudit`, which writes row by row in no transaction;
`Restart` flushes nothing, as the code does not, and `Purge` is the deletion
of the namespace, which memory's events survive.  `LossyLog.tla` is what it promises,
in four actions: an event is made, some of the first that wait are kept, in
order, events are lost, or the log is deleted.  `ImplementsLossyLog` is the refinement, with the
channel, the batch and the batch being written as what waits.

`MCClaimLog.tla` and `MCToolHooks.tla` are instances for TLC; the other modules
are checked as they are, `Leases`, `Feed` and `LossyLog` through the modules that implement them.  `Conflict_proofs.tla`, `ClaimLog_proofs.tla`,
`AuditLog_proofs.tla`, `Mailbox_proofs.tla`, `EventStream_proofs.tla`,
`TaskLifecycle_proofs.tla` and `ToolHooks_proofs.tla` hold the theorems.  A definition
with an underscored suffix (`SweepScan_allTypes`) is a faulty variant that no
specification uses: putting it in the place of the original must break a
property, which shows that the property is about that code.

## Runs

| Run | What it shows | Result |
| --- | --- | --- |
| `ConflictQuestions.cfg` | every pair of URIs of 1 to 3 parts over two names and two wildcards, every pair of operations, against the set of resources (up to 4 parts) a URI stands for | holds |
| `MCClaimLog_sqlite.cfg` | two sweeps at once, the ticker's and a posted one, with a deletion of the namespace, failures and restarts: what they may take, what comes back, and that expired rows go in the end | holds |
| `MCClaimLog_memory.cfg` | with heartbeats in sight, and the detector, which does not hear them | holds |
| `MCClaimLog_postgres.cfg` | grants on snapshots, transfers and intents, and the namespace deleted under calls in flight: the refinement of `Leases` | holds |
| `MCClaimLog_exclusive.cfg` | a claim is exclusive (`README.md:138`) | **violated**: two reads, two appends |
| `MCClaimLog_heartbeat.cfg` | a heartbeat extends a claim (`PRODUCTION_READINESS.md:34`) | **violated**: the SQL providers do not read heartbeats |
| `EventStream.cfg` | one stream for each provider, with two writers, a full channel, failing queries, removals and clients that leave or stop reading; until a removal only steps of `Feed`, but for postgres | holds |
| `TaskLifecycle.cfg` | two calls on one task, with every failure and crash; what is stored, what is traceable, and that tasks settle | holds |
| `TaskLifecycle_cancel.cfg` | `tasks/cancel` "releases the claim" (a2a-adapter-design.md:529) | **violated**: the row names no claim until the task is over |
| `MCToolHooks.cfg` | three claims on two keys and the end of a session, for the three kinds of hooks: nothing is released under a tool, nothing is left behind, also when keys are used again | holds |
| `Mailbox.cfg` | two agents, two messages, an expiry, deletions and restarts | holds |
| `AuditLog.cfg` | six events through a channel of two and batches of three, for five providers; the refinement of `LossyLog` | holds |

### Further configurations

These, but for the last, state one property each that the code does not have, and TLC finds the behaviour that
breaks it.  They are kept as demonstrations.

| Configuration | What is said | What happens |
| --- | --- | --- |
| `ConflictQuestions_covering.cfg` | "Check if b is a prefix pattern that covers a" (`claims.go:108`) | lines 104-107 have returned when `a` is a tree itself: `x/y/**` is not refused over `x/**` |
| `MCClaimLog_two_sweepers.cfg` | a sweep deletes "expired claims" (`sqlite.go:449`) | the ticker and `POST /expire` sweep at once: the offset of a swept row is given to a new claim, which the other sweep deletes |
| `MCClaimLog_silent.cfg` | "Seconds without heartbeat before agent is declared dead" (`cmd_serve.go:39`; so death-detection-design.md:6-16, 27, 35) | `Heartbeat` appends with no agent id (`client.go:85`): an agent whose heartbeats come in time is declared dead when its last claim is older than the timeout |
| `EventStream_replay.cfg` | "If since is 0, only new events are streamed (no replay)" (`provider.go:40-42`; so dual-runtime-design.md:264-266) | every provider sends all rows above 0 |
| `EventStream_unflushed.cfg` | each event is flushed to the client (`sse.go:53-55`) | the response cannot flush: an event is written, and stays in the buffer of the server |
| `EventStream_misses.cfg` | numbers let clients reconnect "without missing events" (`provider.go:78-79`) | two overlapping postgres transactions give one number, and the later row is passed by |
| `TaskLifecycle_disconnect.cfg` | "On disconnect, it releases any held claim and marks the task failed" (sse-streaming-design.md:217) | an executor whose client leaves after the skill ends with the claim in force and the task as it was |
| `TaskLifecycle_artifacts.cfg` | "Check CreateArtifact error", "Check GetArtifacts error" (a2a-security-fixes-design.md:51-53): a completed task is shown with its artifact | a stream does not check the first (`handler_tasks.go:162-165`), and d1 never reports the second (`d1.go:432-434`) |
| `ToolHooks_stale.cfg` | "Stop all heartbeats before releasing to avoid stale heartbeats firing" (`hooks.ts:187`) | the answer to a claim comes while `sessionEnd` awaits a release: the timer that starts then outlives the release of its claim |
| `ToolHooks_block.cfg` | in mode block the "Tool is rejected" (`sdk/INTEGRATION_GUIDE.md:242-247`) | the Cursor hook takes the conflict, which `Client.Claim` returns as an error, for an outage and allows the tool |
| `Mailbox_skill.cfg` | "`tasks/send` with `send_mailbox` delivers a message" (a2a-adapter-design.md:527) | the second message of the skill has the empty id of the first and is refused |
| `Mailbox_broadcast.cfg` | a broadcast is "sent to every connected agent" (`PRODUCTION_READINESS.md:170`) | the first agent to mark it read hides it from who asks for unread messages |
| `Mailbox_expired.cfg` | "expired messages are filtered at query time" (`server.go:268-269`) | d1 does not filter |
| `ToolHooks_http.cfg` | over HTTP the SDK and the extensions are never granted a claim, nor refused one | **holds**: the server does not read the names they send |

The audit log's design (docs/superpowers/specs/2026-05-26-audit-log-design.md) lists expired
claims, deaths, heartbeats and mailbox messages among the events of its levels; the code logs
claims, releases, refused authentications and rate limits only (`Security` in `AuditLog`).

The properties, each stated above its definition:

* `NoLateConflict`: of the claims whose row `Claim` read before it granted a
  conflicting one, none is in force from then on.  This is what the
  check is worth: overlapping claims come only from calls that did not see each other, or from a
  release that a sweep has deleted (`lost`).
* `EndedForGood`: a claim out of force stays out of force (SQL providers), but for one way back:
  two sweeps have the same offsets on their lists, the rows go with the first, a claim and its release take
  the offsets, and the second sweep deletes the release.  The property allows this step (`StaleDelete`) and
  no other.
  `RevivedOnlyByHeartbeat`: with memory a late heartbeat does revive a claim, but
  nothing else does, and never one that was released or transferred.
* `ImplementsLeases`: both at once, and that the calls do nothing else to a claim than what
  `Leases` has an action for.
* `SweepTakesOnlyNew`: what overlapping sweeps, appends and deletions can make of an offset that has
  gone stale between the query and the DELETE.  A sweep takes a row that is no expired claim only if the row was appended
  after its query, at a number above everything that the query saw and that is left; so no row that a sweep has seen and passed
  over is ever taken by it.  That it takes new rows at all, claims in force among them, is shown by
  `MCClaimLog_two_sweepers.cfg`.
* `ExpiredGetSwept`: rows of expired claims go in the end.
* `DetectorSparesHeard`: of an agent whose claims the detector is about to end there is no row from
  within the timeout, and those claims were made before it, however much happened since it made its list.  The rows that it can
  hear are claims; heartbeats are not among them (`MCClaimLog_silent.cfg`).
* `SentInOrder`: a stream sends in the order of numbers and nothing twice, although
  numbers are given out again.  `NothingSkipped`: with memory and sqlite, as long
  as nothing is removed, it passes no row by.  `SkipsOnlyLateRows`: what it passes
  by otherwise is a row committed late, under a number that was already used or
  passed; nothing else loses an event, in particular no full channel, no failing
  cursor, no cancellation.
  Both and `SentInOrder` hold for d1 too, whose appends pass each other.
* `ImplementsFeed`: until a row is removed, the streams of these three providers are a feed.  This adds
  that the numbers are those of the commits, that the next one sent is always the one after the last,
  and that no stream ends with something in its channel.
* `AppendReturns`: an `Append` of the memory provider returns, unless some stream holds the read lock over a
  full channel for ever, which takes one client that stays connected and does not read.
  `EventuallyWritten`: a row above a polling stream's number is written to its response, unless the
  client stops reading; when it reaches the client is another matter (`EventStream_unflushed.cfg`).
* `ConcreteDecidedExactly`, `NoPhantomConflict`, `MutatorsExcludeBothWays` for the rules.
* `UnfinishedNamesNoClaim`: the reason why a cancellation releases nothing.
  `ClaimsTraceable`: a claim in force is named by its task's row or by a call at work,
  unless the task was cancelled, or something failed or crashed: sends, streams and cancels that
  overlap lose no other claim.  `ArtifactsBeforeRow`: a row that says completed has its artifact, and who is shown the one is shown the
  other, through failures, disconnects and crashes, with the two exceptions named above.  `NoSkillOnceGone`, `SomeEvent`: an executor whose client left before it
  began runs no skill, and never closes its channel without a word.
  `TaskSettles`: no task stays submitted, unless something failed or the process crashed at work on it; after a
  crash the row of such a task stays submitted until a client cancels it, and its claim until it lapses.
* `ClaimCoversTool`: no hook releases a claim under another hook's tool.  `Tracked`: calls that
  were not disturbed leave no claim behind.  A shared key, a session that ends under a tool, and Cursor processes that overlap, are
  killed or meet a torn file do leave claims, and are excepted: of them `Tracked` says nothing, while `ClaimCoversTool` holds through the last three.
  `TimersStopBeforeRelease`: no
  heartbeats for a released claim, but by a timer that was started while the end of the session awaited its releases.
  `EndReleasesBook`: the end of a
  session releases what was in the book when it began, although calls in progress add to the map, unless Cursor kills it or
  two calls share a key.  `EndFinishes`: it ends, unless tool calls go on adding entries for ever.
* `DirectReaches`, `AckedStaysRead` and `NotStoppedForGood` say of the mailbox what the
  inventory asks for.  `DirectReaches` rests on ids: nobody who asks under its own id is shown a message that is not for it.
* `Accounted`: every event is in exactly one place.  `NothingStuck`: none stays with the
  worker.  `ImplementsLossyLog`: the table is in order and without duplicates.

### Bounds

Two agents and two claim identifiers are enough for two conflicting claims, and
for a row that is reused by a second one; three (four for two agents with two sweepers) offsets
for two claims and a message about one of them, or a row that takes a swept
row's offset.  The sqlite run has one agent, for what it asks is about rows and not about
conflicts, and in exchange two sweepers and a deletion: the second claim, or its release, takes the offset that
the first gave up.  Grants are decided on the postgres run, where no sweep deletes; the exemption `lost` of
`NoLateConflict` would need three claims, and is left to the proof (`GrantsExclude`).  The clock runs to 3 with deadlines of 1 or 2, so that a claim
expires, and another lives past the first one's end, in the same behaviour.
`MaxOffset`, `MaxTime` and `MaxDeletes` bound `Append1`, `Tick` and
`DeleteNamespace`; when they are reached, the system still moves (`Restart` is
always possible), so deadlock is checked but says little.  Agents and
identifiers are symmetric where no liveness is checked.  Identifiers are
distinct by assumption: `generateClaimID` takes the nanosecond clock.

The `before` of a sweep is the present or an earlier time.  A caller of `POST
/expire` may name a later one, and then asks for claims in force to go.  Rows
appended raw through `POST /append` are not modelled.

`EventStream` has one stream, since streams meet only at memory's lock; a channel of
one, so that it is full after one row; three rows, so that two are in a batch
and one comes late; and one removal, a sweep or a deletion, since what matters is
whether a number is given out again.  `since` takes every value that can lie below,
at or above the numbers in use.

`TaskLifecycle` has one task, since calls on different tasks share nothing but claims; two
calls at once, which gives every pair of methods on it, with further calls after either is done; one
claim (a second one is refused or taken after a deletion); and the channel's real
capacity of 8, which its at most five events never fill.  Its run leaves out postgres, whose
calls fail as sqlite's and whose deletion comes in statements as d1's.

Restarts are not bounded in any module.

`ToolHooks` has two tool calls, each of which may come again, and three claims: enough for a shared
key, for two processes that overwrite each other's file, for a session that ends between
them, and for what a lost entry does to a later call with its key.  `MCToolHooks` leaves out
the states with a third claim after a shared key or after a session that ended under a tool,
and for Cursor those with both, of which all but one of the properties say nothing.  `TimersStopBeforeRelease` and
`EndReleasesBook` are thus checked under such disturbances with two claims, and proved for any number.  As claims are bounded,
the premise of `EndFinishes`, that entries are not added for ever, is true of every behaviour of the run.  Its run leaves
out the mode `warn`: a tool that goes on after a refusal is one without a claim, which a server
out of reach gives as well, and the extensions under a locking server.

`Mailbox` has two agents, an addressee and another, and two messages, of which one may
stand in the other's way; a message lives for one instant of three, so that it is
seen before, in and after its last one.  Its run takes memory (no key, and shows the last
instant), postgres (a key, and does not show it) and d1 (shows all); sqlite is
postgres' key with memory's instant, managed is postgres without the skill.

`AuditLog` has a channel of two and batches of three, where the code has 256 and 32: the channel
overflows, a batch is filled, one is flushed by the ticker and one half written,
and six events let all of these happen in one behaviour.

### Fairness

`Fairness` says that for each sweeper in `Tickers` a scan with the present time is not put off
for ever once it is possible (the ticker of `RunSweeper` comes round whatever the last
sweep returned), and that a DELETE that can be tried again and again succeeds at
last, although single ones fail and the process may restart in between (strong
fairness).  A database that fails every DELETE for ever is excluded; so is nothing
else, and neither an agent nor who calls `POST /expire` is assumed to do anything.  Only `ExpiredGetSwept` needs it.

In `EventStream`, goroutines that can run do, memory's lock goes to the writer
that waits for it once it is free, and a cursor does not fail for ever (strong
fairness of `StreamSend`).  Nothing is assumed of clients: `sse.go` sets no deadline for a write, so one
that stays connected and does not read stops the handler (`Deliver` is not fair), and `Arrive` is not fair either, since nobody flushes.
`AppendReturns` and `EventuallyWritten` name the channel that is never emptied as the one way in which they fail.

In `TaskLifecycle`, the goroutines of a request run on when they can: its handler and
its executor are weakly fair, and provider calls return, with an answer or an error.  It is fairness
of a process that is up: a `Restart` ends the calls, and of those nothing is required any more.  Only
`TaskSettles` needs it, and no client is assumed to do anything.

In `ToolHooks`, the hook at the end of the session goes on (weak fairness of
`EndStep`), since a request is answered, or fails with its connection; nothing is assumed of the
tools.  Only `EndFinishes` needs it.

In `Mailbox`, the clock goes on, and an agent that was stopped tries again (weak fairness of
`Tick`, and of each agent's check).  `NotStoppedForGood` also rests on `MaxSends`: an endless supply of
critical messages would stop an agent for good.  d1 is excepted, as it shows expired messages for ever.

In `AuditLog`, the worker goroutine runs, its ticker fires and its writes return (weak fairness of
`Worker`).  Nothing is assumed of those who log, and nothing of restarts.

## Proofs

All theorems hold for any sets of agents, identifiers, requests, sweepers, messages, streams,
writers, tasks and calls, and any bounds.

About the claim log, from `ConstantsAssumption` and `NoClaimAssumption`, stated in
`ClaimLog`:

* `TypeCorrect`: `Spec => []TypeOK`.  `TypeOK` is not inductive: the detector
  appends releases under `claims[id].agent`, which is an agent only if the
  identifier it listed belongs to a claim.  `TypeInv` adds `Known`: every
  identifier in a row, a snapshot or the detector's list was returned by a
  `Claim` call, and one in flight is in flight once.
* `SweepSound`: `SweepTakesOnlyNew`, with no assumption on which sweeps and deletions overlap.  The
  strengthening, `SweepInv`: offsets are unique, what a sweep has in `kept` is in the table, and an offset on its
  list is that of an expired claim, or of no row, or above everything in `kept` (`PlanSound`).  An append goes above all
  rows, so a number that is given out again lies above what is left of every query.
* `Finality`: `EndedForGood` for the SQL providers.  A claim
  row of a returned claim is never written again; a release goes with
  the whole table, or in the step that the property names; what is appended lies higher; and
  without heartbeats the deadline is fixed.
* `GrantsExclude`: `NoLateConflict` likewise.  The strengthening, `SnapshotSound`:
  a claim that a snapshot has a row of, that has lost no release and is in force in the table, is
  active in the snapshot too at the present time.  So a conflicting claim in
  force would have been among the blockers; afterwards `Finality`'s step lemma
  keeps the others out of force.
* `DetectorJudgesSilent`: `DetectorSparesHeard`.  `Dated`: every claim row of a claim carries its agent
  and a time no earlier than its creation, so the time that the detector subtracts makes no claim
  older than it is; `Judged`: what is condemned, and every row with its agent's id, was old when it was judged, or came since.
* `RevivalByHeartbeat`: `RevivedOnlyByHeartbeat`, for any provider.  `EndsAbove`: a release
  or transfer of a claim lies above its claim row, so while it is there the claim is not in
  force; besides a stale DELETE of it, all that can put a claim back is a later deadline.
* `LostOnlyToOverlap`: a release is lost only where sweeps overlap: with postgres and memory, or with one sweep at
  a time and no deletion (`SafeSweeping`), `lost` stays empty, since every offset on the list is then that of an expired claim
  that is still there (`PlanExpired`).
* `KeepsPromise`: `ImplementsLeases`, for the SQL providers, of every behaviour in which no release is lost (`NothingLost`).  With
  `LostOnlyToOverlap` this is every behaviour of postgres, and of sqlite with one sweep at a time.  `Leases` has no
  step that brings a claim back, so more cannot hold.  The
  invariants are those above; what is new is one lemma per kind of step.  `LookStep`: an
  active claim has its row in what is read, and a row that is read is of a claim that began.
  `TakeStep`: no blocker among the rows read means no clash with what is in force, by
  `SnapshotSound`.  `BeginStep`: a row about one claim changes nothing for another.
  `GiveUpStep`: a refusal, a failure and a restart set free only identifiers that no row
  names.  `EndStep`: everything else leaves calls and payloads alone, so by
  `NoneComesBackStep` it can only end claims.

About the rules (`Conflict_proofs`), from `NamesAssumption` (no name is a wildcard), for any names and URIs of
any length:

* `MutatorsExclude`: two mutating claims, one on a
  concrete resource, are refused over each other in both orders.  It is about the operators
  alone; `OrderIndifferent` states it of the questions (`MutatorsExcludeBothWays`).
* `MatchingExact`: `ConcreteDecidedExactly`.  `MatchIsMembership`: a URI is found matching with a
  concrete one exactly when the latter is among the resources it stands for; a concrete URI stands
  for itself alone (`ConcreteDenotesItself`).  The comparisons of the code are
  pointwise, prefix against prefix and part against part, so no induction is needed.
* `NoFalseRefusal`: `NoPhantomConflict`.  What a URI that a tree covers, or that a pattern
  matches, stands for, the tree or the pattern stands for too (`CoveredShares`,
  `PathMatchShares`), unless it stands for nothing: a tree with a wildcard in its prefix.

About the audit log (`AuditLog_proofs`), from `AuditConstants`:

* `TypeCorrect`, and `EveryEventAccounted`: `Accounted`, every event is in exactly one
  place.  The inductive invariant is `Events /\ Pipeline /\ Accounted`.  `Pipeline` says
  that the events stored are older than those being written, these older than the batch,
  and the batch older than the channel, so that an event that is moved on is in no other place.
  `Sizes` adds the bounds of channel and batch to it.
* `TableIsLossyLog`: `Spec => Lossy!Spec`, from the same invariant.  `StepRefines` maps
  `Log` to `Make`, `StoreRow`
  and `StoreAll` to `Keep`, `FlushFails` to `Lose`, the deletion and a restart to `Purge` or `Lose`, and
  the steps of the worker between channel and batch to stutters.  `Pipeline` is needed here too: what is kept next must be the
  first that waits.

About the mailbox (`Mailbox_proofs`), from `MailboxConstants`, which say among others that no
agent is named `broadcast`; the code does not check it:

* `AddresseeSeesFirst`: `DirectReaches`, a message to one agent is not marked read or archived before
  that agent was shown it.  `AcknowledgedOnce`: `AckedStaysRead`.  `TypeCorrect`.
  The inductive invariant adds that the number and the id of a row are its own
  (`Numbered`, `OwnNumber`, `OwnId`), without which an id would reach the wrong row; that who was told of a
  message is one it is for; and that what was acknowledged is read or gone (`AckedGone`).

About event streams (`EventStream_proofs`), from `StreamConstants`:

* `NeverBack`: `SentInOrder`.  `Forward`: what was sent lies at or below the cursor `since`, what is in
  the batch above it, and the numbers of a batch differ where two rows cannot be given one number.
* `PassesNothing`: `NothingSkipped`.  `Complete`: while nothing is removed, every row up to the
  cursor was sent, and a row that is not in the batch lies above all that are.  That a new row has
  the highest number is plain for memory and sqlite; for d1, whose writers read offset and
  number in two statements, it needs `Gapless`: offsets are taken without a gap, and a writer whose
  offset is still free has the same number.
* `PassesOnlyLateRows`: `SkipsOnlyLateRows`, also for postgres and under removals.  `Late`: every row
  that was passed has its excuse, and what is not in the batch that was read was committed after it.
* `StreamIsFeed`: `ImplementsFeed`.  To the invariant above it adds, while the table is `Steady`, `Filled`: the
  numbers in the table are 1 to `rows` in the order of the commits; and `Contiguous`: a stream has sent
  as many rows as lie between its start and its cursor.  `OpenNumber` is what d1 needs: a writer whose
  INSERT succeeds still has the next number, however long ago it read it.  `SendFeed` is where they
  meet: the row that goes on the channel is number `since + 1`.  `SteadyIsFeed`: `Spec => Promise!Spec`
  where `MaxRemovals = 0` and postgres is not among the providers.
* `TypeCorrect`.

About tasks (`TaskLifecycle_proofs`), from `TaskConstants`:

* `CancelFindsNoClaim`: `UnfinishedNamesNoClaim`.  Every row is written from what a call carries, so the
  invariant, `Sound`, says for each place of a handler and of an executor which states and claims are
  possible there and in the events that are under way: a final event carries a final state, or
  comes from an executor that took no claim.  `TypeCorrect`, `NoSkillForNobody` (`NoSkillOnceGone`)
  and `NeverSilent` (`SomeEvent`) follow from it too.
* `ClaimsFound`: `ClaimsTraceable`.  `Traced`: one call at most works on a task where nothing has
  failed, the task is stored, and its claims in force are the one that the call names; when no
  call does, the row names it or is cancelled.  `Honest`: a call names no claim before its skill, its final event
  names the claim of the call, and only a stream whose client left ends without one.
* `ArtifactsSeen`: `ArtifactsBeforeRow`.  `Backed`: a final event of a completed task with a claim comes after its artifact
  event in the channel (`Ordered`), or that one has been handled and the artifact is stored or the task is in `unkept`; what
  a handler holds as completed, and what is in the row, rests on the same.  No exemption is made for failed calls,
  clients that left or crashes: an error of `CreateArtifact` in a send, and one of `GetArtifacts` that is an error, end the call.

About the hooks (`ToolHooks_proofs`), from `HookConstants`:

* The invariant is `Base /\ Covered /\ Timed /\ Kept`.  In `Base`, `Keyed` carries the rest: whatever the book, a
  copy or a call names as a claim, it names under the key of the call that took it, so that hooks which
  disturb each other's claims have a key in common (`shared`).
* `RunningToolCovered`: `ClaimCoversTool`, by `Covered`.  Cursor processes that overwrite each other's file, or are
  killed, do not release what a running tool needs, since an old copy still has its claims under their keys.
* `TimersStop`: `TimersStopBeforeRelease`, by `Timed`: the timer of a claim to be released is
  stopped, a claim whose answer has just come is in no book and with no other call, and while a session ends all
  timers there are have been started since.
* `ClaimsTracked`: `Tracked`, by `Kept`: as long as nothing was shared, ended or overlapped, an open claim
  is in the book or with its call, the book's open claims are owned by calls in progress, and a
  Cursor process has a copy that differs from the file in its own key only.
* `EndReleasesAll`: `EndReleasesBook`.  `Due`: a claim that was in the book when the
  session's end began, and is still open, is in the book under a key that the end has not come to or is to meet again, as
  long as no two calls had one key.  Hooks that go on meanwhile delete such an entry only with its claim
  (`Engaged`: an entry has a call at work on it, which forgets it after it has released the
  claim), so when no entry is left to come to, none of those claims is open.
* `TypeCorrect`.

Only model-checked are `ExpiredGetSwept`, `AppendReturns`, `EventuallyWritten`, `TaskSettles`,
`EndFinishes`, `NothingStuck` and `NotStoppedForGood`: liveness under fairness is out
of the prover's reach.  Every invariant, action property and refinement that a passing run checks is a theorem; those of the claim log that are about
finality hold for the SQL providers, which the theorem says.

## Not modelled

* Formatting, parsing and validation of strings, logging, TLS, flags and the command line: they
  decide on one request and keep no state.
* Authentication of A2A requests: it decides from the headers and from answers of other
  servers.  Its one shared state is the cache of keys, which is filled with the
  same keys whoever comes first (`auth.go:250`).
* The rate limiter: one critical section over a list of times (`ratelimit.go`).  Its hazard is the
  time that is read before the lock is taken.
* The file watcher: it makes the client calls of the hooks, on events of the operating system and
  its own debounce timers.
* The durable object: the same code built as wasm, with a sweep by alarms.
* The managed provider as the store of claims: an HTTP proxy of the provider behind it.  What differs is
  modelled, in `Mailbox` and `AuditLog`.
* d1 as the store of claims: `ClaimLog` has memory, sqlite and postgres.  d1's
  appends, which are what is different, are in `EventStream`.
* `Subscribe` of the providers and `IsClaimActive`, which only tests call; appends to a stream by
  `POST .../append` other than what the client makes; the creation of a namespace.
* Cursor's `session-start`, which writes the empty state file (the initial state of `ToolHooks`), and the
  start of a server by the extensions.
* A composition of all modules: their tables meet only in the deletion of a namespace, in restarts
  and in claims (see the inventory).
