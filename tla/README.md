# Verification of the Open SMS Gateway

TLA+ models of the gateway, checked by TLC on small instances; their safety properties
are proved by TLAPS for every instance. Definitions are translated from the Python
source; `PROJECT.json` maps each one to the lines it stands for.

- [1. The system](#1-the-system)
- [2. Inventory](#2-inventory)
- [3. Modules](#3-modules)
- [4. Runs](#4-runs)
- [5. Proofs](#5-proofs)
- [6. Where code and documents disagree](#6-where-code-and-documents-disagree)
- [7. Assumptions, and what is not modelled](#7-assumptions-and-what-is-not-modelled)
- [8. Plan](#8-plan)

## 1. The system

Two containers share one SQLite file, and nothing else.

- The **worker** (`gateway/worker`) is one synchronous loop that owns the modem:
  it drains the outbound queue, reads the modem's inbox, writes a heartbeat, and
  reconnects with backoff when anything raises.
- The **api** container (`gateway/api`) serves the REST API and the admin panel
  from a thread pool, and runs the webhook dispatcher as an asyncio task.

They interact through rows: `messages` (a queue in one direction, an inbox in the
other), `webhook_deliveries` (created by the worker, worked off by the dispatcher,
reset and purged by the panel), `gateway_config` (the webhook target, the restart
flag) and `gateway_status` (the heartbeat). No session holds a lock while it waits
for the modem or for a receiver, so every read may be stale by the time it is
committed upon. Docker restarts a container that exits.

## 2. Inventory

| Component | State | Operations | Hard behaviour | What makes it correct |
|---|---|---|---|---|
| Outbound queue and send loop (`worker/main.py`, `worker/modem.py`) | `messages.status`, the frames of `process_outbox` and `send_sms`, the driver's StateMachine | accept, claim, submit part by part, retry, requeue, commit, recover, restart | crashes and failed commits between submit and commit, partial multipart sends, reconnects in mid-queue, purges of rows in flight | no duplicate unless the worker lost track; a concluded message is silent; sent only after everything was on the air; FIFO; every message concludes |
| Inbound (`worker/modem.py`, `worker/main.py`) | the modem's storage, `driver._pending`, the batch in hand, `messages` | capture by callback, read, link, delete, commit texts, commit reports | a callback that interrupts a drain, parts that arrive across two polls, deletions that fail, a deletion that precedes the commit, stale reports | lost only between deletion and commit; stored twice only after a failed deletion; torn only when its parts come apart; stored in the end |
| Webhook dispatcher (`api/webhooks.py`) and manual retry (`api/routes_admin.py`) | `webhook_deliveries`, the round in progress, the settings it read | poll, sign, post, record, back off, retry by hand, rotate, purge | the await between read and commit, lost answers, requests racing each other and the dispatcher | delivered only if taken; repeated only after a lost answer or a race; failed only after all attempts; attempts bounded; every delivery concludes |
| Throttle and backoff (`worker/main.py`) | the bucket's balance, the delay | take, refill, double | negative balances, lazy refill, idle bursts, restarts that fill the bucket | bounded rate in any window, no time lost or counted twice |
| Report matching (`worker/main.py`) | `modem_ref`, `delivered_at` | match by number and TP-MR | a one-byte reference that wraps, multipart messages | no report confirms another message, but for a whole round of references; its own is not wasted on an older one |
| Heartbeat and `healthz` (`worker/main.py`, `api/main.py`) | `gateway_status` | write, age | a drain longer than the limit, failures in a row, failed writes | degraded means that the modem kept the worker, or that it cannot write |
| Rate limiter (`api/ratelimit.py`) | hits per key | allow | threads, clock read outside the lock | at most n in a window; a denial is earned |
| Runtime settings (`configstore.py`, `routes_admin.py`) | `gateway_config` | set, clear, rotate, request a restart | requests and the worker between read and commit | a secret exactly when a URL; an accepted restart happens |
| Migrations (`shared/db.py`) | schema, `schema_version` | migrate | two containers at once, a kill between script and record | up means complete; both come up |
| API tokens (`api/auth.py`, `routes_admin.py`) | `api_tokens` | create, use, revoke, delete | concurrent requests | a revoked token is refused for ever; its times are evidence |
| Admin users and sessions (`routes_admin.py`) | `admin_users`, signed cookies | login, create, change, delete | sessions that outlive their user | one row per name; a deleted user has no session |
| Message list (`routes_api.py`) | cursors | page | rows committed behind a cursor | no row twice; none missed but those committed behind the cursor |
| Segment counting (`shared/sms.py`) | none | count | characters that straddle segments | what is charged is what is sent |
| Everything else: ORM models, environment settings, event log, pages, manual, fake driver | | | | no control worth a model; `PROJECT.json` lists each |

The hazards of these components are listed one by one in `PROJECT.json`, each at
its line, with the properties that cover it. What each property is for is said there.

## 3. Modules

| Module | Models | Extends / instantiates |
|---|---|---|
| `OutboundContract` | what a caller of the API is promised about a message, with no worker in it | |
| `Outbox` | queue, worker, multipart submit, panel, faults | instantiates `OutboundContract` |
| `MCOutbox` | `Outbox` with one single-part and otherwise two-part messages | extends `Outbox` |
| `Inbound` | modem storage, callback, drain, commits, faults | |
| `DeliveryContract` | what the panel's log promises about a webhook delivery, with no dispatcher in it | |
| `Webhook` | dispatcher, receiver, manual retries, settings, purge, faults | instantiates `DeliveryContract` |
| `Tokens` | API calls beside creation, revocation and deletion of their tokens | |
| `Accounts` | admin users, logins, sessions | |
| `Settings` | webhook URL and secret, the restart flag and the worker that honours it | |
| `MCPanel` | the panel's three tables in one instance | extends `Tokens`, `Accounts`, `Settings` |
| `Limiter` | `RateLimiter.allow` under threads | |
| `Paging` | `GET /messages` and its cursor while rows come and go | |
| `Migrations` | `run_migrations` of two containers, statement by statement | |
| `Reports` | delivery reports and the rows they are booked on | |
| `Throttle` | `TokenBucket`, backoff, heartbeat and `healthz` in time | |
| `Segments` | `count_segments` and `body_too_long` beside the encoder | |
| `MCServices` | the six modules above in one instance | extends them |
| `OutboxProofs`, `InboundProofs`, `WebhookProofs`, `ThrottleProofs`, `TokensProofs`, `ReportsProofs` | the inductive invariant of one module, and its theorems | extends that module |
| `PanelProofs` | the same for `Settings` and `Accounts`, and for the panel as a whole | extends `MCPanel`, `TokensProofs` |
| `ServicesProofs` | the same for `Limiter`, `Paging`, `Migrations` and `Segments`, and for the six together | extends `MCServices`, `ReportsProofs`, `ThrottleProofs` |

`MCPanel` and `MCServices` are sums: the components they hold share no state in the
models, so a variable chosen at the start (`table`, `part`) says which one moves, and
the others rest in their initial states. A run over the sum visits exactly the states
of each component, and none of their meaningless products.

### Outbox

`status` is the column, with "none" before the row exists and "purged" after it was
deleted. A message is named by its rank in `(created_at, id)`, the order of the
queue; `Accept` takes any message, so rows are committed in any order. `pc` follows
the worker through `run`, `process_outbox` and `send_sms`:

    down -> head -> connect -> reclaim -> drain -> take -> load -> submit -> commit -> take ...
                                            take -> inbound -> head      any -> backoff -> head

| Action | Code |
|---|---|
| `Accept`, `Purge`, `RequestRestart` | `post_message`, `chat_send`, `send_test_sms`; `purge_messages`; `restart_worker` |
| `Boot`, `Reclaim` (both `Recover`) | `recover_interrupted_sends` at start, and after a reconnect |
| `CheckRestart`, `Connect`, `Retry`, `Raise` | the loop head, `connect`, the except clause of `run` and its backoff |
| `Drain`, `EndDrain`, `Take` | the query of `process_outbox`, the end of its loop or the bucket's denial, the claim |
| `Load` | the attributes that the claim's commit expired are read again; for a purged row that raises inside the try |
| `Submit`, `SubmitFails`, `ConnectionLost`, `NotConnected` | one part submitted; a part that fails, having left the modem or not; a lost connection, which drops the StateMachine; a submit without one |
| `GiveUpOrRetry` | `_send_with_retries` and `PartialSendError` |
| `Commit` | the verdict is committed: sent, failed, or queued and raised again |
| `ApplyReports`, `NothingAttached` | `process_inbound` as far as outbound rows are concerned |
| `Crash`, `DatabaseFails`, `ConnectFails` | the process dies; a statement or a commit fails; no modem |

A purged row makes a commit raise, because SQLAlchemy finds no row to update; in
`Take` and `Commit` that unwinds the iteration. Four history variables make the
properties sayable: `air` (the parts that left the modem), `dup` (messages a part
of which left it twice), `doubt` (messages the worker lost track of: it unwound
or died with parts out, or a first part left although its submit failed) and
`broken` (messages whose multipart send broke off).

`OutboundContract` sees a message as none, pending, sent, delivered, failed or
purged. The refinement maps queued and sending to pending, and `air` to the set of
messages all of whose parts were on the air.

### Inbound

The modem deals in pieces, the parts of texts and status reports; a text is the set of
its parts. A piece is `coming`,
in `storage`, captured in `pending` (the callback), in the worker's hand (`taken`
from the callback's list, `raw` from the storage), or `stored`. `Fetch` is the swap
of `_pending`, `ReadAll` the loop over `GetNextSMS`, `Delete` and `DeleteFails` one
`DeleteSMS` each, `ReadFails` the except clause of `fetch_inbound` that gives the
captures back; `Link` is `LinkSMS`, which groups the parts that were read together, the
incomplete texts among them, as gammu leaves the check for missing parts to its caller;
each group, and each captured part, is a row of its own (`Save`). `CommitTexts` and `CommitReports` are the two transactions of
`process_inbound`, the second of which a stale row may skip. `Announce` is the
callback: it runs while any gammu command does, in the middle of a drain too.
`exposed` records what was deleted or captured, but not committed, when the worker
died or a commit failed; `kept` the pieces whose deletion failed; `apart` the texts of
which a part was captured, or still on its way when another was read.

### Webhook

`round` is what is left of the list that `process_due_deliveries` works off, `signer`
the secret it read, `cur` and `loaded` the row it attempts with the count it loaded,
`outcome` what became of the POST. Between `Post` and `Answer` and between any two
actions the panel's requests run. `retry_delivery` is two actions, `RetryCheck`
and `RetryCommit`, since nothing keeps other writers away between its read and its
commit. `EndRound` is the end of the round or an exception that `dispatcher_loop`
logs. `took` is what the receiver has taken, `again` what it was given again,
`url` what it read for a target: a URL that httpx parses or one that it does not, which
raises where only `HTTPError` is caught (`PostRaises`).
`doubt` the deliveries of which an answer was lost, `raced` the rows a retry reset
although they had not failed. Backoff delays are abstracted to `due`: a pending
row becomes due again at some time (`Elapse`).

`DeliveryContract` counts attempts and grants them: the refinement maps `status`, `took` and
`attempt` as they are, and the budget to the chain of `MaxRetries + 1` and one for each manual
retry. An attempt that is never recorded (a crash, a lost commit, an unparsable URL) is none of
the contract's; a retry that finds the row in another state than failed still reopens it,
because the code does.

A row whose message is gone does not occur but for a purge of both, which then
makes the commit raise: that is `Load` with a purged row.

### Tokens, Accounts, Settings

Requests run in a thread pool, and an SQLAlchemy session takes SQLite's lock with the
first row it writes: everything a request read before may have changed. Each request is
therefore a read and a commit, with others in between; from the first write on it is one
step. A commit may also find its row gone: an UPDATE then raises (`StaleDataError`), a
DELETE only warns, an INSERT of a name that exists raises.

- `Tokens`: `Lookup` and `Stamp` are the two halves of `authenticate`, `ReadRow` with
  `RevokeToken` or `DeleteToken` those of the panel's handlers. `lateCall` marks the calls
  that came in after their token was revoked, `goneAt` when it first was. `TokHold` is how
  long a request may hold what it has read: SQLite's busy timeout ends the wait.
- `Accounts`: `LoginReads` and `LoginIssues` are separated by the verification of the
  password; `Admit` is `require_admin`, which looks up the username in the cookie and
  nothing else; `owner` remembers the row for which the cookie was issued.
- `Settings`: `set_webhook` with a URL (`SetReads`, `SetCommits`), without one when there was
  one (`ClearReads`, `ClearCommits`) and when there was none (`ClearLooks`,
  `StripCommits`, which write nothing until they find a secret), `rotate_webhook_secret`
  (`RotateReads`, `RotateMerges`, `RotateCommits`), `restart_worker` and the worker's
  `restart_requested`. `merge` writes an UPDATE or an INSERT by what it has read, and
  raises when that is no longer so.

### Limiter, Paging, Migrations

- `Limiter`: `ReadClock` precedes the lock, `Decide` is what happens under it. `LimLag` is how
  long a thread may wait between the two.
- `Paging`: a message is stamped, then committed; `List` is a page. `overtaken` records the
  rows that were committed when the cursor was past them. Ids are naturals: only their
  order matters.
- `Migrations`: `Execute` is one statement of `executescript`, which commits it;
  `RecordVersion` the row of `schema_version`. A container that raises is down, and docker
  starts it again. `torn` records a kill within a script that cannot be repeated. The file
  is new, or one of an earlier release, with or without the tables that the later script
  creates if they are missing.

### Reports, Throttle, Segments

- `Reports`: parts are numbered as they leave the modem; their reference is that number modulo
  256 (`Modulus`), and a row keeps the reference of its last part. Every report may come at
  any time after its part left, more than once, or not at all, and without a reference.
- `Throttle`: `tokens` and `idle` are `_tokens` and the time since `_last_refill`, `TryTake` is
  `try_take`. Time passes in sleeps (`slept`) and in the modem's calls (`waited`). `excess` is a
  meter beside the bucket: what was taken above the rate, in the window of time up to now in
  which that is the most. A bound on `excess` is a bound on every window.
- `Segments`: the body is written character by character; what is kept of it is its length in
  characters, septets and UTF-16 units and how the encoder would pack it. Characters come in
  four kinds.

The definitions named `Bug...` are faulty variants of the definition that follows
them. No action uses them; put in its place, each breaks a property, which shows
that the property depends on the code.

## 4. Runs

| Run | Instance | Result |
|---|---|---|
| `outbox` | 3 messages (2, 1, 2 parts), 2 attempts, 2 faults | passes, 1.85 million states |
| `outbox_live` | 2 messages, 2 attempts, 2 faults, fairness | passes, 42 thousand states |
| `outbox_partial` | 2 messages | violation of `PartialNeverRetried` |
| `inbound` | a text of 2 parts, one of 1, 1 report, 2 faults, fairness | passes, 1.0 million states |
| `inbound_loss` | as above, 1 fault | violation of `NoTextIsLost` |
| `inbound_split` | as above | violation of `OneRowPerText` |
| `webhook` | 2 deliveries, 2 requests, 2 attempts, 2 secrets, 1 retry per row, 1 fault, fairness | passes, 1.5 million states |
| `webhook_retry` | as above, 1 secret | violation of `OnlyFailedIsRetriggered` |
| `webhook_rotate` | as `webhook` | violation of `RotationIsInstant` |
| `panel` | 1 token, 2 calls, 2 panel requests, 5 units of time; 3 names, 2 passwords, 2 browsers, 2 rows; 3 settings requests | passes, 2.2 million states |
| `panel_sessions` | the accounts alone | violation of `DeletedSessionsStayEnded` |
| `services` | 3 threads, limit 2, window 3; 4 rows, pages of 2; 2 containers, 2 scripts, 3 kills; 2 messages, 5 parts, 2 references; 2 tokens, messages of up to 3, 1 restart; 3 segments of the real widths | passes, 1.5 million states |

**What they show.** `outbox`: retries, requeues, reclaims and purges never
duplicate an SMS by themselves (`DuplicateOnlyInDoubt`); only one row is ever in
sending, and it is the one the worker holds (`SendingIsOwned`); a concluded message
is silent (`ConcludedIsSilent`); a list is worked off in order even when one of its
messages is requeued (`NoOvertaking`); and the whole keeps the contract
(`KeepsContract`). `outbox_live`: every accepted message is concluded or purged.
`inbound`: a text is lost only when it was deleted, or held in memory, and not yet
committed. `webhook`: rows and receiver agree, failures are earned, attempts are
bounded, each is counted once (`KeepsDelivery`), and rows cut off by an exception, or held up by a URL that cannot be parsed,
get their turn under a sound one.

`panel`: whatever overlaps, a call that comes in after a revocation is refused
(`RevokedIsRefused`), `last_used_at` is off by less than the refresh interval
(`LastUsedIsEvidence`) and `revoked_at` by no more than a request takes
(`RevocationNotPostdated`); a name has one row (`NamesAreUnique`) and no session without one
(`SessionNeedsAccount`); URL and secret are parted only by a rotation or a clearing whose look
at the URL was overtaken (`PairPartedOnlyByStaleLook`), and an accepted restart happens
(`RestartIsHonoured`).

`services`: the limiter allows no more than its limit in any window but for the time threads
wait for the lock, and denies only when that many were allowed (`WindowIsBounded`,
`DenialIsEarned`); a pass over the list repeats nothing and misses only rows that were
committed behind the cursor (`NoRowTwice`, `SkippedOnlyWhenOvertaken`); a container that is up
has every table, and both come up, by failing where they collide, unless one was killed
within the first script (`UpMeansComplete`, `ContainersComeUp`); a report with a reference
delivers its own message unless a whole round of references lies between
(`WrongOnlyAfterWrap`), and is not wasted on an older one (`OwnReportCounts`); the bucket keeps
its rate in every window, up to its capacity, one long message and the restarts
(`RateIsBounded`, `BucketIsMeter`); `healthz` calls a looping worker dead only when the modem
kept it for the limit less one backoff, or when it cannot write (`StaleMeansBusy`); and a
message is charged at most one segment less than it is sent in (`ChargedIsSent`).

**Bounds.** Three messages allow one that is requeued between an older and a younger
one; two parts are the fewest that can be sent in part; two attempts are a first
and a last one. Two faults allow a failed commit followed by a crash, or a lost
connection followed by a failed reconnect; each bound on faults is a constant in the
guard of the actions that count. The proofs lift all of these bounds for the safety properties.
In `Webhook` two rows are needed for a round that is cut short, two requests for two
retries of one row, one retry per row for an attempt count past the chain, two
secrets for a rotation within a round. In `Inbound` two parts of a text can come apart,
and with a second text one capture given back differs from one captured meanwhile.

In `panel` two calls stamp in either order, two panel requests revoke together or revoke
and delete, five units of time hold two refresh intervals of two; two rows are a user and
the one that takes its name, two browsers an administrator and the session in question;
three settings requests are two that race and one that comes first. In `services` three
threads overtake each other at a limit of two, and eight units of time hold two windows of
three; four rows make two full pages and a third, empty one; three kills cut off each
container and one again; five parts wrap two references twice. A token is two units of
time, so that fractions of it occur; times are in units of the poll interval, with a
backoff of 1, 2, 3 and a limit of 6. `Segments` has the code's widths (160/153, 70/67), and
three segments instead of ten.

**Deadlock** is checked for `outbox`, `outbox_live` and `inbound`: the worker's loop
always has a next step. In `Webhook` nothing happens once no row is due and the
bounds are spent, and the components of `panel` and `services` rest when their bounds are
spent, so these configurations do not check it.

**Fairness.** `Outbox`: weak fairness of the worker, because it is one loop that
docker restarts (`restart: unless-stopped` in `docker-compose.yml`) and whose gammu
calls time out; strong fairness of the claim, because a message that is again and
again next in turn gets its tokens once the bucket has refilled
(`messages_per_minute` is validated to be positive). Nothing says that a submit
ever succeeds. `Inbound`: weak fairness of the worker; none of the network, nor of a
successful deletion. `Webhook`: weak fairness of the dispatcher task, whose POSTs end
within ten seconds, and of the passing of time; none of the panel or the receiver.
Its liveness property supposes that a URL that can be parsed, and a secret, are configured
from some moment on. `services`: weak fairness of each container's migration, since docker
restarts it; nothing else there is live.

## 5. Proofs

Every safety property that a passing run checks is also a theorem of its module's
specification, for every value of the constants that the modules' assumptions admit: any
set of messages, deliveries or requests, finite or not, any number of parts, retries, faults
and restarts, any bound on the clock. Eight modules hold the theorems, and `tlapm`
checks all of them to the last leaf.

| Module | Component | Theorems |
|---|---|---|
| `OutboxProofs` | `Outbox` | `TypeCorrect`, `OneOwnedSending`, `NoUntrackedDuplicate`, `ConcludedStaysSilent`, `QueueIsFifo`, `WorkerKeepsContract` |
| `InboundProofs` | `Inbound` | `InboundTypeCorrect`, `TextsAreLostOnlyInTheWindow`, `SecondRowsComeFromTheModem`, `TextsAreTornOnlyByPollsOrFaults` |
| `WebhookProofs` | `Webhook` | `WebhookTypeCorrect`, `DeliveredMeansTaken`, `RepeatsAreInDoubt`, `FailedMeansExhausted`, `AttemptsAreBounded`, `DispatcherKeepsContract` |
| `ThrottleProofs` | `Throttle` | `ThrTypeCorrect`, `TheBucketIsAMeter`, `TheRateIsBounded`, `StaleHeartbeatMeansBusy` |
| `TokensProofs` | `Tokens` | `TokensTypeCorrect`, `EveryRevokedIsRefused`, `LastUsedIsRecent`, `NoRevocationIsPostdated` |
| `PanelProofs` | `Settings`, `Accounts`, `MCPanel` | `PairStaysTogether`, `EveryRestartIsHonoured`, `EveryNameIsUnique`, `EverySessionNeedsAccount`, `PanelKeepsItsParts`, `PanelTypeCorrect` |
| `ReportsProofs` | `Reports` | `ReportsTypeCorrect`, `ReportsErrOnlyAfterWrap`, `OwnReportsCount` |
| `ServicesProofs` | `Limiter`, `Paging`, `Migrations`, `Segments`, `MCServices` | `TheWindowIsBounded`, `EveryDenialIsEarned`, `NoRowIsGivenTwice`, `OnlyOvertakenRowsAreSkipped`, `UpIsComplete`, `WhatIsChargedIsSent`, `ServicesKeepTheirParts`, `ServicesTypeCorrect` |

`QueueIsFifo`, `ConcludedStaysSilent`, `EverySessionNeedsAccount`, `OwnReportsCount` and
`EveryDenialIsEarned` prove action properties; `WorkerKeepsContract` and
`DispatcherKeepsContract` are refinements; `PanelKeepsItsParts` and `ServicesKeepTheirParts`
say that the sums which TLC explores implement each of their components, so that what is
proved of a component is true of the run.

**Assumptions.** Each is a named `ASSUME` in the module that declares the constant, and TLC
evaluates it in every run: names for "no message", "no part" and the like are none of the
real ones; messages and ids are naturals where their order matters; widths, limits, rates
and moduli are positive. Four are statements about the code's numbers: a thread waits for
the limiter's lock for less than a window (`LimLag < Window`), a request holds a token's row
for less than the refresh interval (`TokHold < Refresh`), a backoff is shorter than the age
at which `healthz` gives up (`BackoffCap < MaxAge`), and a body has fewer segments than a
segment has characters (`MaxSegments < Part7`, `PartU`: 10 against 153 and 67). `Ids` of
`Paging` is finite, since a page counts the rows ahead.

**Inductive invariants.** The safety properties are seldom inductive: that no part leaves
the modem twice, say, is kept by `Submit` only if the parts on the air are exactly those
before `next`. Each module has an invariant that is, named `IInv` or with the component's
prefix, a conjunction of named parts. Those of `Outbox`, `Inbound` and `Reports` were checked
by TLC first.

- `Outbox`. `FramesOK`: where the worker stands determines what its frames hold; the
  current row is in sending or purged, a verdict of "queued" means that no part left, one of
  "sent" that all did. `Ownership`: the loop head is reached with the modem connected only
  when no row is in sending, so that skipping the reclaim there is right. `Accounting`: a
  message that the worker has not lost track of is concluded, in hand with exactly the parts
  before `next` on the air, or has none on the air. `OnAir`: a sent or delivered message was
  on the air as a whole. `QueueOK`: a row of the list that the loop has
  come to is not queued while the loop runs, since a requeue ends it.
- `Inbound`. `Phases`: what the worker's hands hold at each point of its loop. `Places`: a
  part is in one place only, but for a deletion under way or one that failed; this is what
  makes giving captures back safe. `Whole`: the parts that were neither split nor exposed
  move together. `Promises`: the three properties.
- `Webhook`. `HandOK`: the row in hand, and those still in the round, are pending or purged,
  although panel requests write them. `CreatedFirst`. `Answered`: a taken delivery that
  nothing excuses is concluded, or its answer is in hand. `Counted`: the attempts of a pending
  row leave room for one more. `CountIsFresh`: the count loaded before the POST is still the
  row's when the answer is recorded, or the row is gone.
- `Throttle`. `Meter`: what was taken above the rate is missing from the bucket, but for what
  each restart gave back. `OneSleep`: what was slept since the heartbeat and what is left of
  the sleep are within one backoff, because each sleep begins with a heartbeat.
- `Tokens`. A call that came in late finds its row gone; what a request holds is no older
  than `TokHold`. `Settings`. A look at the URL that nobody has overtaken is still right, and a
  restart that found the flag set can rely on it, or on the boot to come. `Accounts`. A name is
  given to a new row only when the old one is gone, and a cookie carries the name of the row
  it was issued for.
- `Reports`. A row keeps a part of its own, and a delivered row was credited with a part that
  left; two different parts with one reference are a modulus apart.
- `Limiter`. The hits in the deque match the youngest allowed requests, each stamped at most
  `LimLag` earlier (`Matched`), the others are as good as a window old (`Left`), so any two that
  are `Limit` apart are (`Spaced`). Hits need not be sorted.
- `Paging`. The cursor is the key of a row that was given, and no row that was given is beyond
  it (`CursorIsGiven`, `GivenIsPast`); a page has no gap, because who sorts earlier has fewer
  rows ahead. `Migrations`. What is recorded is there
  (`RecordedIsThere`), and so is what each container's script has passed (`Progress`).
- `Segments`. `Filled`: the encoder has packed all that was written, and wasted at most one place
  in each part that it left, and none without a character of two places.

Each has one lemma per action that the invariant is kept (in `Outbox` one per part of the
invariant), and the theorem adds the initial states. The action properties and refinements follow step by
step from it. `LeastNatural` of `ServicesProofs`, from the well-foundedness of the naturals,
takes the place of induction on numbers and of choosing least and greatest elements.

**Only model-checked**: the liveness properties `EveryMessageConcludes`, `EveryTextIsStored`,
`EveryDeliveryConcludes` and `ContainersComeUp`, since fairness and ENABLED are out of the
prover's reach; and the violations, which are counterexamples.

## 6. Where code and documents disagree

1. **A partial multipart send can be retried** (`outbox_partial`). SPEC 4.1.6,
   `manual/messages.md` and `ARCHITECTURE.md` exempt it from the at-least-once rule. The
   exemption is the row's `failed` status, which is committed after the exception: when
   the worker dies first, recovery finds the row in sending and queues it.
2. **A received text can be lost** (`inbound_loss`). SPEC 4.2.3 says that messages are
   deleted once stored, `manual/webhooks.md` that none is ever lost. The driver
   deletes before the worker commits.
3. **A delivered webhook can be re-triggered** (`webhook_retry`), against the comment in
   `retry_delivery`, when two retries of one row race the dispatcher.
4. **Rotation is not instant** (`webhook_rotate`): the rest of a round is signed with the
   secret read at its start.
5. **One text can become several rows** (`inbound_split`). SPEC 4.2.2 promises one row per
   text; parts that a poll separates, or that the callback announces, are stored apart.
6. **A deleted session can come back** (`panel_sessions`). `manual/users.md` advises to delete
   and recreate a user whose password leaked; the cookie carries the name only, and the
   name exists again.

The models show these too, in passing runs whose properties say how far it goes:

7. An unparsable URL stops the dispatcher round after round without counting an attempt
   (`PostRaises`; `EveryDeliveryConcludes` supposes a sound URL).
8. Overlapping settings requests leave a secret without a URL, or a URL without a secret,
   against the comment in `rotate_webhook_secret` (`PairPartedOnlyByStaleLook`).
9. Two revocations that overlap do not keep the first one's time
   (`RevocationNotPostdated`).
10. Rows that are committed behind a cursor are skipped, although `rest-api.md` calls paging
    stable (`SkippedOnlyWhenOvertaken`).
11. A script that was cut off cannot be applied again, although `db.py` says that scripts are
    applied exactly once (`ContainersComeUp`).
12. A stale heartbeat does not mean that the worker is gone, as `troubleshooting.md` has it: a
    long drain of a slow modem looks the same (`StaleMeansBusy`).

## 7. Assumptions, and what is not modelled

- One worker and one api process, as in `docker-compose.yml`. SQLite serialises
  commits; a commit is atomic and durable. A busy timeout is a failed commit.
- A submit that gammu rejects for its delivery report field (`ValueError`,
  `TypeError`) is rejected before anything is sent; `_send_one` then submits the
  part once more, within the same action. An encoding that fails is a
  failure of the first part's submit: nothing has left, and it is retried.
- A gammu call returns or raises. An error that the driver wraps is a failed submit,
  or a lost connection if it is of one of the six classes listed there. No other
  exception comes out of a submit: one that is not a `GSMError`, on a later part,
  would escape `send_sms` unclassified and have the whole message retried.
- A failed heartbeat is a failed iteration, like a failed statement at the loop head.
  `status()` losing the connection leads to the same reconnect.
- SQLAlchemy: a session's transaction begins for SQLite with its first write; queries flush
  what is pending; `merge` decides between UPDATE and INSERT when it reads; an UPDATE that
  finds no row raises. A write waits for the lock no longer than `busy_timeout`, which bounds
  `TokHold`; a thread's wait for the limiter's lock is bounded by `LimLag`, less than a window.
- The clocks do not go back. `monotonic` does not; `utc_now_iso` is the host's.
- gammu: `LinkSMS` groups parts by reference and hands on incomplete texts; `EncodeSMS` fills part
  after part without dividing a GSM-7 character, and may divide a surrogate pair or not.
- The modem numbers every submitted part in turn, modulo 256.
- Bodies, numbers, timestamps, signatures, payloads, pages and logs are left out:
  no property here tells them apart.
- The fake driver is a test double, and is not modelled. The remaining components
  are in the plan, or listed in `PROJECT.json` with the reason.

## 8. Plan

In order of importance; modules marked * are written.

1. `Outbox`*, `OutboundContract`*, `OutboxProofs`*: the core.
2. `Inbound`*, `Webhook`*: the other two loops over the shared rows.
3. `Tokens`*, `Accounts`*, `Settings`*: the panel's requests, split at read and commit.
4. `Throttle`*, `Reports`*, `Limiter`*, `Paging`*, `Migrations`*, `Segments`*: what stands around
   the queue.
5. `OutboxProofs`*, `InboundProofs`*, `WebhookProofs`*, `ThrottleProofs`*, `TokensProofs`*,
   `PanelProofs`*, `ReportsProofs`*, `ServicesProofs`*: every safety property of a passing run.
6. `DeliveryContract`* for `Webhook`, as `OutboundContract` is for `Outbox`.
7. An abstract contract of `Inbound`, to say in one place what its three properties say
   together: a part is on its way, held, stored or exposed, and stored is for good.
