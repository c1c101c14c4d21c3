# A verification project for the CPA quota API extension

TLA+ modules that model the plugins of this repository, TLC configurations that check
them on small instances, and theorems that TLAPS proves for every value of their
constants. `PROJECT.json` lists the runs, the source lines each definition stands for,
the mutants, the hazards and the theorems; this file explains them.

    tlc -workers 2 -config QuotaCacheSafety.cfg MCQuotaCache     # one run
    tlapm HealthStoreProofs.tla                                  # one proof module

## The system

The repository builds three plugins for the CLIProxyAPI host. Each is a C shared
library: the host calls it on its own threads, and it calls the host back for HTTP,
credentials and stream chunks.

**Quota extension (repository root).**

| part | state | operations | talks to |
|---|---|---|---|
| quota snapshot cache, `runtime.go` | `cfg`, `snapshot`, `hasSnapshot`, `refreshing`, `closed` under `r.mu`, and a condition variable | `getSnapshot`, `refresh`, `applyConfig`, `shutdown` | host (list, get and fetch per account), health store (projection rates) |
| provider fetchers, `providers.go` | none | one fetch per account, bounded by a semaphore made for each refresh | host HTTP |
| health monitor, `health_runtime.go` | published store, event queue, stop and done channels under `r.mu`; `healthOps`, `webhookOps` and `healthLifecycle` locks | `configureHealth`, `enqueueUsage`, `healthLoop`, `refreshHealth`, `webhookLoop` | health store, host, webhook receiver |
| account health store, `health_store.go` | SQLite tables: observations, failure events, incidents, history, usage buckets, alert state | `record`, `saveHistory`, `prune`, `updateAlertState`, `nextAlert`, `recordAlertDelivery`, queries | health monitor |
| classification, `health.go` | none | `sanitizeUsageRecord`, `classifyAccountHealth`; `refreshHealth` counts the capacity | health monitor |
| usage profile and projections, `profile.go`, `projection.go` | none (reads the buckets) | rollup by hour of day and kind of day, integral over calendar hours | snapshot cache |
| pages and panel, `runtime.go`, `health_runtime.go`, `panel.go` | none | filters, limits and cursors over snapshots and tables | host |
| configuration, ABI, host bridge | none | decoding, envelopes, C buffers | host |

**Session cache (`sessioncache/`).** A map of stream states under `r.mu` and a table of
requests. `handleStreamChunk` folds SSE events into the state of their request and, at
`message_stop`, builds a row under the lock and inserts it after releasing it;
`handleResponseIntercept` does the same for a whole body. `detail.go` reads rows back by
session.

**Auth plugin (`authplugin/`).** Per-credential model discovery with a timeout and a
cache, a metadata overlay refreshed by ETag, an executor that pumps an upstream stream
into a plugin stream, and a parser of auth files.

What is hard here: condition variables and flags across an unlocked scan (the cache);
three locks, four channels and a shutdown that must stop, drain, close and reopen in the
right order (the monitor); events that arrive out of the order of their times, and
pruning that may stop half way (the store); a message posted without any lock between
the decision to post and the record of it (pool alerts); per-stream state that is evicted
by other streams (session cache); host calls given up after a timeout while others use the
cache they would have filled (discovery); a stream cut into pieces that no line respects
(executor); times compared as text (store); pages read while the list changes; calendar
hours that a change of the clock repeats or skips (projections).

What makes each part correct:

- *cache*: one scan at a time, waiters woken and sharing its result, nothing served across
  a reconfiguration, answers that never go back in time;
- *monitor*: no use of a closed database, one database at a time, no event lost without
  being counted, refreshed answers that advance, every lifecycle call returns;
- *store*: one open incident per account and it describes the present failure, incidents
  in order although ids are reused, the account's state follows its newest request;
- *alerts*: with nothing pending the receiver knows the pool's state, through crashes,
  lost answers and flips of the pool during a post;
- *session capture*: at most one row per request, whole, in its own session, and none lost
  without a cause; retention never cuts a request out of the middle of a session;
- *discovery and overlay*: a model list is served only for the credential and base URL it
  was discovered with, a credential that was listed once stays listed, the levels in use are
  those that the last answer of a registry spoke of, every call returns;
- *stream executor*: the events arrive in order, all of them when the stream ends well, and
  both streams are closed once whatever fails;
- *classification*: time alone never takes an account out of the pool, a success undoes
  what the plugin holds against it, and it is called degraded for the failures of the window
  that no pruning has taken, and for no others;
- *provider answers*: the status is true of the numbers that the provider sent, an error is
  shown only when every endpoint failed, and the binding window is one that is listed;
- *projections*: the walk over calendar hours equals the sum over instants, and a profile read
  back over the days it was learned from expects what was used in them;
- *paging*: a walk returns no row twice and misses none that was there all along.

## Modules

| module | models | proofs |
|---|---|---|
| `QuotaService` | what the quota endpoint promises its callers (abstract) | |
| `QuotaCache` | `getSnapshot`, `refresh`, `applyConfig`, `shutdown` as far as the cache sees it; implements `QuotaService` | `QuotaCacheProofs` |
| `HealthRuntime` | `applyConfig`, `configureHealth`, `shutdown`, `healthLoop`, `webhookLoop`'s life, `enqueueUsage`, the locks of `refreshHealth` | `HealthRuntimeProofs` |
| `HealthStore` | `record`, `saveHistory`, `prune` | `HealthStoreProofs` |
| `AlertPromise` | what the alerts promise a receiver (abstract) | |
| `PoolAlert` | `updateAlertState`, `nextAlert`, `recordAlertDelivery`, snapshot queue, `webhookLoop`; implements `AlertPromise` | `ReportProofs` |
| `SessionCapture` | `handleStreamChunk`, `handleResponseIntercept`, `persistRow`, `applyConfig`, `shutdown` | `SessionCaptureProofs` |
| `ModelCatalog` | `model.for_auth`: metadata revalidation and discovery, both with timeouts; `auth.parse`'s base URL; reconfiguration | `AuthPluginProofs` |
| `LineStream` | what a streamed answer promises the client (abstract) | |
| `StreamPump` | `executeUpstreamStream`, `drainHTTPStream`, `pumpUpstreamStream`; implements `LineStream` | `AuthPluginProofs` |
| `HealthReport` | `sanitizeUsageRecord`, the values `record` keeps, `observation`, `classifyAccountHealth`, times as text | `ReportProofs` |
| `QuotaReport` | `fetchAccountQuota`, the six fetchers and what they make of an answer | `ReportProofs` |
| `WallClock` | the calendar of a zone: `bucketFor`'s hour and kind of day, `time.Date` | `UsageProofs` |
| `UsageProfile` | `slotOccurrences`, `profileRetentionStart`, `buildUsageProfiles` | `UsageProofs` |
| `UsageReport` | `integrateRates`, `projectedExhaustion`, the verdict, over time zones | `UsageProofs` |
| `PageWalk` | index cursors (quota, accounts, health) and id cursors (incidents, history) | `ReportProofs` |
| `SessionReport` | `prune` of the captured rows and `classifyRows` | `ReportProofs` |
| `Facts` | least elements, recursion, folds, sums and products over finite sets | itself |
| `MC...` | small instances: configurations and symmetry; `MCServices` joins the last seven parts | |

Conventions. A critical section of `r.mu` (or of the lock named in the module's header) is
one action; what the code does without the lock lies between two actions. A thread's
position and local variables are one record (`call`, `flight`, `thread`, `worker`).
Variables marked *history* are not in the program: they only remember what the properties
speak of. Operators marked *(mutant)* are plausible bugs, one definition replaced by
another; each property is shown to fail under one of them.

### QuotaCache

`Call` is the entry of a request; `Refuse`, `ServeCached`, `StartRefresh` and `JoinRefresh`
are the four outcomes of `getSnapshot`'s loop body. `ListAuth`/`ListFails`, `StartFetch`,
`EndFetch` and `Assemble` are `refresh` without the lock, with the semaphore as a guard on
`Running`; `Publish` and `RefreshFails` are the second critical section, including its
`Broadcast`. A woken waiter returns to the loop with `force` cleared, as in the code.
`ApplyConfig` drops the snapshot and reopens, `Shutdown` closes and broadcasts. A snapshot is
reduced to when it was generated and how many reconfigurations preceded its publication.

`QuotaService` knows who has asked, who of them insists on a scan, who scans, the last snapshot
and the TTL: an asker is given the result of a scan of its own, the last snapshot while that
may be served, or an error. Waiting, the accounts and the semaphore are below it (`Same` in
the proof). It also says what the code does *not* promise: whoever asks while another scans
may be made content with the cache by the end of that scan, failed or not
(`quota_forced_refresh`), and a snapshot of a scan that a reconfiguration overtook is served.

### HealthRuntime

Each host thread's `applyConfig` or `shutdown` is a walk through `configureHealth`:
`Unpublish` (take `healthLifecycle`, withdraw the store and close the stop channels),
`LoopStopped`, `Drain`, `Close` (under `healthOps`), `OpenStore`/`OpenFails`, `Publish`,
`StartLoops`. Databases are numbered in order of opening, and each has its own loop and
worker. The loop's `select` chooses among ready cases in any order. Two remarks on the code:
the re-check of `r.closed` when the store is published can never see `true`, because
`shutdown` also needs `healthLifecycle`; and the waiting branch on `r.healthRefreshing` in
`refreshHealth` is dead, since the flag is set and read only while `healthOps` is held. The
texts put in `r.healthError` are left out.

### HealthStore

`RecordSuccess`, `RecordFailure`, `RecordLateSuccess` and `RecordLateFailure` are the paths
of `record`, each a committed transaction with the number `n` of DELETE statements of
`prune` that worked after it (4 is all); `RollBack` is a transaction that failed. SQL NULL
and the zero time are 0, which lies before every time, so "no row" needs no case of its own.
Ids are given as SQLite gives them without AUTOINCREMENT: one more than the largest that is
present. A retry deadline is absent or any member of `Deadline`, past ones included, since a
Retry-After date comes from the provider. Failure messages, tokens and model names are left
out, and so is one error path: the SELECT of `last_event_at` (`health_store.go:223`) swallows
its error, and a failed read would make the event the newest one. It follows three writes of
the same transaction, so the model takes it to succeed.

### PoolAlert and AlertPromise

`Refresh` is one pass of `refreshHealth` and `maybeAlertForStore`: `UpdateAlertState` and a
snapshot put in the queue of one, replacing an older one. `Worker` is `webhookLoop`:
`TakeSnapshot` or `Remind`, `Decide` (`nextAlert`, or `DecideFails` when it cannot read),
`PostAccepted`/`PostFails` outside any lock, `RecordDelivery`/`RecordFails`. `PostFails` has
two outcomes: the receiver never got the post, or it did and its answer was lost.
A reconfiguration is `ApplyConfig`, `Detach`, `WorkerStops` and `Attach`. The settings are
replaced first, while the old worker still runs with its own: `enabled` says whether the
settings have a webhook URL, which is what a refresh looks at, `target` whether the worker has
one. So a refresh may record a state that the worker of that moment has nowhere to post, and
the next worker finds it pending. `Crash` loses everything but the database. `AlertPromise` knows a level, a debt and what the receiver
heard last; the mapping is `level <- poolBreach`, `owed <- breachPending \/ recoveryPending`.
A remark on the code: the condition in `recordAlertDelivery` that the pool state still be
that of the event is redundant, since `updateAlertState` has already cleared the opposite
mark; the clearing of one mark only is not.

### SessionCapture

`HeaderChunk` (chunk -1) names the stream, `PayloadChunk(r, n, again)` delivers the next
events up to the n-th, in one chunk or split in any way; `again` repeats `message_stop` in a later
chunk. `CutLine` is a chunk that ends inside the data line of the next event: `parseSSEData`
reads each chunk by itself, so that neither chunk has the event, and the request's `fate` is
"torn". `MissHeader` is a stream whose first chunk the host never showed the plugin. Every
chunk evicts what is older than the TTL, including its own state. `Intercept` builds a row
from a whole body without the lock and `TakeStore` (`record`) fetches the store for it. Every
row then goes through `Insert`/`InsertFails` and `PersistPrune`/`PruneFails` with the store
and the settings it was given, while others reconfigure. The clock read before the lock
in `handleStreamChunk` is one step with the critical section. A reconfiguration
reopens the same database file. Two `message_stop` events within one chunk would store two
rows, because the loop goes on with a state it has deleted; the model has one per chunk, as
providers send them. `stream_state_ttl` is positive: the parser refuses anything else and the
default is, so the fallback in `evictStaleStreamsLocked` is never taken.

### ModelCatalog

`ForAuth` enters `modelsForAuth` with the settings of that moment; `Revalidate` reads the
ETag to send, `NotModified`/`RegistryAnswers`/`MetadataFails` are what becomes of the request,
`StoreOverlay` replaces ETag and levels. `ProviderAnswers`, `PutList` and `DiscoveryFails`
are `discoverModels` with its cache and its fallback; a timeout may win against an answer
that has just arrived, after which nobody reads the answer. `Build` returns the response.
A list is reduced to where it came from. A registry publishes `Editions`, each with an ETag
and levels; the tag that is sent is the store's, whichever registry it is from, and a registry
answers 304 to its own current tag. `told` remembers the levels that the last answer
spoke of: `LevelsAreCurrent` compares them with the store's. The base URL that `auth.parse`
stamps into an auth wins over the settings for as long as the auth lives; that outliving is
why it is state here.

### StreamPump and LineStream

`Open` to `ReturnStream` is the host thread, `ReadPiece` to `Release` the goroutine it
starts, which may run ahead of `ReturnStream`. A piece of text may finish the unfinished line
and begin others, the last of which it may leave unfinished; `Done` may come with text.
Lines are events, lines to skip (blank, comments, `[DONE]`), or an error body. `CloseClient`
precedes `Release`, as the deferred close does in the code. Four things besides a stream can
come of the request: `OpenFails` (the call fails, or no stream is named), `AnswerUnreadable` (the
host may have opened a stream whose name the plugin cannot decode, "unnamed": nobody closes
it), `StatusWithoutStream`, and `StatusError`, whose body is drained. The refinement maps the
client's stream to `verdict`; numbers for events let `LineStream` speak of order and loss.

### HealthReport

Time is in hundredths of a second, so that `timeText`, which drops the zeros of a fraction, can
be modelled by its effect on order: texts have no, one or two digits of a fraction, and 2.51 comes
before 2.5 and both before 2 (`TimeText`). `HandleUsage` sanitizes a record and updates the
account's row and failures; the pruning after it, like that of `SaveHistory`, may fail. A
Retry-After is absent, a number of seconds or a date, which may be past. `ApplyHealthSettings` may
choose a window that outlasts the retention. `ever` remembers every failure and `cutoff` up to
which instant prunings took them, each under the settings of its day. `AccountState` is the ladder of `classifyAccountHealth` and
`Recent` the SQL count, both evaluated for every flag the host may report. The
capacity of the pool is the number of accounts that are `Routable`.

### QuotaReport

`Read` is `fetchAccountQuota` up to the first request, `EndpointFails` its error paths
(Antigravity tries three endpoints), and one action per provider builds windows, models
and status from the fields of an answer, any of which may be missing. The three status loops are
three operators. `said`, `limits` and `asked` remember what was sent, in the provider's own
unit, and what became of each request: `StatusTellsQuota` compares the status with these, not
with the rows it was computed from. For Claude, `limits[]` is enumerated: scoped limits
become models under a slug (`ScopedModels`), which may be empty or shared (`SlugOf`), and the
first active limit that names a window is the binding one (`Binding`). Labels, reset times and amounts are data.

### WallClock, UsageProfile and UsageReport

`WallClock` is a zone whose offset changes once; its unit is half an hour. `Date` is Go's
`time.Date` as its documentation and its use here define it, external to the repository.
`UsageProfile` takes the buckets, one for each hour of the wall clock in which a request
succeeded and whose date is within the retention, and divides the tokens of each kind of hour
by the number of times it came (`SlotOccurrences`, a walk in steps of an hour from the oldest
midnight). In `UsageReport`, `Project` chooses a zone, a window from 0 to its length, an instant
and a history of buckets, and `Integral` and `Exhaustion` are the walks over wall-clock hours.
Rates are integers over a common scale, which cancels in the forecast, and quotients are
compared as products. Buckets of one account stand for all accounts of a provider, whose sums
they are.

### PageWalk and SessionReport

In `PageWalk` a reader asks page after page while rows are inserted, updated and pruned and
snapshots replaced; ids come back as SQLite reuses them. `read` is what
the pages returned, `again` what some page returned a second time. `SessionReport` numbers rows in the
order of their ids; `PruneRows` drops those too old and all but the newest `RowLimit`, by
instant, because there the SQL compares `julianday` values. Its statements are those
`SessionCapture` leaves out.

## Runs

| run | instance | question |
|---|---|---|
| `quota_cache` | 3 callers, 2 accounts (1 disabled), 2 configurations, 1 tick, 1 reconfiguration, 1 failed list | safety of the cache, and that it implements `QuotaService` |
| `quota_cache_liveness` | 2 callers, 1 account, 1 reconfiguration, 2 failed lists | every request is answered |
| `quota_forced_refresh` | 2 callers, 1 account, 2 ticks | *finding*: `refresh=true` is served from the cache |
| `health_runtime` | 2 host threads, 2 readers, 3 databases, 2 events, queues of 1 and 2 | safety of the lifecycle |
| `health_runtime_liveness` | 2 host threads, 1 reader, 1 database, 1 event | every lifecycle call returns |
| `health_store` | 2 accounts, 2 classes, times 1..3, 4 events, 2 history points, tables of 2 and 1 rows, one failed pruning in a row | incidents, observations, pruning |
| `pool_alert` | cooldown 2, times 0..3, any number of refreshes, posts, crashes and reconfigurations | the alert promise, and that pending alerts are delivered or overtaken |
| `pool_alert_pending` | cooldown 1, times 0..1 | *finding*: a pending mark is cleared without a delivery |
| `session_capture` | 2 requests of one session, times up to 2, 2 reconfigurations, 2 configurations (rows 2 and 1, TTL 1 and 2) | what is captured |
| `session_capture_order` | 2 requests, 1 tick, 1 reconfiguration | *finding*: rows out of capture order |
| `services` | the seven parts below | model lists, streams, reports and paging |
| `models_off` | as the models part of `services` | *finding*: levels stay after `off` |

`services` holds seven parts that share no variable: no step of one can be seen by another, so
that one part at a time (`part`, chosen at the start) is all there is to explore, and
their state spaces add up instead of multiplying.

| part | bounds |
|---|---|
| models | 2 threads and 2 calls; 2 credentials, one with its own base URL (that one without a key returns at once is only in the proofs); 2 base URLs, a registry and a mirror of 2 editions each, equal at first and then with one tag for different levels, 3 settings (a registry, off, pinned models with the mirror), 1 reconfiguration |
| streams | 4 lines, in pieces that begin at most 2 |
| health | 3 usage records at 1.5, 1.51 and 3.5 s; 3 settings: windows shorter than, as long as and longer than the retention, thresholds 1, 2 and 0 |
| quota | percentages -10, 0, 100, 110, null and absent; 2 entries of `limits[]` with 4 models, among them two of one slug and one without |
| usage | zones with no change, +5:30 and an hour back or forth on either side of UTC; days of 2 hours, weeks of 2 days, a retention of 1 day, at least 2 records, windows of 7 and 8 half hours, used 40, 80, 120 |
| pages | 3 rows and accounts, limits 1 and 2 |
| sessions | 3 rows of 2 sessions, row limit 2, age 2, 4 ticks |

Why these bounds are enough for the questions asked. Three callers are the smallest number
with one scanning, one waiting and one arriving; two accounts fill a semaphore of one, and
with a disabled one the scan's selection matters. Two host threads make lifecycle calls
overlap, and three databases let a late refresh of the first meet the third. Four events are two failures with a
success between them and a late event; a table of two rows with four events reuses ids. The
alert model needs no bound but the clock, whose last tick exceeds the cooldown. Two history
points meet a history of one row. Two
requests of one session give every order of two builds and two inserts, with a third party
(eviction, reconfiguration) in between. Two calls of `model.for_auth` fill a cache entry and
fall back to it, or meet on the overlay, and take one registry's tag to the other; four lines in pieces of two leave a line unfinished over
two reads and at the end. Three usage records are a failure, a success and a late one; the
three instants have two digits, one digit and share a second. A zone
that changes at one of three instants puts a repeated or skipped hour before, at and after
the point a walk starts from. Three rows at a limit of one are walked in three pages
with room for a reused id between them. Symmetry is used only in runs without liveness.
Deadlock is checked in every run but `services` and `models_off`: there calls and
reconfigurations are used up, clocks end, and the system stops.

### Findings

- `quota_forced_refresh`: a caller with `refresh=true` that waited on somebody else's
  refresh has its force flag cleared when it wakes, also when that refresh failed
  (`runtime.go:178`); it is then answered with the snapshot that was cached before it came.
  `docs/api.md` says the flag bypasses freshness.
- `pool_alert_pending`: `updateAlertState` drops a pending breach when the pool recovers
  before it was ever delivered (`health_store.go:431`); the comment above the function says
  marks are cleared only by a successful delivery. `AlertPromise` shows that nothing worse
  follows: the receiver's last event agrees with the state.
- `session_capture_order`: rows are stamped under the lock and inserted after it
  (`sessioncache/runtime.go:98`), so ids need not follow capture times, and `sessionRequests`,
  documented as capture order, orders by id.
- `models_off`: with `model-metadata-url: off`, `refreshModelMetadata` returns early and the
  overlay fetched before stays (`authplugin/modelmeta.go:134`), so that models are still
  registered with its levels; the option's description (`authplugin/main.go:113`) says
  "Set to "off" to register models without thinking metadata".

Met while modelling, without a run of their own:

- `docs/api.md:113` says that `models` is absent on providers other than Claude, but the
  Antigravity fetcher fills it.
- `used_percent` (Codex, Claude, OpenCode Go) and `remaining_percent` (Copilot) are passed on
  as received; only the other half of the pair is clamped to 0..100.
- The binding window's id may be one that is not listed, when its scoped limit has no
  percentage or no display name; `BindingIsListed` says so as its exception.
- A walk that starts in the middle of the second occurrence of a repeated hour is wrong by a
  part of an hour, since `time.Date` picks the first; `ForecastIsExact` names the case
  (`Skewed`). A zone that shifts by half an hour, or within an hour of the wall clock, has the
  same defect at its shift, and `OnTheHour` leaves it out.
- Times are stored as text without the zeros of the fraction, and SQL compares the text: within
  one second the order is not that of the instants. `DegradedForItsFailures` and `SuccessHeals`
  say how much room that takes.
- Nothing ties the metadata store's ETag to the URL it came from: after a change of the registry the
  old tag is sent to the new one, and where that uses the same tag for other levels its 304
  keeps the old ones (`Ambiguous`, the exception in `LevelsAreCurrent`).
- Of two Claude models that share a slug only the first limit is listed and counts for the status;
  `StatusTellsQuota` counts it so (`Shown`).
- A `health-failure-window` longer than the retention is accepted, and then misses the failures that
  pruning took: the account is called degraded later than the settings say, or never.
- An SSE line that is split over two chunks is lost by `parseSSEData`
  (`sessioncache/stream.go:38-57`), and with it the counts or the row of its request.
- A host answer to the opening of a stream that cannot be decoded leaves a stream that the host
  has opened without anybody to close it (`authplugin/executor.go:235`).
- The SELECT of `last_event_at` ignores its error (`health_store.go:223`).

### Fairness

Safety runs assume none. `QuotaCache`: weak fairness of each caller's own steps (goroutines
are scheduled, host callbacks and provider fetches return, an error being a return);
nobody is obliged to call, reconfigure, shut down or let time pass. That every request returns
rests also on the bounds for failed lists, ticks and reconfigurations: without them a waiter could
each time wake to a flight that failed, or to a snapshot that expired or was dropped meanwhile,
find that another caller has begun the next one, and wait again. `HealthRuntime`: weak
fairness of threads, loops, workers and readers; strong fairness where a step waits for a
mutex (Go's `sync.Mutex` is starvation-free) or is a case of a `select` (Go picks among
ready cases at random, so a stop channel that stays closed is taken in the end).
`PoolAlert`: weak fairness of the refresh and of the worker, and strong fairness of an
accepted post, a committed update, a read of the alert state and a committed delivery: a
receiver and a disk that fail forever are not required to announce anything. Crashes, reconfigurations and ticks
are never fair. `ModelCatalog`: weak fairness of the plugin's own steps, timers included; no
registry and no provider has to answer. `StreamPump`: weak fairness of the starting thread
and of the pump once the host has asked: the host answers its callbacks and the provider's
stream ends, since its lines are bounded.

## Proofs

The constants are arbitrary but for the named assumptions (`CacheAssumption`,
`StoreAssumption`, `AlertAssumption`, `RuntimeAssumption`, `CaptureAssumption`,
`CatalogAssumption`, `PumpAssumption`, `HealthReportAssumption`, `QuotaReportAssumption`,
`PageWalkAssumption`, `SessionReportAssumption`, `WallClockAssumption`,
`UsageProfileAssumption`, `UsageReportAssumption`), which are what the decoders of the
configuration enforce plus finiteness and the bounds being numbers, and positive ones where
the code has a positive constant (`profileRetentionDays`, the hours of a day). The
proofs therefore hold for any bounds. `PROJECT.json` lists the theorems and the properties
they state.

**QuotaCacheProofs.** Types; then `FlightInv` (single flight and no lost
wakeup), for which the actions fall into four kinds (`Moves`, `Begins`, `Joins`, `Ends`)
according to what they do to `pc` and `refreshing`; then, on top of the single flight,
`AgeInv` (the snapshot is not newer than the scan in flight or the clock, no answer newer
than the snapshot) for the two monotonicity theorems, `FetchInv` for the semaphore, and
`WaitedInv` (a caller that waited has lost its force flag by the time it loops again) for `WaitersShare`. The
bound on fetches of the *whole plugin* needs the single flight, because each refresh makes
its own semaphore. `ImplementsService`: with the types, the single flight (a scan begins when
there is none, and ends as the only one) and `IdleInv` (nobody insists before asking),
`ServiceStep` maps each action to one of the service or to none.

**HealthStoreProofs.** The invariants the run checks are not inductive: that a new incident
starts after the previous one was resolved depends on the account's newest event, and that
ids are in order on the fresh id being larger than all that are left. `IncidentsGood(I, o, e)`
collects what is needed of a set of incidents, the rows of the accounts and the number of
events; it is preserved by deleting incidents (`GoodSubset`: this is why any prefix of the
pruning is harmless), by `Resolve` (`GoodResolve`) and by `OpenOrUpdate` (`GoodFail`).
`RowGood` ties each row to the history of what was recorded. `NextIdFresh` and
`NewestRowsBounded` are facts about `MAX(id)+1` and `ORDER BY id DESC LIMIT`, from a least
element of a set of naturals.

**HealthRuntimeProofs.** `RuntimeInv` follows the thread that holds `healthLifecycle`: `PhaseOK`
says, for each point of its call, which database is published, whether its loop and worker
still run and whether it is open; `Resting`, that while the lock is free the open
database is exactly the published one; `Numbered`, that the open database is the last one
opened and later ones are fresh. `Refreshing` ties a holder of `healthOps` to a database that
has not been closed. The steps of loops and workers all go through one lemma, `Moves`. Proved:
no use of a closed database, one database, the published one is live, and answers of
refreshes advance, and no event is lost (`NothingLost`). The last one needs `CountInv`: the
events that count as sent are those counted as recorded, failed or dropped plus those
`Held` by some database, queued or in its loop's hands, and a database that was not opened yet
holds none. `EventsConserved` sums over databases by a recursion, whose value is taken from
`TotalIsHeld`: the function that adds up what `Held` says is one that the recursion describes, and
any other would differ from it at a least number.

**SessionCaptureProofs.** `CaptureInv` has a part for each request, `LocalOK`, which follows it
from its header chunk over the state in the map and the row in its handler to the table, and
a part for the rows, `RowsOK`: a stored request was delivered and its handler is past the
insert, hence at most one row per request. What `fate` allows a request to lack
(`OutputOK`, `SessionOK`) only grows (`WorseOK`), so a cut line or an eviction takes nothing
from what is known of rows already stored. `Losing` covers the evictions of other streams,
`OneRequest`, `QuietStep` and `NoRequest` the steps that touch one request, none of what is
asked, or no request at all.

**AuthPluginProofs.** For `ModelCatalog`, `CatalogInv`: what a thread holds is for its own key,
a cached list is its key's own (`CacheOwn`), and whatever was discovered is cached
(`KnownCached`), from which follows that a failed discovery of a known key falls back instead
of returning an error. `OverlayOK` adds to `LevelsAreCurrent` that a tag in the store is that of an
edition some registry publishes with the levels beside it; hence a 304 from another registry
can only mislead when the tag is `Ambiguous`. For `StreamPump`, `PumpInv` is the state of the two streams at each point
of the two threads (`Released`, `Starting`, `Pumping`); `StreamInv` says that the events emitted
are the first ones in order and that the buffer holds exactly the others up to `sent`
(`Buffered`). With them each action is a step of `LineStream` or a stutter.

**ReportProofs.** *Health*: `Forgotten`, a failure that was recorded and is no longer kept is
not later than the second up to which some pruning cut; `TextOrder`, the texts of times in
different seconds are in the order of the times. From these `CountedTruly`, for every window
and retention, whichever is longer, and through changes of both; `TimeOnlyHeals` and `SuccessHeals` are facts about one step that need the types only.
*Quota*: `Tells` relates rows to the numbers they were made of: some row has quota left, or a number,
exactly when some number that was sent says so. It is proved for each conversion
(`Conversion`, `CreditsLeft` for Claude's credits, where the percentage is a rounded quotient)
and for the limits of which only the first of a slug is shown (`ScopedTell`), and each of the
three loops turns it into the status (`AnswerStatus`). `StatusInv` adds that while there is no
answer every endpoint asked has failed. For `BindingIsListed` the listed limit that binds may not be the first of
its slug, and the row is that of the first one, a least element. *Sessions*: what is stored is
finite, numbered without repetition and below the counter (`StoredInv`), so that `Previous`
exists; pruning keeps what is later than a row it keeps, up to the age, hence the request before it or
none. *Pages*: `WalkInv` has three parts. Ids and numbers order the rows of the table alike
although ids are reused (`TableOK`), because a fresh id is above all that are left
(`FreeIdIsFree`); a walk by ids has read nothing below its cursor, nothing twice, and all that
stayed and is not below it (`IdsOK`); a walk by indices has read the accounts before its
cursor (`IndicesOK`). `PageFacts` and `CursorFacts` say what `ORDER BY id DESC LIMIT` and the
id of its last row are: the page is what is above its smallest id, and its size is the limit.
*Alerts*: `AlertInv` adds to the types what a post in flight means: `AcceptedIsTold` (an
event whose post was accepted is the one the receiver got last) and `OvertakenIsOwed` (an
event in the worker's hands that no longer fits the pool is followed by a pending one).
`ImplementsPromise` maps each action to a step of `AlertPromise` or to a stutter.

**UsageProofs.** `ForecastsAreExact`: for every zone that changes its offset by an hour at a full
hour of the wall clock, or not at all, every length of the day, retention, history, window and
instant. The state is one window, so the invariant only says that its history is one that the
retention can have (`UsageInv`); the work is in the operators. `StepFacts`: a step of the walk
passes the rest of one hour of the wall clock and ends where one begins, by cases over the four
answers of `time.Date` and the three kinds of zone, reduced to integers in `StepArithmetic`.
Hence `StepIsExact`, and the two walks by their recursion equations: `IntegralIsExact` and
`ExhaustionCrosses`, whose `Crosses` says what a crossing means for the rest of a walk and
is carried backwards over its steps. For the profile, `HourOccurs`: every hour that may have a row
is counted by `slotOccurrences` (the one that could be missed is the first of two midnights,
when the retention starts at the second), so that no tokens are divided by nothing;
`TwiceAnHour` turns counted hours into instants; and `AddsUp` sums by cells on both sides.
The exception `Skewed` and the condition that the profile is read on the half hour
at which hours begin are those of the checked property.

**Facts.** `LeastElement`, from which the proofs above take their inductions over numbers: the
least counterexample does not exist. `Recursion` gives a recursive function whose steps make
something smaller its equation: it is the table that `CHOOSE` would pick. The folds of the
community modules are such functions over subsets; `SumFacts` and `ProductFacts` say that any
element may be taken first, and `SumByClass` that a sum may be taken class by class.

**Theorems no run checks.** The type invariants, `SnapshotsNeverGoBack`, `OneOpen`,
`ReconfigureInvalidates`, `SuccessClears` and `MarksMatchState` are proved, and their runs check
what is built on them or says more.

**Only model-checked.** Liveness (`CallsReturn`, `LifecycleReturns`, `AnnouncedInTheEnd`,
`ForAuthReturns`, `StreamsEnd`): fairness and ENABLED are out of the prover's reach.

## Not modelled

- Browser panels, C buffers, JSON envelopes, the YAML scanner, and labels and prefixes of the
  auth file parser: text or memory handling without state. What a provider's JSON means
  beyond percentages is data.
- The unary `execute` and the rewriting of headers and bodies in the auth plugin: functions of
  one request, without state; so is the table of reasoning levels made from one registry
  answer.
- What `/v1/profile` displays besides the rates: weights, peak hours, weekend share and
  confidence grades, which nothing else reads. Buckets older than the retention, which remain
  until the next pruning and make the rates too high for that long, are left out.
- The migration of version 0.2 databases.
- A webhook post that arrives after its timeout and after the next one. The model
  sends posts in the order the worker does, which waits for each answer or times out.

## Plan

Done: the cache, the monitor, the store, the alerts, capture, discovery and overlay, the
executor's stream, classification, provider answers, projections, paging and retention of
sessions. Left, in this order:

1. `HealthStore` from rows of the old schema as a second initial condition.
2. The unary executor, with the same release of the host's stream as `StreamPump`.
