# fifi: a TLA+ model of its stateful parts

fifi collects Korean and US market data and corporate disclosures: a Go module
with several commands (`src/cmd`) over shared packages (`src/internal`), a
PostgreSQL database, a Redis task queue (asynq), JSON files under `.cache`, and a
React page over an HTTP API. This directory holds TLA+ models of the parts whose
correctness depends on concurrency, failures and order, TLC configurations that
check them on small instances, and TLAPS proofs for any instance.

Run, in this directory, `tlc -config <X>.cfg <MC module>` for a run and
`tlapm <M>Proofs.tla` for the proofs.

## 1. Inventory

### 1.1 The DART pipeline (modelled)

| Part | State | Operations | Talks to |
|---|---|---|---|
| `HandleFetchReportsTask` (`internal/dartfiling/tasks/processor.go`) | rows of `raw_reports`, `report_types`, `analyses`; its listing and the analyses it has gathered in memory | list, look up, fetch, parse, store the raw report, analyse, store a schema suggestion, store all analyses | DART, OpenAI, PostgreSQL |
| `dart.GetRecentRawReports`, `GetDocument` (`internal/external/dart/dart.go`) | none | paged listing with an optional limit; a document or "not found" | DART |
| worker (`cmd/dart-filing-worker/main.go`) | the asynq queue `default` in Redis; one task slot | boot: delete the waiting fetch-reports tasks, enqueue one, start scheduler and server; daily fetch-companies task; shutdown | Redis, the handlers |
| worker CLI (`cmd/dart-filing-worker-cli/main.go`) | none | calls the handlers without a queue or a deadline | the handlers |
| `AnalyzeReportBatch` (`internal/external/openai/openai.go`) | a batch at OpenAI | upload, create, poll every 10 s, parse | OpenAI |

What is hard: two processes run the same handler on one database with nothing
but a UNIQUE constraint between them (a count and an INSERT are separate
statements); each raw report is stored at once but all analyses only at the end,
so whatever ends a run in between (an error of a later document, the two-hour
deadline, a crash) loses analyses that were paid for, and since a stored report
is skipped from then on they are never made again; an INSERT may be committed
without its answer arriving; disclosures are filed while the list is being paged;
a second worker process may take tasks from the queue that a booting one is
cleaning.

Correct means: no receipt is paid for twice or stored twice; at most one run is
responsible for a receipt; a run that returns nil left no listed report behind;
a task is acknowledged only then; tasks are run by one live process each and all
of them end; the boot never deletes a running or a foreign task and never hangs.

### 1.2 Files that are replaced (modelled)

`WriteJSONAtomic` and `WriteCacheFile` (`internal/fileio`), `EnsureZipCache`
(`internal/mstcache`), `saveTokenCache` (`internal/auth`) and `saveActualPBRCache`
(`internal/domesticstock`) all write `<path>.tmp` and rename it. The name of the
temporary file is shared by everybody who writes the path: goroutines and
processes. Hard: overlapping saves, a clean-up that removes somebody else's
file, crashes half-way.

### 1.3 The KIS REST client (modelled)

`KIClient` (`internal/auth`) keeps the bearer token in `AuthToken` and in a token
file. A command calls `EnsureAuthToken` first: a valid token in the file is used,
otherwise one is requested, set and saved (`RefreshAuthToken`). Its goroutines then
call `doWithRetry` on the client they share. Hard: `AuthToken` has no lock, each
goroutine that meets an expired token refreshes it for itself, all of them save
through one temporary file, a refresh restarts the call without counting an
attempt, and the context may end in any wait. Correct means: a bounded number of
requests per call, a refreshed token is good whoever else refreshes, the next
command can read the file, every call ends.

### 1.4 The DART services (modelled)

| Part | State | Operations | Talks to |
|---|---|---|---|
| HTTP API (`cmd/dart-filing-api`, `internal/dartfiling/routes`, `controllers`) | a limiter per client address, in memory | a request passes the limiter, then its handler makes one or two queries; a preflight is answered without one; a sweep every five minutes forgets limiters unused for ten | PostgreSQL, browsers, the MCP server |
| MCP server (`cmd/dart-filing-mcp`) | `shutdownCh`, a goroutine per open request, `outMu` | read a line, handle it, ask the API, write the answer; stop at the end of the input or after a shutdown | its client's pipes, the API |
| `HandleFetchCompaniesTask` (`internal/dartfiling/tasks/processor.go:211`) | rows of `companies` | for each company of DART's list: look it up, then insert or update it | DART, PostgreSQL |

What is hard: requests are handled concurrently, so that answers come in any order
and a shutdown overtakes requests read before it; the loop is told to stop while it
blocks in a read, which closing its input need not interrupt; a client that does not
read its answers blocks the goroutine that writes and, behind the lock, all others; the
API may be slow, fail or limit; a limiter that was forgotten is
made anew with a full burst; a handler's two queries see different tables; two runs
of the companies task miss or find a company between each other's statements, have
lists of different age, and end at the first error with the rest of the list
behind them.

Correct means: while the client reads, every request that was taken is answered and a
closed input ends the server; no
address gets more requests through than burst and rate allow; a run of the companies
task that returns nil has brought the table up to date.

### 1.5 The market day (modelled)

| Part | State | Operations | Talks to |
|---|---|---|---|
| pulse (`internal/collector/pulse`, `agent report intraday-pulse`) | `pulse_<date>.jsonl`, one record a line | collect from every provider, read the day's records, compute changes against them, build two market-safety boards, append the record | KIS, Yahoo, Naver, master files, the file of official events |
| market collector (`cmd/market-collector`) and store (`internal/market/facts`) | table `market_observations`, UNIQUE(metric, time) | a tick of four goroutines and one insert, by a daemon or a single call; backfill from the snapshots | KIS, PostgreSQL, the snapshot files |
| snapshot (`internal/collector/snapshot`, `agent report market-snapshot`) | a file per date with its archives | collect the sections for today or a past date, fall back on the store, archive the file, replace it | the same providers, KOFIA, the store |
| services and clients (`internal/domesticstock`, `domesticfutureoption`, `internal/external`, `internal/mstcache`) | a master file per date and kind, KOFIA's cache | near-month contract, index universe, VKOSPI code, paged daily rows, decoding | KIS, the exchange's downloads, Yahoo, Naver, KOFIA |
| calendar (`internal/market/calendar`) | none | phase of a venue, freshness of a quote | |

What is hard: pulses overlap and answer with provider times that stand still or run
behind; a crash tears a line which the next append continues; quotes go stale after
a sidecar was triggered or released; two boards derive the same condition apart; a
tick's four goroutines, its deadline and its insert share one context; the
exchange publishes new masters while programs run, each of which looks for the date's
file, downloads it and renames it into place in steps of its own; the file of official
events is written by hand and may be half edited when a pulse opens it; a snapshot of a past date reads a
store into which newer observations are being inserted; the archive and the
replacement of a file are two steps of runs that overlap and die.

Correct means: a change shown is one the provider published over that window; a
history that reads has every record that was said to be saved; a trigger that
is in the history and in the file stands; the boards agree; a tick is stored whole or not at all; no snapshot reported as saved
disappears, unless two saves of its date overlap or one cannot read the file it
replaces; programs speaking of one date mean the same contract and the same index
members, unless two of them downloaded its master file at once; a stored value is shown
only when it is not too old and not from the future.

### 1.6 The premarket report (modelled)

`agent report premarket` (`internal/collector/premarket`) collects yesterday's closes,
flows, breadth and calendars, derives tiers from them and from the history
`store.v2.json`, and upserts its day into that file. State: the history file, and the
answers a run has memoised (`memoStock`). Hard: two runs load, upsert and save with
their own copies of the file; a past day is reported again when later closes are
known; providers restate tables between two questions, and errors are memoised as
well as answers. Correct means: no input of a report is of
its day or later, or stamped later than the run or 09:00; a table is of one edition and one session; a save drops no day it had loaded.

### 1.7 Not modelled

| Part | Why |
|---|---|
| OpenAI client and its batches (`internal/external/openai`) | one step of `ReportPipeline`: it answers, fails or never returns; what happens inside cannot be told apart by the handler |
| Interactive CLI (`cmd/app.go`, `cmd/main.go`), `agent credit-balance` and `rsi` | flags, one request, rendering |
| Request wrappers of the KIS services, `internal/overseas*`, `commodityfuture`, `shippingindex`, KOSIS, FRED, Binance | a request each, without state of their own |
| `internal/dcf`, `companyanalysis`, `marketpremium`, `quadwitching` | floating-point calculations over answers |
| `internal/external/xbrl`, DART document parsers, `internal/parse`, `format`, `envcfg` | pure conversions; that a document may be rejected is in `ReportPipeline` |
| `internal/db` | connection set-up; its UNIQUE constraints are in the modules that rely on them |
| `web/src` | a view of the HTTP API |

`PROJECT.json` lists every component with its status, and under `hazards` each
place where the above can go wrong, with the property that covers it.

## 2. Modules

| Module | Models | Uses |
|---|---|---|
| `ReportLedger` | abstract: the standing of each receipt (absent, pending, analysed, stranded) | |
| `ReportPipeline` | the fetch-reports handler run by several processes on one database | implements `ReportLedger` |
| `FetchQueue` | the asynq queue and the worker's boot, shutdown and crash | |
| `DartWorker` | worker processes: the queue composed with the handler, and CLI invocations beside it | `ReportPipeline`, `FetchQueue` |
| `AtomicWrite` | the temporary-file-and-rename protocol with several writers | |
| `KISClient` | commands and their goroutines calling KIS with a shared token | `AtomicWrite` (the token file) |
| `CompanyRoster` | runs of the companies task on one table | |
| `DartApi` | the API's limiters and handlers, and who changes the tables | `CompanyRoster` |
| `McpShim` | the MCP server and its client | `DartApi` |
| `DartService` | all three with other clients of the API | `McpShim` |
| `MarketCalendar` | the wall clock, market phases, freshness | |
| `MarketSafety` | the two market-safety boards | `MarketCalendar` |
| `Providers` | services between the programs and the providers; the files of a date | `MarketCalendar` |
| `PulseInputs`, `Pulse` | what a pulse makes of the answers; its invocations and the JSONL file | `MarketSafety`, `Providers` |
| `MarketFacts` | the store and the market collector | `Providers` |
| `SnapshotInputs`, `Snapshot` | the snapshot's sections; its invocations and files | `PulseInputs`, `MarketFacts` |
| `MarketDay` | pulses, collector, backfill and snapshots on one day | `Pulse`, `Snapshot` |
| `Premarket` | runs of the premarket report on one history file | |
| `ReportPipelineProofs`, `AtomicWriteProofs`, `KISClientProofs`, `FetchQueueProofs`, `DartServiceProofs`, `PremarketProofs`, `MarketDayProofs` | theorems | the module they are about |
| `DartWorkerProofs` | theorems | the theorems of both parts |
| `MC*` | instances for TLC | |

### 2.1 ReportPipeline

`pc[p]` is the place of run `p` in the handler: `list` (line 60), `scan` (the
loop's head and the row count, 68-77), `fetch` (79-100), `insert` (102-115),
`analyse` (117-140), `suggest` (142-175), `flush` (196-205); `idle`, `ok` and
`err` are the ends. `listing`, `next` and `batch` are `rawReports`, the loop's
index and `analyses`; `page` and `totalPage` belong to `GetRecentRawReports`.
`raw`, `reportTypes` and `analyses` are the tables. `llmCalls`, `skipped` and
`atStart` are history variables no guard reads. A run has a deadline if it is in
`Timed` (a worker task) and none if it is a CLI invocation.

Each database statement has up to three outcomes: it succeeds, it fails without
effect (`DatabaseFails`), or it is committed and its answer lost (`...Unacked`).
The model call answers, answers with a schema suggestion, or fails. The
companies lookup at line 144 only fills a name in and is left out, as are
marshalling errors, which the encoded types rule out.

`Abandon` empties the run's memory: the deadline cancels the context every
statement and the model call use, so a handler goroutine that asynq has given up
changes nothing any more.

### 2.2 FetchQueue and DartWorker

A task is unused, pending, active, retry, archived, completed or deleted.
`Boot`, `ListTasks`, `DeleteTask`, `DeleteRefused`, `NextList` and `EnqueueFetch`
are lines 97-125 of the worker; `Dequeue`, `Succeed`, `Fail`, `Forward`,
`Recover` and `CountFailure` are asynq's part as the worker configures it
(Concurrency 1, default MaxRetry), modelled from its documented behaviour.
`Shutdown` requeues a running task, `Crash` leaves it to the recoverer.

`DartWorker` joins the two: dequeuing a fetch-reports task starts a run, the
handler's return value decides between `Succeed` and `Fail`, stopping the
process ends the run. The ids of runs are the ids of processes, which is sound
because a process has one slot.

### 2.3 AtomicWrite

`os.WriteFile` is two steps, the open that empties the temporary file and the
write; the rename is a third. What a descriptor refers to follows the file when
another writer renames it, so a write can end up in the target. `RenameFails` stands for every
error of the rename; `refused` remembers one that had its temporary file.

### 2.4 KISClient

`pc[g]` is the place of goroutine `g`: `start` (waiting for the limiter), `sent`
(waiting for KIS) and `backoff` in `doWithRetry`; `request`, `granted` and `saving`
in `RefreshAuthToken`. A command is the goroutine that ensures the token. `token` is
`AuthToken`, read when a request's headers are built, set by `SetAuthToken`; `bearer`
is what a request carries. Tokens are numbers in the order of granting; an unlocked read
yields the token before a write or after it (the string header is read in two words, but
the tokens of KIS are equally long). What the token file holds of a token, with its
expiry and the time of saving, varies in length (`Length`), so that overlapping saves
can leave the tail of a longer one. `save` and the variables after it are those of
`AtomicWrite`; each goroutine is a writer. `sends`, `old` and `mixed` are histories.

KIS grants a new token per request, refuses a token from the moment it expires, and may
refuse any other.
A token lives a day and a command for minutes: `Expire` leaves the tokens alone that
were granted after the command became busy (`old`). The answers of KIS are
`Answered`, `Refused` (EGW00123) and `Unavailable`, which stands for all that the
code retries: a transport error, 429 and 5xx, an empty or unreadable body, the
rate-limit code. A 5xx is retried whatever its body says, also when it says that
the token has expired.

### 2.5 DartService

`sync[s]` is a run of the companies task: `LookUp`, then `CreateCompany` or
`UpdateCompany`, one statement each (`processor.go:224-262`); `SyncFails` is every
error return and the end of the process. GORM's `Updates` skips empty fields, and so
does `UpdateCompany`.

`limiters` are the entries of the middleware's map; `GetLimiter` refills the token
bucket as `rate.Limiter` does (external), `Sweep` is the clean-up goroutine
(`routes.go:38`). `http[c]` is a request: `sent`, `handling`, `half` (between the two
queries of the handlers by receipt and by company), `answered`. A receipt number is
its day and a digit; the date filters and the limits of the handlers are exact.
`admitted` is a history.

`sent` and `nextLine` are the client's and the server's place in the script of lines,
`shim` that of the loop (`top`, `reading`, `waiting`, `ended`), `calls[i]` the
goroutine of line `i`: `new`, `asking`, `writing`. `ReadEnds` is the end of the input.
`ReadInterrupted` is the read that fails since `handleRequest` closed the input on a
shutdown; it may happen and need not, for Go interrupts no read of a descriptor it
cannot poll. `client` says whether the client `reads` its answers, is `stalled` or is
`gone`: `WriteMessage` waits for it to read, `WriteFails` is a write to a client that
has gone, which may also kill the process (`ShimKilled`). The answers are kept as result or
error; which tool asks which route with which limit is `ToolQuery`.

### 2.6 MarketDay

A time is a number of minutes since the midnight of day 0. `world` holds everything
that comes from outside: the instants the clock shows (`TickClock` moves to the next
one), the providers' answers at each, the official events with the time they were
written, the environment, the files and observations there are at the start, and how
often each program is started. It is chosen by `MarketInit` and never changes.

A pulse is `PulseStart`, `Gather`, `Conclude`, and `SaveRecord`, `SaveCutShort` or
`PulseEnd`, and before `Gather` the downloads of the master files that are not there:
between them the clock and other invocations go on. `file[d].lines` is
the JSONL file as a sequence of lines, each a sequence of pieces, since a record cut
short has no newline and the next append continues its line; such a line does not
parse, and `LoadRecords` then fails for the whole file (`store.go:64`). Percentages are
whole, or in hundredths where the code's thresholds are finer.

`MarketSafety` has one operator per step of `market_structure.go`: an official event
overrides the quotes, then the window, then what must have come first, then the
condition, then the freshness of the quote. The file of official events is read anew by
each pulse: it may be unreadable then, its events are written and struck out at times of
their own and stand in any order, and the board takes the first one that has a time. The
older board (`LegacySidecar`) is
computed from the same quotes by different code.

`tick[c]` is a collection: `left` are the goroutines that have not ended, `got` what
the others observed. `ContextDone` is the deadline of a single collection or the
daemon's signal; `StoreTick` can only succeed before it. Rows of two collections never
have the same time, for it is in nanoseconds; `by` tells them apart.

`snap[s]` goes through `started`, `sections`, `fallback` or `volatility`, `ready`,
`archived`. `ArchiveSkipped` is the `ReadFile` that fails for another reason than a
missing file (`snapshot_io.go:112`): the file is replaced all the same. `reported` and
`exposed` are histories; a date is exposed once two saves of it have overlapped or one
has skipped the archive. The guard of `volatility.go:119` compares a date with dashes to
one without and is modelled by what that comes to: whether the year is later
(`BusinessDateNotAfter`); `NewYear` is the first day of a year.

`files` are the master files and KOFIA's cache, shared by all programs. A program that
does not find the file of a date (`FindNoMaster`, `mstcache.go:22`) goes on to download
it, and the outcome of that is `EnsureZipCache`: the file is put in place, over whatever
is there by then. When two programs have looked before either has renamed
(`downloads.raced`), they also share the temporary file, so that one may fail or install
an empty file.

### 2.7 Premarket

`run[p]` is one invocation, its `pc` the place between its calls: `closes`, `flows`,
`domestic`, `load`, `save`. `revised` selects between two editions of the tables that
a provider may restate (`Revise`), and every value carries the edition it comes from.
The history file is the set of its day records, one a day, since `UpsertRecord` sorts
them by day; a record lost to `MaxRecords` is the oldest.
`memo` is `memoStock`. Days are numbers and times hours; the cut-off is the hour of
the run or 09:00 of the report day. New York closes at 05:00 of the next day in summer
(`Summer`) and at 06:00 in winter. The share of the two large companies comes from two
requests, each with an error of its own (`Share`). A save that fails leaves the file as it is.

## 3. Runs

| Run | Instance | Shows |
|---|---|---|
| `report_pipeline` | worker and CLI (limit 1), 3 receipts of which one is malformed, page size 1; 221 thousand states | type, `PaidOnce`, `SoleOwner`, `Bookkeeping` (with them, inductive), `OkRunComplete`, `ListingLosesOnlyOldest`, `RunEnds`, and that the handler implements `ReportLedger` |
| `report_rerun` | without limit, 1 receipt, nobody interrupts | violated: `EveryReportAnalysed` (finding 1) |
| `fetch_queue` | 2 processes, 3 fetch tasks, 1 companies task, MaxRetry 1, 1 stop | `LeaseSound`, `FreshStart`, `DeletesOnlyWaitingFetches`, `TaskSettles`, `BootEnds` |
| `dart_worker` | 1 process, 1 CLI invocation, 2 fetch tasks, 1 companies task, 1 receipt, 1 stop; 1.4 million states | `RunsFollowLeases`, `AckedMeansStored` |
| `atomic_write` | 3 writers, 2 values of different length | `LoserMeansWinner`, `TargetNeverShort`, `LoneSaveAtomic` |
| `atomic_write_shared` | the same | violated: `AlwaysReadable` (finding 2) |
| `premarket` | 2 runs, 12 worlds, 8 dates and hours, 4 days of history; 148 thousand states | `NoLookAhead`, `TableAgrees`, `SavesKeepRecords` |
| `market_day` | 2 pulses and 2 snapshots at a time, 13 worlds; 503 thousand states | `DeltasAreWindows`, `ReadableMeansComplete`, `TriggersStand`, `BoardsAgree`, `SnapshotsKept`, `MastersStick`, `FallbackHonest`, `CutTicksAreLost` |
| `market_day_past` | the same | violated: `PastShowsNoLater` (finding 4) |
| `dart_service` | 1 client of the API beside the MCP server, scripts of up to 6 lines, 6 worlds; 143 thousand states | `RateHolds`, `RosterCurrent`, `EveryRequestAnswered`, `ServerEnds` |
| `kis_client` | 1 command with 2 goroutines, 2 attempts, 3 tokens of two lengths; 231 thousand states | `SendsBounded`, `RefreshSuffices`, `FileHoldsToken`, `CallEnds` |
| `kis_refresh_lost` | the same | violated: `RefreshedCallRetries` (finding 3) |

**Bounds.** Two runs suffice for every race between runs on a receipt: a third
could only repeat the role of the second, and the theorems hold for any number.
Three disclosures with pages of one entry make the list grow while a page is
being requested, shift an entry across two boundaries, and leave one report in
front of and one behind the malformed one. One retry (`MaxRetry = 1`) is enough
for a task to go through retry and archive; `MaxStops` bounds the stops of
processes, `FetchTasks` and `CompanyTasks` the tasks ever enqueued (`IdsLeft`
keeps a process from booting without a task id left for it). Histories
(`llmCalls`, `analyses`) are unbounded in the module; the invariants keep them at
one. Two values of different length show everything a mixed file can be.
Three tokens are one that expires and one refresh by each of two goroutines; two
attempts are one that is retried and the last; `MaxTokens` and `CommandOf` of one
command keep the instance small, the theorems have any number. `report_pipeline` and
`kis_client` count states as one that differ only in what no later step and no property
reads, such as the attempts of a call that has ended or the pages of a run that has its
listing: their views (`Live`) name what is left.

A world of `premarket`, `market_day` and `dart_service` is a base world, in which every
provider answers well, with a few answers replaced, each by one the code treats
specially: all combinations would multiply what the programs cannot tell apart.
`MCMarketDay` says of each of its thirteen worlds what it is for: `Lagging` has three
pulses against answers whose times run behind; in `SidecarDay` and `CrashDay` official
events are written, put right and struck out, the file is unreadable at times, and
quotes are stale; in `Apart` futures and spot disagree and providers fail; `Ticking` has
two collections; `Withheld` and `Overnight` lose VKOSPI between a backfill or a tick and
a snapshot; `Rollover`, `RolloverPulses` and `RolloverSnapshots` change the masters under
a pulse and a snapshot, two pulses, and two snapshots; `Archiving` has three snapshots of
two dates; `YearEnd` and `PastDay` ask for a past date whose next day is in the next year
(`NewYear` is day 8) or in the same. The counters of `plan` bound
how often a program is started; `TopCount` is 2 for the ten largest, `MeanSessions` 2
for twenty, `SampleSize` 2 for 250 and 60, `MaxRecords` 3 for 400 (so that the capacity
is reached), `MCSummer` ends between two closes that a report may show, `Interval` and `Deadline` are minutes. `Rate` 1, `Burst` 2 and
`StaleAfter` 2 satisfy what the code's 10, 20 and ten minutes do: a limiter that is
forgotten would have been full again (`LimiterAssumption`). Runs, pulses and snapshots
are interchangeable, and their sets are symmetric in the runs without liveness.

**Fairness.** A run takes its next statement (Go schedules it, DART's client and
the database answer or fail), except the model call, whose HTTP client has no
timeout: only asynq's deadline ends it, and a CLI invocation has none. In the
queue, a live process finishes its boot, keeps its slot busy, its handler returns
(`RunEnds` is what justifies that) and its forwarder and recoverer tick. Nothing
makes a process boot: `docker-compose.yml` has no restart policy, hence
`TaskSettles` assumes a process that keeps serving. A goroutine of a KIS call goes on:
the HTTP client gives up after 15 seconds, and the limiter and the backoff let it go; nothing makes its
context end. The MCP server's loop and
the goroutines of its requests go on, and a call to the API ends with its 15-second
timeout at the latest (`ServiceFairness`); nothing is assumed of the API, the database or
the worker, nor that a close interrupts a read. A write waits for the client to read, and
since a client need not, `EveryRequestAnswered` and `ServerEnds` speak of the behaviours
in which it reads from some time on. `report_rerun` assumes
more, on purpose: the handler is run again and again and never interrupted, and
the property fails all the same.

`FetchQueue` and `DartWorker` switch deadlock checking off: all tasks of the
bounded instance may be used up and every process down. So do `Premarket`,
`MarketDay` and `DartService`, whose programs end and are started a bounded number of
times.

**Findings.**

1. `README.md:102` says the CLI collects all recent disclosures and stores their
   analyses. A report whose analysis failed once (`processor.go:131`, `:138`) is
   skipped by every later run, for its row exists (`:74`): `report_rerun`.
2. `fileio.go:53` says `WriteCacheFile` writes "atomically". When a second
   writer of the same path opens the shared temporary file between the first
   one's write and rename, the rename installs an empty file:
   `atomic_write_shared`. What does hold of overlapping saves is checked and
   proved: the file does not stay empty, and a failed rename means another
   one's succeeded.
3. `api_test.go:19` says the client "refreshes an expired token and retries the
   request". When two goroutines refresh at once, the rename of one takes away the
   temporary file the other has written; that one's call fails with "token expired
   and refresh failed" (`auth.go:235`, `api.go:244`) although its token was granted,
   set and written: `kis_refresh_lost`.
4. `volatility.go:119` keeps a stored VKOSPI from the snapshot of an earlier date by
   `last.BusinessDate <= date`. The store's column is a DATE and reads back with dashes,
   the snapshot's date has none (`facts_test.go:95` has neither), so within a year the
   guard always holds, and the snapshot of a past date shows the value of a later day:
   `market_day_past`. Over the turn of the year the guard refuses, and `FallbackHonest`
   says what holds in both cases.

## 4. Proofs

Every safety property that a run checks is stated by a theorem, for all values of the
constants that satisfy the modules' ASSUMEs. Properties of a composition are proved
of the composition: `MarketSpec`, `ServiceSpec`, `DartWorker`'s `Spec`.

### 4.1 The DART pipeline

`ReportPipelineProofs`, for any receipts and runs, any limits and page size.
`TypeCorrect`, `ModelPaidOnce`, `OneOwner` and `BookkeepingKept` come from one
invariant. `PaidOnce` and `SoleOwner` are not inductive by themselves: a run in
`analyse` must not have called the model yet for the report it is at, one in `suggest`
must have called it exactly once, the loop's body must work on a listed report, and a
run that has ended must own nothing. `Bookkeeping` says this. The argument: the INSERT
under the UNIQUE constraint makes one run the owner of a receipt, and everything that
is paid or stored for it is done by its owner. `Refinement` maps each action to
`Store`, `Settle`, `Strand` or a stutter of `ReportLedger` from the standing of the
receipts it touches. `OkRunsAreComplete` adds to the invariant that what the loop has
passed is stored or was skipped (`LoopCovers`). `OnlyOldestLost` follows the listing
while disclosures push older ones back by `Shift`: the pages read so far hold whatever
has not been pushed beyond them, and the last page asked for is far enough for the list
as it was at the start (`ListingCovers`).

`FetchQueueProofs`, for any processes, tasks, retry limit and stops: `QueueTypes`,
`LeasesAreSound` and `OnlyWaitingFetchesDeleted` from types and leases, which are
inductive together. For `LoneBootStartsFresh` the invariant describes the boot half
done (`LoneBootCleans`): the lists a lone boot has emptied stay empty, because only a
live process fills them and a lone boot is the only live process (`LoneBoot`).

`DartWorkerProofs` joins the two. Each step of the composition is a step of `FetchQueue`
or leaves the queue alone, and its handler steps are those of `ReportPipeline`, so the
invariants of both hold of it (`Parts`); `RunsAreLeased` and `AcknowledgedIsStored` need
them both.

### 4.2 Files and tokens

`AtomicWriteProofs`, for any writers, values and lengths: `TypeCorrect`,
`LoserHasWinner`, `NoShortTarget`, `LoneSaveIsAtomic`, from the invariant that
descriptors refer to existing files, that a temporary file disappears only by a rename
or by a clean-up after one, and that a writer nobody overlaps works on its own
temporary file.

`KISClientProofs`, for any commands, goroutines, attempts and tokens.
`TypeCorrect` is part of each of its invariants. `CallsSendBounded` counts: a call under
way has sent one request per attempt and one more after its refresh, has not refreshed
yet while it refreshes, and is in its backoff only if an attempt is left.
`RefreshIsEnough`: while a command is busy only tokens from before have expired;
whoever of its goroutines sets `AuthToken` then was granted a later one; so the token
stays later once one of them has set it. `TokenFileReadable` needs, for any lengths, the
invariants of `AtomicWriteProofs` of the token file, that whatever is in the file or about
to be was granted (`Stored`), and that a file which a save without overlap has put there
is whole and that nobody has it open (`Unmixed`); of a file an overlap has left it says
that it is not short.

### 4.3 The DART services

`DartServiceProofs`, for any clients, worlds and numbers. `RateIsKept`: from any request
let through on, the requests since then with the tokens left are at most
`Burst + Rate * (time since)` (`Accounted`). An address whose limiter was forgotten has
been idle so long that the rate alone covers all its requests (`Forgotten`); this is
where `LimiterAssumption` (`StaleAfter * Rate >= Burst`) is needed: without it a sweep
would hand out a second burst. `RosterIsCurrent`: companies are never removed, so those
a run has gone through stay in the table (`Passed`), and as long as nobody else is at
it the values of the last entry of each company do too (`AloneKept`).

### 4.4 The market day

`MarketDayProofs`, for any answers, clocks, files and numbers of invocations. Six
invariants, each with the earlier ones it needs:

- `StoreInv`: a collection that was cut short knows its context to be done, and a
  context stays done, hence `CutTicksNeverStored`; rows have a time, and a VKOSPI in the
  store is positive. With what an invocation keeps of its own time and date (`SnapInv`):
  `FallbackIsHonest`, whose last clause names both guards, the time and the year.
- `SaveInv`: for a date that is not `exposed`, everything reported saved is
  in the archives or is the current file, and all of it is in the archives while a save
  is between archiving and replacing. `SnapshotsAreKept`.
- `SavedInFile`: each record reported saved has a piece in the day's file, whatever was
  appended to its line. `ReadableIsComplete`: when the file parses, each line is one
  piece, hence a record.
- `PulseInv`: what a pulse has gathered, and what a record in a file holds, was answered
  by the providers; the devices of a record are those the board gives for the official
  events that were written by some earlier time (`RecSound`). `DeltasAreDifferences`
  follows from the way the record an hour back is found. For `TriggersAlwaysStand` nothing
  is assumed of the order or the growth of the file: what a record reports as fired was
  official at its time by some event (`OfficialIs`), and a board that still finds that event
  takes it or an earlier one as the trigger, and a release with it (`OfficialStands`).
  `TwoBoardsAgree` compares the two boards step by step on the same numbers.
- `MastersInv`: a contract or a weight that anything under way, in a file or reported
  shows is the one the date's master file gives, unless its file was downloaded by two
  programs at once (`downloads.raced`). Of a file that was not, one program at most
  found it missing and nobody replaces it (`DownloadsSound`), so this survives every step.
  `MastersAreShared`.

The master files gave a finding about the model: for a universe whose only weights are
left out, a snapshot shows none; `MastersStick` speaks of the weights that are shown.

### 4.5 The premarket report

`PremarketProofs`, for any answers, hours, runs and editions, from one invariant of
every report being built (`ReportInv`): each input is of an earlier day than the report,
and none that its source stamps is of after the hour of the run or 09:00 (`KnownInTime`), closes and flow are of the edition the requests remember and
of the prior day (`ClosesAgree`, `FlowAgrees`), each table is of one edition
(`TablesAgree`), samples are older than what they are compared with (`SamplesOlder`), and
what a run has not made yet is empty (`NotYet`). `ReportsLookBack` and `ReportsAgree`
follow from it. `ReportsLookBack` does not say that a report could have been made that
morning: a table restated since and a sample observed since are used, as
`PREMARKET_DATA_CONTRACT.md` says of a re-run. `HistoryKept` is an action property of `SaveStore`: an upsert replaces
the record of one day and drops, at capacity, days older than all it keeps.

### 4.6 Assumptions

They are the ASSUMEs of the modules, and TLC evaluates them on every run:

- Numbers are numbers: limits, attempts, retries, tokens; page size, sizes of values,
  look-backs and capacities are positive.
- Sentinels are not values: `NobodyAssumption`, `AbsentAssumption`,
  `SentinelsAssumption`, `NoWorkerAssumption`. Kinds of tasks, of threads and of symbols
  are disjoint; each KIS goroutine belongs to a command.
- `LimiterAssumption`: the sweep's ten minutes at ten requests a second are more than
  the burst of twenty (`routes.go`).
- Worlds: `WorldsAssumption` of `DartService` (lists are sequences, rows have their
  columns), of `MarketDay` (times, dates and observations are numbers, the store's
  VKOSPI is positive) and of `Premarket` (rows are lists, days and instants numbers,
  the file has one record a day). `QuotesAssumption`: quotes are decoded numbers.
  `FilesAssumption`: cached files are kept by kind. `EventsAssumption`: the file of
  official events is a list whose times are numbers, in any order.
- The days a premarket report counts as summer in New York (`PremarketAssumption`) are
  numbers; nothing is assumed of the first day of a year (`NewYear`).

### 4.7 Only model-checked

The six liveness properties (`RunEnds`, `TaskSettles`, `BootEnds`, `CallEnds`,
`EveryRequestAnswered`, `ServerEnds`): they rest on fairness, and `ENABLED` is out of the
prover's reach. The four expected violations are TLC's too. The invariants of the proofs were
checked with TLC on the instances of the runs before they were proved; the
runs do not repeat it.

## 5. What is left out

- The five-day window of the listing: disclosures do not age in the model.
- asynq's lists have pages of 100 tasks; the model reads a list in one step.
- `ListScheduledTasks`: no task of the queue is scheduled for later.
- Retries inside the OpenAI client: a call is one payment.
- A KIS client without a token file; the minute by which `IsValid` is ahead of KIS;
  the rate of the limiter and the length of the backoff; that KIS may grant the
  token it granted before.
- Power loss: a crash ends the process, what was written stays written.
- Contents: documents, analyses, token and cache encodings, the JSON sidecars of the
  master files, Markdown copies, manual inputs and rendering of pulse and snapshot.
- `facts.Resolve`, which no program calls; the process-wide cache of the VKOSPI code,
  since each invocation makes a service of its own.
- A record longer than the 64 KB a line may have for `bufio.Scanner`.
- Opportunity, demand and stress scores of the premarket report: they are never
  evaluated, and the model keeps that no grade is given (`VulnerabilityMatrix`).

Things met while modelling that no run states, for a reader of the code:

- `agent report intraday-pulse --premarket` gives its own flags to
  `runPremarket` (`cmd/agent/main.go:182`), which does not know them, and fails.
- `BasisDelta` needs an `Alignment` of `ALIGNED`, which nothing sets: it is never given.
- The backfill of pulse files keeps lines whose venue is `KRX`; no pulse writes a
  venue, and nothing is inserted (`PulseRows`).
- A VKOSPI from the store that a snapshot showed becomes, by a backfill, an
  observation of the date's close (`BackfillFile`).
- Naver's VKOSPI is shown with the time of the KIS row that was refused.
- A row of KOFIA that was cached for a date is not replaced when the date's own row
  appears, although the comment at `kofia/cache.go:40` says "the latest row".
- A master file once torn or emptied stays so for its date (`EnsureZipCache`).
- `SNAPSHOT_DATA_CONTRACT.md:42` says the previous file is preserved before it is renewed.
  A file that cannot be read is replaced without an archive (`snapshot_io.go:112`), and of
  two overlapping saves of a date one may archive too early and lose the other's:
  `SnapshotsKept` excepts both.
- `NOW_DATA_CONTRACT.md:20` says that missing input is not made normal. When the file of
  official events cannot be read, the error is swallowed and a pulse may judge the day
  `NORMAL` whose history reports a sidecar (`AssessPulse`).
- A shutdown closes the MCP server's input "to unblock" the read (`main.go:229`); a
  blocking descriptor does not unblock, and then the server ends only when the client
  closes its end or writes another line (`ReadInterrupted` may never happen).
- The calendar knows one holiday, of the JPX, and none of the KRX.
- An unknown notification gets an error answer, although `main.go:205` of the MCP server
  says that notifications get none; its tool schema allows a limit of 500 which the
  API cuts to 100; an empty receipt number is a path the API does not have.
- The jitter is applied after the cap of the backoff (`retry.go:62`).

## 6. Plan

Theorems to come: type correctness of `Premarket`, `MarketDay` and `DartService` as
theorems of their own (the fields the proofs need are in their invariants), and
that the pieces of a day file are never lost when no append was cut short.

Of the models, what is left is the credit-balance and rsi reports, which only read.
