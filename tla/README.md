# A verification of service_status_aggregator

The aggregator polls the `/health` endpoint of every registered service, keeps the
results in SQLite and draws a public status page: a live state per service and a
strip of day cells reconstructed from stored status transitions. This directory
models it in TLA+: modules that follow the code, TLC configurations that check them
on small instances, and theorems checked by TLAPS. `PROJECT.json` lists components,
runs, mutants, hazards, findings, theorems, and for every definition the source
lines it stands for.

Paths below are relative to `src/service_status_aggregator/` of the repository.

## 1. Inventory

| component | state | operations | correctness |
|---|---|---|---|
| store, `storage.py` | tables `services`, `status_events`, `meta`; one connection, one lock | upsert, remove, record_check, mark_unknown, prune_events, set_meta; reads | one row per (name, host); a row and its event change together; events belong to live rows; the newest event explains the present status |
| process, `runtime.py` | in memory: tasks, stop event; in the store: last completed cycle | start (gap detection, marking, self-registration), janitor, watchdog, stop; `remove` from another process | an outage is unknown in the history; a restart at any point loses nothing that was promised |
| poller, `poller.py` | cycle under way, semaphore, `poller_last_cycle_at` | list, check all concurrently, store results one by one, `set_meta`, sleep | every service is checked again and again; at most `max_concurrent` requests; a result reaches the service polled; one failure does not hurt the others |
| web, `web/app.py` | none of its own | `POST /register`, `/`, `/api/services`, `/config`, `/health` | a registration is an idempotent upsert; exactly one request creates a row; readiness follows the poller |
| history, `web/history.py` | none | events and an initial status to day cells, downtime, incidents, uptime | the cells account for every second of the window exactly once, with the status then in force |
| views, `web/views.py` | none | live state, staleness, order, banner | the banner agrees with the worst service |
| configuration, `config.py` | none | load, validate, redact | whatever mistakes are combined, nothing the documents forbid is accepted (two values get past: see section 4) |
| models, `models.py` | none | validators, `check_target` | a target outside the allow list is never polled |
| life of the process, `runtime.py` with `cli.py` | phase, exit code, tasks, worker threads | load, open, resolve, probe, listen, serve; signals; shutdown | the exit code tells systemd whether to start again; nothing is left inside a closed store; starts and stops end |
| bind resolution, `netbind.py` | attempts | detectors with retries, fallback, port probe | the attempts end in an address or a refusal |
| heartbeat, `runtime.py` `watchdog_task`, `poller.py` `healthy`, `sdnotify.py` | age of the last cycle, time of the last ping | `READY=1`, `WATCHDOG=1`, `STOPPING=1` | a wedged poller gets the process replaced; one that merely fails once does not |
| deployment, `deploy/systemd/` of the repository | the unit's state | `Restart=on-failure`, `WatchdogSec`, `TimeoutStopSec` | a refusal or a crash may be followed by another start, a stop is not |
| healthcheck command | none | resolves the address anew, asks `/health` | succeeds while the service is well |
| logging, client example | | | see section 6 |

Interaction. The web handlers, the poller, the janitor and the self-registration are
asyncio tasks of one event loop; each reaches the store through `asyncio.to_thread`,
so its operations run in worker threads on one shared connection under one lock.
The `remove` command is another process on the same database file. The poller
reports to `/health` and the watchdog through `RuntimeState.poller_last_cycle_at`,
and to the next start of the process through `meta.last_cycle_at`. systemd starts the
process, hears its pings, sends SIGTERM, and reads its exit code; the command
`healthcheck` reads the same file and asks over HTTP.

Hard behaviour. Crashes between the transactions of one cycle or one start; results
used after an await; ids that return; timestamps in the past (gap marks) in a log
ordered by time; a prune that removes what reads rely on; timeouts against slow but
living targets; transactions of many threads on one connection; clock changes at
local midnight; wedged cycles and a blocked loop; signals in every phase of a start;
threads at work while the store is closed.

## 2. Plan

Modules in the order in which they are built. Done, see section 3:

1. `StatusStore`: the store, one atomic action per operation. The abstract
   specification every other module is measured against. `StatusStoreProofs`: its
   invariants and action properties for every value of the constants.
2. `Aggregator`: process, poll cycle, janitor and restarts over `StatusStore` and a
   clock. `AggregatorProofs`: it implements `StoreSpec`, no event is from the future, and
   results reach the service polled. `HonestGapsProofs`: outages are unknown in the
   history, and the live status is the end of the strip.
3. `PollCycle`: the checks of one cycle one by one; liveness of the poll loop.
   `PollCycleProofs`: permits and connections, for any number of checks.
4. `StoreTx`: threads and processes with lock and transactions; implements `StatusStore`.
   `StoreTxProofs`: that refinement, statement by statement.
5. `History`: segments and day cells against a tick-by-tick reference. `HistoryProofs`:
   that they agree, for any number of days and events.
6. `Web`: registrations and the reads of one page beside the running aggregator;
   implements `Aggregator`. `WebProofs`: that it does, that rows are vetted, and what a page
   shows.

7. `Config`: what `load_config` accepts. `Watchdog`: readiness, heartbeat and systemd's
   watchdog over slow, failing and wedged cycles.
8. `Unit`: the promise to the operator. `Service`: the process from its configuration to
   its exit code, composed of the two modules above; implements `Unit`.
   `ServiceProofs`: its invariants and that refinement.
9. `Healthcheck`: the command beside a running `Service`.

To come, where it pays:

10. The database part of `/health`, and two keys for the own row when the bind address
    changes between starts.
11. Theorems about `Healthcheck`, should the command learn to ask where the server listens.

## 3. Modules and the code

### StatusStore

Rows of `services`, rows of `status_events` and the one row of `meta`, and one action
per operation of class `Storage`. Every operation holds the connection lock inside
`BEGIN IMMEDIATE ... COMMIT`, so here it is one step. What is kept: the select before
the insert of `upsert_registration`, the columns each statement sets and leaves alone,
the comparison with the old status, the cascade of `remove`, the prune by age, and
that `INTEGER PRIMARY KEY` without `AUTOINCREMENT` hands out the id of a deleted last
row again. A (name, host) pair is a number (its place in `ORDER BY name, host`), the
other columns of a registration one value of `Infos`.

### Aggregator

Extends `StatusStore` with a clock, the process and one poll cycle.

| action | code |
|---|---|
| `Start`, `MarkGap`, `Serve` | `detect_monitoring_gap` (its threshold, then one transaction per service), then the rest of `serve` up to the tasks |
| `BeginCycle`, `EndChecks`, `RecordResult`, `FinishCycle`, `CycleFails` | `run_cycle` and the `try` of `Poller.run` around it |
| `Sleep` | the delay computed from the start of the cycle |
| `Register` | `POST /register` and the periodic registration of the own row |
| `Prune` | `janitor_task` |
| `Stop` | a crash, a kill or an orderly end, between any two transactions |
| `RemoveCommand` | `cmd_remove` in another process |

The operator `Strip(r, t)` is the status the history shows for row `r` at time `t`: the
last event up to `t`, by time and then by id, as `events_since` orders them. History
variables (`outages`, `stopped`, `horizon`) record what happened and guide no action.
Two constants restrict the environment: `MayCutShort` (may a cycle end after its first
stored result and before `set_meta`) and `MayRemoveLive` (may the remove command run
while a cycle is under way).

### PollCycle

One task per service: `check_target` in a worker thread of the shared executor and
outside the semaphore, the semaphore, a connection of the client, the request.
`gather` returns when all have ended or raises with the first exception; then what
still runs goes on as strays beside the checks of the next cycle, with the same
semaphore. Two generations of checks are enough for that (a bound: a cycle with a
failed check ends only when no older stray is left). What differs between instances
(services, permits, connections, threads, may a validation or a write raise) is a
record of `Settings`, chosen in the initial state and kept, so that one run covers the
calm instances and the rough ones.

### StoreTx

The operations of `Storage` statement by statement: lock, `BEGIN IMMEDIATE`, select,
write, event, `COMMIT`; statements that fail (`ROLLBACK`), commits that fail, processes
that die. Three threads share one connection, and two of them may register the same
service at once (`Upserts`: two requests, or a client that repeats one); the remove command
has a connection of its own. An upsert knows from its select, long before its `COMMIT`,
whether it will say that it created the row (201) or renewed it (200). SQLite
itself is external and modelled as used: one writer at a time, a reader of another
connection sees what is committed, a reader of the same connection sees its draft.

### History

`build_histories`, `_segments` and `build_history` for one service, one step per turn
of a loop, over every log of bounded length and every position of the clock change.
Days last between `ShortestDay` and `LongestDay` ticks, `NominalDay` is the length of
one without a clock change, and at most one day of the window has another length.
The reference beside it asks for the status of every single tick. A time carries
whether it is expressed in the display zone, because the difference of two Python
datetimes of one zone is that of their wall clocks. The module assumes that events are
in order of time and of id alike; this is `EventsInOrder` of `Aggregator`. Where it
fails (finding `cut_gap`) `status_before`, which takes the largest id, and
`events_since`, which orders by time, disagree.

### Web

Extends `Aggregator` with requests and a page. A request is read (`Post`), waits for
`check_target` in a worker thread (`Allow`, `Refuse`) and then for the upsert in another
(`Upsert`); polls, removals, restarts and other requests come between. A page takes its
time (`BeginPage`), reads the rows (`ListRows`), the events (`ReadEvents`) and the
statuses before the window (`ShowPage`, the last read), each in a step of its own, and
is then a pure function of what it has read: live status, staleness, banner, and the
right end of each strip. The code reads the clock of an upsert just before it waits for the
lock (`storage.py:221`), here it is read at the commit: a last registration may be older by
that wait than the model has it. In `StoreTx` the time is an argument of the call.

### Config

`load_config` as operators on a file, which gives every key a value, none, or one of the
wrong type. The loader replaces a value of the wrong type by its default and goes on, so
the checks between keys (timeout and interval, history and retention, `require_token` and
the token) may compare a default; and the empty allow list counts as a problem only if
none was found before. Numbers are whole, and beside them there is `Nan`, TOML's nan, of which
every comparison is false: a check `x <= 0` misses it, one `min <= x <= max` finds it. An
address is the wildcard as `FORBIDDEN_BINDS` spells it, the wildcard in another spelling
("disguised"), or an ordinary one. `Problems` is what the loader collects, `Settings` what
it hands on, `Kept` what the documents ask of each key, and `Evades` names the two values
that get past the checks although the documents forbid them.

### Watchdog

Ages instead of times: since the last completed cycle, since the cycle began, since the
heartbeat looked, since systemd heard of the process. `BeginCycle`, `CompleteCycle` and
`FailCycle` are the loop of `Poller.run`; a cycle need not end. `Heartbeat` is one turn of
`watchdog_task`: it pings if `Poller.healthy`, else withholds. `Block` and `Unblock` are a
call that holds the event loop. `Pass` is time, which waits for every task that is due and
may run. The history variables `failed` and `rough` tell calm runs from others.

### Unit and Service

`Unit` says in seven actions what the operator is promised. `Service` is the process:

| action | code |
|---|---|
| `Exec`, `StopTimeout`, `WatchdogKills` | systemd by the unit file |
| `Load`, `OpenStore` | `_load` (an exception other than `ConfigError` ends the interpreter with 1) and the beginning of `cmd_run` |
| `ResolveExplicit`, `Detect`, `DetectAgain`, `DetectInVain`, `Probe` | `resolve_bind`, `port_in_use` |
| `Prepare` | `serve` before its `try`, whose exceptions end the interpreter |
| `Listen`, `ListenInVain`, `ListenNoMore` | the server starts, finds the port taken, or finds that a signal came first |
| `Signal`, `SignalKills`, `Drain`, `EndDrain` | the handlers of `_Server`, and their absence before it runs |
| `Leave`, `Cancel`, `Close`, `Join` | the `finally` of `serve`, `Storage.close`, the end of `asyncio.run` |
| `Take`, `Enter`, `Commit` | two worker threads and what they still do with the store |
| `Serving(WatchStep)` | module `Watchdog` while the process serves |

The refinement maps the phases to the states of the unit. A process that is going down
because the port was taken maps to "activating": for the operator it is a start that is
refused.

### Healthcheck

Extends `Service` with one process of the command, which takes the address anew. It keeps the
`bind` of the file and the address that is bound, which `Service` forgets once they guide
no step of it (its runs would have four times the states).

## 4. Runs

| run | instance | shows |
|---|---|---|
| `aggregator` | 2 services, one the aggregator itself, 6 seconds, interval 1, retention 3 | `HonestGaps`, `EventsInOrder`, `LiveMatchesStrip`, `NothingFromTheFuture`, `NobodyIsLiveAfterAGap`, `ResultsLandOnTheirService`; of the store, as the aggregator uses it: `HistoryHasItsService`, `RowIsCoherent`, `StateIsLogged`, `FreshRowHasNoPast`, `ChangeIsLoggedOnce` |
| `web` | 1 row id for 2 keys, 1 request, 3 seconds | `RowsWereVetted`, `PageShowsOwnHistory`, `BannerMatchesStrips`, and `Spec` of `Aggregator` as a property |
| `poll` | 2 or 3 targets, 2 permits, 1 or 2 connections, 1 or 2 threads, with and without failures | `CyclesComplete`, `ChecksEnd` (liveness), `HealthyIsNeverDown`, `RequestsAreBounded`, `NoPermitIsLost` |
| `store_tx` | 1 key, 3 threads, 2 processes, failing commits | `StoreSpec` (refinement), `CreatedIsToldOnce`, `ReadsAreCommitted`, `NoOrphanTransaction` |
| `history` | 3 days of 2 to 4 ticks, up to 2 events | `OrdinaryDaysAreExact`, `IncidentsMatchTheLog`, `ColoursMatchTheLog`, `Terminates` |
| `service` | intervals 2, 3 and 6, watchdog period 15, 3 attempts, every file with up to two related mistakes | `WedgeIsBounded`, `CalmIsNeverKilled`, `NothingElseSlipsThrough`, `NothingInsideAClosedStore`, `UnhealthyEnds`, `StartEnds`, `StopEnds` (liveness), `ImplementsUnit` (refinement) |
| `cut_gap`, `pruned`, `reused_id`, `poll_abort`, `history_clock`, `healthcheck` | smallest that shows it | the findings below |

Why the bounds are enough. An outage is marked after more than three intervals, so with
interval 1 six seconds hold a poll, an outage and the polls after it; a retention of 3
lets a prune delete in the same time. Two services are the fewest for which a start
can be interrupted between two marks and a cycle between two results. Two keys for
one id make the id return. Two permits of three targets make one wait; one connection
for two permits makes the pool the limit; a validation that raises beside two others
leaves strays to the next cycle. Days of 2, 3 and 4 ticks with a nominal length of 3 are
the short, ordinary and long day. A watchdog period of 15 gives a heartbeat of 5. Two
intervals of 2 are shorter than that, two of 3 are longer, and one of 6 is longer, so
either timer can be the one that notices, and the first is the case that
`CalmIsNeverKilled` exempts. Two threads are the fewest of which one can be inside a transaction
while another waits for the lock. The files hold every single mistake, and every pair
of mistakes among the keys that the loader compares.

What they leave out. `aggregator` accepts HTTP registrations only in the first second
(`RegisterUntil`; the own row is registered at every start) and neither cuts a cycle
short after a stored result nor removes a row during one: those are the findings. In
`web` the clock is too short for an outage or an effective prune, the row id is
reused but a removal waits for the end of the cycle, and one request is under way;
requests that overlap are left to the theorems about `Web`, which hold for any number.
In `store_tx` there is one time, so a prune deletes nothing there. In `service` the
store is open or closed and no more; what is in it is the subject of the modules before.

Deadlock is checked in every run: also at the end of the clock the process can always
stop and start again, and a cycle can always be completed.

### Findings

Each is a run that ends in a counterexample; `PROJECT.json` quotes the promise.

- `cut_gap`: a cycle has stored results and dies before `set_meta`. The next start dates
  its `unknown` mark one interval after the *previous* completed cycle, before those
  results. Ordered by time the mark comes first, and the outage is drawn in the last
  known colour, although the live status is unknown.
- `pruned`: `prune_events` deletes by age alone. A service that has not changed for longer
  than the retention loses the event that says it is up, and its whole strip turns grey.
- `reused_id`: a service is removed by the command while its check runs; its id, if the
  largest, goes to the next registration, and the old result is stored there.
- `poll_abort`: `check_target` runs before the `try` of `check_one`. If it raises (the
  resolver catches `gaierror` only), `gather` raises, and no result of any service is
  stored in that cycle.
- `history_clock`: between two local midnights time is measured on the wall clock, so a
  whole day of 23 or 25 hours in one status counts as 24.

- `healthcheck`: the command resolves `bind = "auto"` anew. After a start that fell back to
  127.0.0.1, a Tailscale that comes up sends it to an address nobody listens on, and it
  fails for a service that is well.

Three disagreements with the documents are in the models as the code has them, and stand as
explicit exceptions in properties of passing runs:

- `NothingElseSlipsThrough`, nan. `timeout_seconds = nan` is valid TOML and passes both checks of
  the timeout (`config.py:270-275`), since every comparison with it is false, although
  `docs/PLAN.md:350` promises `timeout < interval`. So do the other floats, the interval
  excepted.
- `NothingElseSlipsThrough`, the wildcard. `FORBIDDEN_BINDS` (`config.py:31`) is three strings.
  `bind = "::0"` is an address like any other to the loader and to `resolve_bind`, and the
  server listens on all interfaces, which `config.py:240` says it never does.
- `HealthyIsNeverDown`, the pool. The client has 32 connections (`poller.py:45`) and
  `max_concurrent` may be larger. A check that has its permit and waits for a connection for
  longer than its timeout is recorded as down, although its target answers 200 and was
  never asked; `README.md:132` has "HTTP 200 = healthy, anything else = down".

More, seen while modelling and not made runs. With `WatchdogSec=90` the heartbeat looks
every 30 seconds, and `config.py:56` admits intervals from 10: below 15 seconds the poller
is unhealthy after less than a heartbeat, so cycles that fail one at a time, each time
when the heartbeat looks, are all it sees and may cost a process that is well.
`CalmIsNeverKilled` therefore speaks of intervals of which two last for a heartbeat. `docs/PLAN.md:292-293` puts the
validation of a target under the semaphore; the code runs it outside, so as many names
are resolved at once as the executor has threads. `COMMIT` stands outside the `try` of `_tx`: should it
raise and leave the transaction open, every later `BEGIN` of the process would fail. In WAL
mode SQLite rolls back by itself when the commit of an immediate transaction fails, so the
run has that outcome only; with `CommitFailures = {"open"}` `NoOrphanTransaction` fails in
`StoreTx`, and the theorem names the case as its proviso. An empty allow list is reported only if there is no
other problem before it (`config.py:318`), although `config.py:3-4` and `docs/PLAN.md:352`
promise every problem at once; a token that is too short is reported twice, also as not
found. `/health` answers 200 for two
intervals after a start without a cycle, which `README.md:185` does not say.
`resolve_bind` may take more than a minute, near the default start timeout of systemd, and
the resolver threads may outlast `TimeoutStopSec`: then a stop ends with a kill
(`StopTimeout`). A process that loses the race for the port has by then marked gaps and
registered itself. A start with another address than the one before leaves the old own
row behind. The example `examples/register_client.py:76-79` (of the repository) may raise past its
handlers while it reads an error answer, and its thread ends.

## 5. Fairness and proofs

Fairness is assumed in three modules. In `PollCycle` the event loop runs on and attends to
every check: strong fairness of the steps of the loop and of the steps of each check,
because the executor's queue and `asyncio.Semaphore` are FIFO, so that who waits for a
thread or a permit is served if again and again it could be; every request ends, because
each read has a timeout and the body a limit of 64 KiB. No fairness is assumed of targets.
In `Service` the interpreter goes on with a start and with a stop, and a thread ends the
operation it has begun (weak fairness); time passes and a loop that is free again and
again attends to the tasks that are due (strong fairness of `Pass`, `BeginCycle`,
`Heartbeat` and `Drain`, since the loop may be blocked in between); systemd acts when the
watchdog is over, and on a stop that a blocked loop does not hear (weak fairness). Nothing
says that an address is found, that a cycle ends or that a blocked loop is freed.
In `History` a single-threaded function runs on. The other
modules state no liveness.

Proved for every value of the constants, from the assumptions named in the modules
(keys are ranks; intervals, attempts and the watchdog period are positive; bounds are
natural numbers; a page is younger than the retention; days have a positive length and
the nominal one is between the shortest and the longest). A theorem that needs more says
so in its `ASSUME`; each such proviso is a case in which a run above shows the property
fail, or is met by the values the program ships with.

- `StatusStoreProofs`. The conjunction `StoreInv` is inductive: types and keys make a new
  id fresh, ownership of events makes the history of a new row empty, and only then does
  the agreement of row and newest event (`StateIsLogged`) survive an insert that reuses
  an id. `StoreIsTyped`, `StoreOwnsItsEvents`, `StoreRowsAreCoherent` and
  `StoreLogsItsState` follow, and of the steps `FreshRowsHaveNoPast` and
  `ChangesAreLoggedOnce`, which needs that ids are unique: one event for a change, no
  second one, and none about a service that did not change.
- `StoreTxProofs`. The tables that are committed go through steps of `StatusStore` only
  (`TransactionsImplementTheStore`), whatever fails and whoever dies. `TxInv` says for
  each statement a thread is at what it has read and what its draft is by now, in terms of
  the committed tables; that at most one connection has a draft keeps these tables still
  while it works, so that the draft is in the end what the operation would have made in
  one step. `OneIsToldCreated` follows too: what the select has read is still true at the
  commit, so a row appears exactly when an upsert ends that found none. For
  `NoTransactionIsOrphaned` and `OnlyCommittedRowsAreRead` a commit that
  fails must not leave its transaction open (`"open" \notin CommitFailures`).
- `AggregatorProofs`. `AggregatorInv` adds that what is in memory and in `meta` is past
  (`PastTimes`) and that while a gap is being marked every live row is still on the list
  (`MarkingCovers`), the reason that an interrupted start loses nobody. It gives the
  refinement `AggregatorUsesTheStore`, `TheLogIsInThePast` and `NobodyStaysLive`. With
  `MayRemoveLive = FALSE`, nothing removed while a cycle is in flight, the batch is a list
  of rows that are still there (`BatchIsListed`), hence `ResultsLandOnTheirs`.
- `HonestGapsProofs`. With `MayCutShort = FALSE`, no cycle dying between its first stored
  result and `set_meta`, every outage is unknown in every strip (`GapsAreHonest`) and
  events are written in the order of their times (`EventsStayInOrder`), with any removal
  and prune. `HonestGaps` speaks of served pages only and is not inductive:
  `HonestInv` follows an outage from the start that finds it, through marks that are still
  pending, to a strip in which every live event before it is followed by an unknown
  one. `LogIsBounded` ties the newest event to `meta`, the link that `cut_gap` breaks.
  From the order of events follows `LiveAndStripAgree`: the newest event, which the store
  keeps in step with the row, is the one the strip ends with. What a prune may take is
  told by `RecentChangesAreLogged`.
- `PollCycleProofs`. For any number of services, permits, connections and threads a check
  holds one permit exactly from the semaphore to its end (`PermitsAreNeverLost`,
  `RequestsStayBounded`), strays of aborted cycles included, and a pool of as many
  connections as permits never fails anybody (`HealthyStaysUp`): who holds a connection
  holds a permit, so the one who asks finds one free. `PollInv` adds which generation
  of checks is at work in which phase of the cycle, so that a new check never takes the
  place of a stray.
- `HistoryProofs`. On a day without a clock change every watched tick is counted once
  with its status (`StripIsExact`); on any day the incidents of a cell are the downs that
  began on it (`IncidentsAreCountedOnce`). `HistoryInv` says that the segments still to be
  added form a chain: the first begins where counting has come to, each begins where the
  one before ends, the last ends now; in each the log has one status all along and no
  event lies inside. A cell is exact up to the point of counting, or else its day was one
  segment from midnight to midnight and counts for the nominal length. `ColoursAreTrue`
  needs the threshold of a red day not to exceed the shortest day, 23 hours (the default
  is 30 minutes): a day of 23 hours counts as 24. Clock changes remain the finding
  `history_clock`.
- `WebProofs`. Every step of `Web` is a step of `Aggregator` (`WebRunsTheAggregator`), so
  all of the above holds beside any number of requests and a page; and
  `OnlyVettedRows`, because a request past `check_target` has its key in `vetted`.
  A page is made of three reads with anything between them. `PagesShowTheirOwn`, when
  nothing is removed during a cycle: a row that takes a removed id while the page is made
  is a newcomer, and what is written about it is later than what the page reads.
  `BannersMatchTheirStrips`, when no cycle is cut short: on a row that came through the
  reads unchanged the banner and the end of the strip agree, by the argument of
  `LiveAndStripAgree` carried over the reads.
- `ServiceProofs`. `ServiceInv` has two parts. `WatchInv` adds to the types that the age of
  the last cycle is at most two intervals and the silence: only a heartbeat that finds the
  poller healthy ends the silence, and then the age is at most two intervals; while
  nobody pings, both grow alike. As the silence stops at the watchdog period,
  `WedgesAreBounded` follows, which by itself is not inductive. `LifeInv` says in which
  phases the store is open, which exit codes a process on its way out can have, and that
  no transaction is inside a closed store; from it follow `ServiceIsTyped`,
  `NothingIsLeftInAClosedStore` and the refinement `ServiceKeepsThePromise`, which needs the
  exit codes to tell a clean end from a refused port. `CalmProcessesAreNotKilled` rests
  on `CalmInv`, which bounds the age of the last cycle by the phase of the loop and by
  whether the cycle before failed, and says that systemd has missed one ping at most,
  after which either a cycle was completed or the age is already beyond two intervals; a
  watchdog period of at least 3 makes the heartbeat positive. `FilesWithoutProblems` shows that
  the checks of the loader let pass only nan and the unlisted spellings of the wildcard, for
  any file, not just for those with two mistakes (`OnlyNanAndAliasesSlipThrough`).

The theorems are about the model with its bounds as parameters (`MaxTime`,
`MaxServiceId`, `MaxEventId`, `MaxCount`), for every value of them.

Only model-checked: liveness, which is beyond the prover (`CyclesComplete`, `ChecksEnd`,
`Terminates`, `UnhealthyEnds`, `StartEnds`, `StopEnds`), and what the six counterexamples
show. Every invariant and every other property of the passing runs is a theorem; `History`
and `Config` compute without recursive operators so that they can be reasoned about.

## 6. Not modelled

- Time during a start and a stop: `Service` has steps there, and timeouts are choices
  (`StopTimeout`). The start timeout and the count of `StartLimitBurst` are left out; the
  operator's `Wish` may withdraw a start at any time instead.
- A wall clock that is set: `Watchdog` counts ages, the code subtracts UTC times.
- The detectors of `netbind.py` one by one (interfaces, the `tailscale` command): each
  attempt finds an address or does not.
- The database part of `/health`, `/config` with its redaction, templates, labels,
  relative times, reasons, uptime percentage, response times: presentation, or a plain
  read.
- The text of names, hosts, URLs and networks (`models.py`): a request's fields are
  valid or it does not begin, and the resolver answers as it pleases.
- `logging_setup.py` configures the standard library. `cli.py` parses arguments; its exit
  codes are in `Service`. The client example repeats one request; `Web` has the requests.
  Docker files, installers and hardening options are not code of the program.
