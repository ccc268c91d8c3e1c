# tempcheck: models and proofs

tempcheck reads a machine's temperature sensors, stores the readings in one SQLite file and serves
them as a web page and as MCP tools. This directory holds TLA+ models of it, the TLC runs that check
them and the theorems about them that TLAPS checks.

## The system

| Component | Source | State | Operations |
|---|---|---|---|
| Reading store | `src/storage.rs` | table `temperature_readings`, its schema; one connection behind a mutex per process | `open`, `insert_readings`, `analyze`, `recent_readings` |
| Polling daemon | `src/daemon.rs`, `src/app.rs` | interval deadline, watch channel, Ctrl-C task | start, tick (collect, store), shutdown |
| HTTP handlers | `src/web.rs` | none of their own | `GET /api/current`, `GET /api/history`, `GET /` |
| Page script | `src/web.rs` (`INDEX_HTML`) | selected window, the two panels, status line, loads in flight | `loadAll`, its three triggers |
| MCP server | `src/mcp/server.rs` | token, store, sinks | `get_current_temperature`, `analyze_temperature` |
| Audit log | `src/audit.rs` | append-only file behind a mutex per process, stderr | `emit` |
| Collector | `src/collector.rs` | none; the machine's sensors are | `collect` of three sources and their merge |
| `once` | `src/app.rs` | none | collect, print, with `--save` insert |
| Configuration, containers | `src/config.rs`, `src/main.rs`, `Dockerfile` | none | parsing, start |

How they interact: the daemon, the web server, the MCP servers and `once --save` are processes of
their own that share only the database file (and MCP servers possibly an audit file). Inside a
process, request tasks share the connection and its mutex. The page talks to the handlers over HTTP.
Handlers and the daemon call the collector directly and wait for it.

What is hard here, and where the properties aim:

* a mutex orders the tasks of one process, not two processes, and no call opens a transaction, so
  statements of different processes interleave and a batch can stop anywhere;
* processes die between two statements (SIGTERM is not handled) and start again on what is left;
* a handler reads the store, then the sensors, then writes the store: what it read may be outdated;
* rows are found again by the text of their time and the text of their sensor's name;
* the wall clock may be set back, the daemon's clock may not;
* `select!` chooses at random, ticks are missed, the Ctrl-C task may fail, a collection may hang;
* loads of the page overtake each other, and the server refuses a history that has grown too long;
* sensors and whole sources come and go while they are being read;
* an audit line is two writes, and errors of the audit file are dropped, while an event that cannot be
  written to stderr is a panic.

`PROJECT.json` lists every hazard at its line with the properties that would catch it.

## Modules

| Module | Models | Extends |
|---|---|---|
| `SensorTable` | rows and what the queries compute from them | |
| `Storage` | `SqliteStore`: one action per SQL statement, one per way to fail | `SensorTable` |
| `ReadingLog` | abstract specification: what `TemperatureStore` promises | `SensorTable` |
| `StorageRefinement` | the mapping under which `Storage` implements `ReadingLog` | `Storage` |
| `WebApi` | the handlers and a daemon, over the promises of the store | `ReadingLog` |
| `WebUi` | the page script, in front of a server whose daemon polls on | |
| `Daemon` | the start of the command, the polling loop and the Ctrl-C task | |
| `McpServer` | both MCP tools and the audit sinks | |
| `Collector` | one collection while the machine changes | |
| `Once` | `tempcheck once`, around one collection | `Collector` |
| `Texts` | `recorded_at` and `sensor_name` as texts | |
| `Recorded` | what `analyze_temperature` finds by these texts | `Texts` |
| `StorageProof`, `StorageRefinementProof`, `WebApiProof`, `WebUiProof`, `DaemonProof`, `McpServerProof`, `OnceProof`, `RecordedProof` | theorems; those about `Texts` are in `RecordedProof` | the module of that name |
| `MCStorage`, `MCWebApi`, `MCWebUi`, `MCMcpServer`, `MCOnce`, `MCRecorded` | constants of the TLC instances | |

`ReadingLog` is the joint of the project. `StorageRefinement` shows that the code's statements,
mutexes and processes implement it; `WebApi` takes its actions (`Begin`, `Write`, `Reply`, `Finish`,
`Die`) as the store that the handlers call, and does not repeat the SQL. In the same way `WebUi` uses
of the server only what `WebApi` shows of it, and `WebApi` of the daemon that it polls at most once
per slot (`Daemon.OnePollPerSlot`). `SensorTable` takes times for numbers; `RecordedProof.TextOrder`
says that their texts order alike.

Operators whose comment calls them a *faulty form* of another are not part of any `Next`. Each is
the mistake a property exists to catch; `PROJECT.json` ("mutants") says which, and TLC finds the
property violated once the faulty form takes the place of the right one.

### State and actions against the code

`Storage`. `rows` is the table: the index of a row is its id, and two history fields name the call
and the place in the call that wrote it. `lock[p]` is the `Mutex<Connection>` of process `p`; `pc[a]`
is the statement that caller `a` runs next. `Call` is the entry of a method (with `analyze`'s check
of its window, which comes before the lock), `Acquire` is `lock()`, `InsertRow`/`CountRows`/
`Aggregate`/`ReadRecent` are single SQL statements, `InsertFail`/`QueryFail` the `?` after each,
`Answer` the return, which drops the guard. `Open`/`InitSchema`/`OpenFail` run `execute_batch`
statement by statement. `Crash` ends a process anywhere; SQLite keeps committed rows. An answer of
`analyze` is the set of rows it covers (min, max, average and latest are functions of it); an answer
of `recent_readings` is any order that `ORDER BY recorded_at DESC` allows.

`Daemon`. `Start`/`StartFails` are `Config::from_cli`'s refusal of a zero interval and the opening of
the store. Time is relative, so the loop can run for ever in finitely many states: `grid` is the age
of the current slot, `due` the time to the deadline. `NextDue` is tokio's
`MissedTickBehavior::Skip`. A collection and an insertion run on the loop's task: meanwhile only
time passes and signals arrive. `handler` is the spawned task; when `ctrl_c()` fails the sender is
dropped unused and `changed()` fails at once each time (`ChangedError`).

`WebApi`. `stage[w]` is the handler's place, `answer[w]` its response, `came[w]` what the log, the
clock and the request were when it arrived. `now` is the wall clock, which `ClockTicks` may set back;
`uptime` is the monotonic clock by which the daemon polls. `CurrentRead` contains
`latest_sensor_readings` and the test for an empty store; `Collect`, then `CurrentStored`, are the
fallback. `GetHistory` takes `?hours=` and `?sensor=`, and the row limit counts only the rows these
select. `HistoryRead` contains `map_store_error`. Handlers do not await, so a client that goes away
stops nothing.

`WebUi`. A load is at one of its awaits; `CurrentResponds` and `HistoryResponds` are the server's two
answers, in either order, each as of the moment it is given; `Render` is the last turn of `loadAll`,
in which both panels and the status change; `Throws` is the `catch` of each call, reached by
`LoadFails` and by `HistoryRefused`. `polls` is how far the daemon has come, and `Fits` whether the
window holds no more rows than an analysis may read.

`McpServer`. A thread goes from `Invoked` through the two sinks (`EmitStderr`, `LockFile`,
`WriteText`, `WriteNewline`) to `Authorize`, `CheckWindow`, `Read` and `CapResponse`, and through the
sinks again with the result. `writeln!` on an unbuffered `File` writes the text and the newline
separately, so they are two steps. Two calls never get a response: `eprintln!` panics when stderr
cannot be written (`StderrFails`), which ends the handler (`Dropped`) before it reaches the file or
anything after it, and a collection may wait for an nvidia-smi that never ends (`ReadHangs`).

`Collector` and `Once`. Sources are asked in order; `ListEntries` is `read_dir`, `ReadEntry` one
file, `SkipDevice` a hwmon device that is no directory any more, `RunCommand` nvidia-smi, which reads
everything at once. `SourceFails` is the `?` that ends a source. `MachineChanges` may come between
any two steps. `Once` runs a collection, then `PrintReadings`, `OpenStore`, `InsertRow` per reading,
any of which may fail or be killed; `exit` is the status.

`Texts` and `Recorded`. A text is a sequence of signs, a sign a separator or a field of digits of
fixed width, ordered as bytes are: so a year is one sign, preceded by `+` or `-` outside 0..9999, the
fraction has none to three groups of three digits, and the offset ends the text. A sensor's name is
the sequence of what `collector.rs` joins with colons: contents of files and names of entries are
made of `Words`, the colon among them, so a chip, a label or a type may hold colons like those that
join. `Insert` stores a reading, `Analyze` is `analyze_temperature` with its two optional bounds.
All years have one length.

## Runs

| Run | Shows | Bounds and why they suffice |
|---|---|---|
| `Storage` | `BatchesInOrder`, `OutcomesTruthful`, `OwnBatchesWhole`, `SchemaReady`, `OwnRowsBounded`, `LockHeldInCall`, `ImplementsLog` | 2 processes, 2 tasks in one and 1 in the other, 2 calls of `insert_readings` with 2 rows, a row limit of 1, an analysis, one of an empty window and a listing: two half-written batches of two processes, a crash of each, and queries between them |
| `StorageOverLimit` | `AnalysisBounded` **fails** with two processes on one file | as `Storage` |
| `Daemon` | `OnePollPerSlot`, `NoDrift`, `StopsOnlyOnSigint`, `SigintStops`, `PollsGoOn` | intervals 0, 1 and 3, lateness up to 7: more than two missed ticks, at every offset |
| `WebApi` | `PageIsStored`, `PageIsCurrent`, `HistoryComplete`, `OnlyBootstraps` | 1 request task, with every `?sensor=`, and a daemon, 3 hours in which the clock may be set back, window of 2 rows and limit of 2 rows for 2 sensors, so that both are exceeded |
| `WebOnly` | `RefreshUpdates` **fails** without a daemon | 2 tasks, collections find all sensors |
| `WebUi` | `PanelsAgree`, `LoadingEnds`, `PageCatchesUp` | 2 loads in flight, 3 windows (one comes to exceed the row limit, one reaches it), 3 polls, 2 new selections: a load is overtaken by a later one, then by a third |
| `WebUiOvertaken` | `SelectionShown` **fails** although no request fails | 2 loads, the same windows, no outages |
| `WebUiOverLimit` | `LoadsRefreshLive` **fails** although no request fails otherwise | 2 loads, the same windows, no outages |
| `McpServer` | `TrailMatchesAnswer`, `ReadsAreOnRecord`, `FailClosed`, `FileMatchesStderr`, `GluedOnlyWhereCut`, `CallsAnswered` | 1 server with a token, 2 threads, 2 calls, payloads at and above the cap, failing writes to stderr and to the file, collections that hang, restarts |
| `McpSharedFile` | `JsonLines` **fails** with two processes on one file | 2 processes, 2 calls, writes succeed |
| `Once` | `FailedSourceDropped`, `OnlyNeighboursHide`, `ExitStatusTells` | 3 sources, 5 sensors in every initial condition, 2 changes during the call: one source is hit twice, or two sources once |
| `Recorded` | `WindowByInstant`, `GroupsMixNamesakesOnly` | 11 instants with every length of fraction and every kind of year as reading or bound, 11 sensors with every way to be alike, a colon inside a chip among them, 2 rows: both properties compare two texts |

Every bound is a constant: `MaxBatches`, `MaxLate`, `MaxUptime`, `Loads`, `MaxPolls`, `MaxChanges`,
`MaxCalls`, `MaxRows`. The runs that say `CHECK_DEADLOCK FALSE` are of systems that may stop: the
daemon that was told to, a command that is over, a clock or a number of calls at its bound. Task
symmetry is used where no property speaks of fairness. Two request tasks beside a daemon are beyond
TLC with two sensors; the theorems about `WebApi` cover any number of them.

### Disagreements found

Five runs show the code doing other than a text of the repository says; `PROJECT.json` ("findings")
quotes each.

* Without a daemon, refreshing the page never updates it (`WebOnly`).
* A late load shows the wrong history window (`WebUiOvertaken`).
* A history window of more than 10 000 rows keeps the live panel from being refreshed too
  (`WebUiOverLimit`).
* Two MCP servers on one audit file break its lines (`McpSharedFile`).
* An analysis covers more rows than its limit when the daemon inserts between its two statements
  (`StorageOverLimit`).

Other limits of the code are stated inside the properties, which hold with them:

* `OwnRowsBounded`: an analysis covers more rows than the limit only by those that other processes
  insert between its two statements; with one process it never does.
* `OnlyNeighboursHide`: one unreadable sensor hides the working sensors of its source.
* `PageIsCurrent`: a sensor falls off the page when 512 rows of others bear times as late as its own;
  after the clock was set back the page may prefer an older row with a later time. The property also
  speaks of sensors that are in the store: a first insertion that stops half-way leaves a store from
  which no later page shows the remaining sensors, until a daemon polls.
* `WindowByInstant`: a window that begins in the years 0 to 9999 and ends past them finds nothing,
  because "+10000" comes before "0000".
* `GroupsMixNamesakesOnly`: inputs of one label in hwmon devices of one name (two NVMe drives) share
  a sensor name, and so their readings one group. A missing label or name may read like one that is
  there. A chip `a:b` with the label `c` reads like a chip `a` with the label `b:c`, and nothing
  keeps colons out of a driver's name (`ucsi_source_psy_USBC000:001`).
* `SigintStops`: nvidia-smi runs without a timeout on the loop's task, and the Ctrl-C task has
  replaced SIGINT's default action, so a collection that waits for ever cannot be interrupted,
  although `docs/features/daemon.md` says "Shuts down cleanly on SIGINT (Ctrl+C)".
* `CallsAnswered`: a call that panics on stderr or whose collection hangs gets no response; it keeps
  no other call waiting.

## Fairness

* `Daemon`: the command starts or fails, and the runtime polls the loop and the task (weak);
  `select!` polls its branches in random order, so a branch that is ready again and again is taken
  (strong, for the shutdown branch). A collection that hangs is a state of the model
  (`CollectHangs`); otherwise collections end.
* `WebUi`: every load ends, by itself or because the browser gives it up, and the timer fires (weak).
  That requests fail no more and that the selection fits are premises of `PageCatchesUp`, not
  assumptions on the system. Nothing is assumed of the daemon.
* `McpServer`: threads run, and the client reads stdout and stderr. That a collection returns, or that
  stderr or the audit file can be written, is not assumed: hanging, panicking and failing are steps
  of the model. Calls are finitely many; nothing orders the threads that wait for a std mutex.

## What is proved

TLAPS checks these for every value of the constants (any number of processes, actors, sensors,
batches, queries, requests, threads, any interval), under the assumptions named in the modules; TLC
evaluates the assumptions in the runs.

| Module | Theorem | Says |
|---|---|---|
| `StorageProof` | `TypeCorrect` | `Spec => []TypeOK` |
| | `StoreSafe` | `BatchesInOrder`, `OutcomesTruthful`, `OwnBatchesWhole` and `SchemaReady` always hold |
| | `OwnRowsLimit` | `OwnRowsBounded`, with any number of processes |
| | `LockGivenBack` | `LockHeldInCall` |
| `StorageRefinementProof` | `StoreImplementsLog` | every behaviour of `Storage` is, under the mapping, one of `ReadingLog` |
| `WebApiProof` | `PagesAndBootstrap` | `PageIsStored` and `OnlyBootstraps` |
| | `CurrentIsCurrent` | `PageIsCurrent` |
| | `HistoryIsComplete` | `HistoryComplete`, for every `?sensor=` |
| | `WebTypeOK` | `TypeOK` |
| `WebUiProof` | `PageTypeOK`, `OneLoadOnPage`, `LoadingHasLoad` | `TypeOK`; `PanelsAgree`; `LoadingEnds`, for any number of loads in flight |
| `DaemonProof` | `DaemonTypeOK`, `PollsOnGrid`, `StopsForSigint` | `TypeOK`; `OnePollPerSlot` and `NoDrift`; `StopsOnlyOnSigint` |
| `McpServerProof` | `McpTypeOK`, `TrailIsAnswer`, `ReadsOnRecord` | `TypeOK`; `TrailMatchesAnswer`; `ReadsAreOnRecord` and `FailClosed`, for any number of servers and threads |
| | `FileIsStderr` | `FileMatchesStderr`, also when several processes write to the file |
| | `FileMutexGivenBack` | `FileHeldByWriter`: a thread that is writing a line has the file's mutex, and nobody else |
| | `LinesKeptApart` | `GluedOnlyWhereCut`, when one process has the audit file |
| `OnceProof` | `OnceTypeOK`, `SourcesApart`, `ExitTells` | `TypeOK`; `FailedSourceDropped` and `OnlyNeighboursHide`; `ExitStatusTells` |
| `RecordedProof` | `TextOrder` | in the years 0 to 9999 instants compare as their texts do |
| | `RecordedTypeOK`, `WindowCovered` | `TypeOK`; `WindowByInstant`, for any calendar, instants and machine |
| | `NamesakesOnly` | `GroupsMixNamesakesOnly`, for any machine, whatever its files hold |

**Store.** The inductive invariant `StoreInv` has four parts. `TypeInv` refines `TypeOK` by what a
request and a result look like at each point of a call. `LockHeldInCall` says that whoever is inside
a call holds its process's mutex, and that nobody else does; without it `OwnBatchesWhole` and the
row limit are not inductive. `Writing` ties a caller's `next` to the rows of its batch that are
stored (exactly the first `next - 1`) and its batch to "pending" (`InFlight`); `BatchesInOrder` and
`OutcomesTruthful` follow from it and are carried along. `SchemaProgress` says that a process at
statement `n` has run the first `n - 1`, which makes `SchemaReady` inductive across crashes. Each
action preserves each part in a lemma or step of its own. For `OwnRowsLimit`, `OwnInv` adds that
the rows of the own process that an analysis matches do not grow between count and aggregate: the
mutex keeps the own process's other tasks out, so a row that is inserted meanwhile is of an actor of
another process (`NewRowsForeign`). The refinement proof shows for each action which action of
`ReadingLog` it is, or that it is a stutter (`Acquire`, `CountRows` below the limit, the opening of the file),
with `StoreInv` for what the mapping needs.

**Handlers.** `WebInv` says what a request may rely on while it waits for the store: `Listing`, that
an answer of `recent_readings` lists rows of the log, and at least one if the log had an entry when
the request came (so an empty answer means an empty store then), and `Storing`, that the readings
written so far are in the log, all of them when the answer is Ok. `KnowsInv` adds that every reading
was taken at an hour the clock can show (`Timed`, which needs the calls of every daemon) and, per
request, what its answer is worth from the reply on: `Analyzed` for a history, `Fresh` for each
entry a page must account for. Everybody else's steps keep all of it, because the log only grows
(`LogGrows`, `FreshStays`, `RowsGrow`). That the store's answer is `Fresh` when it is given
(`RecentFresh`) is the heart of `CurrentIsCurrent`: the first listed row of a sensor is the latest
listed, and when a sensor is not listed at all the rows listed are 512 different rows of others. For
`TypeOK`, `TypesInv` says what an answer is at each place of a request; that a page is never empty
is the point of it, for the newest reading of an empty page would be no time.

**Page.** `PageInv` adds to the three properties that a load in its bodies has current readings
(`HasReadings`), without which `Render` could show none. `LoadingEnds` is inductive because every way
a load ends (`OverKeeps`) sets the status, so whichever load is last takes "Loading..." away.

**Daemon.** `DaemonInv` relates the deadline to the grid: while the loop waits, either it has not
polled in this slot, or the deadline is exactly where the next slot begins (`OnePollPerSlot`); and
the deadline always lies on the grid (`NoDrift`). `NextDue` preserves both because `(-due) % interval`
is then the age of the slot. `StopsForSigint` rests on what a `true` in the channel means.

**MCP server.** `McpInv` holds for each thread one of six predicates (`Idle`, `Invoking`, `Working`,
`Closing`, `Closed`, `Lost`) that says exactly which events of the call stderr has at this place and
what its payload has to do with its answer, and that call ids are distinct; `TrailMatchesAnswer` is
`Closed`. `Lost`, where a handler has panicked, promises nothing. Other threads' steps append events of
other calls, which changes nothing of one's own. `FileInv` says that whoever is between the two
writes of a line holds the mutex (`FileHeldByWriter`), and that the file ends with a newline, with a
cut line, or with the line whose writer comes next (`FileEnd`). For `FileMatchesStderr`, `TrailInv`
keeps account of every call in progress (`Filed`): the file has of it what stderr has, but for the
event that is on its way from one sink to the other; and calls that have not come have no lines
(`Known`), so a new call starts with none.

**Collection.** `CollectInv` accounts for every source already asked (`Accounted`: a sensor that was
always fine is in, or its source is among the errors for the sake of another one) and for the one
being read (`CurrentTurn`: such a sensor was listed, hence is in `todo` or `part`). `OnceInv` adds
what has been printed and stored by then.

**Texts.** `TextOrder` compares two texts sign by sign: year, second, then the fractions. Where one
of them ends first, its `+` meets the other's `.` or next group of digits and is smaller; and the
instant is, because a fraction never ends in a group of zeros. `WindowCovered` applies it to both
bounds and treats the years outside 0..9999, where a sign leads the text, on their own.
`NamesakesOnly` reads a name from its front: its first sign tells the source. A zone's
directory and a GPU's index are single words, so what follows them begins at a known place. Where two
hwmon inputs share a name, either their devices' names have one length, and then devices and labels
are equal (`SplitOnce`); or one device's name is longer, and then it holds the colon that ends the
shorter one (`LongerHoldsColon`), which is `ColonMoved`.

Every invariant and action property that a passing run checks is proved, and so is the refinement.
Only model-checked is liveness (`SigintStops`, `PollsGoOn`, `PageCatchesUp`, `CallsAnswered`), which
this prover cannot do, since fairness needs ENABLED. `FileMutexGivenBack` is the part of
`CallsAnswered` that is safety: nobody waits for a mutex whose holder has left its call.

## Not modelled

Parsing (sysfs and CSV contents, JSON, RFC 3339 input, the command line with its defaults), the
arithmetic of min, max and average, the rounding of temperatures, chart geometry and HTML,
containers; the rmcp and HTTP transports, which call the handlers; SQLite itself, of which the models
use that a statement is atomic and durable, that a reader sees one snapshot and that texts compare
byte by byte. These keep no state that changes, or are not this program.

## Plan

Done: the store with its refinement and proofs (the joint all others rest on), the components that
call it, the texts by which rows are found, the page in front of the daemon and the row limit, and
proofs of every safety property of every component. What would come next, in this order:

1. `McpServer` over `ReadingLog` instead of a choice of payloads, so that the row limit and an
   insertion by a daemon meet the tools' answers as they meet the handlers'.
2. `Once` composed with `Storage`, so that `ExitStatusTells` speaks of rows another process sees.
