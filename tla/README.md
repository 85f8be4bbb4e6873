# Verification of collector-service

TLA+ models of collector-service, the TLC configurations that check them and
the theorems that TLAPS proves about them. The models are translated from the
C++ sources; `PROJECT.json` names, for every definition, the lines it stands
for.

## The system

collector-service collects data points from devices over WebSocket drivers and
stores them in SQLite. One process runs in one of three ways: a console loop
that executes one command after the other (`--console`), a single command
(`--cmd`, `--cmd-file`), or an HTTP server with a detached thread per session
(`--http`).

| component | state | operations | interacts with |
|---|---|---|---|
| `DataTask` | the worker threads and their local variables | `startAll`, `startDeviceCollect`, `stopDeviceCollect`, `stopAll`, `initDataPointsByDevice`, `runDeviceTask` | registry, database, driver |
| `DeviceStatusStore` | `statuses_`, `activeDevices_`, `workerThreads_`, `stopFlags_` under one mutex | a method per critical section | called by commands and workers |
| `CommandProcessor` | none | one handler per command | `SQLiteManager`, `DataTask` |
| `SQLiteManager` and its repositories | the SQLite file, under the connection's recursive mutex | reads, single statements, four transactions | called by commands, workers, the HTTP router |
| `ResourceRepository`, `ResourceRetentionService` | table `Resources` | insert, newest rows, cleanup | called by workers |
| `ModelRepository`, `ModelParser` | the model files | load with fallback, parse into data points | called by `initDataPointsByDevice` |
| `CollectionQueryBuilder`, `CollectionResponseParser` | none | query text, response to records | called by workers |
| `DriverClient` | one connection | `connect`, `sendQuery`, `close`, blocking, no timeout | a driver |
| `MockDriverServer`, `HttpServer` | `running_`, `serverThread_`, `ioContext_` | `start`, `stop`, an accept loop, detached sessions; the mock driver's `handleQuery` | `main`, `CommandProcessor`, workers |
| `main` | the objects on its stack | start-up, the mode's loop, shutdown | all |
| `CommandParser`, `JsonUtil` | none | fields of a command to a device row | called by `CommandProcessor` |
| `HttpRouter`, `HttpCommandAdapter` | none | a request to a command text or a read | called by HTTP sessions |
| serializers, `HttpResponse`, `Logger`, `TimeUtil` | none | text | |

What is hard here:

- Commands and workers share the registry, but a command is several critical
  sections: `isActive`, `takeThread`, `eraseStopFlag`, join, `addWorker`. In
  console mode only workers run in between; in HTTP mode other commands do too.
- A worker ends by itself after five failures and leaves its thread to be
  joined by whoever touches the device next.
- Joins: a command waits for a thread that needs the registry to finish.
- Commands read a device, let go of the database, and write what they derived.
- `updateDevice` is three statements that are committed one by one.
- The servers and `main` shut down in an order of their own.
- A cycle waits for the driver in `connect`, `sendQuery` and `close`, without a
  timeout, while a command may wait for the cycle.
- No text is parsed as JSON: every component searches for a field name in quotes,
  wherever it stands, so what a text means depends on the names in it.

What makes each component correct:

- registry and workers: at most one worker per device; what is registered under
  a name collects for that name; no thread is lost or joined twice; when a stop
  reports, nothing runs; a running worker can be reached by a stop; a worker
  ends for a reason; every stop returns; status shows the worker's own count.
- device commands: a device has the points of its own model or none; a name
  without a device has none; whatever else is found comes from one of two
  named causes; an update that is not given a status keeps the row's (the other fields
  it was not given are reset to the parser's defaults).
- resources: the cleanup keeps exactly the newest rows of its device and touches
  no other device's; readers do not notice it; the table stays bounded whatever
  fails.
- servers: no session is accepted after `stop`; the process ends after Enter; no
  thread is left behind without a cause that can be named.
- texts: the device that a client describes is the one that is stored, the
  request reaches the device it names, what a model lists becomes its points, and a
  record holds the value of its own point.
- a cycle: whatever the driver does it ends, fails or succeeds as a whole, and a
  stop is observed.

`PROJECT.json` lists the hazards at their lines, each with the properties that
cover it.

## Modules

| module | models |
|---|---|
| `DeviceStatusStore` | `task/DeviceStatusStore.cpp`: the maps and one operator per method |
| `DataTask` | `DataTask.cpp` and the commands that lead to it; extends `DeviceStatusStore` |
| `DeviceCollection` | abstract specification: what `DataTask` promises per device |
| `SQLiteManager` | tables `Device` and `DataPoint`: statements and methods as operators |
| `DeviceCommands` | `create_device`, `update_device`, `delete_device`, `initDataPointsByDevice`; extends `SQLiteManager` |
| `Resources` | table `Resources`: the workers' inserts and cleanups, the newest rows |
| `Shutdown` | `HttpServer`, `MockDriverServer` and `main`: threads, sessions, modes, destructors |
| `JsonText` | texts as sequences of tokens, and the scanners of `JsonUtil` and of every component that searches a text |
| `ModelText` | `ModelRepository`: which file; `ModelParser`: its lines to data points |
| `CollectionText` | `CollectionQueryBuilder`, the mock driver's `handleQuery`, `CollectionResponseParser` |
| `CommandText` | `HttpRouter`, `HttpCommandAdapter`, the categories of `CommandProcessor`, `CommandParser` |
| `EndToEnd` | one device from its creation to its records: commands, worker, `DriverClient`, driver; extends the text modules |
| `MCDataTask`, `MCDeviceCommands`, `MCResources`, `MCEndToEnd` | symmetry sets, small data and scenarios for TLC |
| `DataTaskProofs`, `ConsoleProofs`, `CollectionProofs` | theorems about `DataTask`: any number of clients, one command per device, the refinement of `DeviceCollection` |
| `TextProofs` | what the scanners take out of the texts that the builders make, for texts of any length |
| `DeviceCommandsProofs`, `ResourcesProofs`, `ShutdownProofs`, `EndToEndProofs` | theorems about the module of that name |

### DataTask and DeviceStatusStore

`Clients` are threads that execute commands. A program counter per client,
`pc[c]`, stands between two accesses to shared state; the name says which
comes next (`"startTake"`: `takeThread` in `startDeviceCollect`). `target[c]` is
the device name, `held[c]` the `std::thread` objects in local variables,
`queue[c]` the rest of `startAll`'s loop. `wpc[w]`, `owner[w]`, `fails[w]` are a
worker's place in `runDeviceTask`, its device and its local `failCount`.
A worker identity stands for a thread together with the `shared_ptr` flag that
was made for it, so `stopFlags[d] = w` says whose flag the map holds and
`stopRequested` is the set of flags that are true; a flag that is not in the map
any more is still read by its worker, as in the code. `device[d]` is the row's
`Status`, or `"absent"`.

Calls that change nothing shared are merged with the next step. The checks of
`startDeviceCollect` (lines 107-125) are one action that may always refuse,
because data points may be missing and the database may fail, and may go on
only for an online device. One cycle of a worker is two steps, loading the
device and the outcome; every reason to fail is one action. `StartAborts` is
`std::terminate` in the move assignment of `addWorker`; afterwards nothing of
the process exists. The mutation variants of some actions, which contain a bug
on purpose, are grouped before the originals and are used by no specification.

`unhooked` is a history variable: devices whose running worker was erased from
the registry by a start that was refused (see the findings).

### DeviceCollection

Per device a phase (`stopped`, `resting`, `collecting`), whether it was asked to
stop, and the failures in a row. It has no threads and no registry, and says what
a user may rely on: after a stop request no new cycle begins; a collection ends
only after a request or exactly `FailLimit` failures; then it ends. `DataTask`
implements it under the mapping `phaseOf`, `stoppingOf`, `failuresOf`
(`ImplementsCollection`; with fairness `CollectionsProgress`) with one client, and so
does `EndToEnd` for its one device (`ExchangesAreCycles`). The first module has the
threads and one step for what a cycle exchanges with the driver; the second has the
exchange and one bit for the registry. That both implement the same specification is
what makes the step of the first stand for the exchange of the second.

### SQLiteManager and DeviceCommands

A method of `SQLiteManager` holds the connection's mutex, so one call is one
step; a statement is an operator on the database record, and a method that can
stop between two commits has the set of databases it can leave (`HalfUpdated`).
`Models` stands for (model, version) pairs, `PathsOf` for what `ModelParser`
finds in them. Of a data point the model keeps `Did` and `NamePath`, the columns
the constraint and the properties are about. `before[a]` and `copy[a]` are the
rows that `handleUpdateDevice` and `initDataPointsByDevice` read in one critical
section and use in another. With `Faults` any statement may fail, a model file
may be unreadable and the process may be killed and restarted (`Crash`): the
committed database stays, everything else is gone.

`tainted` is a history variable: names whose points were written from a copy of
the device that was no longer current, or by an update that stopped half way.

### Resources

`rows` is the table with the columns that order it; `lastId` is AUTOINCREMENT's
counter. A worker's cycle is an insert and, if `kCleanupIntervalMs` has passed
since `lastCleanupTime`, a cleanup, in separate transactions; `stage[d]` and
`elapsed[d]` are the worker's place and that time, counted in sleeps of 100 ms, of
which a cycle takes at least one. `SvrTime` comes from the driver and may be
anything. `Rank` is `ROW_NUMBER() - 1` of the cleanup's query and the order of
`getLatest`'s. A cycle or a cleanup may fail, a worker end and be started again,
the process be killed; `missed[d]` counts, as history, the cleanups that were
due and did not happen. `Latest` is the set of rows `getLatest` answers; their
order is `Precedes`.

### Shutdown

`todo` is what `main` still has to do: the statements of its mode, then the
destructors in reverse order of declaration. An exception of `start` replaces it
by the destructors. `running`, `joinable`, `run` are a server's `running_`,
`serverThread_` and the place of its thread in `run`; `session[x]` is the place of
a detached thread in `handleSession`. `stop` that finds `running_` false returns at
once (`StopEarly`). Two kinds of undefined behaviour are choices: `stop` reading
`ioContext_` while `run` assigns it (`StopMeetsOpen`), and a session that uses
destroyed objects, which crashes or goes on (`late`, history). `collecting` says
whether `DataTask` holds a worker's thread; how commands work in detail is in
`DataTask`, and that `stopAll` returns is taken from there.

### JsonText, ModelText, CollectionText and CommandText

Pure functions. A token is a word (what stands between quotes, as it is written),
a number or a mark; characters within a word never matter, except that a quote
or a control character is escaped, a bracket ends the mock driver's list of paths, the
driver takes the blanks around a path off (`Trim`), a slash precedes an item's name, and
an address has a port. Which words have these is
a constant (`Escaped`, `Bracketed`, `Trimmed`, `ItemNames`, `Ports`, ...), so that the modules
have no strings to take apart. `KeyAt` is the first occurrence of a field name in
quotes, whether or not it is a key, as `text.find` in every component. A line of a model
file is its kind, its indentation and its value, and `ParseLine` is the body of
`ModelParser`'s loop with its state as a record. What a model file describes is a tree
(`Model`): components, their lists of data items and of other things, and the items;
`File` writes it down as the files of `config/models` are written, `Items` are its data
items and `Points` what the parser takes for them: all lists of a component whose first
list is one of data items, as nothing but another component ends such a list. A request is a method, the segments
of its path and a device parameter; `Route` is the order of `HttpRouter`'s tests, and
goes through the command text that `HttpCommandAdapter` builds and `CommandProcessor`
searches again.

What these constants may be is assumed by name, each where they are declared:
`EscapeAssumption` (only what `escapeJson` has written has a backslash, and it leaves
brackets alone), `NamesAssumption` (`itemNameFromPath` returns no empty name and no
character the path does not have), `InlineAssumption` (a text is a sequence of lines),
`RouteAssumption` and `CategoryAssumption` (the routes and categories in the code
begin with no other and need no escaping), and in `EndToEnd` `ScenarioAssumption`
(model files are sequences of lines, and the model a scenario means has components,
lists and items; nobody asks for the empty name, which the code takes for no name).

### EndToEnd

A scenario is what a client sends (a create, perhaps an update, a start), the model
files, and beside them what was meant: the fields, the model and the device names that
requests ask for (`names`; `RequestsAbout` is the set of ways to ask for one of them).
Of the fields and the model's tree both the texts and their meaning are made, so neither
is computed from the other: `CommandOf` and
`Text` write the fields as a client does, `Row` and `Meaning` look the fields up in the
list (a field left out or empty is not given, of two the first counts). `CommandsAsMeant`
says that the texts of a scenario are made so; `MCEndToEnd` assumes it of its scenarios,
so TLC evaluates it. `Meant` is the row that follows from the fields.

`client` goes through the commands. `wpc` is the worker's place in a cycle, `link` the connection as both ends have
left it: `"dialing"` in `connect`, `"asked"` after the write in `sendQuery`, `"answered"`
before its read returns, `"closing"` in `close`, `"broken"` after an error or the end of
the close handshake. The driver is `MockDriverServer` as a worker meets it: it accepts
while it runs, answers a query, sees `running_` only after an answer, and may
be stopped and started (`DriverStopsOrStarts`), or the connection break, in every step.
An exception destroys the `DriverClient`, whose destructor calls `close`; hence
`"closeFailed"`. With `Silent` the driver takes connections and queries and never answers.

## Runs

| run | instance | checks |
|---|---|---|
| `console` | 1 client, 2 devices, 3 workers | the safety properties of console mode, and refinement |
| `console_live` | 1 client, 1 device, 3 workers, fair | stops return, collections end, an offline device drains |
| `http` | 2 clients, 1 device, 3 workers | what holds without serialisation |
| `stop_all_hangs` | 1 client, 1 device, fair | finding |
| `two_workers` | 2 clients, 1 device | finding |
| `device_commands` | 2 sessions, 2 names, 2 models, 1 id, faults | typing, `DamageIsTainted`, `UpdateKeepsStatus` |
| `stale_points` | 2 sessions, 1 name, 2 models, no faults | finding |
| `resources` | 2 devices, 6 ids, 2 times, batches of 1 or 2 | what is kept, read and how much |
| `shutdown` | all modes, 2 sessions, fair | joins, destructors, the end of the process |
| `failed_server` | `--cmd`, 1 session | finding |
| `end_to_end` | 595 scenarios, 1 device, fair | texts mean what was meant, cycles end, refinement |
| `silent_driver` | 1 scenario, silent driver, fair | finding |

Properties of `DataTask`:

- `RegisteredUnderOwner`, `HandleOwnership`: the registry and the local
  variables hold every thread exactly once, under its own device.
- `OneWorkerPerDevice`, `NeverAborts`: with one client.
- `StopIsFinal`, `StopAllIsFinal`: what is reported as stopped does not run.
- `RunningIsReachable`, `JoinsOnlyStopping`: a worker can be stopped, and nobody
  waits for one that was not, except after a refused start.
- `EndsForAReason`, `StatusIsOwn`: failures are counted per worker, end it at the
  limit, and are what `get_status` shows.
- `StopReturns`, `StopAllReturns`, `OfflineDeviceDrains`, `CollectionsProgress`:
  liveness.

Properties of `DeviceCommands`: `DamageIsTainted` says that every inconsistency
of a device and its points has one of two causes; `UpdateKeepsStatus` that an
update without a status keeps the row's, unless another command changed the
row after the update had read it.

Properties of `Resources`: `KeepsNewest` says that a step that removes rows is the
cleanup of one device: it leaves exactly `MaxRows` newer rows of that device for each
that it removes, and every row of the other devices, so that a trim of the whole table in
its place would violate it; `CleanupIsInvisible` that
`getLatestResources` answers the same before and after a cleanup, for every
device; `GrowthIsBounded` that a device has at most the limit, one interval's
records and one more cycle's for each missed cleanup.

Properties of `Shutdown`: `StoppedServerIsOver` says that after `stop` the server's
thread is over, also when it had not begun or had failed; `TerminatesForAReason`
that no joinable `std::thread` is destroyed, unless a server's `run` failed or a
session used destroyed objects; `ShutdownEnds` that the process ends after Enter.

Properties of `EndToEnd`, each with the exceptions the code really has, read off the
texts and not off what the scanners make of them:

- `CommandIsUnderstood`: the row is what the fields of `create_device` and then of
  `update_device` say, in any order and with any of them left out, unless a value
  is spelt like a field (of those the parser knows, or `category`) or a field is `null`.
- `RequestsReachTheDevice`: every way to name a device in an HTTP request reaches
  that device, through `urlDecode`, `escapeJson` and the scanner; except names with
  control characters, and the latest resources by path of names that begin with
  `status`. In a path the name is one segment: a `/`, `?` or `&` in it is encoded.
- `PointsAreAsListed`: the points are what the model file that the version selects lists
  in the components with data items, each under its own component; none if two share a
  path. It is about the files that are written like those of `config/models`
  (`Readable`): what is listed is indented by at least eight and a component's data
  items are its first list. `M1.yaml` and `model.txt` have data items only. `M2.yaml` has
  a list of functions (`DevFunc`) behind the data items of `PowerInfo`, which become points
  as well, and components with functions only, which have none.
  That is more than `src/README.md` (line 49) says, "`ModelParser` maps model DataItem
  entries into DataPoint rows": the 13 functions of `PowerInfo`, from `GetError` to
  `GetVersion`, become rows, and every cycle asks the driver for them, as `inDataItem` is
  cleared only by a name that is indented by less than eight (`ModelParser.cpp`, line 94).
  `PointsAreTheItems` states that promise; it follows for models that list data items
  only (theorem `PointsAreItems`), is false of `M2.yaml`, and no run checks it.
- `RecordsAreOwn`: a record has the value and name of its own path, unless the path
  also stands elsewhere in the answer (`Confusable`): as a field, as the query's id, as
  an item name or the driver's own path of an item, or as another path in its escaped
  spelling.
- `CycleIsComplete`: a successful cycle has a record for every point, except those
  whose path has a quote, begins or ends with a blank (the driver answers it without),
  comes after a path with a bracket, or is `Confusable`.
- `ExchangesAreCycles`: the refinement of `DeviceCollection`.
- `StopIsObserved`: a worker that is asked to stop ends, unless the driver is silent.

### Findings

1. `stop_all_hangs`: a `start_device_collect` for a device that is already running
   is refused with an exception whose handler calls `markStartFailed`. That erases
   the running worker's flag and active mark. The next `stop_device_collect`
   answers that the collection is not running, while it is; `stop_all`, the
   shutdown of every mode and `~DataTask` join a worker that no flag reaches, and
   a further start joins it as well. They return only if the device fails five times.
2. `silent_driver`: `sendQuery` reads without a timeout and the flag is looked at only
   between cycles. With a driver that takes the query and never answers, the
   command that stops the collection never returns.
3. `two_workers`: `isActive` and `addWorker` are separate critical sections; two
   HTTP sessions that start the same device both create a worker. The later of
   the two then assigns over a joinable `std::thread`, which terminates the
   process: `StartAborts`, which the `http` run reaches and which with one client is
   excluded (`NeverAborts`, checked and proved).
4. `stale_points`: `initDataPointsByDevice` writes the points for a copy of the
   device; a `create_device` can overwrite the points of a concurrent
   `update_device` with those of the old model.
5. `failed_server`: a server whose `run` fails clears `running_`; `stop` and the
   destructor then join nothing, and the destruction of the joinable
   `serverThread_` terminates the process. A port in use is enough.

### Bounds

`FailLimit` is 2 instead of 5: the counter's three cases (zero, between, at the
limit) all occur. Three worker identities: with one client a device has at most
one running worker and its thread is joined before the next is created, so two
devices need two; the third allows an old thread to wait in the registry while
others run. An identity is used again once its thread is joined and its flag is
out of the map. When all are in use, `StartSpawn` waits. `MaxId` bounds the rows
ever inserted; it is 1, to keep the run with two sessions and faults within minutes,
so a second device under a deleted one's name, with a new id, is covered by the
theorems only. Two names allow a rename and a conflict; two models share one
path, so a rename can meet `UNIQUE(DName, NamePath)`. The liveness run has one
device; that commands for one device do not touch another's worker is what
`RegisteredUnderOwner`, `JoinsOnlyStopping` and the refinement check with two.
Symmetry is used in the safety runs only. `resources` keeps one row and reads one
(5000 and 100 in the code), an interval is two sleeps (600): beyond the limit
four rows are within the bound, and six ids can pass it. The theorems cover
every other choice. `Shutdown` has no bound but the number of sessions; two may
belong to one server or to both. `end_to_end` has every subset and many orders of the
fields of a command, names that are spelt like fields, need escaping or decoding or
begin like a route, model trees with up to two components and items with every kind
of path, components with and without data items and functions in every order, every
subset of the model files, and each choice of an update's fields; its driver may be
stopped and started without bound.

### Fairness

Weak fairness of each client's steps inside a command and of each worker's
steps. A command that was called runs, because its thread does, and a join is
enabled when the joined thread has returned. No command has to be called and no
device has to answer well: success and failure of a cycle are a choice that
fairness does not make. For the step that waits on the driver, fairness says
that the driver answers or the connection breaks; `DriverClient` sets no timeout,
so with a driver that keeps a connection open in silence none of the
liveness properties of `DataTask` holds.

In `Shutdown` main and the server threads are scheduled; nobody has to press
Enter, connect, or send anything, and sessions may wait for ever.

In `EndToEnd` the worker and a driver that is not silent do what they can; nobody has
to stop the worker, and neither the driver nor the connection has to fail. The steps
that handle texts are named in the fairness by their control (`Sends`, `Takes`,
`Replies`): no text disables a step, so these are enabled exactly when the steps are.

### Deadlock

Checked in every passing run but `http`, where the process may have terminated
(`StartAborts`), and two commands may have joined workers that nothing stops. In
`Shutdown` the end of the process is a step that repeats, so that a deadlock is
main, or a server, waiting for ever. In `EndToEnd` the driver can always be stopped or
started, so that a worker waiting for ever shows as a violation of `StopIsObserved`.

## Proofs

All for arbitrary finite or infinite sets of devices, workers, clients, names
and models, from the named assumptions on the constants only.

A theorem named `Serial...` is about every behaviour in which no two commands for the same
device run at the same time and `stop_all` runs alone (`[]Serial`): any number of HTTP
clients that keep to their own devices, as well as a console or a script.
`OneClientIsSerial` shows that a single client is such a case, which gives the
`Console...` corollaries that the run `console` checks. The runs
`two_workers` and `http` show that without `Serial` these promises are lost.

`DataTaskProofs`

- `TypeCorrect`: `TypeOK` with two additions, that a command in progress has a
  device (`TargetOK`) and that a worker in its loop is below the limit
  (`BelowLimit`); without the second the counter could pass it.
- `HandlesAreOwned`: `HandleOwnership` is inductive together with `HandsOK`, which
  says at which program counters a command holds threads. Any number of clients.
- `WorkersEndForAReason`, `RegisteredAreOwn`: any number of clients. The second is
  inductive with `AddsOwn`: what a start is about to register collects from its target.
- `SerialHasOneWorkerEach`, `SerialNeverAborts`, `SerialStopIsFinal`,
  `SerialStopAllIsFinal`: `OneWorkerPerDevice`, `NeverAborts`, `StopIsFinal` and
  `StopAllIsFinal`, and their `Console...` corollaries. The argument: every running
  worker's thread is in the registry under its device, or in the hands of the client
  whose command is for it (`OwnersOK`, `HandleOwnership`); from `startErase` on the
  registry has no thread for the target (`Taken`); hence after the join the device has
  no worker, one is created, and it is registered where nothing is (`OneThread`,
  `NotAborted`). `Serial` is used for one thing: what holds of a device at one client's
  program counter is not disturbed by another client's step.

`ConsoleProofs`

- `SerialReachesWorkers`: `RunningIsReachable` is inductive with `StartsInactive` (from
  `startTake` on the target is not active) and `StopsReach` (from its request on a
  stop has to do with flagged workers only).
- `SerialJoinsOnlyStopping` follows from the same invariant.
- `SerialStatusIsOwn`: `StatusIsOwn`, because a device has one thread (`OneThread`).

`CollectionProofs`

- `SerialImplementsCollection`: `DataTask` implements `DeviceCollection`. A device has
  one thread, so the image of its collection is the image of that worker
  (`ImageOfOne`) or of none; a worker's step changes the image of its own device only
  (`WorkersStep`); creating a thread maps to `Start` because the last one has been joined
  (`NoneLeft`); a set of flags maps to `AskToStop` of their owners (`MapRequest`); the
  thread ends with `Finish` because it left its loop for a reason
  (`WorkersEndForAReason`); every other step is a stutter.

`DeviceCommandsProofs`

- `TypeCorrect`: with `LocalsOK`, that a step reads local variables only after they
  were assigned.
- `DamageIsExplained`: `DamageIsTainted` is inductive over the typing invariant.
  The lemmas `InsertDeviceTables` to `UpdatedTables` say row by row what each method
  leaves in the two tables; the theorem is then a case split on the action and on
  whether the name is the old one, the new one or another.
- `UpdatesKeepStatus`: an action property, from the typing invariant and
  `UpdatedTables`.
- `ApartPointsFollow`: the promise that the run `stale_points` refutes, that a device
  has the points of its own model or none (`PointsFollowModel`), holds whenever no two
  sessions work on a common name at the same time (`Apart`) and no statement fails. The
  invariant is `IndDamage`: nothing is tainted (`Undamaged`), and the copy an
  initialisation has read is current (`CopiesCurrent`), as only its own session changes
  that name's rows (`OtherRows`). An update then never stops half way (`NoHalfUpdate`):
  a name without a device has no points to conflict with.

`ResourcesProofs`, for every limit, batch, interval and set of devices and times

- `TypeCorrect`, and with it that no id is given twice.
- `CleanupKeepsNewest`: the rank of a device's rows is a bijection to 0, 1, ...
  (`RanksAreNumbers`: it is injective because the order is total and the rank falls
  along it, hence onto by cardinality), so the rows below the limit are exactly
  as many (`KeptCount`), and the cleanup's condition names the device, so the rows of the
  others stay.
- `CleanupsAreInvisible`: a row that stays keeps its rank, as everything before it
  stays; needs that no more rows are read than kept (`LimitAssumption`).
- `GrowthBounded`: `GrowthIsBounded` is not inductive, because it says nothing of how
  much of the interval has passed; `RowsFitCycles` counts the cycles that fit in
  it (`CyclesSince`) and is, with `CyclesTakeTime`.

`ShutdownProofs`, for any number of sessions

- `TypeCorrect`, `StoppedServersAreOver`, `TerminationHasAReason`. `IInv` relates what
  `main` has still to do to the threads. `Listed` is about the order of `todo` alone:
  starts come before everything else (`StartsFirst`), a server's stop before its release
  (`StopsBefore`), a `stopAll` between the release of the commands and that of
  `DataTask` (`StopsAllBetween`). These are stated for any list, shown for the list
  of every mode and every unwinding (`ScriptIsOrderly`), and inherited by the tail.
  `ThreadsHeld` says that a thread in `run` is one that `stop` will join or is joining, and
  that a joinable thread is that or has failed; `Pending` that a collection has its
  `stopAll` still to come unless a session used destroyed objects. A destructor that
  finds a joinable thread then contradicts one of them.

`EndToEndProofs`, for any scenarios, drivers and limit, silent drivers included

- `TypeCorrect`: with `CycleOK`, that the worker is below the limit while it goes on and
  is not asked to stop before it has been started.
- `ExchangeImplementsCycle`: the exchange implements `DeviceCollection`; all steps
  between `Connects` and the end of the cycle are stutters (`WithinPhase`).

- `StoredRecordsAreOwn`, `SuccessIsComplete`: `RecordsAreOwn` and `CycleIsComplete` for
  every device, list of points, escaping and model file. `CycleTexts` says which text is
  on the connection at each place of a cycle: the query of these points, then the
  driver's answer to it, then the records of that answer. What these texts are is
  `TextProofs`: `RecordsAreFound` and `PathIsAnswered`.
- `EveryRequestReaches`: `RequestsReachTheDevice` for every name, spelling and route.
  Each command text has one shape (`CmdShape`), in which the category and the name
  stand where the scanners look for them first (`CommandCarried`).
- `PointsAsListed`: `PointsAreAsListed` for every model, with any number of components,
  lists and items, and with or without a path and other lines, in a file that `Readable`
  allows, so also for `M2.yaml`. `PointsOfRow` says that until the collection starts the
  points are those of the row as it is, which an `update_device` keeps; that they are what
  the model lists (`Points`) is `FileIsRead` in `TextProofs`. The theorem assumes
  `FilesAsMeant`: the file that the device's model and version select is written from the
  scenario's model. The run assumes nothing of the kind, so it also checks that the right
  file is selected.
- `PointsAreItems`: `PointsAreTheItems`, assuming moreover that every model lists data
  items only (`OnlyItemsAreListed`), as `M1.yaml` and `model.txt` do.
- `CommandsAreUnderstood`: `CommandIsUnderstood` for every list of fields with strings
  for strings and numbers for numbers, quoted or not, any of them left out, empty, twice
  or unknown. `CommandsTaken` is the inductive invariant: an update is sent only if there
  are fields for one, and it finds the row of the create. That the parser reads what the
  fields say is `FieldsAreRead` and `RowIsMeant` in `TextProofs`; `NothingChanges` and
  `UpdatedRowIs` are the two ways to the row that is meant. The theorem assumes
  `CommandsAsMeant`, no more.

`TextProofs`, about the operators of `JsonText`, `CollectionText`, `CommandText` and
`ModelText`

- A text is described by a predicate that gives its token at every place (`QueryOf`,
  `BlockOf`, `AnswerOf`, `Carries`). Its builder is shown to satisfy the predicate
  (`QueryShape`, `AnswerShape`, `CmdShape`), and what a scanner returns follows from it,
  as the scanners return first occurrences (`KeyAtIs`, `StringFieldIs`, `FindBracketIs`).
- The recursive functions (`Kept`, the community modules' `FlattenSeq`, `ParseDataItems`)
  are known by their steps (`KeptSteps`, `FlatSteps`, `ParseSteps`), and what they return
  for every length is shown with `SetInduction`: induction over a set of numbers, which
  needs no operator as a parameter, proved from the well-foundedness of `<`.
- `QueryPaths`: the driver takes the paths up to the first with a bracket;
  `WordOfAnswer`: a word of the answer that is none of the exceptions of `Confusable` is
  the name of a block; `ObjectAt`: the braces behind it are that block's;
  `ValueOfObject`, `NameOfObject`: what is read from it is the path's own.
- `FieldsAt`, `OnlyAt`: in a command that is not `Misleading` the name of a field stands
  where the field is and nowhere else (`FieldsOfCommand`), so the first occurrence that a
  scanner finds is the field that counts (`FieldFound`, `GivenIs`, `NumberGivenIs`).
- `Reads(st, lines, end)`: the lines take the parser of model files from one state to
  another. `ReadBoth` puts such pieces behind each other, and so a file is read line,
  item (`ReadNext`), list (`ReadMore`), component (`ReadComponent`) and file (`FileIsRead`)
  at a time. `After` is the state behind the first items of a component, in whichever of
  its lists they are: if its first list has data items the last of them is still
  incomplete (`ReadItem`), and the name that follows, or the end, completes it
  (`TakenAfter`); otherwise each name counts as a component's (`ReadStray`).

Only model-checked: liveness (`StopReturns`, `StopAllReturns`, `OfflineDeviceDrains`,
`CollectionsProgress`, `ShutdownEnds`, `StopIsObserved`), which is out of the prover's
reach; and the five promises that the findings refute. Every other property that a run
checks is also a theorem.

## Plan

1. A session between the steps of a command while `~DataTask` runs: `Shutdown` over
   `DataTask` instead of one bit.
2. `DeviceCommands` composed with `DataTask`: a rename while a worker runs, whose rows
   and status stay under the old name.

## Not modelled

The bodies of answers to clients (`CommandJsonSerializer`, `HttpJsonSerializer`,
`HttpResponse`), logging and the wall clock: no code of the repository reads them
back. The length of the sleep between cycles; SQLite's own atomicity is assumed.
Within texts: whitespace other than around a path, numbers of other forms, item descriptions and the time
fields of a record, of which `Resources` has the order. `get_status` and the HTTP
routes that only read change no state. `cleanupResources`, for the whole table,
has no caller. Rows of a deleted or renamed device stay in `Resources` under the
old name: no cleanup names it again.
