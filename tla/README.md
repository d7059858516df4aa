# Open Instructor Station: TLA+ models, checks and proofs

An instructor station for flight simulators: a browser interface, a Python
server, and adapters that drive X-Plane over HTTP and, for AI traffic, through
a small plugin inside the simulator. The modules here model what happens when
its requests, background tasks, threads and restarts overlap. Paths are
relative to the repository.

- [The system](#the-system): components, state, what is hard about each
- [The modules](#the-modules): how each corresponds to the code
- [The runs](#the-runs): what each checks, with which bounds, and why they suffice
- [Fairness](#fairness)
- [What is proved](#what-is-proved)
- [Where code and documentation disagree](#where-code-and-documentation-disagree)
- [What is not modelled](#what-is-not-modelled)
- [Plan](#plan)

Checking: `tlc -config FailureWatch.cfg MCFailureWatch.tla`, and likewise for the
other configurations; `tlapm FailureWatchProofs.tla`, and likewise for the other
modules named `...Proofs`, for the proofs.
`PROJECT.json` lists the runs, the lines each definition stands for, a mutant
per property that a plausible bug would be, and the hazards the properties are
for.

## The system

    ui/ (React)  --HTTP, /ws/state, /ws/traffic-->  server/ (FastAPI)
                                                       |  core/ (no simulator)
                                                       v
                                            SimAdapter (core/sim_adapter.py)
                                              |                    |
                                       adapters/fake       adapters/xplane --HTTP--> X-Plane
                                                                   `--three datarefs--> bridge/PI_OISBridge.py

The server is one process with one asyncio loop. Routes written `async def` run
on the loop and interleave at every `await`; routes written `def` run in a
thread pool and interleave anywhere. The X-Plane adapter is a client of
X-Plane's web API: every read or write is an HTTP request that may be refused,
time out, or take effect after its sender has given up. Nothing is persisted
by the server but the navdata index and the two stores of JSON files; the
armed failures, the current scenario run and the traffic labels die with it,
while the simulator and the plugin go on.

### Components

| component | state | operations | what is hard | what makes it correct | modelled in |
|---|---|---|---|---|---|
| failures manager (`core/failure_scheduler.py`, `server/failure_routes.py`, `adapters/xplane/failure_datarefs.py`) | armed entries, arming times, `_watcher_task`; the failure datarefs | arm, disarm, inject, clear, clear all, list; the watcher's frames, retries, back-off, exit | a task that starts itself, stops itself and is cancelled by other requests, with writes under way; retries | what is armed is watched by one task; nothing fires twice or after it was withdrawn; a delay survives retries | `FailureWatch`, `ArmingPromise` |
| AI traffic protocol (`bridge/PI_OISBridge.py`, `adapters/xplane/traffic_bridge.py`, the ledger in `xplane_adapter.py`, `server/traffic_routes.py`) | plugin entities; command, ack and contacts datarefs; seq, lock, ledger | spawn, despawn, clear all, contacts, stream; a flight-loop frame; enable, disable; restart | a one-slot mailbox between two programs that restart separately, with late and failed writes | one command in flight; true answers; no command takes effect twice; every call returns | `TrafficBridge` |
| navdata index lifecycle (`core/navdata/xplane_native/{provider,build}.py`, `server/navdata_routes.py`) | generation files, advisory lock, `_path`, `_epoch`, `_status`, a connection per thread | index, force, cancel, adopt, build, publish, sweep, query | several processes over one directory, threads that read what a build publishes, crash in mid-build, data that change | a file in use never changes; no build is repeated; the status describes what is served | `NavdataIndex` |
| placing the aircraft (`server/position_routes.py`, `server/pushback_routes.py`, `XPlaneSimAdapter.set_position`, `apply_setup`, `frozen_flight_model`) | `_freeze_depth`; X-Plane's override, local frame, world position, velocity | setup, teleport, push back | a freeze shared by concurrent requests; a local frame that moves under the write; lost answers; a deadline | the flight model runs again; success means placed as asked | `Reposition` |
| scenario engine (`server/scenario_engine.py`, `server/scenario_routes.py`, `core/scenarios/preflight.py`) | `_current_run`, its task | start, poll; the steps | a background task over calls that fail in several ways, sharing the simulator with every other request | completed means shown; a failed step stops the run; one run at a time; every run ends | `ScenarioRun` |
| applying a training profile (`server/profile_routes.py`) | none of its own | apply | components that fail independently and disturb each other | the report is complete and true | `ScenarioRun` |
| profile store, camera position store (`core/profiles/store.py`, `core/camera/store.py`) | one JSON file per record; the camera's free pose | list, get, create, replace, delete, apply, save | read-then-write in a thread pool over files with a shared temporary name; a crash or a full disk | a record read is whole; a list is complete; an error has a cause; updates stay in place | `RecordStore` |
| navdata parsers and queries (`core/navdata/xplane_native/{apt,earth,build,provider}.py`, `core/navdata/in_memory.py`) | the tables of one generation, the batches of a build | four passes, cancel, finalise; airports, runways, stands, fixes, navaids, holds, fix references | lines that belong to whatever line came before; bad lines; batches; joins | the index holds what the lines say; both providers answer alike; an ILS belongs to its end | `NavdataRows`, `NavdataBuild`, `NavdataQueries` |
| procedure file cache (`core/navdata/xplane_native/cifp.py`, `provider.py`) | parsed files by path and time, the airports a thread is parsing | get runways, get procedures, invalidate | a parse that asks the index that asks the source; files rewritten and indexes published meanwhile | an answer is the file on disk; no coordinates of an old index are kept | `ProcedureCache` |
| procedure records (`core/navdata/xplane_native/cifp.py`) | none | read a file | lines that refer to later lines; names that stand for several runways | one procedure per key, its lines as its legs; nothing lost uncounted | `ProcedureRecords` |
| procedure diagram (`core/procedure_layout.py`) | none | lay a procedure out | legs without a fix, an anchor, shortening | drawn as flown where nothing is shortened | `ProcedureLayout` |
| placement resolution (`core/geodesy.py`, `core/placements.py`, `server/position_routes.py`) | none | resolve a request, fold edits in | mirrored geometry; speeds with several possible reasons | a circuit closes, a final meets the threshold, a racetrack closes, the credit is true | `Plane`, `Placements` |
| weather (`core/weather/**`, `server/weather_routes.py`, the adapter) | the simulator's | preview, apply, read | presets above a field under an overlay above the sea; a dozen writes; clouds that show late | one air from the ground up, reported as it is | `WeatherRequests`, `SimWrites`, `StationSetup` |
| fuel and payload (`core/fuel_payload/**`, `server/fuel_payload_routes.py`, the adapter) | the simulator's | preview, apply, read | a read-modify-write of every slot; envelope and override | what the answer says is loaded, in every slot | `FuelPayload`, `SimWrites`, `StationSetup` |
| aircraft setup and autopilot (`XPlaneSimAdapter.apply_setup`) | the simulator's | apply | datarefs that share bits, speeds through a wind | applied is what the simulator has (two masses never are) | `SimWrites`, `StationSetup` |
| traffic geometry, pushback geometry, local frame | none | builders of tracks and targets | floating point | bounds and round trips | not modelled |
| camera views | none | command dispatch | – | – | not modelled; the pose is in `RecordStore` |
| server shell (`server/app.py`, `deps.py`, `system_routes.py`, the sockets) | singletons, one adapter | start, connect once, stream, stop | a feed that dies and is reopened | a client reconnects | its restart is an action of three modules |
| user interface state (`ui/src/**`) | slices, the live socket | optimistic writes, reconnection | answers and telemetry out of order | the panel ends up showing the simulator | not modelled |
| fake adapter, adapter contract, models, panels | – | – | – | – | not modelled: test double, interfaces, rendering |

### How they interact

- **Calls.** Routes call the adapter and await it; the scenario engine and
  `apply_profile` call the same functions as the routes (`execute_placement`,
  `arm_failure`), in a fixed order.
- **Shared state.** The scheduler is shared by routes, watcher, engine and
  profiles; the freeze depth by every placement and pushback; the traffic
  transport by routes and the 2 Hz stream; the index directory by several
  stations.
- **Effects across components.** A teleport ends with `fix_all_systems`: it
  repairs every failure, whoever injected it. `FailureWatch` has it as
  `Teleport`, `ScenarioRun` as a call of a plan.
- **Life cycles.** The server, X-Plane's flight loop and the plugin stop and
  start independently; a client's request may outlive the client's patience.

## The modules

An action is what the code does without being interrupted: on the event loop,
what runs between two awaits; in a thread, one access to shared state; in the
plugin, one frame of the flight loop. An awaited HTTP request is a state the
task is in until it is answered, fails, or fails and takes effect all the same.
Definitions keep the names of the functions they stand for. An operator marked
"Mutant" is a wrong variant of the definition after it, used to see that the
properties notice.

### FailureWatch

| state | code |
|---|---|
| `entries`, `armed`, `timed`, `elapsed`, `lastError` | `FailureScheduler._armed`, `_armed_monotonic`, the clock, `ArmedFailure.last_error` (`core/failure_scheduler.py`) |
| `watcherTask`, `task`, `cancelled` | `_watcher_task` and the coroutines of `_watch` (`server/failure_routes.py:184-253`), a cancelled one until its exception is delivered |
| `batch`, `todo` | the entries a frame fired, and the datarefs of the first of them still to be written |
| `sim`, `stray` | datarefs reading "failed"; writes of a cancelled task under way |
| `call` | `/inject`, `/clear`, `/clear-all` requests in progress |
| `injected`, `withdrawn` | history |

`WatchLoop`, `FrameArrives`, `InjectWrite`, `InjectFails`, `StreamFails`,
`BackoffEnds` and `Unwind` are `_watch` cut at its awaits; `Arm`, `Disarm`,
`AskInject`, `AskClear`, `AskClearAll`, `FixAllSystems`, `ClientWrite` and
`ClientFails` are the routes; `StrayLands`, `Teleport` and `Tick` are the world.
A cancellation marks the task; its `finally` runs later, in `Unwind`, when a
successor may already be running.

Abstractions: the order of the writes of one failure is left open; the
catalogue and the capability gate are constants; `lastError` says whether, not
what; elapsed time saturates at the longest delay; a task is named after the
arming that created it.

`ArmingPromise` is what the component promises, without tasks, frames or
datarefs: an entry waits, fires with the others that one frame satisfies, is
injected in arming order or goes back to waiting, and is withdrawn only by a
request. It has a fate "dropped", reached only by disarming the last waiting
entry: that is what the code does (see below). `fate` in `FailureWatch` is the
refinement mapping, `KeepsPromise` the refinement.

### TrafficBridge

| state | code |
|---|---|
| `enabled`, `entities` | the flight loop is scheduled; `_entities` (`bridge/PI_OISBridge.py`) |
| `command`, `ack`, `contacts` | the three datarefs; `command` only while its buffer is dirty |
| `run`, `bridge`, `seq`, `holder` | starts of the station; the probe's outcome; the `BridgeTransport`'s counter and lock |
| `ledger` | `XPlaneSimAdapter._traffic_meta` |
| `call`, `late` | calls of the station, cut at their awaits; a PATCH given up on that is yet to arrive |
| `drawn`, `created`, `told`, `misled` | history |

`FlightLoop` is one frame: read and clear the command, execute it, answer,
expire, publish. `Ask` .. `Merge` are a route through `send_command`, the
ledger and `get_traffic_contacts`. `Disable`, `Enable` and `Restart` are the
plugin's and the station's life cycles. `Faults` selects what may go wrong: an
exception while driving an entity ("bug"), a failed request ("http"), one that
arrives after it was given up ("late"), the plugin stopped ("stop").

An exception acknowledges with no seq (`PI_OISBridge.py:629`), so the station
waits for the whole ack timeout; the model has this as `NoAck`. A contacts
reading older than a spawn prunes the new ledger entry
(`xplane_adapter.py:2875`); the model has this as `ContactsServed` and `Merge`.

### NavdataIndex

| state | code |
|---|---|
| `source` | the cache key of the simulator's files now |
| `dir`, `keyOf`, `lock` | generation files, the key in each, the kernel lock on `build.lock` |
| `path`, `epoch`, `status`, `work`, `cancel` | the provider's fields and build thread, per station |
| `reader` | a thread in `_connection`, and its tagged connection |

`_publish` writes path, epoch and status in three steps and `_connection` reads
path and epoch in two; other threads run in between. `Crash` ends a process:
the kernel frees its lock and a temporary file is no generation. `Adopt` is the
look at the directory, with and without the lock.

### Reposition

| state | code |
|---|---|
| `override`, `frame`, `coords`, `world`, `stale`, `reload`, `velocity` | X-Plane: the freeze, the current local frame, local and published position, a reload that is due, whose velocity the aircraft has |
| `freezeDepth` | `XPlaneSimAdapter._freeze_depth` |
| `task` | a request between `execute_placement` and its answer |
| `stray`, `astray` | override writes given up that are yet to land; history of what failed |

`Begin` .. `Released` are the freeze with its writes; `MeasureOrigin`,
`WriteCoords`, `WriteVelocity`, `Arrive`, `AimAgain`, `Sample`, `GiveUp`,
`OutOfTime` and `Repaired` are `set_position`. The simulator's part follows
`tests/adapters/test_xplane_scenery_reload.py`: a far jump makes a reload due,
a reload anchors the frame anew and keeps the local coordinates, a position is
published later than it is written, and a simulator with `accepts_position_writes=False`
answers the writes of a placement and stays where it is (`CoordsSwallowed`, "the write
never took" of `set_position`). So both ways out of the loop are there: the deadline,
and the last attempt, after any mixture of reloads and swallowed writes.
A task's `alone`, `since` and `untaken` are history, by which an attempt is
accounted for.

Abstractions: the three coordinates are one step that may fail halfway;
configuration and autopilot writes, the setup's altitude and the crash flag are
left out.

### ScenarioRun

| state | code |
|---|---|
| `sim`, `armed` | whose weather, setup and place the simulator shows, what is failed, what is armed |
| `run` | `_current_run`: document, status, steps, errors (`server/scenario_engine.py`) |
| `job` | the engine's task (`"run"`) or a client's `apply_profile`: the call it awaits |
| `report` | `ProfileApplyResult` in the making |
| `alone`, `starts`, `meddling` | history and bounds |

A document becomes a plan, a sequence of awaited calls; `ScenarioPlan` is the
order of `_execute`, `ProfilePlan` that of `apply_profile`. A call lands, then
returns; or it is refused with one of the three expected exceptions, or breaks
with any other. Both executors share the simulator with each other, with
`Fire` (the watcher), `Meddle` (other requests) and `Restart`.

What a call does inside is the subject of the other modules: placement is
`Reposition`, injection and arming `FailureWatch`.

### RecordStore

| state | code |
|---|---|
| `file`, `temp` | `<id>.json` and `.<id>.tmp` of both directories (`core/profiles/store.py`, `core/camera/store.py`) |
| `thread` | a request in the thread pool, cut at its calls of the file system |
| `offset` | the adapter's free camera pose, or a named view |
| `clock`, `used`, `shared` | timestamps and ids handed out; history: ids whose temporary file two writers have had open |

`Create`, `Replace`, `SavePosition`, `ApplyPosition`, `AimCamera`, `Delete` and
`List` begin or end a request; `FindRecord`, `ReadRecord`, `OpenTemp`,
`WriteText`, `Rename` and `ListNext` are its steps. `DiskFails`, `DeleteFails` and
`Crash` are the faults, and a refused read in `ListNext`, which takes the name out of
what the list stands for (`stable`) without a word in the answer. A handle follows its file through a rename, and two writers of one
temporary file leave bytes of both (`Mixed`).

### NavdataRows, NavdataBuild, NavdataQueries

`NavdataRows` is what one line says (`apt.py`, `earth.py`): the two ends of a
runway with their displaced thresholds, kinds of navaids refined by their names,
courses packed into one number, scopes. A line is a record of the fields the
readers tell apart, with a flag for one that does not parse.

`NavdataBuild` is `build_index`: `pass`, `current` (the airport block), `batch`
and `table` are its state, one action per kind of line. The files are not known
in advance: every step picks the next line, so one behaviour is one set of files.
`SetCancel` is a cancellation from outside, `Tick` where the code looks for it.

`NavdataQueries` has the lookups of `provider.py` beside those of
`in_memory.py`, and the reference definitions the index is compared with:
`Blocks`, `EndsOf`, `StandsOf`, `OfFile` are stated over the lines, without
batches or a current block.

### ProcedureCache

| state | code |
|---|---|
| `file`, `version` | an airport's file in the custom and the default directory, by its time of writing |
| `path`, `epoch`, `stage` | the provider's fields, and how far a publication has come |
| `cache`, `parsing` | `_cache`, with the oldest entry first, and `_parsing`, the guard against re-entrancy |
| `conn`, `thread` | tagged connections and the requests, cut where they touch shared state |

A parse resolves each leg: a fix through the index, a runway through
`get_runways`, which asks the source for the file being parsed and is turned away
by the guard, unless the cache holds another file of the airport by then. `Hit`,
`Merged` and `Others` are what the cache does: move to the end, put at the end and
drop the oldest, drop what is stale of the same file. History on a request and on
what it caches: `disturbed` (the files changed meanwhile), `overtaken` (a
publication did), `crossed` (a nested load answered from another file).

### Plane, Placements, ProcedureRecords, ProcedureLayout, WeatherRequests, FuelPayload

Pure operators, one per function of the code, without state. The ground is a
plane of half nautical miles with eight directions, on which walking a bearing
and measuring it back agree exactly: what the code gets from geographiclib. What
the code does *with* a geodesic (which way, how far, from where, in what order)
is kept.

- `ProcedureRecords`: a file's lines into runways and procedures (`parse_cifp`).
  All runways first, then the legs, keyed by kind, name and transition.
- `Placements`: every kind of placement request into a position, heading, speed
  with its credit, and configuration; and the instructor's edits folded over it.
- `ProcedureLayout`: edges, shortening, anchor, airport, altitudes in between.
- `WeatherRequests`: presets above a field, across a runway, under an overlay.
- `FuelPayload`: presets, overlays, mass and balance. A centre of gravity is
  compared after multiplying, so nothing is rounded.

### SimWrites and StationSetup

`SimWrites` is the adapter: a request becomes a sequence of steps, each the write
of one dataref, or a read that becomes the writes it decides. `StationSetup` runs
the steps of two clients' requests against one simulator.

| state | code |
|---|---|
| `station` | the installation: navdata there or not, the airframe read at startup, the weather datarefs exposed, whether the simulator gives up its own weather |
| `sim` | the datarefs |
| `todo`, `ask`, `reply`, `setup` | the steps left of a client's request, the request, its answer, and what that says was applied |
| `wrote`, `alone`, `late` | history: datarefs written, nothing else ran, stopped waiting for clouds |
| `answer` | a preview on the screen |

`Ask` is a route up to its first await: navdata, presets, refusals and the check
of the datarefs a weather needs. `WriteOne`, `ReadSome`, `Check` and `Settle` are
the adapter; `Fail` is a request to the simulator that fails, `Finish` the
read-back. `ShowClouds` is X-Plane, which shows what was written some seconds
later. The six datarefs of one wind level and the four of one cloud slot are one
write. A preview changes nothing, so it is asked before the first write only.
How a teleport survives a moving frame is `Reposition`'s.

A setup has every field of `AircraftSetup`. Of a loadout each half is written when it
is stated and left alone when it is not. A gross weight or a fuel is part of a request,
of the answer, and of no step: `apply_setup` looks at them for the capability only.
`Placements` has the corners of a hold beside its fix, as `geodesy.py` does; a route
places an aircraft on the fix only, so what `PlacementsAreSound` says of the corners is
about code that is exported and, so far, not called.

## The runs

| run | instance | states | shows |
|---|---|---|---|
| `failure_watch` | 2 armings, 2 failures over 3 datarefs, 1 client request at a time, altitude and delay triggers | 920 688 | what is armed is watched by exactly one live task; nothing armed, nothing polled; arming times are kept and retries do not push a delay back; settled entries stay settled |
| `failure_promise` | as above, one dataref per failure, fair | 246 418 | the watcher implements `ArmingPromise`; once the simulator stays reachable a delayed entry is settled |
| `traffic_bridge` | 2 ids, 2 calls, 1 slot, 2 starts of 2 commands each, all faults | 252 365 | one command in flight; answers are true; an entity that is gone is never made again |
| `traffic_live` | as above, one start, fair | 51 150 | every call returns, whatever fails while the lock is held |
| `navdata_index` | 2 stations, 1 reader, 2 sets of data, 3 generations, 3 requests | 476 536 | files are never overwritten, builds never repeated, only the other station's sweep takes a served file away, a ready status describes the served index, a failed build leaves no "building" |
| `reposition` | 2 requests, apart or at once, 2 places, 2 attempts, 1 reload, any number of swallowed writes, 1 kind of failed request, lost answers, the deadline | 2 176 316 | the last one out releases the flight model; writes happen while frozen; a successful placement is where and as fast as asked; a lone miss is out of time, or a reload or a swallowed write has cost it each attempt |
| `reposition_live` | 2 requests at once, the deadline, fair | 135 252 | every request returns, with the other one moving the aircraft under its measurements |
| `scenario_run` | 3 documents (everything; a setup with an unsupported failure; traffic only), 1 profile client, 3 starts, 1 disturbance or restart, fair | 289 020 | completed means shown; reports are true and complete; a failed step stops the run; a run is never replaced and always ends |
| `record_store` | 1 profile, 2 camera positions, 1 body, 2 threads, 2 timestamps, disk faults in every call and crashes | 859 084 | what is read is whole and a list lacks only what was deleted, torn or refused by the disk; an error has a cause; only a creation, or an update that had read the record before, makes one appear |
| `navdata_queries` | files of up to 4 lines in all, out of 13 + 7 + 4 + 4 kinds; batches of 2; a cancellation anywhere | 1 264 271 | a finished index holds what the lines say; a cancelled build stops within a batch; index and memory answer alike; an ILS belongs to its own end |
| `procedure_cache` | 2 threads, 1 airport, 1 entry, 2 versions of a file, 2 generations, 2 requests | 1 192 071 | an answer is the winning file as it is on disk; nothing remembered has the coordinates of an old index |
| `station_setup` | 1 airport, 2 runway ends, 4 fixes, every file of up to 3 out of 11 lines and 4 longer ones, 4 installations; then 2 requests out of 9, 1 failing write, 3 wind levels, 3 cloud slots, 3 slots | 130 857 | placements are sound; procedures and diagrams are their records; applied is written, but for two masses; weather is one air and reads back; a refusal writes nothing |

Symmetry is declared in `traffic_bridge`, `reposition`, `record_store`,
`procedure_cache` and `station_setup`, which check no liveness and whose clients,
threads and ids are interchangeable.
`CHECK_DEADLOCK FALSE` appears where a behaviour ends because a bound is used
up: the scenario, query, cache and setup runs.

### Why the bounds are enough

- *Failures.* Every race is between one watcher and its successor, or between
  an entry being injected and another that is disarmed: two armings make both.
  A failure behind two datarefs makes a half-finished injection. Longer delays
  only add ticks; more armings are covered by the proofs.
- *Traffic.* A mailbox has one slot, so two calls make every contention, and
  two starts of the station every confusion of runs. With one slot for entities
  the second spawn is at the limit. Three ids and two slots hold as well.
- *Index.* Two stations make every race for the lock and every sweep of a file
  in use; three generations allow a number to be used again after a sweep; two
  sets of data make an adoption impossible for one of them.
- *Placement.* Two requests overlap in every order of enter and leave; the
  depth counts higher only by repetition. Two attempts, a reload and swallowed
  writes make every mixture: an aim that a reload moved and then one that arrives,
  one that is swallowed, or one that is out of time. `EveryRequestReturns` needs no
  reload: without its deadline the measurement of one request never ends while
  the other goes on placing the same aircraft, which is what its mutant shows.
- *Scenarios.* A run, a profile and one disturbance are three actors on one
  simulator; a third start is one after a failed and a completed run. The
  documents have every block, none but a setup, and no call at all.
- *Records.* Every race of the stores is between two requests over one record and
  its temporary file; a second camera position makes a list longer than one, so that a
  refused or torn file has a neighbour to cost. A directory that cannot be read at all
  is an error of every request and is not modelled.
- *Files.* Each way for a line to be misread needs the line, the one it should
  belong to, one in between and one after; batches of two fill and flush within
  four lines.
- *Cache.* One entry makes an eviction of every second load; two versions and two
  generations make everything remembered stale once; a request that fills the cache
  and one that reads it, or evicts from it, are two.
- *Setups.* Two requests make every interleaving of one's writes with another's,
  since what a request reads it reads once. Three levels and slots are the fewest that
  hold every layer a request may state, and have some to pad or to empty after a
  shorter list; three stations against a type with arms for two.

### Properties worth a second look

`CommandsAreAnswered` exempts behaviours in which an ack of an earlier run was
believed (`misled`). `NobodyLeavesItFrozen` exempts a failed write of the override
itself. `ReportIsTrue` is about an executor nobody interfered with (`alone`), and
`AppliedIsWritten` and `WeatherIsConsistent` about such a request: the code has no
mutual exclusion between a run, a profile and other requests. The updates that are lost
when two requests read, merge and write the autopilot's mode or a loadout are among the
behaviours of the run, and are what `alone` leaves out. `AppliedIsWritten` asks of every
other field of an answer that it was written, and of `gross_weight_kg` and `fuel_kg` the
contrary: that no mass is written for them, nor for a half the loadout does not state.
`ReadersSeeWholeRecords` exempts records whose temporary file two updates had open
at once, and of a list the names whose read the disk refused; `ErrorsHaveACause`
counts a deletion while the request was served as a cause; `CacheIsTrue` a parse that a publication overtook, a request whose files
changed while it ran, and of a `crossed` parse the legs, `QueriesAgree` holds
without a region, which the two providers treat differently. Each exemption is a
thing the code does; the list below has them.
`PlacedAsAsked` and `LonePlacementHolds` are about a request that ran alone.

## Fairness

- `FailureWatch!LiveSpec`: weak fairness of each watcher's own steps and of the
  clock. asyncio runs every ready task, telemetry frames keep coming while a
  stream is open, and an HTTP request is answered or times out. `Faults` happen
  finitely often: a promise about a simulator that never comes back would be
  empty.
- `TrafficBridge!Fairness`: weak fairness of every call's steps, since httpx
  and `_ACK_TIMEOUT_S` bound every wait; strong fairness of `TakeLock`, since
  `asyncio.Lock` wakes its waiters in the order they came. Nothing is assumed of
  the plugin, which may be disabled for good.
- `Reposition!FairSpec`: weak fairness of each request, of X-Plane's publication
  and of the end of a reload, and of the deadline. Other requests may go on for
  ever, and in `reposition_live` a second one does.
- `ScenarioRun!Spec`: weak fairness of each executor: a call is answered or
  times out, and asyncio resumes whoever awaited it.

`RecordStore`, `NavdataBuild`, `ProcedureCache` and `StationSetup` state none: each
of their requests is a bounded sequence of steps that wait for nobody.
`NavdataIndex` states no liveness: a build lasts as long as the data, and the
lock wait of the code is bounded by a timeout that the model has as an action.

## What is proved

`FailureWatchProofs` proves for every number of armings, failures, datarefs,
levels, delays and clients:

| theorem | says |
|---|---|
| `InvHolds` | `Spec => []Inv`, the inductive invariant |
| `TypeCorrect` | `Spec => []TypeOK` |
| `WatchedByOne` | what is armed is watched by one live task, and with nothing armed none is left |
| `ArmingTimesKept` | arming times are there when evaluated, and a retried delay is due |
| `SettledForGood` | an injected or withdrawn entry is never armed or fired again |

Assumptions: `BoundsAssumption` (bounds are naturals, levels integers) and
`RefAssumption` (every reference resolves to at least one dataref; requests name
references and triggers of the model).

**The argument.** None of the properties is inductive alone. That a settled
entry stays settled needs that only one task holds a batch, which needs that
every live task is the current one, which needs that an exiting task forgets
only itself. That a retried delay is due needs that everything in a batch was
due when it fired. `Inv` therefore adds

- `TaskShape`: tasks are named after arrivals, a cancelled task has not
  returned, the current task is alive;
- `BatchShape`: a task holds entries and outstanding writes exactly while it is
  injecting and not cancelled;
- `FiredIsDue`: every delay in a batch has elapsed.

There is one lemma per conjunct (the bookkeeping of entries is one), each with
one step per action; the sub-actions that several actions share
(`StopWatcherIfIdle`, `NextOfBatch`, `Restore`) have lemmas of their own.
`FirstIsMember` rests on the well-foundedness of the naturals.

The same module proves, from the same invariant,

| theorem | says |
|---|---|
| `PromiseKept` | `Spec => KeepsPromise`: `FailureWatch` implements `ArmingPromise` under the mapping `fate` |

`FateSets` says which of the model's sets a fate stands for, and is where the
invariant is needed: an entry must not be waiting and firing at once, or settled
and either. One lemma for each action that moves an entry (`Arm`, `Disarm`,
`FrameArrives`, `InjectWrite`, `InjectFails`, `ClientWrite`) names the step of
the promise it is; `FateKept` covers all the others. `FirstIsLeast` makes the
order in which a batch is injected the order of the promise.

`NavdataIndexProofs` proves for every number of stations, reader threads, keys,
generations and requests:

| theorem | says |
|---|---|
| `InvHolds` | `Spec => []Inv`, the inductive invariant |
| `TypeCorrect` | `Spec => []TypeOK` |
| `LockedByBuilder` | whoever holds the lock is at work on a build, and nobody else builds or sweeps |
| `StatusIsTrue` | a ready status describes the served index; a thread that has ended leaves no "building" |
| `FilesAreImmutable` | a generation is never written a second time |
| `BuiltOnce` | no unforced build ends while a file of its key is there |
| `OwnFileIsKept` | only another station's sweep takes a served file away |
| `FilesKept` | `FilesAreImmutable` and `OwnFileIsKept` together: the run's `FilesAreKept` |

Assumption: `IndexAssumption` (the free lock is no station, each reader belongs
to a station, bounds are naturals, at least one key).

**The argument.** Lock discipline comes first: by `LockHolderBuilds` a thread
that looks again, builds or sweeps holds the lock, so one station at a time adds
to or removes from the directory; `BuildingIsLocked` says the same of a status
"building", wherever its thread is. Then numbers grow: `NumbersGrow` says every
number ever used has one in the directory that is at least as large, because a
sweep removes all but the file just built and that one is the largest; so a new
number is no old one. Third, `PublishedIsPath` and `PreviousDescribesIndex`
carry what the status will say through the three steps of a publication, and
through a build that may fail and restore it. Last, `NothingToAdopt`: the second
look, behind the lock, found no file of the key, and only the holder could have
added one since.

`RepositionProofs` proves for every number of requests, places, attempts,
samples, reloads and failing requests:

| theorem | says |
|---|---|
| `TypeCorrect` | `Spec => []TypeOK` |
| `NobodyFrozen` | once every request is answered the override is off and `_freeze_depth` is 0, unless an override write itself failed |
| `LonePlacement` | a request that runs alone writes a frozen flight model only, and gives up only out of time, or when reloads and swallowed writes have cost it all its attempts |
| `Placed` | a lone request answered with success has the place and the velocity it asked for, and no reload is due |

Assumptions: the four named ones of the module. Frames are as many as
`MaxShift`, attempts as many as `MaxWrites`; `LonePlacement` needs no relation
between the two: `MissesAreAccounted` counts what each attempt went to.

**The argument.** For any number of overlapping requests: the depth is the
cardinality of `Blocked` (`DepthCountsBlocks`), so the request that sees 1 is the
last one inside and becomes the one that releases (`SomebodyThaws`). For a lone
one: nobody else can shift the aircraft or land a write (`LoneIsAlone`), so it
aims from a frame that stands still, and every attempt but the last has been paid
for with a reload or a swallowed write (`LoneAims`): attempts never exceed
`Spent`, and the one in flight exceeds it only while it may still arrive.
What it measured when it left the block holds until it answers (`LoneLands`).

`TrafficBridgeProofs` proves for every number of calls, names, entity slots, runs
and commands, under every choice of `Faults`:

| theorem | says |
|---|---|
| `TypeCorrect` | `Spec => []TypeOK` |
| `AnswersHold` | one command is in flight, and until an ack of an earlier run is believed callers are told the truth |
| `GoneForever` | an entity that is gone is never made again |

Assumption: `BridgeAssumption` (finitely many names, the bounds are naturals, the
station runs at least once).

**The argument.** A spawn is in one place at a time, a call, the command or the
late PATCH, and never where its entity has already been made (`SpawnsOnce`); it
leaves the last of them when it takes effect, so no repetition can make the
entity again. Commands take turns (`TakesTurns`): what the call in flight did not
send, be it command, late PATCH or ack, has a smaller seq, so an ack that fits is
the answer to this very command, and says what the plugin did (`AckIsTrue`).

`ScenarioRunProofs` proves for any documents, any number of clients and failures
and whatever the calls do:

| theorem | says |
|---|---|
| `TypeCorrect` | `Spec => []TypeOK` |
| `StatusFollows` | no step begins before the ones ahead of it are done, and "running" is shown exactly while the task is at work |
| `ReportsTrue` | what a report calls applied the simulator shows, everything was attempted, and every step of a completed run is shown |
| `NotReplaced` | a run in progress is never replaced, and what it has done stays done |

Assumptions: the named ones of the module, which say what a document may hold
and that names differ.

**The argument.** It rests on the shape of a plan, which lemmas about
`ScenarioPlan` and `ProfilePlan` establish once: calls come in stretches, one per
component, the failures last. Hence the place of a task in its plan fixes what a
poll shows (`RunFollows`) and what the report under way must contain
(`ReportFollows`). `EffectsStay` says that what was done is not undone by the
calls after it: weather, setup and place are each written in one stretch, and the
one call that withdraws something, `fix_all_systems`, comes before every failure.

`RecordStoreProofs` proves for any number of records, bodies, threads and
timestamps, with a disk that may refuse any operation and a server that may
crash:

| theorem | says |
|---|---|
| `TypeCorrect` | `Spec => []TypeOK` |
| `ReadersSeeWhole` | what is read is a whole record, but for shared temporary files, and a list has every one that stayed in place and that the disk let it read |
| `ErrorsCaused` | an error has a cause: a deletion while the request was served, two updates that met, the disk |
| `UpdatesInPlace` | a record appears by its creation or by an update that had read it, and keeps its time of creation |

Assumption: `StoreAssumption` (profiles and positions have different ids, there
is an id, the bounds).

**The argument.** A temporary file that was never shared has one writer and holds
exactly what that one has written (`SoleWriter`), so what a rename publishes is
whole. A request that has found its record either still has it or saw it deleted
(`GoneIsKnown`). Two requests never create one record (`CreatesOnce`), and all
copies of a record, on disk, in its temporary file and in a draft, agree on when
it was created (`CreatedOnce`). What stays in place and is not refused is still to be
visited by a list or has been (`ListCovers`). What an action does to a thread is told once, by
its `Effect` lemma.

`ProcedureCacheProofs` proves for any number of threads, airports, legs, file
versions and publications and any size of the cache:

| theorem | says |
|---|---|
| `InvHolds` | `Spec => []Inv`, the inductive invariant |
| `TypeCorrect` | `Spec => []TypeOK` |
| `CacheHolds` | an undisturbed answer is the winning file as it is on disk, whole and from one file; nothing remembered has coordinates of a replaced index |

Assumption: `CacheAssumption` (at least one entry, one version, one generation and
one airport; `HasRunway` is a set of versions).

**The argument.** `Inv` is a property of each request with its connection
(`RequestHolds`) and of each remembered parse (`ParseHolds`). A text read after
the `stat` may be newer than the key it is remembered under; then no file has that
key any more, nor ever again, since times of writing only grow (`KeyIsOf`), so
such a parse is never found. What an undisturbed request saw of its files is still
so (`FilesAsSeen`). A request no publication overtook has all its coordinates from
one connection that was opened under the epoch of now (`OneConnection`).
`RequestStep` states once what a step of a request owes to the rest; each action
shows that it pays.

`StationSetupProofs` proves for any number of clients, any requests of the routes'
types, any tables of the navdata, and any simulator that has the adapter's datarefs:

| theorem | says |
|---|---|
| `SetupTypes` | `Spec => []SetupTypeOK` |
| `RefusalsWriteNothing` | a refused request has written nothing, or, when the simulator keeps its own weather, only the asking for it |
| `AppliedWritten` | when a placement, a setup or a loadout ran alone to a successful answer, the simulator has all the answer says was applied but a gross weight and a fuel, for which nothing is written; of a loadout, the half it does not state is untouched |
| `WeatherConsistent` | the weather announced is valid and a preset's layers are its own, over the field and across the runway; a weather request that ran alone leaves one air from the ground up and reads back what was asked for |

Assumptions: `SimAssumption` (the adapter's datarefs are there, a mode is one of
three, a wind level's altitude is an integer, the airframe has no more tanks than the
array), `SetupsAssumption` (requests are what the routes' types admit: switches are
Booleans, headings integers, a weather names a preset or states a valid setup), the
same of the previews (`PreviewsAssumption`), `ArraysAssumption` (the simulator has a
level and a slot for every layer a request may state, mass slots are numbered from 1)
and `TablesAssumption` (angles and elevations are integers, a table's rows are in
order, no two airports and no two runway ends have one name).

**The argument.** The invariant `IInv` has five parts.

- `Orderly` is about every request, however many interleave: a step is of its kind
  and writes a value of its dataref's kind, and while manual weather is still to be
  asked for or checked, nothing else has been written (`AsksFirst`). A refusal is
  answered before the first step or by that check, hence `RefusalsWriteNothing`.
- `Underway` is about a writing request that runs alone. `Aim` collects what the
  request wants of each dataref. `OnCourse` says that every step left fits the aim,
  and that every dataref aimed at either has the value wanted or will be touched by a
  step that is left; and that the approach, if the setup arms one, is the last
  lateral selection made. So nothing written is undone later, nothing planned is
  forgotten, and when no step is left the simulator has what was wanted. The aim names
  no mass of a half that is not loaded (`Spares`).
- `Sparing` is what such a request has written: of the masses only those of a half its
  setup states.
- `Aloft` is about a weather request that runs alone. What it writes it partly
  computes from what it has written: the temperature at a level from that level's
  altitude, a dewpoint from the temperature there. So the steps left come in turns
  (`InTurn`: wind, cloud, the wait, the surface, the temperatures aloft, the
  dewpoints), a step that was computed from the winds is left only when no wind is
  still to be written, and a dataref already as wanted has no earlier turn left that
  could make it wrong (`OnTheAir`). The clouds are still to be waited for, or show,
  or the wait was given up (`CloudsComing`). When no step is left the levels ascend,
  padded ones included (`LevelsAscend`), and the read-back picks out of them exactly
  the layers asked for (`WindReadBack`, `CloudReadBack`, over `Pick` and not over
  `SelectSeq`, so that no induction over the array is needed).
- `Forecast` says of a preview of weather what the property says. Its lemmas
  (`PresetsAre`, `ResolvedIs`, `ResolvedOverlaid`) go through every preset once.

A step may be a reading that becomes writes only when it is reached: the other slots
of a mass array, the mode's other bits, the speed through the wind, the levels below.
Steps are therefore compared with the aim by what they may still turn into (`Fits`,
`Touches`), and there is a lemma for each list of steps the adapter makes and for
each reading; the lemmas about `Resolve` and the profiles say what a placement of
each kind contains, and those about the plans that a plan starts `OnCourse`. TLC
checked `IInv` on the instance of the `station_setup` run before it was proved.

**The invariants and TLC.** Each `Inv` was also checked by TLC, on the instance of
its component's run; `ProcedureCache`'s on a second one with three versions of a
file as well. The runs check the properties the theorems state and leave `Inv` to
the proofs.

**Only model-checked**

- *Liveness*: `DelayedFires`, `EveryCallReturns`, `EveryRequestReturns` and
  `EveryRunFinishes`. Fairness needs ENABLED, which the prover does not reason
  about.
- *`NavdataQueries`* (`BuildIsFaithful`, `QueriesAgree`): the reference definitions
  are folds over all lines read so far. What a fold over a sequence computes needs
  an induction over data, which no installed prover can instantiate.
- *`PlacementsAreSound`, `ProceduresAreTheRecords`* of `StationSetup`: a previewed
  procedure and a placement on it are folds over a file's lines and a procedure's
  legs, of the same kind.

## Where code and documentation disagree

Seen while modelling; no run is about them, and where a property would be false
because of one, the property names the exemption.

Requests that meet:

- `_stop_watcher_if_idle` cancels the watcher also while it injects what an earlier
  frame fired (`server/failure_routes.py:200`): those entries are neither injected
  nor put back, where the comment at 207-209 says that an unreachable simulator
  delays a firing and does not lose it. `ArmingPromise` has the fate "dropped" for
  them;
- the traffic counter restarts with the station and the ack dataref keeps its
  content (`adapters/xplane/traffic_bridge.py:133`), so the first command of a run
  may take the ack of the previous one for its own; an exception in the plugin
  acknowledges without a seq (`PI_OISBridge.py:627-629`);
- `_connection` reads the path before the epoch (`provider.py:664`), which voids
  what the docstring at 612-614 derives from the order of the writes: the reader
  goes on with the old file under the new epoch;
- a CIFP parse overtaken by a publication is remembered after `invalidate()`
  (`cifp.py:1056`) with coordinates of the old index;
- `load` looks into the cache before it looks at the re-entrancy guard
  (`cifp.py:997-1010`). While one thread parses the default file of an airport, a
  custom file is installed and cached by another thread: the nested load of the
  first then answers from that other file, and its runway threshold is remembered
  under the default file's key. When the custom file goes, the default file is
  served with it. The comment at 1001-1010 says that a nested answer "cannot leak
  into a non-nested answer", `provider.py:308-312` that nothing from the nested
  pass is cached. It takes three versions of a file, and was met in the proof:
  the invariant first tried was not inductive. `crossed` marks these parses;
- the sweep of one station removes the generation another one serves
  (`docs/designs/navdata-provider.md:1602` knows it);
- `replace` may write back a profile deleted after it was read, although a PUT
  never creates (`core/profiles/store.py`, D13), and two updates of one profile
  share its temporary file, so a rename may publish bytes of both;
- a record deleted between `is_file` and `read_text` is answered with the store's
  error, a 500 (`core/profiles/store.py:142-147`, `core/camera/store.py:174-181`),
  although the docstrings of both errors say that they are never raised for "not found"
  (`core/profiles/store.py:46`, `core/camera/store.py:65`). `ErrorsHaveACause` admits it, as "vanished", and
  shows that no other missing record is answered so;
- `list` skips a sound record whose read the disk refuses as it skips one that does
  not parse (`except (OSError, ValidationError)`, `core/profiles/store.py:121`,
  `core/camera/store.py:142`): the answer is a 200 with a record missing, where the
  docstring speaks of "a file that fails to parse". `ReadersSeeWholeRecords` is
  about the others;
- the write that engages the freeze is awaited before the `try`
  (`xplane_adapter.py:1977`): if it takes effect and its answer is lost, nothing
  releases it; a release given up can land in the next placement. This is why
  `LonePlacementHolds` speaks of a request alone;
- two wind writes interleaved can leave levels that are not sorted, which the
  read-back answers with an internal error; so does a loadout when the simulator
  reports more stations than the airframe's table has arms.

Runs and profiles:

- a step fails with its error only for three exceptions
  (`server/scenario_engine.py:332`); navdata, weather and connection errors are
  others, named in `docs/designs/scenario-generator.md:138`;
- the pre-flight check does not know the `loadout` field
  (`core/scenarios/preflight.py:31`) nor which failures an install resolves, so a
  run can still find a capability missing halfway (`scenario_engine.py:18-20`).

Placements and setups:

- `gross_weight_kg` and `fuel_kg` of a setup (`core/models.py:271-274`) pass
  `_blocked_reasons` (`server/app.py:242`), come back as `applied`, "Exactly the setup
  that was applied." (`app.py:206`), and are never written (`apply_setup`,
  `xplane_adapter.py:2396-2454`), with a loadout or without one, where
  `core/sim_adapter.py:202-204` says that of the two `loadout` is authoritative and that
  "scalars are applied only when it is absent". `AppliedIsWritten` names the two fields,
  and the requests of the run state them;
- an edited speed is not folded into the placement the answer reports
  (`position_routes.py:912`), although the comment at 1003 says that placement and
  applied describe the aircraft; the vertical speed of the glidepath stays that of
  the speed before the edit;
- `_merge_setup` says that no placement sets a nested field
  (`position_routes.py:902`), but a final sets the landing lights
  (`geodesy.py:520`): an edit of another light drops them.

Weather:

- a wind-only change leaves the temperatures at the old levels' altitudes; a
  dewpoint stated alone can be above the temperature the simulator keeps, which
  the read-back hides by clamping it;
- the wait for the clouds compares the bases and the coverage
  (`xplane_adapter.py:1443`), where the docstring of the write says that it "closes
  that gap" between a write and its read-back (1425): a request that changes only the
  tops or the kind of a layer is answered with the old ones. The first form of
  `WeatherIsConsistent` said otherwise and held at the bound; the proof found it
  (`CloudsAgree` compares what is waited for);
- an empty list of winds reads back as one calm layer, and equal neighbouring
  layers as one;
- a preset with wind at the ground cannot be resolved at an airport below sea
  level, since a wind layer's altitude is at least zero;
- where a build lacks some weather datarefs, a partial setup that needs none of
  them succeeds and the read-back that answers it is a 502, after the writes.

Navdata:

- an empty filter of kinds is no filter in the index and matches nothing in memory;
  records without a region come last in the index and first in memory; holds
  without a region are found under a region filter by one of them only;
- two localizers or two DMEs that name one end list the runway twice; a stand's
  metadata after an unreadable stand decorate the one before it;
- a search box around a point (`provider.py:704`, "never drops a row") takes a minute
  of latitude for a nautical mile (`provider.py:1148`), which near the equator is
  about half a percent short: a point at the edge of the radius can be dropped;
- a latitude above 90 in a runway record passes the record's own check and is
  refused by the type, which costs the whole file;
- the "ALL" and the blank transition of one name become two procedures without a
  transition, of which a lookup returns the first; of two records of one runway
  legs use the last, and the lookup returns the first.

## What is not modelled

- **Track builders, pushback geometry, the local frame, the atmosphere's formulas**
  (`core/traffic.py`, `pushback.py`, `local_frame.py`, `atmosphere.py`): functions
  over real numbers without state. The placements' geometry is modelled on a plane,
  so nothing is said about rounding, the poles or the antimeridian.
- **A hold's entry and a whole procedure's placement** (`geodesy.py`): no route
  calls them.
- **Text search, search by radius, the discovery of data sources**: ranking and
  file-system layout.
- **The decoding of a column's text** (coordinates, frequencies, designators): a
  line is a record of its fields and a flag that says it does not parse.
- **The TCAS-target table, the object library and track sampling** of the plugin,
  and reloading the plugin or X-Plane.
- **Camera views and commands, the fake adapter, models and interfaces, the user
  interface.** The interface's optimistic writes and its live socket are listed
  as hazards without a property.

## Plan

What is left, in this order:

1. `LiveSocket` and `AircraftPanel`: reconnection timers and the close handler of a
   replaced socket; optimistic writes against telemetry and a link that drops.
2. The TCAS-target table of the plugin: release and reacquire between frames.
