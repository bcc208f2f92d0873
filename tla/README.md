# mtrtk: verification project

TLA+ models of the mtrtk daemon (`src/mtrtk/`), the TLC configurations that model-check them on
small instances, and theorems about them with proofs that TLAPS checks. Paths below are relative
to the repository root.

mtrtk runs an RTK base station or a rover: one asyncio process owns a GNSS receiver on a serial
port, frames its byte stream, distributes the frames in-process, logs them, keeps a live state,
serves corrections to rovers (base) or fetches them from a caster (rover), and offers a web UI.
Everything runs in one event loop, so a step of a task is atomic up to its next `await`; the
models take that granularity: one action per stretch of code between two awaits. Only file
synchronisation, SQLite, uploads and a few conversions run in threads, and RINEX and PPK tools in
child processes.

## 1. Inventory

### 1.1 Core

| component | state | operations | interacts with |
|---|---|---|---|
| bus (`core/bus.py`) | list of subscriptions, a queue and counters for each | subscribe, publish, unsubscribe, `async for` | every component |
| UBX link (`core/link.py`) | waiters per answer key, stale credits, write lock | poll, valset, valget, dispatch, stop | source (write), bus (answers), receiver controller, base mode |
| receiver controller (`core/receiver.py`) | link, connected, backoff, first-apply and outage flags, configure lock | run, session, configure, probe, verify, reapply, reset | source, link, bus (`receiver.*`) |
| byte sources (`core/source.py`) | open handle, reader thread or replay position | open, read, write, close, replay, loop | receiver controller |
| framer, router (`core/frames.py`, `core/router.py`, `core/crc.py`) | unparsed tail of the stream | feed | source, bus |
| state store (`core/statestore.py`, `core/state.py`) | the live `ReceiverState`, the epoch in progress | apply a frame, end an epoch, publish sections | bus |
| profiles, geodesy, exposure (`core/ubx_config.py`, `core/geo.py`, `core/exposure.py`) | none | pure functions | |
| daemon (`daemon.py`) | supervised tasks, stop event, the rover's NTRIP client, bound addresses | start, restart with backoff, follow an address, replace the client, shut down in order | all |
| jobs (`jobs.py`) | `jobs` rows, running tasks, result directories, closing flag | submit, run, progress, cancel, delete, restore, prune, shutdown | database, bus, web API |
| alerts (`alerts.py`) | raised alerts, grace timers, two queues | raise, clear, webhook | bus, events table |
| backup (`backup.py`) | archive, staged database, kept copies | archive, restore | database, another process |

### 1.2 Base station

| component | state | operations | interacts with |
|---|---|---|---|
| base mode (`base/basemode.py`) | mode, applied site, verification state and deadline, refused site, poll baseline, lock | apply, activate a site, restart the survey, switch off, poll the database, check a 1005 | receiver controller, sites table, bus |
| NTRIP caster (`base/ntrip_caster.py`) | clients, their queues, cached 1005/1230, stopping flag | accept, serve, feed, end, stop | bus (`rtcm.*`), rovers (TCP), log table |
| raw log (`rawlog/writer.py`, `rawlog/index.py`, `rawlog/retention.py`) | open hour file, sidecar, pending bytes, clock state | write, rotate, tick, fsync, recover, keep, prune | bus (unbounded), disk |

### 1.3 Rover

| component | state | operations | interacts with |
|---|---|---|---|
| NTRIP client (`rover/ntrip_client.py`) | status, backoff, sticky v1 | connect, stream, reconnect | caster (TCP), driver |
| points and sessions (`rover/points.py`, `rover/sessions.py`) | collection in progress, open session | start, epoch, cancel, finish | state store, database |
| outputs (`rover/sinks.py`, `rover/nmea_out.py`, `rover/json_out.py`) | active and failed sinks, TCP clients, pending serial bytes | start, write, set aside, retry, accept, close | bus |
| INS drivers (`rover/drivers/`) | one request in flight, RAM-only marker, configuration report, hourly capture | configure, apply, verify, save, reset, inject, capture | source, bus, disk |

### 1.4 Store, web, post-processing

| component | state | operations |
|---|---|---|
| database (`store/db.py`, `store/repos.py`, `store/models.py`) | SQLite file, one connection, one lock | execute, transaction, commit, migrations, repositories |
| sampler (`store/sampler.py`) | last epoch written, minute in progress | sample, roll up, prune |
| settings (`web/api/config.py`, `web/envfile.py`) | `.env`, the running settings, a lock | read masked, write, load |
| WebSocket hub (`web/ws.py`) | sockets with bounded outboxes, one bus subscription | connect, snapshot, dispatch, cut, close |
| web server and API (`web/`) | uvicorn server, sessions | HTTP handlers |
| RINEX exports (`rinex/`, `web/api/export.py`) | lock file, staging directory, output directory | splice, convert, publish, take back |
| PPK (`ppk/`, `web/api/ppk.py`) | output directory, child processes, uploads and reservations | upload, convert, place, solve, post-process, summarise |
| doctor, CLI (`doctor.py`, `cli.py`) | none of their own | checks, commands |
| web UI (`web/src/`), ROS 2 bridge (`ros2/`) | browser or node state | display, republish |

### 1.5 What is hard, and what makes each part correct

Everything is one event loop, so the hard cases are interleavings at awaits, not data races; the
exceptions are the few threads (directory creation, sidecar dumps, SQLite, uploads). The hazards are listed
line by line in `PROJECT.json`; in short:

- *bus*: a stalled consumer, and the sentinel that has to end it. The raw logger loses nothing, a
  live consumer misses the oldest items only and they are counted, `unsubscribe` ends the loop.
- *UBX link*: an ACK names only the class and id of what it acknowledges, so a late or lost one
  can be taken for another request's. A CFG-VALSET gets its own verdict, one lost answer does not
  spoil the requests after it, every request ends.
- *jobs*: a queued job may start between any two steps of its deletion; shutdown and crashes fall
  anywhere. A running job is neither deleted nor cancelled, no row stays live without an owner.
- *raw log*: the receiver's clock may be missing, freeze, jump or go backwards; files are appended
  to after crashes and edited by an API. Frames are in one file once, a finished sidecar describes
  its file, a mark protects its hour.
- *base mode*: five tasks move one receiver's mode and the answers may be lost. What the base
  reports is what the receiver does; a survey is not ended by a row nobody activated.
- *receiver controller*: sessions, outages, a lock shared with the API, a flag that says whether
  flash has the profile. One report per outage, a bounded ladder of waits, a profile that survives
  a power cycle, progress.
- *configure*: silence, refusals and answers of other requests. Success means the keys are there,
  silence is not a refusal, a refused chunk is narrowed down to its refused keys.
- *NTRIP caster*: slow and vanishing rovers, a database inside the connection path, a stop at any
  await. A rover gets 1005 first and misses the oldest frames only, handlers and `stop()` end.
- *NTRIP client*: casters that speak v1 only, refuse or break off. No hammering, an honest status,
  a backoff that only a stable stream resets.
- *daemon*: URL changes that overlap each other and a rover torn down; an address that moves while
  the server winds down. One client, on the URL the settings name; a stop that ends everything.
- *database*: every task shares one connection and may be cancelled at any await. What is committed
  is whole units, and a write that was answered stands.
- *sampler*: a minute in progress at a stop, crash or failed write. Its aggregate is not missing.
- *settings*: overlapping writes, masked forms posted back, a crash. No change is lost, no mask stored.
- *backup*: a process that dies between two renames. The replaced database is always somewhere.
- *alerts*: one slot for the errors of three parts, queues that overflow, writes that fail. What is
  shown as active is what is wrong.
- *hub*: slow sockets. A browser is current or cut, never left with an old state.
- *framer, epochs*: chunk boundaries anywhere, markers missing, a replay that starts over. The frames
  do not depend on the chunks; an epoch has the messages of one epoch.
- *INS configuration*: RAM against flash, answers that do not say what they answer. What is reported
  as applied stays, and the unit is never left mute.
- *INS capture*: counts in a sidecar over crashes and clock steps.
- *outputs*: a sink that fails among others, a TCP client that stalls, a kernel queue that fills.
- *points*: requests around the awaits of a start and of a save.
- *exports, PPK, uploads*: steps that fail half way in a directory that already has files, retention
  that prunes meanwhile, several uploads for the same free space.

## 2. Plan

Order of the modules, most important behaviour first; each composes what the ones before it
establish about a component it uses (the link's verdicts become the receiver's "acknowledged,
refused or unanswered", the controller's sessions become the base mode's "link").

| | module | status |
|---|---|---|
| 1 | `Bus` | modelled, checked, proved (`StreamProofs`) |
| 2 | `UbxLink` | modelled, checked, proved (`LinkProofs`) |
| 3 | `Jobs` | modelled, checked, proved (`ServiceProofs`) |
| 4 | `RawLog` | modelled, checked, proved (`RawLogProofs`) |
| 5 | `BaseMode` | modelled, checked, proved (`SetupProofs`) |
| 6 | `Receiver` | modelled, checked, proved (`OutletProofs`) |
| 7 | `ReceiverConfig` | modelled, checked, proved (`SetupProofs`) |
| 8 | `NtripCaster` | modelled, checked, proved (`StreamProofs`) |
| 9 | `NtripClient` | modelled, checked, proved (`ExchangeProofs`) |
| 10 | `Daemon` | modelled, checked, proved (`ServiceProofs`) |
| 11 | `Database` and the `AtomicStore` it implements | modelled, checked, proved with the refinement (`StoreProofs`) |
| 12 | `Sampler`, `Backup` | modelled, checked, proved (`StoreProofs`) |
| 13 | `Settings` | modelled, checked |
| 14 | `Alerts`, composed with the links it reports on | modelled, checked |
| 15 | `WsHub`, `Outputs` | modelled, checked, proved (`OutletProofs`) |
| 16 | `Points` | modelled, checked, proved (`StoreProofs`) |
| 17 | `SerialSink` | modelled, checked |
| 18 | `InsLink` with `SbgConfig` on it | modelled, checked, proved (`ExchangeProofs`) |
| 19 | `InsLink` with `VnConfig` on it; `RawCapture` | modelled, checked, proved (`ExchangeProofs`) |
| 20 | `Export`, `Ppk` | modelled, checked, proved (`StoreProofs`) |
| 21 | `Uploads` | modelled, checked |
| 22 | `Framer` (two framers side by side), `Epochs` (replay and state store) | modelled, checked |

"Proved" means the safety properties of the component that a run checks; section 7 says which stay with
TLC and why.

## 3. Conventions

- *Granularity.* One action per stretch of code between two awaits. A helper without an await is
  an operator of the action that calls it.
- *Plans.* Most modules have a variable `plan`, chosen in `Init` from the constant `Plans` and never
  changed: which requests come, how many of each fault may happen, how many frames or readings
  there are. One run then covers several instances, each with its own bounds, and the `MC_` module
  says what each is for. Actions of the environment are guarded by the plan, actions of the program
  never are.
- *Bundles.* A run of one small component asks little. `MC_Live`, `MC_Services`, `MC_Receiver`,
  `MC_Exchanges` and `MC_Recordings` each put several components that share no variable side by side:
  the variable `part`, chosen in `MCInit`, says which one a behaviour is about; the others rest in one
  of their initial states, or in a final one. Parts are chosen to have the same kinds of checks (with
  or without liveness) and to share no state in the code either.
- *Names of a bundle.* A component that theorems are about needs its constants and variables declared
  where the proofs can see them. `Stores` (database, sampler, points, backup, exports, PPK) and
  `Configures` (receiver configuration) declare them, state what the constants are assumed to be,
  instantiate the components and name their properties; the run's module and the module of proofs
  both extend them, so that run and theorem are about one definition. `MC_Live`, `MC_Services`,
  `MC_Receiver` and `MC_Exchanges` do this for their parts themselves. Components without theorems are instances whose
  constants stand in the `WITH`; a property of theirs that would not hold of the resting state is
  guarded by `part = "..."`.
- *History variables* are marked `(history)` where they are declared. No action is guarded by one.
- *Mutants.* An operator whose comment says `Mutant of X` is X with a plausible bug. It is not part
  of the specification; replacing X by it makes a named property fail, which shows that the
  property depends on that code.

## 4. Modules and code

### Bus (`core/bus.py`)
`queue`, `dropped`, `highWaterHits`, `status` are the subscription's fields; `Publish` runs `_put` for
every matching subscription, `Unsubscribe` is `close()` with its eviction of one item from a full
queue, `Anext` is one turn of the consumer's `async for`. Topic patterns are a relation `Matches`.
Checked with an unbounded and a bounded subscription, queue size 2, four publications: enough to
fill, evict, close full and read on.

### UbxLink (`core/link.py`)
A caller is a task that polls, sets or gets; `waiters` are the queues of futures, `stale` the
credits with the time each has left, `robbed` the mark of a request that stood waiting while a
credit was spent. `Request`, `Write`, `Wake` are the three stretches of `_request` and its loop;
`Deliver` is the dispatch of one frame, `Stop` fails all waiters. The line answers in order; a lost,
late or unsent frame and a cancelled caller are faults, bounded per plan. Bounds: two callers,
timeouts of two ticks, three attempts, three requests: two requests are needed for a verdict to go
astray, a third to see whether the loss chains.

### Jobs (`jobs.py`)
`task[j]` is the place in `_run`/`_execute`, `submit[j]` that of `submit()`, `del[d]` that of a call of
`delete()` (of the API or of retention), `row`, `dir`, `tasks`, `kinds`, `reason`, `cancel` what they
read and write; `Exit` is the end of the process, by shutdown or crash, and `Restore` the start of the
next. `making` holds directories a thread makes after its await was cancelled. Two jobs for one slot,
one delete, one restart.

### RawLog (`rawlog/`)
Time is in slots of half an hour, frames are numbers, a file is the sequence of its frames and a
hash the bytes hashed. `NoteUtc`, `Handle`, `BufferPending`, `HostClock`, `TickCloses`, `TickFlushes`,
`Fsync`, `StopWriter`, `Recover` are the writer's operations with their trailing dumps; `Patch`,
`PatchLoad`, `PatchDump` the API's edit of a sidecar, its load and dump in a thread; `PruneList`,
`PruneDelete`, `PruneEnough` a retention pass, `DeleteList`, `DeleteCheck`, `DeleteUnlink` the API's
delete, whose listing and unlink run in two threads with the refusals between them. They interleave freely.
A `PowerCut` loses what was not synced; `KillInRotate` falls between the frames and the sidecar,
`KillInDelete` between the two unlinks. Three hours, up to three frames, three readings.

### BaseMode (`base/basemode.py`, `web/api/base.py`, `web/api/config.py`)
Five actors queue for `_apply_lock`; a TMODE is Off, Svin or a site's identity with its edition (so
that deleting and re-adding a name is seen). `ReceiverTakes`, `Ack*`, `Nak`, `Timeout` are the write's
outcomes; `On1005`, `OnFix`, `DeadlinePasses` the check of what is broadcast; `Cli*` the other
process. Two sites, two editions, up to two requests.

### Receiver, ReceiverConfig (`core/receiver.py`)
`Receiver` is run(), the session, the lock and the flags, with the profile one bit in RAM and one in
flash. `ReceiverConfig` is `_configure` key by key: the probe with its attempts, readbacks in chunks
and key by key, writes, bisecting, optional features, verification. They share the names of what
`_configure` may return (ok, refused, unanswered). `ReceiverConfig` has eight keys (four core, one signal,
three features) and chunks of three, the firmware lacking or locking up to three of them. The plans are
about one group of keys at a time: `ThreeFeatures` has a firmware that may lack one of three features
and two late answers, which is what it takes to shift one feature's refusals onto the next one's probe;
the others have one odd feature and hold the rest as the profile wants it.

### NtripCaster (`base/ntrip_caster.py`)
`at[r]` is the place of a rover's handler, `queue`, `dropped`, `stop_reason` its `_Client`; `Feed` is
`_on_frame`, `Offered` and `Ended` are `_offer` and `_end`. A request head is served, refused or late;
a blocked write is polled until `SLOW_CLIENT_GRACE_S`. The database may fail or hang. Queues of two
frames, three frames of three kinds.

### NtripClient (`rover/ntrip_client.py`)
`at` is the place in `_run`/`_session`, a caster is what it answers and may change at any time; a delay
is a rung of the ladder. Streaming is a state that may turn stable and may break.

### Daemon (`daemon.py`, `web/api/rover.py`)
`phase` is the place of run(); three consumers stand for all, `con[c]` being the consumer and its
supervisor: `web` behind `_serve_on_bind` with the address it is `bound` to and the one the watcher
`found`, `rover` which owns the NTRIP client `task`, and `writer`. `put[p]` is a PUT of the caster URL
with the two locks it takes, its write of `.env` and the restart of the client; `Main` is the ordered
shutdown. Two PUTs, two moves of the address, up to two faults: a second PUT and a second move are
what the locks and the watcher's re-read are for.

### Bundles and proofs
`Stores` joins components and `Configures` sets one beside others (section 3); `StreamProofs` (bus,
caster), `LinkProofs` (UBX link),
`ExchangeProofs` (NTRIP client, SBG, VectorNav, capture), `ServiceProofs`, `StoreProofs`,
`OutletProofs`, `RawLogProofs` and `SetupProofs` (base mode, receiver configuration) hold the theorems
of section 7.

### Database and AtomicStore (`store/db.py`)
`thread` is the queue of statements of aiosqlite's worker; cancelling the task that awaits one does
not take it back. `Begin`, `Execute`, `Commit`, `Cancelled` are a task's awaits, `Runs` one statement of
the thread. `AtomicStore` has only the committed set and grows it by whole units (any number of them at
once: a cancelled task's BEGIN makes later ones one transaction, see 8); `Database` implements it with
`stored` mapped to itself (`CommitsUnits`).

### Sampler (`store/sampler.py`), Settings (`web/api/config.py`, `web/envfile.py`), Backup (`backup.py`)
`Sampler`: rows are seconds, a minute two of them; `Insert` is a turn of run() with the rollup and
retention it triggers as the steps that follow, `Stop` the final rollup, `Crash` and failing writes
anywhere. `Settings`: three keys stand for all (a plain one, a secret it is validated with, a URL with a
password inside); requests wait for `settings_lock` after their masks were undone; the file has a
comment and a duplicate line. `Backup`: the database is a file and a WAL that SQLite replays whosever
it was; restore's steps are its renames and unlinks, and it or the daemon dies between any two.

### Alerts (`alerts.py`, `rover/drivers/sbg/driver.py`, `drivers/factory.py`)
Two bounded queues into one engine, composed with the main link, its configuration and the Port B
holder. A handler runs alone, so it is one action; a failing write ends it at any emit. The plans of
the run take the rules in groups.

### WsHub (`web/ws.py`)
A message is the topics it updates and their version. The hub's own queue and every outbox hold one:
the smallest size at which each is full while another message comes.

### Framer (`core/frames.py`), Epochs (`core/source.py`, `core/statestore.py`)
`Framer` feeds one stream to two framers, in chunks and in one piece, and compares what they found;
protocols keep their shape with short lengths and one-byte checksums. `Epochs` plays recordings with
and without end markers, with missing messages, live with a drop, as a replay and as a loop, into the
store; a section of the state is the epoch that wrote it.

### InsLink, SbgConfig, VnConfig, RawCapture (`rover/drivers/`)
`InsLink` is the session both families share: one writer, one request in flight, an inbox, a write that
may stall past its waiter. `SbgConfig` and `VnConfig` extend it with the sequence of their family, as a
`job` whose step says which answer it waits for, against a unit with RAM and flash. A $VNERR does not say
what it answers; an SBG ACK names its command. Units that take, keep, refuse or lack items; one fault,
one restart, one power cut. `RawCapture` files frames under the unit's own hour.

### Outputs, SerialSink (`rover/nmea_out.py`, `json_out.py`, `sinks.py`)
`Outputs` is the publisher's loop over sinks that are starting, active or set aside, and the TCP sink's
clients. `SerialSink` keeps bytes: sentences are runs of numbered bytes, the kernel a short queue the
reader empties between any two system calls.

### Points (`rover/points.py`, `sessions.py`, `web/api/rover.py`)
A request to collect stands before or after the await in start(). `Accept` of the last epoch builds the
`row` before the save is awaited, as `_finish` does; the save is asked, committed, read back, and a
Cancel finds nothing to cancel by then. Sessions are stamped with a clock that may step back.

### Export (`rinex/`), Ppk (`ppk/`), Uploads (`web/api/ppk.py`)
`Export`: three kinds of caller, a lock file, a staging directory per caller, versions of names in an
output directory that is shared. The moves are a thread of their own (`Place` is where it is): a cancelled
caller waits for it (`at` stays) or goes on without it (`Drain`, then `overrun`), a failed move is taken
back (`MoveFails`), of which any part may fail in its turn, and `Clean` removes whatever is in the staging
directory. `Ppk`: a directory used for one run after another, each output known by the run that wrote it
and whether it has data, and a base whose host prunes and edits; a step that fails has written any part of
its files, whole or not, and the summary is written one await before the end (`Summarise`, `Report`). `Uploads`: two requests with and
without a declared length, threads that outlive a cancellation, folders that age. Sizes are chunks; the
check is due every second chunk, so that one can be skipped. The open of the partial file is taken with
its first write.

## 5. Runs

| run | parts | properties | what it shows, and the bounds |
|---|---|---|---|
| `live` (`MC_Live`) | bus, caster | DeliveredExactly, CloseEndsConsumer; RoversServed, StreamsEnd | a stalled consumer loses the oldest items and all are counted; rovers get 1005 first and leave nothing, stop() returns. Queues of two, four publications, three frames, two rovers, a database that fails or hangs |
| `link` (`MC_UbxLink`) | UBX link | VerdictsStand, EveryRequestEnds | a verdict is on this very request, a loss does not chain, one fault costs a CFG-VALSET nothing. Two callers, three requests, three attempts: two requests for a verdict to go astray, a third to see whether it chains |
| `basemode` (`MC_BaseMode`) | base mode | ModeMatchesReceiver, ModeFollows | what the manager says is what the receiver does; surveys, verdicts and activations get there. Two sites, two requests, one fault, a link that drops |
| `receiver` (`MC_Receiver`) | receiver, outputs, hub | SessionsAccounted, ServesAndAnswers; SinksOwned, SinkComesBack; CurrentOrCut, ShutdownEnds | outages, failed configures, reapply and reset; two sinks, two clients, two faults; two sockets with queues of one |
| `exchanges` (`MC_Exchanges`) | NTRIP client, configure, SBG, VectorNav, capture, framer, epochs, alerts | ClientHonest, RetriesEarned; ConfigureHonest, FeatureKept; AppliedIsKept; NeverMute; CaptureCounts; ChunksDoNotMatter; EpochsWhole; ActiveIsTruth | what is said to a peer and made of its answers. A caster that changes five times; eight keys in chunks of three, up to three of them odd, three features with two late answers; one lost frame, drop, restart and power cut per INS; streams of every damage the framer resynchronises from |
| `recordings` (`MC_Recordings`) | raw log, exports, PPK, uploads, points, serial output, database, sampler, settings, backup | HoursWhole, HoursFollowClock; WholeOrUntouched; TrackIsItsOwn; UploadsFit; PointIsAsAsked; TailFollowsHead; CommitsUnits, WritesStand; NoHole; SettingsKept; RestoreKeeps | what is on disk is whole and is what it says. Three hours, three frames; two exporters at a time, of one directory or of two, one fault and one death; PPK runs in one directory; two uploads of two chunks for the room of three; two units and a writer with two cancellations and an error |
| `services` (`MC_Services`) | jobs, daemon | JobsOwned, JobsSettle; ClientOwned, ServesThenEnds | two jobs for one slot, a delete, shutdown or crash and a restart; two URL changes, two moves of the address, two faults |
| `link_two_locks` (`MC_UbxLink`, `MC_UbxLinkLocks.cfg`) | UBX link | OwnVerdict | violated: see 8 |
| `jobs_double_delete` (`Jobs`, `MC_JobsDouble.cfg`) | jobs | RunningIsNotDeleted | violated: see 8 |
| `receiver_reset` (`MC_Receiver`, `MC_ReceiverReset.cfg`) | receiver | ProfileKept | violated: see 8 |
| `ppk_moved_base` (`MC_Recordings`, `MC_PpkMoved.cfg`) | PPK | PlacedWhereLogged | violated: see 8 |
| `sink_splice` (`MC_Recordings`, `MC_SinkSplice.cfg`) | serial output | NeverSpliced | violated: see 8 |

Several properties are conjunctions of named ones, in the component's module: `VerdictsStand` of
`OwnVerdict`, `LossDoesNotChain` and `ValsetSurvivesOneFault`; `HoursWhole` of `CompleteMatchesFile`,
`EveryFrameOnce` and `KeepIsHonoured`; `SessionsAccounted` of `BackoffIsLadder`, `OneReportPerOutage` and
`ProfileInFlash`; and so on. Deadlock checking is off where the program may come to rest (a stopped
link, an ended client, a day without requests) and on for `basemode`, which never does.

To repeat one: `tlc -config MC_Live.cfg MC_Live`, in this directory.

## 6. Fairness

The event loop runs every task that is ready, so every step of a task that awaits nothing outside
the program is weakly fair. A wait for the receiver, a socket or a child has a timeout in the code,
and the timeout is one of the disjuncts that are fair. The database answers, except in the caster's
plans where it hangs. Nothing is assumed of the operator, of the stop, of faults, or of what a rover
or caster does. Where one task's steps exclude each other they share one condition (`Handler` of the
caster, `TaskStep` of jobs, `Session` of the receiver): the loop runs the task, whichever step is next.
Two assumptions are strong and are about the outside: the receiver goes on broadcasting and
navigating (`BaseMode`), and a device that keeps being plugged in can at some time be opened
(`Receiver`). A sink's device comes back (`Outputs`), since `SinkComesBack` asks what happens when it does;
nothing is assumed of the hub's sockets, whose close may never return.

## 7. Proofs

TLAPS checks eight modules. A theorem holds for every value of the constants that satisfies the named
assumptions, with the fault budgets, plans and counters left open; the run of the same property shows it
on the small instance. Every inductive invariant was checked by TLC on its run before it was proved.

| component | theorem | property | assumption on the constants |
|---|---|---|---|
| `Bus` | DeliveryExact | DeliveredExactly | `BusAssumption`: bounds are not empty |
| `UbxLink` | LossNeverChains, LinkKeepsItsWord | VerdictsStand | `LinkAssumption`: the shape of a plan; `Retries >= 3`, the default of valset |
| `NtripCaster` | RoversAlwaysServed | RoversServed | `CasterAssumption`: a queue holds a frame |
| `NtripClient` | ClientIsHonest, RetriesAreEarned | ClientHonest, RetriesEarned | `NtripClientAssumption`: bounds are not empty |
| `SbgConfig` | AppliedStaysKept, OneFaultIsKept | AppliedIsKept | `RetriesAssumption`: a question is sent a number of times; at most one fault (`OneFaultIsKept`) |
| `VnConfig` | NeverMutes | NeverMute | `VnAssumption`: what a unit's registers can hold |
| `RawCapture` | CaptureAlwaysCounts | CaptureCounts | `CaptureAssumption`: hours are not empty |
| `Jobs` | JobsOwnedAlways, JobsOwnedOneDeleter | JobsOwned | `JobsAssumption`: there is a slot |
| `Daemon` | ClientAlwaysOwned | ClientOwned | `PutsAssumption`: no caster is called like a free lock |
| `Database` | DatabaseCommitsUnits, DatabaseWritesStand | CommitsUnits, WritesStand | `TasksAssumption`: a task has one kind |
| `Sampler` | SamplerNoHole | NoHole | `RetentionAssumption`: minutes are kept as long as the last of their seconds |
| `Points` | PointsAsAsked | PointIsAsAsked | `CollectsAssumption`: a request asks for an epoch, the queue holds one |
| `Backup` | RestoreAlwaysKeeps | RestoreKeeps | none |
| `Export` | ExportsWholeOrUntouched | WholeOrUntouched | `ExportsAssumption`: an export has a number of its own |
| `Ppk` | TracksAreTheirOwn | TrackIsItsOwn | `PpkAssumption`: the shape of a request, a finite history |
| `BaseMode` | ModeAlwaysMatches | ModeMatchesReceiver | `BaseModeAssumption`: the shape of a plan |
| `ReceiverConfig` | ConfigureIsHonest, FeaturesAreKept | ConfigureHonest, FeatureKept | `ConfigAssumption`: features have keys of their own, a VALSET holds a key, the shape of a plan |
| `Receiver` | SessionsAlwaysAccounted | SessionsAccounted | `ReceiverAssumption`: the shape of a plan |
| `Outputs` | SinksAlwaysOwned | SinksOwned | `SinksAssumption`: finitely many clients |
| `WsHub` | AlwaysCurrentOrCut | CurrentOrCut | `HubAssumption`: the subscription holds a message |
| `RawLog` | HoursAlwaysFollowClock, HoursAlwaysWhole | HoursFollowClock, HoursWhole | `RawLogAssumption`: the shape of a plan |

Three theorems have a hypothesis about the behaviour. `LinkKeepsItsWord` is about plans with one request at
a time and at most one late or cancelled, or without a valset (`Covered`: every plan of the run is one);
two callers with locks of their own are the divergence of `link_two_locks`, and after two late answers a
verdict can go astray, since an ACK does not say which request it is about; that a loss does not chain
is proved without it (`LossNeverChains`). `JobsOwnedAlways` assumes that no two deletes of one
job overlap, which the code does not enforce (`jobs_double_delete`, section 8); `JobsOwnedOneDeleter`
discharges it for one caller of delete(), the case the run checks. `AppliedStaysKept` assumes that no SBG
run takes the answer to the first question of an earlier run for its own with other old frames behind it
(`FirstAnswerFresh`). The code cannot tell: no answer says which request it is to. After enough late
answers (TLC needs a budget of eleven faults, with one try per question) an old read-back is believed
and an item is reported applied that is not. `OneFaultIsKept` needs no such hypothesis: with one lost or
late frame, dropped link or stalled write, as in the run, it holds in every behaviour.

None of these invariants is inductive as it stands. What each needs:

- *Bus.* That a queue holds the newest offers needs to know where the sentinel is, and that the loss is
  counted needs both: per subscription the shape of a closed queue (`ShapeInv`), that offers are never
  the sentinel (`OfferInv`), that what is queued is a suffix of what was offered (`SuffixInv`), the
  ledger of offered, read, queued and dropped (`LedgerInv`) and that an unbounded consumer has read a
  prefix (`CopyInv`). The `Suffix*` and `Ledger*` lemmas say what appending, evicting, reading and
  closing do to each.
- *UbxLink.* Who stands in which queue (`AloneInv`) and which futures it has (`FuturesInv`); no frame is
  later than a credit for it lasts, and none is late without a fault (`DueInv`). `LossInv` is an account:
  the timeouts so far, the credits that are owed and the timeouts that are still certain to come
  (`Risk`) are at most two for each fault. `VerdictInv` lists the verdicts on the line: one whose valset
  gave up, which a live credit covers and which comes first, and the one of the valset that waits.
- *NtripCaster.* The same suffix, with what a handler at each place has registered, queued, written and
  logged (`PlaceInv`, `StreamInv`), what the cache holds (`LastInv`) and where in a rover's queue its
  first 1005 can be (`StartInv`).
- *NtripClient.* Only a stop cancels a session (`StopInv`), a retry as v1 follows the refusal of a v2
  connection (`VersionInv`), how many connections were made at each place of the loop (`TriesInv`).
- *SbgConfig.* What a run asks at each step (`SbgTypes`); a save is not sent twice and `saved_this_run` stands
  for it (`SaveInv`); once the unit has greeted a run, what is on its way to it is true: an item said to be
  in place is, and an action acknowledged is its own save (`PastInv`); what the report so far calls applied
  is in RAM unless the unit restarted (`ReportInv`). `LateInv` is an account for the case of one fault:
  every frame on its way but the answer to the question that waits has cost one.
- *VnConfig.* Which request is in flight at each step and what may answer it (`AskInv`); that a run past
  its first answer hears the binary output if it found it (`HearInv`): a binary frame left from before
  can only be the first thing in the inbox, and is consumed before that answer.
- *RawCapture.* Where each frame is (`HomeInv`), which hours are torn (`TornInv`), what the counts of the
  open hour and of the sidecars add up to (`TallyInv`, `SideInv`).
- *Jobs.* Who owns a live row, so that a CancelledError on its way has a shutdown or a waiting delete
  behind it (`OwnedInv`); who may touch a task while a delete waits for it or is past it (`ClaimInv`).
- *Daemon.* The rover is published while it runs and only then (`RoverInv`), only one task holds the
  client (`TaskInv`), a PUT past the lock holds it (`LockInv`), and what .env and the settings name at
  each step of a PUT (`NamesInv`).
- *Database.* What is open in the connection is what the owner's place says, or nobody owns it and the
  thread's queue will end it (`OwnerShape`, `FreeShape`), and what waits for its commit is in the file or
  in the open transaction (`Durable`). The refinement of `AtomicStore` follows: a commit adds the units
  of the open transaction at once, every other step stutters.
- *Sampler.* The minutes that may be behind their rows are the one in progress, the one an epoch is about
  to enter, and those of failed writes (`SamplerInv`); the retention assumption is what keeps a row from
  outliving its aggregate.
- *Points.* Taken epochs precede the queue and the queue is in order (`InOrder`); what a collection has
  taken and whether its point is stored at each step of its save (`Collecting`, `Stored`); the row that
  waits for the database is of the current request and as asked (`Saving`), and the current request is
  not among the cancelled ones while it collects or saves (`Cancelled`).
- *Backup.* What each rename of a restore has made certain for the next (`RestoreInv`).
- *Export.* Callers of a directory take turns (`InTurn`), a version is found in its own directory only
  and not before its export moves (`Versions`), what a caller set aside and moved restores what was
  there unless the directory is spoiled (`Recoverable`), and what it ships is what its manifest lists
  (`Shipping`, `Described`). A caller that went on without its thread has spoiled its directory, and the
  manifest is the last a publish moves, so that no export that failed has moved it (`Placing`), nor is
  its manifest in a directory or set aside by another (`Owned`).
- *Ppk.* Inputs found in the directory are kept as they were (`InputsKept`), past the clearing there is
  nothing of another run, and the solution and the track are whole before a summary is begun (`OneRuns`), hours only go, so that those whose sites are read were used
  (`Spliced`), and what a run knows of the sites (`SiteKnown`, `Placed`).
- *BaseMode.* A manager out of step with its receiver is in doubt, in the middle of a write or about to
  be put right (`InStep`); what a task at each stage holds and intends to write.
- *ReceiverConfig.* `HonestInv`: what a readback has found, and what is still under way, is in the
  receiver, and a core key is refused only in a write of its own. `BisectInv`: a key that differed is refused, written, or in
  a half that is still to be written. `SilenceInv`, for a receiver that has every key: no refusal is
  under way, what was written at each step is there, and each key of the verification is known, was not told or is still
  to be asked. `FeatureInv` is an account: the answers under way, and the refusals a probe heard that
  were not its own, are paid for by faults.
- *Receiver.* Who has the configure lock and for which session, what has been said of the outage, and
  that a profile in RAM alone has a writer behind it.
- *Outputs.* What is open is what is written to (`OpenInv`), each sink is written to or due (`DueInv`), and
  what a client has to read follows what it has read (`NoGapInv`).
- *WsHub.* What the subscription ends in is the present state (`BacklogInv`): what a snapshot taken
  behind it will be brought up to.
- *RawLog.* `ClockInv` for the clock and the hours that are over, `FilesInv` for where each frame is, what
  the hasher and the sidecars know of each file, and which marks are kept or in the making; `ListedInv`
  for the listings in use, none of which has an hour whose mark counts.

Action properties follow from the same invariants (`BackoffIsEarned`, `RetriesAreEarned`,
`AnnouncementsStand`, `SurveysUndisturbed`, `FeaturesAreKept`).

Writing the proofs corrected the models where TLC had not needed it: alternatives of a CASE that
overlapped (TLC takes the first, the logic any) are now exclusive, and loops over a list that a
fold or a filter wrote are stated as the set they range over, or by the place of each item in the
result (`Those` of `ReceiverConfig`). It also corrected a property: `FeatureKept` held in TLC because
the instance had one feature, and its proof failed at the second (section 8, two late answers).

Only model-checked:

- all liveness and everything that needs fairness or ENABLED (`CloseEndsConsumer`, `StreamsEnd`,
  `EveryRequestEnds`, `ModeFollows` but for its first part, `ServesAndAnswers`, `SinkComesBack`,
  `ShutdownEnds`, `JobsSettle`, `ServesThenEnds`): out of TLAPS's reach;
- what a fold computes for every input, which needs an induction over data that no installed prover
  can do: `ChunksDoNotMatter` (framing a stream), `ActiveIsTruth` (a handler that folds over the rules), `UploadsFit` (sums over requests),
  `TailFollowsHead` (runs of numbered bytes), `SettingsKept` (a file edited line by line);
- `EpochsWhole`: the stream is a concatenation of recordings (`FlattenSeq`), so that what was read of it,
  and which epochs are due at its end, is again an induction over data.

## 8. Where the code and its text disagree

Five disagreements have a run of their own, each with the line it contradicts (`PROJECT.json`,
findings): `link_two_locks` (the base mode's lock does not make a write's answer its own, since a
configure holds another lock), `jobs_double_delete` (two deletes of one queued job remove a running
one), `receiver_reset` (a factory reset that waited behind the session's configure has its flag
lowered), `ppk_moved_base` (an hour pruned between the splice and the listing hides that the base moved)
and `sink_splice` (flushing a full kernel queue splices two sentences for a reader that has the first
bytes of one).

The models contain more, which the passing runs leave out by their plans or by a condition in the
property, so that the property holds of the rest. Each is reproduced by giving the constant or the
plan the fault named here, if any, and dropping the condition:

- a job directory that cannot be made leaves its row queued until the next start (`jobs.py:303`;
  `mkdir_fails`, the `nodir` clauses of `LiveRowHasOwner` and `JobsSettle`);
- the operator's mark is lost when a power cut leaves the file empty (`rawlog/writer.py:99`;
  `emptied` in `KeepIsHonoured`);
- an hour marked after a listing had it unmarked is deleted all the same, although its PATCH was
  answered: by retention between the listing of its pass and its unlink (`rawlog/retention.py:108`), and by a
  DELETE between the listing it checks the mark in and the thread that unlinks (`web/api/logs.py:454` and `:456`),
  against "a `keep` mark is a deliberate decision and is cleared deliberately" (`web/api/logs.py:445`). In
  `KeepIsHonoured` such a mark counts only from the end of those listings (`marked` and `Listed`; without
  `Listed`, the run fails). The writer may also open the hour between the check and the unlink, and then
  fills a file nothing can reach (`web/api/logs.py:441`; `unlinked`, the frames count as `gone`);
- a PATCH whose thread is overtaken by a rotation writes an old sidecar over the final one
  (`web/api/logs.py:393`; `overtaken` in `CompleteMatchesFile`), and a kill between the frames and the sidecar of `_rotate`
  leaves a complete sidecar with an old hash (`rawlog/writer.py:350`; `torn`);
- a row activated from the command line just before a reconnection is taken for the poll's baseline
  (`base/basemode.py:139`; `plan.drops` in `ActivationLands`), and a poll between the opening of the
  link and the first capabilities applies the row that was active at startup (`basemode.py:288`;
  `~begun` in `SurveyUndisturbed`);
- a lost answer to the stop of a restart is treated as a refusal (`basemode.py:162`; `doubt` in
  `ModeMatchesReceiver`), and so is the mode a restart leaves during an outage (`basemode.py:161`);
- a receiver replaced during an outage is configured in RAM only, and a reapply that finds RAM in
  order does not write flash (`core/receiver.py:510`; `swapped` in `ProfileInFlash`);
- two late answers and a feature the firmware lacks shift its refusals onto the next feature's probe,
  which takes two of them for the firmware's and drops a feature that is there, against the comment "the same NAK on a
  re-ask is the firmware's" (`core/receiver.py:41`; `ThreeFeatures`, `~Known(Optional)` in `FeatureKept`);
- a rover's row stays open when `stop()` cancels its handler inside the insert
  (`base/ntrip_caster.py:472`; `cancelled` in `LeavesNothing`);
- a task cancelled while its BEGIN waits in the thread's queue leaves the transaction open, and the
  writes of others join it until one commits (`store/db.py`, `transaction`; `dangling` in `Database`);
- a restore that falls into the same second as the one before it overwrites the copy kept then
  (`backup.py`, `_keep_previous`; one stamp per restore in `Backup`);
- an export that is cancelled once its moves have begun, or during the clean-up after them, leaves the new
  files in its directory: the worker thread is not stopped (`rinex/export.py:510`), against "a failed or
  cancelled export therefore never touches what `out_dir` already holds" (`rinex/export.py:10`) and "on any
  failure, cancellation included, `out_dir` is left as it was" (`rinex/export.py:687`). `WholeOrUntouched`
  lets a cancelled export be whole; without "cancelled" in that disjunct, the run fails;
- an error while a failed publish is taken back loses files of the earlier export: a put-back that fails is
  passed over and an unlink that fails ends the taking back, and then the staging directory goes with
  what was set aside (`rinex/export.py:490`, `:741`; `MoveFails`). So does a thread that outlives
  `THREAD_DRAIN_S`, or a second cancellation, under the removal of its staging directory (`rinex/export.py:519`;
  `Drain`), and a process that dies in its moves, against the docstring of `_publish` (`:472`). All three
  count as `spoiled`, where `WholeOrUntouched` promises only that an export that failed leaves no manifest;
- while `overwrite` moves, an export's manifest describes files that are not there (`rinex/export.py:485`;
  `Publishing` in `WholeOrUntouched`);
- a cancellation while `_make_stage` runs leaves an empty staging directory, since its name never
  reaches the clean-up (`rinex/export.py:726`; no property reads it, not modelled);
- a PPK run that is cancelled or fails as it writes its summary, or in the report after it, is "failed" and
  has a `summary.json`, cut short if the card was full (`ppk/pipeline.py:1231`; `StepWrites` and `Fails` in
  `Ppk`, `TrackIsItsOwn` asks for a whole one only of a run that is done);
- a refused `_clear_outputs` has already removed the names before the one it refused
  (`ppk/pipeline.py`; outcome "refused" in `Ppk`, as is a clearing that fails, `ClearFails`);
- a point that was committed and could not be read back is reported as not saved (`rover/points.py:346`);
- an SBG run cut by a drop does not mark what it had already applied to RAM, and a stalled
  SAVE_SETTINGS may go out after its run was given up (`rover/drivers/sbg/config.py`); VectorNav changes
  that were applied and not saved are only noted (`rover/drivers/vectornav/config.py`);
- an upload cancelled while its thread makes the folder, or checks the card, leaves a reservation for
  the life of the process (`web/api/ppk.py:408`, `:347`; `left` in `UploadsFit`); one that takes longer than
  `STALE_PART_S` is pruned by the next one's start and refused when it is whole (`:374`; folder "gone");
- a sentence that ends one byte past `NMEA_MAX_LEN` is found in one piece and not in two, although
  the framer promises any chunking (`core/frames.py:141`, `:228`; `OnTheBrink` in `Framer`);
- the `values` page posted straight back is not the no-op `docs/api.md:125` says it is when `.env` holds
  a pending change: the page shows the running values, and the pending ones are written over
  (`web/api/config.py:306`).

## 9. What is not modelled, and why

- Data: checksums beyond their shape, RTCM, UBX and NMEA fields, coordinates, averages, file formats,
  headers, option files. A frame is its number, a site its identity; whether a decoder is right is a
  question for its unit tests. This leaves out `core/geo.py`, the adapters and parsers of `rover/drivers/`,
  most of `rinex/` and `ppk/` that reads or writes text, and the fields of `core/statestore.py`.
- Sequential code without state of its own: `cli.py`, `doctor.py`, `config.py`, read-only endpoints. A
  command that changes state runs the code of a modelled component.
- Outside the process: the browser's pages, the ROS 2 bridge, `convbin`, `rnx2rtkp`, SQLite, the kernel.
  The last four appear by what the code relies on.
- Time is order and timeouts, never durations; races that depend on how long something takes are
  modelled as if every order were possible, except where a comment says which deadline excludes one.
- Parts of modelled components that are left out are named in `PROJECT.json`, in the note of each
  component with status `partly`.
