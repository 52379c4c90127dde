# PlayOutVue: specifications of the playout logic

PlayOutVue is a broadcast playout application: a Vue frontend in a Tauri shell,
a Rust backend, and a CasparCG server that renders the picture, either a stock
build or the project's own fork. What must never go wrong is the program
channel: the right clip is on air, its successor follows at its end, the
operator's last request wins, and after a failure the channel comes back. This
directory specifies the parts that decide that, model-checks them with TLC and
proves theorems about them with TLAPS.

    tlc -config MCPlaybackState.cfg MCPlaybackState      # a run; the others alike
    tlapm PlaybackStateProofs.tla                        # the proofs of a module;
        # also TransportProofs, ForkProofs, AmcpClientProofs,
        # SupervisorProofs, RecoveryProofs, IngestorProofs, ServicesProofs

`PROJECT.json` lists the runs, the source lines every definition stands for,
the mutants that show each property can fail, the hazards and the finding.

## 1. The system

### Parts, state and interactions

| part | state it keeps | operations | module |
|---|---|---|---|
| Rust playback state, `caspar.rs` | registration, gate, fences, position tracking, latches | register, pause, clear, path and time samples, watchdog | `PlaybackState`, `PlayoutRequests` |
| playout service and dispatch, `services/caspar.ts`, `lib/playoutDispatch.ts`, `lib/endGuard.ts` | token, current key, armed keys, preload and advance flags, skip counter, queue | take, play, stop, refreshQueue, advanceNext, preloads, end guard | `Transport` |
| engine-loss recovery, `services/caspar.ts`, `lib/engineRecovery.ts` | loss, epoch, probe and resume timers, connection, graphics flags | markDisconnected, process reports, handshake, outage, plan, resume | `EngineRecovery` |
| process supervisor, `caspar_process.rs` | child, adopted pid, watchdogs, back-off, breaker, stop flag | start, stop, restart, poll, adopt, crash handling | `Supervisor` |
| AMCP client, `amcp.rs` | worker, socket, bounded channel | send, reconnect, respawn, framing | `AmcpClient` |
| fork event cursor, `caspar_fork.rs` | instance, cursor, pending events, fetch flag | set_fork, observe, drain, apply_fetched | `ForkEvents` |
| fork queue, `lib/forkQueue.ts` and `runForkSync` | clips queued by tag, what is on air | plan, edits guarded by `EXPECT`, takes, ends, fallback | `ForkQueue` |
| OSC listener, `caspar.rs` | socket, task and watchdog handles | configure, stop | `OscListener` |
| relaunch recovery, `recovery.rs`, `atomic_fs.rs`, `lib.rs` | checkpoint, session journal, watchdog of the page | boot, checkpoint, exit, relaunch, pong, reload | `Recovery` |
| media scanner, index, cache, sidecars, `scanner.rs`, `media_index.rs`, `db.rs`, `transcoder_sidecar.rs` | index file, cache rows, probe flag | scan, probe, save trim, verify | `MediaStore` |
| clip aliases, `caspar.rs` | manifest, alias files | ensure alias, collect | `ClipAliases` |
| audio peaks, `audio_peaks.rs`, `useTrimAudio.ts` | memory and disk cache, active scan, cancel flags | request, cancel, close | `AudioPeaks` |
| media root and paths, `media_root.rs`, `caspar.rs` | advertised root, marker, local mapping | verify root, resolve a path | `MediaPaths` |
| ingestor client, `ingestor_api.rs` | rejected-token flag | 22 commands, paging, heartbeat | `Ingestor` |
| readiness, `ingestor_api.rs` | none | strict predicate and its two appliers | `Readiness` |
| engine configuration, `caspar_config.rs`, `caspar_config_patch.rs`, `media_root.rs` | the file, its backups | load, saves, wizard, merge, path repair | `EngineConfig` |

The rest (coordinator bookkeeping, rundown store, trim arithmetic, HTTP
servers, graphics design, preflight, settings, diagnostics, user interface) is
listed as not modelled in `PROJECT.json` with the reason; section 6 sums up.

The frontend calls Rust by `invoke` and hears of it by events. Rust talks to
CasparCG over AMCP (TCP), hears OSC from it (UDP, loopback only), starts and
watches its process, and rewrites its configuration. The transcoder service
owns the library; its files and sidecars are scanned, its API is called.

### What is hard about it

* The service is single-threaded but gives up control at every `await`. A take,
  a stop, an edit, an automatic advance and two or three preloads are commonly
  in flight together over the same variables. The code defends itself with
  tokens checked after awaits; a check left out shows only in one order of
  answers.
* `LOADBG ... AUTO` makes CasparCG cut by itself when the foreground ends. It
  must be armed neither too early, nor over a background that is about to become
  the foreground, nor be left armed after an edit.
* Rust infers the end of a clip from OSC samples that are lost, late, or belong
  to the clip before, with a watchdog for silence, and must say so once.
* The fork numbers its events and starts again from 1 after a restart; PlayOut
  joins what arrives over OSC with what it fetches over AMCP. Its queue is
  edited while the engine may cut at any moment.
* A lost engine is noticed by four parties (socket, process events, OSC silence,
  heartbeat), in any order, while the operator goes on working and the
  supervisor already starts the next one.
* PlayOut itself dies, hangs or is relaunched between two steps of a checkpoint.
* Scans, probes, takes and exports touch the same files and caches for seconds.

### What correctness means for each part

* Rust playback state: at most one advance for each registration, only for a
  clip seen on air, not before its end, and also when OSC falls silent.
* Transport: the last request stands; frontend, Rust and engine agree on what
  is on air; the background is the successor; no LOADBG at a moment when it
  destroys something; no clip freezes at its end.
* Engine loss: the channel comes back to what the operator, or else the
  schedule, wants; nothing that was not shown is skipped; or the operator is told.
* Supervisor: one engine at most, an operator's stop wins over a pending
  restart, a death is answered by somebody.
* AMCP: a reply belongs to its command, nothing runs twice, everybody is answered.
* Fork: events once and in order, none skipped that the engine still has, no
  restart reported that did not happen; the queue ends up as the rundown says.
* Relaunch: the resume point survives, automatic relaunches are bounded, a hung
  page is dealt with.
* Services: what is cached, aliased, shown or reported is true of the file, the
  asset or the document that is there now, and no writer undoes another.

## 2. Modules

    PlayoutRequests <-- instance -- MCPlaybackState -- extends --> PlaybackState <-- PlaybackStateProofs
    MCTransport   -- extends --> Transport <-- TransportProofs
    MCSupervisor  -- extends --> Supervisor, EngineRecovery
    MCServices    -- extends --> Services <-- ServicesProofs,  instance --> EngineConfig
    Services      -- extends --> ClipAliases,
                     instance --> MediaStore, AudioPeaks, MediaPaths, Readiness, OscListener
    MCForkEvents, MCForkQueue, MCAmcpClient, MCRecovery, MCIngestor -- extend --> the module they name
    ForkEvents, ForkQueue <-- ForkProofs AmcpClient <-- AmcpClientProofs
    Supervisor, EngineRecovery <-- SupervisorProofs
    Recovery <-- RecoveryProofs          Ingestor <-- IngestorProofs

The MC modules only hold the small instances. No `.cfg` replaces a definition.
`MCSupervisor` and `Services` put several parts together: a variable `part`
chooses which one moves, and the others stand still, so that the state space is
the sum of the parts' and not their product. Nothing is lost by it, since the
parts share no state. `MCServices` adds to `Services` the engine's configuration,
whose merge of documents needs a recursive definition. The two parts of
`MCSupervisor` are the two sides of a lost engine. They meet in the process
reports: the engine of `EngineRecovery` dies and boots with the reports that the
watchdogs and starts of `Supervisor` send, or with none when it is not supervised.

### PlaybackState: the Rust playback state

One action per handler of `caspar.rs`. Every handler holds one mutex from its
first read to its last write, so an action is atomic.

| action | code |
|---|---|
| `RegisterPlayback` | `register_playback_internal`: gate, fences, latches reset |
| `SetPaused`, `ClearPlayback`, `ClearPlaybackIfUuid` | the commands of the same names |
| `DetectEngine` | the engine mode changes under the state |
| `PathOsc` | `handle_playback_path_osc`: confirmation, premature switch, switch to the next path |
| `TimeOsc` | `handle_playback_osc`: fork branch, unconfirmed branch, reset window, accepted sample |
| `Watchdog` | one turn of `spawn_playback_watchdog`: deadline, EOF, stalls |
| `Tick`, `OscFreeze` | time passes; the engine goes silent for good |

The environment may send any path or position at any time, which covers lost,
repeated, late and reordered datagrams. Times are ticks, the thresholds are
constants with the code's names, a file stands for the basename that the code
compares. Subtractions saturate (`SatSub`) as in the code. `PlayoutRequests`
gives the registrations the four callers really build.

### Transport: takes, stops, edits, preloads and advances

One *activation* is one asynchronous call in flight: `pc` names the await at
which it stands and an action runs it to the next one. `js` is the module state
of `caspar.ts`. A command takes effect at the engine or in Rust when it is
issued and its answer is a later step, so any other call may run in between.

| action | code |
|---|---|
| `Take`, `Play`, `Stop`, `Edit` | `take`, `play`, `stop`, `refreshQueue` up to the first await |
| `ResolveItem`, `Dispatch`, `SendPlay`, `Played` | `playItemAt`, `playItemWithIntent`, `dispatchPlay` |
| `Refused`, `Retries`, `Fails`, `SkipTimer` | the pre-flight's refusal, `dispatchPlayWithRetry`, the error path, the skip timer |
| `TimedOut`, `ArmNext` | the wait for the first frame and the preload after it |
| `ClaimNext`, `RegisterNext`, `NextRegistered`, `ArmAfterNatural`, `NaturalFails` | `advanceToNext` when the background takes over |
| `GatePreload`, `SendLoadbg`, `Loaded`, `LoadDone` | `preloadNextItemAt`, `dispatchLoadbg` |
| `StopClear`, `StopRelease` | the rest of `stop` |
| `Deliver`, `EndGuard`, `DedupWindowEnds` | event listeners, the end guard, the deduplication window |
| `RustSeesPath`, `RustSeesPosition`, `RustSeesEnd` | PlaybackState reduced to what it tells the frontend |
| `FirstFrame`, `NearEnd`, `ClipEnds` | the program layer of CasparCG (external) |

CasparCG is modelled from how the code uses it: PLAY replaces the foreground and
drops the background, `LOADBG ... AUTO` over a foreground that has not rendered
cuts at once, at the end of a clip an AUTO background takes over, and without
one the last frame stays. Each of these is stated by a comment of `caspar.ts`.
`GateShut` stands for the time gate of a registration: it does not open while the
call that made it tries to play the row, nor in the pause before a retry or a skip.

### EngineRecovery: PlayOut's side of a lost engine

`svc` is the part of the module state of `caspar.ts` that deals with
connections and outages: connected, playing, current key and position, resume
offset, registration, token, epoch, the loss, the probe and resume timers, the
two signs of a dead engine, the phase told to the operator, and what is known of
the station's template. `HandleProcessStateEvent`, `Heartbeat`, `OutageProbe` and
`EvaluateResume` are the four ways to notice a loss; `Handshake`,
`ReconcileGraphicsLayers` and `SynchronizeOnAirState` run `performHandshake` await
by await; `Settled` to `Ends` run `runEngineRecovery`; `Sends`, `Confirmed`,
`Clears` are commands in flight. `TakeRow`, `PlayRow` and `Stop` are the operator.
`EngineDies`, `EngineBoots`, `SlowProbe`, `Blip`, `Plays` are the engine. A command is in one
of three worlds: the socket works, will fail once, or is gone.

### Supervisor: the process

Commands and tasks are activations with a program counter that stops at every
await of `caspar_process.rs`. The process table holds our engine, foreign ones and
orphaned CEF helpers; a start that finds a process adopts it, each child or
adopted pid has its watchdog, a crash runs back-off, the breaker and the check of
the stop flag as separate steps.

### AmcpClient

Calls, the bounded channel, a worker per respawn, a connection per reconnect, and
lines on the wire. `Offer`, `Enqueue`, `Closed`, `Dropped` are `send`; the worker
receives, drains, writes, reads status and body and answers. A disturbance is a
time-out, a late body, a panic or a restart of the engine.

### ForkEvents and ForkQueue

`ForkEvents`: `SetFork`, `Observe`, `Drain`, `Applied` are the changes of
`ForkOscState` under its lock; the actions put them into their tasks, the OSC
listener, every gap fetch and the probe of a handshake. The engine numbers
events, keeps the newest of each kind for its bundles and a short log for
`EVENTS`. Only loopback datagrams are accepted, so they keep their order. The
order in which drained events go out (`InOrder`) is given by their rank, the
number of drained events not after them.

`ForkQueue`: `Plan` is `planForkQueue`; `SyncReads`, `SyncClears`, `SyncQueues`,
`SyncEnds` are one attempt of `syncForkQueue` step by step, with the engine's
answers to `EXPECT` (200, 409, 4xx) between; `OnAir`, `OnFallback`, `Ended`,
`Following` the event handlers; `TakeBegins` to `TakeRefused` a take; `Stop`, `Edit`
and `Arrives` what else triggers a sync.

### OscListener

`Configure`, `Bind`, `Replace`, `Await`, `Start` are one call of
`configure_caspar_osc_listener`: bind the new socket, tell the old task to stop,
wait for it, abort its watchdog, spawn and record.

### Recovery: PlayOut dies and comes back

`Launch` is the boot with journal and brake; `Ask`, `Register`, `Push` a take that
acknowledges the previous checkpoint, registers and tells its context; `Snapshot`
and `Written` the writer thread before and after the rename; `MarkExit`, `Dies`,
`Relaunch` the ends of a session; `Pong`, `Stale`, `Reload`, `StandDown`,
`ReloadFailed` the watchdog of the page.

### The services around playout

* `MediaStore`: index file, cache rows and sidecars of the paths; a job (probe,
  scan, background probe, readiness check, trim save) walks through load and
  save of the index under its lock, fingerprint, ffprobe and row writes, each a
  step, and over the files of a directory in any order. `Hydrate`, `Upsert`,
  `Enrich` and `Profile` are the four operations of `media_index.rs`, each from one
  load to one save; a failing save leaves the old index, and the entry in hand as
  the code leaves it. Copies, sidecars, failing reads and writes and deaths come
  in between.
* `ClipAliases`: `Stat`, `Enter`, `HardLink` or `CopyBegins`/`CopyEnds`, `Save` are a
  take's `ensure_ascii_alias`; `GcReads`, `GcRemoves` the collection by a scan.
  A file's content is a version number, which is also its fingerprint.
* `AudioPeaks`: requests of the panel, the one scan that runs, both caches.
* `MediaPaths`: paths are sequences of segments; `root` verification by the marker
  file and the resolver's attempts in order.
* `Ingestor`: one record per command with its routes, checks, confirmation and
  need of a body; one step sends, one serves (the service, external), one may
  lose or garble, one receives and decides on fall back, next page or result. A
  page is the set of the assets whose place in the listing it covers.
* `Readiness`: the predicate as a table of requirements in the code's order.
* `EngineConfig`: documents are trees of named elements; `Merge` is the patch that
  keeps unknown elements; a save runs backup and write as separate steps that can
  fail, while an operator edits the file by hand.

## 3. Runs

| run | checks | instance |
|---|---|---|
| `playback_state` | type, one advance per registration, confirmations once and in order, advance only when confirmed, gate at the end, never early, a freeze of OSC ends in an advance | 2 rows, 2 files, the requests of the four callers, 4 positions, clock to 6, 2 frontend calls |
| `transport` | the last request stands, all agree on what is on air, LOADBG waits its turn | 3 rows, 2 commands of take, play, stop at any moment |
| `transport_edits` | armed means loaded, the background is the successor | 3 commands of take and edit, 4 resulting orders |
| `transport_failing` | no clip freezes at its end | 2 of 3 rows fail, both recorded too long; 1 command |
| `transport_last_row` | violated: the row on air becomes the last and the old background stays armed | window `last`, 2 commands |
| `fork_events` | events once and in order, only forgotten ones skipped, resets are restarts, catches up | 2 kinds, 3 events, a log of 2, 2 engine instances, 2 fetches |
| `fork_queue` | queue is the window of the rundown, an end is followed, takes stand | 3 rows, one not ready, depth 2, 1 edit, 2 takes, 1 fault |
| `amcp` | a reply is its command's, executed once and in order, every call answered | 3 calls of three reply shapes, 1 slot, 4 workers, 2 connections, 1 disturbance |
| `supervisor` | one engine, stops stand, deaths are answered; channel restored, outages end | 2 processes, 2 tasks, 5 cases; 2 rows of 3 s and four scenarios of losses, blips, slow probes and commands |
| `recovery` | relaunches bounded, resume point kept, hung page handled | 1 row, 4 launches, a journal of 3, threshold 1, 1 reload, 2 takes |
| `ingestor` | answers are true, operator informed | 2 calls at once, 3 of 4 assets in pages of 1, three API generations, 1 loss, 1 change |
| `services` | the given alias is the clip, cache tells of the file, peaks of the open clip, a ready asset plays, one feed, no lost update, configuration outlives commands | seven small instances, see `MCServices` |

The one violated property is a statement of the repository about itself; the
finding quotes it.

### Bounds

* Thresholds are scaled to a few ticks and keep their order (a gap is shorter
  than the watchdog, a stall than the frame-zero stall, the early tolerance than
  a clip). Clips of 3, 4 and 6 ticks let each end rule fire in some behaviour.
* Two frontend calls give a registration, its replacement, and a late sample or
  latch of the first meeting the second. A third would meet the second alike,
  since a registration overwrites all of the state.
* Three rows give a row on air, its successor and another order of the two. Two
  commands make one call supersede another while an automatic advance is a third
  actor; edits get three because a take has to come first.
* `MAX_CONSECUTIVE_SKIPS` is 2 for the code's 3 and `DISPATCH_RETRY_ATTEMPTS` 2
  for 3: the limit is reached and passed, with one repetition fewer.
* Two event kinds and a log of two make an event overwritten in the bundle, and
  one forgotten by the log, within three events.
* A clip of three seconds has a first second (no rewind), a middle, and an end
  that the plan passes over. Two losses make a recovery follow another. A clip is
  at least two seconds long (`PlayoutAssumption`): the plan passes over a shorter one
  whole, and then a row that was never seen is skipped.
* Two processes are the engine that dies and the one started instead, or the one
  that a launcher started; two tasks are two commands or a command and a handler.
* Pages of one asset make a listing of three pages; three generations of the
  service make each fall back happen.
* A journal of three sessions and threshold and reload limits of one are reached
  and passed within four launches.
* Two paths and two contents make a copy, a replacement and a file that comes;
  three commands in two slots let one begin when another has done half its work.
* Three commands to the supervisor let a stop follow another one while the
  engine that the first took is still being ended.

### Windows

Some interleavings are known to break a property, because the code does not
guard against them. A constant `Windows` (`Open` in Recovery and ForkQueue) names them; a
passing run leaves them shut, except `crossing` and `unseen`, which are open in
`transport` (a command in flight when a clip ends, and an end of which Rust saw
no sample). A property that a run checks is claimed under that restriction
only. Opening one in a configuration shows its trace.

Transport
* `last`: the run `transport_last_row`.
* `stopping`: `stop()` clears the layer after its awaits without a look at the
  token; a take made meanwhile is wiped.
* `late`: a superseded dispatch releases the registration of a newer take of the
  same row.
* `skipping`: the skip timer of a failed row advances under whatever token is
  current, so it throws away a take made in its second of delay.
* `busy`: a take keeps the index it found before its awaits and preloads
  `index + 1` of the edited order.
* `slow`: the first-frame timer starts before the dispatch; when that takes
  longer, the background is armed before the first frame.
* `long`: a clip shorter than the advance to it ends while `advanceInFlight` is
  set; its own advance is dropped.
* A take that fails has already claimed key and token: the clip still on air
  freezes at its end. The run `transport_failing` has one command, so that no
  take fails while another clip is on air.

EngineRecovery
* `claimed`: an outage declared while a take is pending records the new row with
  the position of the old one.
* `adopting`: a handshake that asks the engine while a PLAY or CLEAR is in flight
  overwrites the key of the command.
* `unheard`: a stop while disconnected sends no CLEAR; the reconnect adopts the
  clip that was stopped.
* `unnoticed`: a dispatch that fails on a dead socket of an unsupervised engine
  does not mark the connection lost, so a quick restart goes unnoticed.
* `handshaking`: the engine is lost within a handshake; graphics are left as they are.
* `late`: the report of an exit arrives after the new engine answers.
* `fastboot`: the next engine answers while a recovery of the one before is in
  flight; the later recovery returns at once and its loss is dropped.
* That `play()` goes on under the token that is current after its connect is in the
  model without a window. Its token changes while it waits only with a second command or
  one of the races above, and the proof of section 4 shows it harmless otherwise.

Fork
* `gap` (ForkEvents): the engine restarts while events are missing; a pending
  event of the old instance is handed out under a number of the new one.
* `overtaking` (ForkEvents): an overtaken datagram looks like a restart.
* `fence`, `dry`, `retake`, `recut`, `late`, `short` (ForkQueue): a take or stop
  between the last stale check of a sync and its end, a fallback not yet
  reported, a re-take of the row on air while it ends, a cut not yet reported,
  a late medium, and a clip shorter than the handling of the events before it.
* `again` (ForkQueue): a row is stopped and taken again before the report or the
  pending end of its earlier airing is handled. Both airings have the plain tag of
  the row, so the old end is followed as the end of the new one.
  With three takes, `late` alone breaks `QueueIsWindow` and each of the other six
  breaks `TakeStands`.

Services
* `midcopy`, `sidecar` (MediaStore): a file replaced while a job is at work on it,
  and the sidecar of the file before. Either breaks `CacheTellsOfTheFile`; neither
  breaks `NoLostUpdate`. Copies that share a fingerprint share a record; a file
  exported again inherits the trim of its path. A trim saved for a file that no
  probe has seen makes a record without metadata (duration 0), which later probes
  of that content are answered with; it tells of no other file.
* `overtaken`, `legacy`, `unsaved`, `cut` (ClipAliases): an export while a take
  that has the old fingerprint waits for the lock, aliases from before the
  manifest, a manifest that cannot be written, a death while a copy is written.
* `slowstat` (AudioPeaks): a slow stat lets an old request cancel the open clip's
  scan; a cancel that comes during a stat cancels nothing.
* `take`, `second`, `overlap`, `regroup`, `emptied` (EngineConfig): a take between
  the check and the restart of a path repair, two saves within a second (one
  backup), two saves at once, groups of another length (their unknown elements
  go), and a consumers group that held only elements PlayOut does not know.
* `removed` (Ingestor): rows purged while pages are read shift the offset, and a
  row is skipped.
* `overlap` (OscListener): two calls at once leave two watchdogs.

Supervisor and Recovery have theirs in the properties. `OneEngine` counts the
engines that starts which did not overlap have spawned: two overlapping starts
spawn two. `StopStands` is of stops not overlapped by a start in flight, which
undoes them. `AutoRelaunchBounded` is claimed as long as the window of ten
minutes holds no more sessions than the journal, 20; with more of them the brake
forgets crashes. In `ResumePointKept` a take that has acknowledged the previous
checkpoint and not yet pushed its own may lose both, and a twin instance in
monitor mode, which rewrites the session journal, is left out; `failedSpawn` is a
replacement that could not be started although the exit was already marked as
one for recovery. AMCP's `late` bodies are excluded from `ReplyIsOwn`, `slow` and
`panic` from the order of `ExecutedOnceInOrder`.

### Fairness

Only what the runtime or the loops of the code guarantee is assumed, and nothing
of the operator, of losses or of faults.

| module | assumed | why |
|---|---|---|
| `PlaybackState` | `Watchdog`, `Tick` | the watchdog thread loops for ever, time passes; OSC may stay silent. `FreezeEndsInAdvance` is of confirmed clips only: for one never seen the code has no end |
| `Transport` | activations, deliveries, end guard, deduplication timer, OSC, the engine | promises resolve (the invokes have time-outs), timers fire, the event loop delivers, a stock engine sends OSC with each frame and plays on |
| `ForkEvents` | the engine sends, the listener reads and drains, the fetch timer runs; strongly: some fetch is answered and applied, a changed engine is detected | OSC comes every tick; a fetch or probe may be lost any number of times but not always |
| `ForkQueue` | `Work` | every await of the frontend returns and its events are delivered |
| `AmcpClient` | each caller, worker and connection | the runtime polls every task, each wait has a time-out, a received command is executed |
| `Supervisor` | steps of tasks, watchdogs and polls, `Boots`, `HelperEnds` | tokio polls them and the interface asks for the status; an engine that does not die boots, CEF helpers end some time after their engine |
| `EngineRecovery` | `EngineBoots`, `FallsSilent`, `Connection`, `CommandSteps` | somebody starts an engine again, timers and awaits go on, a lost engine is silent |
| `Recovery` | `Watchdog`, `Pong` | the watchdog's timer fires, a page that works answers |
| `Ingestor` | `Heartbeat` | its loop; nothing of the service |

Deadlock is not checked where the system may really stop: when the faults and
commands of the instance are used up the fork queue is in order, the supervisor
is idle, PlayOut has been ended by the operator, or a service has no request.

## 4. Proofs

TLC covers the instances above; TLAPS covers every value of the constants. No
step is assumed, and no theorem rests on a module with a recursive operator.

| theorem | says | assumes |
|---|---|---|
| `TypeCorrect` | `PlaybackState` keeps its types | the named assumptions |
| `OneAdvance` | one advance for each registration | |
| `OrderedConfirmations` | each confirmation once, position never before foreground | |
| `ConfirmedAdvance` | no advance from a clip that was never seen | |
| `GateAtTheEnd` | the gate is at most one tolerance before the end | `CoherentRequests` |
| `NoEarlyAdvance` | no mechanism ends a clip before its end | `CoherentRequests` |
| `LastRequestWins` | the row asked for last is on air until it has had its run; after a stop the layer is empty | windows `stopping`, `skipping` shut |
| `ArmedRowsAreLoaded` | the engine holds every row believed armed | the same and `busy` shut |
| `ChannelAgrees` | service, Rust and engine agree on the row on air | `Orderly`, see below |
| `SuccessorIsLoaded` | the background of the engine is the successor | `Orderly` |
| `PreloadWaits` | no LOADBG cuts at once or destroys what is to come | `Orderly`, window `slow` shut |
| `EventsHandedOnceInOrder` | fork events are handed out once and in order | `Windows = {}` |
| `OnlyForgottenEventsSkipped` | the cursor passes only events the engine's log has lost | `Windows = {}` |
| `ResetOnlyAtRestart` | a reset is told only of a newer engine | `Windows = {}` |
| `QueueIsTheWindow` | the fork's queue ends up as the rundown says, and PlayOut knows what is on air | `Open = {}` |
| `TakeKeepsTheChannel` | no cut or end takes the channel from a take under way | `Open = {}` |
| `NothingTwice` | no AMCP command is executed twice, none that was reported as not sent | `CallsAssumption` |
| `OnceAndInOrder` | and they are executed in the order in which the channel took them | the same |
| `ReplyBelongs` | an answered call has the reply to its own command | the same |
| `NeverTwoEngines` | one engine of ours, unless two starts overlap | `BoundsAssumption` |
| `StopsStand` | after a stop that no start overlaps nothing is relaunched and nothing of ours is left | the same |
| `ChannelIsRestored` | a recovery skips nothing that was not shown; at rest the engine plays what is wished for, or the operator was told | `Windows = {}`, `PlayoutAssumption` |
| `RelaunchesBounded` | automatic relaunches within the window are at most the threshold and one more | `RecoveryAssumption` |
| `ResumePointIsKept` | the resume point survives, and names the row on air | and `RowNames` |
| `AnswersTrue` | what a command reports is what the service did; a listing is whole | window `removed` shut |
| `ReportedAsDone` | the half of it about writes | `IngestorAssumption` |
| `VerdictIsTold` | the flag of a refused token is the last verdict on the present one | the same |
| `AliasIsTheClip` | a given alias holds the clip it was asked for | `Windows = {}` |
| `PeaksAreOfTheOpenClip` | caches answer for the file that is there, only the open clip is scanned | window `slowstat` shut |
| `ReadyAssetsPlay` | with a verified root an asset plays or is refused; both listings judge alike | `PathNames`, `RootsApart` |
| `CacheIsOfTheFile` | rows of the cache and records of the index tell of the file that is there | `StoreNames`, windows `midcopy`, `sidecar` shut |
| `NoUpdateIsLost` | a save of the index undoes nobody's work | `StoreNames` |
| `FeedIsOne` | one listener and one watchdog feed the playback state | window `overlap` shut |

A window assumed shut is one that section 3 describes: the code does not guard
against it, and with it open TLC shows the property violated.

**PlaybackState** (`PlaybackStateProofs`). Thresholds are any naturals that meet
`ThresholdAssumption`; rows, files, requests and the bounds on time and calls are any.

* *Types*: one lemma for each handler. `SatSubType` is the point where the code
  relies on saturating subtraction.
* *Advances and confirmations*: `AdvanceOncePerRegistration` says nothing of the
  latches, so it is not inductive. `LatchInv` adds that each counter of emissions
  is 1 exactly when its latch is set, that the position latch presupposes the
  foreground latch, and the advance latch a confirmed path. Six emitters (path
  switch, position, four fallbacks of the watchdog) then all test the same latch
  before they set it, and registration and clear reset latch and counter together.
* *The gate*: `GateBound` bounds the gate that a registration computes, by
  `SatSubBound` and `SatSubMonotone`; no other handler moves gate or end, and
  `AdvanceAfterGate` shows that every way to advance waits for it.
  `CoherentRequests` says that a trim window is as long as the duration that was
  passed. A row with IN and no OUT whose metadata is wrong breaks it, and then the
  gate does open early.

**Transport** (`TransportProofs`). Rundown, edits, rows that fail, commands and
their number, retries and skips are any. The proofs go in four layers.

* *Effects.* `Is` keeps of the module state the eight fields the arguments need. A
  call is live when it has the present token. `Spent` shows that every step of a
  superseded call is its last one and leaves no trace (`Vanishes`): this is where
  each check of a token in the code is used, and a check left out makes it false.
  The `Live...` lemmas give each step of a live call one of fourteen effects, and
  `Advances` what an advance of the rundown amounts to. What follows reasons over
  effects, never over the code again. `Shapes` says of every call in flight, of
  the registration and of the events on their way that they carry the present
  token or an earlier one.
* *The last request* (`RequestInv`). `LastRequestStands` speaks of settled states.
  While the request has not had its run, its call is the only one that plays
  anything, and either it is on its way, or its row is on air and not yet near
  its end. On its way, nothing may advance the rundown under its name: the end
  guard is clear, no event with its token is pending, and if Rust is already
  registered for the row, the gate is shut. The last part is what a re-take needs,
  when the earlier airing of the same row ends under the new registration.
* *Armed rows* (`ArmedInv`). At most one call is live, a row is believed armed only
  when none is, and then it is the successor and the engine holds it in its
  background or has just cut to it. While a call tries to play a row nothing is
  about to advance the rundown (`Quiet`), else PLAY would drop the background of
  the row that the advance believes armed. `busy` breaks the place of the call in
  the rundown (`AtItsPlace`), from which the row behind it is preloaded.

* *The channel* (`ChannelInv`). The service, Rust and the engine change one after the
  other, so their agreement is an invariant only with all that may be between
  them. `AirInv` distinguishes what the engine can be doing with the clip
  claimed as current: it is on air (`On`); the engine has cut from it to its
  successor and the news is on the way to the service (`Passed`); or its row is
  claimed and registered and the engine will cut to it when the clip before has
  ended (`Awaited`). Each goes with what Rust is registered for, what
  it has told, and what is still to be delivered (`Linked`, `Signalled`, `Closing`,
  `Seen`). `Calls` says of every call at each of its awaits which of the three cases
  it meets, `Backed` that a background is the successor or the row awaited, and
  `OneAdvance` that the end of a clip is answered once. `Framed` adds, for
  `PreloadWaits`, that what the service takes for a first frame is a frame of that row.

`Orderly` is the assumption of the three theorems on the channel: no row fails; the
windows `stopping`, `skipping`, `busy`, `late`, `long` and `last` are shut; and there are no
edits, or else `crossing` and `unseen` are shut and no clip is recorded as longer
than its file. Both runs of a property it is about meet it: `transport` has no edits
and `crossing` and `unseen` open, `transport_edits` has edits and neither. TLC was
asked of each restriction by itself whether it is needed. Without edits, a row that fails,
`stopping`, `late` or `long` makes the parties disagree. With edits so do a failing row,
`stopping`, `late`, `unseen` and a clip recorded too long, `crossing` lets a LOADBG
replace a claimed background, and `busy` and `last` leave a wrong one. `skipping` alone breaks
nothing while no row fails; it is there because `ArmedInv` needs it.

The attempt at the second layer showed that the model let the gate open in the
pause before a retry or a skip; in the code it is measured from the registration.

**ForkEvents** (`ForkProofs`). Event kinds, the length of the engine's log,
events, instances and fetches are any. `EventInv` says: a datagram on its way is of
the running engine and shows all that was not overwritten (`Datagram`), so that
what is pending is of that engine (`Pending`); once the cursor counts that engine's
events it is never ahead of what is still to come (`Abreast`); at most one fetch
is out, its answer holds what the log still has, and a cursor with a hole waits for
it (`Fetching`). `DrainFacts` and `AppliedFacts` state what a drain and a fetch do to
the cursor, `InOrderLists` that the events let go come each once and by their
numbers. `gap` breaks the bond between a pending event and its instance,
`overtaking` the order of datagram and answer.

**ForkQueue** (`ForkProofs`). The rundown, the depth of the queue, the rows not
ready, attempts of a sync, retries of a row, edits, takes and faults are any.
`QueueIsWindow` speaks of moments when nothing is in flight; `QueueInv` says what
holds between.

* *On air.* While no take holds the token and a row is claimed (`Playing`), either the
  engine plays the item PlayOut names and what waits there is the end of what
  PlayOut believes waits, or one cut is reported and not yet handled, and then the
  engine plays the item it names and what waits is the end of PlayOut's list behind it
  (`OnAirOrCut`, `EndOf`, `EndBehind`). An end is reported once and followed once
  (`EndKnown`, `Reports`).
* *A take under way* (`TakeHolds`): nothing reported and not yet handled is of its row,
  so no late report is mistaken for the new airing; its item waits alone and does not cut
  by itself; a row that turns out not ready is found so with nothing left to play.
* *A sync in flight.* While the item it planned behind is on air and its token is the
  present one (`Unmoved`), the queue is exactly the part of its plan done so far
  (`Steps`, `Match`); when either has changed, the engine refuses its edits (`EXPECT`) or
  the next stale check ends it, and `Current` says that the queue is then
  asked to be synced again. What an undisturbed sync leaves is what is wanted, as long as
  no edit has asked for another. This is where the proof uses each `EXPECT` and each
  stale check of the code (`SyncClearsKeeps`, `SyncQueuesKeeps`, `SyncEndsKeeps`).
* *Names* (`Items`, `Distinct`): a take numbers its tag by the token, above every tag in
  use, a sync names the rows behind the kept ones by their plain tags, and the
  rows wanted are distinct.

The lemmas on operators are the two facts the code's `slice` and `filter` give
for nothing: `NextRowsAre` (the rows behind one come each once) by `Ranking`, that numbers
rank the members of a finite set, and `PlanIs`, what a plan keeps and names. There is one lemma
for each action (`CutKeeps` to `ArrivesKeeps`). The proof found a window that two takes in the run
did not reach: `again` of section 3. Reports name a tag, plain tags are
used again, and a report of the earlier airing of a row is then taken for one of the new.

**Services** (`ServicesProofs`). Each of the parts has an invariant of its own, and a
step of one leaves the others' alone.

*Aliases.* Any number of clips, takes, exports and scans. `GivenAliasIsTheClip` speaks of takes that have their answer; what makes
it true is what happened under the lock. `AliasInv` says: the lock is held from
the look at the manifest to its saving; the manifest vouches (an entry equal to
the source's fingerprint means that the alias holds the source); it never does
for an alias that is being made; an alias without an entry is one being made, so
that the code's branch that adopts an unknown alias as it is never meets one; a
scan's list of stale entries has no current one. The `linked` part is needed for
an export in place, which changes the alias with its source. Each window named
in section 3 falsifies one of these parts.

*Peaks.* Clips, requests, exports, closes and the sizes of both caches are any.
An entry of a cache carries the version it was made from, and an export raises the
version, so an entry that is found is true; what needs an argument is an entry
still being made. `PeaksInv` says: a request that reads a file knows the version it
looked up, and what it stores is of that version (`Reading`); one request at a time
is past its look at the file (`OneLooks`, which `slowstat` breaks); a scan that
runs is the registered one (`Registered`), and if it has not been cancelled, its
clip is open in the panel.

*Paths.* Names, folders, roots, their spellings, drives, what the folders hold and
every answer of the transcoder are any. `PathInv` says: while the status is
verified, the local root leads to the registry (`Leads`), which is what the marker
file is for; a media path that matches is the same folder, whatever its
spelling (`SameFolder`); an answer of the transcoder names its own root. The resolver
then compares prefixes of paths. `RootsApart`, no root of this PC lies in another,
is what makes the rest of a path below a root unambiguous. Paths are sequences, so
no induction over their text is needed.

*Readiness.* The two appliers compute the rate, the verdict and the colour by
different expressions; that they agree is shown by cases on the predicate.

*The store.* Files, contents, trims, jobs, faults and deaths are any, and what the
paths hold at first. Assumed is that the paths are finitely many and that the mark
of nothing names no path, content or job (`StoreNames`). `StoreInv` is what the
lock gives: a job between its load and its save holds the lock, and what it loaded
is still what is stored. Each of the four operations leaves of what it loaded all,
all and one record, or all but one record, which keeps its fingerprint (`Touches`,
one lemma per operation); together that is `NoUpdateIsLost`, with every window open.
`TellsInv` follows metadata: what a job has in hand was read of the file it is at
or of a record with that file's fingerprint (`Tells`), its fingerprint is the one of
the file, no row is stamped later than its file, and a sidecar lies beside the file
it was written for. `midcopy` breaks the first two and `sidecar` the last. Rows are
trusted by their stamp, so a stamp that changes with every copy is part of the model.

*The OSC listener.* `OscInv` follows the one call that may be under way (`OneCall`,
which `overlap` breaks): while it holds the old handles, the old listener either runs or
has been told to stop and waited for, and the record names what runs (`Fed`)
or nothing does (`NoneRuns`).

**AmcpClient.** Calls, their replies, workers, connections, slots and faults are
any. One assumption is technical: the marks of an answer that no engine gave
carry a name that is not the name of a call. All in `AmcpClientProofs`, in three
parts, since the theorems need different facts.

* *Once*: `AtMostOnce` speaks of what is executed and says
  nothing of what is still under way. `PlaceInv` says where a command is: with its
  caller, in one channel, in the hand of one worker, or once at the engine, be it
  received or executed. It moves on only by the step that takes it from the place
  before. A lost worker turns the calls it held into `dropped` ones, which are
  answered as lost and not offered again; only an offer that found the channel
  closed is repeated. That is why the respawn in `send` does no harm.
* *Order*: `OrderInv` lines the commands up: executed, received
  by the engine, in hand, in the channel, each part in the order of the channel
  and before the next. What makes them one line is that there is one worker and
  one connection with anything on it. A lost worker breaks the former; a status
  line that is late on a connection that works breaks the latter, since its
  command is then left behind while the next one goes out on a new connection.
* *Replies*: AMCP has no request numbers. `ReplyInv` says that
  a connection is of one worker and that on it is that worker's request, or else
  what is left of the reply to it, or nothing after a restart of the engine; and
  that between two requests it is empty. `FrameIsWhole` is the heart of it: by
  the rules of `read_framed_reply`, a beginning of a reply that is taken as complete
  is the whole reply, so no line of it is left for the next command. A body that
  comes after `READ_GAP_TIMEOUT` is just such a line; the property excludes it.

**Supervisor** (`SupervisorProofs`). The code keeps no rule "one child": a start
asks the process table and then spawns. `OneInv` is what that gives: unless two
starts have been between probe and spawn together, nobody is about to spawn while
an engine of ours runs. Stops, crash handlers, adoptions and deaths only make
engines fewer, so the proof is about the probe and the spawn. `StopInv` says what
a stop leaves behind: the mark that turns relaunches away stays until somebody
starts, no start is in flight, the child has been taken, and an engine still there
is one a stop holds in its hand. With two stops at once the second finds no
child and is done while the first still waits for the engine to die; `StopStands`
therefore excepts an engine that another stop is ending (`Ending`), which the
proof asked for and the run then confirmed.

**EngineRecovery** (second part of `SupervisorProofs`). Rows, lengths of clips from two
seconds on, and the numbers of losses, blips, slow probes and commands are any.
`ChannelRestored` speaks of moments at rest, when no command, handshake or loss is
pending; `PlayoutInv` says what holds between, in this order:

* *What is under way.* `Shape` ties a recovery to its call. `Engine` says that an engine
  that is down plays nothing, and where something will tell PlayOut that its
  socket has gone.
* *Who commands the channel.* By its token a command of the operator (`OperatorOwns`,
  `StopOwns`), or by its token or epoch a recovery (`RecoveryOwns`, `Waits`), and never two
  of them. Each check of a token or an epoch in the code is used here.
* *What PlayOut believes.* The clip it takes to be on air is the one that is
  wished for and no other plays (`OnAirIsWished`); where it takes nothing to be, nothing
  plays, unless a handshake is about to adopt the clip wished for (`OffIsOff`), and for
  that there is a reason (`OffIsMeant`): the operator stopped, a loss or a recovery is
  pending, or the operator was told.
* *That a loss is noticed.* While PlayOut believes in a clip that is gone, a report,
  a broken socket, the probe or a handshake will tell (`GoneIsNoticed`); a loss waits for a
  handshake (`LossWaits`); an exit once seen is forgotten by the handshake, and so does not
  condemn the next engine (`ExitSeen`).
* *Positions.* The one a loss records was reached by that row (`PositionReached`), and what a
  plan skips follows from it alone (`PlanIs`).

One lemma for each action. Each window of section 3 falsifies a part. An eighth one that
the run had kept shut, the token of `play()`, turned out not to be needed.

**Recovery** (`RecoveryProofs`). The journal that the brake reads is written by the
sessions it counts. `RelaunchInv` says: it holds the last sessions in the order of
their launches; the running one is recorded as unclean until it ends otherwise; a
session that an automatic relaunch followed stays unclean. So every relaunch
within the window but the first is the successor of a crash on record
(`CrashesCount`, by an injection), and the brake, which counts crashes, bounds
relaunches. `CheckpointInv` follows a resume point from the context in memory
through the writer to the disk: an empty point is written only after this session
has handled the earlier one (`WriteHandled`); the registration and the context name
one row, except between a take's registration and its push (`OnAirKnown`); a
point on disk, or on its way there, is of the row in memory and not ahead of what
has been played, unless the context has changed since (`WriteFollows`).
`RowNames` keeps the constants that mark "no row" and "no write" apart from rows.

**Ingestor** (`IngestorProofs`). Assets, pages, calls at a time, losses, outages and
changes of the token are any. `IngestorInv` says of each call in progress what has
been done and seen so far: a write stays at its first route and has been made
exactly as often as its answer tells (`WriteSoFar`), the token it carried is the one
judged (`TokenSoFar`), and the assets that stayed in the list and were not collected
yet stand behind the offset (`ListSoFar`). For a listing, `PageOf` counts the
places a page covers, and `PlaceGrows` shows that assets which come to be listed
move the others back and none forward. A removal moves them forward, which is the
window `removed`.

Liveness stays with TLC, and so does what needs recursive definitions: the provers
do not reach them.

## 5. Only model-checked

Everything but the theorems of section 4 holds for the instances of section 3 and is
not proved:

* all liveness: the answer to a death, the hung page, that every AMCP call is
  answered, that the cursor catches up, that no clip freezes, that an outage ends,
  that an end of the fork's queue is followed;
* EngineConfig, since `Merge` descends into a tree and is recursive;
* the type invariants of the modules other than `PlaybackState`, beyond the
  parts of them that the invariants of section 4 include.

## 6. Not modelled

* Transport: live rows and the live layer, pause and cue, trims of a row already
  preloaded and the fingerprint that compares preloads, the back-off of a row
  that is not ready, duration refresh, as-run history. A `playing` row is played
  from its start. The transport is on a stock engine; on the fork the queue
  replaces the preloads (`ForkQueue`). The two are not composed with
  `EngineRecovery`, which has its own, smaller view of a take.
* ForkEvents: the order of two emissions once the cursor's lock is released.
* EngineRecovery: a command of the operator given while another is in flight (that is
  Transport's subject), live sources, the crawl, the fork's adoption.
* ForkQueue: live rows, graphics actions, adoption after a relaunch.
* AmcpClient: the text of commands. A comment (`amcp.rs`, at the worker) says that
  the worker exits and is respawned after a transport failure; it stays and
  reconnects. The model follows the code.
* Recovery: what `relaunchRecovery.ts` offers to resume, apart from its
  acknowledgement of the checkpoint; as-run.
* MediaStore: how ffprobe's output is parsed; an index that cannot be found is an
  empty one, as in `load_index`.
* MediaPaths: the rewriting of separators and case. Nothing is claimed of rows
  that are not registry assets, which the resolver's attempts (a prefix compared
  as text, a file of the same name, what follows "media") may lead to another file.
* Readiness: the version 1 listing and the recycle bin, which do not apply the
  predicate although a comment calls it the one predicate.
* Ingestor: an answer of a call with the old token that arrives after the new one
  was set clears the rejected flag as the code does; no property is about that.
* ForkQueue and Transport: a first-frame event names a row and not an airing.
  `LoadbgWaitsItsTurn` is stated for first airings.
* Whole parts: the coordinator's own bookkeeping (only its generation fences
  anything, and Transport has it), trim arithmetic and list commands (pure, with
  unit tests), the rundown and library stores, rundown files, layer reservation,
  the studio and media servers, preview, settings, diagnostics, preflight, look-ahead,
  templates and Vue components. `PROJECT.json` gives the reason for each.

## 7. Plan

Done: the Rust playback state with its proofs, the transport with its windows,
the fork's events and queue, the AMCP client, the supervisor, both recoveries,
the services, and the proofs of section 4. In this order comes next:

1. Transport: live rows and the live layer, pause, preload fingerprints.
2. The fork's adoption after a relaunch, in `ForkQueue` with `Recovery`.
3. An abstract channel (what is on air follows the rundown and the operator)
   that Transport, ForkQueue and EngineRecovery each implement.
