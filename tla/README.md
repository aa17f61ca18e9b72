# A formal model of the Baiamonte eufy bridge

TLA+ specifications, TLC configurations and TLAPS proofs about
`drahamin/baiamonte-eufy-bridge`: a Home Assistant integration
(`src/custom_components/eufy_security`) that talks over one WebSocket to a
vendored bridge, and an add-on (`src/eufy-mega-ws`) with helpers of its own.
`PROJECT.json` maps every definition to its source lines.

Run a configuration with `tlc -config MCEventQueue.cfg MCEventQueue` and the
proofs of a component with, for instance, `tlapm EventQueueProofs.tla`.

## 1. Inventory

The integration runs on one asyncio loop, so a step of the model is what the
code does between two awaits. Disk writes and image decoding run in threads. The
hard behaviours are what happens to state that is read before an await and used
after it, and the order in which the bridge's frames, timers, cancelled tasks and
their callbacks reach the same object.

| Component | State it keeps | Operations | Interacts with | Hard behaviour | Correct when |
|---|---|---|---|---|---|
| Event queue and worker (`web_socket_client.py:120-156`) | `_pending_events`, `_event_ready`, the worker task | `_queue_event`, `_process_events` | fed by the receive loop, calls the message callback | coalescing by key, overflow, park and wake-up | the newest state is kept and never overtaken, the queue is bounded, the worker never sleeps on work |
| Bridge connection (`web_socket_client.py:37-120,158-175`, `api_client.py:655-800`) | socket, receive task, error callback, `_result_futures` | connect, send with a 30 s timer, receive, close callback, disconnect | coordinator (`_on_error`), event queue | late replies, close during a send, disconnect while the callback is scheduled | every call ends, once, with its own answer; a lost connection is reported; a retired client is silent |
| Inventory loading and dispatch (`api_client.py:88-219,697-739`) | `_devices`, `_stations`, `_pending_product_events`, captcha and MFA futures | `_set_products`, `_get_products`, `_handle_event`, `_process_driver_event` | event worker, bridge, config flow | events while products are built, two futures that events and timers settle | setup ends, products show the newest state, no event stops the worker |
| HomeBase Pro session (`pro-events/pro_event_helper.py`) | phase, transactions, timers, cover window, `done`, `error` | roster, AIC and history queries, covers, the consumer | HomeBase over WebRTC, budget of `main()` | late and duplicate replies, four kinds of timer, cancellation at the end | each query sent once, records match the mode reported, covers never hold the events back |
| Snapshot cache (`coordinator.py:828-1120`, `snapshot.py`, `camera.py`) | product picture, dirty flag, writer task, two files per camera | picture events, refresh, capture, writer, restore | cameras, evidence index, disk | three unsynchronised sources, a thread beside the loop, a crash between two renames | success of a capture means it is durable, and a restart shows it |
| Camera stream (`camera.py:147-241,348-510`, `eufy_security_api/camera.py:100-131,183-261`) | stream status and provider, viewers, linger task and generation, checker task | start, stop, viewers, linger, capture | bridge calls, event worker | linger against a new viewer, checker against the user's stop | a source in use is not stopped; an unused one is |
| Station queries, recording downloads, pin checks (`product.py:119-345`, `eufy_security_api/camera.py:133-181`) | one future per kind of query, one for pin checks, the recording's bytes | query, download, unlock; an event settles them | event queue, bridge calls | chunks are events and share a key; replies carry no request id; a pin future is settled without a question | an answer belongs to its question and is whole; a busy station has a call that runs; the safe opens on a fresh verdict |
| Coordinator life cycle (`coordinator.py:63-145,1528-1593`, `__init__.py:165-208`) | `_reload_pending`, the API client, recovery and maintenance tasks | setup, `initialize`, `_on_error`, `_async_reload`, unload, `disconnect` | connection, Home Assistant's setup lock and retry | a loss while a reload is pending or running, failed setups that keep their client, awaits in `disconnect` | a lost connection always leads to a new setup; a retired coordinator does no work |
| Person recovery (`coordinator.py:162-239`) | pending cameras, last reads, records seen, ten-second pulse | motion, record read, pulse | station queries, `disconnect` | reads that others' or late answers settle, two reads of a camera within seconds, a task that dies | a record pulses its own camera, once; one read at a time |
| Evidence search and snapshot refresh (`coordinator.py:300-570,634-886,1104-1249`, `evidence.py`, `snapshot.py:35-76`) | `_evidence_records` (2000 raw rows), `_pro_evidence_lock`, the bridge's helper of a Pro, `_snapshot_refresh_lock`, `_last_snapshot_event_ids` | search, join, merge, choose an event per camera, download, publish | account index, HomeBase Pro, HomeBases, cameras | overlapping and abandoned searches, partial failure, rows dropped between result and download, cameras named alike | nothing delivered is lost and failures are told; a camera shows its own newest image with its own time |
| Recognition pictures, recordings for playback (`coordinator.py:1262-1525`) | two caches of media | fetch, remux, keep | evidence search, station downloads | caches at their limit | the bytes returned are the event's |
| Dashboard server (`eufy-mega-ws/dashboard/server.cjs`) | client of the bridge, cached status | poll, serve | bridge | reconnect | stale status is marked |
| Views, entities, config flow, panel, start script, SCTP oracle, transition summary | none or a form | requests, one entity per property | coordinator | - | - |
| Vendored bridge (`eufy-mega-ws/vendor`) | third-party | - | the environment | - | - |

## 2. Modules

| Module | Models | State and actions against the code |
|---|---|---|
| `StateMirror` | abstract: what a slot of state shows is a report, never an older one after a newer | - |
| `EventQueue` | queue and worker | `pending` is `_pending_events` (place = order in the dict), `QueueEvent` is `_queue_event` with its overflow, `HandleEvent` one `popitem`, callback and `sleep(0)`, `WorkerIdles` the `clear()`/`wait()` that run with no await between them |
| `RequestReply` | abstract: a call is settled once, by its own reply or a failure | - |
| `BridgeConnection` | `EXTENDS EventQueue`: receive loop, close callback, `disconnect`, correlated requests | `future` and `registered` are `_result_futures`; `Issue`/`SendReturns`/`CallerResumes` are the three segments of `_send_message_get_response`; `TimerFires` its `wait_for`; `OnClose` the receive task's done callback; `DisconnectStarts`/`DisconnectEnds` are `disconnect()` before and after its gather |
| `BridgeBootstrap` | `EXTENDS EventQueue`: `_set_products`, the interactive check, `_get_products`, deferral and replay | `HandleEvent` is replaced by the real callback: `DeferEvent`, `DispatchEvent`, `DriverEvent` |
| `ProEventCollector` | `EventCollector`, `delayed_query`, `consume_frames`, the end of `run()` | one action per kind of frame in `add_response`, one per timer, one per way the session ends; a frame arrives in the step that takes it, in any phase, in any order and any number of times |
| `SnapshotCache` | picture, refresh, capture, writer thread, crash, restore, of one camera | `mem` is the product, `disk` the two files, `writer` the task and where its thread is |
| `CameraStream` | the P2P source of one camera: `start_livestream`, `stop_livestream`, the relay and its checker, viewers, linger, still capture | `call[t]` is where each task (service call, linger, capture, checkers) awaits the bridge, `retry` the one flag of `P2PStreamer`, `Claimed` records a claim of a source that goes on lingering, `session` and `receive` are the bridge's |
| `StationRequests` | one station and camera: database queries, image and recording downloads, pin checks, from call to event | `slot` holds the `_..._future` attributes, `future` and `answer` the futures, `awaits` the future a call waits for (`unlock` reads the attribute only after the acknowledgement); `Begin`, `Acknowledge`, `Resume` and `GiveUp` are the segments of a call between its awaits, `Release` the `finally`; `queue` is the event queue with its coalescing, `HandleEvent` `process_event` |
| `PersonRecovery` | `EXTENDS StationRequests`: motion, the recovery's task, its reads, the pulse | `pending`, `recent` and `seen` are the three containers, `popped` the camera `_recover_record_people` is at (None: the task is done), `reading` the local query it awaits; a read is `Begin`, `GiveUp`, `Resume` or `BridgeRefuses` of `StationRequests` with what the task does next |
| `CoordinatorLifecycle` | the config entry and its coordinators | `entry` and `lock` are Home Assistant's, `phase` where the task that holds the lock awaits, `reload[c]` where `_async_reload` of coordinator `c` is, `OnError` the error callback, `DisconnectBegins`, `DisconnectDaily`, `DisconnectApi` the segments of `disconnect()` between its awaits |
| `EvidenceSearch` | `search_evidence` with the joining and merging of `evidence.py` and the table of raw rows | a row is a description of a recording with what identifies it; `task[w][s]` is `query_station` of search `w` for station `s`, `proLock` and `LockFree` the coordinator's Pro lock and the search's own semaphore, `helper` the process the bridge runs for a Pro and `answer` its event on the way (`HelperEnds`, `AnswerIsDropped`), `Refused` both limits of one query at a time, `MergeRow` the loop over `merged`, `Remember` `_remember_evidence` |
| `EvidenceRefresh` | `EXTENDS EvidenceSearch`: `refresh_latest_snapshots` | `Chosen` is the order serial, channel, name, only doorbell; `DownloadBegins`/`DownloadEnds`/`DownloadIsRefused` are `download_thumbnail`, `RefreshApplies` the loop over the results |
| `EventQueueProofs` | theorems about `EventQueue` by itself | - |
| `BridgeProofs` | theorems about `BridgeConnection` and `BridgeBootstrap`, each with the queue it extends | - |
| `ProEventCollectorProofs`, `SnapshotCacheProofs`, `CameraStreamProofs`, `CoordinatorLifecycleProofs` | theorems about the module each is named after | - |
| `StationProofs` | theorems about `StationRequests` and `PersonRecovery` | - |
| `EvidenceProofs` | theorems about `EvidenceSearch` and `EvidenceRefresh` | - |

The `MC*` modules give the constants values. A definition marked *defect* beside
the code's own is a plausible bug: replacing the real one by it must break the
property named in `PROJECT.json`, which shows that the property depends on the code.

Composition: `BridgeConnection` and `BridgeBootstrap` are `EventQueue` with a
transport and with a callback. They are not composed with each other: what a lost
connection does to loading is the single step `ConnectFails`, and every request of
`BridgeBootstrap` is one that `BridgeConnection` shows to end. `EvidenceRefresh` is
`EvidenceSearch` with one of its searches owned by the refresh, `PersonRecovery` is
`StationRequests` with some of its queries made by the recovery. `StationRequests`
has a queue of its own instead of `EventQueue`'s: what is lost there is the content
of the events, which `EventQueue` abstracts to stamps of one state.

## 3. Runs

| Run | Question | Bounds |
|---|---|---|
| `event_queue` | Is the newest state kept, in order, bounded, and never stranded? | three keys, two of them one slot; room for two; five frames |
| `connection` | Does every call end, once, with its own answer, whatever is late, lost or closing? Is a loss reported and a retired client silent? | two calls, two keys, room for one event, one frame |
| `bootstrap` | Do stations show the newest state after loading? Does setup end? | two devices behind a semaphore of one, one station, both driver events, queue and deferral list of two, three frames |
| `event_worker` | Does the worker survive every event? Finding 1 | the same |
| `pro_collector` | Are queries asked once, records labelled truthfully, covers never in the way? | two covers, window of one; every reply any number of times, in any order |
| `snapshots` | Is a confirmed capture durable, restored and never lost? Does a picture reach the disk? | two frames, two crashes, one failed write |
| `camera_stream` | Does the delayed stop spare a source claimed while it lingered, in whatever order explicit requests, probes, captures, checkers and events come? | two viewers, two start commands, one command on its way |
| `camera_stopped` | Does a camera that was stopped stay stopped? Finding 2 | the same, two commands on their way |
| `station_requests` | Does a busy station have a call that runs? Is an image of the file asked for? Does the safe open only on a verdict of its own time? Does a record pulse its own camera, once? | any two of three reads of the recovery, a user's local query, an image, a recording and two pin checks, beside another client's image; recordings of two chunks, room for one; two cameras, one pending, two records |
| `recording_whole` | Does a delivered recording hold all its chunks? Finding 3 | one recording of two chunks |
| `lifecycle` | Does every loss lead to a new setup, whatever reloads are pending? Is a retired coordinator quiet? | four coordinators alive at a time, a user's and Home Assistant's own task |
| `evidence` | Is nothing lost or hidden by a search? Is a Pro refused only behind a helper whose query was given up? Is a camera offered its own newest image and the image dated by its recording? | two searches, a Pro and a HomeBase, two cameras, six rows of which three describe one recording, three raw rows kept, results of three |

Why the bounds are enough: every limit of the code is kept as a constant and set
so small that it is reached (`Cap`, `DeferCap`, `Width`, `InFlight`); the number of
frames exceeds the queue's room by at least one wherever overflow is the question;
two calls are enough for a reply to reach the wrong one; two crashes are enough
for a restart of a restart; two searches are enough to share a lock, a station and
the table, and three kept rows are fewer than one search can remember, so rows of a
result are dropped before their images are fetched.
`MaxEvents`, `MaxFrames`, `MaxCrashes`, `MaxFailures`, `MaxInbox`,
`MaxCalls`, `Chunks`, `MaxSearches` and, in `CameraStream`, the number of `Checker`s bound
what the environment does and nothing in the code. In `CoordinatorLifecycle`
names of coordinators are used again when nothing is left of the earlier one;
`NamesSuffice` keeps outages and failures back while fewer than two names are free.
Two start commands let a
session be restarted by the checker of the one before, or by a capture's second
attempt.
`snapshots` also passes with three frames, in minutes instead of seconds. In
`station_requests` two calls are enough for an answer that was given up to settle the
next read, and for two reads of one camera.
`CHECK_DEADLOCK FALSE` is set everywhere: each behaviour is finite by its bounds,
and a session, a client or a setup does end.

### Fairness

- The event loop runs tasks and callbacks that are ready, and its timers fire:
  weak fairness on the worker, on resumptions, on timer actions.
- A send held back by backpressure returns or raises: the client is created with
  a heartbeat of 60 seconds, which ends a dead transport.
- A thread given to the executor ends (`SnapshotCache`).
- `CoordinatorLifecycle`: the task that holds the setup lock goes on, close
  callbacks and the five-second sleep end, Home Assistant gives the lock to somebody
  who waits and retries a setup that was not ready. Who gets the lock is left open:
  any task's reload is a new setup, so the property needs no more.
- `CameraStream`, `StationRequests`, `PersonRecovery` and `EvidenceRefresh` state safety only and
  assume no fairness.
- Nothing is assumed of the bridge, the HomeBase, the network or the user. Events,
  replies, losses, crashes and disconnects may come or not. In `ProEventCollector`
  the covers complete without help from the 50 second session budget.

### Assumptions about the environment

- Python 3.12 or later: `wait_for` returns the result when the future is done by
  the time its task runs, unless its timer fired first.
- The loop's ready queue is first in, first out, so in `disconnect()` the close
  callback of the receive task has run before the gather wakes up.
- A setup that fails in `initialize` does not disconnect the client.
- `ProEventCollector`: a reply carries the faces, one of the event tables, both or
  none, whatever was asked, or an error, and the same each time it is repeated; raw rows
  have the table's name the code gives them. `LIVE_QUERY_BACKFILL_SERIALS` is 0 and
  filter queries are never sent.
- Covers are a set: which duplicate path was asked twice, and the order in which
  the window is filled, are left free.
- A crash is the death of the process. What was renamed is on disk; loss of power
  is not modelled.
- `SnapshotCache` is one camera. The writer handles cameras one after the other
  and shares between them only the flag and the task.
- `CameraStream`: the camera has no RTSP source and its entity stays loaded. The
  bridge tells a session that is on to end and it ends some time later
  (`SessionEnds`), or by itself. The task a start creates for the relay resets the
  flag at once. A task woken by a livestream event runs before the next event.
- `StationRequests`: one station and one camera, with more kinds than one device
  has. The bridge accepts a recording only when none runs, refuses or acknowledges
  every command, and answers of its other clients' requests may arrive. The audio of
  a recording is treated as its video is.
- `PersonRecovery`: the option is on and both cameras belong to one T8030. Home
  Assistant starts the task at once, up to its pause. Times are choices, so the limit
  of records remembered is kept by `RecoveryAssumption`: a read takes three seconds at
  least and shows one record, which leaves room for 40 in the 120 seconds a record is
  young, against 256.
- `CoordinatorLifecycle`: Home Assistant holds one lock per entry over setup and
  reload and calls nothing of an entry that is not loaded. Platforms unload. The
  answer to a captcha or code reconnects and, three seconds later, reloads; it is one
  step, taken while the entry still waits for it.
- `EvidenceRefresh`: the bridge is available and the inventory loaded; every source
  gives a subset of its rows, newest first for the Pro and the account index. A search
  that was given up keeps its place until its queries end. The second search reads
  every source; the serial-scoped searches of `recover_missing` are such searches, and
  what they add to the refresh's choice is left out. In the instance a camera named
  like another exists, and a label that was the camera's earlier name; the rule for an
  only doorbell is in `Chosen` but every doorbell event is also found by its name.
- A helper of a Pro ends, with an answer or without, and at most one answer is on its
  way: a session takes seconds. A query whose helper runs may fail for another reason
  (the connection, its own timers), and its caller is not told apart from others.
- `EvidenceAssumption` says of the rows what the event id makes true: a digest
  (`_token`) of the source, the serial numbers, the record's own id and its start, so rows
  with one id have one start and, within a source, are one row. There are finitely many.
- The time of receipt of an undated picture is compared with nothing and left out.

## 4. Findings

1. **An event kills the event worker** (`api_client.py:737`,
   `EventWorkerSurvives`). A second captcha or verify-code event, or one after
   `wait_for` gave up, raises `InvalidStateError` out of the worker. Pin events do
   the same (`product.py:153`; `HandlePinVerified` in `StationRequests`).
2. **A stopped camera starts again** (`p2p_streamer.py:65`,
   `StoppedStaysStopped`). The False that `stop_livestream()` writes into `retry`
   is reset to None by the relay as it starts, and `retry or True` overrides it
   when go2rtc disconnects; the checker then restarts the camera, contrary to the
   change log's "only live-stream start path".
3. **A recording loses chunks** (`web_socket_client.py:127`, `RecordingIsWhole`).
   All chunks of a camera have one key in the event queue, and the next one takes
   the place of one that still waits; the download ends as a success.

Other states the models reach, for which no run fails, listed as hazards with the
properties that hold beside them:

- `disconnect()` leaves the transport open: the cancelled receive task's callback
  clears `self.socket` before line 74 tests it.
- Device events deferred before the device inventory are replayed after newer ones
  were applied. Stations do not suffer: their publication and the replay are one step.
- A death between the two renames leaves a picture with another's capture time.
- A replayed undated picture takes the place of a dated capture restored before.
- A started event of an abandoned start makes a new one succeed without a session,
  and two checkers act on one flag.
- A late reply settles the next query of its kind.
- A person recovery whose command fails while eight cameras are pending never runs
  again (`ReadRefused`, then no `MotionRises`); a read refused or given up is called
  deferred and not made again; reads of a camera are a minute apart only as its motions
  are, where `PRO_GUI_RELIABILITY_2026-11-06.md:31` says one read a minute.
- One outage may schedule several reloads: a failed setup leaves its client
  connected, with a callback and a `_reload_pending` of its own.
- A camera without an identified event takes one whose label contains its name or is
  contained in it, possibly another camera's.
- **Contrary to a document**: three descriptions of one recording. A merged row becomes
  "hybrid" (`coordinator.py:502`), which the order of line 499 ranks lowest, so the next
  description takes the place of the one that had won: with account, Pro and HomeBase rows
  of a recording the HomeBase's is shown or the Pro's, depending on who answered first,
  where `custom_components/eufy_security/CHANGELOG.md:240` says "Prefer Pro AIC evidence
  over older account/local duplicates". `MergeLosesNothing` says nothing of the Pro's row;
  it asks only that an account row is shown where nothing else describes the recording.
- **Contrary to a document**: a late roster reply that also carries an event table is
  processed as the event answer and abandons the newer event request
  (`pro_event_helper.py:565-576`; `TakeRosterEvents`), where
  `docs/UPSTREAM_RELIABILITY_2026-11-04.md:30` says "Late optional-roster replies can
  enrich names but cannot advance a newer event request." A reply to the roster in time
  may do the same. `RecordsMatchReadMode` allows records of such a reply by name.
- A file that the HomeBase sends before the cover phase completes the collection, without
  an error and without records (`pro_event_helper.py:718`, 673-674; `TakeFile`).
- A Pro query that waited for the lock may be cancelled by the 70 seconds of
  `coordinator.py:474` while its helper runs on; the lock is free and the bridge refuses
  the next one, or the answer to the earlier query, of whatever window, settles it.
  `ProRefusedOnlyForGivenUp` allows exactly that refusal.
- A send that raises leaves its future registered (`SendRaises`); a failed cache write is
  made again only when another picture comes (`WriteFails`).
- A station may for a moment show an older report than the one its first read returned:
  events that came before the read and are still queued are applied after it, in order.
- One refused download, or one whose row was dropped, ends the whole refresh and the
  pictures that did arrive are not shown (`DownloadIsRefused`, `DownloadBegins`).

## 5. Proofs

TLC checks the instances above; the theorems hold for every value of the
constants, each component's in its `...Proofs` module. All are proved of the
specification as it stands or, where there is fairness, of its safety part
(`EventQueueSafety` and the like). They assume only the named `ASSUME` of the modules
they are about, which TLC evaluates in the runs: limits are at least one, sets of
keys, covers, checkers, stations, records and rows are finite, names of different kinds
differ, products, slots and kinds fit together, and a row's id identifies it. One theorem
has a hypothesis of its own, `ChannelsDiffer` of `TheOwnNewestIsOffered`: every channel
of a station has one camera, as in the instance of its run. Without it a channel names
two cameras and the code's choice by channel takes either.

| Theorem | Property of a run | Module |
|---|---|---|
| `QueueTypesHold`, `NewestStateIsKept`, `NoWakeupIsLost`, `QueueIsBounded`, `QueueMirrorsNewestState` | `EventQueueTypeOK`, `NewestStateKept`, `NoLostWakeup`, `QueueBounded`, the refinement `MirrorsNewestState` | `EventQueueProofs` |
| `ConnectionQueueIsBounded`, `ConnectionLosesNoWakeup`, `ConnectionKeepsNewestState`, `ConnectionMirrorsNewestState` | `QueueBounded`, `NoLostWakeup`, `NewestStateKept` until the queue is cleared, `MirrorsNewestState`, of the queue within a connection | `BridgeProofs` |
| `LoadingQueueIsBounded`, `LoadingLosesNoWakeup` | `QueueBounded`, `NoLostWakeup`, of the queue while the inventory is loaded | `BridgeProofs` |
| `BootstrapTypesHold`, `StationsAreCurrent` | `BootstrapTypeOK`, `StationsShowNewest` | `BridgeProofs` |
| `ConnectionTypesHold`, `NoCallerIsStranded`, `DisconnectSilences`, `ConnectionImplementsRequestReply` | `ConnectionTypeOK`, `NoCallerOnDeadConnection`, `RetiredClientIsSilent`, the refinement `CallsKeepRequestReply` | `BridgeProofs` |
| `CollectorTypesHold`, `QueriesAreAskedOnce`, `RecordsAreOfTheReportedMode` | `CollectorTypeOK`, `EachQueryAskedOnce`, `RecordsMatchReadMode` | `ProEventCollectorProofs` |
| `SnapshotTypesHold`, `ConfirmedCapturesAreDurable`, `RestoreShowsWhatIsOwed` | `SnapshotTypeOK`, `ConfirmedIsDurable`, `RestartShowsConfirmedCapture` | `SnapshotCacheProofs` |
| `CameraTypesHold`, `LingerStopsUnclaimedSource` | `CameraTypeOK`, `LingerSparesClaimedSource` | `CameraStreamProofs` |
| `BusyIsRunning`, `DownloadsOwnFile`, `SafeOpensOnFreshVerdict`; `RecoveryKeepsStationProperties` | `BusyMeansRunning`, `ImageIsOfItsFile`, `OpensOnFreshVerdict`, of the requests alone and with the recovery's among them | `StationProofs` |
| `RecoveryTypesHold`, `PulsesAreOwnAndOnce` | `RecoveryTypeOK`, `RecordPulsesItsCameraOnce` | `StationProofs` |
| `LifecycleTypesHold`, `RetiredStaysQuiet` | `LifecycleTypeOK`, `RetiredIsQuiet` | `CoordinatorLifecycleProofs` |
| `ProQueriesNeverCollide`, `MissingStationsAreReported` | `ProRefusedOnlyForGivenUp`, `FailureIsReported` | `EvidenceProofs` |
| `SearchTypes`, `MergesLoseNothing` | `SearchTypeOK`, `MergeLosesNothing` | `EvidenceProofs` |
| `PicturesAreDated`, `TheOwnNewestIsOffered` | `PictureIsDatedByItsRecording`, `OffersTheOwnNewest` | `EvidenceProofs` |

`RecoveryImplementsStation` (every behaviour of `PersonRecovery` is one of
`StationRequests`), `LocksAreExclusive` (one Pro query of all searches, one HomeBase
query of each) and the `...Invariant` theorems are proved beside these. Every
inductive invariant was checked by TLC on the instance of its run first.

The arguments. Except `NoLostWakeup` and, given the types, `QueueBounded` no safety
property is inductive by itself; each invariant is what it takes.

- **Queue** (`QueueInv`). A step that takes the oldest entry could leave an older
  entry of the slot behind. `PlacesFollowStamps` (the place of an entry is the
  number of its frame, as a re-queued key goes to the end) and `LeavesInOrder` (what
  was applied or discarded is older than everything still queued of the slot) make
  the oldest entry the oldest stamp, so the newest report leaves last. The refinement
  needs the same facts. The queue's theorems cite `EventQueueAssumption` alone.
- **Queue of a connection** (`ConnectionQueueInv`). `QueueStepsOfConnection`: until
  `disconnect()` a step of the connection is one of the queue's or leaves it alone. From
  then on `TeardownOrder` gives that no frame arrives and no worker runs, so what held
  stays as it was until the queue is cleared, when the newest state is given up with it.
- **Loading** (`BootstrapInv`). `NewestIsFollowed` follows the newest report of a
  station: it is queued, or nothing of the station is queued behind it and it is
  discarded, the last of the station's deferred events, or shown. The proof found a
  mistake of the model that three frames are too few to show: when the list discarded
  its head, the history of what was discarded could go back to an older report. With
  five frames TLC finds the counterexample too; `Discarded` now keeps the newest.
- **Connection** (`ConnectionInv`). A pending future of an open call is registered,
  so the close callback finds it; a reply in flight is the bridge's own answer;
  `TeardownOrder` says what has been cancelled and dropped at each point of the
  teardown. The mapping `CallOf` then takes each step to a step of `RequestReply` or
  to a stutter.
- **Pro session** (`CollectorInv`). How often each query was sent, and which
  transaction is awaited, are functions of phase, `asker` and `readMode`; covers are
  awaited only after the records. Records are of an event query or of a roster reply
  with an event table, which is remembered in `replies`, and a collection that is
  complete without either has been sent a file.
- **Snapshots** (`SnapshotInv`). `LiveCapture` follows a capture from publication
  through the writer's batch to the two files, `Confirmed` from its confirmation on:
  no other source carries its frame, nothing else its time until it is confirmed, and
  once the metadata holds its time the image is on disk. `OwedIsOnDisk` carries this
  over the crash.
- **Camera** (`CameraInv`). While the linger sleeps nobody watches and nobody has
  claimed the source, since every claim cancels it in the same step.
- **Station requests** (`StationInv`). Which call a product's future belongs to;
  what an image's future was given; and `VerdictIsFresh`: a good verdict in the newest
  pin check's future came while every running check ran, because a check that begins
  later replaces it. **Recovery** (`RecoveryInv`) adds that the records remembered
  are those that pulsed, which is where `RecoveryAssumption` (the memory is larger
  than the records young enough) is needed.
- **Life cycle** (`LifecycleInv`). Where the holder of the lock is, that its
  coordinator is connected there, and that work runs only in the coordinator of a
  loaded entry or until `disconnect` cancels it.
- **Evidence, the queries** (`EvidenceInv`). `QueryIsOwed` says of each station query
  what its search can conclude: one that is over without a warning was an answer to
  everything the search has to read. `LocksAdmitOne` states the two locks over all
  searches. `HelpersInv` says that a query that waits for a Pro's helper holds the lock,
  wherever its search is: so whoever finds the lock free and is refused finds a helper
  nobody waits for.
- **Evidence, the rows** (`RowsInv`). Every row a search holds is a description of one of
  the indexes' rows, a merged search holds the result of its own events, and the table
  has one row for each id. What the loops compute is proved by following a fold place by
  place: an induction over the set of places where a fact holds (`UpTo`, `StepsExist`), as
  the library's induction takes the fact as a parameter. `RememberAllKeeps` is the table
  after each row, `MergedFoldIs` says that after each event there is one row for each
  recording met so far and what it can be, and a sorted list is a set with a rank for
  each of its members (`RanksAreTaken`, `OrderedHoldsAll`). `ReturnedLosesNothing`
  concludes, for every list of events and so for every order in which sources answer.
- **Evidence, the pictures** (`PicturesInv`). A download in progress fetches the image of
  the row it read from the table, whatever is dropped or read again meanwhile, and an
  update's image is never joined to a recording (`ImageIsOwn`). `FirstEventIs`
  says that the first event of a result tied to a camera is its newest.

Only model-checked: `EveryReportSettles`, `EveryCallSettles`, `LossIsReported`,
`SetupEnds`, `CoversAlwaysComplete`, `SilentHomeBaseFallsBack`, `PictureReachesDisk` and
`LossLeadsToSetup`. They are liveness under fairness, whose `ENABLED` is out of the
prover's reach. Every safety property of a run, and both refinements, are proved.

No module declares a recursive operator.

## 6. Plan

1. `BridgeBootstrap`: what a product may show between its first read and the events
   that came before it, as an abstract specification that lets it go back once.
2. `CameraStream`: the RTSP source, the entity's removal, and how an abandoned source
   is released (a probe cancels the linger and no viewer follows).
3. `EvidenceRefresh`: the serial-scoped searches' part in the choice.

## 7. Not modelled

Data and I/O: views, entities, forms, the panel, the start script, packet framing,
most of the normalisation of records, recognition pictures and playback with their
caches. The vendored bridge is third-party and appears as the
environment. Region discovery, signing, signalling and ICE in the HomeBase helper
happen before `ProEventCollector` starts and fail the session as a whole. What the
plan lists is not modelled yet; the hazards without a property in `PROJECT.json`
are those parts.
