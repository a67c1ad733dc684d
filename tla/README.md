# Formal models of ankermake-m5-protocol

TLA+ models of the concurrent core of `ankerctl`, the web application and the protocol library for
AnkerMake M5 printers: what its threads share, in which order things may happen to it, and what holds
whatever the order is. TLC checks the models on small instances; TLAPS proves the theorems for every
value of the constants. Line numbers refer to the sources under `src/`.

## 1. The system

`ankerctl webserver` is one Python process. Flask request threads and websocket threads run beside
one thread per *service* (`web/lib/service.py`), timers, ffmpeg readers and MQTT callbacks. It talks
to the printer over PPPP (a peer-to-peer UDP protocol) on the LAN and over MQTT through Anker's
broker. Nothing but the GIL orders the threads, except the locks named below.

| component | state it keeps | operations | talks to |
|---|---|---|---|
| Service thread (`web/lib/service.py` 53-352) | `state`, `wanted`, `running`, ready and stopped events, holdoff | start, stop, restart, the thread's loop, await_ready, await_stopped, shutdown | every service derives from it |
| ServiceManager (same file, 383-644) | `svcs`, `refs` under `_lock` | register, unregister, get, put, borrow, replace_service, restart_all, stream, atexit | routes, websockets, services borrow through it |
| Cyclic counters (`libflagship/cyclic.py`) | a 16-bit index | +, -, four comparisons | Channel |
| PPPP channel (`libflagship/ppppapi.py` 116-328) | rx/tx queues, counters, acks, wire | rx_drw, skip_rx_gap, rx_ack, poll, write, reset_tx, read | API thread or PPPP service thread, uploads |
| PPPP API (same file, 330-626) | connection state, socket | process, run, poll, stop, send and receive of XZYH and AABB frames | printer |
| PPPP service and reservation (`web/service/pppp.py`) | `_api`, session lock, backoff | worker_start/run/stop, stop, reserve_session, probe | video, timelapse, light, uploads |
| File transfer (`web/service/filetransfer.py`, `cli/pppp.py`) | one connection per upload | send_bytes, pppp_open, pppp_send_file | PPPP, MQTT queue, history |
| Video queue (`web/service/video.py`) | live requests, stall timers, generation of the PPPP object | live start/stop, stall recovery, PPPP recycle, light | PPPP service, ServiceManager.replace_service |
| MQTT queue (`web/service/mqtt.py`) | print state, deferred start, filament and z-offset waits | notification handlers, print state transitions, stored-file start, print control | history, timelapse, notifications, Home Assistant |
| Print history (`web/service/history.py`) | SQLite rows, archived G-code | record start/finish/fail, archive, delete, clear, prune | MQTT queue, upload, routes |
| Timelapse (`web/service/timelapse.py`) | one capture, a finalise timer, capture thread, frames on disk | start/finish/fail, delayed finalisation and resume, recovery | MQTT queue, video queue |
| Filament swap (`web/__init__.py` 1567-2219, 5040-5411) | one swap state, a background thread | start, confirm, cancel, background steps, legacy load/unload | MQTT queue |
| Home Assistant bridge (`web/service/homeassistant.py`) | client, generation, published state | reload, start, stop, callbacks | broker |
| Alert and console buffers (`web/__init__.py` 70-250) | bounded buffers with sequence numbers | append, read since | websockets |
| Configuration, printer switch and reload (`cli/config.py`, `web/config.py`, `web/__init__.py` 2981-3125, 5572-5680) | `default.json`, the selected printer, the registered services | load, save, modify, import, switch, reload, register_services | ServiceManager, PPPP service |
| Login, cameras, notifications, filament profiles, codecs, command line | files, HTTP | | |

Hard behaviours: state, `wanted` and events of a service are written one after the other without a
lock; the reference count, the session lock and the service thread are three uncoordinated ways to
decide who may run; UDP loses, repeats and reorders; an upload preempts a live video; a printer has
one session and keeps a dead one for a while; print events of the printer, the user's own upload and
a reconnect arrive in any order; timers race what they were waiting for. `PROJECT.json` lists each
hazard at its line.

What makes each component correct; the properties named are checked, those marked * are also proved,
from the assumptions section 5 names:

* Service: an announced stop has released the worker (`StoppedMeansReleased`*), a service nobody holds
  any more stops, but in one case (`UnheldStopsUnlessStopLost`), a failing worker recovers
  (`HeldRecovers`).
* ServiceManager: references are counted exactly (`RefsCounted`*), a held service is not switched off
  by somebody else (`HeldMeansWanted`*), `get()` comes back (`GetReturns`), pruning deletes nothing that
  is held (`HeldIsRegistered`*).
* Channel: a reliable stream (`ImplementsStream`*), writes come back, and what returned has arrived
  (`WriteComesBack`, `ReturnedReached`*), everything is read (`AllRead`), live video leaves nothing
  behind and does not freeze (`NothingStranded`*, `StallEnds`).
* PPPP session: stopping lets go of the printer (`StoppedMeansClosed`*), a held service gets back a
  session the printer knows of, after uploads and losses, but in one case
  (`HeldIsServedUnlessSwallowed`), nobody waits in a circle (`UploadsFinish`).
* Print state and history: one row is open (`OneOpenRow`*), a task has one row (`OneRowPerTask`*), what
  runs is not closed (`EndedMeansOver`*) and is on record (`UpdateRecords`*), what has ended is never
  rewritten (`RowsOnlyClose`*), in whatever order events come.
* Timelapse: the frames of a print have exactly one owner (`OneOwner`*), are thrown away only knowingly
  (`FramesKept`*), and end up archived (`CapturesEnd`), over crashes and late capture threads.
* Video: no camera streams for a service that is off (`CameraOff`*); a timelapse that goes on gets
  frames again, but in one case (`RecoversUnlessStopLost`).
* Filament swap: one thread drives the printer (`OneDriver`*), no command reaches the printer under a
  later swap (`SwapsInOrder`*), a swap does not stay in a running phase (`SwapComesToRest`); a cancelled
  thread only cools (`CancelStopsUnlessLate`*) and the heater is not left on (`NoHeatLeftUnlessLate`*),
  both but in one case.
* Home Assistant: one camera entry (`OneCamera`*), a stopped bridge is shown as offline
  (`StoppedIsOffline`*), old heartbeats end (`StaleHeartsEnd`), `stop()` returns, but in one case
  (`StopReturnsUnlessCommanded`).
* Configuration: saves, crashes and the recovery of corrupt files lose nothing, as long as changes do
  not overlap (`ConfigKept`*), and a restart selects the printer that was selected, but in one case
  (`RestartKeepsSelectionUnlessImported`*).

A name with `Unless` says in which case the program does not keep the promise; section 4 has each.

## 2. Modules

```
 Service ──► ServiceManager ──► MCServiceManager      (run manager_safety)
                    │                └──► MCBorrowing  (run manager_borrow)
                    └─────────► PPPPSession ──► MCPPPPSession   (run pppp_session)
                                     └────────► ServiceProofs   (of all three)
 CyclicU16 ──► ChannelRx (run rx_gap) ──► Channel ══refines══► ReliableStream   (runs channel_*)
                                             └────► ChannelProofs   (of all four)
 History ──► PrintJob ──► MCPrintJob   (run print_job)
                 └──────► PrintJobProofs
 Timelapse ──► MCTimelapse   (run timelapse)
      └──────► TimelapseProofs
 VideoQueue ──► MCVideoQueue   (run video)
        └─────► VideoQueueProofs
 FilamentSwap ──► MCFilamentSwap   (run swap)
        └───────► FilamentSwapProofs
 HomeAssistant (run home_assistant) ──► HomeAssistantProofs
 ConfigFile ──► PrinterRegistry ──► MCPrinterRegistry   (run registry)
                        └─────────► PrinterRegistryProofs
```

### Service, ServiceManager

`Service` is the thread of `service.py`. Each of its writes to `state`, `_ready_event` and
`_stopped_event` is an action of its own, because the other threads read them without a lock; `tpc`
is the position between two of them. `worker` says whether what `worker_start()` acquired is held.
`worker_start()`, `worker_run()` and `worker_stop()` may each fail whenever they are called
(`RunMayFail` switches the second off). Time is abstracted: a holdoff that has not passed is a thread
that has not moved.

`ServiceManager` adds the callers: borrowers (`get` in its two critical sections, the waits, `put`),
`restart()` under `_restart_lock`, `restart_all(await_ready=False)`, and `replace_service()`. Test and
write inside `start()` and `stop()` are two steps. Timeouts of bounded waits may fire at any time.
`Persistent` services are left running by `put()`.

`MCBorrowing` adds a variable that only observes, `lost`: the `put()` that left no reference found the
service Stopping or Stopped and wanted, as it is between the failure of a worker and its next start,
where `stop()` returns at once. `UnheldStopsUnlessStopLost` excepts that case and no other.

### CyclicU16, ChannelRx, Channel, ReliableStream

`CyclicU16` has the arithmetic and comparisons of `cyclic.py` with its width `M` and window `Wrap` as
constants (2^16 and 2^8 in the program). Chunk numbers in the channel models never wrap; the modelled
program only ever sees `Idx(n)`, the cyclic index, and compares nothing else.

`ChannelRx` is the receiver: `RxDrw`, `SkipRxGap`, `Read`. One thread runs the first two (the API
thread of an upload, or the service thread of the video), so each is atomic. `Channel` adds the
sender, shared by the caller of `write()` and `reset_tx()` and the API thread, with a step for each
access the other can disturb (`rx_ack()`'s test, remove, read and write of `tx_ack`; `reset_tx()`'s
four writes), and a network that loses, repeats and reorders. `Lag` bounds how late a packet may
arrive, `Ahead` how far ahead of `rx_ctr`; the comparisons are only meaningful within the window, see
`ComparisonFollowsSteps`. `InWindow` says that the two ends are no further apart than `Ahead`; the
program does nothing to ensure it, except that a blocking write waits for its acknowledgments.

`ReliableStream` is the abstract promise: what is read is a prefix of what was written, and a write
that returned has arrived, unless a write was given up. `Channel!ImplementsStream` is the refinement
(`sent <- written, got <- read \o buf, confirmed <- returned, givenUp <- resets > 0`).

### PPPPSession

Extends `ServiceManager`: the service thread's `worker_start()` is refined into the probe of the
session lock, the handshake and the assignment of `_api`; `worker_stop()` and `stop()` close the
connection, the latter from the caller's thread. Uploads go through `reserve_session()`: lock, stop,
wait, connection attempts, transfer, unlock, restart. The printer (external) has one session slot,
answers a second comer with CLOSE, keeps a session whose CLOSE was lost (`"ghost"`) until it forgets
it, and ends a session of its own accord at most `MaxDrops` times. One timing assumption, `Settled`:
a connection attempt lasts longer than a step of the service thread that waits for nothing.

### History, PrintJob

`History` is the table of `history.py`. Each of its methods holds the history's lock for one
transaction, so it is an operator from table to table: `RecordStart` (an existing row of the task is
used again, otherwise open rows are closed as interrupted and one is opened), `RecordEnd` with
`FindActive` (by task, by file, any), and `Deletable`, what pruning and the routes may delete.

`PrintJob` is the print state of `MqttQueue`. `worker_run()` handles a notification under
`_state_lock`, so each message is one action: `GotPreview` (1044), `GotStopped` (1057), `GotPrinting`,
`GotPausedOrResumed`, `GotIdle` and `GotPreparing` (1000), `GotProgress` (1001, with its chain of
adoptions, resets, activation and completion). What web threads do in between are actions of their
own: an upload (look at the state, transfer, mark as pending after the printer has begun), a stored
file's start (mark, command, confirmation or timeout), a stop (look without the lock, then take it),
deletions, a lost connection and `worker_start()`.

The printer is external: it prints one job after another and may tell its state or progress at any
time, so that messages come twice, in any mixture of 1000, 1001 and 1044, or not at all while the
connection is down. Assumed of it, because the code relies on it: messages arrive in order and name
task and file; preparing comes before printing; late updates of a job end when the next one is
prepared; a job ends only after its upload has been marked as pending. A message is handled when it
is sent; what the web threads interleave with is the handling, and that is kept. Archives, previews,
durations, events, timelapse and Home Assistant, which the handlers also tell, are left out, and so are
rows from before there was a `printer_index`.

### Timelapse

The operations of `TimelapseService` take its lock, join the capture thread with the lock held, and
then do their work: `Begin` (inside the callers' actions), `JoinEnds` or `JoinTimesOut`, and
`StartBody`, `FinishBody` or `FailBody`. Since the join has a time limit, a capture thread may outlive
it and run beside the next one; `thread` has both. `TimerFires` and `TimerRuns` are the delayed
finalisation before and after it gets the lock. `final` are the threads that assemble a video, outside
the lock: assemble, then archive. Callers are the MQTT queue (start, finish, fail, filament pauses), the
routes, whose check and call are two steps, reload and reconnect. `Crash` ends the process at any
step; `Restart` adopts what is on the disk as `_scan_in_progress_captures()` does: the youngest
directory waits for its print to resume, the others are assembled, those without frames go. `newer`
orders the directories by their time of modification, by which archived collections are pruned
(`Pruned`) and the youngest is found; a frame or a snapshot changes it, the move to the archive does
not. `ArchiveFails` is the move that raises: `_finalize_capture_dir()` then deletes the frames. The
camera, ffmpeg and the disk are external. `Without`, which takes a directory out of the archive's
order, is `SelectSeq` written as a function, because the provers have no facts about `SelectSeq`;
`MCTimelapse` assumes, and TLC evaluates, that the two agree.

### VideoQueue

The service's thread (`Wakes` to `HasStopped`) with what it does to the PPPP service it borrows
(`Ensure`, `Recycle`, `Refresh`), those who ask for the video (switch, timelapse, viewers, light
sessions, the notifier's snapshots), and the PPPP service and the camera as it sees them. The many
limits in seconds are not counted: a wait ends only when what it waits for cannot happen, so that
slowness alone is not a fault. `api` says whether the id of the connection that worker_run compares is
that of the present one; a new object may have the old one's id.

### FilamentSwap

One printer's swap under `filament_swap_lock`, the routes start, confirm and cancel, each cut at its
uses of the lock, and the two worker threads. A worker looks whether it is cancelled
(`WorkerBegins`), then waits in `borrow_mqtt()` for the service without a limit, and goes on
(`WorkerIsServed`): the load looks again, the unload does not. A cancel's `join()` lasts two seconds, which
a thread in that wait, in the delay before a cool-down, or after a crash may outlast (`CancelJoins`);
one that waits is then `late`, which only the properties read. What a worker announces, sends and waits for is a table,
`Program`, a row per command of `_run_legacy_swap_unload()` and `_run_legacy_swap_load()`; its thread
goes through it by `WorkerSends`, `WorkerGoesOn`, `WorkerIsCancelled`, `WorkerCools`, and leaves it by
`WorkerFails` (an error the code names) or `WorkerCrashes` (any other). A print may begin and end at
any time.

### HomeAssistant

The two callers of `start()` and `stop()` (the MQTT service's thread and the settings route, which
reloads), each at a step of `stop()`: lock, stop the heartbeat, say "offline", disconnect, wait for the
loop thread. The loop thread `paho` connects, runs `_on_connect()` in its pieces without a lock,
receives commands, and disconnects. Heartbeat threads are numbered by `generation`. The broker keeps
the last thing said about the printer (`avail`) and says "offline" for a client it has lost; the
camera's entry is made over HTTP, whose answers may be lost.

### ConfigFile, PrinterRegistry

`ConfigFile` is `default.json` and the temporary file all threads of a process share, with the place
of the file each thread has open, so that two overlapping saves may tear it. `PrinterRegistry` has the
requests that read and save it, the address the PPPP service saves, the printer's switch under
`printer_switch_lock`, reload, and `register_services()`, cut where it uses the registry: list, prune
(references, stop, check, delete), make and register. Clients borrow and return; `Crash` ends the
process, and a new one selects the printer again. A configuration is which printers, which selected
one, one setting and one address. `meant` is what all saves would make one after the other,
`overlapped` that two changes were under way together, `late` which services were borrowed between
`unregister()`'s check and its deletion, `imported` that an account was imported since a switch was
last accepted: they only let the properties say what is excepted.

## 3. Runs

| run | instance | shows |
|---|---|---|
| `manager_safety` | 2 Service objects (`s1` registered first, `s2`, persistent, brought by the replacer), a borrower with `ready` true and false, a restarter, a reloader, failing workers | an announced stop has released the worker, under all callers at once |
| `manager_borrow` | 2 borrowers, 1 failing service, fairness | exact references, no foreign switch-off, recovery and return, and a stop when nobody holds it |
| `channel_stream` | 4 chunks over the wrap of a 16-value index, 2 in flight, one reset, blocking writes and others | the refinement, and that a returned write has arrived |
| `channel_live` | 2 chunks over the wrap of a 12-value index, 2 in flight, fairness | everything is read, every blocking write comes back |
| `rx_gap` | 7 chunks over the wrap of a 16-value index, queue limit 2, fairness | live video leaves nothing behind that fits, and does not freeze |
| `pppp_session` | 1 borrower, 2 uploads, 1 printer drop, fairness | the reservation ends, and a held service has a session of the printer again |
| `print_job` | 2 jobs of 2 files by upload, stored file or panel; another printer's row; one drop, stop, deletion or stored file | the history is right under every order of events |
| `timelapse` | 2 prints, 2 directories of 2 frames, 2 capture threads, 2 assemblies, one crash, one extraordinary call or late join, fairness | one owner of all frames; when they are deleted; all are archived or let go |
| `video` | a viewer, a light session, the switches, 3 uses of them, 2 faults, fairness | no stream without a service; recovery |
| `swap` | 1 client, 3 swaps, 2 worker threads, 2 faults, fairness | one driver, a real cancel, order of swaps, no heat, no swap that stays running |
| `home_assistant` | 2 connections, 2 calls, 2 faults, fairness | one camera, offline when stopped, `stop()` and heartbeats end |
| `registry` | 3 requests in 2 threads, 2 printers, 2 clients, one crash | no lost configuration, no pruned service in use, a switch that lasts |

Every run explores its instance completely.

Why the bounds are enough. The Service thread's phases are all visited by one borrower; a second
borrower is what reference counting needs; two Service objects are what `replace_service()` needs. A
wrap window of 4 in 16 (or 12) values keeps `2 * (Wrap + d) <= M` for packets up to `d` steps off, the
proportion under which the comparison theorem holds, and the chunk numbers cross the overflow in every channel run; two packets in flight
give every reordering of data and acknowledgments. Two uploads give every overlap of one's restart
with the other's reservation. Two jobs give a late update of one in the other, a second job of the same
file or of another; one extraordinary step (`MaxExtras`) beside two jobs is what finishes in minutes, and
the theorems cover the rest for the table. Two prints give the timelapse a capture that the next one
meets, a late thread and a pending resume together; a crash leaves both directories. Three uses of the
video are a switch on, a second user and a switch off, and two faults a loss during the recovery from
the first. Three swaps and two threads let a late thread meet the swap after the next. Two connections
are an old and a new heartbeat. Three requests in two threads are one that begins while two overlap.
Deadlock is not checked where the model has an end: bounded chunks, requests and jobs, uploads that are
done, a service without a caller.

Fairness. Threads are scheduled: weak fairness of each thread's next step, strong where a lock or a
state that others leave and enter is contended. A start that is retried for ever succeeds in the end,
because the program retries without limit and promises nothing against a printer that stays away; a
packet that is retransmitted for ever arrives in the end. A capture thread's loop ends when its stop
event is set, a process that died is started again (the container's restart policy), timers fire
(`timelapse`). PPPP connects when it is wanted, a camera that streams sends frames, and a timelapse that
finds no recent frame asks for a recovery, as its capture loop does at every snapshot (`video`).
Requests that have been made are answered, a swap's thread that waits for the MQTT service is served or
fails, and whatever it waits for of the printer comes or times out (`swap`), HTTP requests come back, the broker finds out about
a lost client (`home_assistant`). Nobody is required to begin an operation, and a borrower or a viewer
may hold for ever; faults are bounded, not fair.

Every property of a passing run has a mutant: the modelled code with a plausible bug, on which TLC
finds the property violated. Mutants stand next to the action they change and are never part of a
specification.

`TypeOK` is checked by a run, or proved as a part of the inductive invariant (Channel, Timelapse,
FilamentSwap, PrinterRegistry), or stands in the module for the reader; no run spends more than one
property on it.

## 4. Disagreements between code and documentation

Met while modelling. The models have the steps that lead there; no run is spent on them.

Services:

* `stop()` returns without effect while the thread is Stopping with `wanted` set again
  (`service.py:104`): the service restarts and runs although its last reference was put.
  `tests/test_service_crash_recovery.py:114` says "Service should have stopped".
  `UnheldStopsUnlessStopLost` excepts it by `lost`.
* `restart()` may return on the ready event of the worker it stopped; the next one then passes
  `await_stopped()` on the old stopped event, and its `start()` does nothing in state Starting
  (`service.py:120`). The comment at line 81 and `tests/test_service_framework.py:257` say two
  concurrent restarts leave the service running.
* `get()` tests the state and starts the service in two critical sections. The service may be Stopping
  by the second; `start()` then only sets `wanted`, and the thread starts again after it has stopped.
  Nothing is lost, but "never start while stopping" in the comment is not what happens.
* `start()` does nothing while the state is Starting or Running, even when `wanted` is false and the
  thread is about to stop; `Settled` keeps `PPPPSession` out of that window.
* `replace_service()` sets the reference count to 0 while borrowers hold references; their `put()`
  meets the assertion, or stops the new object under another borrower. `RefsCounted` therefore is a
  theorem only without replacers.
* `unregister()` looks at the references and deletes in two steps (`service.py:453`): a service
  borrowed in between is deleted, which `HeldIsRegistered` excepts by `late`.

PPPP and video:

* `rx_ack()`'s increment in the API thread can overwrite what `reset_tx()` assigns (`ppppapi.py:178`);
  `tx_ack` stays behind a gap, and a write whose packets are all acknowledged does not return, against
  the comment at line 305.
* `worker_start()` gives the session lock back before it connects (`pppp.py:277`), so that a handshake
  may go on during a reservation; the comment at line 44 says it "refuses to reconnect while the
  reservation is held".
* The loop that drains the socket catches the error of a CLOSE and leaves the state Connected
  (`pppp.py:475`): nothing restarts the service. The comment at line 448 says such a state must force
  "an internal restart instead of idling forever". `HeldIsServedUnlessSwallowed` excepts it.
* `reserve_session()` restarts the service after an upload although its last borrower may have put it
  meanwhile; the service then runs without a reference until the next `get()` and `put()`.
* A recycled PPPP whose `stop()` was ignored is wanted still, and `_ensure_pppp_ready()` waits for it to
  stop (`video.py:340`): a timelapse gets no frames any more. `RecoversUnlessStopLost` excepts it.

Prints:

* The comment at `mqtt.py:234` says a reconnect is "not the end of a print". A start recorded on the
  state message alone has no task id yet; after a reconnect the first progress update then opens a
  second row and marks the first `interrupted`, for the same print. `OneRowPerTask` speaks of rows that
  have a task.
* `tests/test_mqttqueue_service.py:1525` says "A second ct=1001 with errorMessage on the same print
  session must not produce a second failure event". The second does not, but it takes the failed print
  for a new one (`mqtt.py:1589`), so the third does.
* `send_print_control()` tests the state without the lock. A stop that comes as the print ends leaves
  `_stop_requested` set, and if nothing resets it the next print's end is recorded as a cancellation.
* A late update at 100% after the guard has expired leaves the old task's names in the idle state. They
  are replaced by the next job's first progress update; until then its start may be taken for the old
  task's and not be recorded (`UpdateRecords` asks for the record from the middle of the print on).
* `clear()` removes the archive directory after it has released the lock; a print that begins meanwhile
  loses its file, though the docstring (`history.py:801`) says in-progress files "are never deleted".

Timelapse:

* `_finalize_capture_dir()` is to "archive the captured JPG frames" (`timelapse.py:1173`); when the move
  fails (1104-1106) it takes the frames for what need not be archived and deletes them (1190).
  `FramesKept` excepts it.
* Collections are pruned by the modification time of their directory (1125), which is that of the last
  frame. A capture that is archived after younger ones, because a resume was waited for or a crash came
  between, may be the one that is deleted, at once. `FramesKept` excepts it by `Outnumbered`.

Filament swap; the first two need two overlapping requests (`OneDriver` and `SwapsInOrder` are about
requests that do not overlap):

* Two confirms both see the phase before either changes it (`web/__init__.py:5299`) and start a thread
  each.
* A worker thread is started before it is registered (1676). A cancel in between joins nothing, and the
  thread's commands may meet a swap "started right after this call", which the comment at 5385 excludes.
* A thread that waits in `borrow_mqtt()` (1944, 2139; `await_ready()` has no limit) outlives the two
  seconds for which a cancel joins it (5391), whatever the number of clients. The cancel cools down and
  answers; when the service comes, an unload then sends its first M104 without looking whether it is
  cancelled (1945-1954) and ends, and the nozzle stays hot. The comment at 5385 says that the join is
  there so that the thread's commands do not meet what follows. `CancelStopsUnlessLate` and
  `NoHeatLeftUnlessLate` except it by `late`; no later swap begins before that thread has ended, so that
  `OneDriver` and `SwapsInOrder` hold without exception.
* A cancel cools down whether or not a print has begun in the meantime.
* A route that waits for an MQTT service which stops is left by `ServiceStoppedError`, which neither
  route catches: the swap stays in a running phase until it is cancelled.

Home Assistant:

* `stop()` holds `_lock` while `loop_stop()` joins the loop thread (`homeassistant.py:231`); a light
  command that waits for the lock in that thread makes the two wait for each other.
  `StopReturnsUnlessCommanded` excepts it.
* `update_state(mqtt_connected=True)` right after `start()` is dropped unless the bridge has connected
  by then (`mqtt.py:241`); nothing says it later.
* A camera may be registered by `_on_connect()` while `stop()` unregisters it, and then stays.
* An "online" under way when `stop()` says "offline" is what the broker keeps. `StoppedIsOffline`
  excepts it by `crossed`.

Configuration:

* `modify()` loads, changes and saves without a lock, and all saves of a process use one temporary file
  (`cli/config.py:96`): two requests lose a change, or leave a file that the next `load()` moves aside.
  `ConfigKept` excepts it by `overlapped`.
* Saving a setting without a configuration writes `null`; a later import fails, because
  `get_printer_ips()` catches only `KeyError`.
* The import's comment (261) says "keep any user preferences and printer IPs"; of the settings it keeps
  some.
* `register_services()` skips a service in use and says it "will retry on next reload" (5644), but a
  reload registers services only if there are none.
* Two reloads that both find no service both make one; the second `register()` fails, and its object's
  thread stays.
* An import sets the selected printer in the file and not in memory: until the next switch a restart
  selects another printer than the one in use. `RestartKeepsSelectionUnlessImported` excepts it.

## 5. Proofs

* `ChannelProofs`: the counters, the receiver, the channel and its refinement.
  - For every width `M` and window `Wrap` with `2 * Wrap < M`, counters up to `Wrap` steps apart
    compare as the steps taken (`ComparisonFollowsSteps`), and subtraction gives the number of steps
    (`DistanceIsSteps`). From case lemmas about `%`.
  - The receiver: `StrandsNothing`, for any number of chunks and any queue limit, under
    `WindowAssumption` (no packet is so far off that the comparison fails). `NothingStranded` needs
    `QueueInWindow`: a queued packet is ahead of `rx_ctr`, within the window, and filed under its own
    index. How many packets `Recombine` takes out is a choice of the least number that does not fit
    (`LeastNumber`, from the library's minimum of a well-founded order), so that no induction over the
    queue is needed (`RunIs`, `RecombineIs`).
  - The channel: `ChannelInv` relates both ends. Nothing is under way that was not cut (`SentInv`);
    what is acknowledged has been received, and until a write is given up `tx_ack` counts it without a
    gap (`AckInv`); of a write that waits, what `tx_ack` has passed has been received (`WriteInv`); and
    what the reader has and gets is exactly what is below `rx_ctr`, in order (`StreamInv`). It is
    inductive as long as the ends stay in the window, hence `ReliableInWindow` and `ReturnsInWindow`:
    `Spec /\ []InWindow` implements `ReliableStream`, and what returned has arrived, under
    `StreamAssumption` (the window, no skipping, and no more chunks than a turn of the counter if
    writes are given up, since a reset leaves acknowledgments behind).
  - When the window is kept: the first `Ahead` chunks are a reliable stream whatever is given up
    (`ReliableWhenShort`). And a file transfer (`FileTransfer`: blocking writes, one after the other,
    each shorter than the window, none given up) keeps to it for ever (`FilesInWindow`), so that the
    refinement holds without the condition, whatever the length of the file (`FilesAreReliable`).
    `OneWrite` says why: all before the current write has arrived, and its own chunks are received or
    in flight, or wait in order. `cli/pppp.py:339` cuts a file into blocks of 32 KiB, that is 33 chunks
    with the header, in a window of 256.
  - The other writes of the program, which do not wait, have no flow control; nothing bounds how far
    the sender runs ahead of a receiver that is silent, and the theorems claim nothing there.
* `ServiceProofs`: for any sets of services, borrowers, restarters, reloaders and replacers,
  `TypeCorrect` and `StoppedIsReleased`; without replacers `ReferencesCounted`; with borrowers alone
  `HeldIsWanted`; for any number of borrowers and uploads of one printer's service, `SessionTypeCorrect`
  and `StoppedIsClosed` (`OnePrinter`: the session's `Svc` has one member).
  - `StoppedMeansReleased` is not inductive: it says nothing about the thread between two writes.
    `ThreadInv` ties `tpc` to `state`, and the stopped event to the one write in which it is stale.
  - `RefsCounted` is inductive over the set `HoldsReference`; each step adds or removes one member.
  - `HeldMeansWanted` needs `LockInv` (who is between the test and the write of a start or stop holds
    the lock, and a `put()` that stops left no reference) and `BorrowInv`.
  - `StoppedMeansClosed`: the session follows the connection (`ConnInv`), and the connection the worker
    (`ThreadInv`, carried over from the manager).
* `PrintJobProofs`: for any number of jobs, files and printers, `PrintTypeCorrect`, `OneRowIsOpen`,
  `TaskHasOneRow` and `NothingRewritten`. `RecordStartOK` and `RecordEndOK` show that an operation of
  the history keeps a table in order and rewrites nothing (`Kept`); `FindActiveIsOpen` needs
  `OneOpenRow` for the `ORDER BY`. A progress update composes up to three of them
  (`KeptTransitive`). The invariant adds to types that a job under way has a task and a file, without
  which a message could name none.
  `JobIsFollowed` relates the client to the printer: `JobInv` is `EndedMeansOver` with `TaskInv`
  (numbers grow, and nobody names the next job before it is prepared), `NameInv` (once the client has
  the job's number, its row or a percentage, it has no other file's name, and follows the printer while
  it is connected) and `RecordInv` (a job with a row has its file on an open one, and so has a print
  whose record is not held back for want of a name). `EndedIsOver` is a part of it;
  `UpdateLeavesRecord` is the action property, from `RecordInv` after the step. Each handler is first
  shown to keep the names apart (`...Fits` for a message of the job, `...Among` for a late one), and
  the actions of printer, client and user follow.
* `FilamentSwapProofs`: for any number of worker threads, swaps and faults, and requests that do not
  overlap (`OneClient`: at most one client), `Invariant`, `OneThreadDrives` and `CommandsInOrder`.
  `OneDriver` is not inductive: a start and a confirm must know that no thread drives. `OfLastSwap` says
  that who drives, or is about to have a thread, has the last token drawn; `Known` that a thread that
  drives is registered or about to be, which is what start looks at, and that none drives while a stage
  is being set up; `PhaseShows` that while a thread drives the phase is a running one, which is what
  confirm looks at; `AtSteps` that a thread is at a step of `Program`. With two clients the
  invariant is false, as section 4 says; hence the assumption. `HeaterSeenTo` and `CancelStops` need
  `HeatInv` and `LateInv` besides: while the swap's heat is on there is a swap, or a cancel that will
  cool; a start finds the heater off; a worker that goes on after its swap is over is being waited for
  by a cancel that joins it, or is late; and who is late gets no further than the first command of an
  unload, and no swap begins before it has ended.
* `HomeAssistantProofs`: for any numbers of connections, calls and faults, `CameraOnce` and
  `OfflineWhenStopped`. `CameraInv`: an entry is made only where there is none. `ShownInv` adds to the
  property that what is shown is connected, described, and not about to be disconnected; it needs
  `ConnectionInv`: who stops holds the lock and has the client until the loop thread has ended, and
  callbacks run between connection and disconnection.
* `VideoQueueProofs`: for any viewers, sessions, calls and faults, `CameraStopped`. The invariant adds
  that a worker which has been stopped streams nothing, though the state does not say so yet.
* `PrinterRegistryProofs`: for any printers, accounts, threads, clients, requests and crashes,
  `NeverDeletesHeld`. The invariant adds that what is about to be deleted is not held, and the types,
  since a thread's job decides which service it deletes. Most steps move a thread on and leave the
  registry alone (`MovesStep`); Borrow and Return count a finite set of clients. `KeepsConfig` and
  `RestartSelects` hold as long as no two changes overlap: then one thread at most is between its load
  and its replace (`Changing`), the temporary file and the thread's value are what its step says
  (`Saving`), and the file is what all saves would have made (`FileInv`); the switch's lock is held for
  one switch, whose printer is selected in memory before it is saved, so that the file is behind only
  while that thread is under way (`SwitchInv`), and whose printer the account still has when it is
  saved, unless an import came between: `EditSelects` says what each save makes of the selection.
* `TimelapseProofs`: for any files, directories, capture threads, assemblies, crashes and calls,
  `CapturesAreOwned`, `OwnedByOne` and `DeletesNoFrames`. `CaptureInv` is `TypeOK` with `OwnerInv` and
  `FileInv`. `OneOwner` is not inductive: it must be known that a directory in progress is that of the
  capture, of the pending resume or of an assembly and no other is, that there is never a capture and a
  pending resume together, and that nobody has anything while the process is down, since `Restart` gives
  away all that is on the disk. Calls are composed of operators (`Finalising`, `Archive`, `Gone`), each
  with a lemma on what it hands over; `HandOver` and `LetGo` carry the ownership. `DeletesNoFrames`
  follows from it: a call deletes only a capture without frames or a resume that is given up, and an
  assembly only what it cannot move or what the archive's limit puts last by time.

Every invariant and action property that a run checks is a theorem. Only model-checked: what must
eventually happen, under fairness (`GetReturns`, `HeldRecovers`,
`UnheldStopsUnlessStopLost`, `AllRead`, `WriteComesBack`, `StallEnds`, `UploadsFinish`,
`HeldIsServedUnlessSwallowed`, `CapturesEnd`, `RecoversUnlessStopLost`, `SwapComesToRest`, `StaleHeartsEnd`,
`StopReturnsUnlessCommanded`), which is out of the prover's reach.

## 6. Not modelled

* Shutdown of services and `atexit`: called only when the process ends.
* Connection backoff, log suppression, and all limits in seconds: timing only; deadlines are
  abstracted to "may happen", or to "happens if the thing waited for cannot".
* Of the MQTT queue: z-offset waits, filament state and runout, events and progress notices. Of the
  history: archives, previews, rows from before there was a printer index, and schema migration.
* Of the web application: rendering, status, debug and static routes. Alert and console buffers are
  bounded deques appended and read under one lock.
* Of the timelapse's disk: a deletion that fails half-way, a move across file systems that copies a part,
  and two collections that get one name in the same second.
* The filament profile store: SQLite under one lock, little beyond the database's own guarantees.
* Login, cameras, notification services, ffmpeg: HTTP and outside programs, external where a module
  meets them.
* Codecs, generated packet code, cryptography and the command line: pure functions of bytes or
  arguments.

Next: the dialogue of a file transfer's replies; the z-offset wait; an abstract capture's life which the
timelapse implements.
