# Verification of the audio streamer firmware

TLA+ models of the concurrent core of this ESP32-S3 audio streamer, the TLC
runs that check them, and TLAPS proofs about most of them. Paths below are
relative to the repository; `src/main.c` is the application, `component/` is
`src/component/` in `PROJECT.json`.

1. [Inventory](#1-inventory)
2. [The modules](#2-the-modules)
3. [What the runs check](#3-what-the-runs-check)
4. [Bounds](#4-bounds)
5. [Fairness](#5-fairness)
6. [What is proved](#6-what-is-proved)
7. [Findings](#7-findings)
8. [What the properties leave open](#8-what-the-properties-leave-open)
9. [What is not modelled](#9-what-is-not-modelled)

## 1. Inventory

The firmware plays a stream from the network, or a file from the SD card,
through a chain of *audio elements*: a source (`http_stream` or
`fatfs_stream`), a decoder, an equalizer and `i2s_stream`. Every element is a
FreeRTOS task; neighbours are joined by a *ring buffer*; an *audio pipeline*
holds the chain. The application (`src/main.c`) runs a loop in `app_main`, an
HTTP and WebSocket server, and a TCP upload server beside them.

| component | state | operations | interacts through | hard because of |
|---|---|---|---|---|
| ring buffer, `component/audio_pipeline/ringbuf.c` | storage, two pointers, `fill_cnt`, a mutex, two binary semaphores, flags abort / done / unblock | `rb_read`, `rb_write`, `rb_abort*`, `rb_done_write`, `rb_unblock_reader`, `rb_reset` | called by the tasks of two elements and by whoever controls them | flags read and written without the mutex; wakeups given after it is released; timeouts |
| audio element, `audio_element.c` | `state`, `is_running`, `stopping`, `task_run`, `is_open`, five event bits, a command queue | `run`, `resume`, `pause`, `stop`, `wait_for_stop`, `terminate`, `deinit`; the task with its handlers and the callbacks open, process, close | commands in a queue, answers in event bits, status reports, aborts of its rings | two threads write the same fields without a lock; every answer is a bit that may be left over; timeouts |
| event interface, `audio_event_iface.c` | internal and external queue, queue set, list of listeners | `cmd`, `waiting_cmd_msg`, `sendout`, `listen`, `read`, `set_listener`, `remove_listener`, `destroy`, `discard` | element to pipeline owner | queue sets are taken apart and rebuilt while owners send; full queues drop |
| audio pipeline, `audio_pipeline.c` | lists of elements and of rings with their flags and hosts | `register`, `link`, `unlink`, `breakup_elements`, `relink`, `run`, `stop`, `wait_for_stop`, `terminate`, `deinit`, `reset_*` | calls the elements one after another | flags, hosts and the elements' own ring handles must agree after any sequence of relinks; order of frees |
| HTTP stream and playlists, `component/audio_stream` | connection, position, playlist, reconnect count | open, process, close, `next_track`, `fetch_again`, `set_auto_connect` | element callbacks and an event hook of the application | reconnects, live lists fetched again, track switches inside `process` |
| playback control, `src/main.c` | global handles, requested URL and volume with their flags, `stream_control_mutex` | `app_main`'s loop, `set_stream`, `set_volume`, `play_sd_file`, starts and teardowns | flags under a mutex; reports in `evt` | two tasks share the handles, one of them without the mutex; starts that fail half-way |
| uploads, `src/main.c` | TCP slots, one WebSocket session, static variables of the chunk handler | TCP client tasks, WebSocket frames, HTTP chunk requests | sockets, files | slots claimed without a lock; chunks out of order; broken connections; restarts |
| dispatcher, `component/esp_dispatcher` | queue of requests, queue of one result, registered functions, a shared handle | `reg_exe_func`, `execute` and its variants, `create`, `destroy` | mutex and two queues between callers and one task | results carry no name; timeouts; freed while others call |
| Wi-Fi network store, `component/wifi_service/src/wifi_ssid_manager.c` | blobs in flash: a configuration and a slot per network | `create`, `save`, `get_latest_config`, `get_best_config`, `erase_all`, `destroy` | called by the Wi-Fi service | power may go between any two writes; a counter in a byte |

`PROJECT.json` lists every component, also those with no control of their own
(board support, peripherals, binary libraries, vendored services), and the
hazards of this code at their lines, with the properties that cover them.

What makes each correct:

- **ring buffer**: a bounded FIFO; no byte lost, doubled or reordered; no sleep
  without a reason; an abort frees whoever is blocked;
- **element**: when a call says stopped or paused, the task is; no stop request
  is swallowed; the task processes only between open and close; it never sleeps
  while it is marked running; it is freed after its task is gone; every wait
  for a stop ends;
- **event interface**: after a change of the listener no report sits unseen in
  a queue; changes return although owners go on sending;
- **pipeline**: neighbours share a ring and nobody else does; a ring somebody
  writes to is never lost sight of; kept elements keep their bytes;
- **HTTP stream**: what is handed on is in order and whole; a stop is obeyed;
  a file ends;
- **playback control**: the last request wins and is served; a failed start
  leaves nothing behind; one task controls at a time;
- **uploads**: who is told success has the file on the card; no file stays open
  for nobody; an upload ends;
- **dispatcher**: an executor: functions run one at a time in order, and each
  caller hears once and of its own;
- **network store**: saved networks survive losses of power, each once, and the
  one unsaved for longest makes room.

## 2. The modules

| module | what it is |
|---|---|
| `ByteQueue` | abstract specification: a bounded FIFO of bytes |
| `RingBuf`, `RingBufProps`, `RingBufProofs` | `ringbuf.c`; its properties and the refinement of `ByteQueue`; theorems |
| `AudioElement`, `AudioElementProps` | `audio_element.c`: the task and one controlling thread; properties |
| `AudioElementProofs` | theorems about the element |
| `EventIface`, `EventIfaceProps`, `EventIfaceProofs` | `audio_event_iface.c`: a listener, the interfaces it listens to, the queue set; theorems |
| `AudioPipeline`, `AudioPipelineProps`, `MCAudioPipeline` | `audio_pipeline.c`: lists of elements and rings; chains for TLC |
| `AudioPipelineProofs` | theorems about the pipeline |
| `HttpStream`, `HttpStreamProps` | `http_stream.c`, `http_playlist.c`, and the application's hooks |
| `StreamControl`, `StreamControlProps`, `StreamControlProofs` | `src/main.c`: `app_main`'s loop, the HTTP task, the pipeline they share; theorems |
| `Upload`, `UploadProps`, `MCUpload`, `UploadProofs` | `src/main.c`: three ways to upload; the pairs of clients for TLC; theorems |
| `Executor` | abstract specification: functions run one at a time, in order, for callers |
| `Dispatcher`, `DispatcherProps`, `MCDispatcher`, `DispatcherProofs` | `esp_dispatcher.c`, `esp_delegate.c`; properties, the refinement of `Executor`; three calls for TLC; theorems |
| `KnownNetworks` | abstract specification: networks known across losses of power |
| `SsidManager`, `SsidManagerProps`, `MCSsidManager` | `wifi_ssid_manager.c`; properties, the refinement of `KnownNetworks`; symmetry for TLC |
| `SsidManagerProofs` | theorems about it: both properties, and what a reader of the flash finds |

How they hang together: `AudioElement` takes its rings as flags that abort a
sleeping process callback, which is what `RingBuf` shows of `rb_abort`;
`HttpStream` is what happens inside the open and process callbacks of one such
element; `AudioPipeline` sees rings only as handles; `StreamControl` sees
elements and the pipeline only as objects that are made, registered, linked, run
and freed, and `EventIface` only as a queue that a change of listener empties.

A definition marked `mutant` in a comment is a plausible bug of the definition
after it. No specification uses it; it is there to see that a property notices
when it is put in the place of the original.

### RingBuf

The variables are the fields of `struct ringbuf`; `sem` stands for `can_read`
and `can_write`, `task[s]` for the call in progress on side *s*. `rb_read` and
`rb_write` are cut at every point where another task can interfere: `TakeLock`,
`ReadTransfer` or `WriteTransfer` (what is done under the mutex to state only
its holder touches), `TestDone`, `TestAbort` and `TestUnblock` (one load each of
an unlocked flag), `Give` (release the mutex, then wake the other side), `Wake`
or `Timeout`, `Exit`, `Return`. `rb_abort_read`, `rb_abort_write`,
`rb_done_write`, `rb_unblock_reader` set their flag and give the semaphore in
two steps. Every byte is its number in the stream, so that order and loss show
in the values; `put` counts the bytes stored.

`rb_read` rounds a short read down to whole 32-bit words, which the model keeps:
a ring can hold bytes that are not readable yet.

`rb_reset` takes no lock. The model lets it run only when no copy is in progress
(`Quiet`), which is what its callers in the element intend.

### AudioElement

`task` has a program counter and a stack of return addresses, since
`audio_element_process_init` calls `on_cmd_error`, also from inside
`on_cmd_resume`. `ctl` is the controlling thread. Steps are single loads and
stores wherever the other side could see the difference; `el` holds the fields,
`bits` the event group. Two ghosts in `ctl` record what `stop()` `seen` and what
the caller was `told`.

The constant `Oddities` says which of `AllOddities` may happen, and the ghost `odd`
which have happened so far:

- `resume_wait`, `pause_wait`, `term_wait`, `wait_bit`: the wait of a resume, a pause,
  a terminate or `wait_for_stop` gives up after two seconds, and its caller goes on;
- `reset`: the state is reset under the working task, by a next track
  (`http_stream_next_track`, called from inside `process`) or by a caller that was told
  of a stop that had met the element still starting (`__audio_pipeline_wait_stop`).

The proofs allow all of them. The properties are stated over `odd`: each excepts only
what the code does not survive once it has happened.

### EventIface

Each interface has one queue; the listener's queue set holds a handle for every
message sent to a member. A change of the listener is the code's loop: drain and
`Leave` each queue, `Unlist` items, `Edit` the list and make a new set, `Empty` and `Join` each
queue again; senders may interfere between any two of these. The list stays as
the code leaves it, with repeated items and with items a failed change never
added. The task that listens makes the changes, as `app_main` does.

### AudioPipeline

`p` is the record of the pipeline: `el_list` with its flags linked and kept,
`rb_list` in its order with hosts, and the two rings each element was given.
Each public call is one action, since one task owns the pipeline; its loops are
folds over the lists, because the result depends on their order. `short` marks a
relink that could not make a ring and told nobody. `link` and `relink` are called
whatever state the lists are in, as the code allows: after a breakup, over elements
that are still linked because the last attempt met a tag nobody registered, or over
rings left behind. `astray` is a history variable that remembers that this was done
since the last unlink.

### HttpStream

`pc` is where the element's task is in `_http_open`, `_http_read` and the hook;
`http` holds the fields of `http_stream_t`, `conn` the connection. The server is
the environment: it answers, breaks off, honours a range or not for a list, and
moves its live window on. A list whose connection breaks while it is read is taken as
far as it came, or, if nothing came, for no list at all. Data are pieces of one read; a
list's text is one piece. `last`, `seen` and `again` are history variables for the properties.

### StreamControl

A start or teardown of a pipeline in `main.c` is a straight line of calls on
global handles. The model writes each as a sequence of operations (`Build`,
`Teardown`, `StopPipeline`, `Cleanup`), which a task carries out one by one
(`code[t]`); an operation is an action (`Create`, `Register`, `Link`, ...). The
loop of `app_main` is `TakeRequests`, `Change`, `HandleEvent` and their
alternatives; the handlers are `SetStream`, `SetVolume` and `PlaySdFile`.
`handles` is the set of global handles that are not NULL, `alive` the objects
that are allocated: they differ exactly where a handle dangles or memory leaks.

An operation that follows a handle to freed memory ends the model (`broken`), and
so does the moment both tasks are at the pipeline (`Uncontrolled`): nothing can
be said after it. One use of freed memory is excepted, the NULLs that
`audio_pipeline_unlink` writes into the hosts of its rings, since it happens in
every teardown.

`pipeline_restarting` does not appear: `app_main` sets and clears it within one
of its own steps and nobody else reads it. The equalizer and LED requests have
the shape of the volume request.

### Upload

The web server's handlers run in its one task, so a frame or a request is one
step; TCP clients have tasks of their own, whose steps end where one blocks.
`wire` and `back` are what is under way. A page on a web socket reads its chunks
with file readers that finish in any order. A TCP task function that returns
runs into the abort of ESP-IDF's task wrapper
(`CONFIG_FREERTOS_TASK_FUNCTION_WRAPPER` in `sdkconfig.esp32s3n8r8`), so
`TcpReturn` restarts the device. A request or a TCP client for which there is no
buffer ends at once (`HttpNoMemory`, `TcpNoMemory`). `history` records what the properties
except: `shared`, the clients that found one slot free at the same time, and
`mixed`, those one of whose chunks went to the file of another.

### Dispatcher

A member of `Calls` is one call of one task: it takes the mutex (`Lock`), sends
within five seconds or not (`Send`, `SendTimesOut`), and, if it waits, takes
whatever comes out of the queue of results (`Receive`). One that does not wait gives
a callback, or NULL if it is one of `Silent`: then its result goes into the queue of
results, and the call crashes where it would report a full queue. `Take`, `Run`,
`Reply` and `Leave` are the dispatcher's task. `Destroy...` releases the dispatcher as
`esp_dispatcher_destroy` does, at any time, without the mutex, beside calls in
progress and calls that begin meanwhile; `met` records those it met. Once it is freed,
a call that holds its handle takes no further step (it would use freed memory).
`Create` makes a new one behind the delegate's shared handle when nobody holds the old
one any more.

### SsidManager

Every write of a blob to flash is a step, and reads belong to the step of the
next write; `PowerCycle` may come between any two and starts the manager again
from what is in flash. That a blob is written whole is taken from ESP-IDF's NVS.
`get_best_config` picks any network in sight that is stored and not yet chosen:
signal strength is left out. `newer`, `torn` and `tried` are history variables.

## 3. What the runs check

### Runs that pass

**ringbuf** — every interleaving of reader, writer and a controlling thread.
`Fifo`: the stored stretch holds the unread bytes in order, also over the end of
the storage. `ReaderNotForgotten`, `WriterNotForgotten`: who sleeps has a reason,
or a wakeup is on its way (`GiveOwed`). `DoneLeavesPartialWord`: the end is
reported with less than a word left. `ImplementsQueue`: the whole is a
`ByteQueue`, with `Unread` read off the storage as its queue. `AbortFrees`:
`rb_abort` frees a blocked task although the other never calls again.
`DoneIsReported`, `WritesComplete`: if the reader keeps reading, the end of the
stream is reported and every `rb_write` ends. In this run the reader's waits may
time out (`Timed = {"reader"}`); the safety theorems of section 6 hold for any
`Timed`.

**element_stop** — a queue of three, and waits for a stop that may give up
(`wait_bit`), also the one in `audio_element_deinit`. `StoppedIsStopped`: after
`wait_for_stop` returned for a stop of a running or idle element, the task does not
work until it is resumed. `FreedAlone`: `audio_element_deinit` frees after the task set
its last bit. `StopEnds`: a wait for a stop ends although `process` may sleep on its
rings for ever and no wait has to give up.

**element_any** — a queue of one command, and `reset`: a playlist, and a caller that
resets after a stop that was too early: what still holds (`PausedIsPaused`,
`StopMarkIsOwed`, `ProcessesOpen`).

**event_iface** — two interfaces added, removed and destroyed while their owners
send. `NothingUnseen`: after a change that returned ESP_OK every message has its
handle in the set. `ReportsArrive`: a message to a member is read or discarded.
`ChangesReturn`: the drain loop ends, unless an earlier change had failed.

**pipeline** — three elements in two chains, through every sequence of calls.
`Connected`: neighbours share a ring, and no other pair has it. `WritersHost`: a
ring that is written to exists and names its writer, so `unlink` finds it. Both
hold also for attempts that fail and are tried again. `KeptAndEmpty`: a relink
leaves kept elements their ring with its bytes and gives the others empty ones,
unless a chain was linked or relinked over what an earlier one left (`astray`).

**http_stream** — a file, a live list and a master list. `InOrder`: pieces are
handed on in order, none twice, none left out, except for what is given up whole, and
after a list that broke off before its text came (section 8).
`Whole`: a file is finished only after its last piece. `StopObeyed`, `FileEnds`:
liveness under broken connections.

**stream_control** — two streams, two volumes, a file, a failing call, reports of
elements. `LastStreamPlays`: at rest the pipeline has the URI *and the decoder* of
the stream last asked for, or the request is still flagged, although `app_main`
reads the URL twice without the mutex. `LastVolumeSet`: the same for the volume
of a pipeline on which one was set; of one that nobody has set a volume on yet it says
nothing. `NothingLeft`: failed starts and teardowns leak nothing. `StreamIsServed`: a
request is served in the end.

**upload** — pairs of clients in every combination of ways. `WsUploaded`,
`HttpUploaded`, `TcpUploaded`: what "success" is worth. `NoFileLost`: a file is
open only while something refers to it. `EveryUploadEnds`: nobody waits for ever,
except a page one of whose frames will never be acknowledged.

**dispatcher** — three calls, each waiting or not, one without a callback if it does
not wait, a queue of one, a dispatcher that is destroyed at any time and made anew.
`OwnResult`: a caller hears once, of its own function. `DestroyDrains`: it is freed only
when its task has answered everyone who came before, and has left. `CallsReturn`,
`CallbacksCome`: liveness. `ImplementsExecutor`: the whole is an `Executor`. All
hold until a call crosses the dispatcher (`Crossed`): an asynchronous one without a
callback, or a synchronous one that meets `esp_dispatcher_destroy` (section 8).

**wifi_networks** — four networks, three slots, power lost at any write.
`ImplementsKnownNetworks`: the slots implement the store of `KnownNetworks`, and the
order of forgetting survives every loss of power outside a save or an erasure.
`ChosenWasTried`: a network counts as chosen exactly if it was handed out since
the last save, erasure or start, so none is offered twice and none left out.

### Runs that find a violation

**stream_race** and **http_live**; see [Findings](#7-findings).

## 4. Bounds

- *RingBuf*: `MaxBytes` bounds the bytes ever stored. A ring of 5 bytes, reads of
  3 and 6, writes of 4: sizes that divide neither the ring nor a word, a request
  longer than the ring, and 8 bytes, so that both pointers wrap and a partial word
  is left over. The proofs have no such bound.
- *AudioElement* has no bound: program counters, five bits and the queue are
  finite. Queue sizes are 3, the shortest that is long enough for `FreedAlone`, and 1,
  where every command may meet a full queue. Each run allows the oddities its
  properties survive; that each exception is needed was seen by dropping it, upon which
  TLC finds the property violated. The proofs are for any size and all oddities.
- *EventIface*: `MaxItems` 3 list items and `MaxSends` 3 messages for each of two
  interfaces with queues of two: an interface may be listed twice, its queue be
  full, and be filled again after a drain. The proofs have no such bounds.
- *AudioPipeline*: three rings, one more than a chain of three needs, so a ring is
  left over, is taken again, and runs out. No bound on the calls.
- *HttpStream*: a file of three pieces, segments of two, a window of two out of
  four segments, two remembered, one reconnection in a row: the window moves past
  what was remembered, and a break falls before, inside and at the end of a track.
- *StreamControl* (not bounded in the proofs): `MaxPlays` files, `MaxFailures` failing calls and at most
  `MaxEvents` reports waiting. One play and one failure already let a file come
  before, between and after the parts of a change of stream, and a start fail at
  every step of either task. Two reports are enough for one to be lost (a full
  FreeRTOS queue drops) and for two to be out of date.
- *Upload*: two clients, the smallest number that can meet; up to three chunks,
  so that chunks after the first can change places; one slot, because two clients
  in different slots do not meet. Three clients can do at one slot what two cannot
  (section 8); the proofs have no bound on clients, slots or chunks.
- *Dispatcher*: three calls, so that one waits for the mutex while one waits for
  its result and one is queued; a queue of one is full at once.
- *SsidManager*: `CntMod` 4 stands for the 256 values of a byte, and saves stop
  when a counter reaches `MaxCnt` 5, after it has outgrown them.

## 5. Fairness

- *RingBuf*: each task goes on with a call it has begun (weak fairness of its
  steps); taking the mutex is strongly fair, because FreeRTOS queues the tasks
  that wait for one. Nobody is obliged to begin a call. Where a property needs a
  reader that reads on, as element tasks do, it says so: `KeepsReading` is the
  premise of `DoneIsReported` and `WritesComplete`.
- *AudioElement*: weak fairness of the task's own steps and of a call in
  progress, but none of giving up a wait, which would end it by itself. The open callback returns. `ProcessReturns`, what the process
  callback does on its own, is **not** fair: it may sleep on a ring for ever. It
  is sure to return only after an abort of a ring, which is what `AbortFrees`
  says of the ring buffer.
- *EventIface*: the listening task runs; owners send finitely often (`MaxSends`),
  since one that never pauses would keep the drain loop busy for ever.
- *HttpStream*: the task runs and what it asks of the server is answered or
  breaks off. Nobody has to send a command, no list has to move on.
- *StreamControl*: `app_main`'s loop runs, and so does a handler that has begun.
  No user has to ask for anything, no element has to report.
- *Upload*: handlers and tasks that have something to do go on, messages under
  way arrive while the connection stands; no client has to leave.
- *Dispatcher*: weak fairness of its task, of each call that has begun (taking the
  mutex included: the calls are finite in number, so it comes free for good) and
  of the ending of the dispatcher. Functions handed over are taken to return.
- *AudioPipeline* and *SsidManager* are checked for safety only.

## 6. What is proved

TLAPS checks these for every value of the constants that satisfies the
assumptions named in the modules, and those named here.

**RingBuf** (`RingBufProofs`; the ring has at least one word, request lengths are
positive, any side may time out, the number of bytes is not bounded)

| theorem | establishes |
|---|---|
| `TypeCorrect` | `TypeOK`: `fill_cnt` stays in 0..size |
| `FifoCorrect` | `PointersAgree` and `Fifo` |
| `ReaderNeverForgotten`, `WriterNeverForgotten` | `ReaderNotForgotten`, `WriterNotForgotten` |
| `NeverBothAsleep` | `NoMutualSleep` |
| `DoneLeavesLittle` | `DoneLeavesPartialWord` |
| `RingIsQueue` | the ring implements `ByteQueue` |

None of the wakeup properties is inductive: they speak of a task that waits, and
what matters was seen before, under the mutex. `IInv` adds `LockOwner` (the mutex
is held exactly by the task in its critical section), `LeftInLoop`, and
`ReaderWakes` and `WriterWakes`, which say at each place after the tests what the
task found, and that whoever changed it since has left or owes a token.
`NeverBothAsleep` follows because a full ring of a word or more is not starved.
The copies over the end of the storage are two lemmas (`TakeKeepsFifo`,
`StoreKeepsFifo`) over `Cell`; the refinement rests on a lemma that joins two
runs of consecutive bytes.

**AudioElement** (any queue size, any `Oddities`: waits may give up, tracks change,
callers reset too early)

| theorem | establishes | until |
|---|---|---|
| `ElementTypeCorrect` | `TypeOK`: the queue keeps its bound, handlers nest at most two deep | — |
| `SleepsHaltedAlways` | `SleepsHalted`: the task never blocks on its queue while marked running | — |
| `ProcessesOpenAlways` | `ProcessesOpen` | — |
| `StopMarkIsOwedAlways` | `StopMarkIsOwed` | a terminate gives up |
| `PausedIsPausedAlways` | `PausedIsPaused` | a pause gives up |
| `StoppedIsStoppedAlways` | `StoppedIsStopped` | a resume or a terminate gives up, or the state is reset; not pauses or waits for a stop |
| `FreedAloneAlways` | `FreedAlone`, with a queue of at least three (the code's has five) | a resume, a pause or a terminate gives up, or the state is reset; not waits for a stop |

`AudioElementProofs` relates fields that are written in separate steps:
`RunningInv` (marked running means polling and open, except at the named places),
`StateInv` (only the task writes RUNNING, and only when open), `PlaceInv` (what
was seen to before each place), `StackOK` (which handlers may be nested in which)
and `TaskInv` (one task at a time).

`RunInv` says that who works is marked running. Four more are added on top, each
inductive until something odd happens that it does not survive. `MarkInv`
(`MarkSoFar`): a destroy command, and a task that obeys one, has its caller waiting in
`audio_element_terminate` (`DestroyInv`), so nobody is inside `audio_element_stop`
when the task ends or when `audio_element_run` empties the queue (`AliveInv`), and
a set mark has its command before it (`OwedInv`). `PauseInv` (`PauseSoFar`): a pause
that is waited for is the last command in the queue, behind every command somebody
gave up on (`PauseOrder`), so that none of them is left to wake the element once the
pause is obeyed (`PauseTold`); this is why a pause survives what a stop does not.
`RestInv` (`RestSoFar`): a resume on its way has its sender waiting, and is the only
one (`OrderInv`); nobody resets a working element (`StayInv`); and what `stop()` saw
and the caller was told stays true until a resume is called (`ToldInv`). Its exceptions
are needed: a resume that gave up leaves a command behind that is obeyed later, after a terminate
that gave up the last bits of the old task answer a resume of the new one, and a state
reset under a working task makes it open again.

`FreedAloneAlways` (`DeinitInv`) needs that the destroy command of `audio_element_terminate`
finds room in the queue, for the call ignores that it did not. Whoever waits for an
answer sent the last command (`LastInv`), so only stops can fill the queue, which
nobody waits for. `RoomInv` counts them: two, one while the element runs, none while
it runs unmarked. Two can be there although each is sent under the mark, since the
task may come to rest by itself and take the mark back before it receives the
first. Hence a queue of three is long enough; with one of two the property fails.

**AudioPipeline** (`AudioPipelineProofs`; any elements, any rings, any chains of at
least two different elements)

| theorem | establishes |
|---|---|
| `AlwaysSound` | `Sound`, the inductive invariant |
| `WritersAreHosted` | `WritersHost` |
| `ChainsAreConnected` | `Connected` |
| `RelinkKeepsBytes` | `KeptAndEmpty` |

The properties say nothing of a pipeline that is not linked, nor of which of several
rings an element would find, so none is inductive. `Sound` has two layers. `Fit`
holds whatever is called: the ring an element writes to names it and is linked or
kept (`HostedInv`), and linked elements are registered while there are rings
(`OrderInv`), so that the loop of `breakup_elements` meets them all. It is enough for
the first two theorems. `Good` holds until a chain is linked or relinked over what
another left (`astray`), and is what the third needs: an element that writes is linked
or kept (`HeldInv`); its ring is the *first* one it hosts (`WritersInv`), which is the
one that `audio_pipeline_el_item_link` finds again for a kept element; kept elements
and kept rings belong to each other one to one (`KeptInv`); and a linked ring is kept
or hosted by a linked element (`HostsInv`), or `Take` would pass over it or give it
away. `Ties` says
of the first elements of a chain what `Connected` says of the whole.

The calls are loops, written as folds. Each is taken apart into a function that gives
the pipeline after every turn (`LinkTurns`, `BreakTurns`, `RelinkTurns`), by the
definition of the fold and the existence of a recursive function over finite sets
(`FoldExists`). What each turn keeps holds at the end (`Upward`), because among the
turns after which it did not there would be a least one (`Least`, from the library's
theorem that strict inclusion of finite sets is well-founded); this is an induction over
numbers that needs no induction theorem. The loop invariants are `LinkedUpTo`,
`BrokenUpTo`, in which a linked ring may have lost its host (`Loose`) until the free
rings are unlinked after the loop, and `RelinkedUpTo`, which compares with the pipeline
before the call, with `RegainedUpTo` for what holds while not astray. `Pass` and
`Brought` say of one turn what it may change whatever branch it takes, `Turn` and `Took`
what it may change in a good pipeline.

**Dispatcher** (`DispatcherProofs`; any number of calls, any queue size)

| theorem | establishes |
|---|---|
| `TypeCorrect` | `TypeOK` |
| `HearsOwn` | `OwnResult` |
| `DrainsBeforeFree` | `DestroyDrains` |
| `Refines` | `ImplementsExecutor` |

`BaseInv` holds always and says whom the owner may have met; `IInv` holds until
`Crossed`, which never ends (`CrossedStays`), so that the invariant is `~Crossed =>
IInv`. It says where a result may be: in `result_que` only while the caller it names,
or the owner, waits for one. `OwedInv` is what `DestroyDrains` needs: a callback still
owed to a call that the owner did not meet is of the function that runs, or in the
queue ahead of the message to quit. What is queued behind that message never runs;
`WaitingFacts` says that the refinement mapping leaves it out, and `SendRefines` that
such a call is none of the executor's.

**EventIface** (`EventIfaceProofs`; any number of interfaces, any queue size)

| theorem | establishes |
|---|---|
| `TypeCorrect` | `TypeOK` |
| `SeesAll` | `NothingUnseen` |

`Account` says for each queue how many handles it has. It is kept by a sender only
if the set has room, so `RoomForHandle` counts: the handles are numbered within
their queues, which maps them one to one into members times places. `OkInv` follows
a change: which items have left so far (`Between(at, Len(items))`), or joined.
Where a change has failed `Account` may be wrong; `FailInv` says that no later one
succeeds, because an item is listed twice or is no member and cannot leave.

**Upload** (`UploadProofs`; any number of clients, slots and chunks)

| theorem | establishes |
|---|---|
| `FilesKept` | `NoFileLost` |
| `WsToldTrue` | `WsUploaded` |
| `HttpToldTrue` | `HttpUploaded` |
| `TcpToldTrue` | `TcpUploaded` |

A handle is lost when a slot takes a file while it holds another, or closes one that
something else refers to. `OwnerInv`: each file is referred to once, by the handler
if it is a page's, by one slot if it is a TCP client's. `SlotInv`: a slot that is
found free holds no file, as long as nobody else has found it too (`shared`), since
a slot with a file that is not active is one its client is about to mark. `OnceInv`
and `WireInv`: a TCP client opens its file only once, because chunk 0 is the first
message of its connection and no other.

For the other three, `CardInv` says who may write where: a client that found its
slot alone keeps it until its file is given up, so a step of another client leaves
its file as it is, or puts a chunk into the wrong one (`Elsewhere`). Then each way
has an invariant about one client. `HttpInv` and `TcpInv`: one message is on its way,
and says how many chunks the file has, as many as are acknowledged or one more.
`WsInv`: a chunk is waiting for its reader, on its way, or gone, never two of these,
and only chunks that are gone are on the card; as many different chunks as the file
has are all of them (`AllChunks`).

**StreamControl** (`StreamControlProofs`; any streams and volumes, any number of
plays, failures and reports; up to the moment both tasks are at the pipeline)

| theorem | establishes |
|---|---|
| `AlwaysSound` | `Sound`, the inductive invariant |
| `NothingIsLeft` | `NothingLeft` |
| `LastVolumeIsSet` | `LastVolumeSet` |
| `LastStreamIsPlayed` | `LastStreamPlays` |

The properties speak of the moments between two programs, so the invariant has to
say what is true at every place within one: of a start, a teardown, a cleanup after
any of its steps, a change. `Flow` does this without naming the places. It says of an
operation what must follow it in its program and what may not (an element is freed
after it is unregistered and before the pipeline; what is created is registered
later; nothing is freed once something is registered), and holds of every program
`main.c` runs and of every rest of one. `Kept` then relates the state to what is
still to be done. `HeapInv`: what is allocated has a handle, and is the pipeline, one
of its elements, or something that will be freed or registered. `VolumeInv`: a volume
that is out of date is flagged, or `app_main` is about to set the last one and does
nothing else before. `StreamInv`: a stream that is out of date is flagged or about to
be torn down, and the address `app_main` has copied, and the decoder it has chosen by
reading it the first time, are the last or a newer request is flagged.

**SsidManager** (`SsidManagerProofs`; any networks, any number of slots, any width
of the counter)

| theorem | establishes |
|---|---|
| `OfferedOnce` | `ChosenWasTried` |
| `KnownOnceAndBounded` | `StoreInv`: each network is in the flash once, no more of them than slots, and the latest is one of them |
| `SlotsImplementStore` | `ImplementsKnownNetworks` |

The inductive invariant holds between any two writes. `FillInv`: every slot that
counts has been written, save after a broken erasure, when no slot holds a network.
`SaveInv`: the slot being saved to is that of the network, one not counted yet, or
one that may go. `OnceInv` and `BlankInv`: no network is in two slots, and a slot
without one is left by a broken erasure. `FlagInv`: what the flags say at each place
of a call. `AgeInv`: the counters order the networks as they were saved, though half
of them may have been counted up; those of the network being saved say nothing yet.
A loss of power keeps that order unless it breaks off a save or an erasure.
`OldestFound` is the lemma about `nvs_get_write_id`: its scan is a recursive
function, and that one exists at all, and what it returns, follows from the least
slot for which it would not (`Least`), without an induction theorem. The refinement
maps a write to a step of the store or to none: writing a slot in use is `Store`,
writing one that is not counted yet is nothing, and counting it is `Store` or
`Point`.

**Only model-checked**: everything about liveness, which is out of the prover's
reach, and `InOrder` and `Whole` of `HttpStream`. The
`TypeOK`s of modules without proofs are stated for the reader and are not among the
runs' properties.

## 7. Findings

Each is a run with a counterexample; `PROJECT.json` quotes the line it
contradicts.

- **stream_race** — `app_main` has found no pipeline and builds one, without the
  mutex (`src/main.c:5025-5030`), when `play_sd_file` takes the mutex and builds
  another through the same handles (`4655`). The comment at `4879` has changes wait for
  a restart; only those that `app_main` makes itself do.
- **http_live** — with the application's settings a live list is not fetched
  again at its end: `_http_read` takes the answer of `http_stream_fetch_again` for
  the end of the data (`http_stream.c:767`, against `src/main.c:392`).

## 8. What the properties leave open

Where a stronger property fails, the property says what holds, and the exception
is part of its statement. A reader should know these:

- *Ring buffer*: `rb_read` loads `is_done_write` twice (`ringbuf.c:186`, `196`);
  `rb_done_write` in between makes it report the end with up to three bytes unread,
  hence `DoneLeavesPartialWord`. An abort replaces the count of bytes `rb_read` has
  already taken (`251`). `rb_reset` takes no lock (`122`).
- *Element*: a stop that meets an element while it opens finds STOPPED_BIT of the
  stop before; the wait returns at once and the task goes on
  (`audio_element.c:1259`), so `StoppedIsStopped` speaks only of what `stop()` saw
  running or idle. Once a terminate has given up, `audio_element_deinit` frees an
  element whose task is still in a callback (`1051-1052`); once a resume has, its
  command is obeyed after a later stop (`1229`), and once a pause has, its answer is
  taken for that of the next. `pause` on a halted element that is just being resumed relabels it
  and reports success; of a finished element, it makes the next resume skip the
  reset of an output ring flagged done (`274`). After a failed open the task
  reports the stop first and aborts both rings afterwards (`280`). A queue of one or
  two could be full of stops when `audio_element_terminate` sends its command, and the
  element would be freed under its task (`FreedAlone`); the code's has room for five.
- *Event interface*: after a change failed half-way an interface is listed and not
  in the set; the next change never ends (`audio_event_iface.c:108`). `httpd` changes
  the listener while `app_main` may be blocked on the set (`src/main.c:4755`,
  `5042`), which the model leaves out. `remove_listener` never removes a queue that
  `set_msg_listener` added.
- *Pipeline*: `kept_ctx_el` NULL still reserves the first working element
  (`audio_pipeline.c:791`, against `audio_pipeline.h:425`); rings grow in number over
  relinks (`900`); the last element keeps its input ring after a relink and an
  unlink (`844`); `relink` reports success although a ring could not be made (`974`);
  `deinit` after a breakup leaks rings. A `relink` that met a tag nobody registered
  and is tried again, or a `link` after a breakup, makes an element host two rings;
  the next relink gives it the first, not the one it kept (`872-885`), hence `astray` in
  `KeptAndEmpty`. The static ring handles in `link` and `relink` (`463`, `870`) are
  shared by pipelines linked at the same time, and start as none in the model.
- *HTTP stream*: a list whose connection broke is opened at an offset of its text and
  plays nothing (`http_stream.c:416`); if its first read breaks (`369-371`) its text is
  handed on as audio and counted in `byte_pos`, so that the track resumed after it
  loses as much (`Astray`); a pause before the first byte of a track skips
  it; a window longer than the 18 entries remembered plays old segments again; more
  than 128 entries unheard drop the first. `HttpStreamAssumption` excludes the last
  two. The text of a master list's media list is handed on as audio (`594-595`).
- *Playback control*: a change of stream after a file was played leaves
  `fatfs_stream_reader` pointing at freed memory (`src/main.c:4986`, `5015`); both
  teardowns free the elements before they unlink them (`5009`, `4181-4209`); a failed
  start frees elements and then the pipeline that still lists them (`4371`); a
  pipeline that stops within five seconds of a restart is not restarted
  (`5204-5229`); the buffer monitor follows handles that are being freed (`4510`).
- *Uploads*: "success" on a web socket means every chunk once and the first first,
  not the order of the others (`src/main.c:1003`). A frame that could not be written
  is never answered, and a page that reconnects never goes on. Two pages at the
  chunk handler mix their files and are both told success (`3800`); two TCP clients
  that find one slot do too (`1766`), and when one of them has ended and freed the
  slot, a third one gets it while the other still writes, into the third one's file
  (`1977`); a request that breaks off leaves its file open
  until the next upload. Every end of a TCP client restarts the device (`1982`).
- *Dispatcher*: the delegate's shared dispatcher can be destroyed by the network
  store's `destroy` while its handle stays set (`wifi_ssid_manager.c:496`), and beside
  calls in progress, since nothing asks for them: a synchronous call and the owner then
  wait for one result and take each other's, what is queued behind the message to quit
  never runs, and who waits for the mutex uses it when it is freed
  (`esp_dispatcher.c:346-376`). An asynchronous call with a NULL callback leaves its
  result to the next caller (`140`) and is called when the queue is full (`227`); only
  tests make one. These are what `Crossed` and `met` except. A function that calls its
  own dispatcher and waits blocks it for ever.
- *Network store*: calls from two tasks are not ordered by anything (`214`); a save
  that is broken off may have counted some slots up and not others, and what was saved
  before it may be forgotten in any order (`newer`); after a broken erasure slots without a network count as used (`torn`); after 256 saves
  without a network the oldest may not be the one that is forgotten (`worn`).
  `create` ignores a new `max_ssid_num` once something is stored.

## 9. What is not modelled

- *Ring buffer*: `rb_create` and `rb_destroy` (Init, and the end); calls
  that only read (`rb_bytes_filled`, ...).
- *Element*: `task_stack` 0, a missing open callback, `wait_for_buffer`, further
  rings (`multi_in`, `multi_out`), status reports, URI and info. A created task
  answers within the timeout of `run`.
- *Event interface*: changes of a listener by another task than the one that
  listens, `cmd_from_isr`, `set_cmd_waiting_timeout` beyond what `AudioElement` uses.
- *Pipeline*: registering an element again, or unregistering it, while there are
  rings (`StreamControl` has it for the application's own calls), `link_insert`, `check_items_state`,
  `change_state`, the calls that only pass on to every element.
- *HTTP stream*: keys, gzip, PLS lists, ranges the user asks for,
  redirection, elements that write, `http_stream_restart`, a list line cut in two by a
  short read, the status of a track connected on the way.
- *Playback control*: readers of the handles (buffer monitor timer, status
  replies), the creation of `evt`, failing allocations in `register` and `link`,
  delays. `app_main` holds the mutex only within `TakeRequests`, and the server
  has one task, so the handlers' own waits for the mutex do not time out. The
  branch for `AEL_MSG_CMD_FINISH` is left out: elements send it to no external
  queue.
- *Uploads*: `upload_file_handler`, which receives a whole form in one request with
  nothing beside it; deleting files; chunk 0 sent twice, chunks of size 0, files near
  2^32 bytes; two uploads of the same file, which the file system would have to
  tell apart.
- *Dispatcher*: the actions of `esp_actions`, and making the delegate from two tasks
  at once.
- *Wi-Fi service*: `wifi_task` and the setting handlers. The task's queue of three
  drops requests without a word and shares its disconnect reason with the driver's
  callback, so it promises little that could be stated; BluFi, SmartConfig and AirKiss
  are callbacks of closed libraries. The application uses `esp_wifi` directly
  (`src/main.c:515-580`). Failing flash calls are left out of `SsidManager`.
- *Event cast*: a list of queues under one mutex.
- *Services the application does not start* (OTA, coredump, battery, display, input
  keys, Bluetooth, DuerOS, clouds, playlist, recorder), *drivers and board support*,
  and *binary libraries*: I/O without control of their own, or not part of the
  program. `main_simple.c` is an older copy of the application, `main_test.c` is empty.
- *Desktop uploaders* (`advanced_uploader_gui.py`, `tcp_uploader_gui.py`): the header
  they send, a name length and a file size, is not the one `handle_tcp_client` reads,
  so TCP clients are modelled from the server's side.

Taking these further would start with `Whole` and `InOrder` of `HttpStream`, which
need an invariant over the places in `_http_read` (where the connection stands
against what was handed on).
