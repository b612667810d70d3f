# A TLA+ model of the cam_viewer media player

cam_viewer is an Android view for a camera stream: a Java `VideoPlayer` on top
of a native player (FFmpeg, POSIX threads, JNI). This directory holds TLA+
modules of the native player, its threads and operations, and of the Java classes
above it, TLC runs on small instances, and TLAPS proofs. Paths below are relative to
`src/src/main/`.

## 1. The system

| Component | State | Operations | Interacts through |
|---|---|---|---|
| packet queue, `cpp/queue.c` | ring of preallocated elements, `next_to_write`, `next_to_read`, `ready[]`, `in_read` | push start/finish, pop start/finish/roll back, init, free | caller's mutex and condition variable; elements used in place |
| reader thread, `player_read_from_stream`, `cpp/decode.c` | local `AVPacket`, its position in the loop | read, push, end of stream, exit | queue, `stop`, `stop_streams`, `interrupt` |
| decoder thread, `player_decode`, `cpp/decode.c` | the element it has taken, `err` | pop, decode, wait for the frame's time, draw, free, drain | queue, `stop_streams`, `pause`, window, `onUpdateTime` |
| frame clock, `player_wait_for_frame` | `start_time`, `pause_time`, `Test` | check, correction, timed wait in naps of at most 500 ms | `mutex_queue`, wall clock |
| player operations, `cpp/player.c` | `struct Player`: flags, thread handles, FFmpeg contexts, window | init, set data source, resume, stop, render, render stop, dealloc | `mutex_operation`, `mutex_queue`, `mutex_interrupt` |
| Java player, `VideoPlayer.java` | native pointer, three time fields, listener | tasks for open and stop on a serial executor, `Show`, `DeallocatePlayer`, `onUpdateTime`, runnable on the UI thread | JNI, UI queue |
| surface view, `VideoSurfaceView.java` | `mCreated` | surface created / destroyed | `render`, `renderFrameStop` on the UI thread |
| JNI bridge, `cpp/native-lib.cpp` | none | one operation per call; `setDataSourceNative` opens and then resumes | `VideoPlayer`, `player.c` |
| value types, pixel conversion, prebuilt libraries | none of interest | | |

Only one stream (video) is ever captured, so there is one queue and one
decoder. Audio, subtitles and seeking are commented out in the source.

**How the parts work together.** `player_set_data_source` runs under
`mutex_operation`: it stops an earlier session, opens the input, allocates the
queue, clears `stop` and `stop_streams`, and creates the decoder and then the
reader. The reader reserves an element under `mutex_queue`, fills it without the
mutex and marks it ready; the decoder takes it, decodes, waits for its time,
frees the packet and gives the element back. To stop, `player_stop` sets
`interrupt`, takes `mutex_operation`, sets `stop` and joins. The reader notices
`stop`, sets `stop_streams` and waits until the decoder, having drained the
queue, clears it; then it flushes the codec and ends. Room, data, `stop`,
`stop_streams` and `pause` all use the one condition variable `cond_queue`.
Opening and stopping are Java tasks that run one after the other on a background
thread; surface callbacks call `render` and `renderFrameStop` on the UI thread, and
the latter stops the session too, so two threads compete for `mutex_operation`.

**What is hard here.** Elements are used outside the mutex; five conditions
share a condition variable; each thread waits for the other at a stop; either
thread can end early (a failed attach, a decoding error, a failed duplication);
`av_read_frame` may block until it is interrupted, and the interrupt can be
cleared by a session that is starting; packets must be freed once whichever way
the threads end; every stage of opening can fail with or without threads running,
and one path undoes it; the window is taken from under a session that another
thread may just have opened; a frame is waited for in naps with a clock that can be
set; plain Java fields carry reports between threads. The hazards
are listed one by one, with the lines where they bite, in `PROJECT.json`.

**What makes each part correct.**

- queue: one user per element, FIFO order, no lost wake-up, nothing survives re-creation;
- threads: no packet leaked, freed twice, decoded out of order or after its end; a stop ends; playback flows; the codec is flushed by one thread alone;
- operations: what a session acquires it releases, whatever stage failed; nothing is released under its users; a stop leaves no thread; an operation returns;
- time reports: the screen ends up with the last report, and the end of the stream is shown;
- frame clock: a frame is neither early nor held beyond its time, corrections rush nothing, deadlines are well formed;
- Java player and surface view: the client's last news is true, a stop is answered, callbacks return, the window is there when they assert it, a freed player has nothing left in it;
- file path: the URL that is opened is the one asked for.

## 2. Modules

- `BoundedFifo` is the abstract specification of the queue: a sequence of at
  most `Capacity` entries in the order of reservation. An entry is written by
  its producer, committed or given up by it, taken from the front once
  committed, used in place, and dropped or put back.
- `PacketQueue` is `queue.c`. Every critical section is an action. The contents
  of elements (`elem`) are written by `Fill` and `Use` outside the mutex, as the
  callers do. `waiting` is the set of threads in `pthread_cond_wait`: a thread
  whose test fails joins it, a broadcast empties it, `Wake` removes any of them
  for no reason. `to_write[p]` is the out parameter a producer keeps between
  start and finish. `PushAbandon` is the exit of the reader between the two
  calls. `QueueInit` leaves `ready` arbitrary because the code does not
  initialise it. `Quiescent` is the contract of `queue_free`. The refinement
  mapping (`Entries`) reads the ring from `next_to_read` to `next_to_write`.
- `Pipeline` composes the queue (`Q == INSTANCE PacketQueue`) with the reader,
  the decoder and the controller, which is whichever thread runs
  `player_set_data_source` or `player_stop` inside `mutex_operation`; since that mutex
  serialises them, one label `cpc` is enough. `rpc` and `dpc` are the positions
  of the two threads in their loops. A critical section that touches the queue
  several times (the end of stream, the drain) keeps `mutex_queue`; the others
  are one action. `interrupt` is set outside `mutex_operation` and cleared when a
  session starts, as in the code. `nread` and `freed` count what the source delivered
  and what was freed. `Faults` chooses what may fail. Whether a packet gives a
  frame, whether there is a window and whether a frame is due are choices.
  A second instance, `PQ`, sees only the threads blocked for reasons of the
  queue; `UsesQueue` says that through it every step is a step of `PacketQueue`.
- `Session` is the abstract specification of a playback session: opened, used,
  closed; threads start while it is opened, with the store (the packet queue)
  already there; the store goes away when no thread is left. `Pipeline` and
  `PlayerOperations` both implement it (`ImplementsSession`), each through a
  mapping of its labels to `phase`, of the threads that have not ended to `workers`, and of
  the queue to `store`.
- `FrameClock` is `player_wait_for_frame` inside a session: `check` is the loop
  body under `mutex_queue` up to a wait, `arm` the reading of the clock for the
  deadline, `nap` and `paused` the two waits. Its variables are the fields and
  locals of the code. `ClockMoves` is the environment; with `Prompt` it waits for
  a thread that can run, as in a machine that is fast against 100 ms. `Deadline`
  computes modulo `Word`, the 32 bits of `unsigned long` on armeabi-v7a.
- `PlayerOperations` is `player.c` seen from its callers. `op` is what each caller
  asked for, `operation` the holder of `mutex_operation`, `step` its position: one
  label and one action for each stage of `player_set_data_source` and each
  release of `player_stop_without_lock`, which the error path shares. `held` is
  the set of pointers of `struct Player` that are not NULL. The threads are
  reduced to what matters for this: whether they run, read from the source, have the
  codec in use or the window locked, and the stop handshake. The fault names are
  "create_reader" (creating the reader fails after the decoder exists), "attach"
  (a thread cannot attach to the VM) and "decode"; every stage may fail
  besides. The assertions of `jni_player_render` and
  `jni_player_render_frame_stop` are preconditions of `Render` and
  `RenderFrameStop`; `VideoPlayer` shows that its callers meet them.
- `VideoPlayer` is `VideoPlayer.java` and `VideoSurfaceView.java` over
  `PlayerOperations` (`Ops`): the queue of the serial executor, the task that runs,
  results on their way to the UI thread, and the surface callback that runs.
  `FrameStopReturns` then `Render` are the two halves of a surface that comes
  twice. `DeallocatePlayer` frees the player and `PointerCleared` clears the pointer, with
  other threads in between; `StopTask` is the test of the pointer and `StopNative` the call that
  follows it. The surface callbacks test nothing: with a pointer that is 0 they are a
  `NullCall`, and the process ends (`"crash"` in `callback` or `running`, after which
  nothing moves). A stop inside `player.c` when the player is freed ends the
  process too (`UseAfterFree`), or finds the memory as it was. `MayFree` is the contract
  of a client, because the code keeps none itself: it frees when no source
  is loaded or being opened, as far as it has been told; stops may be queued or
  running and the surface may be there. `told`, `disturbed` and `raced` (the pointer was
  cleared while a stop was past its test) are history.
- `FilePath` is the copy of the URL in `player_open_input`.
- `TimeReport` is `player_update_time`, `onUpdateTime` and `updateTimeRunnable`.
  The fields are plain, so both sides may touch them in any order.
- The `MC` modules give the constants their values.
- A module `XProofs` holds the theorems about `X`: `PacketQueueProofs`,
  `PipelineProofs`, `FrameClockProofs`, `PlayerOperationsProofs`, `SessionProofs`,
  `TimeReportProofs`, `FilePathProofs` and `VideoPlayerProofs`. They are composed as the
  models are: `PipelineProofs` instantiates `PacketQueueProofs`,
  `VideoPlayerProofs` instantiates `PlayerOperationsProofs`, and both the pipeline and the
  operations instantiate `SessionProofs`.

`Pipeline` and `PlayerOperations` overlap on purpose: the first has the packets, the
queue and the mutex of the threads under one controller, the second has all the
callers and resources over threads without packets. What the one takes for granted
the other shows: `Pipeline`'s `SF` of `FrameDue` is `FrameHandled` of
`FrameClock`; that the threads of `PlayerOperations` end once told to is
`HangsKnown` of `Pipeline`.

Definitions whose names start with `Mut` are wrong variants of the definition
that follows them. No specification uses them; they record for each property a
plausible bug that it catches.

## 3. Runs

| Run | Instance | Shows |
|---|---|---|
| `queue` | 2 producers, 3 elements, 3 values | `SlotOwnership`, `NoLostWakeup`, and `ImplementsFifo`: the ring implements `BoundedFifo`; a producer blocked on a full ring is released unless an abandoned slot blocks it; a complete front element is taken |
| `pipeline_safety` | 2 elements, 3 packets, one of a stream that is not captured, all faults | packets conserved, none left when idle, decoded alive and in order, end of stream last, contract of `queue_free`, no lost wake-up over the shared condition variable, codec flushed alone, queue used as its module allows, `Session` implemented |
| `pipeline_live` | same, a source that may stall | a stop that hangs does so in one of three known states; while not paused, and the decoder alive, every packet is consumed |
| `pipeline_decode_error` | fault `decode`, a source that answers | violation of `StopCompletes` (finding 1) |
| `time_report` | 3 times, 2 durations, at most 2 runnables waiting | the last report is finally shown whole; the end is shown |
| `time_report_torn` | same | violation of `DurationNotSmaller` (finding 2) |
| `clock_wild` | clock 0..9, jumping by 1, 3 and -2 | no frame rushed by a correction; every deadline is the clock plus the nap, normalized |
| `clock_steady` | clock 0..18 by single units, frames up to 8 ahead | a frame that comes in time is shown in time after any number of naps; no frame waits for ever |
| `clock_first_frame` | clock 0..9 by single units | violation of `NapsOnlyIfEarly` (finding 3) |
| `operations` | 2 callers, 2 surfaces, all faults, a source that may stall | acquired and released once, nothing dangles, locked window alive, a stop leaves no thread, `Session` implemented, operations return or hang in one of three known states |
| `player` | 2 results owed, 1 surface, a source that answers, threads that do not fail | the news is true; a freed player is empty, and only a stop past its test uses it; no assertion about the window fails; unless the process has ended on a freed player, stops are answered and callbacks return |
| `file_path` | URLs of up to 4 characters, a buffer of 4 | the buffer stays terminated; the URL asked for is opened, except behind a longer one |

**Bounds.** A ring of three elements holds two, so it is empty, half full, full
and wrapped, with both producers holding a slot and committing out of order. In
`Pipeline` a ring of two holds one element: every second push blocks, and the
end of stream meets a full ring. Three packets allow a skipped one between
two captured ones. `MaxPackets` bounds one session only, and sessions repeat
without bound, so states left by one session meet the next. Times in
`TimeReport` differ by less and by more than `Threshold`, and reach beyond the
known duration. `MaxPosted` bounds the runnables waiting for the UI thread.

In `FrameClock` a unit is 100 ms, so `Late` is 2 (between a frame that is late
and one that is corrected), `Cap` 3 and a second 4 with a word of two seconds:
one nap, several naps, a deadline that carries and one that falls exactly on the
second all occur. `LastArrival` is the last instant at which a frame or a resume
comes, so that the clock lasts until every frame is handled; that matters to
`FrameHandled` only. `MaxRefs` bounds the references of one window. The code never
gives back the one that `fromSurface` takes, so the count grows with every
surface, and the bound ends `Render` for it; three references let a surface come,
go and come again. With `MaxOwed` 2 a task runs while another is queued, or its
result is still posted when the next one starts; a surface callback can come
between any two steps. In `FilePath`, URLs as long as the buffer, blanks at
every place and successions of longer and shorter URLs occur.

**Fairness.** Each thread takes its next step if it can (`WF` per thread):
threads are scheduled, mutexes are held briefly, and no section under a mutex
loops. No fairness is assumed for users, for `Wake`, or for a blocked thread.
`SF` of `FrameDue`: the clock advances, so a frame that is found early again and
again is due some day (`FrameHandled`). `av_read_frame`, opening and probing are
only assumed to return when `interrupt` is set, because FFmpeg polls the callback;
`ResponsiveSpec` of `Pipeline` and the fairness of `VideoPlayer` add that the
source always answers or fails. `SF` of `Locks`: each waiting caller gets
`mutex_operation` some day. POSIX does not promise it, but every holder gives the
mutex up, and no caller takes it again without returning to its looper or executor first.
`SF` of `onPostExecute`: the UI looper serves messages in order and callbacks
cannot keep it away for ever. In `FrameClock` `SF` of `Arm` says that reading the
clock does not fail every time, and `SF` of the clock's steps that time goes on.

## 4. Findings

1. **A decoding error makes the next stop hang** (`pipeline_decode_error`,
   `decode.c:173-176`, 794-799). The decoder leaves through `goto stop` without
   having been asked to. At the next stop the reader sets `stop_streams` and waits for
   it to be cleared by a thread that no longer exists. `pthread_join` never
   returns and `mutex_operation` stays locked.
2. **The listener can be told a duration smaller than the time**
   (`time_report_torn`, `VideoPlayer.java:166-178, 272-278`), which the comment
   at `player.c:900-901` rules out: the UI thread reads the fields between two of
   the decoder's stores.

3. **The first frame naps although it is due** (`clock_first_frame`,
   `decode.c:551-613`). The correction for the first frame moves `start_time` so
   that the frame is due now, but the sleep is computed before it and used after it.

Besides, the models make visible:

- `HangsKnown` and `OperationsReturn`: a stop can hang in three ways only. In the first
  (finding 1, or a decoder that could not attach) the reader waits for a decoder that is
  gone. In the second the decoder waits for a reader that could not attach or was
  never created, since only a reader sets `stop_streams`. In the third the source
  is stalled and nobody interrupts it: `player_create_interrupt_callback`
  (`player.c:445`) has cleared an interrupt set while the session started, or
  `player_set_data_source`, which sets none, is closing the session before.
- A stop task queued behind an open that stalls does not start, so it cannot
  interrupt it; only `renderFrameStop`, which bypasses the executor, can.
- `jni_player_render_frame_stop` releases the window outside `mutex_operation`, when
  a session opened by the task thread may be drawing. `LockedWindowAlive` holds
  because `ANativeWindow_fromSurface` has already taken a reference that nobody gives back;
  without that leak (mutant `MutRender`) it fails.
- A surface that comes or goes after `DeallocatePlayer` ends the process: the callbacks
  (`VideoSurfaceView.java:63-80`) go on, and `jni_player_render` and
  `jni_player_render_frame_stop` lock a mutex of a player that is not there
  (`player.c:1078-1083`, 1095-1103; action `NullCall`). No property rules it out, because the code does not.
- A stop task that has tested `mNativePlayer` (`VideoPlayer.java:53-54`) can be overtaken by
  `DeallocatePlayer`, and then uses the freed player. `DeallocSafe` says that for a client
  that keeps `MayFree` this is the only way: once cleared, the pointer keeps later stops away.
- A surface callback between the open and the resume of `setDataSourceNative` makes the
  news "loaded" false; `NewsTrue` exempts it by `disturbed`, and nothing else.
- `RequestedOpened`: a URL without a blank that follows a longer one is opened with the tail of
  the longer one.
- A clock set backwards freezes the picture until it has caught up, because only
  late frames are corrected; `FramesNotRushed` allows that.

## 5. Proofs

Every invariant, every refinement and every action property that the passing runs
check is also proved for all values of the constants. Each module proves one
inductive invariant (`Inductive`, `Spec => []IInv` or the like) and
derives its properties from it. The runs keep their use: they show that the cases
the theorems speak of occur, that each property can fail, and what
the constants of a real session do.

**Packet queue.** `PacketQueueProofs` proves, for every ring size above zero, every
set of producers and every set of contents: `TypeCorrect` (`TypeOK`),
`Ownership` (`SlotOwnership`), `Wakeups` (`NoLostWakeup`) and
`Refinement` (`Spec => ImplementsFifo`). The assumptions are those of `PacketQueue`: the
size is positive; consumer, owner and producers are different threads;
what malloc leaves is among the contents; and no producer is called "ready" or
"lost", because the mapping writes a producer, or one of these two words, into the state of
an entry.

The inductive invariant is `IndInv`: the three properties and `FreedUnused`
(after `queue_free` no producer holds a slot). Without the last, a queue that is
created again would start with empty indices and a reserved slot outside them.
`GetNext` turns the modulo of `queue_get_next` into a case distinction.
`RangeGrows` and `RangeShrinks` say what moving an
index does to the used part of the ring; the step of `PushStart` and that of
`PopFinish` rest on them. `NoLostWakeup` is inductive given the types: each
action that makes a waited-for test true broadcasts.

The refinement needs the mapping turned round. `Entries` lists the ring
from `next_to_read` on; `CountIs`, `SlotAfter` and `SlotIs` say how many
entries it lists and that place `k` and slot `next_to_read + k - 1`, wrapped, determine each
other. With them `OneChanges` shows that an action on one slot changes one entry and
no other, whichever action it is (`HeldEntry`, `ReadEntry` say which one),
`PushStartFifo` that a reservation appends one, and `Pops` that giving the front element back
takes the first away. `FifoStep` then matches action with action; waiting,
waking and freeing an empty queue are stutters or `Close`.

**Threads.** `PipelineProofs` proves for every ring size, every number of packets,
every choice of packets that are not captured and every set of faults all nine
properties of `pipeline_safety`. `IInv` has five parts. `Skeleton` ties the labels of the
three threads to the flags, to the slot and the element held, and to `mutex_queue`, and says
who can be asleep. `Ring` is the ownership of the slots, with two facts that hold
because there is one producer: only the youngest element can be unready
(`HoleLast`), and a session starts with an empty queue (`EmptyAtStart`). `Books` is the
account of the packets: where each one is (`Carried`, `Counted`), that what is in the
queue is alive, in the order it was read, with nothing behind the end of the
stream, and what the reader and the decoder have in hand. `Ends` says what the threads leave:
an ended decoder an empty queue, an ended session no packet. `DecodeOrder`, for
example, is not inductive without `InOrder`, nor `NoLeak` without `Ends`, nor `Ends` without
`HoleLast`: an unready element in the middle would stop the drain
while packets remain behind it.

The pipeline sees the same ring through `Q` and, for the threads blocked by the queue
alone, through `PQ`. `QueueNext` shows that each step is a step of `PacketQueue` for
the latter, so types and ownership of the slots are not proved again but taken from
`PacketQueueProofs` (`QueueTypeNext`, `OwnershipNext`), `UsesQueue` follows, and
with `Refinement` so does `QueueIsFifo`: what the reader sends, the decoder
gets as through a bounded FIFO. `SessionKept` is `ImplementsSession`.

**Operations.** `PlayerOperationsProofs` proves for any callers, surfaces and faults
`TypeCorrect`, `Balanced`, `UsersServed`, `WindowAlive`, `Quiescent` and `Refinement`, the last
from the fact that every step of the operations is a step of `Session` or none
(`SessionStep`). None of the properties is inductive: what is released at a label depends on how far
the opening got. `Stock` says for each label exactly which pointers are held,
which threads may run, and what an error path knows: `OpeningInv` that every stage so far
succeeded, `ClosingInv` that what the labels behind it release is gone and the rest
is as it was acquired, `IdleInv` that between operations there is all or nothing.
`Windows` adds the second reference of a window in use.

**Session.** `SessionProofs` proves `StoreOutlivesWorkers`: in every `Session` no thread works
without the store. The two models that refine `Session` inherit it for all their
constants, as `QueueOutlivesThreads` of `PipelineProofs` and of `PlayerOperationsProofs`.

**Frame clock.** `FrameClockProofs` proves for all instants, time stamps and constants with
`MinSleep < Cap < Second` and a word of at least two seconds: `TypeCorrect`
(deadlines normalized), `DeadlinesExact` and `NotRushed`, for any clock, and `FramesPunctual`
for a steady one, assumed by name as `SteadyClock`: it moves by at most a unit and
waits for threads that can run. `DeadlineLemma` is the arithmetic of seconds, nanoseconds and carry. The invariant
`IInv` adds to the types that a nap is at most the cap and that the last frame
shown was at most `Late` behind its time (`LastOnTime`), which bounds from below the
distance to the next one, since later corrections only ever delay. `InTime` carries the punctual
frame through its naps: no nap ends behind the time the frame is due.

**Time reports.** `TimeReportProofs` proves `TypeCorrect` and `SettlesOnLast` for all
times, durations and thresholds. `SettledShown` is not inductive because it speaks only of
the moment when nothing is under way. `Stored` says that a field that need not be
stored any more holds what was reported, `Screen` that without a runnable waiting a field
that need not be read any more shows it, `Sound` that a report is within its
duration. A store that comes while the runnable reads is covered because
the store is followed by another runnable.

**Java player.** `VideoPlayerProofs` proves `TypeCorrect`, `WindowMatches`, `NewsHolds`
and `FreedAlone` for any set of surfaces, any bound on what is owed and any faults
of the threads (the run, which also checks liveness, is for none: after a fault a
stop may hang, and no news comes). The Java side calls `player.c`
through two threads, and `NativeNext` shows that each of its steps is a step of
`PlayerOperations`; so the whole invariant of that module holds underneath
(`NativeInv`), and with it `NativeSafe`: the theorems above, under every
interleaving of tasks and callbacks. `Effects` says what a step of
`player.c` can do to `op`, `playing`, `pause` and the window, in one disjunct for each way
of returning; the proof above it never looks into the stages again. The
invariant adds `UiLink` (the callback, its operation and the window),
`TaskLink` (the task and its operation), `News`, `Unloaded` and `FreedLink`. `NewsTrue` is
not inductive since it speaks only of a client that waits for nothing: `News` states it for the
youngest result, posted or not, and for the result a task that has returned from
`player.c` is about to post. `DeallocSafe` is not, because stops may still be under way
when the player is freed: `Unloaded` says that while the youngest result is not "loaded" and
no open is queued or running, no session is there and nobody is opening or closing one (`Idle`, which
`IdleKept` shows every step of `player.c` keeps unless a source is asked for), and `FreedLink`
that freeing keeps it so and which stops are past their test. What is `Idle` holds nothing and
runs no thread by the invariant of `player.c`.

**File path.** `FilePathProofs` proves `AlwaysTerminated` and `OpensRequested` for every
buffer size and every alphabet. The first blank of a URL and the first NUL of a
buffer are minima of sets of numbers, which `Least` obtains from
the well-foundedness of the natural numbers (`WFMin`); no induction over the
text is needed. `Clean` says that behind the longest copy so far nothing was ever written.

**Only model-checked.** Liveness, which with `ENABLED` is out of the prover's reach:
`PushersReleased`, `CommittedTaken`, `HangsKnown`, `PacketsConsumed`, `EndShown`,
`FrameHandled`, `OperationsReturn`, `StopTold` and `CallbacksReturn`. The three findings are
counterexamples and stay with TLC by their nature.

## 6. Not modelled

- `queue_wait_for`, which has no caller and only waits. An allocation that fails inside
  `queue_init` frees what it had and leaves no queue, a stutter of `PacketQueue`; its
  consequence is the failing case of `AllocQueues` in `PlayerOperations`;
- the window, the stages and the callers in `Pipeline`, the packets in
  `PlayerOperations`, and with them the reader's exit after a failed `av_dup_packet`: each has its module; that they agree is `Session` and the
  use both make of the same labels, not a refinement of one by the other;
- a failure of `pthread_attr_destroy`, whose positive code counts as success;
- `player_update_time` inside the decoder loop is not a step of `Pipeline`: it
  takes `mutex_queue` for a moment and changes nothing the threads test;
- what decoding an uninitialised packet does beyond returning an error;
- clients that open or show a source after freeing the player, or free it while a source is
  loaded or being opened: the code has nothing against them. Stops, surface callbacks and tasks after
  the free are modelled;
- what the memory model adds to `mNativePlayer`, a plain field read by the task thread: it
  is read and written in the order of the interleaving;
- the memory of `long` fields in Java, assumed to be read and written whole;
- FFmpeg and libyuv (binaries), pixel conversion, value types, generated build
  output (`.cxx`), template tests; audio, subtitles and seeking, which are
  commented out in the source.

## 7. Plan

In order of importance; 1 to 11 are done.

1. `BoundedFifo`, `PacketQueue`: the queue and its abstract specification.
2. `PacketQueueProofs`: types, ownership, wake-ups.
3. `Pipeline`: the threads, with failures, stop and restart; it composes `PacketQueue`.
4. `TimeReport`: the path of the playing time to the UI thread.
5. `FrameClock`, `FrameClockProofs`: `player_wait_for_frame`.
6. `PlayerOperations`, `Session`: the stages of `player_set_data_source`, their failures and
   release order, `interrupt`, the window, and the session they amount to.
7. `PlayerOperationsProofs`, `SessionProofs`: for any callers and faults.
8. `VideoPlayer`: the tasks, the surface callbacks and dealloc.
9. `FilePath`: the copy of the URL into a fixed buffer without terminator.
10. Proofs of what the runs check: `PacketQueue` implements `BoundedFifo`; types, contract,
   wake-ups, packets, order, `UsesQueue` and `ImplementsSession` of `Pipeline`;
   `TimeReport`, `FilePath`, `VideoPlayer`.
11. Proofs by composition: `QueueIsFifo`, `QueueOutlivesThreads`, `NativeSafe`.
12. Next: the safety part of `HangsKnown`, that a join which cannot return is in one of
   the three states named there, from `Skeleton`; what `BoundedFifo` promises its
   consumer, proved of it once and inherited as `Session`'s theorem is.
